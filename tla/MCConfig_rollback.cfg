CONSTANTS
    Inst = {1}
    Admins = {1}
    MaxOps = 2
    MaxCrashes = 0
    MaxErrors = 0
SPECIFICATION MCSpec
INVARIANT RollbackTargetDiffers
CHECK_DEADLOCK FALSE
