CONSTANTS
    Inst = {1, 2}
    Admins = {1, 2}
    MaxOps = 2
    MaxCrashes = 1
    MaxErrors = 1
SPECIFICATION MCSpec
INVARIANTS ConfigTypeOK UnchangedIsCurrent
PROPERTIES Visible ViewCatchesUp
CHECK_DEADLOCK FALSE
