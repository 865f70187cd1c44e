CONSTANTS
    tab = tab  phone = phone  browser = tab  Scenes = {"tab", "devices", "binding"}
    Callers = {tab, phone}
    Second = 3
    LockAfter = 2
    NumCodes = 1
    MaxNow = 8
    MaxTime = 4
    MaxBinds = 2
    MaxTickets = 1
    MaxSlot = 2
    MaxAdmin = 1
    MaxPw = 1
    MaxSecrets = 2
    MaxFails = 3
SPECIFICATION MCSpec
SYMMETRY Symm
INVARIANTS RecoveryOnce LockedAtThreshold Guided
PROPERTY StepsRise
CHECK_DEADLOCK FALSE
