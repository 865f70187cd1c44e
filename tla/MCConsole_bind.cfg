CONSTANTS
    tab = tab  phone = phone  browser = tab  Scenes = {"tab"}
    Callers = {tab}
    Second = 3
    LockAfter = 2
    NumCodes = 1
    MaxNow = 6
    MaxTime = 6
    MaxBinds = 1
    MaxTickets = 1
    MaxSlot = 2
    MaxAdmin = 0
    MaxPw = 1
    MaxSecrets = 1
    MaxFails = 3
SPECIFICATION MCSpec
INVARIANT BoundSessionAccepted
CHECK_DEADLOCK FALSE
