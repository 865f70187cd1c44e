CONSTANTS
    Rows = {1, 2, 3, 4}
    QueueCap = 1
    BatchCap = 2
    HubBuffer = 1
    SlowLimit = 1
    WireCap = 1
    MaxEvents = 2
    MaxStops = 1
    MaxFaults = 1
    MaxZombies = 1
    MaxSaves = 2
    MaxOthers = 1
    RequiredOn <- MCRequiredOn
    EnabledOn <- MCEnabledOn
SPECIFICATION MCSpec
INVARIANTS EachRowInOnePlace GapsAreDrops CardFollowsStream FormShowsRecord
PROPERTIES Reconnects Drains SaveChangesWhatWasTyped
CHECK_DEADLOCK FALSE
