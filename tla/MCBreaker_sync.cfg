\* Two instances, one call each; Redis comes and goes.
CONSTANTS
    c1 = c1  c2 = c2  i1 = i1  i2 = i2
    Instances = {i1, i2}
    Calls = {c1, c2}
    InstOf <- OneEach
    Threshold = 1
    ResetTime = 2
    Throttle = 1
    MaxNow = 3
    MaxFails = 1
    MaxWatchers = 1
SPECIFICATION FairSpec
INVARIANTS TypeOK InSync
PROPERTY Recovers
