CONSTANTS
    Explored = {"providers", "models", "keywords", "pii", "injection", "quotas", "ratelimits", "apikeys", "users", "backups"}
    Deep = {"apikeys"}
    MaxMine = 2
    MaxTheirs = 1
SPECIFICATION MCSpec
INVARIANTS ValuesStayWithTheirRow StaleHasCause
PROPERTIES ListCatchesUp WritesWhatWasMeant
CHECK_DEADLOCK FALSE
