\* A stream that the output guard blocks.
CONSTANTS
    r1 = r1  r2 = r2  k1 = k1
    Requests = {r1}
    KeyOf <- OneKey
    MaxConns <- NoLimit
    PerKeyLimit = 1
    Providers = {"a", "b"}
    Failover = TRUE
    RetryCount = 1
    Streaming = {r1}
    Strategies <- Block
SPECIFICATION Spec
INVARIANT StreamAlwaysSettled
