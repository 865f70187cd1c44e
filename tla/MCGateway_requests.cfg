\* A buffered and a streamed request of one key, more retries than upstreams.
CONSTANTS
    r1 = r1  r2 = r2  k1 = k1
    Requests = {r1, r2}
    KeyOf <- OneKey
    MaxConns <- LimitLowered
    PerKeyLimit = 1
    Providers = {"a", "b"}
    Failover = TRUE
    RetryCount = 2
    Streaming = {r2}
    Strategies <- BlockOrReplace
SPECIFICATION FairSpec
INVARIANTS TypeOK SlotsCounted OneReply ReceiptFollowsUpstream AttemptsReported DeliveredErrorHasCause
PROPERTIES AdmissionRefined SlotsFreed
