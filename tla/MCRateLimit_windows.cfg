\* Two rules, in the memory of a node, over Redis, and when Redis comes and goes.
CONSTANTS
    c1 = c1  c2 = c2  c3 = c3  c4 = c4  i1 = i1
    Instances = {i1}
    Calls = {c1, c2, c3, c4}
    NumRules = 2
    MaxRequests <- OneThenTwo
    WindowLen <- TwoThenThree
    Deployments = {"none", "up", "flaky"}
    Lag = 1
    MaxNow = 3
SPECIFICATION Spec
SYMMETRY Symm
CHECK_DEADLOCK FALSE
INVARIANTS SpanCap HitsCounted
