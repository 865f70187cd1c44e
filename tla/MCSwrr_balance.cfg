\* Two requests of one instance: circuits open and close, an upstream is replaced,
\* Redis is lost and found; and every choice of weights up to 6.
CONSTANTS
    c1 = c1  c2 = c2  i1 = i1  i2 = i2  MaxWeight = 6
    Instances = {i1}
    Calls = {c1, c2}
    InstOf <- BothInI1
    Providers = {1, 2, 3}
    Configs <- Replaced
    Healthy <- AnyHealth
    Redis = "flaky"
SPECIFICATION MCSpec
INVARIANTS SharedBalanced CursorsBounded Smooth
