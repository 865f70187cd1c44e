\* Period boundaries with the minute job, and races with the administrator.
CONSTANTS
    r1 = r1  r2 = r2  r3 = r3  k1 = k1  k2 = k2  gpt = gpt  mini = mini
    Requests = {r1, r2, r3}
    NumQuotas = 2
    Kind <- TwoKinds
    Period <- Daily
    QuotaKey <- EveryKey
    QuotaAlias <- WideThenGpt
    DegradeAlias <- SecondDegrades
    Keys = {k1, k2}
    Aliases = {gpt, mini}
    AnyKey = AnyKey  AnyAlias = AnyAlias  NoAlias = NoAlias
    ReqKey <- AllK1
    ReqAlias <- AllGpt
    Allowed <- AllAllowed
    Est <- EstTwo
    Usages = {0, 3}
    Limits = {1}
    InitLimit <- LimitRace
    InitRows = {1}
    MaxNow = 3
    MaxAdmin = 2
SPECIFICATION MCSpec
SYMMETRY Symm
INVARIANTS TypeOK RequestsAccounted PeriodCap FinalCharge TokensAccounted
