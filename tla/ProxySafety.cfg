CONSTANTS
    t1 = t1
    t2 = t2
    p1 = p1
    p2 = p2
    m1 = m1
    m2 = m2
    Js = js
    None = none
    JavaThreads <- TwoThreads
    Proxies <- TwoProxies
    Methods <- TwoMethods
    Provides <- Both
    Ids = {1, 2}
    ReuseIds = FALSE
    SyncCalls = TRUE
SPECIFICATION Spec
INVARIANTS
    TypeOK
    LateCallsFail
    NoMisdelivery
PROPERTIES
    MeetsContract
CHECK_DEADLOCK FALSE
