CONSTANTS
    t1 = t1
    t2 = t2
    p1 = p1
    p2 = p2
    m1 = m1
    m2 = m2
    Js = js
    None = none
    JavaThreads <- TwoThreads
    Proxies <- OneProxy
    Methods <- OneMethod
    Provides <- Single
    Ids = {1}
    ReuseIds = FALSE
    SyncCalls = FALSE
SPECIFICATION FairSpec
PROPERTY ResetReturns
CHECK_DEADLOCK FALSE
