CONSTANTS
    Calls = {c1, c2, c3}
    Workers = 2
    MaxChanges = 1
    MaxWaits = 1
    None = none
SPECIFICATION Spec
INVARIANTS
    TypeOK
    LoopAndPool
    NothingElseStops
PROPERTIES
    MeetsContract
    CallsEnd
    CirclesStay
CHECK_DEADLOCK FALSE
