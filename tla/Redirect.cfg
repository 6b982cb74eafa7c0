CONSTANTS
    Printers = {t1, t2}
    Guards = {g1, g2}
    None = none
SPECIFICATION Spec
INVARIANTS
    TypeOK
    RedirectionStops
    CleanLinesArrive
    HandlersAreOwners
