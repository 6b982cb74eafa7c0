CONSTANTS
    a = a
    b = b
    c = c
    d = d
    e = e
    Classes <- MCClasses
    Mentions <- MCMentions
    Missing = {e}
    Callers = {g1, g2}
    Requests <- MCRequests
SPECIFICATION Spec
INVARIANTS
    TypeOK
    DeclaredOnce
    DependenciesFirst
    ImportsDeclared
    SavedTogether
PROPERTIES
    GenerateEnds
CHECK_DEADLOCK FALSE
