CONSTANTS
    Size <- MCSize
    FloatSize = 8
    DoubleSize = 32
    Powers <- MCPowers
    NaN = NaN
    Classes <- MCClasses
    Supers <- MCSupers
    None = None
    Declarations <- MCDeclarations
    Arguments <- MCArguments
    JavaValues <- MCJavaValues
SPECIFICATION Spec
INVARIANTS
    TypeOK
    MembersFound
    SpecificFirst
    AcceptedConverts
    ArgumentsArrive
    ResultsArrive
    ComesBack
CHECK_DEADLOCK FALSE
