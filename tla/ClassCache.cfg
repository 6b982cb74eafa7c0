CONSTANTS
    Js = js
    Tasks = {w1}
    Names = {A, B}
    A = A
    B = B
    first = first
    copy = copy
    jar = jar
    broken = broken
    custom = custom
    Origins = {first, copy, jar, broken, custom}
    None = none
    Failed = failed
    Boot <- MCBoot
    Jars <- MCJars
    Custom <- MCCustom
    Unlinked <- MCUnlinked
    Lookups = 2
SPECIFICATION LiveSpec
INVARIANTS
    TypeOK
    ImportsShare
    WholeProxies
    ImportFindsClass
    WrapsItsClass
PROPERTIES
    EntriesStay
    ImportsEnd
