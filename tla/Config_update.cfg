SPECIFICATION Spec
CONSTANTS
    a = a
    b = b
    on = on
    off = off
    Slash = Slash
    Null = Null
    Names = {a, b}
    Spelling <- MCSpelling
    Unit = 1
    IntegerOf <- NoNumber
    RealOf <- NoNumber
    BoolOf <- NoNumber
    Parts <- MCParts
    Documents <- MCDocuments
    FreshTypes = {"string"}
    Nums <- MCNums
    Strings <- MCStrings
    MaxLen = 2
    MaxOps = 3
    Copies = TRUE
INVARIANTS
    PathRoundTrip
PROPERTIES
    UpdateConverges
    DiffNamesChanges
    SetReadBack
CHECK_DEADLOCK FALSE
