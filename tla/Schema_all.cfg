SPECIFICATION SchemaSpec
CONSTANTS
    p = p
    q = q
    Slash = Slash
    Null = Null
    Names = {p, q}
    Spelling <- MCSpelling
    Unit = 2
    IntegerOf <- MCIntegerOf
    RealOf <- MCRealOf
    BoolOf <- MCBoolOf
    Schemas <- MCSchemas
    Documents <- MCDocuments
    Text <- MCText
    Lower <- MCLower
    Matches <- MCMatches
    IntEnd = 16
INVARIANTS
    ValuesJudged
    AbsentReported
    PathsLeadBack
CHECK_DEADLOCK FALSE
