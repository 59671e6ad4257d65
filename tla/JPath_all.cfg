SPECIFICATION Spec
CONSTANTS
    MaxText = 6
    Texts <- MCTexts
INVARIANTS
    TypeOK
    PartFound
    RefusedRightly
CHECK_DEADLOCK FALSE
