SPECIFICATION Spec
CONSTANTS
    Keys = {k1, k2, k3, k4, k5}
    dirNodeMaxEntries = 2
    dirNodeMaxPages = 4
    MaxInserts = 7
SYMMETRY KeySymmetry
INVARIANTS
    TypeOK
    Linked
    HintsSound
    NoLogicError
    InsertionOrder
PROPERTY ImplementsEntrySet
CHECK_DEADLOCK FALSE
