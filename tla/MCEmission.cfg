CONSTANTS
    Node = {n1, n2, n3}
    Txn = {t1, t2}
    None = None
    MaxSpan = 2
    MaxGeneration = 2
    MaxLag = 0
    MaxRestarts = 1
    EmitUntil = 4
    MaxSeq = 7
SPECIFICATION Spec
SYMMETRY Symmetry
INVARIANTS OneFate FailsOnce FlagsKnown ChainsEnd
PROPERTIES AppliedInWindow KeepsPromise
CHECK_DEADLOCK FALSE
