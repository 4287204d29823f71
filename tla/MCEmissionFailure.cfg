CONSTANTS
    Node = {n1, n2, n3}
    Txn = {t1}
    None = None
    MaxSpan = 2
    MaxGeneration = 2
    MaxLag = 0
    MaxRestarts = 0
    EmitUntil = 2
    MaxSeq = 6
SPECIFICATION FairSpec
PROPERTY CallbackFindsEntry
CHECK_DEADLOCK FALSE
