CONSTANTS
    Node = {n1, n2, n3}
    Txn = {t1}
    None = None
    MaxSpan = 2
    MaxGeneration = 2
    MaxLag = 1
    MaxRestarts = 1
    EmitUntil = 2
    MaxSeq = 7
SPECIFICATION FairSpec
PROPERTY EntriesLeave
CHECK_DEADLOCK FALSE
