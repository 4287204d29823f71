CONSTANTS
    Node = {n1, n2, n3}
    Txn = {t1}
    None = None
    MaxSpan = 4
    MaxGeneration = 2
    MaxLag = 0
    MaxRestarts = 0
    EmitUntil = 2
    MaxSeq = 7
SPECIFICATION FairSpec
PROPERTY OutOfDirectory
CHECK_DEADLOCK FALSE
