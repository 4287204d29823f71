\* An owner directory of two pages.
SPECIFICATION Spec
CONSTANTS
    Account = {alice}
    Hash = {h1}
    Namespace = {n1}
    LedgerFlags = {}
    maxHookChainLength = 1
    MaxItems = 0
    OwnerPage = {0, 1}
    Absent = Absent
    Empty = Empty
    NoHook = NoHook
SYMMETRY SharedSymmetry
INVARIANT NeverBadLedger
