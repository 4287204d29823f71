\* Two accounts share one definition and disagree about its namespace.
SPECIFICATION Spec
CONSTANTS
    Account = {alice, bob}
    Hash = {h1}
    Namespace = {n1, n2}
    LedgerFlags = {}
    maxHookChainLength = 2
    MaxItems = 0
    OwnerPage = {0}
    Absent = Absent
    Empty = Empty
    NoHook = NoHook
SYMMETRY SharedSymmetry
INVARIANTS RefCountExact DefinitionsLive HookListed ReserveExact FlagsStripped NamespaceNormal
PROPERTY OthersUntouched
