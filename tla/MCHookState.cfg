SPECIFICATION Spec
CONSTANTS
    Account = {a, b}
    Namespace = {n1, n2}
    Key = {k1}
    Data = {d1}
    Empty = Empty
    None = None
    OpenNamespace = n1
    Grant <- GrantOpen
    BaseReserve = 1
    Increment = 2
    Fee = 1
    MaxBalance = 5
    max_state_modifications = 1
SYMMETRY Symmetry
INVARIANTS  NoOrphanState ReserveCovered ModificationsBounded  ReadsSeeWrites WrittenAsAsked
