---------------------------- MODULE EmissionFate ----------------------------
(***************************************************************************)
(* What the network promises the hook that emits: the transaction is       *)
(* applied in a ledger of its window, or it fails after it, never both.    *)
(* There are no nodes here, no rounds of consensus and no open ledgers.    *)
(***************************************************************************)
EXTENDS Naturals

CONSTANTS
    Txn,
    MaxSpan     \* how far ahead a window may end

VARIABLES
    ledger,     \* sequence of the last ledger
    emission    \* per Txn: what became of it, and its window

vars == <<ledger, emission>>

Emission(fate, first, last) == [fate |-> fate, first |-> first, last |-> last]

Init ==
    /\ ledger = 1
    /\ emission = [t \in Txn |-> Emission("new", 0, 0)]

\* One emission more, or none, on top of e.
Emits(e) ==
    \/ emission' = e
    \/ \E t \in Txn : \E last \in 0 .. ledger + 1 + MaxSpan : \E first \in 0 .. last :
          e[t].fate = "new" /\ emission' = [e EXCEPT ![t] = Emission("pending", first, last)]

Settles(t, fate) == [emission EXCEPT ![t].fate = fate]

\* A ledger is built: other transactions emit, emissions are applied and their
\* hooks emit, emissions whose window has passed fail.
Emit == Emits(emission) /\ UNCHANGED ledger

Apply(t) ==
    /\ emission[t].fate = "pending"
    /\ emission[t].first <= ledger + 1 /\ ledger + 1 <= emission[t].last
    /\ Emits(Settles(t, "applied"))
    /\ UNCHANGED ledger

Fail(t) ==
    /\ emission[t].fate = "pending" /\ emission[t].last < ledger + 1
    /\ emission' = Settles(t, "failed")
    /\ UNCHANGED ledger

Advance == ledger' = ledger + 1 /\ UNCHANGED emission

Next == Emit \/ (\E t \in Txn : Apply(t) \/ Fail(t)) \/ Advance

Spec == Init /\ [][Next]_vars
=============================================================================
