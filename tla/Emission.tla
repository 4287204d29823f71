------------------------------ MODULE Emission ------------------------------
(***************************************************************************)
(* The life of an emitted transaction.                                     *)
(*                                                                         *)
(* A hook emits it while a ledger is built: an ltEMITTED_TXN entry joins   *)
(* the emitted directory of the ledger.  Every node that accepts a ledger  *)
(* injects into its next open ledger the entries whose first ledger it is, *)
(* and an EMIT_FAILURE pseudo transaction for each entry whose last ledger *)
(* has passed.  Consensus picks the transactions of the next ledger from   *)
(* the open ledgers; a transaction that was not picked is tried again.     *)
(* Applying either one removes the entry.                                  *)
(*                                                                         *)
(* A node may miss rounds and jump to the network's ledger, and may        *)
(* restart: it then forgets its open ledger and its HashRouter, where the  *)
(* flag SF_EMITTED says which emitted transactions the node may apply.     *)
(***************************************************************************)
EXTENDS Naturals, FiniteSets

CONSTANTS
    Node,
    Txn,            \* identifiers of emitted transactions
    None,
    MaxSpan,        \* 5: how far LastLedgerSequence may lie ahead
    MaxGeneration,  \* 10: the first generation that is refused
    MaxLag,         \* bound: closed ledgers that are not validated yet
    MaxRestarts,    \* bound: restarts of nodes
    EmitUntil,      \* bound: the last ledger whose hooks emit
    MaxSeq          \* bound: the last ledger

ASSUME EmissionAssumption ==
    /\ IsFiniteSet(Node) /\ None \notin Txn
    /\ MaxSpan \in Nat /\ MaxGeneration \in Nat /\ MaxLag \in Nat
    /\ MaxRestarts \in Nat /\ EmitUntil \in Nat /\ MaxSeq \in Nat

VARIABLES
    seq,        \* sequence of the network's last closed ledger
    valid,      \* of its last validated ledger
    emitted,    \* per Txn: status of its entry, and its fields
    closed,     \* transactions of the last closed ledger
    todo,       \* consensus set of the ledger being built, not tried yet
    round,      \* while it is built: the transactions seen in the round
    builders,   \* and the nodes that build it; none between rounds
    lcl,        \* per node: sequence of its last closed ledger
    open,       \* per node: transactions of its open ledger
    router,     \* per node: transactions with the flag SF_EMITTED
    cold,       \* nodes that restarted and accepted no ledger since
    restarts,
    applied, failed  \* per Txn, how often: history only

ledgerVars == <<seq, valid, emitted, closed>>
roundVars == <<todo, round, builders>>
nodeVars == <<lcl, open, router, cold, restarts>>
vars == <<seq, valid, emitted, closed, todo, round, builders, lcl, open, router,
          cold, restarts, applied, failed>>

\* An emitted transaction and the EMIT_FAILURE that names it.
Emitted(t) == [failure |-> FALSE, id |-> t]
EmitFailure(t) == [failure |-> TRUE, id |-> t]
Item == [failure : BOOLEAN, id : Txn]

Entry == [status : {"new", "pending", "gone"}, first : Nat, last : Nat,
          generation : Nat, parent : Txn \cup {None}]

TypeOK ==
    /\ seq \in Nat /\ valid \in Nat
    /\ emitted \in [Txn -> Entry]
    /\ closed \subseteq Item /\ todo \subseteq Item /\ round \subseteq Item
    /\ builders \subseteq Node
    /\ lcl \in [Node -> Nat]
    /\ open \in [Node -> SUBSET Item]
    /\ router \in [Node -> SUBSET Item]
    /\ cold \subseteq Node /\ restarts \in Nat
    /\ applied \in [Txn -> Nat] /\ failed \in [Txn -> Nat]

Init ==
    /\ seq = 1 /\ valid = 1
    /\ emitted = [t \in Txn |-> [status |-> "new", first |-> 0, last |-> 0,
                                 generation |-> 0, parent |-> None]]
    /\ closed = {} /\ todo = {} /\ round = {} /\ builders = {}
    /\ lcl = [n \in Node |-> 1]
    /\ open = [n \in Node |-> {}]
    /\ router = [n \in Node |-> {}]
    /\ cold = {} /\ restarts = 0
    /\ applied = [t \in Txn |-> 0] /\ failed = [t \in Txn |-> 0]

----------------------------------------------------------------------------
(* A hook emits.                                                           *)

Pending == {t \in Txn : emitted[t].status = "pending"}

IgnoreParent(item) == 0
otxn_generation(item) == IF item = None THEN 0 ELSE emitted[item.id].generation
etxn_generation(item) == otxn_generation(item) + 1

\* The ledger sequence the rules of emit are about.
ledgerSeq == valid + 1

InWindow(first, last) ==
    /\ last >= ledgerSeq + 1
    /\ last <= ledgerSeq + MaxSpan
    /\ first <= last

\* The hooks of a transaction (item, or None for one that was not emitted) leave
\* in the directory nothing, or one entry more.  All first ledgers that have
\* passed are alike.
HooksEmit(item, dir) ==
    \/ emitted' = dir
    \/ /\ etxn_generation(item) < MaxGeneration
       /\ seq < EmitUntil
       /\ \E t \in Txn, last \in ledgerSeq .. ledgerSeq + MaxSpan :
            \E first \in ledgerSeq .. last :
                /\ dir[t].status = "new"
                /\ InWindow(first, last)
                /\ emitted' = [dir EXCEPT ![t] =
                        [status |-> "pending", first |-> first, last |-> last,
                         generation |-> etxn_generation(item),
                         parent |-> IF item = None THEN None ELSE item.id]]

----------------------------------------------------------------------------
(* A round of consensus and the ledger it builds.                          *)

\* The nodes P propose their open ledgers.  What all propose is in, what at most
\* half of them propose is out, the rest may go either way.
ConsensusSets(P) ==
    LET Votes(x) == Cardinality({n \in P : x \in open[n]})
        all == UNION {open[n] : n \in P}
    IN  {S \in SUBSET all :
            /\ \A x \in all : Votes(x) = Cardinality(P) => x \in S
            /\ \A x \in S : 2 * Votes(x) > Cardinality(P)}

\* Nodes that may apply different parts of the set build different ledgers; the
\* network's is the one of a majority, the others have to catch up.
Close(P, S, F) ==
    LET B == {n \in P : router[n] \cap S = F}
    IN  /\ builders = {}
        /\ seq < MaxSeq /\ seq <= valid + MaxLag
        /\ 2 * Cardinality(B) > Cardinality(Node)
        /\ builders' = B
        /\ todo' = F
        /\ round' = UNION {open[n] : n \in P}
        /\ closed' = {}
        /\ UNCHANGED <<seq, valid, emitted, nodeVars, applied, failed>>

CloseRound ==
    \E P \in SUBSET {n \in Node : lcl[n] = seq} :
        \E S \in ConsensusSets(P) :
            \E F \in {router[n] \cap S : n \in P} : Close(P, S, F)

\* A transaction that was not emitted runs hooks that emit.
Origin ==
    /\ builders # {}
    /\ HooksEmit(None, emitted)
    /\ emitted' # emitted
    /\ UNCHANGED <<seq, valid, closed, roundVars, nodeVars, applied, failed>>

\* The entry is removed if it is there.
Removed(t) ==
    IF t \in Pending THEN [emitted EXCEPT ![t].status = "gone"] ELSE emitted
removeEmissionEntry(t) == Removed(t)
KeepEntry(t) == emitted
FailureRemoved(t) == Removed(t)

checkPriorTxAndLastLedger(t) == seq + 1 <= emitted[t].last

\* An emitted transaction is applied, with tesSUCCESS or a claimed fee.
ApplyEmitted(t) ==
    /\ Emitted(t) \in todo
    /\ checkPriorTxAndLastLedger(t)
    /\ HooksEmit(Emitted(t), removeEmissionEntry(t))
    /\ todo' = todo \ {Emitted(t)}
    /\ closed' = closed \cup {Emitted(t)}
    /\ applied' = [applied EXCEPT ![t] = @ + 1]
    /\ UNCHANGED <<seq, valid, round, builders, nodeVars, failed>>

\* It fails or is left for a later ledger.
NotApplied(t) ==
    /\ Emitted(t) \in todo
    /\ todo' = todo \ {Emitted(t)}
    /\ UNCHANGED <<ledgerVars, round, builders, nodeVars, applied, failed>>

\* What hook::apply peeks for the callback of the failure, in the view that
\* Change::doApply left.
emitFailure(t) == FailureRemoved(t)[t]

\* The callback reads an entry that is gone and gets no further.
applyEmitFailure(t) ==
    /\ EmitFailure(t) \in todo
    /\ emitted' = FailureRemoved(t)
    /\ todo' = todo \ {EmitFailure(t)}
    /\ closed' = closed \cup {EmitFailure(t)}
    /\ failed' = [failed EXCEPT ![t] = @ + 1]
    /\ UNCHANGED <<seq, valid, round, builders, nodeVars, applied>>

----------------------------------------------------------------------------
(* A node accepts ledger s, which holds the transactions txs.              *)

ExpiredEarly(s) == {t \in Pending : emitted[t].last <= s}
ExpiredNow(s) == {t \in Pending : emitted[t].last + 1 = s}
Expired(s) == {t \in Pending : emitted[t].last < s}

\* TxQ::accept, for the open ledger s.
NotHeld(s) == Pending \ Expired(s)
Due(s) == {t \in Pending \ Expired(s) : emitted[t].first = s}
Injected(s) ==
    {Emitted(t) : t \in Due(s)} \cup {EmitFailure(t) : t \in Expired(s)}
FlagDue(s) == Injected(s)
Flagged(s) == {Emitted(t) : t \in Pending} \cup {EmitFailure(t) : t \in Expired(s)}

\* What the open ledger s takes over of the transactions seen: pseudo
\* transactions cannot be applied to it.
Retried(seen, flags, s) ==
    {x \in (seen \cap flags) \ closed : ~x.failure /\ s <= emitted[x.id].last}

\* OpenLedger::accept: of the ones tried again some may fail.
CarriedOver(n, seen, s, dropped) == (Retried(seen, router[n], s) \ dropped) \cup Injected(s)

Accept ==
    /\ builders # {} /\ todo = {}
    /\ seq' = seq + 1
    /\ \E dropped \in SUBSET {x \in round : ~x.failure} :
        open' = [n \in Node |-> IF n \in builders
                                THEN CarriedOver(n, round, seq + 2, dropped)
                                ELSE open[n]]
    /\ router' = [n \in Node |-> IF n \in builders
                                 THEN router[n] \cup Flagged(seq + 2)
                                 ELSE router[n]]
    /\ lcl' = [n \in Node |-> IF n \in builders THEN seq + 1 ELSE lcl[n]]
    /\ cold' = cold \ builders
    /\ builders' = {} /\ round' = {}
    /\ UNCHANGED <<valid, emitted, closed, todo, restarts, applied, failed>>

\* A node that missed rounds switches to the network's last closed ledger.
switchLastClosedLedger(n) ==
    /\ builders = {} /\ lcl[n] < seq
    /\ \E dropped \in SUBSET {x \in open[n] : ~x.failure} :
        open' = [open EXCEPT ![n] = CarriedOver(n, @, seq + 1, dropped)]
    /\ router' = [router EXCEPT ![n] = @ \cup Flagged(seq + 1)]
    /\ lcl' = [lcl EXCEPT ![n] = seq]
    /\ cold' = cold \ {n}
    /\ UNCHANGED <<ledgerVars, roundVars, restarts, applied, failed>>

\* A node restarts from its last closed ledger, with an empty open ledger.
Restart(n) ==
    /\ builders = {} /\ restarts < MaxRestarts
    /\ open' = [open EXCEPT ![n] = {}]
    /\ router' = [router EXCEPT ![n] = {}]
    /\ cold' = cold \cup {n}
    /\ restarts' = restarts + 1
    /\ UNCHANGED <<ledgerVars, roundVars, lcl, applied, failed>>

Validate ==
    /\ valid' \in (valid + 1) .. seq
    /\ UNCHANGED <<seq, emitted, closed, roundVars, nodeVars, applied, failed>>

Round ==
    \/ CloseRound \/ Accept
    \/ \E t \in Txn : ApplyEmitted(t) \/ NotApplied(t) \/ applyEmitFailure(t)

Next ==
    \/ Round \/ Origin \/ Validate
    \/ \E n \in Node : switchLastClosedLedger(n) \/ Restart(n)

Spec == Init /\ [][Next]_vars

\* Rounds of consensus go on and their ledgers get validated.
FairSpec == Spec /\ WF_vars(Round) /\ WF_vars(Validate)

----------------------------------------------------------------------------
(* Properties.                                                             *)

\* An emission has one fate: one that an EMIT_FAILURE reported was
\* never applied and never will be, although nodes carry it from one open ledger
\* to the next and an EMIT_FAILURE does not look whether it was applied.
OneFate == \A t \in Txn : failed[t] > 0 => applied[t] = 0

\* A failure is reported once, although an EMIT_FAILURE is made anew by every
\* node in every ledger until one is applied.
FailsOnce == \A t \in Txn : failed[t] <= 1

\* An emitted transaction is applied in a ledger of its window only, although
\* nothing but the injection looks at FirstLedgerSequence.
AppliedInWindow ==
    [][\A t \in Txn : applied'[t] > applied[t] =>
            emitted[t].first <= seq + 1 /\ seq + 1 <= emitted[t].last]_vars

\* Every node on the last closed ledger may apply every emission that is pending
\* there, whatever rounds it missed, so the nodes build one ledger; only a node
\* that has accepted no ledger since its restart may not.
FlagsKnown ==
    builders = {} =>
        \A n \in Node \ cold : lcl[n] = seq => {Emitted(t) : t \in Pending} \subseteq router[n]

\* Emissions descend from emissions for fewer than MaxGeneration generations,
\* although each emission states its own generation.
ChainsEnd ==
    LET Depth[t \in Txn] ==
            IF emitted[t].parent = None THEN 1 ELSE Depth[emitted[t].parent] + 1
    IN  \A t \in Txn : emitted[t].status # "new" => Depth[t] < MaxGeneration

\* Every entry leaves the directory: applied, or failed once its window passed,
\* whatever nodes restart, lag or refuse it.
EntriesLeave == \A t \in Txn : t \in Pending ~> t \notin Pending

\* What became of an emission: the nodes and their open ledgers left out.
fate(t) ==
    CASE failed[t] > 0 -> "failed"
      [] failed[t] = 0 /\ applied[t] > 0 -> "applied"
      [] failed[t] = 0 /\ applied[t] = 0 ->
            IF emitted[t].status = "new" THEN "new" ELSE "pending"

Fates == [t \in Txn |-> [fate |-> fate(t), first |-> emitted[t].first,
                         last |-> emitted[t].last]]

Promise == INSTANCE EmissionFate WITH ledger <- seq, emission <- Fates

\* The nodes together keep the promise of EmissionFate: every emission is applied
\* in its window or fails after it, that fate is final, and its window stays.  A
\* second application (OutOfDirectory) leaves the fate as it is.
KeepsPromise == Promise!Spec

\* apply.cpp:61 "pass, this txn came out of the emission directory": the flag
\* SF_EMITTED lets a node apply only what the directory holds.
OutOfDirectory ==
    [][\A t \in Txn : applied'[t] > applied[t] => t \in Pending]_vars

\* applyHook.h:347 "if this is a callback from a failed emitted txn then this
\* optional becomes populated with the SLE": the callback of a failure finds the
\* entry of the emission that failed.
CallbackFindsEntry ==
    [][\A t \in Txn : failed'[t] > failed[t] => emitFailure(t).status = "pending"]_vars
=============================================================================
