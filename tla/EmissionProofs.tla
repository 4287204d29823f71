--------------------------- MODULE EmissionProofs ----------------------------
(***************************************************************************)
(* An emission has one fate, in its window, and every chain of emissions   *)
(* comes to an end, for any number of nodes and emissions.  The inductive  *)
(* invariant says where copies of an emission may be: in the open ledger of *)
(* a node they belong to the ledger after the node's last closed one.  Last, *)
(* Emission implements EmissionFate.                                       *)
(***************************************************************************)
EXTENDS Emission, FiniteSetTheorems, TLAPS

\* The copies in the transactions X that are for ledger s.
Fits(X, s) ==
    \A t \in Txn :
        /\ Emitted(t) \in X =>
            /\ emitted[t].status # "new"
            /\ emitted[t].first <= s /\ s <= emitted[t].last
        /\ EmitFailure(t) \in X =>
            emitted[t].status # "new" /\ emitted[t].last < s

\* Their EMIT_FAILUREs find the entry.
FailuresPending(X) == \A t \in Txn : EmitFailure(t) \in X => t \in Pending

Fate(t) ==
    /\ emitted[t].status # "gone" => applied[t] = 0 /\ failed[t] = 0
    /\ failed[t] > 0 => emitted[t].last <= seq /\ applied[t] = 0 /\ failed[t] = 1

Positions ==
    \A n \in Node :
        /\ lcl[n] <= seq
        /\ Fits(open[n], lcl[n] + 1)
        /\ builders = {} /\ lcl[n] = seq =>
            /\ FailuresPending(open[n])
            /\ n \notin cold => {Emitted(t) : t \in Pending} \subseteq router[n]

Building ==
    /\ builders = {} => todo = {} /\ round = {}
    /\ todo \subseteq round
    /\ Fits(round, seq + 1)
    /\ FailuresPending(todo)

IInv == TypeOK /\ Positions /\ Building /\ \A t \in Txn : Fate(t)

----------------------------------------------------------------------------
(* Items and the directory.                                                *)

LEMMA Items ==
    \A t, u \in Txn :
        /\ Emitted(t) \in Item /\ EmitFailure(t) \in Item
        /\ Emitted(t) # EmitFailure(u)
        /\ Emitted(t) = Emitted(u) => t = u
        /\ EmitFailure(t) = EmitFailure(u) => t = u
        /\ Emitted(t).id = t /\ EmitFailure(t).id = t
        /\ Emitted(t).failure = FALSE /\ EmitFailure(t).failure = TRUE
BY Zenon DEF Emitted, EmitFailure, Item

\* Emitting changes an entry only from new to pending.
Grown(dir) ==
    /\ emitted' \in [Txn -> Entry]
    /\ \A t \in Txn :
        \/ emitted'[t] = dir[t]
        \/ dir[t].status = "new" /\ emitted'[t].status = "pending"

LEMMA HooksGrow ==
    ASSUME TypeOK, NEW item \in Item \cup {None}, NEW dir \in [Txn -> Entry],
           HooksEmit(item, dir)
    PROVE  Grown(dir)
<1>1. CASE emitted' = dir
    BY <1>1, Zenon DEF Grown
<1>2. CASE emitted' # dir
    <2>1. PICK t \in Txn, last \in ledgerSeq .. ledgerSeq + MaxSpan :
            \E first \in ledgerSeq .. last :
                /\ dir[t].status = "new"
                /\ emitted' = [dir EXCEPT ![t] =
                        [status |-> "pending", first |-> first, last |-> last,
                         generation |-> etxn_generation(item),
                         parent |-> IF item = None THEN None ELSE item.id]]
        BY <1>2, Zenon DEF HooksEmit
    <2>2. PICK first \in ledgerSeq .. last :
                /\ dir[t].status = "new"
                /\ emitted' = [dir EXCEPT ![t] =
                        [status |-> "pending", first |-> first, last |-> last,
                         generation |-> etxn_generation(item),
                         parent |-> IF item = None THEN None ELSE item.id]]
        BY <2>1, Zenon
    <2>3. ledgerSeq \in Nat /\ last \in Nat /\ first \in Nat
        BY EmissionAssumption DEF ledgerSeq, TypeOK
    <2>4. item # None => item.id \in Txn
        BY Zenon DEF Item
    <2>5. etxn_generation(item) \in Nat
        BY <2>4 DEF etxn_generation, otxn_generation, TypeOK, Entry
    <2> DEFINE par == IF item = None THEN None ELSE item.id
               g == etxn_generation(item)
    <2>6. par \in Txn \cup {None}
        BY <2>4, Zenon
    <2> HIDE DEF par, g
    <2>7. [status |-> "pending", first |-> first, last |-> last,
           generation |-> g, parent |-> par] \in Entry
        BY <2>3, <2>5, <2>6, Zenon DEF Entry, g
    <2>8. emitted' = [dir EXCEPT ![t] =
                [status |-> "pending", first |-> first, last |-> last,
                 generation |-> g, parent |-> par]]
        BY <2>2, Zenon DEF g, par
    <2> QED BY <2>2, <2>7, <2>8 DEF Grown
<1> QED BY <1>1, <1>2, Zenon

LEMMA RemovedFacts ==
    ASSUME TypeOK, NEW t \in Txn, emitted[t].status # "new"
    PROVE  /\ Removed(t) \in [Txn -> Entry]
           /\ Removed(t)[t].status = "gone"
           /\ Removed(t)[t].first = emitted[t].first
           /\ Removed(t)[t].last = emitted[t].last
           /\ \A u \in Txn \ {t} : Removed(t)[u] = emitted[u]
<1>1. emitted \in [Txn -> Entry] /\ emitted[t] \in Entry
    BY Zenon DEF TypeOK
<1>2. CASE t \in Pending
    <2>1. Removed(t) = [emitted EXCEPT ![t] = [emitted[t] EXCEPT !.status = "gone"]]
        BY <1>2, Zenon DEF Removed
    <2>2. [emitted[t] EXCEPT !.status = "gone"] \in Entry
        BY <1>1, Zenon DEF Entry
    <2> QED BY <1>1, <2>1, <2>2 DEF Entry
<1>3. CASE t \notin Pending
    BY <1>1, <1>3, Zenon DEF Removed, Pending, Entry
<1> QED BY <1>2, <1>3, Zenon

LEMMA InitIInv == Init => IInv
<1> SUFFICES ASSUME Init PROVE IInv
    BY Zenon
<1>1. TypeOK
    BY Zenon DEF Init, TypeOK, Entry
<1>2. Pending = {}
    BY Zenon DEF Init, Pending
<1> QED BY <1>1, <1>2 DEF Init, IInv, Positions, Building, Fate, Fits, FailuresPending

----------------------------------------------------------------------------
(* While a ledger is built.                                                *)

\* The entries that were there keep their window.
Kept ==
    \A t \in Txn : emitted[t].status # "new" =>
        /\ emitted'[t].status # "new"
        /\ emitted'[t].first = emitted[t].first
        /\ emitted'[t].last = emitted[t].last

LEMMA DirectoryStep ==
    ASSUME IInv, builders # {}, Kept, emitted' \in [Txn -> Entry],
           UNCHANGED <<seq, valid, round, builders, nodeVars>>,
           closed' \subseteq Item, todo' \subseteq todo,
           applied' \in [Txn -> Nat], failed' \in [Txn -> Nat],
           FailuresPending(todo)', \A t \in Txn : Fate(t)'
    PROVE  IInv'
<1>0. UNCHANGED <<lcl, open, router, cold, restarts>>
    BY Zenon DEF nodeVars
<1>1. TypeOK'
    BY <1>0, Zenon DEF IInv, TypeOK
<1>2. \A n \in Node : Fits(open[n], lcl[n] + 1)'
    <2> TAKE n \in Node
    <2>1. Fits(open[n], lcl[n] + 1)
        BY Zenon DEF IInv, Positions
    <2> QED BY <1>0, <2>1, Zenon DEF Fits, Kept
<1>3. Positions'
    BY <1>0, <1>2, Zenon DEF IInv, Positions
<1>4. Building'
    <2>1. Fits(round, seq + 1)
        BY Zenon DEF IInv, Building
    <2>2. Fits(round, seq + 1)'
        BY <2>1, Zenon DEF Fits, Kept
    <2> QED BY <2>2, Zenon DEF IInv, Building
<1> QED BY <1>1, <1>3, <1>4, Zenon DEF IInv

\* A step that emits and removes the entry of transaction t, if any.
LEMMA RemovingStep ==
    ASSUME IInv, NEW t \in Txn, emitted[t].status # "new", Grown(Removed(t))
    PROVE  /\ Kept
           /\ emitted' \in [Txn -> Entry]
           /\ emitted'[t].status = "gone" /\ emitted'[t].last = emitted[t].last
           /\ \A u \in Txn \ {t} :
                \/ emitted'[u] = emitted[u]
                \/ emitted[u].status = "new" /\ emitted'[u].status = "pending"
<1>1. TypeOK
    BY Zenon DEF IInv
<1>2. /\ Removed(t)[t].status = "gone"
      /\ Removed(t)[t].first = emitted[t].first
      /\ Removed(t)[t].last = emitted[t].last
      /\ \A u \in Txn \ {t} : Removed(t)[u] = emitted[u]
    BY <1>1, RemovedFacts, Zenon
<1>3. /\ emitted' \in [Txn -> Entry]
      /\ \A u \in Txn :
            \/ emitted'[u] = Removed(t)[u]
            \/ Removed(t)[u].status = "new" /\ emitted'[u].status = "pending"
    BY Zenon DEF Grown
<1>4. emitted'[t] = Removed(t)[t]
    BY <1>2, <1>3, Zenon
<1>5. \A u \in Txn \ {t} :
            \/ emitted'[u] = emitted[u]
            \/ emitted[u].status = "new" /\ emitted'[u].status = "pending"
    BY <1>2, <1>3, Zenon
<1>6. Kept
    <2> SUFFICES ASSUME NEW u \in Txn, emitted[u].status # "new"
                 PROVE  /\ emitted'[u].status # "new"
                        /\ emitted'[u].first = emitted[u].first
                        /\ emitted'[u].last = emitted[u].last
        BY Zenon DEF Kept
    <2>1. CASE u = t
        BY <1>2, <1>4, <2>1, Zenon
    <2>2. CASE u # t
        BY <1>5, <2>2, Zenon
    <2> QED BY <2>1, <2>2, Zenon
<1> QED BY <1>2, <1>3, <1>4, <1>5, <1>6, Zenon

LEMMA OriginStep ==
    ASSUME IInv, Origin
    PROVE  IInv'
<1>1. Grown(emitted)
    BY HooksGrow, Zenon DEF Origin, IInv, TypeOK
<1>2. emitted' \in [Txn -> Entry] /\ Kept
    BY <1>1, Zenon DEF Grown, Kept
<1>3. \A t \in Txn : t \in Pending => t \in Pending'
    BY <1>1, Zenon DEF Grown, Pending
<1>4. UNCHANGED <<seq, valid, closed, todo, round, builders, applied, failed>>
    BY Zenon DEF Origin, roundVars
<1>5. FailuresPending(todo)'
    BY <1>3, <1>4, Zenon DEF IInv, Building, FailuresPending
<1>6. ASSUME NEW t \in Txn PROVE Fate(t)'
    <2>1. Fate(t) /\ applied[t] \in Nat /\ failed[t] \in Nat
        BY Zenon DEF IInv, TypeOK
    <2> QED BY <1>1, <1>4, <2>1 DEF Grown, Fate
<1> QED BY <1>2, <1>4, <1>5, <1>6, DirectoryStep, Zenon DEF Origin, IInv, TypeOK

LEMMA ApplyEmittedStep ==
    ASSUME IInv, NEW t \in Txn, ApplyEmitted(t)
    PROVE  IInv'
<1> DEFINE x == Emitted(t)
<1>1. /\ x \in todo /\ todo' = todo \ {x} /\ closed' = closed \cup {x}
      /\ applied' = [applied EXCEPT ![t] = @ + 1]
      /\ UNCHANGED <<seq, valid, round, builders, nodeVars, failed>>
      /\ seq + 1 <= emitted[t].last
    BY Zenon DEF ApplyEmitted, checkPriorTxAndLastLedger
<1>2. TypeOK /\ x \in Item /\ builders # {}
    BY <1>1, Items, Zenon DEF IInv, Building
<1>3. emitted[t].status # "new"
    BY <1>1, Zenon DEF IInv, Building, Fits
<1>4. Grown(Removed(t))
    <2>1. HooksEmit(x, Removed(t))
        BY Zenon DEF ApplyEmitted, removeEmissionEntry
    <2> QED BY <1>2, <1>3, <2>1, HooksGrow, RemovedFacts, Zenon
<1>5. /\ Kept /\ emitted' \in [Txn -> Entry]
      /\ emitted'[t].status = "gone" /\ emitted'[t].last = emitted[t].last
      /\ \A u \in Txn \ {t} :
            \/ emitted'[u] = emitted[u]
            \/ emitted[u].status = "new" /\ emitted'[u].status = "pending"
    BY <1>3, <1>4, RemovingStep, Zenon
<1>6. /\ applied' \in [Txn -> Nat] /\ failed' \in [Txn -> Nat]
      /\ closed' \subseteq Item /\ todo' \subseteq todo
    BY <1>1, <1>2 DEF TypeOK
<1>7. FailuresPending(todo)'
    <2> SUFFICES ASSUME NEW u \in Txn, EmitFailure(u) \in todo' PROVE u \in Pending'
        BY Zenon DEF FailuresPending
    <2>1. u \in Pending /\ emitted[u].last < seq + 1
        BY <1>1, Zenon DEF IInv, Building, FailuresPending, Fits
    <2>2. u # t
        BY <1>1, <1>2, <2>1 DEF TypeOK, Entry
    <2> QED BY <1>5, <2>1, <2>2, Zenon DEF Pending
<1>8. ASSUME NEW u \in Txn PROVE Fate(u)'
    <2>1. Fate(u) /\ applied[u] \in Nat /\ failed[u] \in Nat
          /\ emitted[u].last \in Nat /\ seq \in Nat
        BY Zenon DEF IInv, TypeOK, Entry
    <2>2. CASE u = t
        <3>1. failed[t] = 0
            BY <1>1, <2>1, <2>2 DEF Fate
        <3> QED BY <1>1, <1>5, <2>2, <3>1 DEF Fate
    <2>3. CASE u # t
        <3>1. applied'[u] = applied[u] /\ failed'[u] = failed[u] /\ seq' = seq
            BY <1>1, <1>2, <2>3, Zenon DEF TypeOK
        <3> QED BY <1>5, <2>1, <2>3, <3>1 DEF Fate
    <2> QED BY <2>2, <2>3, Zenon
<1> HIDE DEF x
<1> QED BY <1>1, <1>2, <1>5, <1>6, <1>7, <1>8, DirectoryStep, Zenon

LEMMA FailureStep ==
    ASSUME IInv, NEW t \in Txn, applyEmitFailure(t)
    PROVE  IInv'
<1> DEFINE x == EmitFailure(t)
<1>1. /\ x \in todo /\ todo' = todo \ {x} /\ closed' = closed \cup {x}
      /\ failed' = [failed EXCEPT ![t] = @ + 1]
      /\ UNCHANGED <<seq, valid, round, builders, nodeVars, applied>>
    BY Zenon DEF applyEmitFailure
<1>2. TypeOK /\ x \in Item /\ builders # {}
    BY <1>1, Items, Zenon DEF IInv, Building
<1>3. emitted[t].status # "new" /\ t \in Pending /\ emitted[t].last < seq + 1
    BY <1>1, Zenon DEF IInv, Building, Fits, FailuresPending
<1>4. Grown(Removed(t))
    <2>1. HooksEmit(x, Removed(t))
        BY Zenon DEF applyEmitFailure, FailureRemoved, HooksEmit
    <2> QED BY <1>2, <1>3, <2>1, HooksGrow, RemovedFacts, Zenon
<1>5. /\ Kept /\ emitted' \in [Txn -> Entry]
      /\ emitted'[t].status = "gone" /\ emitted'[t].last = emitted[t].last
      /\ \A u \in Txn \ {t} :
            \/ emitted'[u] = emitted[u]
            \/ emitted[u].status = "new" /\ emitted'[u].status = "pending"
    BY <1>3, <1>4, RemovingStep, Zenon
<1>6. /\ applied' \in [Txn -> Nat] /\ failed' \in [Txn -> Nat]
      /\ closed' \subseteq Item /\ todo' \subseteq todo
    BY <1>1, <1>2 DEF TypeOK
<1>7. FailuresPending(todo)'
    <2> SUFFICES ASSUME NEW u \in Txn, EmitFailure(u) \in todo' PROVE u \in Pending'
        BY Zenon DEF FailuresPending
    <2>1. u \in Pending /\ u # t
        BY <1>1, Zenon DEF IInv, Building, FailuresPending
    <2> QED BY <1>5, <2>1, Zenon DEF Pending
<1>8. ASSUME NEW u \in Txn PROVE Fate(u)'
    <2>1. Fate(u) /\ applied[u] \in Nat /\ failed[u] \in Nat
          /\ emitted[u].last \in Nat /\ seq \in Nat
        BY Zenon DEF IInv, TypeOK, Entry
    <2>2. CASE u = t
        <3>1. failed[t] = 0 /\ applied[t] = 0
            BY <1>3, <2>1, <2>2, Zenon DEF Fate, Pending
        <3>2. failed'[t] = 1 /\ applied'[t] = 0 /\ seq' = seq
            BY <1>1, <1>2, <3>1 DEF TypeOK
        <3> QED BY <1>3, <1>5, <2>1, <2>2, <3>2 DEF Fate
    <2>3. CASE u # t
        <3>1. applied'[u] = applied[u] /\ failed'[u] = failed[u] /\ seq' = seq
            BY <1>1, <1>2, <2>3, Zenon DEF TypeOK
        <3> QED BY <1>5, <2>1, <2>3, <3>1 DEF Fate
    <2> QED BY <2>2, <2>3, Zenon
<1> HIDE DEF x
<1> QED BY <1>1, <1>2, <1>5, <1>6, <1>7, <1>8, DirectoryStep, Zenon

LEMMA NotAppliedStep ==
    ASSUME IInv, NEW t \in Txn, NotApplied(t)
    PROVE  IInv'
<1>1. /\ todo' \subseteq todo /\ todo # {}
      /\ UNCHANGED <<seq, valid, emitted, closed, round, builders, nodeVars, applied, failed>>
    BY Zenon DEF NotApplied, ledgerVars
<1>2. Kept /\ builders # {}
    BY <1>1, Zenon DEF Kept, IInv, Building
<1>3. FailuresPending(todo)'
    BY <1>1, Zenon DEF IInv, Building, FailuresPending, Pending
<1>4. \A u \in Txn : Fate(u)'
    BY <1>1, Zenon DEF IInv, Fate
<1> QED BY <1>1, <1>2, <1>3, <1>4, DirectoryStep, Zenon DEF IInv, TypeOK


----------------------------------------------------------------------------
(* Between the ledgers.                                                    *)

LEMMA CloseStep ==
    ASSUME IInv, NEW P \in SUBSET {n \in Node : lcl[n] = seq},
           NEW S \in ConsensusSets(P), NEW F \in {router[n] \cap S : n \in P},
           Close(P, S, F)
    PROVE  IInv'
<1> DEFINE B == {n \in P : router[n] \cap S = F}
           all == UNION {open[n] : n \in P}
<1>1. /\ builders = {} /\ 2 * Cardinality(B) > Cardinality(Node)
      /\ builders' = B /\ todo' = F /\ round' = all /\ closed' = {}
      /\ UNCHANGED <<seq, valid, emitted, lcl, open, router, cold, restarts, applied, failed>>
    BY Zenon DEF Close, nodeVars
<1>2. F \subseteq S /\ S \subseteq all
    BY Zenon DEF ConsensusSets
<1>3. B # {}
    <2>1. Cardinality(Node) \in Nat
        BY EmissionAssumption, FS_CardinalityType, Zenon
    <2>2. Cardinality({}) = 0
        BY FS_EmptySet, Zenon
    <2>3. ASSUME B = {} PROVE Cardinality(B) = 0
        BY <2>2, <2>3, Zenon
    <2> HIDE DEF B
    <2> QED BY <1>1, <2>1, <2>3, SMTT(30)
<1>4. /\ Fits(all, seq + 1) /\ FailuresPending(all)
    <2>1. \A n \in P : Fits(open[n], seq + 1) /\ FailuresPending(open[n])
        BY <1>1, Zenon DEF IInv, Positions
    <2> QED BY <2>1, Zenon DEF Fits, FailuresPending
<1>5. all \subseteq Item /\ B \subseteq Node
    BY DEF IInv, TypeOK
<1> HIDE DEF B, all
<1>6. TypeOK'
    BY <1>1, <1>2, <1>5, Zenon DEF IInv, TypeOK
<1>7. Positions'
    BY <1>1, <1>3, Zenon DEF IInv, Positions, Fits
<1>8. Building'
    <2>1. Fits(round, seq + 1)'
        BY <1>1, <1>4, Zenon DEF Fits
    <2>2. FailuresPending(todo)'
        BY <1>1, <1>2, <1>4, Zenon DEF FailuresPending, Pending
    <2> QED BY <1>1, <1>2, <1>3, <2>1, <2>2, Zenon DEF Building
<1>9. \A t \in Txn : Fate(t)'
    BY <1>1, Zenon DEF IInv, Fate
<1> QED BY <1>6, <1>7, <1>8, <1>9, Zenon DEF IInv

\* What a node takes into open ledger s fits s, if what it has seen belongs to s
\* or to an earlier ledger.
LEMMA CarriedFits ==
    ASSUME IInv, NEW n \in Node, NEW seen \in SUBSET Item, NEW s \in Nat,
           NEW dropped,
           \A t \in Txn : Emitted(t) \in seen =>
                emitted[t].status # "new" /\ emitted[t].first <= s
    PROVE  /\ CarriedOver(n, seen, s, dropped) \subseteq Item
           /\ Fits(CarriedOver(n, seen, s, dropped), s)
           /\ FailuresPending(CarriedOver(n, seen, s, dropped))
<1> DEFINE X == CarriedOver(n, seen, s, dropped)
<1>1. \A t \in Txn : emitted[t].first \in Nat /\ emitted[t].last \in Nat
    BY Zenon DEF IInv, TypeOK, Entry
<1>2. Due(s) \subseteq Txn /\ Expired(s) \subseteq Txn
    BY Zenon DEF Due, Expired, Pending
<1>3. X \subseteq Item
    BY <1>2, Items DEF CarriedOver, Retried, Injected
<1>4. ASSUME NEW t \in Txn, Emitted(t) \in X
      PROVE  /\ emitted[t].status # "new"
             /\ emitted[t].first <= s /\ s <= emitted[t].last
    <2>1. CASE Emitted(t) \in Retried(seen, router[n], s)
        BY <2>1, Items, Zenon DEF Retried
    <2>2. CASE Emitted(t) \in Injected(s)
        <3>1. t \in Due(s)
            BY <1>2, <2>2, Items DEF Injected
        <3> QED BY <1>1, <3>1 DEF Due, Expired, Pending
    <2> QED BY <1>4, <2>1, <2>2, Zenon DEF CarriedOver
<1>5. ASSUME NEW t \in Txn, EmitFailure(t) \in X
      PROVE  t \in Pending /\ emitted[t].last < s
    <2>1. EmitFailure(t) \notin Retried(seen, router[n], s)
        BY Items, Zenon DEF Retried
    <2>2. EmitFailure(t) \in Injected(s)
        BY <1>5, <2>1, Zenon DEF CarriedOver
    <2>3. t \in Expired(s)
        BY <1>2, <2>2, Items DEF Injected
    <2> QED BY <2>3, Zenon DEF Expired
<1> HIDE DEF X
<1>6. Fits(X, s) /\ FailuresPending(X)
    BY <1>4, <1>5, Zenon DEF Fits, FailuresPending, Pending
<1> QED BY <1>3, <1>6, Zenon DEF X

LEMMA FlaggedFacts ==
    ASSUME NEW s
    PROVE  Flagged(s) \subseteq Item /\ {Emitted(t) : t \in Pending} \subseteq Flagged(s)
<1>1. Pending \subseteq Txn /\ Expired(s) \subseteq Txn
    BY Zenon DEF Pending, Expired
<1> QED BY <1>1, Items DEF Flagged

LEMMA AcceptStep ==
    ASSUME IInv, Accept
    PROVE  IInv'
<1>1. PICK dropped \in SUBSET {x \in round : ~x.failure} :
        open' = [n \in Node |-> IF n \in builders
                                THEN CarriedOver(n, round, seq + 2, dropped)
                                ELSE open[n]]
    BY Zenon DEF Accept
<1>2. /\ builders # {} /\ todo = {} /\ todo' = {} /\ round' = {} /\ builders' = {}
      /\ seq' = seq + 1 /\ cold' = cold \ builders
      /\ router' = [n \in Node |-> IF n \in builders
                                   THEN router[n] \cup Flagged(seq + 2) ELSE router[n]]
      /\ lcl' = [n \in Node |-> IF n \in builders THEN seq + 1 ELSE lcl[n]]
      /\ UNCHANGED <<valid, emitted, closed, restarts, applied, failed>>
    BY Zenon DEF Accept
<1>3. TypeOK /\ seq \in Nat /\ round \subseteq Item
    BY Zenon DEF IInv, TypeOK
<1>4. \A t \in Txn : emitted[t].first \in Nat /\ emitted[t].last \in Nat
    BY Zenon DEF IInv, TypeOK, Entry
<1>5. \A t \in Txn : Emitted(t) \in round =>
            emitted[t].status # "new" /\ emitted[t].first <= seq + 2
    BY <1>3, <1>4 DEF IInv, Building, Fits
<1>6. ASSUME NEW n \in Node
      PROVE  /\ CarriedOver(n, round, seq + 2, dropped) \subseteq Item
             /\ Fits(CarriedOver(n, round, seq + 2, dropped), seq + 2)
             /\ FailuresPending(CarriedOver(n, round, seq + 2, dropped))
    <2>1. round \in SUBSET Item /\ seq + 2 \in Nat
        BY <1>3
    <2> QED BY <1>5, <2>1, CarriedFits, Zenon
<1>7. TypeOK'
    <2>1. open' \in [Node -> SUBSET Item]
        BY <1>1, <1>3, <1>6, Zenon DEF TypeOK
    <2>2. router' \in [Node -> SUBSET Item]
        BY <1>2, <1>3, FlaggedFacts, Zenon DEF TypeOK
    <2> QED BY <1>2, <1>3, <2>1, <2>2 DEF TypeOK
<1>8. Pending' = Pending
    BY <1>2, Zenon DEF Pending
<1>9. ASSUME NEW n \in Node
      PROVE  /\ lcl'[n] <= seq'
             /\ Fits(open[n], lcl[n] + 1)'
             /\ lcl'[n] = seq' =>
                    /\ FailuresPending(open[n])'
                    /\ n \notin cold' => {Emitted(t) : t \in Pending'} \subseteq router'[n]
    <2>1. CASE n \in builders
        <3>1. /\ open'[n] = CarriedOver(n, round, seq + 2, dropped)
              /\ lcl'[n] = seq + 1 /\ lcl'[n] + 1 = seq + 2
              /\ router'[n] = router[n] \cup Flagged(seq + 2)
            BY <1>1, <1>2, <1>3, <2>1
        <3>2. Fits(open[n], lcl[n] + 1)' /\ FailuresPending(open[n])'
            BY <1>2, <1>6, <1>8, <3>1, Zenon DEF Fits, FailuresPending
        <3>3. {Emitted(t) : t \in Pending'} \subseteq router'[n]
            BY <1>8, <3>1, FlaggedFacts, Zenon
        <3> QED BY <1>2, <1>3, <3>1, <3>2, <3>3, SMTT(30)
    <2>2. CASE n \notin builders
        <3>1. /\ lcl[n] <= seq /\ Fits(open[n], lcl[n] + 1) /\ lcl[n] \in Nat
              /\ open'[n] = open[n] /\ lcl'[n] = lcl[n]
            BY <1>1, <1>2, <1>3, <2>2, SMTT(30) DEF IInv, Positions, TypeOK
        <3>2. Fits(open[n], lcl[n] + 1)'
            BY <1>2, <3>1, Zenon DEF Fits
        <3> QED BY <1>2, <1>3, <3>1, <3>2, SMTT(30)
    <2> QED BY <2>1, <2>2, Zenon
<1>10. Positions'
    BY <1>9, Zenon DEF Positions
<1>11. Building'
    BY <1>2, Zenon DEF Building, Fits, FailuresPending
<1>12. ASSUME NEW t \in Txn PROVE Fate(t)'
    <2>1. Fate(t) /\ failed[t] \in Nat
        BY <1>3, Zenon DEF IInv, TypeOK
    <2> QED BY <1>2, <1>3, <1>4, <2>1, SMTT(30) DEF Fate
<1> QED BY <1>7, <1>10, <1>11, <1>12, Zenon DEF IInv

\* Steps of one node between rounds.
LEMMA NodeStep ==
    ASSUME IInv, NEW n \in Node, builders = {},
           UNCHANGED <<seq, valid, emitted, closed, todo, round, builders, applied, failed>>,
           TypeOK',
           \A m \in Node \ {n} : /\ lcl'[m] = lcl[m] /\ open'[m] = open[m]
                                 /\ router'[m] = router[m]
                                 /\ m \notin cold' => m \notin cold,
           lcl'[n] <= seq,
           Fits(open'[n], lcl'[n] + 1),
           lcl'[n] = seq => FailuresPending(open'[n]),
           lcl'[n] = seq /\ n \notin cold' => {Emitted(t) : t \in Pending} \subseteq router'[n]
    PROVE  IInv'
<1>1. Pending' = Pending
    BY Zenon DEF Pending
<1>2. Positions'
    <2> SUFFICES ASSUME NEW m \in Node
                 PROVE  /\ lcl'[m] <= seq'
                        /\ Fits(open[m], lcl[m] + 1)'
                        /\ lcl'[m] = seq' =>
                            /\ FailuresPending(open[m])'
                            /\ m \notin cold' =>
                                {Emitted(t) : t \in Pending'} \subseteq router'[m]
        BY Zenon DEF Positions
    <2>1. CASE m = n
        BY <1>1, <2>1, Zenon DEF Fits, FailuresPending
    <2>2. CASE m # n
        <3>1. /\ lcl[m] <= seq /\ Fits(open[m], lcl[m] + 1)
              /\ lcl[m] = seq =>
                    /\ FailuresPending(open[m])
                    /\ m \notin cold => {Emitted(t) : t \in Pending} \subseteq router[m]
            BY Zenon DEF IInv, Positions
        <3>2. /\ lcl'[m] = lcl[m] /\ open'[m] = open[m] /\ router'[m] = router[m]
              /\ m \notin cold' => m \notin cold
            BY <2>2, Zenon
        <3>3. Fits(open[m], lcl[m] + 1)'
            BY <3>1, <3>2, Zenon DEF Fits
        <3>4. lcl[m] = seq => FailuresPending(open[m])'
            BY <1>1, <3>1, <3>2, Zenon DEF FailuresPending
        <3> QED BY <1>1, <3>1, <3>2, <3>3, <3>4, Zenon
    <2> QED BY <2>1, <2>2, Zenon
<1>3. Building'
    BY <1>1, Zenon DEF IInv, Building, Fits, FailuresPending
<1>4. \A t \in Txn : Fate(t)'
    BY SMTT(30) DEF IInv, Fate
<1> QED BY <1>2, <1>3, <1>4, Zenon DEF IInv

LEMMA SwitchStep ==
    ASSUME IInv, NEW n \in Node, switchLastClosedLedger(n)
    PROVE  IInv'
<1>1. PICK dropped \in SUBSET {x \in open[n] : ~x.failure} :
        open' = [open EXCEPT ![n] = CarriedOver(n, open[n], seq + 1, dropped)]
    BY Zenon DEF switchLastClosedLedger
<1>2. /\ builders = {} /\ cold' = cold \ {n}
      /\ router' = [router EXCEPT ![n] = router[n] \cup Flagged(seq + 1)]
      /\ lcl' = [lcl EXCEPT ![n] = seq]
      /\ UNCHANGED <<seq, valid, emitted, closed, todo, round, builders, restarts,
                     applied, failed>>
    BY Zenon DEF switchLastClosedLedger, ledgerVars, roundVars
<1>3. TypeOK /\ seq \in Nat /\ open[n] \in SUBSET Item /\ seq + 1 \in Nat
      /\ lcl[n] \in Nat /\ lcl[n] <= seq
    BY DEF IInv, TypeOK, Positions
<1>4. \A t \in Txn : Emitted(t) \in open[n] =>
            emitted[t].status # "new" /\ emitted[t].first <= seq + 1
    <2> SUFFICES ASSUME NEW t \in Txn, Emitted(t) \in open[n]
                 PROVE  emitted[t].status # "new" /\ emitted[t].first <= seq + 1
        BY Zenon
    <2>1. emitted[t].status # "new" /\ emitted[t].first <= lcl[n] + 1
        BY Zenon DEF IInv, Positions, Fits
    <2>2. emitted[t].first \in Nat
        BY <1>3, Zenon DEF TypeOK, Entry
    <2> QED BY <1>3, <2>1, <2>2, SMTT(30)
<1> DEFINE X == CarriedOver(n, open[n], seq + 1, dropped)
<1>5. X \subseteq Item /\ Fits(X, seq + 1) /\ FailuresPending(X)
    BY <1>3, <1>4, CarriedFits, Zenon
<1> HIDE DEF X
<1>6. TypeOK'
    <2>1. open' \in [Node -> SUBSET Item]
        BY <1>1, <1>3, <1>5, Zenon DEF TypeOK, X
    <2>2. router' \in [Node -> SUBSET Item]
        BY <1>2, <1>3, FlaggedFacts, Zenon DEF TypeOK
    <2> QED BY <1>2, <1>3, <2>1, <2>2, Zenon DEF TypeOK
<1>7. /\ open'[n] = X /\ lcl'[n] = seq
      /\ router'[n] = router[n] \cup Flagged(seq + 1)
    BY <1>1, <1>2, <1>3, Zenon DEF TypeOK, X
<1>8. {Emitted(t) : t \in Pending} \subseteq router'[n]
    BY <1>7, FlaggedFacts, Zenon
<1>9. \A m \in Node \ {n} : /\ lcl'[m] = lcl[m] /\ open'[m] = open[m]
                            /\ router'[m] = router[m]
                            /\ m \notin cold' => m \notin cold
    BY <1>1, <1>2, <1>3, Zenon DEF TypeOK
<1>10. lcl'[n] <= seq
    BY <1>3, <1>7
<1>11. Fits(open'[n], lcl'[n] + 1) /\ FailuresPending(open'[n])
    BY <1>5, <1>7, Zenon
<1> QED BY <1>2, <1>6, <1>8, <1>9, <1>10, <1>11, NodeStep, Zenon

LEMMA RestartStep ==
    ASSUME IInv, NEW n \in Node, Restart(n)
    PROVE  IInv'
<1>1. /\ builders = {} /\ cold' = cold \cup {n} /\ restarts' = restarts + 1
      /\ open' = [open EXCEPT ![n] = {}] /\ router' = [router EXCEPT ![n] = {}]
      /\ UNCHANGED <<seq, valid, emitted, closed, todo, round, builders, lcl,
                     applied, failed>>
    BY SMTT(30) DEF Restart, ledgerVars, roundVars
<1>2. TypeOK /\ lcl[n] <= seq
    BY Zenon DEF IInv, Positions
<1>3. TypeOK'
    BY <1>1, <1>2 DEF TypeOK
<1>4. open'[n] = {} /\ n \in cold' /\ lcl'[n] = lcl[n]
    BY <1>1, <1>2, Zenon DEF TypeOK
<1>5. \A m \in Node \ {n} : /\ lcl'[m] = lcl[m] /\ open'[m] = open[m]
                            /\ router'[m] = router[m]
                            /\ m \notin cold' => m \notin cold
    BY <1>1, <1>2, Zenon DEF TypeOK
<1>6. Fits(open'[n], lcl'[n] + 1) /\ FailuresPending(open'[n])
    BY <1>4, Zenon DEF Fits, FailuresPending
<1> QED BY <1>1, <1>2, <1>3, <1>4, <1>5, <1>6, NodeStep, Zenon

LEMMA QuietStep ==
    ASSUME IInv, Validate \/ UNCHANGED vars
    PROVE  IInv'
<1>1. /\ UNCHANGED <<seq, emitted, closed, todo, round, builders, applied, failed>>
      /\ UNCHANGED <<lcl, open, router, cold, restarts>>
    BY Zenon DEF Validate, vars, roundVars, nodeVars
<1>2. valid' \in Nat
    BY DEF Validate, vars, IInv, TypeOK
<1>3. TypeOK'
    BY <1>1, <1>2, Zenon DEF IInv, TypeOK
<1>4. Pending' = Pending
    BY <1>1, Zenon DEF Pending
<1>5. Positions'
    BY <1>1, <1>4, SMTT(30) DEF IInv, Positions, Fits, FailuresPending
<1>6. Building'
    BY <1>1, <1>4, Zenon DEF IInv, Building, Fits, FailuresPending
<1>7. \A t \in Txn : Fate(t)'
    BY <1>1, Zenon DEF IInv, Fate
<1> QED BY <1>3, <1>5, <1>6, <1>7, Zenon DEF IInv

LEMMA NextIInv == IInv /\ [Next]_vars => IInv'
<1> SUFFICES ASSUME IInv, [Next]_vars PROVE IInv'
    BY Zenon
<1>1. CASE CloseRound
    BY <1>1, CloseStep, Zenon DEF CloseRound
<1>2. CASE Accept
    BY <1>2, AcceptStep, Zenon
<1>3. ASSUME NEW t \in Txn, ApplyEmitted(t) \/ NotApplied(t) \/ applyEmitFailure(t)
      PROVE  IInv'
    BY <1>3, ApplyEmittedStep, NotAppliedStep, FailureStep, Zenon
<1>4. CASE Origin
    BY <1>4, OriginStep, Zenon
<1>5. CASE Validate \/ UNCHANGED vars
    BY <1>5, QuietStep, Zenon
<1>6. ASSUME NEW n \in Node, switchLastClosedLedger(n) \/ Restart(n)
      PROVE  IInv'
    BY <1>6, SwitchStep, RestartStep, Zenon
<1> QED BY <1>1, <1>2, <1>3, <1>4, <1>5, <1>6, Zenon DEF Next, Round

\* The inductive invariant: copies of an emission are only where they fit, and
\* the history of an emission agrees with its entry.
THEOREM IInvHolds == Spec => []IInv
BY InitIInv, NextIInv, PTL DEF Spec

----------------------------------------------------------------------------
(* What it implies.                                                        *)

\* Entries, open ledgers and flags keep their types through rounds, jumps and
\* restarts.
THEOREM EmissionTypeCorrect == Spec => []TypeOK
<1>1. IInv => TypeOK
    BY Zenon DEF IInv
<1> QED BY <1>1, IInvHolds, PTL

\* For any number of nodes and emissions, and any lags and restarts: an emission
\* that was reported as failed is never applied.
THEOREM EmissionsHaveOneFate == Spec => []OneFate
<1>1. IInv => OneFate
    BY Zenon DEF IInv, Fate, OneFate
<1> QED BY <1>1, IInvHolds, PTL

\* No emission is reported as failed twice.
THEOREM FailuresReportedOnce == Spec => []FailsOnce
<1>1. IInv => FailsOnce
    <2> SUFFICES ASSUME IInv, NEW t \in Txn PROVE failed[t] <= 1
        BY Zenon DEF FailsOnce
    <2>1. failed[t] \in Nat /\ Fate(t)
        BY Zenon DEF IInv, TypeOK
    <2> QED BY <2>1 DEF Fate
<1> QED BY <1>1, IInvHolds, PTL

\* Nodes on the network's ledger may apply all that is pending there.
THEOREM FlagsStayKnown == Spec => []FlagsKnown
<1>1. IInv => FlagsKnown
    BY Zenon DEF IInv, Positions, FlagsKnown
<1> QED BY <1>1, IInvHolds, PTL

\* No node's carrying over, and no lag, gets an emission applied outside its
\* window.
THEOREM AlwaysInWindow == Spec => AppliedInWindow
<1> DEFINE Step == \A t \in Txn : applied'[t] > applied[t] =>
                        emitted[t].first <= seq + 1 /\ seq + 1 <= emitted[t].last
<1>1. IInv /\ [Next]_vars => [Step]_vars
    <2> SUFFICES ASSUME IInv, Next, NEW t \in Txn, applied'[t] > applied[t]
                 PROVE  emitted[t].first <= seq + 1 /\ seq + 1 <= emitted[t].last
        BY Zenon
    <2>1. applied \in [Txn -> Nat] /\ ~(applied[t] > applied[t])
        BY DEF IInv, TypeOK
    <2>2. applied' # applied
        BY <2>1, Zenon
    <2>3. PICK u \in Txn : ApplyEmitted(u)
        BY <2>2, Zenon DEF Next, Round, CloseRound, Close, Accept, Origin, Validate, NotApplied,
                    applyEmitFailure, switchLastClosedLedger, Restart
    <2>4. u = t
        BY <2>1, <2>3, Zenon DEF ApplyEmitted
    <2>5. Emitted(t) \in round
        BY <2>3, <2>4, Zenon DEF ApplyEmitted, IInv, Building
    <2> QED BY <2>5, Zenon DEF IInv, Building, Fits
<1>2. Spec => [][Step]_vars
    BY <1>1, IInvHolds, PTL DEF Spec
<1> QED BY <1>2, Zenon DEF AppliedInWindow

----------------------------------------------------------------------------
(* The nodes keep the promise of EmissionFate.  Hooks look at the          *)
(* validated ledger when they check a window, the promise at the last      *)
(* closed one, so the invariant also needs that the first never overtakes  *)
(* the second.                                                             *)

FateName == {"new", "pending", "applied", "failed"}

\* The emissions of the directory dir, with the fates f.
Seen(f, dir) ==
    [t \in Txn |-> [fate |-> f[t], first |-> dir[t].first, last |-> dir[t].last]]

\* What HooksEmit does to dir, as far as the promise tells.
OneMore(dir) ==
    \/ emitted' = dir
    \/ \E t \in Txn : \E r \in Entry :
          /\ dir[t].status = "new" /\ r.status = "pending"
          /\ r.last \in 0 .. seq + 1 + MaxSpan /\ r.first \in 0 .. r.last
          /\ emitted' = [dir EXCEPT ![t] = r]

LEMMA HooksEmitOne ==
    ASSUME TypeOK, valid <= seq, NEW item \in Item \cup {None},
           NEW dir \in [Txn -> Entry], HooksEmit(item, dir)
    PROVE  OneMore(dir)
<1>1. CASE emitted' = dir
    BY <1>1, Zenon DEF OneMore
<1>2. CASE emitted' # dir
    <2>1. PICK t \in Txn, last \in ledgerSeq .. ledgerSeq + MaxSpan :
            \E first \in ledgerSeq .. last :
                /\ dir[t].status = "new"
                /\ emitted' = [dir EXCEPT ![t] =
                        [status |-> "pending", first |-> first, last |-> last,
                         generation |-> etxn_generation(item),
                         parent |-> IF item = None THEN None ELSE item.id]]
        BY <1>2, Zenon DEF HooksEmit
    <2>2. PICK first \in ledgerSeq .. last :
                /\ dir[t].status = "new"
                /\ emitted' = [dir EXCEPT ![t] =
                        [status |-> "pending", first |-> first, last |-> last,
                         generation |-> etxn_generation(item),
                         parent |-> IF item = None THEN None ELSE item.id]]
        BY <2>1, Zenon
    <2>3. first \in Nat /\ last \in Nat /\ last \in 0 .. seq + 1 + MaxSpan /\ first \in 0 .. last
        BY EmissionAssumption DEF ledgerSeq, TypeOK
    <2> DEFINE par == IF item = None THEN None ELSE item.id
               g == etxn_generation(item)
               r == [status |-> "pending", first |-> first, last |-> last,
                     generation |-> g, parent |-> par]
    <2>4. item # None => item.id \in Txn
        BY Zenon DEF Item
    <2>5. g \in Nat
        BY <2>4 DEF etxn_generation, otxn_generation, TypeOK, Entry
    <2>6. par \in Txn \cup {None}
        BY <2>4, Zenon
    <2>7. emitted' = [dir EXCEPT ![t] = r]
        BY <2>2, Zenon
    <2> HIDE DEF par, g
    <2>8. r \in Entry /\ r.status = "pending" /\ r.first = first /\ r.last = last
        BY <2>3, <2>5, <2>6, Zenon DEF Entry
    <2> HIDE DEF r
    <2>9. r.last \in 0 .. seq + 1 + MaxSpan /\ r.first \in 0 .. r.last
        BY <2>3, <2>8, Zenon
    <2> QED BY <2>2, <2>7, <2>8, <2>9, Zenon DEF OneMore
<1> QED BY <1>1, <1>2, Zenon

LEMMA EmitsSeen ==
    ASSUME NEW dir \in [Txn -> Entry], NEW f \in [Txn -> FateName], NEW g \in [Txn -> FateName],
           OneMore(dir), Fates' = Seen(g, emitted'),
           \A t \in Txn : dir[t].status = "new" => f[t] = "new",
           \A t \in Txn : emitted'[t] = dir[t] => g[t] = f[t],
           \A t \in Txn : dir[t].status = "new" /\ emitted'[t].status = "pending"
                            => g[t] = "pending"
    PROVE  Promise!Emits(Seen(f, dir))
<1>1. CASE emitted' = dir
    <2>1. Fates' = Seen(f, dir)
        BY <1>1, Zenon DEF Seen
    <2> QED BY <2>1, Zenon DEF Promise!Emits
<1>2. CASE emitted' # dir
    <2>1. PICK t \in Txn : \E r \in Entry :
          /\ dir[t].status = "new" /\ r.status = "pending"
          /\ r.last \in 0 .. seq + 1 + MaxSpan /\ r.first \in 0 .. r.last
          /\ emitted' = [dir EXCEPT ![t] = r]
        BY <1>2, Zenon DEF OneMore
    <2>2. PICK r \in Entry :
          /\ dir[t].status = "new" /\ r.status = "pending"
          /\ r.last \in 0 .. seq + 1 + MaxSpan /\ r.first \in 0 .. r.last
          /\ emitted' = [dir EXCEPT ![t] = r]
        BY <2>1, Zenon
    <2>3. emitted'[t] = r /\ \A u \in Txn \ {t} : emitted'[u] = dir[u]
        BY <2>2, Zenon
    <2>4. g[t] = "pending" /\ \A u \in Txn \ {t} : g[u] = f[u]
        BY <2>2, <2>3, Zenon
    <2> DEFINE e == Seen(f, dir)
               new == Promise!Emission("pending", r.first, r.last)
    <2>5. /\ Seen(g, emitted') = [u \in Txn |-> Seen(g, emitted')[u]]
          /\ Seen(g, emitted')[t] = new
          /\ \A u \in Txn \ {t} : Seen(g, emitted')[u] = e[u]
        BY <2>3, <2>4, Zenon DEF Seen, Promise!Emission
    <2>6. e = [u \in Txn |-> e[u]] /\ e[t].fate = "new"
        BY <2>2, Zenon DEF Seen
    <2> HIDE DEF e, new
    <2>7. Fates' = [e EXCEPT ![t] = new]
        BY <2>5, <2>6, Zenon
    <2>8. \E last \in 0 .. seq + 1 + MaxSpan : \E first \in 0 .. last :
            e[t].fate = "new" /\ Fates' = [e EXCEPT ![t] = Promise!Emission("pending", first, last)]
        BY <2>2, <2>6, <2>7, Zenon DEF new
    <2> QED BY <2>8, Zenon DEF Promise!Emits, e
<1> QED BY <1>1, <1>2, Zenon

----------------------------------------------------------------------------
(* The fates.                                                              *)

\* The fate of t in words, before and after a step.
LEMMA FateValue ==
    ASSUME TypeOK, TypeOK', NEW t \in Txn
    PROVE  /\ failed[t] > 0 => fate(t) = "failed"
           /\ failed[t] = 0 /\ applied[t] > 0 => fate(t) = "applied"
           /\ failed[t] = 0 /\ applied[t] = 0 =>
                fate(t) = IF emitted[t].status = "new" THEN "new" ELSE "pending"
           /\ failed'[t] > 0 => fate(t)' = "failed"
           /\ failed'[t] = 0 /\ applied'[t] > 0 => fate(t)' = "applied"
           /\ failed'[t] = 0 /\ applied'[t] = 0 =>
                fate(t)' = IF emitted'[t].status = "new" THEN "new" ELSE "pending"
           /\ failed[t] \in Nat /\ applied[t] \in Nat
           /\ failed'[t] \in Nat /\ applied'[t] \in Nat
           /\ fate(t) \in FateName /\ fate(t)' \in FateName
<1>1. /\ failed[t] \in Nat /\ applied[t] \in Nat
      /\ failed'[t] \in Nat /\ applied'[t] \in Nat
    BY Zenon DEF TypeOK
<1>2. /\ failed[t] > 0 => fate(t) = "failed"
      /\ failed[t] = 0 /\ applied[t] > 0 => fate(t) = "applied"
      /\ failed[t] = 0 /\ applied[t] = 0 =>
           fate(t) = IF emitted[t].status = "new" THEN "new" ELSE "pending"
    BY <1>1 DEF fate
<1>3. /\ failed'[t] > 0 => fate(t)' = "failed"
      /\ failed'[t] = 0 /\ applied'[t] > 0 => fate(t)' = "applied"
      /\ failed'[t] = 0 /\ applied'[t] = 0 =>
           fate(t)' = IF emitted'[t].status = "new" THEN "new" ELSE "pending"
    BY <1>1 DEF fate
<1>4. fate(t) \in FateName
    BY <1>1, <1>2 DEF FateName
<1>5. fate(t)' \in FateName
    BY <1>1, <1>3 DEF FateName
<1> QED BY <1>1, <1>2, <1>3, <1>4, <1>5, Zenon

LEMMA FatesSeen ==
    /\ Fates = Seen([t \in Txn |-> fate(t)], emitted)
    /\ Fates' = Seen([t \in Txn |-> fate(t)'], emitted')
BY Zenon DEF Fates, Seen

LEMMA SettlesSeen ==
    ASSUME NEW t \in Txn, NEW x, NEW f, NEW dir,
           f[t] = x, dir[t].first = emitted[t].first, dir[t].last = emitted[t].last,
           \A u \in Txn \ {t} : f[u] = fate(u) /\ dir[u] = emitted[u]
    PROVE  Seen(f, dir) = Promise!Settles(t, x)
<1>1. Promise!Settles(t, x) = [Fates EXCEPT ![t] = [Fates[t] EXCEPT !.fate = x]]
    BY Zenon DEF Promise!Settles
<1>2. Fates[t] = [fate |-> fate(t), first |-> emitted[t].first, last |-> emitted[t].last]
    BY Zenon DEF Fates
<1>3. [Fates[t] EXCEPT !.fate = x] = Seen(f, dir)[t]
    BY <1>2 DEF Seen
<1>4. Fates = [u \in Txn |-> Fates[u]] /\ Seen(f, dir) = [u \in Txn |-> Seen(f, dir)[u]]
    BY Zenon DEF Fates, Seen
<1>5. \A u \in Txn \ {t} : Fates[u] = Seen(f, dir)[u]
    BY Zenon DEF Fates, Seen
<1> QED BY <1>1, <1>3, <1>4, <1>5

\* Nothing that the promise tells changes.
LEMMA SameFates ==
    ASSUME UNCHANGED <<emitted, applied, failed>>
    PROVE  Fates' = Fates
BY Zenon DEF Fates, fate

\* The hooks of a transaction that was not emitted emit.
LEMMA OriginKeeps ==
    ASSUME IInv, IInv', valid <= seq, Origin
    PROVE  Promise!Emit
<1> DEFINE f == [t \in Txn |-> fate(t)]
           g == [t \in Txn |-> fate(t)']
<1>1. TypeOK /\ TypeOK' /\ emitted \in [Txn -> Entry] /\ \A t \in Txn : Fate(t)
    BY Zenon DEF IInv, TypeOK
<1>2. HooksEmit(None, emitted) /\ UNCHANGED <<seq, applied, failed>>
    BY Zenon DEF Origin
<1>3. OneMore(emitted)
    BY <1>1, <1>2, HooksEmitOne, Zenon
<1>4. f \in [Txn -> FateName] /\ g \in [Txn -> FateName]
    BY <1>1, FateValue, Zenon
<1>5. \A t \in Txn : emitted[t].status = "new" => f[t] = "new"
    BY <1>1, FateValue, Zenon DEF Fate
<1>6. \A t \in Txn : emitted'[t] = emitted[t] => g[t] = f[t]
    BY <1>1, <1>2, FateValue DEF fate
<1>7. \A t \in Txn : emitted[t].status = "new" /\ emitted'[t].status = "pending"
                        => g[t] = "pending"
    BY <1>1, <1>2, FateValue, Zenon DEF Fate
<1> HIDE DEF f, g
<1>8. Fates = Seen(f, emitted) /\ Fates' = Seen(g, emitted')
    BY FatesSeen, Zenon DEF f, g
<1>9. Promise!Emits(Fates)
    BY <1>1, <1>3, <1>4, <1>5, <1>6, <1>7, <1>8, EmitsSeen, Zenon
<1> QED BY <1>2, <1>9, Zenon DEF Promise!Emit

\* An emitted transaction is applied.  Its entry may be gone since it was applied
\* before: then only its hooks' emission shows.
LEMMA ApplyKeeps ==
    ASSUME IInv, IInv', valid <= seq, NEW t \in Txn, ApplyEmitted(t)
    PROVE  Promise!Emit \/ Promise!Apply(t)
<1> DEFINE f == [u \in Txn |-> IF u = t THEN "applied" ELSE fate(u)]
           g == [u \in Txn |-> fate(u)']
           dir == Removed(t)
<1>1. /\ HooksEmit(Emitted(t), dir) /\ UNCHANGED <<seq, failed>>
      /\ applied' = [applied EXCEPT ![t] = @ + 1]
      /\ Emitted(t) \in todo /\ seq + 1 <= emitted[t].last
    BY Zenon DEF ApplyEmitted, removeEmissionEntry, checkPriorTxAndLastLedger
<1>2. /\ TypeOK /\ TypeOK' /\ emitted \in [Txn -> Entry]
      /\ seq \in Nat /\ applied \in [Txn -> Nat] /\ failed \in [Txn -> Nat]
      /\ \A u \in Txn : Fate(u)
    BY Zenon DEF IInv, TypeOK
<1>3. emitted[t].status # "new" /\ emitted[t].first <= seq + 1
    BY <1>1, Zenon DEF IInv, Building, Fits
<1>4. /\ dir \in [Txn -> Entry] /\ dir[t].status = "gone"
      /\ dir[t].first = emitted[t].first /\ dir[t].last = emitted[t].last
      /\ \A u \in Txn \ {t} : dir[u] = emitted[u]
    BY <1>2, <1>3, RemovedFacts, Zenon
<1>5. failed[t] = 0
    <2>1. failed[t] > 0 => emitted[t].last <= seq
        BY <1>2, Zenon DEF Fate
    <2>2. emitted[t].last \in Nat /\ failed[t] \in Nat
        BY <1>2, Zenon DEF Entry
    <2> QED BY <1>1, <1>2, <2>1, <2>2
<1>6. /\ applied'[t] > 0 /\ failed'[t] = 0
      /\ \A u \in Txn \ {t} : applied'[u] = applied[u] /\ failed'[u] = failed[u]
    BY <1>1, <1>2, <1>5
<1> HIDE DEF dir
<1>7. OneMore(dir)
    BY <1>1, <1>2, <1>4, HooksEmitOne, Items, Zenon DEF dir
<1>8. f \in [Txn -> FateName] /\ g \in [Txn -> FateName]
    BY <1>2, FateValue, Zenon DEF FateName
<1>9. \A u \in Txn : dir[u].status = "new" => f[u] = "new"
    BY <1>2, <1>4, FateValue, Zenon DEF Fate
<1>10. g[t] = "applied"
    BY <1>2, <1>6, FateValue, Zenon
<1>11. \A u \in Txn : emitted'[u] = dir[u] => g[u] = f[u]
    BY <1>2, <1>4, <1>6, <1>10 DEF fate
<1>12. \A u \in Txn : dir[u].status = "new" /\ emitted'[u].status = "pending" => g[u] = "pending"
    BY <1>2, <1>4, <1>6, FateValue, Zenon DEF Fate
<1> HIDE DEF g
<1>13. Fates' = Seen(g, emitted')
    BY FatesSeen, Zenon DEF g
<1>14. Promise!Emits(Seen(f, dir))
    <2> HIDE DEF f
    <2> QED BY <1>4, <1>7, <1>8, <1>9, <1>11, <1>12, <1>13, EmitsSeen, Zenon
<1>15. Seen(f, dir) = Promise!Settles(t, "applied")
    BY <1>4, SettlesSeen, Zenon
<1>16. CASE applied[t] = 0
    <2>1. fate(t) = "pending"
        BY <1>2, <1>3, <1>5, <1>16, FateValue, Zenon
    <2>2. Fates[t].fate = "pending" /\ Fates[t].first = emitted[t].first /\ Fates[t].last = emitted[t].last
        BY <2>1, Zenon DEF Fates
    <2> QED BY <1>1, <1>3, <1>14, <1>15, <2>2, Zenon DEF Promise!Apply
<1>17. CASE applied[t] # 0
    <2>1. fate(t) = "applied"
        BY <1>2, <1>5, <1>17, FateValue
    <2>2. Seen(f, dir) = Fates
        BY <1>4, <2>1, Zenon DEF Seen, Fates
    <2> QED BY <1>1, <1>14, <2>2, Zenon DEF Promise!Emit
<1> QED BY <1>16, <1>17, Zenon

\* An EMIT_FAILURE is applied.
LEMMA FailureKeeps ==
    ASSUME IInv, IInv', NEW t \in Txn, applyEmitFailure(t)
    PROVE  Promise!Fail(t)
<1>1. /\ emitted' = Removed(t) /\ UNCHANGED <<seq, applied>>
      /\ failed' = [failed EXCEPT ![t] = @ + 1]
      /\ EmitFailure(t) \in todo
    BY Zenon DEF applyEmitFailure, FailureRemoved
<1>2. /\ TypeOK /\ TypeOK' /\ failed \in [Txn -> Nat] /\ applied \in [Txn -> Nat]
      /\ \A u \in Txn : Fate(u)
    BY Zenon DEF IInv, TypeOK
<1>3. emitted[t].status = "pending" /\ emitted[t].last < seq + 1
    BY <1>1, Zenon DEF IInv, Building, Fits, FailuresPending, Pending
<1>4. /\ emitted'[t].first = emitted[t].first /\ emitted'[t].last = emitted[t].last
      /\ \A u \in Txn \ {t} : emitted'[u] = emitted[u]
    BY <1>1, <1>2, <1>3, RemovedFacts, Zenon
<1>5. failed[t] = 0 /\ applied[t] = 0
    BY <1>2, <1>3, Zenon DEF Fate
<1>6. failed'[t] > 0 /\ \A u \in Txn \ {t} : failed'[u] = failed[u] /\ applied'[u] = applied[u]
    BY <1>1, <1>2, <1>5
<1>7. fate(t) = "pending" /\ fate(t)' = "failed"
    BY <1>2, <1>3, <1>5, <1>6, FateValue, Zenon
<1>8. \A u \in Txn \ {t} : fate(u)' = fate(u)
    <2> TAKE u \in Txn \ {t}
    <2>1. emitted'[u] = emitted[u] /\ failed'[u] = failed[u] /\ applied'[u] = applied[u]
        BY <1>4, <1>6, Zenon
    <2> QED BY <2>1, Zenon DEF fate
<1> DEFINE g == [u \in Txn |-> fate(u)']
<1>9. Fates' = Promise!Settles(t, "failed")
    <2>1. g[t] = "failed" /\ \A u \in Txn \ {t} : g[u] = fate(u)
        BY <1>7, <1>8, Zenon
    <2>2. Fates' = Seen(g, emitted')
        BY FatesSeen, Zenon
    <2> HIDE DEF g
    <2> QED BY <1>4, <2>1, <2>2, SettlesSeen
<1>10. Fates[t].fate = "pending" /\ Fates[t].last < seq + 1
    BY <1>3, <1>7, Zenon DEF Fates
<1> QED BY <1>1, <1>9, <1>10, Zenon DEF Promise!Fail

----------------------------------------------------------------------------
(* The refinement.                                                         *)

\* Only ledgers that were closed get validated.
LEMMA ValidatedWasClosed == Spec => [](valid <= seq)
<1> DEFINE Lag == valid <= seq
<1>1. Init => Lag
    BY DEF Init
<1>2. IInv /\ Lag /\ [Next]_vars => Lag'
    <2> SUFFICES ASSUME IInv, Lag, [Next]_vars PROVE Lag'
        BY Zenon
    <2>1. valid \in Nat /\ seq \in Nat
        BY Zenon DEF IInv, TypeOK
    <2>2. CASE Validate
        BY <2>1, <2>2 DEF Validate
    <2>3. CASE Accept
        <3>1. seq' = seq + 1 /\ valid' = valid
            BY <2>3, Zenon DEF Accept
        <3> QED BY <2>1, <3>1
    <2>4. CASE ~Validate /\ ~Accept
        <3>1. UNCHANGED <<seq, valid>>
            BY <2>4, Zenon DEF Next, Round, CloseRound, Close, Origin, ApplyEmitted, NotApplied,
                applyEmitFailure, switchLastClosedLedger, Restart, ledgerVars, vars
        <3> QED BY <3>1, Zenon
    <2> QED BY <2>2, <2>3, <2>4, Zenon
<1> HIDE DEF Lag
<1>3. Spec => []Lag
    BY <1>1, <1>2, IInvHolds, PTL DEF Spec
<1> QED BY <1>3, Zenon DEF Lag

\* For any number of nodes and emissions, whatever nodes lag, restart or carry
\* over: all that their rounds do to the emissions is what EmissionFate allows.
THEOREM NodesKeepPromise == Spec => KeepsPromise
<1> DEFINE Lag == valid <= seq
           PVars == <<seq, Fates>>
<1>1. Init => Promise!Init
    <2> SUFFICES ASSUME Init PROVE Promise!Init
        BY Zenon
    <2>1. \A t \in Txn : fate(t) = "new" /\ emitted[t].first = 0 /\ emitted[t].last = 0
        BY DEF Init, fate
    <2>2. Fates = [t \in Txn |-> Promise!Emission("new", 0, 0)]
        BY <2>1, Zenon DEF Fates, Promise!Emission
    <2> QED BY <2>2, Zenon DEF Init, Promise!Init
<1>2. IInv /\ IInv' /\ Lag /\ [Next]_vars => [Promise!Next]_PVars
    <2> SUFFICES ASSUME IInv, IInv', valid <= seq, [Next]_vars PROVE [Promise!Next]_PVars
        BY Zenon
    <2>1. CASE Origin
        BY <2>1, OriginKeeps, Zenon DEF Promise!Next
    <2>2. ASSUME NEW t \in Txn, ApplyEmitted(t) PROVE Promise!Next
        BY <2>2, ApplyKeeps, Zenon DEF Promise!Next
    <2>3. ASSUME NEW t \in Txn, applyEmitFailure(t) PROVE Promise!Next
        BY <2>3, FailureKeeps, Zenon DEF Promise!Next
    <2>4. CASE Accept
        <3>1. seq' = seq + 1 /\ UNCHANGED <<emitted, applied, failed>>
            BY <2>4, Zenon DEF Accept
        <3> QED BY <3>1, SameFates, Zenon DEF Promise!Next, Promise!Advance
    <2>5. CASE ~Origin /\ ~Accept /\ ~(\E t \in Txn : ApplyEmitted(t) \/ applyEmitFailure(t))
        <3>1. UNCHANGED <<seq, emitted, applied, failed>>
            BY <2>5, Zenon DEF Next, Round, CloseRound, Close, NotApplied, Validate,
                switchLastClosedLedger, Restart, ledgerVars, vars
        <3> QED BY <3>1, SameFates, Zenon
    <2> QED BY <2>1, <2>2, <2>3, <2>4, <2>5, Zenon
<1>3. Spec => []Lag
    BY ValidatedWasClosed, Zenon
<1> HIDE DEF Lag
<1> QED BY <1>1, <1>2, <1>3, IInvHolds, PTL
        DEF Spec, KeepsPromise, Promise!Spec, Promise!vars

----------------------------------------------------------------------------
(* Emissions that descend from emissions.                                  *)

\* Every emission in dir is one generation after the one it descends from.
Descends(dir) ==
    \A t \in Txn :
        /\ dir[t].status = "new" => dir[t].parent = None
        /\ dir[t].status # "new" =>
            /\ dir[t].generation < MaxGeneration
            /\ IF dir[t].parent = None THEN dir[t].generation = 1
               ELSE /\ dir[dir[t].parent].status # "new"
                    /\ dir[t].generation = dir[dir[t].parent].generation + 1

\* An emission more, by the hooks of a transaction that was emitted itself or not.
LEMMA EmitDescends ==
    ASSUME TypeOK, NEW item \in Item \cup {None}, NEW dir \in [Txn -> Entry], Descends(dir),
           HooksEmit(item, dir),
           item # None => /\ dir[item.id].status # "new"
                          /\ dir[item.id].generation = emitted[item.id].generation
    PROVE  Descends(emitted')
<1>1. CASE emitted' = dir
    BY <1>1, Zenon
<1>2. CASE emitted' # dir
    <2> DEFINE par == IF item = None THEN None ELSE item.id
               g == etxn_generation(item)
    <2>1. PICK t \in Txn : \E first, last :
            /\ dir[t].status = "new" /\ g < MaxGeneration
            /\ emitted' = [dir EXCEPT ![t] =
                    [status |-> "pending", first |-> first, last |-> last,
                     generation |-> g, parent |-> par]]
        BY <1>2 DEF HooksEmit
    <2>2. /\ emitted'[t].status = "pending" /\ emitted'[t].generation = g /\ emitted'[t].parent = par
          /\ \A u \in Txn : u # t => emitted'[u] = dir[u]
          /\ dir[t].status = "new" /\ g < MaxGeneration
        BY <2>1
    <2>3. item # None => item.id \in Txn
        BY Zenon DEF Item
    <2>4. par = None <=> item = None
        BY <2>3, EmissionAssumption, Zenon
    <2>5. item = None => g = 1
        BY DEF etxn_generation, otxn_generation
    <2>6. item # None => par = item.id /\ par \in Txn /\ par # t /\ dir[par].status # "new"
                         /\ g = dir[par].generation + 1
        BY <2>2, <2>3, Zenon DEF etxn_generation, otxn_generation
    <2> HIDE DEF par, g
    <2>7. \A u \in Txn : dir[u].parent \in Txn \cup {None}
        BY Zenon DEF Entry
    <2>8. ASSUME NEW u \in Txn, u # t
          PROVE  /\ emitted'[u].status = "new" => emitted'[u].parent = None
                 /\ emitted'[u].status # "new" =>
                     /\ emitted'[u].generation < MaxGeneration
                     /\ IF emitted'[u].parent = None THEN emitted'[u].generation = 1
                        ELSE /\ emitted'[emitted'[u].parent].status # "new"
                             /\ emitted'[u].generation = emitted'[emitted'[u].parent].generation + 1
        <3>1. emitted'[u] = dir[u]
            BY <2>2, <2>8, Zenon
        <3>2. CASE dir[u].parent = None
            BY <3>1, <3>2, Zenon DEF Descends
        <3>3. CASE dir[u].parent # None
            <4>1. dir[u].parent \in Txn
                BY <2>7, <3>3, Zenon
            <4>2. dir[u].status # "new" /\ dir[dir[u].parent].status # "new"
                BY <3>3, Zenon DEF Descends
            <4>3. emitted'[dir[u].parent] = dir[dir[u].parent]
                BY <2>2, <4>1, <4>2, Zenon
            <4> QED BY <3>1, <3>3, <4>2, <4>3, Zenon DEF Descends
        <3> QED BY <3>2, <3>3, Zenon
    <2>9. /\ emitted'[t].status # "new" /\ emitted'[t].generation < MaxGeneration
          /\ IF emitted'[t].parent = None THEN emitted'[t].generation = 1
             ELSE /\ emitted'[emitted'[t].parent].status # "new"
                  /\ emitted'[t].generation = emitted'[emitted'[t].parent].generation + 1
        <3>1. CASE item = None
            BY <2>2, <2>4, <2>5, <3>1, Zenon
        <3>2. CASE item # None
            <4>1. emitted'[par] = dir[par]
                BY <2>2, <2>6, <3>2, Zenon
            <4> QED BY <2>2, <2>4, <2>6, <3>2, <4>1, Zenon
        <3> QED BY <3>1, <3>2, Zenon
    <2> QED BY <2>8, <2>9, Zenon DEF Descends
<1> QED BY <1>1, <1>2, Zenon

\* Removing an entry leaves what it descended from.
LEMMA RemovedDescends ==
    ASSUME TypeOK, Descends(emitted), NEW t \in Txn, NEW dir, dir = Removed(t)
    PROVE  /\ Descends(dir) /\ dir \in [Txn -> Entry]
           /\ \A u \in Txn : /\ dir[u].generation = emitted[u].generation
                             /\ dir[u].status = "new" <=> emitted[u].status = "new"
<1>1. emitted \in [Txn -> Entry]
    BY Zenon DEF TypeOK
<1>2. CASE t \notin Pending
    <2>1. dir = emitted
        BY <1>2, Zenon DEF Removed
    <2> QED BY <1>1, <2>1, Zenon
<1>3. CASE t \in Pending
    <2>1. dir = [emitted EXCEPT ![t].status = "gone"] /\ emitted[t].status = "pending"
        BY <1>3, Zenon DEF Removed, Pending
    <2>2. /\ dir[t].status = "gone" /\ dir[t].generation = emitted[t].generation
          /\ dir[t].parent = emitted[t].parent
          /\ \A u \in Txn : u # t => dir[u] = emitted[u]
        BY <1>1, <2>1, Zenon DEF Entry
    <2>3. dir \in [Txn -> Entry]
        BY <1>1, <2>1, Zenon DEF Entry
    <2>4. \A u \in Txn : /\ dir[u].generation = emitted[u].generation
                         /\ dir[u].parent = emitted[u].parent
                         /\ dir[u].status = "new" <=> emitted[u].status = "new"
        BY <2>1, <2>2, Zenon
    <2>5. \A u \in Txn : emitted[u].parent \in Txn \cup {None}
        BY <1>1, Zenon DEF Entry
    <2>6. Descends(dir)
        <3> SUFFICES ASSUME NEW u \in Txn
                     PROVE  /\ dir[u].status = "new" => dir[u].parent = None
                            /\ dir[u].status # "new" =>
                                /\ dir[u].generation < MaxGeneration
                                /\ IF dir[u].parent = None THEN dir[u].generation = 1
                                   ELSE /\ dir[dir[u].parent].status # "new"
                                        /\ dir[u].generation = dir[dir[u].parent].generation + 1
            BY Zenon DEF Descends
        <3>1. CASE dir[u].parent = None
            BY <2>4, <3>1, Zenon DEF Descends
        <3>2. CASE dir[u].parent # None
            <4>1. dir[u].parent = emitted[u].parent /\ dir[u].parent \in Txn
                BY <2>4, <2>5, <3>2, Zenon
            <4> QED BY <2>4, <3>2, <4>1 DEF Descends
        <3> QED BY <3>1, <3>2, Zenon
    <2> QED BY <2>3, <2>4, <2>6, Zenon
<1> QED BY <1>2, <1>3, Zenon

LEMMA DescendsHolds == Spec => []Descends(emitted)
<1>1. Init => Descends(emitted)
    BY DEF Init, Descends
<1>2. IInv /\ Descends(emitted) /\ [Next]_vars => Descends(emitted)'
    <2> SUFFICES ASSUME IInv, Descends(emitted), [Next]_vars PROVE Descends(emitted')
        BY Zenon DEF Descends
    <2>1. TypeOK /\ emitted \in [Txn -> Entry]
        BY Zenon DEF IInv, TypeOK
    <2>2. CASE Origin
        BY <2>1, <2>2, EmitDescends, Zenon DEF Origin
    <2>3. ASSUME NEW t \in Txn, ApplyEmitted(t) PROVE Descends(emitted')
        <3>1. PICK dir : dir = Removed(t)
            BY Zenon
        <3>2. HooksEmit(Emitted(t), dir)
            BY <2>3, <3>1, Zenon DEF ApplyEmitted, removeEmissionEntry
        <3>3. /\ Descends(dir) /\ dir \in [Txn -> Entry]
              /\ dir[t].generation = emitted[t].generation
              /\ dir[t].status = "new" <=> emitted[t].status = "new"
            BY <2>1, <3>1, RemovedDescends, Zenon
        <3>4. Emitted(t) \in Item /\ Emitted(t).id = t
            BY Items, Zenon
        <3>5. emitted[t].status # "new"
            BY <2>3, Zenon DEF ApplyEmitted, IInv, Building, Fits
        <3> QED BY <2>1, <3>2, <3>3, <3>4, <3>5, EmitDescends, Zenon
    <2>4. ASSUME NEW t \in Txn, applyEmitFailure(t) PROVE Descends(emitted')
        <3>1. emitted' = Removed(t)
            BY <2>4, Zenon DEF applyEmitFailure, FailureRemoved
        <3> QED BY <2>1, <3>1, RemovedDescends, Zenon
    <2>5. CASE ~Origin /\ ~(\E t \in Txn : ApplyEmitted(t) \/ applyEmitFailure(t))
        <3>1. emitted' = emitted
            BY <2>5, Zenon DEF Next, Round, CloseRound, Close, NotApplied, Accept, Validate,
                switchLastClosedLedger, Restart, ledgerVars, vars
        <3> QED BY <3>1, Zenon
    <2> QED BY <2>2, <2>3, <2>4, <2>5, Zenon
<1> QED BY <1>1, <1>2, IInvHolds, PTL DEF Spec

\* A nonempty set of natural numbers has a least element.
LEMMA LeastNat ==
    ASSUME NEW T, T \subseteq Nat, T # {}
    PROVE  \E x \in T : \A y \in T : x <= y
<1>1. \E x \in T : \A y \in T : ~(<<y, x>> \in OpToRel(<, Nat))
    BY WFMin, NatLessThanWellFounded, Zenon
<1>2. PICK x \in T : \A y \in T : ~(<<y, x>> \in OpToRel(<, Nat))
    BY <1>1, Zenon
<1>3. \A y \in T : ~(y < x)
    BY <1>2, Zenon DEF OpToRel
<1> QED BY <1>3

\* How far an emission is from one that does not descend from another.
IsDepth(d) == d = [t \in Txn |-> IF emitted[t].parent = None THEN 1 ELSE d[emitted[t].parent] + 1]

\* An emission states its depth as its generation.
LEMMA DepthIs ==
    ASSUME TypeOK, Descends(emitted), NEW d, IsDepth(d), NEW t \in Txn, emitted[t].status # "new"
    PROVE  d[t] = emitted[t].generation
<1> DEFINE Off == {u \in Txn : emitted[u].status # "new" /\ d[u] # emitted[u].generation}
           T == {emitted[u].generation : u \in Off}
<1>1. \A u \in Txn : emitted[u].generation \in Nat /\ emitted[u].parent \in Txn \cup {None}
    BY Zenon DEF TypeOK, Entry
<1>2. \A u \in Txn : d[u] = IF emitted[u].parent = None THEN 1 ELSE d[emitted[u].parent] + 1
    BY ZenonT(40) DEF IsDepth
<1>3. Off = {}
    <2> SUFFICES ASSUME Off # {} PROVE FALSE
        BY Zenon
    <2>1. T \subseteq Nat /\ T # {}
        BY <1>1, Zenon
    <2>2. PICK x \in T : \A y \in T : x <= y
        <3> HIDE DEF T
        <3> QED BY <2>1, LeastNat, Zenon
    <2>3. PICK u \in Off : emitted[u].generation = x
        BY Zenon
    <2>4. u \in Txn /\ emitted[u].status # "new" /\ d[u] # emitted[u].generation
        BY Zenon
    <2>5. emitted[u].parent # None
        BY <1>2, <2>4, Zenon DEF Descends
    <2> DEFINE p == emitted[u].parent
    <2>6. /\ p \in Txn /\ emitted[p].status # "new"
          /\ emitted[u].generation = emitted[p].generation + 1 /\ d[u] = d[p] + 1
        BY <1>1, <1>2, <2>4, <2>5, Zenon DEF Descends
    <2>7. p \in Off
        BY <2>4, <2>6, Zenon
    <2>8. x <= emitted[p].generation
        BY <2>2, <2>7, Zenon
    <2>9. emitted[p].generation \in Nat /\ x = emitted[p].generation + 1
        BY <1>1, <2>3, <2>6, Zenon
    <2> QED BY <2>8, <2>9
<1> QED BY <1>3, Zenon

LEMMA DepthExists ==
    ASSUME TypeOK, Descends(emitted)
    PROVE  \E d : IsDepth(d)
<1> DEFINE d == [t \in Txn |-> IF emitted[t].status = "new" THEN 1 ELSE emitted[t].generation]
<1>1. \A t \in Txn : emitted[t].parent \in Txn \cup {None}
    BY Zenon DEF TypeOK, Entry
<1>2. ASSUME NEW t \in Txn
      PROVE  d[t] = IF emitted[t].parent = None THEN 1 ELSE d[emitted[t].parent] + 1
    BY <1>1, <1>2, Zenon DEF Descends
<1>3. d = [t \in Txn |-> IF emitted[t].parent = None THEN 1 ELSE d[emitted[t].parent] + 1]
    BY <1>2, Zenon
<1>4. IsDepth(d)
    BY <1>3, Zenon DEF IsDepth
<1> QED BY <1>4, Zenon

\* For any number of emissions: the generation that each of them states is how
\* far it descends, so emitting ends (HookAPI emit refuses MaxGeneration).
THEOREM DescentEnds == Spec => []ChainsEnd
<1>1. TypeOK /\ Descends(emitted) => ChainsEnd
    <2> SUFFICES ASSUME TypeOK, Descends(emitted) PROVE ChainsEnd
        BY Zenon
    <2> DEFINE D == CHOOSE d : IsDepth(d)
    <2>1. IsDepth(D)
        BY DepthExists, Zenon
    <2> HIDE DEF D
    <2>2. \A t \in Txn : emitted[t].status # "new" => D[t] < MaxGeneration
        BY <2>1, DepthIs, Zenon DEF Descends
    <2> QED BY <2>2, Zenon DEF ChainsEnd, D, IsDepth
<1> QED BY <1>1, EmissionTypeCorrect, DescendsHolds, PTL
==============================================================================
