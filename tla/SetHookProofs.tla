---------------------------- MODULE SetHookProofs ----------------------------
(***************************************************************************)
(* Reference counts, reserve, listing, namespaces and flags are exact, and *)
(* no account disturbs another, for every number of accounts, slots, items, *)
(* hashes and namespaces.                                                  *)
(*                                                                         *)
(* The counts are changed slot by slot, so the invariant speaks of the     *)
(* chains as they are in the middle of a transaction: the new slots below  *)
(* the one being processed, the old ones from there on.                    *)
(***************************************************************************)
EXTENDS SetHook, FiniteSetTheorems, TLAPS

\* The chains in the middle of the slot loop.
Current ==
    IF phase = "idle" THEN hooks
    ELSE [hooks EXCEPT ![account] =
            [i \in Slots |-> IF i < slot THEN newHooks[i] ELSE hooks[account][i]]]

\* Counts of a set of definitions agree with the slots that run them.
Counted(ds, chains) ==
    \A h \in DOMAIN ds : ds[h].refCount = Cardinality(UsersIn(chains, h))

\* The working view during the slot loop.
ViewInv ==
    /\ DOMAIN view = DOMAIN defs
    /\ DOMAIN slesToInsert \cap DOMAIN defs = {}
    /\ Counted(view, Current)
    /\ Counted(slesToInsert, Current)
    /\ \A h \in Hash \ (DOMAIN view \cup DOMAIN slesToInsert) :
            UsersIn(Current, h) = {}

\* What enacting relies on: every changed count is written or erased, and
\* what will be inserted is in use.
PendingInv ==
    /\ \A h \in DOMAIN view :
        /\ view[h].refCount = 0 => h \in keyletsToDestroy
        /\ h \in slesToUpdate \/ view[h].refCount = 0 \/ view[h] = defs[h]
    /\ \A h \in DOMAIN slesToInsert : slesToInsert[h].refCount # 0

IInv ==
    /\ TypeOK
    /\ RefCountExact
    /\ DefinitionsLive
    /\ phase = "slots" => ViewInv /\ PendingInv

----------------------------------------------------------------------------
(* Counting users.                                                         *)

LEMMA UsersFinite ==
    ASSUME NEW c, NEW h
    PROVE  /\ IsFiniteSet(UsersIn(c, h))
           /\ Cardinality(UsersIn(c, h)) \in Nat
           /\ Cardinality(UsersIn(c, h)) = 0 <=> UsersIn(c, h) = {}
<1>1. IsFiniteSet(Slots)
  BY FS_Interval, SetHookAssumption DEF Slots
<1>2. IsFiniteSet(Account \X Slots)
  BY <1>1, FS_Product, SetHookAssumption, Zenon
<1>3. UsersIn(c, h) \in SUBSET (Account \X Slots)
  BY Zenon DEF UsersIn
<1>4. IsFiniteSet(UsersIn(c, h))
  BY <1>2, <1>3, FS_Subset, Zenon
<1> QED
  BY <1>4, FS_CardinalityType, FS_EmptySet, Zenon

\* Replacing the hook of one slot changes the users of a hash by that slot.
LEMMA SlotReplaced ==
    ASSUME NEW c \in [Account -> Chain], NEW a \in Account, NEW s \in Slots,
           NEW hook, NEW h
    PROVE  LET d == [c EXCEPT ![a] = [@ EXCEPT ![s] = hook]]
               n == Cardinality(UsersIn(c, h))
               m == Cardinality(UsersIn(d, h))
           IN  /\ Runs(c[a][s], h) /\ ~Runs(hook, h) => m = n - 1
               /\ ~Runs(c[a][s], h) /\ Runs(hook, h) => m = n + 1
               /\ (Runs(c[a][s], h) <=> Runs(hook, h))
                    => UsersIn(d, h) = UsersIn(c, h)
               /\ Runs(c[a][s], h) => n > 0
<1> DEFINE d == [c EXCEPT ![a] = [@ EXCEPT ![s] = hook]]
           p == <<a, s>>
<1>1. \A u \in Account \X Slots : u # p => d[u[1]][u[2]] = c[u[1]][u[2]]
  BY DEF Chain
<1>2. d[a][s] = hook
  BY Zenon DEF Chain
<1>3. ASSUME Runs(c[a][s], h), ~Runs(hook, h)
      PROVE  UsersIn(d, h) = UsersIn(c, h) \ {p} /\ p \in UsersIn(c, h)
  BY <1>1, <1>2, <1>3 DEF UsersIn
<1>4. ASSUME ~Runs(c[a][s], h), Runs(hook, h)
      PROVE  UsersIn(d, h) = UsersIn(c, h) \cup {p} /\ p \notin UsersIn(c, h)
  BY <1>1, <1>2, <1>4 DEF UsersIn
<1>5. ASSUME Runs(c[a][s], h) <=> Runs(hook, h)
      PROVE  UsersIn(d, h) = UsersIn(c, h)
  BY <1>1, <1>2, <1>5 DEF UsersIn
<1>6. ASSUME Runs(c[a][s], h)
      PROVE  p \in UsersIn(c, h)
  BY <1>6, Zenon DEF UsersIn
<1> HIDE DEF d, p
<1>7. IsFiniteSet(UsersIn(c, h)) /\ Cardinality(UsersIn(c, h)) \in Nat
      /\ (Cardinality(UsersIn(c, h)) = 0 <=> UsersIn(c, h) = {})
  BY UsersFinite, Zenon
<1>8. Runs(c[a][s], h) /\ ~Runs(hook, h)
        => Cardinality(UsersIn(d, h)) = Cardinality(UsersIn(c, h)) - 1
  BY <1>3, <1>7, FS_RemoveElement, ZenonT(40)
<1>9. ~Runs(c[a][s], h) /\ Runs(hook, h)
        => Cardinality(UsersIn(d, h)) = Cardinality(UsersIn(c, h)) + 1
  BY <1>4, <1>7, FS_AddElement, Zenon
<1>10. Runs(c[a][s], h) => Cardinality(UsersIn(c, h)) > 0
  BY <1>6, <1>7
<1> QED
  BY <1>5, <1>8, <1>9, <1>10, Zenon DEF d

----------------------------------------------------------------------------
(* The slot being processed.                                               *)

LEMMA CurrentType ==
    ASSUME TypeOK
    PROVE  /\ Current \in [Account -> Chain]
           /\ phase = "slots" /\ slot \in Slots => Current[account][slot] = oldHook
  BY SetHookAssumption DEF TypeOK, Current, Chain, Slots, oldHook

\* A step of the loop replaces one slot of the current chains.
LEMMA SlotStep ==
    ASSUME TypeOK, phase = "slots", slot \in Slots,
           NEW o, NEW hook, NextSlot(o, hook)
    PROVE  Current' = [Current EXCEPT ![account] = [@ EXCEPT ![slot] = hook]]
<1>1. /\ hooks' = hooks /\ phase' = "slots" /\ account' = account
      /\ slot' = slot + 1 /\ newHooks' = [newHooks EXCEPT ![slot] = hook]
  BY Zenon DEF NextSlot, ledger
<1>2. /\ hooks \in [Account -> Chain] /\ account \in Account
      /\ newHooks \in Chain /\ slot \in 1..maxHookChainLength
      /\ maxHookChainLength \in Nat
  BY SetHookAssumption, Zenon DEF TypeOK, Slots
<1> DEFINE new == [i \in Slots |-> IF i < slot THEN newHooks[i] ELSE hooks[account][i]]
           new2 == [i \in Slots |-> IF i < slot + 1
                        THEN [newHooks EXCEPT ![slot] = hook][i]
                        ELSE hooks[account][i]]
<1>3. new2 = [new EXCEPT ![slot] = hook]
  <2>1. ASSUME NEW i \in Slots
        PROVE  new2[i] = [new EXCEPT ![slot] = hook][i]
    <3>1. CASE i = slot
      BY <1>2, <3>1 DEF Chain, Slots
    <3>2. CASE i < slot
      BY <1>2, <3>2 DEF Chain, Slots
    <3>3. CASE i > slot
      BY <1>2, <3>3 DEF Chain, Slots
    <3> QED
      BY <1>2, <3>1, <3>2, <3>3 DEF Slots
  <2> QED
    BY <2>1, Zenon
<1>4. Current = [hooks EXCEPT ![account] = new]
  BY Zenon DEF Current
<1>5. Current' = [hooks EXCEPT ![account] = new2]
  BY <1>1 DEF Current
<1> HIDE DEF new, new2
<1> QED
  BY <1>2, <1>3, <1>4, <1>5, Zenon

\* The definition of every hook on the ledger is found.
LEMMA OldFound ==
    ASSUME IInv, phase = "slots", slot \in Slots
    PROVE  /\ oldHook \in Hook \cup {NoHook}
           /\ oldDefFound <=> oldHook # NoHook
           /\ \A h \in Hash : Runs(oldHook, h) => h \in DOMAIN view
<1>1. hooks \in [Account -> Chain] /\ account \in Account
  BY Zenon DEF IInv, TypeOK
<1>2. oldHook \in Hook \cup {NoHook}
  BY <1>1, Zenon DEF oldHook, Chain
<1>3. ASSUME NEW h \in Hash, Runs(oldHook, h)
      PROVE  h \in DOMAIN view
  <2>1. <<account, slot>> \in Users(h)
    BY <1>1, <1>3, Zenon DEF Users, UsersIn, oldHook
  <2> QED
    BY <2>1, Zenon DEF IInv, DefinitionsLive, ViewInv
<1> QED
  BY <1>2, <1>3, Zenon DEF oldDefFound, Runs, Hook

\* Releasing the old definition takes one reference from it, and either marks
\* it for destruction or for being written.
LEMMA ReleasedFacts ==
    ASSUME IInv, phase = "slots", slot \in Slots
    PROVE  /\ DOMAIN Released = DOMAIN view
           /\ Released \in [DOMAIN view -> Definition]
           /\ \A h \in DOMAIN view :
                /\ Runs(oldHook, h) =>
                    /\ view[h].refCount > 0
                    /\ Released[h].refCount = view[h].refCount - 1
                /\ ~Runs(oldHook, h) => Released[h] = view[h]
                /\ Released[h].refCount = 0 => h \in ReleasedToDestroy
                /\ \/ h \in ReleasedToUpdate
                   \/ Released[h].refCount = 0
                   \/ Released[h] = defs[h]
           /\ ReleasedToUpdate \subseteq Hash
           /\ ReleasedToDestroy \subseteq Hash
<1>1. /\ DOMAIN view \subseteq Hash /\ view \in [DOMAIN view -> Definition]
      /\ slesToUpdate \subseteq Hash /\ keyletsToDestroy \subseteq Hash
      /\ ViewInv /\ PendingInv
  BY Zenon DEF IInv, TypeOK
<1>2. /\ oldHook \in Hook \cup {NoHook}
      /\ oldDefFound <=> oldHook # NoHook
      /\ \A h \in Hash : Runs(oldHook, h) => h \in DOMAIN view
  BY OldFound, Zenon
<1>3. ASSUME NEW h \in DOMAIN view, Runs(oldHook, h)
      PROVE  view[h].refCount > 0
  <2>1. Current \in [Account -> Chain] /\ Current[account][slot] = oldHook
        /\ account \in Account
    BY CurrentType, Zenon DEF IInv, TypeOK
  <2>2. Cardinality(UsersIn(Current, h)) > 0
    BY <2>1, <1>3, SlotReplaced, Zenon
  <2> QED
    BY <2>2, <1>1, Zenon DEF ViewInv, Counted
<1>4. CASE oldHook = NoHook
  BY <1>1, <1>2, <1>4, Zenon DEF Released, ReleasedToUpdate, ReleasedToDestroy, Runs,
        ReleasedUnused, ReleasedInUse, PendingInv
<1>5. CASE oldHook # NoHook
  <2> DEFINE g == oldHook.hash
  <2>1. g \in Hash /\ Runs(oldHook, g) /\ oldDefFound /\ g \in DOMAIN view
    BY <1>2, <1>5, Zenon DEF Hook, Runs, oldDefFound
  <2>2. view[g] \in Definition /\ view[g].refCount > 0
    BY <1>1, <1>3, <2>1, Zenon
  <2>3. /\ Released = [view EXCEPT ![g] = reduceReferenceCount(view[g])]
        /\ reduceReferenceCount(view[g]) \in Definition
        /\ reduceReferenceCount(view[g]).refCount = view[g].refCount - 1
    BY <2>1, <2>2 DEF Released, reduceReferenceCount, Definition
  <2>4. \A h : Runs(oldHook, h) <=> h = g
    BY <1>5, Zenon DEF Runs
  <2>5. /\ Released[g].refCount = 0 => g \in ReleasedToDestroy
        /\ Released[g].refCount # 0 => g \in ReleasedToUpdate
        /\ keyletsToDestroy \subseteq ReleasedToDestroy
        /\ slesToUpdate \subseteq ReleasedToUpdate
        /\ ReleasedToUpdate \subseteq Hash
        /\ ReleasedToDestroy \subseteq Hash
    BY <1>1, <2>1, Zenon DEF ReleasedToDestroy, ReleasedToUpdate, ReleasedUnused, ReleasedInUse
  <2> HIDE DEF g
  <2>6. ASSUME NEW h \in DOMAIN view, h # g
        PROVE  Released[h] = view[h]
    BY <2>3, <2>6, <1>1, Zenon
  <2>7. Released[g] = reduceReferenceCount(view[g])
    BY <2>1, <2>3, <1>1, Zenon
  <2>8. DOMAIN Released = DOMAIN view /\ Released \in [DOMAIN view -> Definition]
    BY <2>1, <2>3, <1>1, Zenon
  <2>9. \A h \in DOMAIN view :
            /\ view[h].refCount = 0 => h \in keyletsToDestroy
            /\ h \in slesToUpdate \/ view[h].refCount = 0 \/ view[h] = defs[h]
    BY <1>1, Zenon DEF PendingInv
  <2> QED
    BY <2>1, <2>2, <2>3, <2>4, <2>5, <2>6, <2>7, <2>8, <2>9, Zenon
<1> QED
  BY <1>4, <1>5, Zenon

----------------------------------------------------------------------------
(* What the entries of a transaction look like once preflight accepted them. *)

LEMMA EntryFacts ==
    ASSUME NEW o \in ValidObjects
    PROVE  /\ inferOperation(o) = "NSDELETE" => o.namespace \in Namespace
           /\ inferOperation(o) = "INSTALL" => o.hookHash \in Hash
           /\ inferOperation(o) = "CREATE" =>
                /\ o.createCode \in Hash /\ o.hookHash = Absent
                /\ o.namespace \in Namespace
           /\ FlagsOf(o) \subseteq SetFlags /\ o.flags \in OptFlags
           /\ o.namespace \in Namespace \cup {Absent}
           /\ \A n \in 0..MaxItems : ItemsOr(o, n) \in 0..MaxItems
           /\ newFlags(o) \subseteq LedgerFlags
<1>1. o \in HookSetObject /\ validateHookSetEntry(o)
  BY Zenon DEF ValidObjects
<1>2. /\ o.hookHash \in Hash \cup {Absent}
      /\ o.createCode \in Hash \cup {Absent, Empty}
      /\ o.namespace \in Namespace \cup {Absent}
      /\ o.flags \in OptFlags
      /\ o.items \in (0..MaxItems) \cup {Absent}
  BY <1>1, Zenon DEF HookSetObject
<1>3. FlagsOf(o) \subseteq SetFlags
  BY <1>2, Zenon DEF FlagsOf, OptFlags
<1>4. newFlags(o) \subseteq LedgerFlags
  BY <1>3, Zenon DEF newFlags, SetFlags
<1>5. inferOperation(o) = "NSDELETE" => o.namespace \in Namespace
  BY <1>2, Zenon DEF inferOperation
<1>6. inferOperation(o) = "INSTALL" => o.hookHash \in Hash
  BY <1>2, Zenon DEF inferOperation
<1>7. inferOperation(o) = "CREATE" => o.createCode \in Hash /\ o.hookHash = Absent
  BY <1>2, Zenon DEF inferOperation
<1>8. inferOperation(o) = "CREATE" => o.namespace \in Namespace
  BY <1>1, <1>2, Zenon DEF validateHookSetEntry
<1>9. \A n \in 0..MaxItems : ItemsOr(o, n) \in 0..MaxItems
  BY <1>2, Zenon DEF ItemsOr
<1> QED
  BY <1>2, <1>3, <1>4, <1>5, <1>6, <1>7, <1>8, <1>9, Zenon

----------------------------------------------------------------------------
(* A step of the loop: the part all operations share.                      *)

LEMMA SlotKeeps ==
    ASSUME IInv, NEW o, NEW hook \in Hook \cup {NoHook}, Entry(o), NextSlot(o, hook),
           DOMAIN view' \subseteq Hash, view' \in [DOMAIN view' -> Definition],
           DOMAIN slesToInsert' \subseteq Hash,
           slesToInsert' \in [DOMAIN slesToInsert' -> Definition],
           slesToUpdate' \subseteq Hash, keyletsToDestroy' \subseteq Hash,
           ViewInv', PendingInv'
    PROVE  IInv'
<1>1. /\ hooks' = hooks /\ defs' = defs /\ ownerCount' = ownerCount
      /\ ownerNode' = ownerNode /\ dirPage' = dirPage /\ fault' = fault
      /\ phase' = phase /\ account' = account /\ slot' = slot + 1
      /\ newHooks' = [newHooks EXCEPT ![slot] = hook]
      /\ allBlank' \in BOOLEAN
  BY Zenon DEF NextSlot, ledger
<1>2. TypeOK /\ phase = "slots" /\ slot \in Slots /\ o \in ValidObjects
  BY Zenon DEF IInv, Entry
<1>3. namespacesToDestroy' \subseteq Namespace
  <2>1. inferOperation(o) = "NSDELETE" => o.namespace \in Namespace
    BY <1>2, EntryFacts, Zenon
  <2>2. oldHook # NoHook => oldNamespace \in Namespace
    <3>1. oldHook # NoHook => oldHook \in Hook /\ oldHook.hash \in DOMAIN view
      BY <1>2, OldFound, Zenon DEF oldDefFound
    <3>2. view \in [DOMAIN view -> Definition]
      BY <1>2, Zenon DEF TypeOK
    <3> QED
      BY <3>1, <3>2, Zenon DEF oldNamespace, Hook, Definition
  <2>3. namespacesToDestroy \subseteq Namespace
    BY <1>2, Zenon DEF TypeOK
  <2> QED
    BY <2>1, <2>2, <2>3, Zenon DEF NextSlot, MarkNamespace
<1>4. newHooks' \in Chain /\ slot' \in 1..(maxHookChainLength + 1)
  BY <1>1, <1>2, SetHookAssumption DEF TypeOK, Chain, Slots
<1>5. TypeOK'
  BY <1>1, <1>2, <1>3, <1>4, Zenon DEF TypeOK
<1>6. RefCountExact' /\ DefinitionsLive'
  BY <1>1, Zenon DEF IInv, RefCountExact, DefinitionsLive, Users, UsersIn
<1> QED
  BY <1>5, <1>6, Zenon DEF IInv

\* The facts every operation starts from.
LEMMA SlotFacts ==
    ASSUME IInv, NEW o, NEW hook, Entry(o), NextSlot(o, hook)
    PROVE  /\ phase = "slots" /\ slot \in Slots /\ o \in ValidObjects
           /\ account \in Account
           /\ Current \in [Account -> Chain] /\ Current[account][slot] = oldHook
           /\ Current' = [Current EXCEPT ![account] = [@ EXCEPT ![slot] = hook]]
           /\ ViewInv /\ PendingInv /\ defs' = defs
           /\ DOMAIN view \subseteq Hash /\ view \in [DOMAIN view -> Definition]
           /\ DOMAIN slesToInsert \subseteq Hash
           /\ slesToInsert \in [DOMAIN slesToInsert -> Definition]
<1>1. phase = "slots" /\ slot \in Slots /\ TypeOK /\ defs' = defs /\ o \in ValidObjects
  BY Zenon DEF IInv, Entry, NextSlot, ledger
<1>2. Current \in [Account -> Chain] /\ Current[account][slot] = oldHook
  BY <1>1, CurrentType, Zenon
<1>3. Current' = [Current EXCEPT ![account] = [@ EXCEPT ![slot] = hook]]
  BY <1>1, SlotStep, Zenon
<1> QED
  BY <1>1, <1>2, <1>3, Zenon DEF IInv, TypeOK

\* What the slot step does to the users of one hash.
LEMMA UsersStep ==
    ASSUME IInv, NEW o, NEW hook, Entry(o), NextSlot(o, hook), NEW h
    PROVE  /\ Runs(oldHook, h) /\ ~Runs(hook, h) =>
                Cardinality(UsersIn(Current', h)) = Cardinality(UsersIn(Current, h)) - 1
           /\ ~Runs(oldHook, h) /\ Runs(hook, h) =>
                Cardinality(UsersIn(Current', h)) = Cardinality(UsersIn(Current, h)) + 1
           /\ (Runs(oldHook, h) <=> Runs(hook, h)) =>
                UsersIn(Current', h) = UsersIn(Current, h)
  BY SlotFacts, SlotReplaced

----------------------------------------------------------------------------
(* The operations.                                                         *)

LEMMA NoopStep ==
    ASSUME IInv, NEW o, hsoNOOP(o)
    PROVE  IInv'
<1>1. Entry(o) /\ NextSlot(o, oldHook)
      /\ view' = view /\ slesToInsert' = slesToInsert
      /\ slesToUpdate' = slesToUpdate /\ keyletsToDestroy' = keyletsToDestroy
  BY Zenon DEF hsoNOOP
<1>2. \A h : UsersIn(Current', h) = UsersIn(Current, h)
  BY <1>1, UsersStep, Zenon
<1>3. /\ ViewInv /\ PendingInv /\ defs' = defs
      /\ oldHook \in Hook \cup {NoHook}
  BY <1>1, SlotFacts, OldFound, Zenon
<1>4. ViewInv'
  BY <1>1, <1>2, <1>3, Zenon DEF ViewInv, Counted
<1>5. PendingInv'
  BY <1>1, <1>3, Zenon DEF PendingInv
<1> QED
  BY <1>1, <1>3, <1>4, <1>5, SlotKeeps, Zenon DEF IInv, TypeOK

LEMMA UpdateStep ==
    ASSUME IInv, NEW o, hsoUPDATE(o)
    PROVE  IInv'
<1> DEFINE hook == [hash |-> oldHook.hash, namespace |-> UpdatedNamespace(o),
                    flags |-> o.flags, items |-> ItemsOr(o, oldHook.items)]
<1>1. Entry(o) /\ NextSlot(o, hook) /\ oldDefFound
      /\ view' = view /\ slesToInsert' = slesToInsert
      /\ slesToUpdate' = slesToUpdate /\ keyletsToDestroy' = keyletsToDestroy
  BY Zenon DEF hsoUPDATE
<1>2. /\ ViewInv /\ PendingInv /\ defs' = defs
      /\ oldHook \in Hook \cup {NoHook} /\ oldHook # NoHook
      /\ o \in ValidObjects
  BY <1>1, SlotFacts, OldFound, Zenon DEF oldDefFound
<1>3. hook \in Hook
  <2>1. /\ o.flags \in OptFlags /\ o.namespace \in Namespace \cup {Absent}
        /\ \A n \in 0..MaxItems : ItemsOr(o, n) \in 0..MaxItems
    BY <1>2, EntryFacts, Zenon
  <2>2. UpdatedNamespace(o) \in Namespace \cup {Absent}
    BY <1>2, <2>1, Zenon DEF UpdatedNamespace, Hook
  <2> QED
    BY <1>2, <2>1, <2>2, Zenon DEF Hook
<1>4. \A h : Runs(oldHook, h) <=> Runs(hook, h)
  BY <1>2, <1>3, NoHookAssumption, Zenon DEF Runs
<1> HIDE DEF hook
<1>5. \A h : UsersIn(Current', h) = UsersIn(Current, h)
  BY <1>1, <1>4, UsersStep, Zenon
<1>6. ViewInv'
  BY <1>1, <1>2, <1>5, Zenon DEF ViewInv, Counted
<1>7. PendingInv'
  BY <1>1, <1>2, Zenon DEF PendingInv
<1> QED
  BY <1>1, <1>3, <1>6, <1>7, SlotKeeps, Zenon DEF IInv, TypeOK

LEMMA DeleteStep ==
    ASSUME IInv, NEW o, hsoDELETE(o)
    PROVE  IInv'
<1>1. Entry(o) /\ NextSlot(o, NoHook)
      /\ view' = Released /\ slesToInsert' = slesToInsert
      /\ slesToUpdate' = ReleasedToUpdate /\ keyletsToDestroy' = ReleasedToDestroy
  BY Zenon DEF hsoDELETE
<1>2. /\ ViewInv /\ PendingInv /\ defs' = defs /\ phase = "slots" /\ slot \in Slots
      /\ DOMAIN view \subseteq Hash /\ DOMAIN slesToInsert \subseteq Hash
      /\ slesToInsert \in [DOMAIN slesToInsert -> Definition]
  BY <1>1, SlotFacts, Zenon
<1>3. \A h \in Hash : Runs(oldHook, h) => h \in DOMAIN view
  BY <1>2, OldFound, Zenon
<1>4. \A h : ~Runs(NoHook, h)
  BY Zenon DEF Runs
<1>5. ASSUME NEW h \in DOMAIN view
      PROVE  Released[h].refCount = Cardinality(UsersIn(Current', h))
  <2>1. /\ Runs(oldHook, h) => Released[h].refCount = view[h].refCount - 1
        /\ ~Runs(oldHook, h) => Released[h] = view[h]
    BY <1>2, ReleasedFacts, Zenon
  <2>2. view[h].refCount = Cardinality(UsersIn(Current, h))
    BY <1>2, Zenon DEF ViewInv, Counted
  <2> QED
    BY <1>1, <1>4, <2>1, <2>2, UsersStep, Zenon
<1>6. ASSUME NEW h \in Hash, h \notin DOMAIN view
      PROVE  UsersIn(Current', h) = UsersIn(Current, h)
  BY <1>1, <1>3, <1>4, <1>6, UsersStep, Zenon
<1>7. DOMAIN Released = DOMAIN view /\ Released \in [DOMAIN view -> Definition]
      /\ ReleasedToUpdate \subseteq Hash /\ ReleasedToDestroy \subseteq Hash
  BY <1>2, ReleasedFacts, Zenon
<1>8. ViewInv'
  BY <1>1, <1>2, <1>5, <1>6, <1>7, Zenon DEF ViewInv, Counted
<1>9. PendingInv'
  BY <1>1, <1>2, <1>7, ReleasedFacts, Zenon DEF PendingInv
<1> QED
  BY <1>1, <1>2, <1>7, <1>8, <1>9, SlotKeeps, Zenon

LEMMA CreateStep ==
    ASSUME IInv, NEW o, hsoCREATE(o)
    PROVE  IInv'
<1> DEFINE g == o.createCode
           hook == [hash |-> g, namespace |-> Absent, flags |-> Absent,
                    items |-> ItemsOr(o, 0)]
           def == [refCount |-> 1, namespace |-> o.namespace, flags |-> newFlags(o)]
           sti == [h \in DOMAIN slesToInsert \cup {g} |->
                    IF h = g THEN def ELSE slesToInsert[h]]
<1>1. Entry(o) /\ NextSlot(o, hook) /\ inferOperation(o) = "CREATE"
      /\ g \notin DOMAIN view \cup DOMAIN slesToInsert
      /\ view' = Released /\ slesToInsert' = sti
      /\ slesToUpdate' = ReleasedToUpdate /\ keyletsToDestroy' = ReleasedToDestroy
  BY Zenon DEF hsoCREATE
<1>2. /\ ViewInv /\ PendingInv /\ defs' = defs /\ phase = "slots" /\ slot \in Slots
      /\ DOMAIN view \subseteq Hash /\ DOMAIN slesToInsert \subseteq Hash
      /\ slesToInsert \in [DOMAIN slesToInsert -> Definition]
      /\ o \in ValidObjects
  BY <1>1, SlotFacts, Zenon
<1>3. /\ g \in Hash /\ o.namespace \in Namespace
      /\ newFlags(o) \subseteq LedgerFlags
      /\ ItemsOr(o, 0) \in 0..MaxItems
  BY <1>1, <1>2, EntryFacts, SetHookAssumption
<1>4. hook \in Hook /\ def \in Definition
  BY <1>3, Zenon DEF Hook, Definition, OptFlags, SetFlags
<1>5. \A h : Runs(hook, h) <=> h = g
  BY <1>4, NoHookAssumption, Zenon DEF Runs
<1>6. \A h \in Hash : Runs(oldHook, h) => h \in DOMAIN view
  BY <1>2, OldFound, Zenon
<1>7. /\ DOMAIN slesToInsert' = DOMAIN slesToInsert \cup {g}
      /\ slesToInsert'[g] = def /\ def.refCount = 1
      /\ \A h \in DOMAIN slesToInsert : slesToInsert'[h] = slesToInsert[h]
      /\ slesToInsert' \in [DOMAIN slesToInsert' -> Definition]
  BY <1>1, <1>2, <1>4, Zenon
<1> HIDE DEF hook, def, sti, g
<1>8. ASSUME NEW h \in DOMAIN view
      PROVE  Released[h].refCount = Cardinality(UsersIn(Current', h))
  <2>1. /\ Runs(oldHook, h) => Released[h].refCount = view[h].refCount - 1
        /\ ~Runs(oldHook, h) => Released[h] = view[h]
    BY <1>2, ReleasedFacts, Zenon
  <2>2. view[h].refCount = Cardinality(UsersIn(Current, h))
    BY <1>2, Zenon DEF ViewInv, Counted
  <2>3. ~Runs(hook, h)
    BY <1>1, <1>5, Zenon
  <2> QED
    BY <1>1, <2>1, <2>2, <2>3, UsersStep, Zenon
<1>9. ASSUME NEW h \in Hash, h \notin DOMAIN view, h # g
      PROVE  UsersIn(Current', h) = UsersIn(Current, h)
  BY <1>1, <1>5, <1>6, <1>9, UsersStep, Zenon
<1>10. Cardinality(UsersIn(Current', g)) = 1
  <2>1. UsersIn(Current, g) = {}
    BY <1>1, <1>2, <1>3, Zenon DEF ViewInv
  <2>2. Cardinality(UsersIn(Current, g)) = 0
    BY <2>1, UsersFinite, Zenon
  <2>3. ~Runs(oldHook, g) /\ Runs(hook, g)
    BY <1>1, <1>3, <1>5, <1>6, Zenon
  <2> QED
    BY <1>1, <2>2, <2>3, UsersStep
<1>11. DOMAIN Released = DOMAIN view /\ Released \in [DOMAIN view -> Definition]
      /\ ReleasedToUpdate \subseteq Hash /\ ReleasedToDestroy \subseteq Hash
  BY <1>2, ReleasedFacts, Zenon
<1>12. ViewInv'
  <2>1. DOMAIN view' = DOMAIN defs'
    BY <1>1, <1>2, <1>11, Zenon DEF ViewInv
  <2>2. DOMAIN slesToInsert' \cap DOMAIN defs' = {}
    BY <1>1, <1>2, <1>7, Zenon DEF ViewInv
  <2>3. Counted(view, Current)'
    BY <1>1, <1>8, <1>11, Zenon DEF Counted
  <2>4. Counted(slesToInsert, Current)'
    <3>1. ASSUME NEW h \in DOMAIN slesToInsert
          PROVE  slesToInsert'[h].refCount = Cardinality(UsersIn(Current', h))
      BY <1>1, <1>2, <1>7, <1>9, Zenon DEF ViewInv, Counted
    <3> QED
      BY <3>1, <1>7, <1>10, Zenon DEF Counted
  <2>5. \A h \in Hash \ (DOMAIN view' \cup DOMAIN slesToInsert') :
            UsersIn(Current', h) = {}
    BY <1>1, <1>2, <1>7, <1>9, <1>11, Zenon DEF ViewInv
  <2> QED
    BY <2>1, <2>2, <2>3, <2>4, <2>5, Zenon DEF ViewInv
<1>13. PendingInv'
  <2>1. \A h \in DOMAIN slesToInsert' : slesToInsert'[h].refCount # 0
    BY <1>2, <1>7 DEF PendingInv
  <2> QED
    BY <1>1, <1>2, <1>11, <2>1, ReleasedFacts, Zenon DEF PendingInv
<1> QED
  BY <1>1, <1>2, <1>3, <1>4, <1>7, <1>11, <1>12, <1>13, SlotKeeps, Zenon

\* The hook an install writes, and the definition it refers to.
LEMMA InstallFacts ==
    ASSUME NEW o \in ValidObjects, inferOperation(o) \in {"CREATE", "INSTALL"},
           NEW d \in Definition
    PROVE  /\ Target(o) \in Hash
           /\ InstalledHook(o, d) \in Hook
           /\ \A h : Runs(InstalledHook(o, d), h) <=> h = Target(o)
           /\ Referenced(d, o) \in Definition
           /\ Referenced(d, o).refCount = d.refCount + 1
<1>1. /\ inferOperation(o) = "INSTALL" => o.hookHash \in Hash
      /\ inferOperation(o) = "CREATE" => o.createCode \in Hash /\ o.hookHash = Absent
      /\ o.namespace \in Namespace \cup {Absent}
      /\ newFlags(o) \subseteq LedgerFlags
      /\ ItemsOr(o, 0) \in 0..MaxItems
  BY EntryFacts, SetHookAssumption
<1>2. Target(o) \in Hash
  BY <1>1, SetHookAssumption, Zenon DEF Target
<1>3. InstalledNamespace(o, d) \in Namespace \cup {Absent}
  BY <1>1, Zenon DEF InstalledNamespace
<1>4. InstalledHook(o, d) \in Hook
  BY <1>1, <1>2, <1>3, Zenon DEF InstalledHook, Hook, OptFlags, SetFlags
<1>5. \A h : Runs(InstalledHook(o, d), h) <=> h = Target(o)
  BY <1>4, NoHookAssumption, Zenon DEF Runs, InstalledHook
<1>6. Referenced(d, o) \in Definition /\ Referenced(d, o).refCount = d.refCount + 1
  BY DEF Referenced, incrementReferenceCount, Definition
<1> QED
  BY <1>2, <1>4, <1>5, <1>6, Zenon

LEMMA InstallStep ==
    ASSUME IInv, NEW o, hsoINSTALL(o)
    PROVE  IInv'
<1> DEFINE g == Target(o)
<1>1. /\ Entry(o) /\ inferOperation(o) \in {"CREATE", "INSTALL"}
      /\ slesToUpdate' = ReleasedToUpdate \cup {g}
      /\ keyletsToDestroy' = ReleasedToDestroy
  BY Zenon DEF hsoINSTALL, InstalledToUpdate
<1>2. /\ ViewInv /\ PendingInv /\ phase = "slots" /\ slot \in Slots
      /\ DOMAIN view \subseteq Hash /\ view \in [DOMAIN view -> Definition]
      /\ DOMAIN slesToInsert \subseteq Hash
      /\ slesToInsert \in [DOMAIN slesToInsert -> Definition]
      /\ o \in ValidObjects
  BY <1>1, Zenon DEF Entry, IInv, TypeOK
<1>3. \A h \in Hash : Runs(oldHook, h) => h \in DOMAIN view
  BY <1>2, OldFound, Zenon
<1>4. /\ DOMAIN Released = DOMAIN view /\ Released \in [DOMAIN view -> Definition]
      /\ ReleasedToUpdate \subseteq Hash /\ ReleasedToDestroy \subseteq Hash
  BY <1>2, ReleasedFacts, Zenon
<1>5. CASE /\ g \in DOMAIN view
           /\ NextSlot(o, InstalledHook(o, view[g]))
           /\ view' = [Released EXCEPT ![g] = Referenced(@, o)]
           /\ slesToInsert' = slesToInsert
  <2> DEFINE hook == InstalledHook(o, view[g])
  <2>1. /\ hook \in Hook /\ g \in Hash
        /\ \A h : Runs(hook, h) <=> h = g
        /\ Referenced(Released[g], o) \in Definition
        /\ Referenced(Released[g], o).refCount = Released[g].refCount + 1
    BY <1>1, <1>2, <1>4, <1>5, InstallFacts, Zenon
  <2>2. /\ DOMAIN view' = DOMAIN view /\ view' \in [DOMAIN view' -> Definition]
        /\ view'[g].refCount = Released[g].refCount + 1
        /\ \A h \in DOMAIN view : h # g => view'[h] = Released[h]
    BY <1>4, <1>5, <2>1, Zenon
  <2>3. NextSlot(o, hook) /\ defs' = defs
    BY <1>5, Zenon DEF NextSlot, ledger
  <2> HIDE DEF hook, g
  <2>4. ASSUME NEW h \in DOMAIN view
        PROVE  view'[h].refCount = Cardinality(UsersIn(Current', h))
    <3>1. /\ Runs(oldHook, h) => Released[h].refCount = view[h].refCount - 1
          /\ ~Runs(oldHook, h) => Released[h] = view[h]
      BY <1>2, ReleasedFacts, Zenon
    <3>2. view[h].refCount = Cardinality(UsersIn(Current, h)) /\ view[h].refCount \in Nat
      BY <1>2, Zenon DEF ViewInv, Counted, Definition
    <3>3. /\ Runs(oldHook, h) /\ ~Runs(hook, h) =>
                Cardinality(UsersIn(Current', h)) = Cardinality(UsersIn(Current, h)) - 1
          /\ ~Runs(oldHook, h) /\ Runs(hook, h) =>
                Cardinality(UsersIn(Current', h)) = Cardinality(UsersIn(Current, h)) + 1
          /\ (Runs(oldHook, h) <=> Runs(hook, h)) =>
                UsersIn(Current', h) = UsersIn(Current, h)
      BY <1>1, <2>3, UsersStep, Zenon
    <3>4. CASE h = g
      BY <2>1, <2>2, <3>1, <3>2, <3>3, <3>4
    <3>5. CASE h # g
      BY <2>1, <2>2, <3>1, <3>2, <3>3, <3>5, Zenon
    <3> QED
      BY <3>4, <3>5, Zenon
  <2>5. ASSUME NEW h \in Hash, h \notin DOMAIN view
        PROVE  UsersIn(Current', h) = UsersIn(Current, h)
    <3>1. ~Runs(oldHook, h) /\ ~Runs(hook, h)
      BY <1>3, <1>5, <2>1, <2>5, Zenon
    <3> QED
      BY <1>1, <2>3, <3>1, UsersStep, Zenon
  <2>6. ViewInv'
    <3>1. Counted(view, Current)'
      BY <2>2, <2>4, Zenon DEF Counted
    <3>2. Counted(slesToInsert, Current)'
      BY <1>2, <1>5, <2>5, Zenon DEF Counted, ViewInv
    <3> QED
      BY <1>2, <1>5, <2>2, <2>3, <2>5, <3>1, <3>2, Zenon DEF ViewInv
  <2>7. PendingInv'
    <3>1. view'[g].refCount # 0
      BY <1>4, <1>5, <2>2 DEF Definition
    <3>2. ASSUME NEW h \in DOMAIN view
          PROVE  /\ Released[h].refCount = 0 => h \in ReleasedToDestroy
                 /\ \/ h \in ReleasedToUpdate
                    \/ Released[h].refCount = 0
                    \/ Released[h] = defs[h]
      BY <1>2, ReleasedFacts, Zenon
    <3> QED
      BY <1>1, <1>2, <1>5, <2>2, <2>3, <3>1, <3>2, Zenon DEF PendingInv
  <2> QED
    BY <1>1, <1>2, <1>4, <1>5, <2>1, <2>2, <2>3, <2>6, <2>7, SlotKeeps, Zenon
<1>6. CASE /\ g \in DOMAIN slesToInsert \ DOMAIN view
           /\ NextSlot(o, InstalledHook(o, slesToInsert[g]))
           /\ view' = Released
           /\ slesToInsert' = [slesToInsert EXCEPT ![g] = Referenced(@, o)]
  <2> DEFINE hook == InstalledHook(o, slesToInsert[g])
  <2>1. /\ hook \in Hook /\ g \in Hash
        /\ \A h : Runs(hook, h) <=> h = g
        /\ Referenced(slesToInsert[g], o) \in Definition
        /\ Referenced(slesToInsert[g], o).refCount = slesToInsert[g].refCount + 1
    BY <1>1, <1>2, <1>6, InstallFacts, Zenon
  <2>2. /\ DOMAIN slesToInsert' = DOMAIN slesToInsert
        /\ slesToInsert' \in [DOMAIN slesToInsert' -> Definition]
        /\ slesToInsert'[g].refCount = slesToInsert[g].refCount + 1
        /\ \A h \in DOMAIN slesToInsert : h # g => slesToInsert'[h] = slesToInsert[h]
    BY <1>2, <1>6, <2>1, Zenon
  <2>3. NextSlot(o, hook) /\ defs' = defs
    BY <1>6, Zenon DEF NextSlot, ledger
  <2> HIDE DEF hook, g
  <2>4. ASSUME NEW h \in DOMAIN view
        PROVE  Released[h].refCount = Cardinality(UsersIn(Current', h))
    <3>1. /\ Runs(oldHook, h) => Released[h].refCount = view[h].refCount - 1
          /\ ~Runs(oldHook, h) => Released[h] = view[h]
      BY <1>2, ReleasedFacts, Zenon
    <3>2. view[h].refCount = Cardinality(UsersIn(Current, h))
      BY <1>2, Zenon DEF ViewInv, Counted
    <3>3. ~Runs(hook, h)
      BY <1>6, <2>1, Zenon
    <3> QED
      BY <1>1, <2>3, <3>1, <3>2, <3>3, UsersStep, Zenon
  <2>5. ASSUME NEW h \in Hash, h \notin DOMAIN view, h # g
        PROVE  UsersIn(Current', h) = UsersIn(Current, h)
    <3>1. ~Runs(oldHook, h) /\ ~Runs(hook, h)
      BY <1>3, <2>1, <2>5, Zenon
    <3> QED
      BY <1>1, <2>3, <3>1, UsersStep, Zenon
  <2>6. Cardinality(UsersIn(Current', g)) = Cardinality(UsersIn(Current, g)) + 1
    <3>1. ~Runs(oldHook, g) /\ Runs(hook, g)
      BY <1>3, <1>6, <2>1, Zenon
    <3> QED
      BY <1>1, <2>3, <3>1, UsersStep, Zenon
  <2>7. ViewInv'
    <3>1. Counted(view, Current)'
      BY <1>4, <1>6, <2>4, Zenon DEF Counted
    <3>2. ASSUME NEW h \in DOMAIN slesToInsert
          PROVE  slesToInsert'[h].refCount = Cardinality(UsersIn(Current', h))
      BY <1>2, <1>6, <2>2, <2>5, <2>6, Zenon DEF Counted, ViewInv
    <3>3. Counted(slesToInsert, Current)'
      BY <2>2, <3>2, Zenon DEF Counted
    <3>4. \A h \in Hash \ (DOMAIN view' \cup DOMAIN slesToInsert') :
            UsersIn(Current', h) = {}
      BY <1>2, <1>4, <1>6, <2>2, <2>5, Zenon DEF ViewInv
    <3> QED
      BY <1>2, <1>4, <1>6, <2>2, <2>3, <3>1, <3>3, <3>4, Zenon DEF ViewInv
  <2>8. PendingInv'
    <3>1. \A h \in DOMAIN slesToInsert' : slesToInsert'[h].refCount # 0
      BY <1>2, <1>6, <2>2 DEF PendingInv, Definition
    <3>2. ASSUME NEW h \in DOMAIN view
          PROVE  /\ Released[h].refCount = 0 => h \in ReleasedToDestroy
                 /\ \/ h \in ReleasedToUpdate
                    \/ Released[h].refCount = 0
                    \/ Released[h] = defs[h]
      BY <1>2, ReleasedFacts, Zenon
    <3> QED
      BY <1>1, <1>4, <1>6, <2>3, <3>1, <3>2, Zenon DEF PendingInv
  <2> QED
    BY <1>1, <1>2, <1>4, <1>6, <2>1, <2>2, <2>3, <2>7, <2>8, SlotKeeps, Zenon
<1> QED
  BY <1>5, <1>6, Zenon DEF hsoINSTALL

----------------------------------------------------------------------------
(* The beginning and the end of a transaction.                             *)

LEMMA InitIInv ==
    ASSUME Init
    PROVE  IInv
<1>1. TypeOK
  BY SetHookAssumption DEF Init, TypeOK, Chain, BlankChain, NoDefinitions, Slots
<1>2. \A h : Users(h) = {}
  BY Zenon DEF Init, Users, UsersIn, Runs, BlankChain
<1>3. DOMAIN defs = {}
  BY Zenon DEF Init, NoDefinitions
<1>4. RefCountExact /\ DefinitionsLive
  BY <1>2, <1>3, Zenon DEF RefCountExact, DefinitionsLive
<1> QED
  BY <1>1, <1>4, Zenon DEF Init, IInv

LEMMA BeginStep ==
    ASSUME IInv, NEW a \in Account, setHook(a)
    PROVE  IInv'
<1>1. /\ hooks' = hooks /\ defs' = defs /\ ownerCount' = ownerCount
      /\ ownerNode' = ownerNode /\ dirPage' = dirPage /\ fault' = fault
      /\ phase' = "slots" /\ account' = a /\ slot' = 1
      /\ view' = defs /\ slesToInsert' = NoDefinitions
      /\ newHooks' = BlankChain
  BY Zenon DEF setHook, ledger
<1>2. TypeOK'
  BY <1>1, SetHookAssumption
    , SMTT(30) DEF setHook, IInv, TypeOK, Chain, BlankChain, NoDefinitions, Slots
<1>3. Current' = hooks
  <2>1. hooks \in [Account -> Chain]
    BY Zenon DEF IInv, TypeOK
  <2>2. [i \in Slots |-> IF i < 1 THEN newHooks'[i] ELSE hooks[a][i]] = hooks[a]
    <3>1. \A i \in Slots : ~(i < 1)
      BY SetHookAssumption DEF Slots
    <3> QED
      BY <2>1, <3>1, Zenon DEF Chain
  <2> QED
    BY <1>1, <2>1, <2>2, Zenon DEF Current
<1>4. DOMAIN slesToInsert' = {}
  BY <1>1, Zenon DEF NoDefinitions
<1>5. RefCountExact' /\ DefinitionsLive'
  BY <1>1, Zenon DEF IInv, RefCountExact, DefinitionsLive, Users, UsersIn
<1>6. ViewInv'
  BY <1>1, <1>3, <1>4, Zenon DEF IInv, ViewInv, Counted, RefCountExact, DefinitionsLive, Users
<1>7. \A h \in DOMAIN defs : defs[h].refCount # 0
  BY UsersFinite, Zenon DEF IInv, RefCountExact, DefinitionsLive, Users
<1>8. PendingInv'
  BY <1>1, <1>4, <1>7, Zenon DEF PendingInv
<1> QED
  BY <1>2, <1>5, <1>6, <1>8, Zenon DEF IInv

LEMMA DiscardStep ==
    ASSUME IInv, Discard, UNCHANGED ledger,
           fault' \in {"none", "tefBAD_LEDGER", "tefINTERNAL"}
    PROVE  IInv'
<1>1. TypeOK'
  BY SetHookAssumption
     DEF Discard, ledger, IInv, TypeOK, Chain, BlankChain, NoDefinitions, Slots
<1>2. RefCountExact' /\ DefinitionsLive'
  BY Zenon DEF ledger, IInv, RefCountExact, DefinitionsLive, Users, UsersIn
<1> QED
  BY <1>1, <1>2, Zenon DEF IInv, Discard

LEMMA ReserveType ==
    ASSUME NEW chain
    PROVE  computeHookReserve(chain) \in Nat
<1> DEFINE S == {u \in Slots \X (0..MaxItems) :
                    chain[u[1]] # NoHook /\ u[2] <= chain[u[1]].items}
<1>1. IsFiniteSet(Slots) /\ IsFiniteSet(0..MaxItems)
  BY FS_Interval, SetHookAssumption DEF Slots
<1>2. IsFiniteSet(Slots \X (0..MaxItems))
  BY <1>1, FS_Product, Zenon
<1>3. IsFiniteSet(S)
  BY <1>2, FS_Subset, Zenon
<1> QED
  BY <1>3, FS_CardinalityType, Zenon DEF computeHookReserve

LEMMA EnactStep ==
    ASSUME IInv, AllSlotsDone, Enact, newOwnerCount >= 0,
           ownerNode' \in [Account -> OwnerPage \cup {Absent}],
           dirPage' \in [Account -> OwnerPage \cup {Absent}]
    PROVE  IInv'
<1>1. /\ ViewInv /\ PendingInv /\ phase = "slots" /\ account \in Account
      /\ slot = maxHookChainLength + 1 /\ newHooks \in Chain
      /\ hooks \in [Account -> Chain]
      /\ DOMAIN defs \subseteq Hash /\ defs \in [DOMAIN defs -> Definition]
      /\ view \in [DOMAIN view -> Definition]
      /\ DOMAIN slesToInsert \subseteq Hash
      /\ slesToInsert \in [DOMAIN slesToInsert -> Definition]
      /\ DOMAIN view = DOMAIN defs
      /\ DOMAIN slesToInsert \cap DOMAIN defs = {}
  BY SetHookAssumption DEF IInv, TypeOK, AllSlotsDone, ViewInv
<1>2. Current = hooks'
  <2>1. [i \in Slots |-> IF i < slot THEN newHooks[i] ELSE hooks[account][i]] = newHooks
    BY <1>1, SetHookAssumption DEF Chain, Slots
  <2> QED
    BY <1>1, <2>1, Zenon DEF Current, Enact
<1> DEFINE kept == (DOMAIN defs \cup DOMAIN slesToInsert) \ ErasedDefinitions
<1>3. /\ DOMAIN defs' = kept
      /\ \A h \in kept : defs'[h] = IF h \in DOMAIN slesToInsert THEN slesToInsert[h]
                                    ELSE IF h \in slesToUpdate THEN view[h]
                                    ELSE defs[h]
  BY Zenon DEF Enact, EnactDefinitions
<1>4. ErasedDefinitions = {h \in DOMAIN view : view[h].refCount = 0}
  BY <1>1, Zenon DEF ErasedDefinitions, PendingInv
<1>5. ASSUME NEW h \in kept
      PROVE  /\ h \in DOMAIN slesToInsert =>
                    defs'[h] = slesToInsert[h]
             /\ h \notin DOMAIN slesToInsert =>
                    h \in DOMAIN view /\ defs'[h] = view[h] /\ view[h].refCount # 0
  <2>1. CASE h \in DOMAIN slesToInsert
    BY <1>3, <2>1, Zenon
  <2>2. CASE h \notin DOMAIN slesToInsert
    <3>1. h \in DOMAIN view /\ view[h].refCount # 0
      BY <1>1, <1>4, <2>2, Zenon
    <3>2. h \in slesToUpdate \/ view[h] = defs[h]
      BY <1>1, <3>1, Zenon DEF PendingInv
    <3> QED
      BY <1>3, <2>2, <3>1, <3>2, Zenon
  <2> QED
    BY <2>1, <2>2, Zenon
<1>6. ASSUME NEW h \in kept
      PROVE  /\ defs'[h] \in Definition
             /\ defs'[h].refCount = Cardinality(UsersIn(hooks', h))
             /\ UsersIn(hooks', h) # {}
  <2>1. /\ defs'[h] \in Definition
        /\ defs'[h].refCount = Cardinality(UsersIn(hooks', h))
        /\ defs'[h].refCount # 0
    BY <1>1, <1>2, <1>5, Zenon DEF ViewInv, Counted, PendingInv
  <2> QED
    BY <2>1, UsersFinite, Zenon
<1>7. ASSUME NEW h \in Hash, UsersIn(hooks', h) # {}
      PROVE  h \in kept
  <2>1. h \in DOMAIN view \cup DOMAIN slesToInsert
    BY <1>1, <1>2, <1>7, Zenon DEF ViewInv
  <2>2. h \in DOMAIN view => view[h].refCount # 0
    BY <1>1, <1>2, <1>7, UsersFinite, Zenon DEF ViewInv, Counted
  <2> QED
    BY <1>1, <1>4, <2>1, <2>2, Zenon
<1>8. kept \subseteq Hash
  BY <1>1, Zenon
<1> HIDE DEF kept
<1>9. RefCountExact'
  BY <1>3, <1>6, Zenon DEF RefCountExact, Users
<1>10. DefinitionsLive'
  BY <1>3, <1>6, <1>7, <1>8, Zenon DEF DefinitionsLive, Users
<1>11. DOMAIN defs' \subseteq Hash /\ defs' \in [DOMAIN defs' -> Definition]
  <2>1. defs' = [h \in DOMAIN defs' |-> defs'[h]]
    BY Zenon DEF Enact, EnactDefinitions
  <2> QED
    BY <1>3, <1>6, <1>8, <2>1, Zenon
<1>12. ownerCount' \in [Account -> Nat]
  <2>1. newOwnerCount \in Nat
    BY <1>1, ReserveType, SMTT(30) DEF newOwnerCount, IInv, TypeOK
  <2> QED
    BY <1>1, <2>1, Zenon DEF IInv, TypeOK, Enact
<1>13. TypeOK'
  BY <1>1, <1>11, <1>12, SetHookAssumption
    , SMTT(30) DEF Enact, Discard, IInv, TypeOK, Chain, BlankChain, NoDefinitions, Slots
<1> QED
  BY <1>9, <1>10, <1>13, Zenon DEF IInv, Enact, Discard

LEMMA EnactAllStep ==
    ASSUME IInv, EnactAll
    PROVE  IInv'
<1>1. AllSlotsDone /\ account \in Account
      /\ ownerNode \in [Account -> OwnerPage \cup {Absent}]
      /\ dirPage \in [Account -> OwnerPage \cup {Absent}]
      /\ 0 \in OwnerPage
      /\ newOwnerCount \in Int
      /\ fault \in {"none", "tefBAD_LEDGER", "tefINTERNAL"}
  BY ReserveType, SetHookAssumption
     DEF EnactAll, AllSlotsDone, IInv, TypeOK, newOwnerCount
<1>2. CASE newOwnerCount < 0
  BY <1>2, DiscardStep, Zenon DEF EnactAll
<1>3. CASE ~(newOwnerCount < 0)
  <2>1. newOwnerCount >= 0
    BY <1>1, <1>3
  <2>2. CASE deleteHookSLE
    <3>1. CASE ownerNode[account] = dirPage[account]
      BY <1>1, <2>1, <2>2, <3>1, EnactStep, Zenon DEF deleteHookSLE
    <3>2. CASE ownerNode[account] # dirPage[account]
      BY <2>2, <3>2, DiscardStep, Zenon DEF deleteHookSLE
    <3> QED
      BY <3>1, <3>2, Zenon
  <2>3. CASE updateHookSLE
    BY <1>1, <2>1, <2>3, EnactStep, Zenon DEF updateHookSLE
  <2>4. CASE createHookSLE
    BY <1>1, <2>1, <2>4, EnactStep, Zenon DEF createHookSLE
  <2>5. CASE noHookSLE
    BY <1>1, <2>1, <2>5, EnactStep, Zenon DEF noHookSLE
  <2> QED
    BY <1>3, <2>2, <2>3, <2>4, <2>5, Zenon DEF EnactAll
<1> QED
  BY <1>2, <1>3, Zenon

LEMMA NextIInv ==
    ASSUME IInv, [Next]_vars
    PROVE  IInv'
<1>1. ASSUME NEW a \in Account, setHook(a) PROVE IInv'
  BY <1>1, BeginStep, Zenon
<1>2. ASSUME NEW o \in ValidObjects,
             hsoNOOP(o) \/ hsoDELETE(o) \/ hsoUPDATE(o) \/ hsoCREATE(o) \/ hsoINSTALL(o)
      PROVE IInv'
  BY <1>2, NoopStep, DeleteStep, UpdateStep, CreateStep, InstallStep, Zenon
<1>3. fault \in {"none", "tefBAD_LEDGER", "tefINTERNAL"}
  BY Zenon DEF IInv, TypeOK
<1>4. ASSUME NEW o \in ValidObjects,
             tecREQUIRES_FLAG(o) \/ tecNO_ENTRY(o) \/ tecINTERNAL(o)
      PROVE IInv'
  BY <1>3, <1>4, DiscardStep, Zenon DEF tecREQUIRES_FLAG, tecNO_ENTRY, tecINTERNAL
<1>5. ASSUME tecINSUFFICIENT_RESERVE \/ tecDIR_FULL PROVE IInv'
  BY <1>3, <1>5, DiscardStep, Zenon DEF tecINSUFFICIENT_RESERVE, tecDIR_FULL
<1>6. ASSUME UNCHANGED vars PROVE IInv'
  <2> USE <1>6 DEF vars, ledger, working
  <2>1. TypeOK'
    BY Zenon DEF IInv, TypeOK
  <2>2. RefCountExact' /\ DefinitionsLive'
    BY Zenon DEF IInv, RefCountExact, DefinitionsLive, Users, UsersIn
  <2>3. Current' = Current
    BY Zenon DEF Current
  <2>4. phase' = "slots" => ViewInv' /\ PendingInv'
    BY <2>3, Zenon DEF IInv, ViewInv, PendingInv, Counted
  <2> QED
    BY <2>1, <2>2, <2>4, Zenon DEF IInv
<1> QED
  BY <1>1, <1>2, <1>4, <1>5, <1>6, EnactAllStep, Zenon DEF Next, Operation

----------------------------------------------------------------------------
(* The results.                                                            *)

\* The inductive invariant: at every slot of the loop of setHook the counts in
\* the view, in slesToInsert and on the ledger account for the new chain so far
\* and for the old chain from there on.
THEOREM IInvHolds == Spec => []IInv
  BY InitIInv, NextIInv, PTL DEF Spec

\* The type invariant of SetHook, for every set of accounts and hashes.
THEOREM SetHookTypeCorrect == Spec => []TypeOK
<1>1. IInv => TypeOK
  BY Zenon DEF IInv
<1> QED
  BY <1>1, IInvHolds, PTL

\* sfReferenceCount always counts the slots that run the definition
\* (reduceReferenceCount, incrementReferenceCount, slesToUpdate).
THEOREM CountsStayExact == Spec => []RefCountExact
<1>1. IInv => RefCountExact
  BY Zenon DEF IInv
<1> QED
  BY <1>1, IInvHolds, PTL

\* A definition exists exactly as long as it is used: no hook ever loses its
\* code, and no unused code stays on the ledger (keyletsToDestroy).
THEOREM DefinitionsStayLive == Spec => []DefinitionsLive
<1>1. IInv => DefinitionsLive
  BY Zenon DEF IInv
<1> QED
  BY <1>1, IInvHolds, PTL

----------------------------------------------------------------------------
(* The reserve and the listing of the ltHOOK.                              *)

\* The bill of a chain: a unit for each hook and one for each of its items.
LEMMA ReserveIsBill ==
    ASSUME NEW c \in Chain
    PROVE  LET Used == {i \in Slots : c[i] # NoHook}
               Items == {u \in Used \X (1..MaxItems) : u[2] <= c[u[1]].items}
           IN  computeHookReserve(c) = Cardinality(Used) + Cardinality(Items)
<1> DEFINE Used == {i \in Slots : c[i] # NoHook}
           Items == {u \in Used \X (1..MaxItems) : u[2] <= c[u[1]].items}
           Units == {u \in Slots \X (0..MaxItems) :
                        c[u[1]] # NoHook /\ u[2] <= c[u[1]].items}
<1>1. \A i \in Slots : c[i] # NoHook => c[i].items \in 0..MaxItems
  BY Zenon DEF Chain, Hook
<1>2. 0 \in 0..MaxItems /\ 1..MaxItems \subseteq 0..MaxItems
      /\ 0 \notin 1..MaxItems /\ 0..MaxItems = {0} \cup 1..MaxItems
  BY SetHookAssumption
<1>3. \A i \in Used : 0 <= c[i].items
  BY <1>1
<1>4. Units = (Used \X {0}) \cup Items
  <2>1. ASSUME NEW u \in Units PROVE u \in (Used \X {0}) \cup Items
    BY <1>2, Zenon
  <2>2. ASSUME NEW u \in Used \X {0} PROVE u \in Units
    BY <1>2, <1>3, Zenon
  <2>3. ASSUME NEW u \in Items PROVE u \in Units
    BY <1>2, Zenon
  <2> QED
    BY <2>1, <2>2, <2>3, Zenon
<1>5. (Used \X {0}) \cap Items = {}
  BY <1>2, Zenon
<1>6. IsFiniteSet(Slots) /\ IsFiniteSet(1..MaxItems)
  BY FS_Interval, SetHookAssumption DEF Slots
<1>7. IsFiniteSet(Used) /\ Cardinality(Used) \in Nat
  BY <1>6, FS_Subset, FS_CardinalityType, Zenon
<1>8. IsFiniteSet(Items) /\ Cardinality(Items) \in Nat
  <2>1. IsFiniteSet(Used \X (1..MaxItems))
    BY <1>6, <1>7, FS_Product, Zenon
  <2> QED
    BY <2>1, FS_Subset, FS_CardinalityType, Zenon
<1> HIDE DEF Used, Items, Units
<1>9. IsFiniteSet(Used \X {0})
      /\ Cardinality(Used \X {0}) = Cardinality(Used) * Cardinality({0})
  BY <1>7, FS_Product, FS_Singleton, Zenon
<1>10. Cardinality(Used \X {0}) = Cardinality(Used)
  BY <1>7, <1>9, FS_Singleton
<1>11. Cardinality(Units) = Cardinality(Used \X {0}) + Cardinality(Items)
                            - Cardinality((Used \X {0}) \cap Items)
  BY <1>4, <1>8, <1>9, FS_Union, Zenon
<1>12. Cardinality(Units) = Cardinality(Used) + Cardinality(Items)
  BY <1>5, <1>7, <1>8, <1>10, <1>11, FS_EmptySet
<1> QED
  BY <1>12, Zenon DEF computeHookReserve, Used, Items, Units

\* What an account was billed is the reserve of the chain it has.
Billed ==
    /\ \A a \in Account : ownerCount[a] = computeHookReserve(hooks[a])
    /\ fault # "tefINTERNAL"

LEMMA BilledIsExact ==
    ASSUME TypeOK, Billed
    PROVE  ReserveExact
<1> SUFFICES ASSUME NEW a \in Account
             PROVE  LET Used == {i \in Slots : hooks[a][i] # NoHook}
                        Items == {u \in Used \X (1..MaxItems) :
                                    u[2] <= hooks[a][u[1]].items}
                    IN  ownerCount[a] = Cardinality(Used) + Cardinality(Items)
  BY Zenon DEF ReserveExact
<1>1. hooks[a] \in Chain
  BY Zenon DEF TypeOK
<1>2. ownerCount[a] = computeHookReserve(hooks[a])
  BY Zenon DEF Billed
<1> QED
  BY <1>1, <1>2, ReserveIsBill, Zenon

LEMMA BilledInit ==
    ASSUME Init
    PROVE  Billed
<1>1. computeHookReserve(BlankChain) = 0
  <2>1. {u \in Slots \X (0..MaxItems) : BlankChain[u[1]] # NoHook
            /\ u[2] <= BlankChain[u[1]].items} = {}
    BY Zenon DEF BlankChain
  <2> QED
    BY <2>1, FS_EmptySet, Zenon DEF computeHookReserve
<1> QED
  BY <1>1, Zenon DEF Init, Billed

LEMMA BilledStep ==
    ASSUME TypeOK, Billed, [Next]_vars
    PROVE  Billed'
<1>1. ASSUME UNCHANGED <<hooks, ownerCount, fault>> PROVE Billed'
  BY <1>1, Zenon DEF Billed, computeHookReserve
<1>2. ASSUME Enact, account \in Account PROVE Billed'
  <2>1. newOwnerCount = computeHookReserve(newHooks)
    BY <1>2, ReserveType DEF newOwnerCount, Billed
  <2>2. hooks' = [hooks EXCEPT ![account] = newHooks]
        /\ ownerCount' = [ownerCount EXCEPT ![account] = newOwnerCount]
        /\ fault' = fault
    BY <1>2, Zenon DEF Enact
  <2>3. ASSUME NEW a \in Account
        PROVE  ownerCount'[a] = computeHookReserve(hooks'[a])
    <3>1. CASE a = account
      BY <2>1, <2>2, <3>1, <1>2, Zenon DEF TypeOK
    <3>2. CASE a # account
      BY <2>2, <3>2, <1>2, Zenon DEF TypeOK, Billed
    <3> QED
      BY <3>1, <3>2, Zenon
  <2> QED
    BY <2>2, <2>3, Zenon DEF Billed, computeHookReserve
<1>3. ASSUME EnactAll PROVE Billed'
  <2>1. account \in Account
    BY <1>3, Zenon DEF EnactAll, AllSlotsDone, TypeOK
  <2>2. newOwnerCount >= 0
    <3>1. newOwnerCount = computeHookReserve(newHooks)
      BY <2>1, ReserveType DEF newOwnerCount, Billed
    <3> QED
      BY <3>1, ReserveType
  <2>3. newOwnerCount \in Int /\ ~(newOwnerCount < 0)
    BY <2>1, <2>2, ReserveType DEF newOwnerCount, TypeOK
  <2>4. Enact \/ (UNCHANGED ledger /\ fault' = "tefBAD_LEDGER")
    BY <1>3, <2>3, Zenon DEF EnactAll, deleteHookSLE, updateHookSLE, createHookSLE, noHookSLE
  <2>5. CASE UNCHANGED ledger /\ fault' = "tefBAD_LEDGER"
    BY <2>5, Zenon DEF Billed, ledger, computeHookReserve
  <2> QED
    BY <1>2, <2>1, <2>4, <2>5, Zenon
<1>4. EnactAll \/ UNCHANGED <<hooks, ownerCount, fault>>
  BY ZenonT(40) DEF Next, vars, ledger, setHook, Operation, hsoNOOP, hsoDELETE, hsoUPDATE,
     hsoCREATE, hsoINSTALL, NextSlot, tecREQUIRES_FLAG, tecNO_ENTRY, tecINTERNAL,
     tecINSUFFICIENT_RESERVE, tecDIR_FULL
<1> QED
  BY <1>1, <1>3, <1>4, Zenon

----------------------------------------------------------------------------
(* Namespaces, and what the accounts share.                                *)

\* The definition that a slot of the new chain will run.
Prepared(found, new, h) == IF h \in DOMAIN found THEN found[h] ELSE new[h]

\* A slot stores only what differs, also against definitions still prepared.
NameInv ==
    /\ NamespaceNormal
    /\ phase = "slots" =>
        /\ \A h \in DOMAIN view :
            view[h].namespace = defs[h].namespace /\ view[h].flags = defs[h].flags
        /\ \A i \in Slots : i < slot /\ newHooks[i] # NoHook =>
            /\ newHooks[i].hash \in DOMAIN view \cup DOMAIN slesToInsert
            /\ newHooks[i].namespace
                # Prepared(view, slesToInsert, newHooks[i].hash).namespace

\* The definition of a hook on the ledger is on the ledger.
HooksFound ==
    \A a \in Account, i \in Slots :
        hooks[a][i] # NoHook => hooks[a][i].hash \in DOMAIN defs

LEMMA HashFound == TypeOK /\ DefinitionsLive => HooksFound
<1> SUFFICES ASSUME TypeOK, DefinitionsLive, NEW a \in Account, NEW i \in Slots,
                    hooks[a][i] # NoHook
             PROVE  hooks[a][i].hash \in DOMAIN defs
  BY Zenon DEF HooksFound
<1>1. hooks[a][i] \in Hook
  BY DEF TypeOK, Chain
<1>2. hooks[a][i].hash \in Hash
  BY <1>1, Zenon DEF Hook
<1>3. <<a, i>> \in Users(hooks[a][i].hash)
  BY Zenon DEF Users, UsersIn, Runs
<1> QED
  BY <1>2, <1>3, Zenon DEF DefinitionsLive

LEMMA HashFoundNext == TypeOK' /\ DefinitionsLive' => HooksFound'
<1>1. (TypeOK /\ DefinitionsLive => HooksFound)'
  BY HashFound, PTL
<1> QED
  BY <1>1, Zenon

\* Releasing a definition changes its count and nothing else.
LEMMA ReleasedNames ==
    ASSUME TypeOK, NEW h \in DOMAIN view
    PROVE  /\ Released[h].namespace = view[h].namespace
           /\ Released[h].flags = view[h].flags
<1>1. view \in [DOMAIN view -> Definition] /\ view[h] \in Definition
  BY Zenon DEF TypeOK
<1> QED
  BY <1>1, Zenon DEF Released, reduceReferenceCount, Definition

\* A step of the loop that renames no definition and stores a hook in normal
\* form keeps the slots in normal form.
LEMMA SlotNames ==
    ASSUME IInv, NameInv, phase = "slots", slot \in Slots,
           NEW o, NEW hook, NextSlot(o, hook),
           DOMAIN view' = DOMAIN view,
           \A h \in DOMAIN view : view'[h].namespace = view[h].namespace
                                  /\ view'[h].flags = view[h].flags,
           DOMAIN slesToInsert \subseteq DOMAIN slesToInsert',
           \A h \in DOMAIN slesToInsert :
                slesToInsert'[h].namespace = slesToInsert[h].namespace,
           hook # NoHook =>
            /\ hook.hash \in DOMAIN view' \cup DOMAIN slesToInsert'
            /\ hook.namespace # Prepared(view', slesToInsert', hook.hash).namespace
    PROVE  NameInv'
<1>1. /\ hooks' = hooks /\ defs' = defs /\ slot' = slot + 1
      /\ newHooks' = [newHooks EXCEPT ![slot] = hook]
  BY Zenon DEF NextSlot, ledger
<1>2. NamespaceNormal'
  BY <1>1, Zenon DEF NameInv, NamespaceNormal
<1>3. ASSUME NEW h \in DOMAIN view \cup DOMAIN slesToInsert
      PROVE  Prepared(view', slesToInsert', h).namespace = Prepared(view, slesToInsert, h).namespace
  BY <1>3, Zenon DEF Prepared
<1>4. ASSUME NEW i \in Slots, i < slot', newHooks'[i] # NoHook
      PROVE  /\ newHooks'[i].hash \in DOMAIN view' \cup DOMAIN slesToInsert'
             /\ newHooks'[i].namespace # Prepared(view', slesToInsert', newHooks'[i].hash).namespace
  <2>1. newHooks \in Chain /\ slot \in Int /\ i \in Int
    BY DEF IInv, TypeOK, Slots
  <2>2. CASE i = slot
    BY <1>1, <1>4, <2>1, <2>2, Zenon DEF Chain
  <2>3. CASE i # slot
    <3>1. i < slot /\ newHooks'[i] = newHooks[i]
      BY <1>1, <1>4, <2>1, <2>3 DEF Chain
    <3>2. /\ newHooks[i].hash \in DOMAIN view \cup DOMAIN slesToInsert
          /\ newHooks[i].namespace # Prepared(view, slesToInsert, newHooks[i].hash).namespace
      BY <1>4, <3>1, Zenon DEF NameInv
    <3> QED
      BY <1>3, <3>1, <3>2, Zenon
  <2> QED
    BY <2>2, <2>3, Zenon
<1>5. \A h \in DOMAIN view' :
        view'[h].namespace = defs'[h].namespace /\ view'[h].flags = defs'[h].flags
  BY <1>1, Zenon DEF NameInv
<1> QED
  BY <1>2, <1>4, <1>5, Zenon DEF NameInv

LEMMA OperationNames ==
    ASSUME IInv, NameInv, NEW o \in ValidObjects,
           hsoNOOP(o) \/ hsoDELETE(o) \/ hsoUPDATE(o) \/ hsoCREATE(o) \/ hsoINSTALL(o)
    PROVE  NameInv'
<1>1. /\ phase = "slots" /\ slot \in Slots /\ TypeOK /\ ViewInv
      /\ account \in Account
      /\ view \in [DOMAIN view -> Definition]
      /\ slesToInsert \in [DOMAIN slesToInsert -> Definition]
  BY Zenon DEF hsoNOOP, hsoDELETE, hsoUPDATE, hsoCREATE, hsoINSTALL, Entry, IInv, TypeOK
<1>2. oldHook # NoHook => /\ oldHook.hash \in DOMAIN view
                          /\ oldHook.namespace # view[oldHook.hash].namespace
  BY <1>1 DEF NameInv, NamespaceNormal, oldHook, ViewInv
<1>3. \A h \in DOMAIN view : view[h].namespace \in Namespace /\ view[h].namespace # Absent
  BY <1>1, SetHookAssumption DEF Definition
<1>4. \A h \in DOMAIN slesToInsert : slesToInsert[h].namespace # Absent
  BY <1>1, SetHookAssumption, ZenonT(40) DEF Definition
<1>5. DOMAIN Released = DOMAIN view /\ Released \in [DOMAIN view -> Definition]
  BY <1>1, ReleasedFacts, Zenon
<1>6. \A h \in DOMAIN view : Released[h].namespace = view[h].namespace
                             /\ Released[h].flags = view[h].flags
  BY <1>1, ReleasedNames, Zenon
<1>7. CASE hsoNOOP(o)
  <2>1. /\ NextSlot(o, oldHook) /\ view' = view /\ slesToInsert' = slesToInsert
    BY <1>7, Zenon DEF hsoNOOP
  <2>2. oldHook # NoHook =>
            /\ oldHook.hash \in DOMAIN view' \cup DOMAIN slesToInsert'
            /\ oldHook.namespace # Prepared(view', slesToInsert', oldHook.hash).namespace
    BY <1>2, <2>1, Zenon DEF Prepared
  <2> QED
    BY <1>1, <2>1, <2>2, SlotNames, Zenon
<1>8. CASE hsoDELETE(o)
  <2>1. NextSlot(o, NoHook) /\ view' = Released /\ slesToInsert' = slesToInsert
    BY <1>8, Zenon DEF hsoDELETE
  <2> QED
    BY <1>1, <1>5, <1>6, <2>1, SlotNames, Zenon
<1>9. CASE hsoUPDATE(o)
  <2> DEFINE hook == [hash |-> oldHook.hash, namespace |-> UpdatedNamespace(o),
                      flags |-> o.flags, items |-> ItemsOr(o, oldHook.items)]
  <2>1. NextSlot(o, hook) /\ view' = view /\ slesToInsert' = slesToInsert
        /\ oldHook # NoHook /\ oldHook.hash \in DOMAIN view
    BY <1>9, Zenon DEF hsoUPDATE, oldDefFound
  <2>2. UpdatedNamespace(o) # view[oldHook.hash].namespace
    BY <1>2, <1>3, <2>1, Zenon DEF UpdatedNamespace
  <2>3. hook.hash \in DOMAIN view' /\ hook.namespace # Prepared(view', slesToInsert', hook.hash).namespace
    BY <2>1, <2>2, Zenon DEF Prepared
  <2> HIDE DEF hook
  <2> QED
    BY <1>1, <2>1, <2>3, SlotNames, Zenon
<1>10. CASE hsoCREATE(o)
  <2> DEFINE hook == [hash |-> o.createCode, namespace |-> Absent,
                      flags |-> Absent, items |-> ItemsOr(o, 0)]
  <2>1. /\ NextSlot(o, hook) /\ view' = Released
        /\ inferOperation(o) = "CREATE"
        /\ o.createCode \notin DOMAIN view \cup DOMAIN slesToInsert
        /\ slesToInsert' =
            [h \in DOMAIN slesToInsert \cup {o.createCode} |->
                IF h = o.createCode
                THEN [refCount |-> 1, namespace |-> o.namespace,
                      flags |-> newFlags(o)]
                ELSE slesToInsert[h]]
    BY <1>10, Zenon DEF hsoCREATE
  <2>2. o.namespace # Absent
    BY <2>1, EntryFacts, SetHookAssumption, Zenon
  <2>3. /\ DOMAIN slesToInsert' = DOMAIN slesToInsert \cup {o.createCode}
        /\ slesToInsert'[o.createCode].namespace = o.namespace
        /\ \A h \in DOMAIN slesToInsert : slesToInsert'[h] = slesToInsert[h]
    BY <2>1, Zenon
  <2>4. /\ hook.hash \in DOMAIN view' \cup DOMAIN slesToInsert'
        /\ hook.namespace # Prepared(view', slesToInsert', hook.hash).namespace
    BY <1>5, <2>1, <2>2, <2>3, Zenon DEF Prepared
  <2> HIDE DEF hook
  <2>5. NextSlot(o, hook) /\ DOMAIN view' = DOMAIN view
        /\ \A h \in DOMAIN view : view'[h].namespace = view[h].namespace
                                  /\ view'[h].flags = view[h].flags
    BY <1>5, <1>6, <2>1, Zenon
  <2>6. /\ DOMAIN slesToInsert \subseteq DOMAIN slesToInsert'
        /\ \A h \in DOMAIN slesToInsert :
                slesToInsert'[h].namespace = slesToInsert[h].namespace
    BY <2>3, Zenon
  <2>7. phase = "slots" /\ slot \in Slots
    BY <1>1, Zenon
  <2> QED
    BY <2>4, <2>5, <2>6, <2>7, SlotNames, Zenon
<1>11. CASE hsoINSTALL(o)
  <2> DEFINE t == Target(o)
  <2>1. CASE /\ t \in DOMAIN view
             /\ NextSlot(o, InstalledHook(o, view[t]))
             /\ view' = [Released EXCEPT ![t] = Referenced(@, o)]
             /\ slesToInsert' = slesToInsert
    <3>1. /\ DOMAIN view' = DOMAIN view
          /\ \A h \in DOMAIN view : view'[h].namespace = view[h].namespace
                                    /\ view'[h].flags = view[h].flags
      BY <1>5, <1>6, <2>1, Zenon DEF Referenced, incrementReferenceCount, Definition
    <3>2. /\ InstalledHook(o, view[t]).hash = t
          /\ InstalledHook(o, view[t]).namespace = InstalledNamespace(o, view[t])
      BY Zenon DEF InstalledHook
    <3>3. InstalledNamespace(o, view[t]) # view[t].namespace
      BY <1>3, <2>1, Zenon DEF InstalledNamespace
    <3>4. Prepared(view', slesToInsert', t).namespace = view[t].namespace
      BY <2>1, <3>1, Zenon DEF Prepared
    <3> DEFINE hook == InstalledHook(o, view[t])
    <3>5. /\ hook.hash \in DOMAIN view' \cup DOMAIN slesToInsert'
          /\ hook.namespace # Prepared(view', slesToInsert', hook.hash).namespace
      BY <2>1, <3>1, <3>2, <3>3, <3>4, Zenon
    <3>6. NextSlot(o, hook) /\ phase = "slots" /\ slot \in Slots
      BY <1>1, <2>1, Zenon
    <3>7. slesToInsert' = slesToInsert
      BY <2>1, Zenon
    <3> HIDE DEF t, hook
    <3> QED
      BY <3>1, <3>5, <3>6, <3>7, SlotNames, Zenon
  <2>2. CASE /\ t \in DOMAIN slesToInsert \ DOMAIN view
             /\ NextSlot(o, InstalledHook(o, slesToInsert[t]))
             /\ view' = Released
             /\ slesToInsert' = [slesToInsert EXCEPT ![t] = Referenced(@, o)]
    <3>1. /\ DOMAIN slesToInsert' = DOMAIN slesToInsert
          /\ \A h \in DOMAIN slesToInsert :
                slesToInsert'[h].namespace = slesToInsert[h].namespace
      BY <1>1, <2>2, Zenon DEF Referenced, incrementReferenceCount, Definition
    <3>2. /\ InstalledHook(o, slesToInsert[t]).hash = t
          /\ InstalledHook(o, slesToInsert[t]).namespace
                = InstalledNamespace(o, slesToInsert[t])
      BY Zenon DEF InstalledHook
    <3>3. InstalledNamespace(o, slesToInsert[t]) # slesToInsert[t].namespace
      BY <1>4, <2>2, Zenon DEF InstalledNamespace
    <3>4. Prepared(view', slesToInsert', t).namespace = slesToInsert[t].namespace
      BY <1>5, <2>2, <3>1, Zenon DEF Prepared
    <3> DEFINE hook == InstalledHook(o, slesToInsert[t])
    <3>5. /\ hook.hash \in DOMAIN view' \cup DOMAIN slesToInsert'
          /\ hook.namespace # Prepared(view', slesToInsert', hook.hash).namespace
      BY <2>2, <3>1, <3>2, <3>3, <3>4, Zenon
    <3>6. NextSlot(o, hook) /\ phase = "slots" /\ slot \in Slots
      BY <1>1, <2>2, Zenon
    <3>7. /\ DOMAIN view' = DOMAIN view
          /\ \A h \in DOMAIN view : view'[h].namespace = view[h].namespace
                                    /\ view'[h].flags = view[h].flags
      BY <1>5, <1>6, <2>2, Zenon
    <3> HIDE DEF t, hook
    <3> QED
      BY <3>1, <3>5, <3>6, <3>7, SlotNames, Zenon
  <2> QED
    BY <1>11, <2>1, <2>2, Zenon DEF hsoINSTALL
<1> QED
  BY <1>7, <1>8, <1>9, <1>10, <1>11, Zenon

\* Enacting renames no definition that stays, and writes the prepared ones.
LEMMA EnactNames ==
    ASSUME IInv, NameInv, phase = "slots", Enact
    PROVE  /\ \A h \in DOMAIN defs' :
                /\ h \in DOMAIN view \cup DOMAIN slesToInsert
                /\ defs'[h].namespace = Prepared(view, slesToInsert, h).namespace
           /\ \A h \in DOMAIN defs \cap DOMAIN defs' :
                /\ defs'[h].namespace = defs[h].namespace
                /\ defs'[h].flags = defs[h].flags
<1>1. DOMAIN view = DOMAIN defs /\ DOMAIN slesToInsert \cap DOMAIN defs = {}
  BY Zenon DEF IInv, ViewInv
<1>2. /\ DOMAIN defs' \subseteq DOMAIN defs \cup DOMAIN slesToInsert
      /\ \A h \in DOMAIN defs' :
            defs'[h] = IF h \in DOMAIN slesToInsert THEN slesToInsert[h]
                       ELSE IF h \in slesToUpdate THEN view[h]
                       ELSE defs[h]
  BY Zenon DEF Enact, EnactDefinitions
<1>3. \A h \in DOMAIN view :
        view[h].namespace = defs[h].namespace /\ view[h].flags = defs[h].flags
  BY Zenon DEF NameInv
<1> QED
  BY <1>1, <1>2, <1>3, Zenon DEF Prepared

LEMMA EnactKeepsNames ==
    ASSUME IInv, IInv', NameInv, AllSlotsDone, Enact
    PROVE  NameInv'
<1>1. /\ phase = "slots" /\ phase' = "idle" /\ account \in Account
      /\ hooks \in [Account -> Chain] /\ newHooks \in Chain
      /\ hooks' = [hooks EXCEPT ![account] = newHooks]
      /\ \A i \in Slots : i < slot
      /\ TypeOK' /\ DefinitionsLive' /\ ViewInv
  BY SetHookAssumption DEF AllSlotsDone, Enact, Discard, IInv, TypeOK, Slots
<1>2. ASSUME NEW a \in Account, NEW i \in Slots, hooks'[a][i] # NoHook
      PROVE  /\ hooks'[a][i].hash \in DOMAIN defs'
             /\ hooks'[a][i].namespace # defs'[hooks'[a][i].hash].namespace
  <2>1. hooks'[a][i].hash \in DOMAIN defs'
    BY <1>1, <1>2, HashFoundNext, Zenon DEF HooksFound
  <2>2. CASE a = account
    <3>1. hooks'[a][i] = newHooks[i] /\ i < slot
      BY <1>1, <2>2, Zenon
    <3>2. newHooks[i].namespace
            # Prepared(view, slesToInsert, newHooks[i].hash).namespace
      BY <1>1, <1>2, <3>1, Zenon DEF NameInv
    <3> QED
      BY <1>1, <2>1, <3>1, <3>2, EnactNames, Zenon
  <2>3. CASE a # account
    <3>1. hooks'[a][i] = hooks[a][i]
      BY <1>1, <2>3, Zenon
    <3>2. /\ hooks[a][i].hash \in DOMAIN defs
          /\ hooks[a][i].namespace # defs[hooks[a][i].hash].namespace
      BY <1>2, <3>1, Zenon DEF NameInv, NamespaceNormal
    <3> QED
      BY <1>1, <2>1, <3>1, <3>2, EnactNames, Zenon
  <2> QED
    BY <2>1, <2>2, <2>3, Zenon
<1> QED
  BY <1>1, <1>2, Zenon DEF NameInv, NamespaceNormal

\* What a step does to the ledger: all of the transaction, or nothing.
LEMMA LedgerStep ==
    ASSUME [Next]_vars
    PROVE  (AllSlotsDone /\ Enact) \/ UNCHANGED <<hooks, defs>>
<1>1. EnactAll => (AllSlotsDone /\ Enact) \/ UNCHANGED <<hooks, defs>>
  BY Zenon DEF EnactAll, deleteHookSLE, updateHookSLE, createHookSLE, noHookSLE, ledger
<1>2. EnactAll \/ UNCHANGED <<hooks, defs>>
  BY ZenonT(40) DEF Next, vars, ledger, setHook, Operation, hsoNOOP, hsoDELETE, hsoUPDATE,
     hsoCREATE, hsoINSTALL, NextSlot, tecREQUIRES_FLAG, tecNO_ENTRY, tecINTERNAL,
     tecINSUFFICIENT_RESERVE, tecDIR_FULL
<1> QED
  BY <1>1, <1>2, Zenon

LEMMA NextNames ==
    ASSUME IInv, IInv', NameInv, [Next]_vars
    PROVE  NameInv'
<1>1. ASSUME UNCHANGED <<hooks, defs>>, phase' = "idle" PROVE NameInv'
  BY <1>1, Zenon DEF NameInv, NamespaceNormal
<1>2. ASSUME NEW a \in Account, setHook(a) PROVE NameInv'
  <2>1. hooks' = hooks /\ defs' = defs /\ view' = defs /\ slot' = 1
    BY <1>2, Zenon DEF setHook, ledger
  <2>2. \A i \in Slots : ~(i < 1)
    BY DEF Slots
  <2> QED
    BY <2>1, <2>2, Zenon DEF NameInv, NamespaceNormal
<1>3. ASSUME Operation PROVE NameInv'
  <2>1. PICK o \in ValidObjects :
            \/ hsoNOOP(o) \/ hsoDELETE(o) \/ hsoUPDATE(o)
            \/ hsoCREATE(o) \/ hsoINSTALL(o)
            \/ tecREQUIRES_FLAG(o) \/ tecNO_ENTRY(o) \/ tecINTERNAL(o)
    BY <1>3, Zenon DEF Operation
  <2>2. CASE tecREQUIRES_FLAG(o) \/ tecNO_ENTRY(o) \/ tecINTERNAL(o)
    BY <1>1, <2>2, Zenon DEF tecREQUIRES_FLAG, tecNO_ENTRY, tecINTERNAL, Discard, ledger
  <2> QED
    BY <2>1, <2>2, OperationNames, Zenon
<1>4. ASSUME tecINSUFFICIENT_RESERVE \/ tecDIR_FULL PROVE NameInv'
  BY <1>1, <1>4, Zenon DEF tecINSUFFICIENT_RESERVE, tecDIR_FULL, Discard, ledger
<1>5. ASSUME EnactAll PROVE NameInv'
  <2>1. AllSlotsDone /\ (Enact \/ (UNCHANGED <<hooks, defs>> /\ phase' = "idle"))
    BY <1>5, Zenon DEF EnactAll, deleteHookSLE, updateHookSLE, createHookSLE, noHookSLE,
       ledger, Discard
  <2> QED
    BY <1>1, <2>1, EnactKeepsNames, Zenon
<1>6. ASSUME UNCHANGED vars PROVE NameInv'
  BY <1>6, Zenon DEF vars, ledger, working, NameInv, NamespaceNormal
<1> QED
  BY <1>2, <1>3, <1>4, <1>5, <1>6, Zenon DEF Next

\* No other account notices: its slots stay, and the definitions they run keep
\* their namespace and flags and stay on the ledger.
LEMMA OthersStep ==
    ASSUME IInv, IInv', NameInv, [Next]_vars, NEW a \in Account \ {account},
           NEW i \in Slots
    PROVE  Effective(a, i)' = Effective(a, i)
<1>1. CASE UNCHANGED <<hooks, defs>>
  BY <1>1, Zenon DEF Effective
<1>2. CASE AllSlotsDone /\ Enact
  <2>1. phase = "slots" /\ hooks'[a][i] = hooks[a][i]
    BY <1>2, Zenon DEF AllSlotsDone, Enact, IInv, TypeOK
  <2>2. CASE hooks[a][i] = NoHook
    BY <2>1, <2>2, Zenon DEF Effective
  <2>3. CASE hooks[a][i] # NoHook
    <3> DEFINE h == hooks[a][i].hash
    <3>1. h \in DOMAIN defs
      BY <2>3, HashFound, Zenon DEF IInv, HooksFound
    <3>2. h \in DOMAIN defs'
      BY <2>1, <2>3, HashFoundNext, Zenon DEF IInv, HooksFound
    <3>3. defs'[h].namespace = defs[h].namespace /\ defs'[h].flags = defs[h].flags
      BY <1>2, <2>1, <3>1, <3>2, EnactNames, Zenon
    <3> QED
      BY <2>1, <2>3, <3>1, <3>2, <3>3, Zenon DEF Effective
  <2> QED
    BY <2>2, <2>3, Zenon
<1> QED
  BY <1>1, <1>2, LedgerStep, Zenon

\* The ltHOOK and its directory entry come and go with the first and the last
\* hook of the chain.
LEMMA ListedStep ==
    ASSUME TypeOK, HookListed, [Next]_vars
    PROVE  HookListed'
<1>1. ASSUME UNCHANGED <<hooks, ownerNode, dirPage>> PROVE HookListed'
  BY <1>1, Zenon DEF HookListed
<1>2. ASSUME EnactAll PROVE HookListed'
  <2>1. /\ account \in Account
        /\ ownerNode \in [Account -> OwnerPage \cup {Absent}]
        /\ dirPage \in [Account -> OwnerPage \cup {Absent}]
        /\ hooks \in [Account -> Chain]
        /\ 0 \in OwnerPage /\ Absent \notin OwnerPage
    BY <1>2, SetHookAssumption, Zenon DEF EnactAll, AllSlotsDone, TypeOK
  <2>2. ASSUME Enact,
               \A a \in Account \ {account} :
                    ownerNode'[a] = ownerNode[a] /\ dirPage'[a] = dirPage[a],
               ownerNode'[account] = Absent <=> newHooksEmpty,
               ownerNode'[account] = Absent <=> dirPage'[account] = Absent
        PROVE  HookListed'
    <3>1. hooks' = [hooks EXCEPT ![account] = newHooks]
      BY <2>2, Zenon DEF Enact
    <3> QED
      BY <2>1, <2>2, <3>1, Zenon DEF HookListed, newHooksEmpty
  <2>3. CASE deleteHookSLE
    <3>1. CASE ownerNode[account] = dirPage[account]
      BY <2>1, <2>2, <2>3, <3>1, Zenon DEF deleteHookSLE
    <3>2. CASE ownerNode[account] # dirPage[account]
      BY <1>1, <2>3, <3>2, Zenon DEF deleteHookSLE, ledger
    <3> QED
      BY <3>1, <3>2, Zenon
  <2>4. CASE updateHookSLE
    <3>1. dirPage' = dirPage /\ dirPage[account] # Absent
      BY <2>1, <2>4, Zenon DEF updateHookSLE, HookListed
    <3>2. Enact /\ ownerNode' = [ownerNode EXCEPT ![account] = 0] /\ ~newHooksEmpty
      BY <2>4, Zenon DEF updateHookSLE
    <3> QED
      BY <2>1, <2>2, <3>1, <3>2, Zenon
  <2>5. CASE createHookSLE
    <3>1. PICK page \in OwnerPage :
            /\ ownerNode' = [ownerNode EXCEPT ![account] = page]
            /\ dirPage' = [dirPage EXCEPT ![account] = page]
      BY <2>5, Zenon DEF createHookSLE
    <3>2. Enact /\ ~newHooksEmpty
      BY <2>5, Zenon DEF createHookSLE
    <3> QED
      BY <2>1, <2>2, <3>1, <3>2, Zenon
  <2>6. CASE noHookSLE
    <3>1. /\ ownerNode' = ownerNode /\ dirPage' = dirPage
          /\ ownerNode[account] = Absent /\ dirPage[account] = Absent
          /\ Enact /\ newHooksEmpty
      BY <2>1, <2>6, Zenon DEF noHookSLE, HookListed
    <3> QED
      BY <2>2, <3>1, Zenon
  <2> QED
    BY <1>1, <1>2, <2>3, <2>4, <2>5, <2>6, Zenon DEF EnactAll, ledger
<1>3. EnactAll \/ UNCHANGED <<hooks, ownerNode, dirPage>>
  BY ZenonT(40) DEF Next, vars, ledger, setHook, Operation, hsoNOOP, hsoDELETE, hsoUPDATE,
     hsoCREATE, hsoINSTALL, NextSlot, tecREQUIRES_FLAG, tecNO_ENTRY, tecINTERNAL,
     tecINSUFFICIENT_RESERVE, tecDIR_FULL
<1> QED
  BY <1>1, <1>2, <1>3, Zenon

----------------------------------------------------------------------------
(* Flags.                                                                  *)

Stripped(f) == f \in {Absent} \cup SUBSET LedgerFlags

\* Neither the ledger nor what is prepared for it has an instruction flag.
FlagInv ==
    /\ FlagsStripped
    /\ \A i \in Slots : newHooks[i] # NoHook => Stripped(newHooks[i].flags)
    /\ \A h \in DOMAIN view : view[h].flags \subseteq LedgerFlags
    /\ \A h \in DOMAIN slesToInsert : slesToInsert[h].flags \subseteq LedgerFlags

\* An entry with hsfNSDELETE is not an update if it has a namespace, and is
\* refused if it has none.
LEMMA UpdateFlags ==
    ASSUME NEW o \in ValidObjects, inferOperation(o) = "UPDATE"
    PROVE  Stripped(o.flags)
<1>1. validateHookSetEntry(o) /\ o.flags \in OptFlags
  BY EntryFacts, Zenon DEF ValidObjects
<1>2. "hsfOVERRIDE" \notin FlagsOf(o) /\ ("hsfNSDELETE" \in FlagsOf(o) => o.namespace # Absent)
  BY <1>1, Zenon DEF validateHookSetEntry
<1>3. ~(o.namespace # Absent /\ "hsfNSDELETE" \in FlagsOf(o))
  BY Zenon DEF inferOperation
<1>4. o.flags # Absent => FlagsOf(o) = o.flags /\ o.flags \subseteq SetFlags
  BY <1>1, Zenon DEF FlagsOf, OptFlags
<1> QED
  BY <1>2, <1>3, <1>4, Zenon DEF Stripped, SetFlags

LEMMA SlotFlags ==
    ASSUME IInv, FlagInv, phase = "slots", slot \in Slots,
           NEW o, NEW hook, NextSlot(o, hook),
           hook # NoHook => Stripped(hook.flags),
           \A h \in DOMAIN view' : view'[h].flags \subseteq LedgerFlags,
           \A h \in DOMAIN slesToInsert' : slesToInsert'[h].flags \subseteq LedgerFlags
    PROVE  FlagInv'
<1>1. /\ hooks' = hooks /\ defs' = defs /\ newHooks \in Chain
      /\ newHooks' = [newHooks EXCEPT ![slot] = hook]
  BY Zenon DEF NextSlot, ledger, IInv, TypeOK
<1>2. FlagsStripped'
  BY <1>1, Zenon DEF FlagInv, FlagsStripped
<1>3. \A i \in Slots : newHooks'[i] # NoHook => Stripped(newHooks'[i].flags)
  BY <1>1, Zenon DEF FlagInv, Chain
<1> QED
  BY <1>2, <1>3, Zenon DEF FlagInv

LEMMA OperationFlags ==
    ASSUME IInv, FlagInv, NEW o \in ValidObjects,
           hsoNOOP(o) \/ hsoDELETE(o) \/ hsoUPDATE(o) \/ hsoCREATE(o) \/ hsoINSTALL(o)
    PROVE  FlagInv'
<1>1. /\ phase = "slots" /\ slot \in Slots /\ TypeOK /\ account \in Account
      /\ slesToInsert \in [DOMAIN slesToInsert -> Definition]
  BY Zenon DEF hsoNOOP, hsoDELETE, hsoUPDATE, hsoCREATE, hsoINSTALL, Entry, IInv, TypeOK
<1>2. oldHook # NoHook => Stripped(oldHook.flags)
  BY <1>1, Zenon DEF FlagInv, FlagsStripped, oldHook, Stripped
<1>3. DOMAIN Released = DOMAIN view /\ Released \in [DOMAIN view -> Definition]
  BY <1>1, ReleasedFacts, Zenon
<1>4. \A h \in DOMAIN Released : Released[h].flags \subseteq LedgerFlags
  BY <1>1, <1>3, ReleasedNames, Zenon DEF FlagInv
<1>5. /\ \A h \in DOMAIN view : view[h].flags \subseteq LedgerFlags
      /\ \A h \in DOMAIN slesToInsert : slesToInsert[h].flags \subseteq LedgerFlags
      /\ newFlags(o) \subseteq LedgerFlags
  BY EntryFacts, Zenon DEF FlagInv
<1>6. CASE hsoNOOP(o)
  BY <1>1, <1>2, <1>5, <1>6, SlotFlags, Zenon DEF hsoNOOP
<1>7. CASE hsoDELETE(o)
  BY <1>1, <1>4, <1>5, <1>7, SlotFlags, Zenon DEF hsoDELETE
<1>8. CASE hsoUPDATE(o)
  <2> DEFINE hook == [hash |-> oldHook.hash, namespace |-> UpdatedNamespace(o),
                      flags |-> o.flags, items |-> ItemsOr(o, oldHook.items)]
  <2>1. NextSlot(o, hook) /\ view' = view /\ slesToInsert' = slesToInsert
    BY <1>8, Zenon DEF hsoUPDATE
  <2>2. Stripped(hook.flags)
    BY <1>8, UpdateFlags, Zenon DEF hsoUPDATE
  <2> HIDE DEF hook
  <2> QED
    BY <1>1, <1>5, <2>1, <2>2, SlotFlags, Zenon
<1>9. CASE hsoCREATE(o)
  <2> DEFINE hook == [hash |-> o.createCode, namespace |-> Absent,
                      flags |-> Absent, items |-> ItemsOr(o, 0)]
             d == [refCount |-> 1, namespace |-> o.namespace, flags |-> newFlags(o)]
  <2>1. /\ NextSlot(o, hook) /\ view' = Released
        /\ slesToInsert' =
            [h \in DOMAIN slesToInsert \cup {o.createCode} |->
                IF h = o.createCode THEN d ELSE slesToInsert[h]]
    BY <1>9, Zenon DEF hsoCREATE
  <2>2. Stripped(hook.flags) /\ d.flags = newFlags(o)
    BY Zenon DEF Stripped
  <2> HIDE DEF hook, d
  <2>3. \A h \in DOMAIN slesToInsert' : slesToInsert'[h].flags \subseteq LedgerFlags
    BY <1>5, <2>1, <2>2, Zenon
  <2> QED
    BY <1>1, <1>4, <2>1, <2>2, <2>3, SlotFlags, Zenon
<1>10. CASE hsoINSTALL(o)
  <2> DEFINE t == Target(o)
  <2>1. \A d : Stripped(InstalledHook(o, d).flags)
    BY <1>5, Zenon DEF InstalledHook, Stripped
  <2>2. \A d \in Definition : Referenced(d, o).flags = d.flags
    BY Zenon DEF Referenced, incrementReferenceCount, Definition
  <2>3. CASE /\ t \in DOMAIN view
             /\ NextSlot(o, InstalledHook(o, view[t]))
             /\ view' = [Released EXCEPT ![t] = Referenced(@, o)]
             /\ slesToInsert' = slesToInsert
    <3>1. \A h \in DOMAIN view' : view'[h].flags \subseteq LedgerFlags
      BY <1>3, <1>4, <2>2, <2>3, Zenon
    <3> QED
      BY <1>1, <1>5, <2>1, <2>3, <3>1, SlotFlags, Zenon
  <2>4. CASE /\ t \in DOMAIN slesToInsert \ DOMAIN view
             /\ NextSlot(o, InstalledHook(o, slesToInsert[t]))
             /\ view' = Released
             /\ slesToInsert' = [slesToInsert EXCEPT ![t] = Referenced(@, o)]
    <3>1. \A h \in DOMAIN slesToInsert' : slesToInsert'[h].flags \subseteq LedgerFlags
      BY <1>1, <1>5, <2>2, <2>4, Zenon
    <3> QED
      BY <1>1, <1>4, <2>1, <2>4, <3>1, SlotFlags, Zenon
  <2> QED
    BY <1>10, <2>3, <2>4, Zenon DEF hsoINSTALL
<1> QED
  BY <1>6, <1>7, <1>8, <1>9, <1>10, Zenon

LEMMA NextFlags ==
    ASSUME IInv, FlagInv, [Next]_vars
    PROVE  FlagInv'
<1>1. ASSUME Discard, FlagsStripped' PROVE FlagInv'
  BY <1>1, Zenon DEF Discard, FlagInv, BlankChain, NoDefinitions
<1>2. ASSUME UNCHANGED ledger PROVE FlagsStripped'
  BY <1>2, Zenon DEF ledger, FlagInv, FlagsStripped
<1>3. ASSUME NEW a \in Account, setHook(a) PROVE FlagInv'
  <2>1. FlagsStripped' /\ view' = defs /\ newHooks' = BlankChain
        /\ slesToInsert' = NoDefinitions
    BY <1>2, <1>3, Zenon DEF setHook
  <2> QED
    BY <2>1, Zenon DEF FlagInv, FlagsStripped, BlankChain, NoDefinitions
<1>4. ASSUME Operation PROVE FlagInv'
  <2>1. PICK o \in ValidObjects :
            \/ hsoNOOP(o) \/ hsoDELETE(o) \/ hsoUPDATE(o)
            \/ hsoCREATE(o) \/ hsoINSTALL(o)
            \/ tecREQUIRES_FLAG(o) \/ tecNO_ENTRY(o) \/ tecINTERNAL(o)
    BY <1>4, Zenon DEF Operation
  <2>2. CASE tecREQUIRES_FLAG(o) \/ tecNO_ENTRY(o) \/ tecINTERNAL(o)
    BY <1>1, <1>2, <2>2, Zenon DEF tecREQUIRES_FLAG, tecNO_ENTRY, tecINTERNAL
  <2> QED
    BY <2>1, <2>2, OperationFlags, Zenon
<1>5. ASSUME tecINSUFFICIENT_RESERVE \/ tecDIR_FULL PROVE FlagInv'
  BY <1>1, <1>2, <1>5, Zenon DEF tecINSUFFICIENT_RESERVE, tecDIR_FULL
<1>6. ASSUME Enact, account \in Account, phase = "slots" PROVE FlagInv'
  <2>1. /\ hooks \in [Account -> Chain] /\ hooks' = [hooks EXCEPT ![account] = newHooks]
        /\ Discard
    BY <1>6, Zenon DEF Enact, IInv, TypeOK
  <2>2. \A a \in Account, i \in Slots :
            hooks'[a][i] # NoHook => hooks'[a][i].flags \in {Absent} \cup SUBSET LedgerFlags
    BY <1>6, <2>1, Zenon DEF FlagInv, FlagsStripped, Stripped
  <2>3. ASSUME NEW h \in DOMAIN defs' PROVE defs'[h].flags \subseteq LedgerFlags
    <3>1. /\ defs'[h] = IF h \in DOMAIN slesToInsert THEN slesToInsert[h]
                        ELSE IF h \in slesToUpdate THEN view[h]
                        ELSE defs[h]
          /\ h \in DOMAIN defs \cup DOMAIN slesToInsert
      BY <1>6, <2>3, Zenon DEF Enact, EnactDefinitions
    <3>2. DOMAIN view = DOMAIN defs
      BY <1>6, Zenon DEF IInv, ViewInv
    <3> QED
      BY <3>1, <3>2, Zenon DEF FlagInv, FlagsStripped
  <2> QED
    BY <1>1, <2>1, <2>2, <2>3, Zenon DEF FlagsStripped
<1>7. ASSUME EnactAll PROVE FlagInv'
  <2>1. account \in Account /\ phase = "slots"
    BY <1>7, Zenon DEF EnactAll, AllSlotsDone, IInv, TypeOK
  <2>2. Enact \/ (Discard /\ UNCHANGED ledger)
    BY <1>7, Zenon DEF EnactAll, deleteHookSLE, updateHookSLE, createHookSLE, noHookSLE
  <2> QED
    BY <1>1, <1>2, <1>6, <2>1, <2>2, Zenon
<1>8. ASSUME UNCHANGED vars PROVE FlagInv'
  BY <1>8, Zenon DEF vars, ledger, working, FlagInv, FlagsStripped
<1> QED
  BY <1>3, <1>4, <1>5, <1>7, <1>8, Zenon DEF Next

----------------------------------------------------------------------------
(* The results.                                                            *)

\* An account is billed for exactly the hooks, parameters and grants it has, for
\* any number of slots and items (computeHookReserve, adjustOwnerCount).
THEOREM ReserveStaysExact == Spec => []ReserveExact
<1>1. TypeOK /\ Billed => ReserveExact
  BY BilledIsExact, Zenon
<1>2. TypeOK /\ Billed /\ [Next]_vars => Billed'
  BY BilledStep, Zenon
<1>3. Init => Billed
  BY BilledInit, Zenon
<1> QED
  BY <1>1, <1>2, <1>3, SetHookTypeCorrect, PTL DEF Spec

\* setHook never meets its "owner count" error: tefINTERNAL is unreachable.
THEOREM NeverInternalError == Spec => []NoInternalError
<1>1. Billed => NoInternalError
  BY Zenon DEF Billed, NoInternalError
<1>2. TypeOK /\ Billed /\ [Next]_vars => Billed'
  BY BilledStep, Zenon
<1>3. Init => Billed
  BY BilledInit, Zenon
<1> QED
  BY <1>1, <1>2, <1>3, SetHookTypeCorrect, PTL DEF Spec

\* A slot keeps a namespace of its own only where it differs from the one of its
\* definition, for any accounts, slots and namespaces (the namespace branches of
\* hsoUPDATE and of the install part of hsoCREATE).
THEOREM NamespacesStayNormal == Spec => []NamespaceNormal
<1>1. Init => NameInv
  BY Zenon DEF Init, NameInv, NamespaceNormal, BlankChain
<1>2. IInv /\ IInv' /\ NameInv /\ [Next]_vars => NameInv'
  BY NextNames, Zenon
<1>3. NameInv => NamespaceNormal
  BY Zenon DEF NameInv
<1> QED
  BY <1>1, <1>2, <1>3, IInvHolds, PTL DEF Spec

\* A SetHook transaction never changes what the hooks of other accounts run with,
\* although definitions are shared (EnactDefinitions, incrementReferenceCount).
THEOREM OthersStayUntouched == Spec => OthersUntouched
<1> DEFINE Step == \A a \in Account \ {account} : \A i \in Slots :
                        Effective(a, i)' = Effective(a, i)
<1>1. Init => NameInv
  BY Zenon DEF Init, NameInv, NamespaceNormal, BlankChain
<1>2. IInv /\ IInv' /\ NameInv /\ [Next]_vars => NameInv' /\ Step
  BY NextNames, OthersStep, Zenon
<1> HIDE DEF Step
<1>3. Spec => [][Step]_vars
  BY <1>1, <1>2, IInvHolds, PTL DEF Spec
<1> QED
  BY <1>3, Zenon DEF Step, OthersUntouched

\* The owner directory lists an ltHOOK exactly while the account has a hook,
\* although an update forgets the page (the end of setHook).
THEOREM HookStaysListed == Spec => []HookListed
<1>1. Init => HookListed
  BY Zenon DEF Init, HookListed, BlankChain
<1>2. TypeOK /\ HookListed /\ [Next]_vars => HookListed'
  BY ListedStep, Zenon
<1> QED
  BY <1>1, <1>2, SetHookTypeCorrect, PTL DEF Spec

\* No flag that instructs a transaction is ever stored, for any ledger flags
\* (validateHookSetEntry, inferOperation and newFlags).
THEOREM FlagsStayStripped == Spec => []FlagsStripped
<1>1. Init => FlagInv
  BY DEF Init, FlagInv, FlagsStripped, BlankChain, NoDefinitions
<1>2. IInv /\ FlagInv /\ [Next]_vars => FlagInv'
  BY NextFlags, Zenon
<1>3. FlagInv => FlagsStripped
  BY Zenon DEF FlagInv
<1> QED
  BY <1>1, <1>2, <1>3, IInvHolds, PTL DEF Spec

==============================================================================
