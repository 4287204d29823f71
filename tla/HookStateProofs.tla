--------------------------- MODULE HookStateProofs ---------------------------
(***************************************************************************)
(* The state entries that hooks keep, for any number of accounts, namespaces *)
(* and keys.  In the inductive invariant each account root is sound by     *)
(* itself, and so is the one a reset restores; the cache agrees with the   *)
(* ledger and with what was asked; and every entry the cache would create is *)
(* backed by a reserve position that nobody else can take.                 *)
(***************************************************************************)
EXTENDS HookState, FiniteSetTheorems, TLAPS

Sound(acc) ==
    /\ acc.alive =>
        /\ acc.stateCount = Cardinality(Entries(acc))
        /\ acc.namespaces = Spaces(Entries(acc))
        /\ acc.ownerCount >= Cardinality(Entries(acc))
    /\ ~acc.alive => Entries(acc) = {}


----------------------------------------------------------------------------
(* Account roots.                                                          *)

LEMMA EntriesFinite ==
    ASSUME NEW acc
    PROVE  IsFiniteSet(Entries(acc)) /\ Cardinality(Entries(acc)) \in Nat
<1>1. IsFiniteSet(Entry)
    BY HookStateAssumption, FS_Product, Zenon DEF Entry
<1>2. Entries(acc) \in SUBSET Entry
    BY Zenon DEF Entries
<1>3. IsFiniteSet(Entries(acc))
    BY <1>1, <1>2, FS_Subset, Zenon
<1> QED BY <1>3, FS_CardinalityType, Zenon

LEMMA NewAccountSound ==
    ASSUME NEW b \in Nat
    PROVE  NewAccount(b) \in AccountRoot /\ Sound(NewAccount(b))
           /\ Entries(NewAccount(b)) = {}
<1>1. NewAccount(b) \in AccountRoot
    BY Zenon DEF NewAccount, AccountRoot, Value
<1>2. Entries(NewAccount(b)) = {}
    BY Zenon DEF NewAccount, Entries
<1>3. Spaces({}) = {}
    BY Zenon DEF Spaces
<1>4. /\ NewAccount(b).alive = TRUE /\ NewAccount(b).stateCount = 0
      /\ NewAccount(b).namespaces = {} /\ NewAccount(b).ownerCount = 0
    BY Zenon DEF NewAccount
<1>5. Sound(NewAccount(b))
    BY <1>2, <1>3, <1>4, FS_EmptySet DEF Sound
<1> QED BY <1>1, <1>2, <1>5, Zenon

\* An account whose entries and counts are those of a sound one is sound.
LEMMA SameEntries ==
    ASSUME NEW acc \in AccountRoot, NEW new \in AccountRoot, Sound(acc),
           new.state = acc.state, new.stateCount = acc.stateCount,
           new.namespaces = acc.namespaces, new.ownerCount = acc.ownerCount,
           new.alive = acc.alive
    PROVE  Sound(new)
<1>1. Entries(new) = Entries(acc)
    BY Zenon DEF Entries
<1> QED BY <1>1, Zenon DEF Sound

LEMMA RemovedSound ==
    ASSUME NEW acc \in AccountRoot, Sound(acc), acc.alive, NEW e \in Entries(acc)
    PROVE  /\ Removed(acc, e) \in AccountRoot /\ Sound(Removed(acc, e))
           /\ Removed(acc, e).ownerCount = acc.ownerCount - 1
           /\ Removed(acc, e).balance = acc.balance
           /\ Removed(acc, e).alive
           /\ Removed(acc, e).state = [acc.state EXCEPT ![e] = Empty]
<1> DEFINE new == Removed(acc, e)
           E == Entries(acc)
<1>1. e \in Entry /\ acc.state \in [Entry -> Value] /\ acc.state[e] # Empty
    BY Zenon DEF Entries, AccountRoot
<1>2. IsFiniteSet(E) /\ Cardinality(E) \in Nat
    BY EntriesFinite, Zenon
<1>3. Cardinality(E \ {e}) = Cardinality(E) - 1 /\ Cardinality(E \ {e}) \in Nat
    BY <1>2, FS_RemoveElement, FS_CardinalityType, Zenon
<1>4. acc.stateCount = Cardinality(E) /\ acc.ownerCount >= Cardinality(E)
      /\ acc.namespaces = Spaces(E) /\ acc.ownerCount \in Nat /\ acc.stateCount \in Nat
      /\ acc.namespaces \subseteq Namespace
    BY Zenon DEF Sound, AccountRoot
<1>5. acc.stateCount > 0 /\ acc.ownerCount > 0
    BY <1>3, <1>4, <1>2
<1> DEFINE state == [acc.state EXCEPT ![e] = Empty]
           count == acc.stateCount - 1
           owned == acc.ownerCount - 1
           spaces == NamespacesLeft(acc, e)
<1>6. /\ state \in [Entry -> Value] /\ count \in Nat /\ owned \in Nat
      /\ spaces \in SUBSET Namespace
    BY <1>1, <1>4, <1>5 DEF NamespacesLeft, Value
<1>7. new = [acc EXCEPT !.state = state, !.stateCount = count,
                        !.ownerCount = owned, !.namespaces = spaces]
    <2>1. (IF acc.stateCount > 0 THEN acc.stateCount - 1 ELSE 0) = acc.stateCount - 1
        BY <1>5, Zenon
    <2>2. (IF acc.stateCount - 1 < acc.stateCount /\ acc.ownerCount > 0
           THEN acc.ownerCount - 1 ELSE acc.ownerCount) = acc.ownerCount - 1
        BY <1>4, <1>5
    <2> QED BY <2>1, <2>2, Zenon DEF Removed, computeHookStateOwnerCount
<1>8. /\ new \in AccountRoot
      /\ new.state = state /\ new.stateCount = count
      /\ new.ownerCount = owned /\ new.namespaces = spaces
      /\ new.alive = acc.alive /\ new.balance = acc.balance
    <2> HIDE DEF new, state, count, owned, spaces
    <2> QED BY <1>6, <1>7, Zenon DEF AccountRoot
<1>9. Entries(new) = E \ {e}
    BY <1>1, <1>8, Zenon DEF Entries
<1>10. NamespacesLeft(acc, e) = Spaces(E \ {e})
    BY <1>4, Zenon DEF NamespacesLeft, Spaces
<1>11. Sound(new)
    BY <1>3, <1>4, <1>8, <1>9, <1>10 DEF Sound
<1> QED BY <1>8, <1>11, Zenon

LEMMA CreatedSound ==
    ASSUME NEW acc \in AccountRoot, Sound(acc), acc.alive,
           NEW e \in Entry, e \notin Entries(acc), NEW data \in Data
    PROVE  /\ Created(acc, e, data) \in AccountRoot /\ Sound(Created(acc, e, data))
           /\ Created(acc, e, data).ownerCount = acc.ownerCount + 1
           /\ Created(acc, e, data).balance = acc.balance
           /\ Created(acc, e, data).alive
           /\ Created(acc, e, data).state = [acc.state EXCEPT ![e] = data]
<1> DEFINE new == Created(acc, e, data)
           E == Entries(acc)
<1>1. acc.state \in [Entry -> Value] /\ data # Empty /\ e[1] \in Namespace
    BY HookStateAssumption, Zenon DEF AccountRoot, Entry
<1>2. IsFiniteSet(E) /\ Cardinality(E) \in Nat
    BY EntriesFinite, Zenon
<1>3. Cardinality(E \cup {e}) = Cardinality(E) + 1
    BY <1>2, FS_AddElement, Zenon
<1>4. acc.stateCount = Cardinality(E) /\ acc.ownerCount >= Cardinality(E)
      /\ acc.namespaces = Spaces(E) /\ acc.ownerCount \in Nat /\ acc.stateCount \in Nat
      /\ acc.namespaces \subseteq Namespace
    BY Zenon DEF Sound, AccountRoot
<1>5. NeedsReserve(acc)
    BY <1>4 DEF NeedsReserve, computeHookStateOwnerCount
<1> DEFINE state == [acc.state EXCEPT ![e] = data]
           count == acc.stateCount + 1
           owned == acc.ownerCount + 1
           spaces == IF e[1] \in Spaces(E) THEN acc.namespaces
                     ELSE acc.namespaces \cup {e[1]}
<1>6. /\ state \in [Entry -> Value] /\ count \in Nat /\ owned \in Nat
      /\ spaces \in SUBSET Namespace
    BY <1>1, <1>4 DEF Value
<1>7. new = [acc EXCEPT !.state = state, !.stateCount = count,
                        !.ownerCount = owned, !.namespaces = spaces]
    BY <1>5, Zenon DEF Created
<1>8. /\ new \in AccountRoot
      /\ new.state = state /\ new.stateCount = count
      /\ new.ownerCount = owned /\ new.namespaces = spaces
      /\ new.alive = acc.alive /\ new.balance = acc.balance
    <2> HIDE DEF new, state, count, owned, spaces
    <2> QED BY <1>6, <1>7, Zenon DEF AccountRoot
<1>9. Entries(new) = E \cup {e}
    BY <1>1, <1>8 DEF Entries
<1>10. spaces = Spaces(E \cup {e})
    BY <1>4, Zenon DEF Spaces
<1>11. Sound(new)
    <2> HIDE DEF new, spaces
    <2> QED BY <1>2, <1>3, <1>4, <1>8, <1>9, <1>10 DEF Sound
<1> QED BY <1>8, <1>11, Zenon

LEMMA UpdatedSound ==
    ASSUME NEW acc \in AccountRoot, Sound(acc), NEW e \in Entries(acc), NEW data \in Data
    PROVE  /\ Updated(acc, e, data) \in AccountRoot /\ Sound(Updated(acc, e, data))
           /\ Updated(acc, e, data).ownerCount = acc.ownerCount
           /\ Updated(acc, e, data).balance = acc.balance
           /\ Updated(acc, e, data).alive = acc.alive
           /\ Updated(acc, e, data).state = [acc.state EXCEPT ![e] = data]
<1> DEFINE new == Updated(acc, e, data)
<1>1. e \in Entry /\ acc.state \in [Entry -> Value] /\ acc.state[e] # Empty /\ data # Empty
    BY HookStateAssumption, Zenon DEF Entries, AccountRoot
<1>2. /\ new.state = [acc.state EXCEPT ![e] = data]
      /\ new.stateCount = acc.stateCount /\ new.ownerCount = acc.ownerCount
      /\ new.namespaces = acc.namespaces /\ new.alive = acc.alive
      /\ new.balance = acc.balance
    BY Zenon DEF AccountRoot, Updated
<1>3. new \in AccountRoot
    BY <1>1, Zenon DEF AccountRoot, Value, Updated
<1>4. Entries(new) = Entries(acc)
    BY <1>1, <1>2, Zenon DEF Entries
<1>5. Sound(new)
    BY <1>2, <1>4, Zenon DEF Sound
<1> QED BY <1>2, <1>3, <1>5, Zenon

LEMMA DestroyedSound ==
    ASSUME NEW acc \in AccountRoot, Sound(acc), acc.alive, NEW n \in Namespace
    PROVE  destroyNamespace(acc, n) \in AccountRoot /\ Sound(destroyNamespace(acc, n))
<1> DEFINE new == destroyNamespace(acc, n)
           E == Entries(acc)
           gone == {e \in E : e[1] = n}
<1>1. acc.state \in [Entry -> Value] /\ E \subseteq Entry
    BY Zenon DEF AccountRoot, Entries
<1>2. IsFiniteSet(E) /\ Cardinality(E) \in Nat
    BY EntriesFinite, Zenon
<1>3. gone \in SUBSET E
    BY Zenon
<1>4. IsFiniteSet(gone) /\ Cardinality(gone) <= Cardinality(E)
    BY <1>2, <1>3, FS_Subset, Zenon
<1>5. Cardinality(gone) \in Nat
    BY <1>4, FS_CardinalityType, Zenon
<1>6. IsFiniteSet(E \ gone) /\ Cardinality(E \ gone) = Cardinality(E) - Cardinality(E \cap gone)
    BY <1>2, FS_Difference, Zenon
<1>7. E \cap gone = gone
    BY Zenon
<1>8. Cardinality(E \ gone) = Cardinality(E) - Cardinality(gone)
    BY <1>6, <1>7, Zenon
<1>9. acc.stateCount = Cardinality(E) /\ acc.ownerCount >= Cardinality(E)
      /\ acc.namespaces = Spaces(E) /\ acc.ownerCount \in Nat /\ acc.stateCount \in Nat
      /\ acc.namespaces \subseteq Namespace
    BY Zenon DEF Sound, AccountRoot
<1> DEFINE left == [e \in Entry |-> IF e \in gone THEN Empty ELSE acc.state[e]]
       count == acc.stateCount - Cardinality(gone)
       spaces == acc.namespaces \ {n}
<1>10. left \in [Entry -> Value] /\ count \in Nat /\ spaces \in SUBSET Namespace
    <2>1. left \in [Entry -> Value]
        BY <1>1, Zenon DEF Value
    <2>2. spaces \in SUBSET Namespace
        BY <1>9, Zenon
    <2> HIDE DEF gone, E, left, spaces
    <2> QED BY <1>2, <1>4, <1>5, <1>9, <2>1, <2>2
<1>11. new = [acc EXCEPT !.state = left, !.stateCount = count, !.namespaces = spaces]
    <2>1. ~(Cardinality(gone) > acc.stateCount)
        <3> HIDE DEF gone, E
        <3> QED BY <1>2, <1>4, <1>5, <1>9
    <2> QED BY <2>1, Zenon DEF destroyNamespace, CountLeft
<1>12. /\ new \in AccountRoot
       /\ new.state = left /\ new.stateCount = count
       /\ new.ownerCount = acc.ownerCount /\ new.namespaces = spaces
       /\ new.alive = acc.alive
    <2> HIDE DEF new, left, count, spaces
    <2> QED BY <1>10, <1>11, Zenon DEF AccountRoot
<1>13. Entries(new) = E \ gone
    BY <1>12, Zenon DEF Entries
<1>14. Spaces(E) \ {n} = Spaces(E \ gone)
    BY Zenon DEF Spaces
<1>15. Sound(new)
    <2> HIDE DEF new, gone, E, left
    <2>1. acc.ownerCount >= Cardinality(E \ gone)
        BY <1>2, <1>5, <1>8, <1>9
    <2> QED BY <1>8, <1>9, <1>12, <1>13, <1>14, <2>1, Zenon DEF Sound
<1> QED BY <1>12, <1>15, Zenon

LEMMA SetHookStateSound ==
    ASSUME NEW acc \in AccountRoot, Sound(acc), acc.alive,
           NEW e \in Entry, NEW data \in Value,
           NEW new, new = setHookState(acc, e, data)
    PROVE  /\ new \in AccountRoot /\ Sound(new)
           /\ new.alive /\ new.balance = acc.balance
           /\ new.state = [acc.state EXCEPT ![e] = data]
           /\ IF data # Empty /\ e \notin Entries(acc)
              THEN new.ownerCount = acc.ownerCount + 1
              ELSE new.ownerCount <= acc.ownerCount
<1>0. acc.state \in [Entry -> Value] /\ acc.ownerCount \in Nat
    BY Zenon DEF AccountRoot
<1>1. CASE data = Empty /\ e \notin Entries(acc)
    <2>1. new = acc
        BY <1>1, Zenon DEF setHookState
    <2>2. acc.state[e] = Empty
        BY <1>1, Zenon DEF Entries
    <2>3. acc.state = [acc.state EXCEPT ![e] = data]
        BY <1>0, <1>1, <2>2, Zenon
    <2> QED BY <1>0, <1>1, <2>1, <2>3
<1>2. CASE data = Empty /\ e \in Entries(acc)
    <2>1. new = Removed(acc, e)
        BY <1>2, Zenon DEF setHookState
    <2> QED BY <1>0, <1>2, <2>1, RemovedSound
<1>3. CASE data # Empty /\ e \notin Entries(acc)
    <2>1. new = Created(acc, e, data)
        BY <1>3, Zenon DEF setHookState
    <2>2. data \in Data
        BY <1>3, Zenon DEF Value
    <2> QED BY <1>3, <2>1, <2>2, CreatedSound
<1>4. CASE data # Empty /\ e \in Entries(acc)
    <2>1. new = Updated(acc, e, data)
        BY <1>4, Zenon DEF setHookState
    <2>2. data \in Data
        BY <1>4, Zenon DEF Value
    <2>3. e \in Entries(acc)
        BY <1>4, Zenon
    <2>4. /\ Updated(acc, e, data) \in AccountRoot /\ Sound(Updated(acc, e, data))
          /\ Updated(acc, e, data).ownerCount = acc.ownerCount
          /\ Updated(acc, e, data).balance = acc.balance
          /\ Updated(acc, e, data).alive = acc.alive
          /\ Updated(acc, e, data).state = [acc.state EXCEPT ![e] = data]
        BY <2>2, <2>3, UpdatedSound, ZenonT(60)
    <2> QED BY <1>0, <1>4, <2>1, <2>4
<1> QED BY <1>1, <1>2, <1>3, <1>4, Zenon

----------------------------------------------------------------------------
(* The account roots stay sound.                                           *)

SoundLedger(l) == l \in [Account -> AccountRoot] /\ \A a \in Account : Sound(l[a])

LEMMA OneAccount ==
    ASSUME NEW l, SoundLedger(l), NEW a \in Account, NEW acc \in AccountRoot, Sound(acc)
    PROVE  SoundLedger([l EXCEPT ![a] = acc])
BY Zenon DEF SoundLedger

LEMMA BalanceSound ==
    ASSUME NEW acc \in AccountRoot, Sound(acc), NEW b \in Nat
    PROVE  [acc EXCEPT !.balance = b] \in AccountRoot /\ Sound([acc EXCEPT !.balance = b])
<1> DEFINE new == [acc EXCEPT !.balance = b]
<1>1. new \in AccountRoot
    BY Zenon DEF AccountRoot
<1>2. /\ new.state = acc.state /\ new.stateCount = acc.stateCount
      /\ new.namespaces = acc.namespaces /\ new.ownerCount = acc.ownerCount
      /\ new.alive = acc.alive
    BY Zenon DEF AccountRoot
<1> HIDE DEF new
<1>3. Sound(new)
    BY <1>1, <1>2, SameEntries, Zenon
<1> QED BY <1>1, <1>3, Zenon DEF new

\* What the transactions make of an account.
LEMMA AppliedSound ==
    ASSUME NEW a \in Account, SoundLedger(ledger), HookStateAssumption,
           \/ \E b \in 0 .. MaxBalance : Payment(a, b) \/ AccountCreate(a, b)
           \/ \E installed \in BOOLEAN, destroyed \in Namespace \cup {None} :
                    SetHook(a, installed, destroyed)
           \/ DeleteAccount(a)
    PROVE  SoundLedger(ledger') /\ base' = ledger'
<1> DEFINE old == ledger[a]
<1>0. old \in AccountRoot /\ Sound(old)
    BY Zenon DEF SoundLedger
<1>1. ASSUME NEW b \in 0 .. MaxBalance, Payment(a, b)
      PROVE  SoundLedger(ledger') /\ base' = ledger'
    <2>1. [old EXCEPT !.balance = b] \in AccountRoot /\ Sound([old EXCEPT !.balance = b])
        BY <1>0, HookStateAssumption, BalanceSound
    <2>2. ledger' = [ledger EXCEPT ![a] = [old EXCEPT !.balance = b]] /\ base' = ledger'
        BY <1>1, Zenon DEF Payment, Applied
    <2> HIDE DEF old
    <2> QED BY <2>1, <2>2, OneAccount, Zenon
<1>3. ASSUME NEW b \in 0 .. MaxBalance, AccountCreate(a, b)
      PROVE  SoundLedger(ledger') /\ base' = ledger'
    <2> DEFINE acc == [NewAccount(b) EXCEPT !.state = old.state]
    <2>1. ~old.alive /\ ledger' = [ledger EXCEPT ![a] = acc] /\ base' = ledger'
        BY <1>3, Zenon DEF AccountCreate, Applied
    <2>2. old.state \in [Entry -> Value] /\ Entries(old) = {}
        BY <1>0, <2>1, Zenon DEF AccountRoot, Sound
    <2>3. /\ acc \in AccountRoot /\ acc.state = old.state
          /\ acc.stateCount = 0 /\ acc.namespaces = {} /\ acc.ownerCount = 0
        <3>1. b \in Nat
            BY HookStateAssumption
        <3> HIDE DEF old
        <3> QED BY <2>2, <3>1, Zenon DEF NewAccount, AccountRoot
    <2>4. Entries(acc) = {} /\ Spaces({}) = {}
        BY <2>2, <2>3, Zenon DEF Entries, Spaces
    <2> HIDE DEF acc
    <2>5. Sound(acc)
        BY <2>3, <2>4, FS_EmptySet DEF Sound
    <2> QED BY <2>1, <2>3, <2>5, OneAccount, Zenon
<1>4. ASSUME NEW installed \in BOOLEAN, NEW destroyed \in Namespace \cup {None},
             SetHook(a, installed, destroyed)
      PROVE  SoundLedger(ledger') /\ base' = ledger'
    <2> DEFINE acc == [old EXCEPT !.hooked = installed]
               new == IF destroyed = None THEN acc ELSE destroyNamespace(acc, destroyed)
    <2>1. acc \in AccountRoot /\ Sound(acc) /\ acc.alive = old.alive
        <3>1. acc \in AccountRoot
            BY <1>0, Zenon DEF AccountRoot
        <3>2. /\ acc.state = old.state /\ acc.stateCount = old.stateCount
              /\ acc.namespaces = old.namespaces /\ acc.ownerCount = old.ownerCount
              /\ acc.alive = old.alive
            BY <1>0, Zenon DEF AccountRoot
        <3> HIDE DEF acc, old
        <3> QED BY <1>0, <3>1, <3>2, SameEntries, Zenon
    <2>2. old.alive /\ ledger' = [ledger EXCEPT ![a] = new] /\ base' = ledger'
        BY <1>4, Zenon DEF SetHook, Applied
    <2>3. new \in AccountRoot /\ Sound(new)
        <3> HIDE DEF acc, old
        <3> QED BY <2>1, <2>2, DestroyedSound, Zenon
    <2> HIDE DEF new
    <2> QED BY <2>2, <2>3, OneAccount, Zenon
<1>5. ASSUME DeleteAccount(a)
      PROVE  SoundLedger(ledger') /\ base' = ledger'
    <2> DEFINE acc == [NewAccount(0) EXCEPT !.alive = FALSE, !.state = old.state]
    <2>1. old.alive /\ old.namespaces = {} /\ ledger' = [ledger EXCEPT ![a] = acc]
          /\ base' = ledger'
        BY <1>5, Zenon DEF DeleteAccount, Deletable, Applied
    <2>2. Spaces(Entries(old)) = {}
        BY <1>0, <2>1, Zenon DEF Sound
    <2>3. Entries(old) = {} /\ old.state \in [Entry -> Value]
        <3>1. Entries(old) = {}
            BY <2>2, Zenon DEF Spaces
        <3> QED BY <1>0, <3>1, Zenon DEF AccountRoot
    <2>4. acc \in AccountRoot /\ acc.state = old.state /\ acc.alive = FALSE
        BY <2>3, Zenon DEF NewAccount, AccountRoot
    <2>5. Entries(acc) = {}
        BY <2>3, <2>4, Zenon DEF Entries
    <2>6. Sound(acc)
        BY <2>4, <2>5, Zenon DEF Sound
    <2> HIDE DEF acc
    <2> QED BY <2>1, <2>4, <2>6, OneAccount, Zenon
<1> QED BY <1>1, <1>3, <1>4, <1>5, Zenon

----------------------------------------------------------------------------
(* The inductive invariant.                                                *)

\* Between hooks the cache is empty; only finalizeHookState can fail.
Control ==
    /\ phase \notin HookPhase =>
            stateMap = EmptyMap /\ asked = NothingAsked /\ ~writing /\ ~failed
    /\ writing => phase \in HookPhase \ {"weak"}
    /\ failed => writing
    /\ phase = "idle" => base = ledger

\* One entry in the cache, on the ledger, in the history.
Coherent(a, e) ==
    LET c == stateMap[a].cache[e]
        now == ledger[a].state[e]
    IN  /\ c.modified => c.cached /\ asked[a][e] = c.value /\ now = base[a].state[e]
        /\ ~c.modified /\ asked[a][e] # None => writing /\ now = asked[a][e]
        /\ asked[a][e] = None => now = base[a].state[e]
        /\ c.cached /\ ~c.modified => c.value = now /\ now # Empty
        /\ c.cached => stateMap[a].touched

Coherence ==
    phase \in HookPhase /\ ~failed => \A a \in Account, e \in Entry : Coherent(a, e)

\* The entries that writing the cache would create.
PendingNew(a) ==
    {e \in Entry : stateMap[a].cache[e].modified /\ e \notin Entries(ledger[a])}

\* The balance covers them on top of what the cache still offers.
Backed(a) ==
    stateMap[a].touched =>
        /\ ledger[a].alive
        /\ accountReserve(ledger[a].ownerCount + stateMap[a].available
                            + Cardinality(PendingNew(a))) <= ledger[a].balance
        /\ stateMap[a].available < 0 => PendingNew(a) = {}

Reserved ==
    phase \in {"strong", "callback"} => ~failed /\ \A a \in Account : Backed(a)

Bounded ==
    /\ Cardinality(Unwritten) <= modified_entry_count
    /\ Cardinality(Unwritten) <= max_state_modifications + 1

IInv ==
    /\ TypeOK
    /\ SoundLedger(ledger) /\ SoundLedger(base)
    /\ Control /\ Coherence /\ Reserved /\ Bounded

LEMMA UnwrittenFinite ==
    /\ IsFiniteSet(Unwritten) /\ Cardinality(Unwritten) \in Nat
    /\ \A a : IsFiniteSet(PendingNew(a)) /\ Cardinality(PendingNew(a)) \in Nat
<1>1. IsFiniteSet(Entry)
    BY HookStateAssumption, FS_Product, Zenon DEF Entry
<1>2. IsFiniteSet(Account \X Entry)
    BY <1>1, HookStateAssumption, FS_Product, Zenon
<1>3. Unwritten \in SUBSET (Account \X Entry)
    BY Zenon DEF Unwritten
<1>4. IsFiniteSet(Unwritten)
    BY <1>2, <1>3, FS_Subset, Zenon
<1>5. ASSUME NEW a PROVE IsFiniteSet(PendingNew(a)) /\ Cardinality(PendingNew(a)) \in Nat
    <2>1. PendingNew(a) \in SUBSET Entry
        BY Zenon DEF PendingNew
    <2>2. IsFiniteSet(PendingNew(a))
        BY <1>1, <2>1, FS_Subset, Zenon
    <2> QED BY <2>2, FS_CardinalityType, Zenon
<1> QED BY <1>4, <1>5, FS_CardinalityType, Zenon

LEMMA ReserveMonotone ==
    ASSUME NEW x \in Int, NEW y \in Int, x <= y
    PROVE  accountReserve(x) <= accountReserve(y)
<1>1. PICK d \in Nat : y = x + d
    <2> WITNESS y - x \in Nat
    <2> QED OBVIOUS
<1>2. Increment * d \in Nat
    BY HookStateAssumption
<1>3. Increment * y = Increment * x + Increment * d
    BY <1>1, HookStateAssumption
<1> QED BY <1>2, <1>3, HookStateAssumption DEF accountReserve

LEMMA EmptyMapType ==
    /\ EmptyMap \in [Account -> [touched : BOOLEAN, available : Int,
                                 cache : [Entry -> CacheEntry]]]
    /\ NothingAsked \in [Account -> [Entry -> Value \cup {None}]]
BY DEF EmptyMap, NotCached, CacheEntry, Value, NothingAsked

\* A step after which the cache is empty.
LEMMA ClearedStep ==
    ASSUME SoundLedger(ledger'), SoundLedger(base'),
           stateMap' = EmptyMap, asked' = NothingAsked,
           writing' = FALSE, failed' = FALSE,
           modified_entry_count' \in Nat,
           phase' \in HookPhase \cup {"idle", "apply"},
           runner' \in Account \cup {None}, processed' \subseteq Account,
           foreignStateSetDisabled' \in BOOLEAN,
           phase' \in HookPhase =>
                \A a \in Account, e \in Entry : ledger'[a].state[e] = base'[a].state[e],
           phase' = "idle" => base' = ledger'
    PROVE  IInv'
<1>1. TypeOK'
    BY EmptyMapType, Zenon DEF TypeOK, SoundLedger
<1>2. Control'
    BY Zenon DEF Control
<1>3. ASSUME NEW a \in Account, NEW e \in Entry
      PROVE  /\ stateMap'[a].touched = FALSE
             /\ stateMap'[a].cache[e].modified = FALSE
             /\ stateMap'[a].cache[e].cached = FALSE
             /\ asked'[a][e] = None
    BY Zenon DEF EmptyMap, NotCached, NothingAsked
<1>4. Coherence'
    BY <1>3, Zenon DEF Coherence, Coherent
<1>5. Reserved'
    <2>1. ASSUME NEW a \in Account PROVE stateMap'[a].touched = FALSE
        BY Zenon DEF EmptyMap
    <2> QED BY <2>1, Zenon DEF Reserved, Backed
<1>6. Unwritten' = {}
    BY <1>3, Zenon DEF Unwritten
<1>7. Bounded'
    BY <1>6, FS_EmptySet, HookStateAssumption DEF Bounded
<1> QED BY <1>1, <1>2, <1>4, <1>5, <1>7, Zenon DEF IInv

LEMMA InitIInv == Init => IInv
<1> SUFFICES ASSUME Init PROVE IInv
    BY Zenon
<1>1. SoundLedger(ledger) /\ base = ledger
    <2>1. ledger = [a \in Account |-> NewAccount(MaxBalance)] /\ base = ledger
        BY Zenon DEF Init
    <2>2. NewAccount(MaxBalance) \in AccountRoot /\ Sound(NewAccount(MaxBalance))
        BY HookStateAssumption, NewAccountSound, Zenon
    <2> QED BY <2>1, <2>2, Zenon DEF SoundLedger
<1>2. TypeOK
    BY <1>1, EmptyMapType, Zenon DEF Init, TypeOK, SoundLedger
<1>3. Control /\ Coherence /\ Reserved
    BY <1>1, Zenon DEF Init, Control, Coherence, Reserved, HookPhase
<1>4. Unwritten = {}
    BY Zenon DEF Init, Unwritten, EmptyMap, NotCached
<1>5. Bounded
    BY <1>4, FS_EmptySet, HookStateAssumption DEF Bounded, Init
<1> QED BY <1>1, <1>2, <1>3, <1>5, Zenon DEF IInv

----------------------------------------------------------------------------
(* One lemma per kind of step.                                             *)

\* The steps that move the transaction on and leave the cache empty.
LEMMA ClearingSteps ==
    ASSUME IInv,
           \/ Begin \/ EndWriting \/ NoCallback \/ NotApplied
           \/ \E a \in Account : ClaimFee(a)
    PROVE  IInv'
<1> USE DEF IInv
<1>0. /\ SoundLedger(ledger) /\ SoundLedger(base)
      /\ runner \in Account \cup {None} /\ processed \subseteq Account
      /\ foreignStateSetDisabled \in BOOLEAN /\ modified_entry_count \in Nat
    BY Zenon DEF TypeOK
<1>1. CASE Begin
    <2>1. /\ UNCHANGED <<ledger, base, runner, processed, foreignStateSetDisabled>>
          /\ UNCHANGED <<stateMap, asked, writing, failed, modified_entry_count>>
          /\ phase = "idle" /\ phase' = "strong"
        BY <1>1, Zenon DEF Begin, ledgerVars, cacheVars, hookVars
    <2>2. /\ stateMap = EmptyMap /\ asked = NothingAsked /\ writing = FALSE
          /\ failed = FALSE /\ base = ledger
        BY <2>1, Zenon DEF Control, HookPhase, TypeOK
    <2> QED BY <1>0, <2>1, <2>2, ClearedStep, Zenon DEF HookPhase
<1>2. CASE EndWriting
    <2>1. ClearCache /\ ledger' = ledger /\ writing
        BY <1>2, Zenon DEF EndWriting
    <2>2. phase \in {"strong", "callback", "again"}
        BY <2>1, Zenon DEF Control, HookPhase
    <2>3. CASE phase = "strong"
        <3>1. phase' = "apply" /\ base' = base
            BY <1>2, <2>3, Zenon DEF EndWriting
        <3> QED BY <1>0, <2>1, <3>1, ClearedStep, Zenon DEF ClearCache, HookPhase
    <2>4. CASE phase # "strong"
        <3>1. phase' \in {"weak", "idle"} /\ base' = ledger
            BY <1>2, <2>2, <2>4, Zenon DEF EndWriting
        <3> QED BY <1>0, <2>1, <3>1, ClearedStep, Zenon DEF ClearCache, HookPhase
    <2> QED BY <2>3, <2>4, Zenon
<1>3. CASE NoCallback
    <2>1. ClearCache /\ ledger' = ledger /\ base' = base
          /\ phase = "callback" /\ phase' = "weak" /\ ~writing
        BY <1>3, Zenon DEF NoCallback, ledgerVars
    <2>2. ~failed
        BY <2>1, Zenon DEF Control
    <2>3. ASSUME NEW a \in Account, NEW e \in Entry
          PROVE  ledger'[a].state[e] = base'[a].state[e]
        <3>1. Coherent(a, e)
            BY <2>1, <2>2, Zenon DEF Coherence, HookPhase
        <3> QED BY <3>1, <2>1, Zenon DEF Coherent
    <2> QED BY <1>0, <2>1, <2>3, ClearedStep, Zenon DEF ClearCache, HookPhase
<1>4. CASE NotApplied
    <2>1. ClearCache /\ ledger' = base /\ base' = base /\ phase' = "idle"
        BY <1>4, Zenon DEF NotApplied
    <2> QED BY <1>0, <2>1, ClearedStep, Zenon DEF ClearCache, HookPhase
<1>5. ASSUME NEW a \in Account, ClaimFee(a)
      PROVE  IInv'
    <2> DEFINE left == IF Fee > base[a].balance THEN 0 ELSE base[a].balance - Fee
               acc == [base[a] EXCEPT !.balance = left]
    <2>1. ClearCache /\ ledger' = [base EXCEPT ![a] = acc] /\ base' = ledger'
          /\ phase' = "callback"
        BY <1>5, Zenon DEF ClaimFee
    <2>2. base[a] \in AccountRoot /\ Sound(base[a]) /\ base[a].balance \in Nat
        BY <1>0, Zenon DEF SoundLedger, AccountRoot
    <2>3. left \in Nat
        BY <2>2, HookStateAssumption
    <2> HIDE DEF left
    <2>4. acc \in AccountRoot /\ Sound(acc)
        BY <2>2, <2>3, BalanceSound, Zenon
    <2> HIDE DEF acc
    <2>5. SoundLedger(ledger')
        BY <1>0, <2>1, <2>4, OneAccount, Zenon
    <2> QED BY <2>1, <2>5, ClearedStep, Zenon DEF ClearCache, HookPhase
<1> QED BY <1>1, <1>2, <1>3, <1>4, <1>5, Zenon

\* The transaction is applied.
LEMMA AppliedStep ==
    ASSUME IInv, NEW a \in Account,
           \/ \E b \in 0 .. MaxBalance : Payment(a, b) \/ AccountCreate(a, b)
           \/ \E installed \in BOOLEAN, destroyed \in Namespace \cup {None} :
                    SetHook(a, installed, destroyed)
           \/ DeleteAccount(a)
    PROVE  IInv'
<1> USE DEF IInv
<1>1. SoundLedger(ledger') /\ base' = ledger'
    BY AppliedSound, HookStateAssumption, Zenon
<1>2. PICK acc : Applied(a, acc)
    BY Zenon DEF Payment, AccountCreate, SetHook, DeleteAccount
<1>3. /\ UNCHANGED <<stateMap, asked, modified_entry_count, writing, failed>>
      /\ UNCHANGED <<runner, processed, foreignStateSetDisabled>>
      /\ phase = "apply" /\ phase' = "callback"
    BY <1>2, Zenon DEF Applied, cacheVars, hookVars
<1>4. stateMap = EmptyMap /\ asked = NothingAsked /\ writing = FALSE /\ failed = FALSE
    BY <1>3, Zenon DEF Control, HookPhase, TypeOK
<1> QED BY <1>1, <1>3, <1>4, ClearedStep, Zenon DEF TypeOK, HookPhase

\* The steps that change neither the cache nor any account but its balance.
LEMMA QuietStep ==
    ASSUME IInv, SoundLedger(ledger'),
           UNCHANGED <<base, stateMap, modified_entry_count, asked, failed>>,
           \A a \in Account : ledger'[a].state = ledger[a].state,
           phase' \in {"strong", "callback"} => ledger' = ledger /\ phase' = phase,
           phase' \in HookPhase, phase \in HookPhase,
           writing => writing', writing' => phase' # "weak", writing' \in BOOLEAN,
           runner' \in Account \cup {None}, processed' \subseteq Account,
           foreignStateSetDisabled' \in BOOLEAN
    PROVE  IInv'
<1>1. TypeOK'
    BY Zenon DEF IInv, TypeOK, SoundLedger
<1>2. Control'
    BY Zenon DEF IInv, Control, HookPhase
<1>3. Coherence'
    <2>1. ASSUME NEW a \in Account, NEW e \in Entry, Coherent(a, e)
          PROVE  Coherent(a, e)'
        BY <2>1, Zenon DEF Coherent
    <2> QED BY <2>1, Zenon DEF IInv, Coherence
<1>4. Reserved'
    <2>1. CASE phase' \in {"strong", "callback"}
        <3>1. ledger' = ledger /\ phase \in {"strong", "callback"}
            BY <2>1, Zenon
        <3>2. ASSUME NEW a \in Account PROVE Backed(a)'
            <4>1. Backed(a)
                BY <3>1, Zenon DEF IInv, Reserved
            <4>2. PendingNew(a)' = PendingNew(a)
                BY <3>1, Zenon DEF PendingNew, Entries
            <4> QED BY <3>1, <4>1, <4>2, Zenon DEF Backed
        <3>3. ~failed'
            BY <3>1, Zenon DEF IInv, Reserved
        <3> QED BY <3>2, <3>3, Zenon DEF Reserved
    <2>2. CASE phase' \notin {"strong", "callback"}
        BY <2>2, Zenon DEF Reserved
    <2> QED BY <2>1, <2>2, Zenon
<1>5. Bounded'
    BY Zenon DEF IInv, Bounded, Unwritten
<1> QED BY <1>1, <1>2, <1>3, <1>4, <1>5, Zenon DEF IInv

LEMMA QuietSteps ==
    ASSUME IInv,
           \/ NextHook \/ RunAgain \/ StartWriting
           \/ \E a \in Account : RunChain(a) \/ \E e \in Entry : NotAuthorised(a, e)
    PROVE  IInv'
<1>0. /\ SoundLedger(ledger) /\ Control
      /\ runner \in Account \cup {None} /\ processed \subseteq Account
      /\ foreignStateSetDisabled \in BOOLEAN /\ writing \in BOOLEAN
    BY Zenon DEF IInv, TypeOK
<1>1. CASE NextHook
    BY <1>0, <1>1, QuietStep, Zenon DEF NextHook, Running, ledgerVars, cacheVars, Control
<1>2. CASE RunAgain
    BY <1>0, <1>2, QuietStep, Zenon DEF RunAgain, ledgerVars, cacheVars, HookPhase
<1>3. CASE StartWriting
    BY <1>0, <1>3, QuietStep, Zenon DEF StartWriting, ledgerVars, cacheVars, hookVars
<1>4. ASSUME NEW a \in Account, NEW e \in Entry, NotAuthorised(a, e) PROVE IInv'
    BY <1>0, <1>4, QuietStep, Zenon DEF NotAuthorised, Running, ledgerVars, cacheVars, Control
<1>5. ASSUME NEW a \in Account, RunChain(a) PROVE IInv'
    <2>1. /\ UNCHANGED <<base, phase, writing, failed, stateMap, modified_entry_count, asked>>
          /\ phase \in HookPhase /\ ~writing
          /\ runner' = a /\ processed' = processed \cup {a}
          /\ foreignStateSetDisabled' = FALSE
        BY <1>5, Zenon DEF RunChain, cacheVars
    <2>2. CASE phase = "weak"
        <3> DEFINE left == ledger[a].balance - Fee
                   acc == [ledger[a] EXCEPT !.balance = left]
        <3>1. ledger' = [ledger EXCEPT ![a] = acc]
              /\ Fee + accountReserve(ledger[a].ownerCount) <= ledger[a].balance
            BY <1>5, <2>2, Zenon DEF RunChain
        <3>2. ledger[a] \in AccountRoot /\ Sound(ledger[a])
              /\ ledger[a].balance \in Nat /\ ledger[a].ownerCount \in Nat
            BY <1>0, Zenon DEF SoundLedger, AccountRoot
        <3>3. left \in Nat
            <4>1. accountReserve(ledger[a].ownerCount) \in Nat
                BY <3>2, HookStateAssumption, SMTT(30) DEF accountReserve
            <4> QED BY <3>1, <3>2, <4>1, HookStateAssumption
        <3> HIDE DEF left
        <3>4. acc \in AccountRoot /\ Sound(acc) /\ acc.state = ledger[a].state
            BY <3>2, <3>3, BalanceSound, Zenon DEF AccountRoot
        <3> HIDE DEF acc
        <3>5. SoundLedger(ledger') /\ \A x \in Account : ledger'[x].state = ledger[x].state
            BY <1>0, <3>1, <3>4, OneAccount, Zenon DEF SoundLedger
        <3> QED BY <1>0, <2>1, <2>2, <3>5, QuietStep, Zenon
    <2>3. CASE phase # "weak"
        <3>1. ledger' = ledger
            BY <1>5, <2>3, Zenon DEF RunChain
        <3> QED BY <1>0, <2>1, <3>1, QuietStep, Zenon
    <2> QED BY <2>2, <2>3, Zenon
<1> QED BY <1>1, <1>2, <1>3, <1>4, <1>5, Zenon

----------------------------------------------------------------------------
(* A hook reads or sets an entry.                                          *)

LEMMA AvailableFacts ==
    ASSUME NEW a \in Account, SoundLedger(ledger)
    PROVE  /\ availableForReserves(a) \in Int
           /\ accountReserve(ledger[a].ownerCount + availableForReserves(a))
                <= ledger[a].balance
<1>1. ledger[a].balance \in Nat /\ ledger[a].ownerCount \in Nat
    BY Zenon DEF SoundLedger, AccountRoot
<1> DEFINE o == ledger[a].ownerCount
           x == ledger[a].balance - accountReserve(o)
           q == x \div Increment
<1>2. accountReserve(o) \in Int /\ x \in Int /\ Increment \in Nat /\ Increment > 0
    BY <1>1, HookStateAssumption DEF accountReserve
<1>3. q \in Int /\ Increment * q <= x
    <2> HIDE DEF x
    <2> QED BY <1>2
<1>4. accountReserve(o + q) = accountReserve(o) + Increment * q
    <2>1. o \in Int /\ BaseReserve \in Int
        BY <1>1, HookStateAssumption
    <2> HIDE DEF o, q
    <2>2. Increment * (o + q) = Increment * o + Increment * q
        BY <1>2, <1>3, <2>1
    <2>3. Increment * o \in Int /\ Increment * q \in Int
        BY <1>2, <1>3, <2>1
    <2> QED BY <2>1, <2>2, <2>3 DEF accountReserve
<1>5. Increment * q \in Int
    <2> HIDE DEF q
    <2> QED BY <1>2, <1>3
<1>6. accountReserve(o + q) <= ledger[a].balance
    <2> HIDE DEF o, q
    <2> QED BY <1>1, <1>2, <1>3, <1>4, <1>5 DEF x
<1> QED BY <1>3, <1>6, Zenon DEF availableForReserves

\* What both calls have in common.
CacheCall(a, e, data, m) ==
    /\ Running
    /\ set_state_cache(a, e, data, m)
    /\ UNCHANGED <<ledger, base, phase, writing, failed>>
    /\ UNCHANGED <<runner, processed, foreignStateSetDisabled>>
    /\ m => ~Refused(a, e) /\ asked' = [asked EXCEPT ![a][e] = data]
    /\ ~m => /\ asked' = asked /\ ~InCache(a, e)
             /\ e \in Entries(ledger[a]) /\ data = ledger[a].state[e]

LEMMA CacheCallFacts ==
    ASSUME IInv, NEW a \in Account, NEW e \in Entry, NEW data \in Value,
           NEW m \in BOOLEAN, CacheCall(a, e, data, m)
    PROVE  /\ TypeOK'
           /\ ~writing /\ ~failed /\ phase \in HookPhase
           /\ stateMap'[a].touched = TRUE
           /\ stateMap'[a].available = available(a, e, m)
           /\ stateMap'[a].cache[e].cached = TRUE
           /\ stateMap'[a].cache[e].modified = (stateMap[a].cache[e].modified \/ m)
           /\ stateMap'[a].cache[e].value = data
           /\ \A y \in Entry \ {e} : stateMap'[a].cache[y] = stateMap[a].cache[y]
           /\ \A x \in Account \ {a} : stateMap'[x] = stateMap[x]
           /\ \A y \in Entry : Coherent(a, y)
<1> DEFINE R == [touched : BOOLEAN, available : Int, cache : [Entry -> CacheEntry]]
           c == Cached(stateMap[a].cache[e], data, m)
           r == [touched |-> TRUE, available |-> available(a, e, m),
                 cache |-> [stateMap[a].cache EXCEPT ![e] = c]]
<1>1. stateMap' = [stateMap EXCEPT ![a] = r]
    <2>1. set_state_cache(a, e, data, m)
        BY Zenon DEF CacheCall
    <2> QED BY <2>1, Zenon DEF set_state_cache
<1>2. stateMap \in [Account -> R] /\ SoundLedger(ledger)
    BY Zenon DEF IInv, TypeOK
<1>3. stateMap[a].cache \in [Entry -> CacheEntry] /\ stateMap[a].available \in Int
    BY <1>2, Zenon
<1>4. stateMap[a].cache[e] \in CacheEntry /\ stateMap[a].cache[e].modified \in BOOLEAN
    BY <1>3, Zenon DEF CacheEntry
<1>5. /\ c \in CacheEntry /\ c.cached = TRUE /\ c.value = data
      /\ c.modified = (stateMap[a].cache[e].modified \/ m)
    BY <1>4, Zenon DEF Cached, CacheEntry
<1> HIDE DEF c
<1>6. available(a, e, m) \in Int
    BY <1>2, <1>3, AvailableFacts, SMTT(30) DEF available
<1>7. r \in R /\ r.touched = TRUE /\ r.available = available(a, e, m)
      /\ r.cache = [stateMap[a].cache EXCEPT ![e] = c]
    BY <1>3, <1>5, <1>6, Zenon
<1> HIDE DEF r
<1>8. stateMap' \in [Account -> R] /\ stateMap'[a] = r
      /\ \A x \in Account \ {a} : stateMap'[x] = stateMap[x]
    BY <1>1, <1>2, <1>7, Zenon
<1>9. asked' \in [Account -> [Entry -> Value \cup {None}]]
    <2>1. asked \in [Account -> [Entry -> Value \cup {None}]]
        BY Zenon DEF IInv, TypeOK
    <2>2. asked' = asked \/ asked' = [asked EXCEPT ![a][e] = data]
        BY Zenon DEF CacheCall
    <2> QED BY <2>1, <2>2
<1>10. modified_entry_count' \in Nat
    BY SMTT(30) DEF CacheCall, set_state_cache, IInv, TypeOK
<1>11. TypeOK'
    <2>1. /\ UNCHANGED <<ledger, base, phase, writing, failed>>
          /\ UNCHANGED <<runner, processed, foreignStateSetDisabled>>
        BY Zenon DEF CacheCall
    <2> QED BY <1>8, <1>9, <1>10, <2>1, Zenon DEF IInv, TypeOK
<1>12. ~writing /\ ~failed /\ phase \in HookPhase
    BY Zenon DEF CacheCall, Running, IInv, Control
<1>13. \A y \in Entry : Coherent(a, y)
    BY <1>12, Zenon DEF IInv, Coherence
<1>14. /\ stateMap'[a].cache[e] = c
       /\ \A y \in Entry \ {e} : stateMap'[a].cache[y] = stateMap[a].cache[y]
    BY <1>3, <1>7, <1>8, SMTT(30)
<1> QED BY <1>5, <1>7, <1>8, <1>11, <1>12, <1>13, <1>14, Zenon

LEMMA CacheCallStep ==
    ASSUME IInv, NEW a \in Account, NEW e \in Entry, NEW data \in Value,
           NEW m \in BOOLEAN, CacheCall(a, e, data, m)
    PROVE  IInv'
<1>0. /\ TypeOK'
      /\ ~writing /\ ~failed /\ phase \in HookPhase
      /\ stateMap'[a].touched = TRUE
      /\ stateMap'[a].available = available(a, e, m)
      /\ stateMap'[a].cache[e].cached = TRUE
      /\ stateMap'[a].cache[e].modified = (stateMap[a].cache[e].modified \/ m)
      /\ stateMap'[a].cache[e].value = data
      /\ \A y \in Entry \ {e} : stateMap'[a].cache[y] = stateMap[a].cache[y]
      /\ \A x \in Account \ {a} : stateMap'[x] = stateMap[x]
      /\ \A y \in Entry : Coherent(a, y)
    BY CacheCallFacts, Zenon
<1> DEFINE old == stateMap[a]
           new == stateMap'[a]
           P == PendingNew(a)
<1>1. /\ UNCHANGED <<ledger, base, phase, writing, failed>>
      /\ m => ~Refused(a, e) /\ asked' = [asked EXCEPT ![a][e] = data]
      /\ ~m => /\ asked' = asked /\ ~old.cache[e].cached
               /\ e \in Entries(ledger[a]) /\ data = ledger[a].state[e]
    BY Zenon DEF CacheCall, InCache
<1>2. /\ SoundLedger(ledger) /\ SoundLedger(base)
      /\ asked \in [Account -> [Entry -> Value \cup {None}]]
      /\ stateMap \in [Account -> [touched : BOOLEAN, available : Int,
                                   cache : [Entry -> CacheEntry]]]
    BY Zenon DEF IInv, TypeOK
<1>3. /\ old.cache[e].modified \in BOOLEAN /\ old.available \in Int
      /\ old.touched \in BOOLEAN /\ ledger[a] \in AccountRoot /\ Sound(ledger[a])
      /\ ledger[a].ownerCount \in Nat /\ ledger[a].balance \in Nat
    BY <1>2, ZenonT(40) DEF CacheEntry, SoundLedger, AccountRoot
<1>4. Control'
    BY <1>0, <1>1, Zenon DEF IInv, Control
<1>5. Coherence'
    <2>1. ASSUME NEW x \in Account, NEW y \in Entry, Coherent(x, y),
                 stateMap'[x].cache[y] = stateMap[x].cache[y],
                 stateMap'[x].touched \/ stateMap'[x].touched = stateMap[x].touched,
                 asked'[x][y] = asked[x][y]
          PROVE  Coherent(x, y)'
        BY <1>1, <2>1, Zenon DEF Coherent
    <2>2. Coherent(a, e)'
        <3>1. CASE m
            <4>1. asked'[a][e] = data /\ data # None
                BY <1>1, <1>2, <3>1, HookStateAssumption, SMTT(30) DEF Value
            <4>2. ledger[a].state[e] = base[a].state[e]
                BY <1>0, Zenon DEF Coherent
            <4> QED BY <1>0, <1>1, <3>1, <4>1, <4>2, Zenon DEF Coherent
        <3>2. CASE ~m
            <4>1. data # Empty
                BY <1>1, <3>2, Zenon DEF Entries
            <4>2. ~old.cache[e].modified /\ asked[a][e] = None
                BY <1>0, <1>1, <3>2, Zenon DEF Coherent
            <4> QED BY <1>0, <1>1, <3>2, <4>1, <4>2, Zenon DEF Coherent
        <3> QED BY <3>1, <3>2, Zenon
    <2>3. ASSUME NEW x \in Account, NEW y \in Entry, x # a \/ y # e
          PROVE  /\ stateMap'[x].cache[y] = stateMap[x].cache[y]
                 /\ stateMap'[x].touched \/ stateMap'[x].touched = stateMap[x].touched
                 /\ asked'[x][y] = asked[x][y]
        <3>1. asked'[x][y] = asked[x][y]
            BY <1>1, <1>2, <2>3
        <3> QED BY <1>0, <2>3, <3>1, Zenon
    <2>4. \A x \in Account, y \in Entry : Coherent(x, y)
        BY <1>0, Zenon DEF IInv, Coherence
    <2> QED BY <2>1, <2>2, <2>3, <2>4, SMTT(30) DEF Coherence
<1>6. ASSUME phase \in {"strong", "callback"}
      PROVE  Backed(a)'
    <2>1. Backed(a)
        BY <1>6, Zenon DEF IInv, Reserved
    <2>2. Cardinality(P) \in Nat /\ IsFiniteSet(P)
        BY UnwrittenFinite, Zenon
    <2>3. PendingNew(a)' = IF m /\ e \notin Entries(ledger[a]) THEN P \cup {e} ELSE P
        <3>1. ~m => e \in Entries(ledger[a])
            BY <1>1, Zenon
        <3> QED BY <1>0, <1>1, <3>1, Zenon DEF PendingNew
    <2>4. ledger[a].alive
        <3>1. CASE old.touched
            BY <2>1, <3>1, Zenon DEF Backed
        <3>2. CASE ~old.touched /\ m
            BY <1>1, <3>2, Zenon DEF Refused, RefusedByReserve
        <3>3. CASE ~old.touched /\ ~m
            BY <1>1, <1>3, <3>3, Zenon DEF Sound
        <3> QED BY <3>1, <3>2, <3>3, Zenon
    <2> DEFINE o == ledger[a].ownerCount
               b == ledger[a].balance
               k == Cardinality(P)
               q == availableForReserves(a)
    <2> SUFFICES /\ accountReserve(o + new.available + Cardinality(PendingNew(a)')) <= b
                 /\ new.available < 0 => PendingNew(a)' = {}
        BY <1>1, <2>4, Zenon DEF Backed
    <2>5. CASE ~old.touched
        <3>1. P = {} /\ ~old.cache[e].cached
            BY <1>0, <2>5, Zenon DEF PendingNew, Coherent
        <3>2. new.available = q - 1 /\ q \in Int /\ accountReserve(o + q) <= b
            BY <1>0, <1>2, <2>5, AvailableFacts, Zenon DEF available
        <3>3. CASE m /\ e \notin Entries(ledger[a])
            <4>1. q >= 1
                BY <1>1, <2>5, <3>1, <3>3, Zenon DEF Refused, RefusedByReserve, InCache, CanReserve
            <4>2. Cardinality(PendingNew(a)') = 1
                BY <2>3, <3>1, <3>3, FS_Singleton, SMTT(30)
            <4>3. o + (q - 1) + 1 = o + q
                BY <1>3, <3>2, SMTT(30)
            <4> HIDE DEF q, o, b, new
            <4> QED BY <3>2, <4>1, <4>2, <4>3
        <3>4. CASE ~(m /\ e \notin Entries(ledger[a]))
            <4>1. PendingNew(a)' = {} /\ Cardinality(PendingNew(a)') = 0
                BY <2>3, <3>1, <3>4, FS_EmptySet, Zenon
            <4>2. o + (q - 1) + 0 \in Int /\ o + (q - 1) + 0 <= o + q /\ o + q \in Int
                BY <1>3, <3>2, SMTT(30)
            <4>3. accountReserve(o + (q - 1) + 0) <= accountReserve(o + q)
                BY <4>2, ReserveMonotone, Zenon
            <4>4. accountReserve(o + (q - 1) + 0) \in Int /\ accountReserve(o + q) \in Int
                BY <4>2, HookStateAssumption, SMTT(30) DEF accountReserve
            <4> HIDE DEF q, o, b, new
            <4> QED BY <1>3, <3>2, <4>1, <4>3, <4>4, SMTT(30) DEF b
        <3> QED BY <3>3, <3>4, Zenon
    <2>6. CASE old.touched /\ m /\ ~old.cache[e].cached
        <3>1. old.available > 0 /\ new.available = old.available - 1
            BY <1>0, <1>1, <2>6, Zenon DEF Refused, RefusedByReserve, InCache, CanReserve, available
        <3>2. accountReserve(o + old.available + k) <= b
            BY <2>1, <2>6, Zenon DEF Backed
        <3>3. e \notin P
            BY <1>0, <2>6, Zenon DEF PendingNew, Coherent
        <3>4. Cardinality(P \cup {e}) = k + 1
            BY <2>2, <3>3, FS_AddElement, Zenon
        <3>5. Cardinality(PendingNew(a)') \in {k, k + 1}
            BY <2>3, <3>4, Zenon
        <3> DEFINE n == Cardinality(PendingNew(a)')
        <3>6. /\ o + (old.available - 1) + n \in Int /\ o + old.available + k \in Int
              /\ o + (old.available - 1) + n <= o + old.available + k
            <4> HIDE DEF n, k
            <4> QED BY <1>3, <2>2, <3>5, SMTT(30) DEF n, k
        <3>7. accountReserve(o + (old.available - 1) + n) <= accountReserve(o + old.available + k)
            BY <3>6, ReserveMonotone, Zenon
        <3>8. /\ accountReserve(o + (old.available - 1) + n) \in Int
              /\ accountReserve(o + old.available + k) \in Int
            BY <3>6, HookStateAssumption, SMTT(30) DEF accountReserve
        <3> HIDE DEF n, k, o, b
        <3>9. accountReserve(o + new.available + n) <= b
            BY <1>3, <3>1, <3>2, <3>7, <3>8, SMTT(30) DEF b
        <3>10. ~(new.available < 0)
            BY <1>3, <3>1
        <3> QED BY <3>9, <3>10, Zenon DEF n
    <2>7. CASE old.touched /\ ~(m /\ ~old.cache[e].cached)
        <3>1. new.available = old.available
            BY <1>0, <2>7, Zenon DEF available, InCache
        <3>2. PendingNew(a)' = P
            <4>1. CASE m
                BY <1>0, <2>3, <2>7, <4>1, Zenon DEF PendingNew, Coherent, Entries
            <4>2. CASE ~m
                BY <2>3, <4>2, Zenon
            <4> QED BY <4>1, <4>2, Zenon
        <3> QED BY <2>1, <2>7, <3>1, <3>2, Zenon DEF Backed
    <2> QED BY <1>3, <2>5, <2>6, <2>7, Zenon
<1>7. Reserved'
    <2>1. ASSUME phase \in {"strong", "callback"}, NEW x \in Account, x # a
          PROVE  Backed(x)'
        <3>1. Backed(x)
            BY <2>1, Zenon DEF IInv, Reserved
        <3>2. stateMap'[x] = stateMap[x] /\ ledger' = ledger
            BY <1>0, <1>1, <2>1, Zenon
        <3>3. PendingNew(x)' = PendingNew(x)
            BY <3>2, Zenon DEF PendingNew, Entries
        <3> QED BY <3>1, <3>2, <3>3, Zenon DEF Backed
    <2> QED BY <1>0, <1>1, <1>6, <2>1, Zenon DEF Reserved
<1>8. Bounded'
    <2>1. /\ Cardinality(Unwritten) \in Nat /\ IsFiniteSet(Unwritten)
          /\ Cardinality(Unwritten) <= modified_entry_count
          /\ Cardinality(Unwritten) <= max_state_modifications + 1
          /\ modified_entry_count \in Nat /\ max_state_modifications \in Nat
        BY UnwrittenFinite, HookStateAssumption, Zenon DEF IInv, Bounded, TypeOK
    <2> DEFINE U == Unwritten
    <2>a. ASSUME NEW x \in Account, NEW y \in Entry
          PROVE  stateMap'[x].cache[y].modified
                    <=> stateMap[x].cache[y].modified \/ (m /\ x = a /\ y = e)
        <3>1. CASE x = a /\ y = e
            BY <1>0, <1>3, <3>1, Zenon
        <3>2. CASE x # a \/ y # e
            BY <1>0, <3>2, Zenon
        <3> QED BY <3>1, <3>2, Zenon
    <2>b. ASSUME NEW u \in Account \X Entry
          PROVE  u \in Unwritten' <=> u \in Unwritten \/ (m /\ u = <<a, e>>)
        <3>1. u[1] \in Account /\ u[2] \in Entry /\ u = <<u[1], u[2]>>
            OBVIOUS
        <3> QED BY <2>a, <3>1, SMTT(30) DEF Unwritten
    <2>c. Unwritten' \subseteq Account \X Entry /\ Unwritten \subseteq Account \X Entry
        BY Zenon DEF Unwritten
    <2>2. CASE m
        <3>1. Unwritten' = U \cup {<<a, e>>}
            BY <2>b, <2>c, <2>2, Zenon
        <3>2. Cardinality(Unwritten') <= Cardinality(U) + 1
              /\ Cardinality(Unwritten') \in Nat
            <4> HIDE DEF U
            <4>1. IsFiniteSet(U) /\ Cardinality(U) \in Nat
                BY <2>1, Zenon DEF U
            <4>2. /\ IsFiniteSet(U \cup {<<a, e>>})
                  /\ Cardinality(U \cup {<<a, e>>})
                        = IF <<a, e>> \in U THEN Cardinality(U) ELSE Cardinality(U) + 1
                BY <4>1, FS_AddElement, Zenon
            <4> QED BY <3>1, <4>1, <4>2
        <3>3. modified_entry_count' = modified_entry_count + 1
            BY <2>2, Zenon DEF CacheCall, set_state_cache
        <3>4. modified_entry_count <= max_state_modifications
            BY <1>1, <2>1, <2>2 DEF Refused
        <3> QED BY <2>1, <3>2, <3>3, <3>4 DEF Bounded
    <2>3. CASE ~m
        <3>1. Unwritten' = Unwritten
            BY <2>b, <2>c, <2>3, Zenon
        <3>2. modified_entry_count' >= modified_entry_count /\ modified_entry_count' \in Nat
            BY <2>1, SMTT(30) DEF CacheCall, set_state_cache
        <3> QED BY <2>1, <3>1, <3>2 DEF Bounded
    <2> QED BY <2>2, <2>3, Zenon
<1> QED BY <1>0, <1>1, <1>2, <1>4, <1>5, <1>7, <1>8, Zenon DEF IInv

----------------------------------------------------------------------------
(* finalizeHookState writes an entry.                                      *)

\* In the phases without collect fees the reserve is there.
LEMMA WriteSucceeds ==
    ASSUME IInv, NEW a \in Account, NEW e \in Entry, WriteEntry(a, e),
           phase \in {"strong", "callback"}
    PROVE  /\ ~tefINTERNAL(ledger[a])
           /\ ~tecINSUFFICIENT_RESERVE(ledger[a], e, stateMap[a].cache[e].value)
<1> DEFINE o == ledger[a].ownerCount
           b == ledger[a].balance
           k == Cardinality(PendingNew(a))
           v == stateMap[a].available
<1>1. Backed(a) /\ ~failed /\ Coherent(a, e) /\ stateMap[a].cache[e].modified
    BY Zenon DEF IInv, Reserved, Coherence, HookPhase, WriteEntry, Unwritten
<1>2. stateMap[a].touched
    BY <1>1, Zenon DEF Coherent
<1>3. ledger[a].alive /\ accountReserve(o + v + k) <= b
      /\ (v < 0 => PendingNew(a) = {})
    BY <1>1, <1>2, Zenon DEF Backed
<1>4. o \in Nat /\ b \in Nat /\ v \in Int
    BY Zenon DEF IInv, TypeOK, AccountRoot
<1>5. IsFiniteSet(PendingNew(a)) /\ k \in Nat
    BY UnwrittenFinite, Zenon
<1>6. ASSUME e \notin Entries(ledger[a])
      PROVE  accountReserve(o + 1) <= b
    <2>1. e \in PendingNew(a)
        BY <1>1, <1>6, Zenon DEF PendingNew
    <2>2. k # 0
        BY <1>5, <2>1, FS_EmptySet, Zenon
    <2>3. v >= 0
        BY <1>3, <1>4, <2>1, SMTT(30)
    <2> HIDE DEF o, b, k, v
    <2>4. o + 1 <= o + v + k /\ o + 1 \in Int /\ o + v + k \in Int
        BY <1>4, <1>5, <2>2, <2>3
    <2>5. accountReserve(o + 1) <= accountReserve(o + v + k)
        BY <2>4, ReserveMonotone, Zenon
    <2>6. accountReserve(o + 1) \in Int /\ accountReserve(o + v + k) \in Int
        BY <2>4, HookStateAssumption DEF accountReserve
    <2> QED BY <1>3, <1>4, <2>5, <2>6
<1>7. accountReserve(o + 1) \in Int
    BY <1>4, HookStateAssumption DEF accountReserve
<1> HIDE DEF o, b
<1>8. e \notin Entries(ledger[a]) => ~(b < accountReserve(o + 1))
    BY <1>4, <1>6, <1>7
<1> QED BY <1>3, <1>8, Zenon DEF tefINTERNAL, tecINSUFFICIENT_RESERVE, o, b

LEMMA WriteStep ==
    ASSUME IInv, NEW a \in Account, NEW e \in Entry, WriteEntry(a, e)
    PROVE  IInv'
<1> DEFINE data == stateMap[a].cache[e].value
           bad == tefINTERNAL(ledger[a]) \/ tecINSUFFICIENT_RESERVE(ledger[a], e, data)
           acc == setHookState(ledger[a], e, data)
           U == Unwritten
<1>1. /\ writing /\ ~failed /\ stateMap[a].cache[e].modified
      /\ bad => failed' = TRUE /\ ledger' = ledger
      /\ ~bad => ledger' = [ledger EXCEPT ![a] = acc] /\ failed' = failed
      /\ stateMap' = [stateMap EXCEPT ![a].cache[e] = NotCached]
      /\ UNCHANGED <<base, phase, writing, modified_entry_count, asked>>
      /\ UNCHANGED <<runner, processed, foreignStateSetDisabled>>
    BY Zenon DEF WriteEntry, hookVars, Unwritten
<1>2. /\ TypeOK /\ SoundLedger(ledger) /\ SoundLedger(base) /\ Control
      /\ phase \in {"strong", "callback", "again"}
    BY <1>1, Zenon DEF IInv, Control, HookPhase
<1>3. \A x \in Account, y \in Entry : Coherent(x, y)
    BY <1>1, <1>2, Zenon DEF IInv, Coherence, HookPhase
<1>4. /\ stateMap \in [Account -> [touched : BOOLEAN, available : Int,
                                   cache : [Entry -> CacheEntry]]]
      /\ stateMap[a].cache \in [Entry -> CacheEntry]
      /\ stateMap[a].cache[e] \in CacheEntry /\ data \in Value
    BY <1>2 DEF TypeOK, CacheEntry
<1>5. /\ NotCached \in CacheEntry /\ ~NotCached.modified /\ ~NotCached.cached
    BY Zenon DEF NotCached, CacheEntry, Value
<1>6. /\ stateMap' \in [Account -> [touched : BOOLEAN, available : Int,
                                    cache : [Entry -> CacheEntry]]]
      /\ \A x \in Account \ {a} : stateMap'[x] = stateMap[x]
      /\ \A y \in Entry \ {e} : stateMap'[a].cache[y] = stateMap[a].cache[y]
      /\ stateMap'[a].cache[e] = NotCached
      /\ stateMap'[a].touched = stateMap[a].touched
      /\ stateMap'[a].available = stateMap[a].available
    <2> HIDE DEF data, bad, acc
    <2> QED BY <1>1, <1>4, <1>5, Zenon
<1>7. ledger[a] \in AccountRoot /\ Sound(ledger[a]) /\ ledger[a].state \in [Entry -> Value]
      /\ ledger[a].ownerCount \in Nat /\ ledger[a].balance \in Nat
    BY <1>2, Zenon DEF SoundLedger, AccountRoot
<1>8. ~bad => ledger[a].alive
    BY Zenon DEF tefINTERNAL
<1>9. ASSUME ~bad
      PROVE  /\ acc \in AccountRoot /\ Sound(acc)
             /\ acc.alive /\ acc.balance = ledger[a].balance
             /\ acc.state = [ledger[a].state EXCEPT ![e] = data]
             /\ IF data # Empty /\ e \notin Entries(ledger[a])
                THEN acc.ownerCount = ledger[a].ownerCount + 1
                ELSE acc.ownerCount <= ledger[a].ownerCount
    <2> HIDE DEF data, bad
    <2> QED BY <1>4, <1>7, <1>8, <1>9, SetHookStateSound, Zenon
<1> HIDE DEF data, bad, acc
<1>10. SoundLedger(ledger')
    <2>1. CASE bad
        BY <1>1, <1>2, <2>1, Zenon
    <2>2. CASE ~bad
        BY <1>1, <1>2, <1>9, <2>2, OneAccount
    <2> QED BY <2>1, <2>2, Zenon
<1>11. TypeOK'
    <2>1. failed' \in BOOLEAN
        BY <1>1, <1>2, Zenon DEF TypeOK
    <2> QED BY <1>1, <1>2, <1>6, <1>10, <2>1, Zenon DEF TypeOK, SoundLedger
<1>12. Control'
    BY <1>1, <1>2, Zenon DEF Control, HookPhase
<1>13. Coherence'
    <2> SUFFICES ASSUME ~bad, NEW x \in Account, NEW y \in Entry
                 PROVE  Coherent(x, y)'
        BY <1>1, Zenon DEF Coherence
    <2>1. ledger'[a] = acc /\ \A z \in Account \ {a} : ledger'[z] = ledger[z]
        BY <1>1, <1>2, Zenon DEF SoundLedger
    <2>2. CASE x = a /\ y = e
        <3>1. ledger'[a].state[e] = data
            BY <1>7, <1>9, <2>1, Zenon
        <3>2. asked'[a][e] = data
            BY <1>1, <1>3, Zenon DEF Coherent, data
        <3>3. data # None
            BY <1>4, HookStateAssumption, ZenonT(40) DEF Value
        <3> QED BY <1>1, <1>5, <1>6, <2>2, <3>1, <3>2, <3>3 DEF Coherent
    <2>3. CASE x # a \/ y # e
        <3>1. ledger'[x].state[y] = ledger[x].state[y]
            BY <1>7, <1>9, <2>1, <2>3, ZenonT(40)
        <3>2. /\ stateMap'[x].cache[y] = stateMap[x].cache[y]
              /\ stateMap'[x].touched = stateMap[x].touched
            BY <1>6, <2>3, Zenon
        <3> QED BY <1>1, <1>3, <3>1, <3>2, SMTT(30) DEF Coherent
    <2> QED BY <2>2, <2>3, Zenon
<1>14. Reserved'
    <2> SUFFICES ASSUME phase \in {"strong", "callback"}
                 PROVE  ~failed' /\ \A x \in Account : Backed(x)'
        BY <1>1, Zenon DEF Reserved
    <2>1. ~bad
        BY WriteSucceeds, Zenon DEF bad, data
    <2>2. ledger'[a] = acc /\ \A z \in Account \ {a} : ledger'[z] = ledger[z]
        BY <1>1, <1>2, <2>1, Zenon DEF SoundLedger
    <2>3. \A x \in Account : Backed(x)
        BY Zenon DEF IInv, Reserved
    <2>4. ASSUME NEW x \in Account, x # a PROVE Backed(x)'
        <3>1. stateMap'[x] = stateMap[x] /\ ledger'[x] = ledger[x]
            BY <1>6, <2>2, <2>4, Zenon
        <3>2. PendingNew(x)' = PendingNew(x)
            BY <3>1, Zenon DEF PendingNew, Entries
        <3> QED BY <2>3, <3>1, <3>2, Zenon DEF Backed
    <2>5. Backed(a)'
        <3> DEFINE P == PendingNew(a)
                   Q == PendingNew(a)'
                   o == ledger[a].ownerCount
                   p == acc.ownerCount
                   v == stateMap[a].available
        <3>1. IsFiniteSet(P) /\ Cardinality(P) \in Nat
            BY UnwrittenFinite, Zenon
        <3>2. ASSUME NEW y \in Entry
              PROVE  y \in Q <=> y \in P \ {e}
            <4>1. CASE y = e
                BY <1>5, <1>6, <4>1, Zenon DEF PendingNew
            <4>2. CASE y # e
                <5>1. ledger'[a].state[y] = ledger[a].state[y]
                    BY <1>7, <1>9, <2>1, <2>2, <4>2, Zenon
                <5> QED BY <1>6, <4>2, <5>1, Zenon DEF PendingNew, Entries
            <4> QED BY <4>1, <4>2, Zenon
        <3>3. Q = P \ {e}
            BY <3>2, Zenon DEF PendingNew
        <3>4. Cardinality(Q) = IF e \in P THEN Cardinality(P) - 1 ELSE Cardinality(P)
            <4> HIDE DEF P, Q
            <4> QED BY <3>1, <3>3, FS_RemoveElement, Zenon
        <3>5. e \in P <=> e \notin Entries(ledger[a])
            BY <1>1, Zenon DEF PendingNew
        <3>6. stateMap[a].touched
            BY <1>1, <1>3, Zenon DEF Coherent
        <3>7. /\ accountReserve(o + v + Cardinality(P)) <= ledger[a].balance
              /\ v < 0 => P = {}
            BY <2>3, <3>6, Zenon DEF Backed
        <3>8. o \in Nat /\ p \in Nat /\ v \in Int
            BY <1>4, <1>7, <1>9, <2>1, Zenon DEF AccountRoot
        <3>9. p + Cardinality(Q) <= o + Cardinality(P) /\ Cardinality(Q) \in Int
            <4>1. IF e \in P THEN p <= o + 1 ELSE p <= o
                BY <1>9, <2>1, <3>5, <3>8, SMTT(30)
            <4> HIDE DEF P, Q, o, p
            <4> QED BY <3>1, <3>4, <3>8, <4>1, SMTT(30)
        <3>10. /\ p + v + Cardinality(Q) <= o + v + Cardinality(P)
               /\ p + v + Cardinality(Q) \in Int /\ o + v + Cardinality(P) \in Int
            <4> HIDE DEF P, Q, o, p, v
            <4> QED BY <3>1, <3>8, <3>9
        <3>11. /\ accountReserve(p + v + Cardinality(Q)) <= accountReserve(o + v + Cardinality(P))
               /\ accountReserve(p + v + Cardinality(Q)) \in Int
               /\ accountReserve(o + v + Cardinality(P)) \in Int
            <4> HIDE DEF P, Q, o, p, v
            <4> QED BY <3>10, ReserveMonotone, HookStateAssumption DEF accountReserve
        <3>12. accountReserve(p + v + Cardinality(Q)) <= ledger[a].balance
            <4> HIDE DEF P, Q, o, p, v
            <4> QED BY <1>7, <3>7, <3>11, SMTT(30)
        <3>13. v < 0 => Q = {}
            BY <3>3, <3>7, Zenon
        <3> HIDE DEF P, Q
        <3> QED BY <1>6, <1>9, <2>1, <2>2, <3>12, <3>13, Zenon DEF Backed, Q
    <2> QED BY <1>1, <2>1, <2>4, <2>5
<1>15. Bounded'
    <2>1. ASSUME NEW x \in Account, NEW y \in Entry, stateMap'[x].cache[y].modified
          PROVE  stateMap[x].cache[y].modified
        <3>1. CASE x = a /\ y = e
            BY <1>1, <3>1, Zenon
        <3>2. CASE x # a \/ y # e
            BY <1>6, <2>1, <3>2, Zenon
        <3> QED BY <3>1, <3>2, Zenon
    <2>2. Unwritten' \in SUBSET U
        BY <2>1, Zenon DEF Unwritten
    <2>3. IsFiniteSet(U) /\ Cardinality(U) \in Nat /\ Bounded
        BY UnwrittenFinite, Zenon DEF IInv
    <2>4. IsFiniteSet(Unwritten') /\ Cardinality(Unwritten') <= Cardinality(U)
        <3> HIDE DEF U
        <3> QED BY <2>2, <2>3, FS_Subset, Zenon
    <2>5. Cardinality(Unwritten') \in Nat
        BY <2>4, FS_CardinalityType, Zenon
    <2> QED BY <1>1, <1>2, <2>3, <2>4, <2>5, HookStateAssumption DEF Bounded, TypeOK
<1> QED BY <1>1, <1>2, <1>10, <1>11, <1>12, <1>13, <1>14, <1>15, Zenon DEF IInv

----------------------------------------------------------------------------

LEMMA HookCallStep ==
    ASSUME IInv, HookCall
    PROVE  IInv'
<1>1. ASSUME NEW a \in Account, NEW e \in Entry, state_foreign(a, e)
      PROVE  IInv'
    <2>1. ledger[a].state[e] \in Value
        BY SMTT(30) DEF IInv, TypeOK, AccountRoot
    <2>2. CacheCall(a, e, ledger[a].state[e], FALSE)
        BY <1>1, Zenon DEF CacheCall, state_foreign, ledgerVars, hookVars
    <2> QED BY <2>1, <2>2, CacheCallStep, Zenon
<1>2. ASSUME NEW a \in Account, NEW e \in Entry, NEW data \in Data \cup {Empty},
             state_foreign_set(a, e, data)
      PROVE  IInv'
    <2>1. CacheCall(a, e, data, TRUE)
        BY <1>2, Zenon DEF CacheCall, state_foreign_set, ledgerVars, hookVars
    <2> QED BY <2>1, CacheCallStep, Zenon DEF Value
<1>3. ASSUME NEW a \in Account, NEW e \in Entry, NotAuthorised(a, e)
      PROVE  IInv'
    BY <1>3, QuietSteps, Zenon
<1> QED BY <1>1, <1>2, <1>3, Zenon DEF HookCall

LEMMA NextIInv == IInv /\ [Next]_vars => IInv'
<1> SUFFICES ASSUME IInv, [Next]_vars PROVE IInv'
    BY Zenon
<1>1. CASE Begin \/ EndWriting \/ NoCallback \/ NotApplied
    BY <1>1, ClearingSteps, Zenon
<1>2. CASE NextHook \/ RunAgain \/ StartWriting
    BY <1>2, QuietSteps, Zenon
<1>3. CASE HookCall
    BY <1>3, HookCallStep, Zenon
<1>4. ASSUME NEW a \in Account, RunChain(a)
      PROVE  IInv'
    BY <1>4, QuietSteps, Zenon
<1>5. ASSUME NEW a \in Account, ClaimFee(a)
      PROVE  IInv'
    BY <1>5, ClearingSteps, Zenon
<1>6. ASSUME NEW a \in Account,
             \/ \E b \in 0 .. MaxBalance : Payment(a, b) \/ AccountCreate(a, b)
             \/ \E installed \in BOOLEAN, destroyed \in Namespace \cup {None} :
                    SetHook(a, installed, destroyed)
             \/ DeleteAccount(a)
      PROVE  IInv'
    BY <1>6, AppliedStep, Zenon
<1>7. ASSUME NEW a \in Account, NEW e \in Entry, WriteEntry(a, e)
      PROVE  IInv'
    BY <1>7, WriteStep, Zenon
<1>8. CASE UNCHANGED vars
    <2> USE <1>8 DEF vars
    <2>1. TypeOK' /\ SoundLedger(ledger)' /\ SoundLedger(base)' /\ Control'
        BY Zenon DEF IInv, TypeOK, SoundLedger, Control
    <2>2. Coherence'
        <3>1. ASSUME NEW a \in Account, NEW e \in Entry, Coherent(a, e) PROVE Coherent(a, e)'
            BY <3>1, Zenon DEF Coherent
        <3>2. phase' = phase /\ failed' = failed
            BY Zenon
        <3> QED BY <3>1, <3>2 DEF IInv, Coherence
    <2>3. \A a \in Account : PendingNew(a)' = PendingNew(a)
        BY Zenon DEF PendingNew
    <2>4. Reserved'
        BY <2>3, Zenon DEF IInv, Reserved, Backed
    <2>5. Unwritten' = Unwritten
        BY Zenon DEF Unwritten
    <2>6. Bounded'
        BY <2>5, Zenon DEF IInv, Bounded
    <2> QED BY <2>1, <2>2, <2>4, <2>6, Zenon DEF IInv
<1> QED BY <1>1, <1>2, <1>3, <1>4, <1>5, <1>6, <1>7, <1>8, Zenon DEF Next

\* The inductive invariant: every account root is sound, the cache agrees with
\* the ledger and the history, and outside the phases that collect fees the
\* balances back all that the cache would create.
THEOREM IInvHolds == Spec => []IInv
BY InitIInv, NextIInv, PTL DEF Spec

----------------------------------------------------------------------------
(* What it implies.                                                        *)

\* All variables keep their types through every phase of every transaction; in
\* particular no count of an account root goes below zero.
THEOREM HookStateTypeCorrect == Spec => []TypeOK
<1>1. IInv => TypeOK
    BY Zenon DEF IInv
<1> QED BY <1>1, IInvHolds, PTL

\* For any accounts, namespaces, keys and balances sfHookStateCount and
\* sfHookNamespaces stay exact through writes, resets and NSDELETE.
THEOREM CountsStayExact == Spec => []CountsExact
<1>1. IInv => CountsExact
    BY Zenon DEF IInv, SoundLedger, Sound, CountsExact
<1> QED BY <1>1, IInvHolds, PTL

\* What DeleteAccount tests is enough: no account leaves entries behind.
THEOREM NeverOrphanState == Spec => []NoOrphanState
<1>1. IInv => NoOrphanState
    BY Zenon DEF IInv, SoundLedger, Sound, NoOrphanState
<1> QED BY <1>1, IInvHolds, PTL

\* The owner count of an account never falls below the number of its entries.
THEOREM EntriesStayPaid == Spec => []ReserveCovered
<1>1. IInv => ReserveCovered
    BY Zenon DEF IInv, SoundLedger, Sound, ReserveCovered
<1> QED BY <1>1, IInvHolds, PTL

\* The reserve test of set_state_cache is sound where no collect fee is charged:
\* finalizeHookState never stops half way after strong hooks or a callback.
THEOREM StrongWritesComplete == Spec => []NothingHalfWritten
<1>1. IInv => NothingHalfWritten
    BY Zenon DEF IInv, Control, Reserved, HookPhase, NothingHalfWritten
<1> QED BY <1>1, IInvHolds, PTL

\* The cache is transparent: a hook reads the last write of its phase.
THEOREM CacheTransparent == Spec => []ReadsSeeWrites
<1>1. IInv => ReadsSeeWrites
    <2> SUFFICES ASSUME IInv, phase \in HookPhase, ~writing,
                        NEW a \in Account, NEW e \in Entry
                 PROVE  (IF InCache(a, e) THEN stateMap[a].cache[e].value
                         ELSE ledger[a].state[e]) = AskedOr(a, e, base[a].state[e])
        BY Zenon DEF ReadsSeeWrites
    <2>1. Coherent(a, e)
        BY Zenon DEF IInv, Control, Coherence
    <2>2. stateMap[a].cache[e].modified \in BOOLEAN
          /\ stateMap[a].cache[e].cached \in BOOLEAN
          /\ stateMap[a].cache[e].value \in Value
        BY ZenonT(40) DEF IInv, TypeOK, CacheEntry
    <2>3. None \notin Value
        BY HookStateAssumption, Zenon DEF Value
    <2> QED BY <2>1, <2>2, <2>3, Zenon DEF Coherent, InCache, AskedOr
<1> QED BY <1>1, IInvHolds, PTL

\* Once a phase is written without failure the ledger holds what was last
\* asked for, and nothing else changed.
THEOREM LedgerHoldsWhatWasAsked == Spec => []WrittenAsAsked
<1>1. IInv => WrittenAsAsked
    <2> SUFFICES ASSUME IInv, writing, ~failed, Unwritten = {},
                        NEW a \in Account, NEW e \in Entry
                 PROVE  ledger[a].state[e] = AskedOr(a, e, base[a].state[e])
        BY Zenon DEF WrittenAsAsked
    <2>1. Coherent(a, e)
        BY Zenon DEF IInv, Control, Coherence
    <2>2. <<a, e>> \in Account \X Entry /\ <<a, e>> \notin Unwritten
        BY Zenon
    <2>3. ~stateMap[a].cache[e].modified
        BY <2>2, Zenon DEF Unwritten
    <2> QED BY <2>1, <2>3, Zenon DEF Coherent, AskedOr
<1> QED BY <1>1, IInvHolds, PTL

\* No phase modifies more than max_state_modifications + 1 entries.
THEOREM ModificationsStayBounded == Spec => []ModificationsBounded
<1>1. IInv => ModificationsBounded
    BY Zenon DEF IInv, Bounded, ModificationsBounded
<1> QED BY <1>1, IInvHolds, PTL
==============================================================================
