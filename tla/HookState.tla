------------------------------ MODULE HookState ------------------------------
(***************************************************************************)
(* The state that hooks keep on the ledger, and the cache through which    *)
(* the hooks of one transaction read and write it.                         *)
(*                                                                         *)
(* A transaction goes through the phases of Transactor::operator(): the    *)
(* strong hooks run before it is applied and share one cache; then it is   *)
(* applied, or fails and is reset; then a callback runs with a cache of    *)
(* its own, and the weak hooks, the ones that asked to run again last,     *)
(* share a third.  At the end of a phase finalizeHookState writes the      *)
(* modified entries of its cache to the ledger, one by one.                *)
(*                                                                         *)
(* The cache promises that the write cannot fail: it tests the reserve of  *)
(* an account when the account is first touched and then counts down.      *)
(***************************************************************************)
EXTENDS Integers, FiniteSets

CONSTANTS
    Account, Namespace, Key,
    Data,                   \* non-empty values of an entry
    Empty,                  \* the empty value: setting it deletes the entry
    Grant,                  \* <<a, n, b>>: a's hooks let b's write a's namespace n
    BaseReserve, Increment, \* drops: accountReserve
    Fee,                    \* drops: what a transaction or a collect call costs
    MaxBalance,             \* bound of the model
    max_state_modifications,
    None

ASSUME HookStateAssumption ==
    /\ IsFiniteSet(Namespace) /\ IsFiniteSet(Key) /\ IsFiniteSet(Account)
    /\ Empty \notin Data
    /\ BaseReserve \in Nat /\ Increment \in Nat \ {0} /\ Fee \in Nat
    /\ MaxBalance \in Nat /\ max_state_modifications \in Nat
    /\ None \notin Account \cup Data \cup {Empty}

VARIABLES
    ledger,     \* the account roots and their ltHOOK_STATE entries
    base,       \* the ledger when the phase began: what a reset restores
    phase,      \* of the transaction
    writing,    \* is finalizeHookState running
    failed,     \* did it stop at an entry it could not write
    stateMap,   \* HookStateMap: per account touched, reserves left and entries
    modified_entry_count,
    runner,     \* the account whose hook runs
    processed,  \* accounts whose chain ran in this phase
    foreignStateSetDisabled,
    asked       \* what the hooks of this phase set, last value: history only

ledgerVars == <<ledger, base>>
cacheVars == <<stateMap, modified_entry_count, asked>>
hookVars == <<runner, processed, foreignStateSetDisabled>>
vars == <<ledger, base, phase, writing, failed, stateMap, modified_entry_count,
          runner, processed, foreignStateSetDisabled, asked>>

Entry == Namespace \X Key
Value == Data \cup {Empty}
HookPhase == {"strong", "callback", "weak", "again"}

AccountRoot ==
    [alive : BOOLEAN, hooked : BOOLEAN, balance : Nat, ownerCount : Nat,
     stateCount : Nat, namespaces : SUBSET Namespace, state : [Entry -> Value]]

CacheEntry == [cached : BOOLEAN, modified : BOOLEAN, value : Value]

TypeOK ==
    /\ ledger \in [Account -> AccountRoot]
    /\ base \in [Account -> AccountRoot]
    /\ phase \in HookPhase \cup {"idle", "apply"}
    /\ writing \in BOOLEAN /\ failed \in BOOLEAN
    /\ stateMap \in [Account -> [touched : BOOLEAN, available : Int,
                                 cache : [Entry -> CacheEntry]]]
    /\ modified_entry_count \in Nat
    /\ runner \in Account \cup {None}
    /\ processed \subseteq Account
    /\ foreignStateSetDisabled \in BOOLEAN
    /\ asked \in [Account -> [Entry -> Value \cup {None}]]

NewAccount(b) ==
    [alive |-> TRUE, hooked |-> FALSE, balance |-> b, ownerCount |-> 0,
     stateCount |-> 0, namespaces |-> {}, state |-> [e \in Entry |-> Empty]]

NotCached == [cached |-> FALSE, modified |-> FALSE, value |-> Empty]
EmptyMap ==
    [a \in Account |->
        [touched |-> FALSE, available |-> 0, cache |-> [e \in Entry |-> NotCached]]]
NothingAsked == [a \in Account |-> [e \in Entry |-> None]]

Init ==
    /\ ledger = [a \in Account |-> NewAccount(MaxBalance)]
    /\ base = ledger
    /\ phase = "idle" /\ writing = FALSE /\ failed = FALSE
    /\ stateMap = EmptyMap
    /\ modified_entry_count = 0
    /\ runner = None /\ processed = {} /\ foreignStateSetDisabled = FALSE
    /\ asked = NothingAsked

----------------------------------------------------------------------------
(* The ledger.                                                             *)

accountReserve(ownerCount) == BaseReserve + Increment * ownerCount

Allotment(hookStateCount) == hookStateCount \div 2
computeHookStateOwnerCount(hookStateCount) == hookStateCount

\* The entries that exist, and the namespaces that hold some.
Entries(acc) == {e \in Entry : acc.state[e] # Empty}
Spaces(S) == {e[1] : e \in S}

\* The namespace leaves sfHookNamespaces with its last entry.
StaleNamespaces(acc, e) == acc.namespaces
NamespacesLeft(acc, e) ==
    IF e[1] \in Spaces(Entries(acc) \ {e}) THEN acc.namespaces
    ELSE acc.namespaces \ {e[1]}

\* The account root and its entries once e is removed, created, updated.
Removed(acc, e) ==
    LET count == IF acc.stateCount > 0 THEN acc.stateCount - 1 ELSE 0
    IN  [acc EXCEPT
            !.state[e] = Empty,
            !.stateCount = count,
            !.ownerCount = IF /\ computeHookStateOwnerCount(count)
                                    < computeHookStateOwnerCount(acc.stateCount)
                              /\ @ > 0
                           THEN @ - 1 ELSE @,
            !.namespaces = NamespacesLeft(acc, e)]

NeedsReserve(acc) ==
    computeHookStateOwnerCount(acc.stateCount + 1)
        > computeHookStateOwnerCount(acc.stateCount)

Created(acc, e, data) ==
    [acc EXCEPT
        !.state[e] = data,
        !.stateCount = @ + 1,
        !.ownerCount = IF NeedsReserve(acc) THEN @ + 1 ELSE @,
        !.namespaces = IF e[1] \in Spaces(Entries(acc)) THEN @ ELSE @ \cup {e[1]}]

Updated(acc, e, data) == [acc EXCEPT !.state[e] = data]

\* The results of setHookState that change nothing.
tefINTERNAL(acc) == ~acc.alive
tecINSUFFICIENT_RESERVE(acc, e, data) ==
    /\ data # Empty /\ e \notin Entries(acc)
    /\ NeedsReserve(acc)
    /\ acc.balance < accountReserve(acc.ownerCount + 1)

setHookState(acc, e, data) ==
    CASE data = Empty /\ e \notin Entries(acc) -> acc
      [] data = Empty /\ e \in Entries(acc) -> Removed(acc, e)
      [] data # Empty /\ e \notin Entries(acc) -> Created(acc, e, data)
      [] OTHER -> Updated(acc, e, data)

\* SetHook::destroyNamespace.  The owner count is left as it was.
CountLeft(acc, gone) == acc.stateCount - Cardinality(gone)

destroyNamespace(acc, n) ==
    LET gone == {e \in Entries(acc) : e[1] = n}
    IN  [acc EXCEPT
            !.namespaces = @ \ {n},
            !.state = [e \in Entry |-> IF e \in gone THEN Empty ELSE @[e]],
            !.stateCount = IF Cardinality(gone) > @ THEN @ ELSE CountLeft(acc, gone)]

----------------------------------------------------------------------------
(* The cache.                                                              *)

\* Reserve positions that account a could still pay for.
availableForReserves(a) ==
    (ledger[a].balance - accountReserve(ledger[a].ownerCount)) \div Increment

InCache(a, e) == stateMap[a].cache[e].cached

CanReserveLast(a) ==
    IF stateMap[a].touched THEN stateMap[a].available >= 0
    ELSE availableForReserves(a) >= 1

CanReserve(a) ==
    IF stateMap[a].touched THEN stateMap[a].available > 0
    ELSE availableForReserves(a) >= 1

\* A hook that modifies an entry gets TOO_MANY_STATE_MODIFICATIONS,
\* DOESNT_EXIST or RESERVE_INSUFFICIENT; a hook that reads gets no error.
RefusedByReserve(a, e) ==
    \/ ~stateMap[a].touched /\ ~ledger[a].alive
    \/ ~InCache(a, e) /\ ~CanReserve(a)

Refused(a, e) ==
    \/ modified_entry_count > max_state_modifications
    \/ RefusedByReserve(a, e)

\* The first entry of an account takes a reserve position even if it is only
\* read; later ones do if they are new to the cache and modified.
available(a, e, modified) ==
    IF ~stateMap[a].touched THEN availableForReserves(a) - 1
    ELSE IF modified /\ ~InCache(a, e) THEN stateMap[a].available - 1
    ELSE stateMap[a].available

\* The entry of the cache, new or written over.
FirstValue(old, data, modified) ==
    [cached |-> TRUE, modified |-> old.modified \/ modified,
     value |-> IF old.cached THEN old.value ELSE data]
FlagForgotten(old, data, modified) ==
    [cached |-> TRUE, modified |-> IF old.cached THEN old.modified ELSE modified,
     value |-> data]
Cached(old, data, modified) ==
    [cached |-> TRUE, modified |-> old.modified \/ modified, value |-> data]

set_state_cache(a, e, data, modified) ==
    /\ stateMap' = [stateMap EXCEPT
            ![a] = [touched |-> TRUE,
                    available |-> available(a, e, modified),
                    cache |-> [stateMap[a].cache EXCEPT ![e] = Cached(@, data, modified)]]]
    /\ modified_entry_count' =
            IF modified \/ ~stateMap[a].touched
            THEN modified_entry_count + 1 ELSE modified_entry_count

Running == phase \in HookPhase /\ ~writing /\ runner # None

\* A hook reads an entry that is not cached yet and exists on the ledger.
state_foreign(a, e) ==
    /\ Running
    /\ ~InCache(a, e)
    /\ e \in Entries(ledger[a])
    /\ set_state_cache(a, e, ledger[a].state[e], FALSE)
    /\ UNCHANGED <<ledgerVars, phase, writing, failed, hookVars, asked>>

\* A hook may write its own account's entries, and those of another account
\* that grants it or that were modified before in this phase.
Authorised(a, e) ==
    \/ a = runner
    \/ /\ ~foreignStateSetDisabled
       /\ \/ stateMap[a].cache[e].modified
          \/ ledger[a].hooked /\ <<a, e[1], runner>> \in Grant

state_foreign_set(a, e, data) ==
    /\ Running
    /\ Authorised(a, e)
    /\ ~Refused(a, e)
    /\ set_state_cache(a, e, data, TRUE)
    /\ asked' = [asked EXCEPT ![a][e] = data]
    /\ UNCHANGED <<ledgerVars, phase, writing, failed, hookVars>>

\* "hook only gets one attempt": NOT_AUTHORIZED.
NotAuthorised(a, e) ==
    /\ Running
    /\ ~foreignStateSetDisabled
    /\ ledger[a].hooked
    /\ ~Authorised(a, e)
    /\ foreignStateSetDisabled' = TRUE
    /\ UNCHANGED <<ledgerVars, phase, writing, failed, cacheVars, runner, processed>>

----------------------------------------------------------------------------
(* The transaction.                                                        *)

ClearCache ==
    /\ stateMap' = EmptyMap
    /\ modified_entry_count' = 0
    /\ asked' = NothingAsked
    /\ runner' = None /\ processed' = {} /\ foreignStateSetDisabled' = FALSE
    /\ writing' = FALSE /\ failed' = FALSE

Begin ==
    /\ phase = "idle"
    /\ phase' = "strong"
    /\ UNCHANGED <<ledgerVars, writing, failed, cacheVars, hookVars>>

\* The chain of account a, or the callback's hook, starts.  A weak chain is
\* paid for by its account if that leaves its reserve intact.
RunChain(a) ==
    /\ phase \in HookPhase /\ ~writing
    /\ ledger[a].alive /\ ledger[a].hooked /\ a \notin processed
    /\ phase = "callback" => processed = {}
    /\ IF phase = "weak"
       THEN /\ Fee + accountReserve(ledger[a].ownerCount) <= ledger[a].balance
            /\ ledger' = [ledger EXCEPT ![a].balance = @ - Fee]
       ELSE UNCHANGED ledger
    /\ runner' = a
    /\ processed' = processed \cup {a}
    /\ foreignStateSetDisabled' = FALSE
    /\ UNCHANGED <<base, phase, writing, failed, cacheVars>>

\* The next hook of the chain.
NextHook ==
    /\ Running
    /\ foreignStateSetDisabled
    /\ foreignStateSetDisabled' = FALSE
    /\ UNCHANGED <<ledgerVars, phase, writing, failed, cacheVars, runner, processed>>

\* All weak chains ran: the hooks that asked to run again do.
RunAgain ==
    /\ phase = "weak" /\ ~writing
    /\ phase' = "again"
    /\ runner' = None /\ processed' = {} /\ foreignStateSetDisabled' = FALSE
    /\ UNCHANGED <<ledgerVars, writing, failed, cacheVars>>

\* The hooks accepted, or are weak: their writes are kept.
StartWriting ==
    /\ phase \in HookPhase \ {"weak"} /\ ~writing
    /\ writing' = TRUE
    /\ UNCHANGED <<ledgerVars, phase, failed, cacheVars, hookVars>>

Unwritten ==
    {u \in Account \X Entry : stateMap[u[1]].cache[u[2]].modified}

\* One turn of finalizeHookState; what is written leaves the model's cache.
WriteEntry(a, e) ==
    /\ writing /\ ~failed
    /\ <<a, e>> \in Unwritten
    /\ LET data == stateMap[a].cache[e].value
       IN  IF \/ tefINTERNAL(ledger[a])
              \/ tecINSUFFICIENT_RESERVE(ledger[a], e, data)
           THEN failed' = TRUE /\ UNCHANGED ledger
           ELSE /\ ledger' = [ledger EXCEPT ![a] = setHookState(@, e, data)]
                /\ UNCHANGED failed
    /\ stateMap' = [stateMap EXCEPT ![a].cache[e] = NotCached]
    /\ UNCHANGED <<base, phase, writing, modified_entry_count, asked, hookVars>>

\* Its result is not looked at: the transaction goes on either way.
EndWriting ==
    /\ writing
    /\ failed \/ Unwritten = {}
    /\ phase' = CASE phase = "strong" -> "apply"
                  [] phase = "callback" -> "weak"
                  [] OTHER -> "idle"
    /\ base' = IF phase = "strong" THEN base ELSE ledger
    /\ ClearCache
    /\ UNCHANGED ledger

\* A callback that did not accept, or no callback.
NoCallback ==
    /\ phase = "callback" /\ ~writing
    /\ phase' = "weak"
    /\ ClearCache
    /\ UNCHANGED ledgerVars

\* The transaction is applied with tesSUCCESS and leaves account a as acc.
Applied(a, acc) ==
    /\ phase = "apply"
    /\ ledger' = [ledger EXCEPT ![a] = acc]
    /\ base' = ledger'
    /\ phase' = "callback"
    /\ UNCHANGED <<writing, failed, cacheVars, hookVars>>

Payment(a, b) == ledger[a].alive /\ Applied(a, [ledger[a] EXCEPT !.balance = b])

AccountCreate(a, b) ==
    /\ ~ledger[a].alive /\ b >= accountReserve(0)
    /\ Applied(a, [NewAccount(b) EXCEPT !.state = ledger[a].state])

\* SetHook installs or deletes hooks and may destroy a namespace.
SetHook(a, installed, destroyed) ==
    /\ ledger[a].alive
    /\ LET acc == [ledger[a] EXCEPT !.hooked = installed]
       IN  Applied(a, IF destroyed = None THEN acc ELSE destroyNamespace(acc, destroyed))

\* AccountDelete takes the account root only; entries would stay behind.
NoHooksLeft(acc) == ~acc.hooked
Deletable(acc) == ~acc.hooked /\ acc.namespaces = {}

DeleteAccount(a) ==
    /\ ledger[a].alive
    /\ Deletable(ledger[a])
    /\ Applied(a, [NewAccount(0) EXCEPT !.alive = FALSE, !.state = ledger[a].state])

\* A hook rejects the transaction, or it fails when applied.  Either the
\* context is reset and a fee is claimed from account a, or nothing happened.
ClaimFee(a) ==
    /\ phase \in {"strong", "apply"} /\ ~writing
    /\ base[a].alive
    /\ ledger' = [base EXCEPT ![a].balance = IF Fee > @ THEN 0 ELSE @ - Fee]
    /\ base' = ledger'
    /\ phase' = "callback"
    /\ ClearCache

NotApplied ==
    /\ phase \in {"strong", "apply"} /\ ~writing
    /\ ledger' = base
    /\ phase' = "idle"
    /\ ClearCache
    /\ UNCHANGED base

HookCall ==
    \E a \in Account, e \in Entry :
        \/ state_foreign(a, e)
        \/ \E data \in Data \cup {Empty} : state_foreign_set(a, e, data)
        \/ NotAuthorised(a, e)

Next ==
    \/ Begin \/ NextHook \/ RunAgain \/ StartWriting \/ EndWriting
    \/ NoCallback \/ NotApplied
    \/ HookCall
    \/ \E a \in Account :
        \/ RunChain(a) \/ DeleteAccount(a) \/ ClaimFee(a)
        \/ \E b \in 0 .. MaxBalance : Payment(a, b) \/ AccountCreate(a, b)
        \/ \E installed \in BOOLEAN, destroyed \in Namespace \cup {None} :
                SetHook(a, installed, destroyed)
        \/ \E e \in Entry : WriteEntry(a, e)

Spec == Init /\ [][Next]_vars

----------------------------------------------------------------------------
(* Properties.                                                             *)

\* sfHookStateCount counts the entries of the account and sfHookNamespaces
\* names exactly the namespaces that hold some, through writes, NSDELETE and
\* resets: DeleteAccount and the reserve rely on both.
CountsExact ==
    \A a \in Account : ledger[a].alive =>
        /\ ledger[a].stateCount = Cardinality(Entries(ledger[a]))
        /\ ledger[a].namespaces = Spaces(Entries(ledger[a]))

\* No entry outlives its account (DeleteAccount.cpp: "when these fields are
\* completely empty the field is made absent so this test is sufficient").
NoOrphanState ==
    \A a \in Account : ~ledger[a].alive => Entries(ledger[a]) = {}

\* Every entry is paid for: the owner count is never below the number of
\* entries, so deleting them cannot wrap it.
ReserveCovered ==
    \A a \in Account :
        ledger[a].alive => ledger[a].ownerCount >= Cardinality(Entries(ledger[a]))

\* Once the strong hooks or the callback accepted, all their writes reach the
\* ledger, although the result of finalizeHookState is ignored there.
NothingHalfWritten == failed => phase = "again"

AskedOr(a, e, v) == IF asked[a][e] = None THEN v ELSE asked[a][e]

\* A hook reads what the hooks of its phase last wrote, else the ledger as the
\* phase found it, whatever was cached in between.
ReadsSeeWrites ==
    phase \in HookPhase /\ ~writing =>
        \A a \in Account, e \in Entry :
            (IF InCache(a, e) THEN stateMap[a].cache[e].value
             ELSE ledger[a].state[e]) = AskedOr(a, e, base[a].state[e])

\* When all is written the ledger holds for each entry what was last asked for
\* it, and every other entry is as it was.
WrittenAsAsked ==
    writing /\ ~failed /\ Unwritten = {} =>
        \A a \in Account, e \in Entry :
            ledger[a].state[e] = AskedOr(a, e, base[a].state[e])

\* One phase modifies at most one entry more than the limit, far below the
\* 16-bit counter of finalizeHookState.
ModificationsBounded == Cardinality(Unwritten) <= max_state_modifications + 1

\* applyHook.cpp:1558 "should not fail... checks were done before map insert".
WritesNeverFail == ~failed

\* SetHook_test.cpp:8226 "owner count should be 1 hook +  2 state objects == 3":
\* the owner count of an account is the number of its objects.
OwnerCountExact ==
    \A a \in Account : ledger[a].alive =>
        ledger[a].ownerCount = Cardinality(Entries(ledger[a]))
=============================================================================
