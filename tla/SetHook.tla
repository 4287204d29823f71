------------------------------ MODULE SetHook ------------------------------
(***************************************************************************)
(* The SetHook transactor: how an account installs, updates and deletes    *)
(* the hooks of its chain, and how the hook definitions the accounts share *)
(* are created, counted and destroyed.                                     *)
(*                                                                         *)
(* A transaction walks over the slots of the chain (one action per slot    *)
(* and operation) on a private view, collects what it will insert, update  *)
(* and destroy, and then either enacts all of it or is discarded.  Nothing *)
(* else runs in between: the ledger applies one transaction at a time.     *)
(*                                                                         *)
(* Code is represented by its hash.  Of a slot's parameters and grants     *)
(* only their number is kept (it decides the reserve); HookOn is treated   *)
(* by the code exactly like the namespace and is left out of the slots.    *)
(***************************************************************************)
EXTENDS Integers, FiniteSets

CONSTANTS
    Account,             \* accounts that set hooks
    Hash,                \* hashes of hook code
    Namespace,           \* hook state namespaces
    LedgerFlags,         \* flags a ledger object may carry (hsfCOLLECT)
    maxHookChainLength,  \* slots of a chain
    MaxItems,            \* bound on the parameters and grants of one slot
    OwnerPage,           \* page numbers of owner directories
    Absent,              \* an absent field or object
    Empty,               \* the empty byte string as sfCreateCode
    NoHook               \* a blank slot

ASSUME SetHookAssumption ==
    /\ maxHookChainLength \in Nat \ {0}
    /\ MaxItems \in Nat
    /\ IsFiniteSet(Account)
    /\ LedgerFlags \cap {"hsfOVERRIDE", "hsfNSDELETE"} = {}
    /\ 0 \in OwnerPage
    /\ Absent \notin Hash \cup Namespace \cup OwnerPage \cup Nat
    /\ \A f \in SUBSET (LedgerFlags \cup {"hsfOVERRIDE", "hsfNSDELETE"}) : f # Absent
    /\ Empty \notin Hash \cup {Absent}

VARIABLES
    hooks,               \* ltHOOK: the chain of each account
    defs,                \* ltHOOK_DEFINITION by hash
    ownerCount,          \* sfOwnerCount, as far as hooks contribute to it
    ownerNode,           \* sfOwnerNode of each ltHOOK, Absent without one
    dirPage,             \* page of the owner directory that lists the ltHOOK
    fault,               \* a tef result the transactor returned
    phase,               \* "idle" or "slots": is a transaction being applied
    account,             \* account_
    slot,                \* hookSetNumber
    allBlank,            \* every entry so far was blank
    newHooks,            \* the chain being built
    view,                \* definitions as peeked: their counts may be changed
    slesToInsert,
    slesToUpdate,
    keyletsToDestroy,
    namespacesToDestroy

ledger == <<hooks, defs, ownerCount, ownerNode, dirPage>>

working == <<phase, account, slot, allBlank, newHooks, view, slesToInsert,
             slesToUpdate, keyletsToDestroy, namespacesToDestroy>>

vars == <<ledger, fault, working>>

Slots == 1..maxHookChainLength
SetFlags == LedgerFlags \cup {"hsfOVERRIDE", "hsfNSDELETE"}
OptFlags == {Absent} \cup SUBSET SetFlags

Hook == [hash : Hash, namespace : Namespace \cup {Absent},
         flags : OptFlags, items : 0..MaxItems]

Definition == [refCount : Nat, namespace : Namespace, flags : SUBSET SetFlags]

ASSUME NoHookAssumption == \A hook \in Hook : hook # NoHook

Chain == [Slots -> Hook \cup {NoHook}]
BlankChain == [i \in Slots |-> NoHook]
NoDefinitions == [h \in {} |-> Absent]

\* The fields of a HookSet object that decide what happens to a slot.
HookSetObject ==
    [hookHash : Hash \cup {Absent}, createCode : Hash \cup {Absent, Empty},
     namespace : Namespace \cup {Absent}, flags : OptFlags,
     items : (0..MaxItems) \cup {Absent},
     hookOn : BOOLEAN, apiVersion : BOOLEAN]

Blank == [hookHash |-> Absent, createCode |-> Absent, namespace |-> Absent,
          flags |-> Absent, items |-> Absent,
          hookOn |-> FALSE, apiVersion |-> FALSE]

TypeOK ==
    /\ hooks \in [Account -> Chain]
    /\ DOMAIN defs \subseteq Hash
    /\ defs \in [DOMAIN defs -> Definition]
    /\ ownerCount \in [Account -> Nat]
    /\ ownerNode \in [Account -> OwnerPage \cup {Absent}]
    /\ dirPage \in [Account -> OwnerPage \cup {Absent}]
    /\ fault \in {"none", "tefBAD_LEDGER", "tefINTERNAL"}
    /\ phase \in {"idle", "slots"}
    /\ account \in Account \cup {Absent}
    /\ phase = "slots" => account \in Account
    /\ slot \in 1..(maxHookChainLength + 1)
    /\ allBlank \in BOOLEAN
    /\ newHooks \in Chain
    /\ DOMAIN view \subseteq Hash
    /\ view \in [DOMAIN view -> Definition]
    /\ DOMAIN slesToInsert \subseteq Hash
    /\ slesToInsert \in [DOMAIN slesToInsert -> Definition]
    /\ slesToUpdate \subseteq Hash
    /\ keyletsToDestroy \subseteq Hash
    /\ namespacesToDestroy \subseteq Namespace

Init ==
    /\ hooks = [a \in Account |-> BlankChain]
    /\ defs = NoDefinitions
    /\ ownerCount = [a \in Account |-> 0]
    /\ ownerNode = [a \in Account |-> Absent]
    /\ dirPage = [a \in Account |-> Absent]
    /\ fault = "none"
    /\ phase = "idle"
    /\ account = Absent
    /\ slot = 1
    /\ allBlank = TRUE
    /\ newHooks = BlankChain
    /\ view = NoDefinitions
    /\ slesToInsert = NoDefinitions
    /\ slesToUpdate = {}
    /\ keyletsToDestroy = {}
    /\ namespacesToDestroy = {}

----------------------------------------------------------------------------
(* What the HookSet object asks for, and whether preflight lets it pass.   *)

FlagsOf(o) == IF o.flags = Absent THEN {} ELSE o.flags

inferOperation(o) ==
    CASE o.hookHash # Absent /\ o.createCode # Absent -> "INVALID"
      [] o.hookHash # Absent /\ o.createCode = Absent -> "INSTALL"
      [] o.hookHash = Absent /\ o.createCode \in Hash -> "CREATE"
      [] o.hookHash = Absent /\ o.createCode = Empty -> "DELETE"
      [] o = Blank -> "NOOP"
      [] OTHER -> IF o.namespace # Absent /\ "hsfNSDELETE" \in FlagsOf(o)
                  THEN "NSDELETE" ELSE "UPDATE"

validateHookSetEntry(o) ==
    CASE inferOperation(o) = "NOOP" -> TRUE
      [] inferOperation(o) = "NSDELETE" ->
            /\ o.items = Absent /\ ~o.hookOn /\ ~o.apiVersion
            /\ FlagsOf(o) = {"hsfNSDELETE"}
      [] inferOperation(o) = "DELETE" ->
            /\ o.items = Absent /\ ~o.hookOn /\ ~o.apiVersion
            /\ o.namespace = Absent
            /\ "hsfOVERRIDE" \in FlagsOf(o)
      [] inferOperation(o) = "INSTALL" -> ~o.apiVersion
      [] inferOperation(o) = "UPDATE" ->
            /\ "hsfOVERRIDE" \notin FlagsOf(o)
            /\ "hsfNSDELETE" \in FlagsOf(o) => o.namespace # Absent
            /\ ~o.apiVersion
      [] inferOperation(o) = "CREATE" ->
            o.namespace # Absent /\ o.apiVersion /\ o.hookOn
      [] OTHER -> FALSE

ValidObjects == {o \in HookSetObject : validateHookSetEntry(o)}

----------------------------------------------------------------------------
(* Helpers of the slot loop.                                               *)

\* The hook in the slot being processed, and whether its definition is found.
oldHook == hooks[account][slot]
oldDefFound == oldHook # NoHook /\ oldHook.hash \in DOMAIN view
oldNamespace == IF oldHook.namespace # Absent THEN oldHook.namespace
                ELSE view[oldHook.hash].namespace

\* The flags that may be passed on to a ledger object.
KeepAllFlags(o) == FlagsOf(o)
newFlags(o) == FlagsOf(o) \ {"hsfOVERRIDE", "hsfNSDELETE"}

reduceReferenceCount(d) ==
    [d EXCEPT !.refCount = IF @ > 0 THEN @ - 1 ELSE @]

incrementReferenceCount(d) == [d EXCEPT !.refCount = @ + 1]

\* The view and the pending sets after the slot's old definition was released.
Released ==
    IF oldDefFound
    THEN [view EXCEPT ![oldHook.hash] = reduceReferenceCount(@)]
    ELSE view

ReleasedUnused == oldDefFound /\ Released[oldHook.hash].refCount = 0
ReleasedInUse == oldDefFound /\ Released[oldHook.hash].refCount # 0

ReleasedToDestroy ==
    keyletsToDestroy \cup (IF ReleasedUnused THEN {oldHook.hash} ELSE {})

ReleasedToUpdate ==
    slesToUpdate \cup (IF ReleasedInUse THEN {oldHook.hash} ELSE {})

\* hsfNSDELETE in any operation but a blank one marks a namespace.
MarkNamespace(o) ==
    namespacesToDestroy' =
        namespacesToDestroy \cup
            IF "hsfNSDELETE" \notin FlagsOf(o) THEN {}
            ELSE IF inferOperation(o) = "NSDELETE" THEN {o.namespace}
            ELSE IF oldHook # NoHook THEN {oldNamespace}
            ELSE {}

\* Preflight has accepted the entry, and preclaim has found the definition.
\* At least one entry of the transaction is not blank.
Entry(o) ==
    /\ phase = "slots" /\ slot \in Slots
    /\ o \in ValidObjects
    /\ o.hookHash # Absent => o.hookHash \in DOMAIN defs
    /\ slot = maxHookChainLength => ~(allBlank /\ o = Blank)

NextSlot(o, hook) ==
    /\ newHooks' = [newHooks EXCEPT ![slot] = hook]
    /\ slot' = slot + 1
    /\ allBlank' = (allBlank /\ o = Blank)
    /\ MarkNamespace(o)
    /\ UNCHANGED <<ledger, fault, phase, account>>

Override(o) == oldHook = NoHook \/ "hsfOVERRIDE" \in FlagsOf(o)

ItemsOr(o, n) == IF o.items = Absent THEN n ELSE o.items

----------------------------------------------------------------------------
(* The transaction starts.                                                 *)

setHook(a) ==
    /\ phase = "idle"
    /\ phase' = "slots" /\ account' = a /\ slot' = 1 /\ allBlank' = TRUE
    /\ newHooks' = BlankChain
    /\ view' = defs
    /\ slesToInsert' = NoDefinitions
    /\ slesToUpdate' = {} /\ keyletsToDestroy' = {}
    /\ namespacesToDestroy' = {}
    /\ UNCHANGED <<ledger, fault>>

\* Whatever was prepared is dropped; the ledger is as before.
Discard ==
    /\ phase' = "idle" /\ account' = Absent /\ slot' = 1 /\ allBlank' = TRUE
    /\ newHooks' = BlankChain
    /\ view' = NoDefinitions
    /\ slesToInsert' = NoDefinitions
    /\ slesToUpdate' = {} /\ keyletsToDestroy' = {}
    /\ namespacesToDestroy' = {}

----------------------------------------------------------------------------
(* One action per operation on a slot.                                     *)

hsoNOOP(o) ==
    /\ Entry(o) /\ inferOperation(o) \in {"NOOP", "NSDELETE"}
    /\ NextSlot(o, oldHook)
    /\ UNCHANGED <<view, slesToInsert, slesToUpdate, keyletsToDestroy>>

hsoDELETE(o) ==
    /\ Entry(o) /\ inferOperation(o) = "DELETE"
    /\ NextSlot(o, NoHook)
    /\ view' = Released
    /\ slesToUpdate' = ReleasedToUpdate
    /\ keyletsToDestroy' = ReleasedToDestroy
    /\ UNCHANGED slesToInsert

AlwaysStore(o) == IF o.namespace = Absent THEN oldHook.namespace ELSE o.namespace

\* The namespace is stored only if it differs from the definition's.
UpdatedNamespace(o) ==
    IF o.namespace = Absent THEN oldHook.namespace
    ELSE IF o.namespace = view[oldHook.hash].namespace THEN Absent
    ELSE o.namespace

hsoUPDATE(o) ==
    /\ Entry(o) /\ inferOperation(o) = "UPDATE" /\ oldDefFound
    /\ NextSlot(o, [hash |-> oldHook.hash,
                    namespace |-> UpdatedNamespace(o),
                    flags |-> o.flags,
                    items |-> ItemsOr(o, oldHook.items)])
    /\ UNCHANGED <<view, slesToInsert, slesToUpdate, keyletsToDestroy>>

\* The code is new: a definition with one reference will be inserted.
hsoCREATE(o) ==
    /\ Entry(o) /\ inferOperation(o) = "CREATE" /\ Override(o)
    /\ o.createCode \notin DOMAIN view \cup DOMAIN slesToInsert
    /\ NextSlot(o, [hash |-> o.createCode, namespace |-> Absent,
                    flags |-> Absent, items |-> ItemsOr(o, 0)])
    /\ view' = Released
    /\ slesToUpdate' = ReleasedToUpdate
    /\ keyletsToDestroy' = ReleasedToDestroy
    /\ slesToInsert' =
        [h \in DOMAIN slesToInsert \cup {o.createCode} |->
            IF h = o.createCode
            THEN [refCount |-> 1, namespace |-> o.namespace,
                  flags |-> newFlags(o)]
            ELSE slesToInsert[h]]

\* The definition an install refers to: by hash, or by code that is already
\* on the ledger or was inserted earlier in the same loop.
Target(o) == IF o.hookHash # Absent THEN o.hookHash ELSE o.createCode

InstalledNamespace(o, d) ==
    IF o.namespace = d.namespace THEN Absent ELSE o.namespace

\* A definition that takes over the namespace of its latest user.
ReferencedAnew(d, o) ==
    [incrementReferenceCount(d) EXCEPT
        !.namespace = IF o.namespace = Absent THEN @ ELSE o.namespace]

Referenced(d, o) == incrementReferenceCount(d)

InstalledHook(o, d) ==
    [hash |-> Target(o), namespace |-> InstalledNamespace(o, d),
     flags |-> IF o.flags = Absent THEN Absent ELSE newFlags(o),
     items |-> ItemsOr(o, 0)]

ReleasedOnly(o) == ReleasedToUpdate
InstalledToUpdate(o) == ReleasedToUpdate \cup {Target(o)}

hsoINSTALL(o) ==
    /\ Entry(o) /\ inferOperation(o) \in {"CREATE", "INSTALL"} /\ Override(o)
    /\ slesToUpdate' = InstalledToUpdate(o)
    /\ keyletsToDestroy' = ReleasedToDestroy
    /\ \/ /\ Target(o) \in DOMAIN view
          /\ NextSlot(o, InstalledHook(o, view[Target(o)]))
          /\ view' = [Released EXCEPT ![Target(o)] = Referenced(@, o)]
          /\ UNCHANGED slesToInsert
       \/ /\ Target(o) \in DOMAIN slesToInsert \ DOMAIN view
          /\ NextSlot(o, InstalledHook(o, slesToInsert[Target(o)]))
          /\ view' = Released
          /\ slesToInsert' = [slesToInsert EXCEPT ![Target(o)] = Referenced(@, o)]

----------------------------------------------------------------------------
(* Errors that end the transaction and leave the ledger alone.             *)

tecREQUIRES_FLAG(o) ==
    /\ Entry(o) /\ inferOperation(o) \in {"CREATE", "INSTALL"} /\ ~Override(o)
    /\ Discard
    /\ UNCHANGED <<ledger, fault>>

tecNO_ENTRY(o) ==
    /\ Entry(o) /\ inferOperation(o) = "UPDATE" /\ ~oldDefFound
    /\ Discard
    /\ UNCHANGED <<ledger, fault>>

\* The merged parameters would be more than a hook may have.
tecINTERNAL(o) ==
    /\ Entry(o) /\ o.items # Absent
    /\ \/ inferOperation(o) = "UPDATE" /\ oldDefFound
       \/ /\ inferOperation(o) \in {"CREATE", "INSTALL"} /\ Override(o)
          /\ Target(o) \in DOMAIN view \cup DOMAIN slesToInsert
    /\ Discard
    /\ UNCHANGED <<ledger, fault>>

AllSlotsDone == phase = "slots" /\ slot > maxHookChainLength

\* mSourceBalance is below the reserve of the new owner count.
tecINSUFFICIENT_RESERVE ==
    /\ AllSlotsDone
    /\ Discard
    /\ UNCHANGED <<ledger, fault>>

----------------------------------------------------------------------------
(* The transaction is enacted.                                             *)

\* One unit for every hook and for every parameter and grant it has.
ReserveShort(chain) ==
    Cardinality({u \in (1..(maxHookChainLength - 1)) \X (0..MaxItems) :
        chain[u[1]] # NoHook /\ u[2] <= chain[u[1]].items})

computeHookReserve(chain) ==
    Cardinality({u \in Slots \X (0..MaxItems) :
        chain[u[1]] # NoHook /\ u[2] <= chain[u[1]].items})

newOwnerCount ==
    ownerCount[account] + computeHookReserve(newHooks)
                        - computeHookReserve(hooks[account])

EraseUnconditionally == keyletsToDestroy

\* A definition marked for destruction may have been taken up again since.
ErasedDefinitions == {h \in keyletsToDestroy \cap DOMAIN view : view[h].refCount = 0}

EnactDefinitions ==
    defs' = [h \in (DOMAIN defs \cup DOMAIN slesToInsert) \ ErasedDefinitions |->
                IF h \in DOMAIN slesToInsert THEN slesToInsert[h]
                ELSE IF h \in slesToUpdate THEN view[h]
                ELSE defs[h]]

FirstSlotBlank == newHooks[1] = NoHook
newHooksEmpty == \A i \in Slots : newHooks[i] = NoHook

Enact ==
    /\ EnactDefinitions
    /\ hooks' = [hooks EXCEPT ![account] = newHooks]
    /\ ownerCount' = [ownerCount EXCEPT ![account] = newOwnerCount]
    /\ UNCHANGED fault
    /\ Discard

deleteHookSLE ==
    /\ ownerNode[account] # Absent /\ newHooksEmpty
    /\ IF ownerNode[account] = dirPage[account]
       THEN /\ Enact
            /\ ownerNode' = [ownerNode EXCEPT ![account] = Absent]
            /\ dirPage' = [dirPage EXCEPT ![account] = Absent]
       ELSE /\ fault' = "tefBAD_LEDGER"
            /\ Discard
            /\ UNCHANGED ledger

\* The new ltHOOK is made from scratch: sfOwnerNode is left at its default.
updateHookSLE ==
    /\ ownerNode[account] # Absent /\ ~newHooksEmpty
    /\ Enact
    /\ ownerNode' = [ownerNode EXCEPT ![account] = 0]
    /\ UNCHANGED dirPage

\* dirInsert picks the page; the other objects of the account decide which.
createHookSLE ==
    /\ ownerNode[account] = Absent /\ ~newHooksEmpty
    /\ Enact
    /\ \E page \in OwnerPage :
        /\ ownerNode' = [ownerNode EXCEPT ![account] = page]
        /\ dirPage' = [dirPage EXCEPT ![account] = page]

tecDIR_FULL ==
    /\ AllSlotsDone /\ ownerNode[account] = Absent /\ ~newHooksEmpty
    /\ Discard
    /\ UNCHANGED <<ledger, fault>>

noHookSLE ==
    /\ ownerNode[account] = Absent /\ newHooksEmpty
    /\ Enact
    /\ UNCHANGED <<ownerNode, dirPage>>

EnactAll ==
    /\ AllSlotsDone
    /\ IF newOwnerCount < 0
       THEN /\ fault' = "tefINTERNAL"
            /\ Discard
            /\ UNCHANGED ledger
       ELSE deleteHookSLE \/ updateHookSLE \/ createHookSLE \/ noHookSLE

Operation ==
    \E o \in ValidObjects :
        \/ hsoNOOP(o) \/ hsoDELETE(o) \/ hsoUPDATE(o)
        \/ hsoCREATE(o) \/ hsoINSTALL(o)
        \/ tecREQUIRES_FLAG(o) \/ tecNO_ENTRY(o) \/ tecINTERNAL(o)

Next ==
    \/ \E a \in Account : setHook(a)
    \/ Operation
    \/ tecINSUFFICIENT_RESERVE \/ tecDIR_FULL
    \/ EnactAll

Spec == Init /\ [][Next]_vars

----------------------------------------------------------------------------
(* Properties.                                                             *)

Runs(hook, h) == hook # NoHook /\ hook.hash = h

\* The slots of all accounts that run the code with hash h.
UsersIn(chains, h) == {u \in Account \X Slots : Runs(chains[u[1]][u[2]], h)}
Users(h) == UsersIn(hooks, h)

\* sfReferenceCount of every definition is the number of slots, over all
\* accounts, that run it: whatever a transaction deletes, overrides and
\* installs in one go, in whatever order (SetHook.cpp reduceReferenceCount,
\* incrementReferenceCount, slesToUpdate).
RefCountExact ==
    \A h \in DOMAIN defs : defs[h].refCount = Cardinality(Users(h))

\* A definition is on the ledger exactly as long as some slot runs it: none is
\* erased under a hook that a later slot of the same transaction or another
\* account still uses, and none is left behind (keyletsToDestroy and the
\* second look at the count before the erase).
DefinitionsLive ==
    DOMAIN defs = {h \in Hash : Users(h) # {}}

\* The flags that instruct a transaction, hsfOVERRIDE and hsfNSDELETE, never
\* reach a ledger object, although an update stores the flags of its entry as they
\* are (SetHook.cpp:1389): what preflight and inferOperation let pass decides.
FlagsStripped ==
    /\ \A a \in Account, i \in Slots :
        hooks[a][i] # NoHook =>
            hooks[a][i].flags \in {Absent} \cup SUBSET LedgerFlags
    /\ \A h \in DOMAIN defs : defs[h].flags \subseteq LedgerFlags

\* A slot stores a namespace of its own only where it differs from the
\* definition's: this survives updates, overrides and the destruction and
\* re-creation of definitions with another namespace.
NamespaceNormal ==
    \A a \in Account, i \in Slots :
        hooks[a][i] # NoHook =>
            /\ hooks[a][i].hash \in DOMAIN defs
            /\ hooks[a][i].namespace # defs[hooks[a][i].hash].namespace

\* An account is billed for exactly the hooks, parameters and grants it has:
\* the deltas of all its transactions add up (SetHook.cpp:1617 "Owner reserve
\* is billed as follows").
ReserveExact ==
    \A a \in Account :
        LET Used == {i \in Slots : hooks[a][i] # NoHook}
            Items == {u \in Used \X (1..MaxItems) : u[2] <= hooks[a][u[1]].items}
        IN  ownerCount[a] = Cardinality(Used) + Cardinality(Items)

\* The owner directory lists an ltHOOK exactly while the account has a hook.
HookListed ==
    \A a \in Account :
        /\ ownerNode[a] = Absent <=> \A i \in Slots : hooks[a][i] = NoHook
        /\ ownerNode[a] = Absent <=> dirPage[a] = Absent

\* The owner count never leaves its range, so tefINTERNAL is never returned.
NoInternalError == fault # "tefINTERNAL"

\* The namespace and the flags a hook runs with.
Effective(a, i) ==
    IF hooks[a][i] = NoHook \/ hooks[a][i].hash \notin DOMAIN defs THEN NoHook
    ELSE LET h == hooks[a][i]
             d == defs[h.hash]
         IN  [hash |-> h.hash, items |-> h.items,
              namespace |-> IF h.namespace = Absent THEN d.namespace
                                                   ELSE h.namespace,
              flags |-> IF h.flags = Absent THEN d.flags ELSE h.flags]

\* A transaction of one account never changes what the hooks of another one
\* are or run with, although both share their definitions.
OthersUntouched ==
    [][\A a \in Account \ {account} : \A i \in Slots :
        Effective(a, i)' = Effective(a, i)]_vars

\* Deleting the last hook deletes the ltHOOK ("Either the account's ltHOOK is
\* deleted, updated or created", SetHook.cpp:1722).  An update has reset
\* sfOwnerNode, and the directory page it names does not list the ltHOOK.
NeverBadLedger == fault # "tefBAD_LEDGER"

=============================================================================
