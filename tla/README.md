# A verification development for xrpld-hooks

`xrpld-hooks` is the XRP Ledger server (`rippled`) extended with *Hooks*: small
WebAssembly programs that an account installs on the ledger and that run when a
transaction touches the account.  A hook may accept or reject the originating
transaction, keep state on the ledger and *emit* further transactions.  This
directory holds TLA+ models of the parts of the server that decide what the
ledger looks like after that, TLC runs that check them on small instances, and
TLAPS proofs of the results that hold for every instance.

All source paths below are relative to the repository root.

Contents: 1 inventory, 2 modules and how they correspond to the code, 3 runs,
4 where code and comments disagree, 5 proofs, 6 what is not modelled, 7 plan.

## 1. Inventory

### 1.1 The parts and their state

| Part | Source | State it owns |
|---|---|---|
| Paged directories | `src/ripple/ledger/impl/ApplyView.cpp` | pages (`sfIndexes`, `sfIndexNext`, `sfIndexPrevious`), page hints kept by the listed objects |
| Hook installation | `src/ripple/app/tx/impl/SetHook.cpp` | `ltHOOK` per account (chain of slots), `ltHOOK_DEFINITION` per code hash with `sfReferenceCount`, owner count, owner directory entry |
| Hook parameters | `SetHook.cpp` (`updateHookParameters`), `src/ripple/app/hook/impl/applyHook.cpp` (`hook_param`) | defaults in the definition, differences in the slot |
| Hook state | `applyHook.cpp` (`setHookState`, namespaces), `SetHook::destroyNamespace` | `ltHOOK_STATE` entries, `sfHookStateCount`, `sfHookNamespaces`, owner count, one directory per namespace |
| Hook state cache | `applyHook.cpp` (`lookup_state_cache`, `set_state_cache`, `finalizeHookState`) | `HookStateMap`: per account the reserve left and, per key, a modified flag and a value |
| Emitted transactions | `applyHook.cpp` (`emit`, `finalizeHookResult`, `removeEmissionEntry`), `src/ripple/app/misc/impl/TxQ.cpp` (`accept`), `src/ripple/app/tx/impl/Change.cpp` (`applyEmitFailure`) | the emitted directory, `SF_EMITTED` flags of the `HashRouter` |
| Transaction execution | `src/ripple/app/tx/impl/Transactor.cpp` | the apply view of one transaction, hook results, the again-as-weak map |
| Transactional stakeholders | `applyHook.cpp` (`getTransactionalStakeHolders`), `applyHook.h` (`TSHAllowances`) | none: who may run hooks on a transaction, and who may roll it back |
| Objects that hold XRP | `src/ripple/app/tx/impl/Escrow.cpp`, `PayChan.cpp`, `CreateCheck.cpp`, `CashCheck.cpp`, `CancelCheck.cpp`, `Payment.cpp` | balances, escrows, checks, payment channels, owner counts |
| Transaction invariants | `src/ripple/app/tx/impl/InvariantCheck.cpp` | none: totals before and after a transaction |
| Account deletion | `src/ripple/app/tx/impl/DeleteAccount.cpp` | what must be gone before an account goes |
| Open ledger and ledger building | `src/ripple/app/ledger/impl/OpenLedger.cpp`, `BuildLedger.cpp` | transactions carried from one open ledger to the next |
| Transaction queue | `src/ripple/app/misc/impl/TxQ.cpp` | queued transactions by fee and by account |
| Consensus, validations, ledger trie | `src/ripple/consensus`, `src/ripple/app/consensus` | positions, disputes, modes, last closed ledger |
| Negative UNL, amendments, fee votes | `src/ripple/app/misc`, `Change.cpp` | flag-ledger votes |
| Everything else | see `PROJECT.json` | networking, storage, RPC, payment engine and the other transactors |

### 1.2 Operations and interactions

* A **directory** lists objects (owner directory, one directory per state
  namespace, the emitted directory).  `dirInsert` and `dirAppend` return the page
  number, the object stores it, and `dirRemove` trusts it much later.
* **`ttHOOK_SET`** changes a chain of slots in one transaction: each slot may be
  created, installed, updated, deleted, left alone or have its namespace
  destroyed.  Code lives in definitions that all accounts share.
* **Every other transaction** runs the strong hooks of its stakeholders before it
  is applied, a callback if it was emitted, and the weak hooks at the end.  Each
  of the three has a state cache that `finalizeHookState` writes out.
* **An emission** becomes an entry of the emitted directory.  `TxQ::accept` puts
  it into the open ledger whose sequence is its `FirstLedgerSequence`, and an
  `EMIT_FAILURE` pseudo transaction after its `LastLedgerSequence`.  Consensus
  decides whether either gets into a ledger; applying it removes the entry.
* **Account deletion** asks whether hooks and namespaces are left.
* **Escrows, checks and channels** are created by one transaction and finished,
  cashed, claimed or cancelled by later ones of other accounts; who is a
  stakeholder of those is read from the object, before and after it is gone.

### 1.3 What is hard

One server applies the transactions of a ledger one after the other, so inside
the ledger the difficulty is not interleaving but *history*: counters, lists and
hints that one transaction leaves for others, a private view that is enacted or
dropped, caches that promise that a later write will succeed.  Between ledgers
it is concurrency: nodes that miss rounds, restart, carry transactions over and
disagree on what may be applied.  The hazards, each with the line where it bites
and the properties that guard it, are listed in `PROJECT.json`.

## 2. Modules

Each component module is a state machine (`Init`, one action per operation,
`Next`, `Spec`) with its properties at the end.  A definition that directly
precedes another with the same parameters and a telling name (`FirstFit`,
`EraseUnconditionally`, `ExpiredEarly`, ...) is a deliberately wrong variant:
`PROJECT.json` pairs them, and substituting it must break the named property.
`MC*` modules add symmetry sets and constants for TLC.

### 2.1 `Directory` (ApplyView.cpp)

State: `pages` (a function from page numbers to entries and the two links), the
page number each listed object stores (`ownerNode`) and, as history, the `stamp`
of its insertion.  Actions: inserting into a new root, into the last page and into a new page
(`dirAdd`), `dirRemove` with and without `keepRoot`, `emptyDirDelete`,
`dirDelete`.  Initial states include directories with an empty last page, which
the code says older versions left behind.  `LogicError` calls are a state the
model can reach and a property says it does not.

`EntrySet` is what callers rely on: a set of entries in which an operation on one
entry leaves the others alone.  `ImplementsEntrySet` says that `Directory`
implements it under the mapping that forgets pages, links and hints; it is checked
by a run and proved.

The order of entries *inside* a page is not modelled (it is the only difference
between `dirInsert` and `dirAppend`); removing finds the key wherever it is.

### 2.2 `SetHook` (SetHook.cpp)

State on the ledger: `hooks`, `defs`, `ownerCount`, `ownerNode` (the field of the
`ltHOOK`) and `dirPage` (where the directory really lists it).  State of the
transaction being applied: the slot reached, `newHooks`, the `view` of definitions
whose counts the loop changes in place, and the three collections
`slesToInsert`, `slesToUpdate`, `keyletsToDestroy`.  Each iteration of the slot
loop is one action named after the operation (`hsoCREATE`, `hsoINSTALL`, ...),
or one of the error results (`tecREQUIRES_FLAG`, ...).  `EnactAll` is everything
after the loop.  Entries are the ones `validateHookSetEntry` lets pass.

Abstractions: code is its hash; parameters and grants are a number, the one the
reserve depends on (`HookParameters` has their contents); `HookOn` is handled by
the code like the namespace and left out of the slots; the balance that pays the
reserve is arbitrary, so `tecINSUFFICIENT_RESERVE` may always happen; the loop
only records namespaces to destroy, their destruction is `HookState`'s.

### 2.3 `HookParameters` (SetHook.cpp 928-1066, applyHook.cpp)

One slot: the definition's defaults, the parameters stored in the slot and, as
history, what the account last asked for per name: a value, an empty value or no
value.  `Merged` is the merge of `updateHookParameters`, `hook_param` what the
hook reads.

### 2.4 `HookState` (applyHook.cpp, SetHook.cpp 739-925, Transactor.cpp, DeleteAccount.cpp)

State on the ledger: per account root its balance, owner count,
`sfHookStateCount`, `sfHookNamespaces`, whether it has hooks, and its entries.
State of the transaction: its phase (`strong`, `apply`, `callback`, `weak`,
`again`), the ledger a reset restores (`base`), the state map with its modified
flags and remaining reserve positions, which account's hook runs, and whether
`finalizeHookState` is writing.  `finalizeHookState` is one action per entry,
since it stops at the first failure and its result is ignored; it walks maps, so
the order is left open.  `Payment`, `AccountCreate`, `SetHook` and
`DeleteAccount` stand for what a transaction can do to the fields above.

The check of grants is skipped for an entry that is already modified in the
cache, as in the code.  Not modelled: `tecDIR_FULL` of a namespace directory, which
would take 262144 pages.
Owner count here is the part that hook state contributes.

### 2.5 `Emission` (applyHook.cpp, TxQ.cpp, Change.cpp, Transactor.cpp, OpenLedger, BuildLedger, RCLConsensus, NetworkOPs)

State of the network: sequence of the last closed and validated ledger, per
emission its entry (not there yet, pending, gone; window, generation, parent).
State per node: its last closed ledger, its open ledger, the transactions that
carry `SF_EMITTED` in its router, whether it restarted recently.  A round is
`CloseRound` (some nodes propose; what all propose is in, what no majority
proposes is out; the ledger is the one a majority of all nodes builds), then the
application of the set in any order, each transaction applied or left
(`ApplyEmitted`, `NotApplied`, `applyEmitFailure`), with `Origin` for hooks of
transactions that were not emitted, then `Accept`.  A node that missed rounds
does `switchLastClosedLedger`; `Restart` drops open ledger and router.

Abstractions: consensus is the vote above, its avalanche thresholds and time are
left out; a node that would build another ledger because it lacks flags counts
as having missed the round; one validated index for all nodes; at most one
emission per transaction; the expiry of router entries and ledger replay are left
out.  A first ledger that has passed is represented by the ledger being built:
neither is ever injected.  An `EMIT_FAILURE` is identified by the emission it
names; its real identifier includes the ledger sequence, but pseudo transactions
are never carried over, so no two of them meet.  The flag that `finalizeHookResult`
sets when it emits is covered by the flags that `TxQ::accept` sets for all
pending entries before the transaction can be proposed.

`EmissionFate` is the promise to the hook that emits, without nodes, rounds or open
ledgers: an emission is new, pending, applied (in a ledger of its window) or
failed (after it), and the last two are final.  `KeepsPromise` says that `Emission`
implements it; the fate of an emission is read off its entry.  An application
outside the directory (section 4, `emission_twice`) is a stutter of the promise: the
fate has been settled before.

The callback of an `EMIT_FAILURE` dereferences an entry that is no longer there
(section 4).  Its outcome is an exception that the caller catches, with no
effect, or the end of the process.  The ledger is built on a private copy, so in
the second case nothing but the node's memory is lost: a `Restart`.  The safety
results cover both; the liveness result assumes that it is not the second for ever.

### 2.6 `HookExec` (Transactor.cpp, applyHook.cpp, applySteps.cpp, InvariantCheck.cpp)

`Transactor::operator()` as a program counter over one transaction: `Submit`
(preclaim has answered), the strong hooks (`ExecuteHook` and `EndChain` for each
chain, `EndStrong`), `Apply`, `Settle` (which results keep the view, which reset it
and claim a fee), `CheckInvariants`, the callback (`EndCallback`), the weak hooks
(`EndWeak`), the hooks that asked to run again, and `Commit` with the late test of
the size.  `Return` starts the next transaction on the ledger this one left.

A hook may accept, roll back or fail, skip hooks of its chain and ask to run
again.  What it does to the ledger is a mark: each execution sets state and emits
one transaction, both named after the execution, so a property can say whose
effects survived.  A hook, a callback and the transaction itself cost one drop
each.  `getTransactionalStakeHolders` is complete in the sense that every type of
the table is in one of its classes (the parties are named by the transaction, read
from an object, or read from a token); it is computed twice, as in the code,
before and after `doApply`.

Abstractions: what hooks write and the reserve they need is `HookState`'s; when
emissions are applied is `Emission`'s.  The view's size is arbitrary, so is the
outcome of invariant checks other than the two about XRP.  Transactors outside
`XRPObjects` succeed or fail arbitrarily; crossing offers nominates an arbitrary
set of accounts.  `hook_param_set`, signatures, sequences and tickets are left out.

### 2.7 `XRPObjects` (Escrow.cpp, PayChan.cpp, CreateCheck.cpp, CashCheck.cpp, CancelCheck.cpp, Payment.cpp)

The bodies of `preclaim` and `doApply` of ten transactors as operators on the view
of `HookExec`: each returns the set of its possible outcomes, a result and the
view it leaves, partial effects included (a directory may be full after the
object was inserted; `reset` has to undo it).  Times are unsigned integers of a
given width; balances are drops.  There is at most one object of each kind, and
accounts exist throughout.  Crypto-conditions and claim signatures are Booleans.
Issued currencies, which this fork adds to escrows and channels, are left out.

## 3. Runs

`tlc -config X.cfg M` for each.  Deadlock is checked except where a bound on a
counter stops the model (`Directory`: insertions; `Emission`: ledgers); `HookExec`
has an explicit `Stop` once its bound on transactions is reached.

| Run | Shows | Instance |
|---|---|---|
| `directory` | ring of pages, hints, order, no `LogicError`; implements a set of entries | 5 keys, 2 per page, 4 pages, 7 insertions |
| `set_hook` | exact reference counts over both accounts, definitions live exactly while used, `ltHOOK` listed, owner count exact, instruction flags stay off the ledger, namespaces stored only where they differ, other accounts untouched | 2 accounts, 2 slots, 1 hash, 2 namespaces, no items |
| `hook_parameters` | the hook reads what was asked; nothing redundant, limit included | 3 names, 2 values, at most 2 parameters |
| `hook_state` | counters, namespace list, no orphans, reserve, limit of modifications; writes complete, reads see writes, ledger holds what was asked | 2 accounts, 2 namespaces, 1 key, two reserve positions, limit 1 |
| `emission` | one fate, failure once, flags known, chains end, applied in the window; implements the promise | 3 nodes, 2 emissions, span 2, 1 restart |
| `emission_leaves` | every entry leaves the directory | 3 nodes, 1 emission, span 2, lag 1, 1 restart |
| `hook_exec` | effects kept or dropped as a whole, no hook runs twice, stakeholders are heard, strong hooks are paid for, late results stay; drops conserved, owner counts exact, channels settle, deposits authorized | 3 accounts, 2 hooks, chains of up to 2 hooks, 2 transactions, times up to 4 |

**Why the bounds are enough to be interesting.**  Five keys at two per page make
a root and two or three further pages, so a page can empty first, in the middle
and last, next to an empty last page, and the page counter runs out.  Two slots
give release-then-reuse and create-then-install of a definition in one
transaction; two accounts share it, destroy it and create it again with the other
namespace.  A second hash or items for the slots are beyond the time of a run
together with the second account; all properties of `set_hook` are proved for any
number of them (section 5).  With a limit of one modification the third write of
a phase is refused, and four entries of two accounts are enough for it.  The
balance pays for two reserve positions of an account and leaves a rest, so the
last position and the rounding are both reached.  With
a span of two an emission can be injected late, miss its ledger, be carried over,
be applied in its last ledger or expire, and with generations below two a chain
of emissions reaches its limit.  `hook_exec` starts with every assignment of three
chains to three accounts: empty, one collecting hook, and a chain with a blank slot
and the same hash twice.  Its transactions have one of each way to nominate
stakeholders, an account nominated twice, and fees the originator can and cannot
pay.  Without hooks, two transactions follow each other, starting with no objects or
with one of each kind, and ledgers close in between: enough to create and finish, to
claim twice, to pass an expiration or a settle delay.  For the safety results
proved in section 5 the bounds are no restriction at all.

**Fairness.**  `FairSpec` of `Emission` assumes weak fairness of the steps of a
round (consensus runs on a timer in every node, and a ledger being built is built
to its end) and of validation.  Nothing is assumed of restarts, of nodes catching
up, or of the success of any transaction.  `EntriesLeave` needs no fairness of
`Origin` or `switchLastClosedLedger`: a majority that is on the last closed ledger
suffices, and `CloseRound` needs one to be enabled.  Restarts are bounded, and
`MaxSeq` leaves room for the longest window plus the ledgers that a cold majority
needs, so the bound on ledgers does not decide the result.

## 4. Where the code and its comments disagree

Each has a run that TLC must find violated; `PROJECT.json` quotes the sentence.

| Run | Property | In short |
|---|---|---|
| `set_hook_node` | `NeverBadLedger` | an update of an `ltHOOK` loses `sfOwnerNode`; deleting the hooks later fails with `tefBAD_LEDGER` unless they are listed in page 0 |
| `hook_state_collect` | `WritesNeverFail` | a fee charged to a weak chain takes the reserve an earlier weak chain relied on |
| `hook_state_owner` | `OwnerCountExact` | destroying a namespace leaves the owner count |
| `emission_twice` | `OutOfDirectory` | an emission can be applied again inside its window |
| `emission_failure_callback` | `CallbackFindsEntry` | the entry is erased before the callback reads it |

The two about emissions state an action property, and use the fair specification
so that a counterexample never rests on a network that simply stops.

Several smaller ones are visible in the models without a run of their own:
`emptyDirDelete` returns true without deleting when the root is empty and two or
more other pages exist (`ApplyView.h:370` says true means deleted); an update of a
slot without `sfFlags` drops the flags the slot had (`SetHook.cpp:1321` says that
the prior values are carried over); `emit` compares `LastLedgerSequence` with the
validated ledger and `FirstLedgerSequence` with nothing but the last, where its
rules (`applyHook.cpp:2883`, `2884`) say "current ledger".

The same holds for `HookExec` and `XRPObjects`:

* `TER.h` describes `tec` codes as "Claim fee only", but the test of the size at
  `Transactor.cpp:1769` turns an applied transaction into `tecOVERSIZE` without a reset,
  so its effects stay.  `AllOrNothing` states which results keep effects, with this one.
* `applyHook.h:25-28` says that the state map is "committed to lgr only upon
  tesSuccess for the otxn"; `Transactor.cpp:1765` writes the state of weak and
  repeated hooks whatever the result is.  `LateRunsStick` states what the code does.
* `Transactor.cpp:1581` says that weak hooks are executed "after doApply has been
  successful (callback as well)".  They also run after a reset, and since stakeholders are computed
  again from the view, nobody is nominated through an object that `doApply` removed.
* Escrows are looked up for stakeholders by `sfOwner` and `sfOfferSequence`; a
  transaction that names its escrow by `sfEscrowID` nominates nobody.
* `PayChanCreate` compares the balance before the fee with reserve and deposit; a
  fee above the reserve then leaves a negative balance in the view, and the
  invariant check is what stops it.  The mutant of `TypeOK` shows this.
* The time to settle is added in 32 bits and may wrap (`PayChan.cpp:546`, `816`);
  `ChannelSettles` is about times whose sum does not.

## 5. Proofs

`tlapm DirectoryProofs.tla`, and so on.  Every theorem is of the form
`Spec => []P` (or the action form) for all values of the constants that satisfy
the named assumptions of the component module (`DirectoryConstants`,
`SetHookAssumption`, ...): finite sets, natural bounds, distinct special values.

* **`DirectoryProofs`**: `TypeOK`, `Linked`, `HintsSound`, `NoLogicError`,
  `InsertionOrder`, `NothingOrphaned`.  The invariant adds to them
  that every page lists only objects that store its number and every object is
  found where its number says, and that all stamps lie in the past.  The ring
  is stated on the set of page numbers (`Chain`): unlinking one page, or a page
  and the empty last page after it, then leaves a ring on the smaller set.
  `DirectoryIsASet` is the refinement: each step on pages is one step on the set of
  entries, or none.
* **`SetHookProofs`**: all properties of the `set_hook` run, `TypeOK` and
  `NoInternalError` (the owner count never underflows).  Between
  transactions the two properties of counts are almost inductive; during one they
  need the connection between the working sets and a *virtual* set of users: the
  slots the loop has passed as they will be, the others as they are (`ViewInv`),
  and what is queued for insertion, update and destruction (`PendingInv`).
  Cardinalities of user sets change by one slot at a time, which two lemmas state.
  On top of that, `Billed` relates the owner count to the slots, `NameInv` says that
  the prepared slots, too, differ from the definition they will have, and
  `FlagInv` that neither ledger nor working sets have an instruction flag.
* **`HookParametersProofs`**: `ReadsWhatWasAsked`, `NothingRedundant`.  The invariant
  says that the slot stores, for every name, the value asked for exactly where it
  differs from the default (`Differences`).
* **`HookStateProofs`**: `TypeOK`, `CountsExact`, `NoOrphanState`, `ReserveCovered`,
  `NothingHalfWritten`, `ReadsSeeWrites`, `WrittenAsAsked`, `ModificationsBounded`.  The invariant holds for the ledger and for `base`
  alike (a reset returns to it); `Coherence` relates cache, history and ledger;
  `Reserved` says that an account can pay for all its unwritten creations plus
  the positions that the map says are left; `Bounded` counts the modified
  entries against `modified_entry_count`.
* **`EmissionProofs`**: `TypeOK`, `OneFate`, `FailsOnce`, `FlagsKnown`, `AppliedInWindow`,
  `ChainsEnd`.  The invariant says where an item can be: an emission in an
  open ledger, in the round or in the set being built has been injected, so its
  first ledger is not ahead; an `EMIT_FAILURE` exists only after the window
  (`Positions`, `Building`), and so an entry that is gone was applied inside the
  window or failed after it (`Fate`).
  `NodesKeepPromise` is the refinement of `EmissionFate`: `emit`
  checks windows against the validated ledger and the promise against the last closed
  one, so the invariant adds `valid <= seq`.  For `ChainsEnd` (`DescentEnds`) the invariant
  is `Descends`: an emission is one generation after the one it answers, which stays on
  record, so its depth is its generation, and `emit` bounds that.
* **`XRPObjectsProofs`**: `DoApplyLawful`, what every outcome of the ten transactors of
  `XRPObjects` does to a view that `preclaim` let pass (`Applicable`).  `Lawful` says
  it: whatever the result, the marks of the hooks and the parties of an object stay;
  on success the worth of the view is the same, owner counts are exact (`Exact`), no
  channel has paid more than its amount (`Sound`), and deposits and the channel obey
  what `DepositsAuthorized` and `ChannelSettles` say.  There is one step for each
  transactor, on top of what creating, writing, removing and releasing an object do to
  a view.  The channel transactions change their view in stages, so an intermediate
  predicate (`Touched`) says what has happened so far.
* **`HookExecInvariant`**: `TypeOK`, `OwnerCountExact`, `ApplyConserves`, and the action
  properties `DropsConserved`, `ChannelSettles`, `DepositsAuthorized`.  They are about
  the ledger, which only `Commit` and `Return` write, but what `Commit` writes was
  prepared many steps earlier.  `LedgerInv` therefore says for each phase what the view
  and the fee owe to the ledger (`Phases`): while the strong hooks run the view is the
  ledger; before `doApply` it differs in marks only; after a success it may follow the
  ledger (`Follows`) and is worth the ledger less the fee; after a failure nothing is
  known until the reset, which starts again from the ledger; past the invariant checks
  no balance is negative.  That is why a view with a negative balance never gets
  further.
* **`HookExecProofs`**: `AllOrNothing`, `LateRunsStick`, `RunOnce`, `StakeholdersHeard`,
  `StrongHooksPaid`, each with an invariant that is inductive given `LedgerInv`.
  `MarkInv` follows the results of the hooks from `pending` into the view and from the view
  into the ledger.  `RunInv` says that the chains of a pass are different accounts, that
  everything executed in it is behind the slot it has come to, and that an account in a
  strong list is in no weak one; the last is not obvious, since the weak list is computed
  from the view after `doApply`, in which an object may be gone, and rests on the parties
  of an object never changing.  `HeardInv` says that as long as no hook has rolled back a
  strong stakeholder was heard or waits.  `PaidInv` says that every execution is of
  a slot that `calculateBaseFee` counted.

Totals over accounts and objects are folds over finite sets.  The theorems about
induction over finite sets take an operator, which the provers cannot instantiate;
`XRPObjectsProofs` therefore proves the laws it needs (a change of one value shows in the
sum in full, the order does not matter, the sum of a difference) by taking a smallest
set that breaks the law (`SmallestSet`), from the recursion a fold unfolds to.  What
`HookExec` computes of stakeholders is written with sets and functions for the same
reason: `InOrder` chooses the list in the order of nomination, and `InOrderIs` proves that
there is one.  `HookExecAssumption` and `XRPObjectsAssumption` say what the constants are:
finitely many accounts, chains of finite length, transactions whose amounts and times are
natural numbers and which name a destination where the format requires one, and initial
objects that have not paid more than they hold.

**Only model-checked**: `EntriesLeave`, which is liveness under fairness and out of the
prover's reach.  The properties of section 4 are violated, and TLC shows how.  All other
properties of the runs are proved for every instance.

## 6. What is not modelled

`PROJECT.json` lists every component with its status.  In short: the WebAssembly
engine and the hook API without ledger effects, byte-level validation of code,
burden and metadata sizes, the transaction queue apart from emissions, the
inside of consensus, storage, networking and RPC, and the transactors that neither
hold XRP nor have to do with hooks.

Three of these have been considered and put off for a reason.  The layered views
(`ApplyStateTable`, `OpenView`) would be a refinement of one map, which every model here
assumes.  `LedgerTrie` and `Validations` are independent of hooks.  The transaction
queue meets hooks only through emissions, whose own path through `TxQ::accept` is
modelled.

## 7. Plan

In this order; each step is a module with its runs, then its theorems.

1. **Composition of `HookExec` with `HookState`**: the marks of `HookExec` replaced by the
   cache, so that a reservation made by a strong hook meets a fee charged later.
   `hook_param_set` belongs here.
2. **Contracts**: an abstract hook state (a map) that `HookState` implements between
   transactions; a view layer (`ApplyStateTable`) that implements one map.
3. **Issued currencies** in escrows and channels: locked balances on trust lines.
4. **`TxQ`**: queue per account, blockers, retries, limits, fee order.
5. **`LedgerTrie` and `Validations`**: supports of the compressed trie against
   their definition on sets of validations; the preferred branch.
6. **`Consensus`**: phases, positions, disputes with thresholds, bow-outs; an
   abstract round that it implements and that replaces the vote in `Emission`.
7. **Flag-ledger votes**: `AmendmentTable`, `NegativeUNLVote`.
8. **Other objects with a life cycle**: tickets, token pages.
9. **Pure algorithms**: the floating point format of hooks (XFL) and the guard
   checker's execution count against reference definitions.
