------------------------------ MODULE HookExec ------------------------------
(***************************************************************************)
(* Transactor::operator(): how a transaction runs the hooks of its         *)
(* stakeholders around its own application, one transaction after another. *)
(*                                                                         *)
(* The strong hooks run first, the originator's chain and then those of    *)
(* the stakeholders that may roll back; then the transaction is applied in *)
(* a view; a failure resets the view and claims a fee; invariants are      *)
(* checked; then the callback, the weak hooks and the hooks that asked to  *)
(* run again follow, and the view becomes the ledger.                      *)
(*                                                                         *)
(* What a hook does to the ledger is abstracted to a mark: every hook sets *)
(* state and emits a transaction, each marked with its execution.  A hook  *)
(* costs one drop, and so do the transaction itself and a callback.  What  *)
(* the transactors of XRPObjects do is exact; the others are abstracted.   *)
(***************************************************************************)
EXTENDS XRPObjects, Functions

CONSTANTS
    Chain,          \* the hook chains: sequences of slots [hash, hookOn, collect]
    Blank,          \* a slot without a hook
    Callback,       \* hashes of the definitions that have a cbak function
    TshCollect,     \* accounts with lsfTshCollect
    Tx,             \* the transactions
    Start,          \* initial balances and objects
    MaxTransactions, MaxTime

VARIABLES
    now,                \* parentCloseTime
    count,              \* transactions so far
    ledger,             \* what the next transaction sees
    view,               \* the apply view of this transaction
    tx, fee,            \* the transaction, the fee it is charged
    pc, result, applied,
    pass, chains, pos,  \* the pass, its chains (the first one runs), the last slot run
    hookSkips,          \* hashes that the running chain skips
    pending,            \* executions of this pass whose results are not written yet
    aawMap,             \* <<account, hash>> that asked to run again as weak
    additionalWeakTSH,  \* accounts that doApply nominated
    hookLog             \* the executions, in order

\* A channel has paid no more than its amount; an escrow pays all at once.
Sound(object) ==
    \A k \in Kind : object[k] # None =>
        object[k].balance <= object[k].amount /\ (k = "escrow" => object[k].balance = 0)

ASSUME HookExecAssumption ==
    /\ \A c \in Chain : Len(c) \in Nat /\ DOMAIN c = 1 .. Len(c)
    /\ None \notin Tx
    /\ \A t \in Tx :
        /\ t.account \in Account /\ t.parties \in Seq(Account) /\ t.callback \in Account \cup {None}
        /\ t.fee \in Nat /\ t.amount \in Nat /\ t.balance \in Nat
        /\ t.finishAfter \in Nat /\ t.cancelAfter \in Nat /\ t.expiration \in Nat
        /\ t.condition \in BOOLEAN /\ t.emitted \in BOOLEAN /\ t.open \in BOOLEAN
        /\ t.type \in CreatesObject \cup {"ttPAYMENT"} => t.parties # <<>>
    /\ \A s \in Start : s.balance \in [Account -> Nat] /\ s.object \in [Kind -> Object \cup {None}]
                        /\ Sound(s.object)

passVars == <<pass, chains, pos, hookSkips>>
vars == <<now, count, ledger, view, tx, fee, pc, result, applied, passVars, pending, aawMap,
          additionalWeakTSH, hookLog>>

Pass == {"strong", "callback", "weak", "again"}
Run == [pass : Pass, account : Account, pos : Nat]

isTecClaim(r) == r \in {"tec", "tecKILLED", "tecEXPIRED", "tecHOOK_REJECTED",
                        "tecOVERSIZE", "tecINVARIANT_FAILED"}
isTecClaimHardFail(r, t) == isTecClaim(r) /\ ~t.tapRETRY

\* The part of a ledger that matters here: "token" says that the token or offer
\* that the transaction names exists, "emittedTxn" that the entry of an emitted
\* transaction does; "done", "state" and "emissions" mark what this transaction did.
View(Drops) ==
    [balance : [Account -> Drops], dropsDestroyed : Nat, hooks : [Account -> Chain],
     ownerCount : [Account -> Nat], object : [Kind -> Object \cup {None}],
     token : BOOLEAN, emittedTxn : BOOLEAN, done : BOOLEAN,
     state : SUBSET Run, emissions : SUBSET Run]

Owned(object, a) == {k \in Kind : object[k] # None /\ object[k].owner = a}

Init ==
    /\ now = 1 /\ count = 0
    /\ \E s \in Start, hooks \in [Account -> Chain] :
        ledger = [balance |-> s.balance, dropsDestroyed |-> 0, hooks |-> hooks,
                  ownerCount |-> [a \in Account |-> Cardinality(Owned(s.object, a))],
                  object |-> s.object, token |-> TRUE, emittedTxn |-> TRUE,
                  done |-> FALSE, state |-> {}, emissions |-> {}]
    /\ view = ledger
    /\ tx = None /\ fee = 0 /\ pc = "idle" /\ result = "tesSUCCESS" /\ applied = FALSE
    /\ pass = "strong" /\ chains = <<>> /\ pos = 0 /\ hookSkips = {}
    /\ pending = {} /\ aawMap = {} /\ additionalWeakTSH = {} /\ hookLog = <<>>

----------------------------------------------------------------------------
(* Stakeholders and fees.                                                  *)

\* TSHAllowances: the types whose ordinary stakeholders may roll back.
tshROLLBACK ==
    {"ttPAYMENT", "ttESCROW_CREATE", "ttESCROW_FINISH", "ttREGULAR_KEY_SET",
     "ttSIGNER_LIST_SET", "ttPAYCHAN_CREATE", "ttCHECK_CREATE", "ttCHECK_CASH",
     "ttDEPOSIT_PREAUTH", "ttACCOUNT_DELETE", "ttNFTOKEN_MINT",
     "ttNFTOKEN_CREATE_OFFER", "ttNFTOKEN_ACCEPT_OFFER", "ttINVOKE"}

\* Types whose stakeholders the transaction itself names.
NamesParties ==
    {"ttPAYMENT", "ttESCROW_CREATE", "ttCHECK_CREATE", "ttACCOUNT_DELETE",
     "ttPAYCHAN_CREATE", "ttINVOKE", "ttTRUST_SET", "ttREGULAR_KEY_SET",
     "ttDEPOSIT_PREAUTH", "ttNFTOKEN_MINT", "ttSIGNER_LIST_SET"}
\* Types whose stakeholders are read from an object: its owner may always roll back.
ReadsObject ==
    {"ttESCROW_FINISH", "ttESCROW_CANCEL", "ttPAYCHAN_FUND", "ttPAYCHAN_CLAIM",
     "ttCHECK_CASH", "ttCHECK_CANCEL"}
\* Types about a token, whose issuer comes first and may roll back if the token says so.
ReadsToken == {"ttNFTOKEN_BURN", "ttNFTOKEN_CREATE_OFFER", "ttNFTOKEN_ACCEPT_OFFER"}

\* Whether the i-th party of a transaction may roll it back.
canRollback(t, i) ==
    CASE t.type \in ReadsObject /\ i = 1 -> TRUE
      [] t.type \in ReadsToken /\ i = 1 -> t.tfStrongTSH
      [] OTHER -> t.type \in tshROLLBACK

\* The accounts nominated, in order.  The object types find nobody once it is gone.
Nominated(v, t) ==
    LET o == v.object[kindOf(t)]
    IN  CASE t.type \in NamesParties -> t.parties
          [] t.type \in ReadsObject /\ o # None -> <<o.owner, o.dest>>
          [] t.type \in ReadsToken \cup {"ttNFTOKEN_CANCEL_OFFER"} /\ v.token -> t.parties
          [] OTHER -> <<>>

\* (As if the right to roll back came from the first nomination only.)
FirstNominationOnly(v, t) ==
    LET noms == Nominated(v, t)
    IN  [a \in Range(noms) \ {t.account} |->
            canRollback(t, Min({i \in DOMAIN noms : noms[i] = a}))]

\* ADD_TSH: the accounts nominated, never the originator, and whether any of its
\* nominations gives one the right to roll back.
getTransactionalStakeHolders(v, t) ==
    LET noms == Nominated(v, t)
    IN  [a \in Range(noms) \ {t.account} |->
            \E i \in DOMAIN noms : noms[i] = a /\ canRollback(t, i)]

\* The stakeholders that doTSH(strong) runs.
TSH(v, t, strong) ==
    LET tsh == getTransactionalStakeHolders(v, t)
    IN  {a \in DOMAIN tsh : tsh[a] = strong}

\* The ways to list a set; in the order of first nomination; in the order of the
\* IDs, which may be any.
Lists(accounts) == Injection(1 .. Cardinality(accounts), accounts)
InOrder(noms, accounts) ==
    LET place(a) == Min({i \in DOMAIN noms : noms[i] = a})
    IN  CHOOSE s \in Lists(accounts) :
            \A i, j \in DOMAIN s : i < j => place(s[i]) < place(s[j])
AnyOrder(accounts) == CHOOSE s \in Lists(accounts) : TRUE

\* The slots of a chain that may fire.
CanFire(v, t, a, collectCallsOnly) ==
    {i \in DOMAIN v.hooks[a] :
        LET s == v.hooks[a][i]
        IN  s # Blank /\ t.type \in s.hookOn /\ (collectCallsOnly => s.collect)}

calculateHookChainFee(v, t, a, collectCallsOnly) == Cardinality(CanFire(v, t, a, collectCallsOnly))

\* The definition an emitted transaction names exists (some chain has it) and has
\* a callback fee.
hasCallback(v, t) ==
    /\ t.hookHash \in Callback
    /\ \E a \in Account : \E i \in DOMAIN v.hooks[a] :
            v.hooks[a][i] # Blank /\ v.hooks[a][i].hash = t.hookHash

\* (As if only the originator's chain were paid for.)
OriginatorsFee(v, t) ==
    1 + IF ~t.emitted THEN calculateHookChainFee(v, t, t.account, FALSE)
        ELSE IF hasCallback(v, t) THEN 1 ELSE 0

calculateBaseFee(v, t) ==
    LET ChainFee(a) == calculateHookChainFee(v, t, a, FALSE)
    IN  1 + (IF ~t.emitted THEN ChainFee(t.account) ELSE IF hasCallback(v, t) THEN 1 ELSE 0)
          + SumFunction([a \in TSH(v, t, TRUE) |-> ChainFee(a)])

----------------------------------------------------------------------------
(* Running chains.                                                         *)

Begin(p, accounts) ==
    pass' = p /\ chains' = accounts /\ pos' = 0 /\ hookSkips' = {}

\* The slots that the pass runs on an account: executeHookChain for the strong and
\* the weak one, doHookCallback, doAgainAsWeak.
Runs(a, i) ==
    LET s == view.hooks[a][i]
    IN  /\ s # Blank
        /\ CASE pass = "strong"   -> tx.type \in s.hookOn /\ s.hash \notin hookSkips
             [] pass = "weak"     -> tx.type \in s.hookOn /\ s.hash \notin hookSkips /\ s.collect
             [] pass = "callback" -> s.hash = tx.hookHash
             [] pass = "again"    -> <<a, s.hash>> \in aawMap

Remaining(a) == {i \in DOMAIN view.hooks[a] : i > pos /\ Runs(a, i)}

\* finalizeHookState and finalizeHookResult of a set of executions.
Finalize(v, runs, writeState, doEmit) ==
    [v EXCEPT !.state = IF writeState THEN @ \cup runs ELSE @,
              !.emissions = IF doEmit /\ ~tx.open THEN @ \cup runs ELSE @]

\* hook::apply of the next slot.  It may accept, roll back or fail; it may skip
\* hooks of its chain (hook_skip) and, when strong, ask to run again (hook_again).
ExecuteHook(exit, skips, again) ==
    LET a == Head(chains)
        i == Min(Remaining(a))
        run == [pass |-> pass, account |-> a, pos |-> i]
        hash == view.hooks[a][i].hash
    IN  /\ pc = "run" /\ chains # <<>> /\ Remaining(a) # {}
        /\ \A h \in skips : \E j \in DOMAIN view.hooks[a] :
                view.hooks[a][j] # Blank /\ view.hooks[a][j].hash = h
        /\ again => pass = "strong"
        /\ hookLog' = Append(hookLog, run)
        /\ aawMap' = IF again THEN aawMap \cup {<<a, hash>>} ELSE aawMap
        /\ IF pass = "callback"
           THEN /\ view' = Finalize(view, {run}, exit = "ACCEPT", exit = "ACCEPT")
                /\ UNCHANGED pending
           ELSE /\ pending' = pending \cup {run}
                /\ UNCHANGED view
        /\ IF pass \in {"callback", "again"} \/ exit = "ACCEPT"
           THEN /\ pos' = i /\ hookSkips' = hookSkips \cup skips
                /\ UNCHANGED <<chains, result>>
           ELSE /\ chains' = IF pass = "strong" THEN <<>> ELSE Tail(chains)
                /\ pos' = 0 /\ hookSkips' = {}
                /\ result' = IF pass = "weak" THEN result
                             ELSE IF exit = "WASM_ERROR" THEN "temMALFORMED"
                             ELSE "tecHOOK_REJECTED"
        /\ UNCHANGED <<now, count, ledger, tx, fee, pc, applied, pass, additionalWeakTSH>>

EndChain ==
    /\ pc = "run" /\ chains # <<>> /\ Remaining(Head(chains)) = {}
    /\ Begin(pass, Tail(chains))
    /\ UNCHANGED <<now, count, ledger, view, tx, fee, pc, result, applied, pending, aawMap,
                   additionalWeakTSH, hookLog>>

----------------------------------------------------------------------------
(* Transactor::operator().                                                 *)

\* What preclaim may answer; the fee is checked before the transactor's own part.
Preclaim(t) ==
    IF t.fee > 0 /\ ledger.balance[t.account] < t.fee THEN {"tec"}
    ELSE IF MovesXRP(t) THEN {preclaim(ledger, t, now)}
    ELSE {"tesSUCCESS", "tec"}

\* A transaction that preclaim lets through: in an open ledger it pays for itself
\* and the strong hooks; a failure goes on only if it claims a fee.
\* (Bound: one object of a kind.)
Submit(t) ==
    LET balance == ledger.balance[t.account]
    IN  /\ pc = "idle"
        /\ t.type \in CreatesObject => ledger.object[kindOf(t)] = None
        /\ t.open => t.fee >= calculateBaseFee(ledger, t) /\ balance >= t.fee
        /\ balance < t.fee => balance > 0
        /\ result' \in Preclaim(t)
        /\ result' # "tesSUCCESS" => isTecClaimHardFail(result', t)
        /\ tx' = t /\ fee' = t.fee /\ count' = count + 1
        /\ IF result' = "tesSUCCESS"
           THEN /\ pc' = "run"
                /\ Begin("strong", (IF t.emitted THEN <<>> ELSE <<t.account>>)
                                    \o InOrder(Nominated(ledger, t), TSH(ledger, t, TRUE)))
           ELSE pc' = "settle" /\ UNCHANGED passVars
        /\ UNCHANGED <<now, ledger, view, applied, pending, aawMap, additionalWeakTSH, hookLog>>

\* State and emissions of the strong hooks are written if no chain failed.
EndStrong ==
    /\ pc = "run" /\ pass = "strong" /\ chains = <<>>
    /\ view' = Finalize(view, pending, result = "tesSUCCESS", result = "tesSUCCESS")
    /\ pending' = {}
    /\ pc' = IF result = "tesSUCCESS" THEN "apply" ELSE "settle"
    /\ UNCHANGED <<now, count, ledger, tx, fee, result, applied, passVars, aawMap, additionalWeakTSH, hookLog>>

\* Types that remove the token or the offer when they succeed.
RemovesToken == {"ttNFTOKEN_BURN", "ttNFTOKEN_CANCEL_OFFER", "ttNFTOKEN_ACCEPT_OFFER"}

\* What the transactors outside XRPObjects may do, as far as it matters here.
otherApply(v, t) ==
    [ter : {"tesSUCCESS", "tec", "tef"}
            \cup (IF t.type = "ttOFFER_CREATE" THEN {"tecKILLED"} ELSE {})
            \cup (IF t.type = "ttNFTOKEN_ACCEPT_OFFER" THEN {"tecEXPIRED"} ELSE {}),
     view : {[v EXCEPT !.token = t.type \notin RemovesToken, !.hooks[t.account] = chain] :
                chain \in IF t.type = "ttHOOK_SET" THEN Chain ELSE {v.hooks[t.account]}}]

\* Crossing offers, and paths through them, nominate the accounts they touch.
CrossesOffers(t) == t.type = "ttOFFER_CREATE" \/ (t.type = "ttPAYMENT" /\ t.bRipple)

\* apply(): the fee is taken and doApply does its work, or part of it, in the view.
Apply(weakTSH) ==
    LET paid == [view EXCEPT !.balance[tx.account] = @ - tx.fee, !.done = TRUE]
    IN  /\ pc = "apply"
        /\ weakTSH # {} => CrossesOffers(tx)
        /\ \E o \in IF MovesXRP(tx) THEN doApply(paid, tx, now) ELSE otherApply(paid, tx) :
              view' = o.view /\ result' = o.ter
        /\ additionalWeakTSH' = weakTSH
        /\ pc' = "settle"
        /\ UNCHANGED <<now, count, ledger, tx, fee, applied, passVars, pending, aawMap, hookLog>>

\* reset(): the view starts again from the ledger; the fee is what can be paid.
resetFee(f) == Min({f, ledger.balance[tx.account]})
\* (As if the state that hooks set were carried over, as their metadata is.)
resetKeepsState(f) == [ledger EXCEPT !.balance[tx.account] = @ - resetFee(f),
                                     !.state = view.state]
resetView(f) == [ledger EXCEPT !.balance[tx.account] = @ - resetFee(f)]

\* A result that claims a fee discards what was done; a large view is one of them.
Settle(oversize) ==
    LET r == IF oversize THEN "tecOVERSIZE" ELSE result
        hard == isTecClaim(r) /\ tx.tapFAIL_HARD
        claims == \/ r \in {"tecOVERSIZE", "tecKILLED", "tecEXPIRED"}
                  \/ isTecClaimHardFail(r, tx)
    IN  /\ pc = "settle"
        /\ oversize => view.done
        /\ result' = r
        /\ applied' = (~hard /\ (claims \/ r = "tesSUCCESS"))
        /\ pc' = IF applied' THEN "invariants" ELSE "over"
        /\ IF hard THEN view' = ledger /\ fee' = fee
           ELSE IF claims
           THEN /\ fee' = resetFee(fee)
                /\ view' = [resetView(fee) EXCEPT !.token = @ /\ (r = "tecEXPIRED" => view.token)]
           ELSE UNCHANGED <<view, fee>>
        /\ UNCHANGED <<now, count, ledger, tx, passVars, pending, aawMap, additionalWeakTSH, hookLog>>

\* Drops are with the accounts, in the objects, or destroyed.
Worth(v) ==
    SumFunction(v.balance) + SumFunction([k \in Kind |-> Held(v, k)]) + v.dropsDestroyed

\* (As if balances were not looked at.)
OnlyNotCreated(v, charged) == Worth(v) + charged = Worth(ledger)
\* XRPBalanceChecks and XRPNotCreated; the other checks may fail or not.
InvariantsHold(v, charged) ==
    /\ \A a \in Account : v.balance[a] >= 0
    /\ Worth(v) + charged = Worth(ledger)

\* checkInvariants, again after a reset if it fails; then the callback starts.
CheckInvariants(failures) ==
    /\ pc = "invariants"
    /\ failures = 0 => InvariantsHold(view, fee)
    /\ failures = 1 => InvariantsHold(resetView(fee), resetFee(fee))
    /\ result' = CASE failures = 0 -> result
                   [] failures = 1 -> "tecINVARIANT_FAILED"
                   [] failures = 2 -> "tefINVARIANT_FAILED"
    /\ applied' = (failures < 2)
    /\ IF failures = 0 THEN UNCHANGED <<view, fee>>
       ELSE view' = resetView(fee) /\ fee' = resetFee(fee)
    /\ IF applied'
       THEN /\ pc' = "run"
            /\ Begin("callback", IF tx.emitted /\ tx.callback # None /\ hasCallback(view', tx)
                                 THEN <<tx.callback>> ELSE <<>>)
       ELSE pc' = "over" /\ UNCHANGED passVars
    /\ UNCHANGED <<now, count, ledger, tx, pending, aawMap, additionalWeakTSH, hookLog>>

\* (As if nobody kept track of the accounts processed.)
AllNominatedWeak == TSH(view, tx, FALSE) \cup (additionalWeakTSH \ {tx.account})

\* doTSH(weak): stakeholders are computed anew, from the view after doApply; to
\* them come those that doApply nominated.
WeakTSH ==
    TSH(view, tx, FALSE) \cup
        (additionalWeakTSH \ (DOMAIN getTransactionalStakeHolders(view, tx) \cup {tx.account}))

\* A weak chain is run if its account collects and can pay above its reserve.
PaysForWeak(a) ==
    LET due == calculateHookChainFee(view, tx, a, TRUE)
    IN  due > 0 /\ a \in TshCollect /\ due + accountReserve(view.ownerCount[a]) <= view.balance[a]

\* After the callback the emission entry goes, and the weak chains start.  Each
\* pays before it runs; hooks change no balance, so all are charged here.
EndCallback ==
    LET noms == Nominated(view, tx)
        weak == {a \in WeakTSH : PaysForWeak(a)}
        due == [a \in Account |-> IF a \in weak THEN calculateHookChainFee(view, tx, a, TRUE) ELSE 0]
    IN  /\ pc = "run" /\ pass = "callback" /\ chains = <<>>
        /\ view' = [view EXCEPT !.emittedTxn = @ /\ ~tx.emitted,
                                !.balance = [a \in Account |-> @[a] - due[a]],
                                !.dropsDestroyed = @ + SumFunction(due)]
        /\ Begin("weak", InOrder(noms, weak \cap Range(noms)) \o AnyOrder(weak \ Range(noms)))
        /\ UNCHANGED <<now, count, ledger, tx, fee, pc, result, applied, pending, aawMap,
                       additionalWeakTSH, hookLog>>

\* The hooks that asked for it run again, account by account.
EndWeak ==
    /\ pc = "run" /\ pass = "weak" /\ chains = <<>>
    /\ Begin("again", AnyOrder({e[1] : e \in aawMap}))
    /\ UNCHANGED <<now, count, ledger, view, tx, fee, pc, result, applied, pending, aawMap,
                   additionalWeakTSH, hookLog>>

\* (As if the late hooks wrote their state only for a transaction that succeeded.)
CommitOnSuccess(oversize) ==
    LET final == Finalize(view, pending, result = "tesSUCCESS", result = "tesSUCCESS")
    IN  /\ pc = "run" /\ pass = "again" /\ chains = <<>>
        /\ ~oversize
        /\ view' = [final EXCEPT !.dropsDestroyed = IF tx.open THEN @ ELSE @ + fee]
        /\ ledger' = view'
        /\ pending' = {} /\ pc' = "over"
        /\ UNCHANGED <<now, count, result, tx, fee, applied, passVars, aawMap, additionalWeakTSH, hookLog>>

\* (As if the fee that the transaction names were destroyed, not the one charged.)
CommitNamedFee(oversize) ==
    LET final == Finalize(view, pending, TRUE, result = "tesSUCCESS")
    IN  /\ pc = "run" /\ pass = "again" /\ chains = <<>>
        /\ ~oversize
        /\ view' = [final EXCEPT !.dropsDestroyed = IF tx.open THEN @ ELSE @ + tx.fee]
        /\ ledger' = view'
        /\ pending' = {} /\ pc' = "over"
        /\ UNCHANGED <<now, count, result, tx, fee, applied, passVars, aawMap, additionalWeakTSH, hookLog>>

\* Results of the weak and the repeated hooks are written, the size is tested once
\* more, the fee is destroyed in a closed ledger, and the view is applied.
Commit(oversize) ==
    LET final == Finalize(view, pending, TRUE, result = "tesSUCCESS")
    IN  /\ pc = "run" /\ pass = "again" /\ chains = <<>>
        /\ oversize => tx.emitted \/ \E i \in DOMAIN hookLog : hookLog[i].pass # "strong"
        /\ result' = IF oversize THEN "tecOVERSIZE" ELSE result
        /\ view' = [final EXCEPT !.dropsDestroyed = IF tx.open THEN @ ELSE @ + fee]
        /\ ledger' = view'
        /\ pending' = {} /\ pc' = "over"
        /\ UNCHANGED <<now, count, tx, fee, applied, passVars, aawMap, additionalWeakTSH, hookLog>>

\* (Bound: MaxTransactions, and none after one that runs or installs a hook.)
NoMore == count = MaxTransactions \/ hookLog # <<>> \/ \E a \in Account : ledger.hooks[a] # <<>>

\* The next transaction starts from the ledger this one left, with its own marks
\* and its own emission entry.
Return ==
    /\ pc = "over" /\ ~NoMore
    /\ ledger' = [ledger EXCEPT !.done = FALSE, !.state = {}, !.emissions = {},
                              !.emittedTxn = TRUE]
    /\ view' = ledger'
    /\ tx' = None /\ fee' = 0 /\ pc' = "idle" /\ result' = "tesSUCCESS" /\ applied' = FALSE
    /\ Begin("strong", <<>>)
    /\ pending' = {} /\ aawMap' = {} /\ additionalWeakTSH' = {} /\ hookLog' = <<>>
    /\ UNCHANGED <<now, count>>

Stop == pc = "over" /\ NoMore /\ UNCHANGED vars

\* A ledger closes.
CloseLedger ==
    /\ pc = "idle" /\ count > 0 /\ now < MaxTime /\ now' = now + 1
    /\ UNCHANGED <<count, ledger, view, tx, fee, pc, result, applied, passVars, pending, aawMap,
                   additionalWeakTSH, hookLog>>

Hashes == {s.hash : s \in (UNION {Range(c) : c \in Chain}) \ {Blank}}

Next ==
    \/ \E t \in Tx : Submit(t)
    \/ \E exit \in {"ACCEPT", "ROLLBACK", "WASM_ERROR"}, skips \in SUBSET Hashes,
          again \in BOOLEAN : ExecuteHook(exit, skips, again)
    \/ EndChain
    \/ EndStrong
    \/ \E weakTSH \in SUBSET Account : Apply(weakTSH)
    \/ \E oversize \in BOOLEAN : Settle(oversize)
    \/ \E failures \in 0 .. 2 : CheckInvariants(failures)
    \/ EndCallback
    \/ EndWeak
    \/ \E oversize \in BOOLEAN : Commit(oversize)
    \/ Return
    \/ Stop
    \/ CloseLedger

Spec == Init /\ [][Next]_vars

----------------------------------------------------------------------------
(* Properties.                                                             *)

\* The executions of some passes so far.
Executed(passes) == {r \in Range(hookLog) : r.pass \in passes}

\* The variables have their types; in particular no balance is ever negative.
TypeOK ==
    /\ now \in Nat /\ count \in Nat /\ ledger \in View(Nat) /\ view \in View(Int)
    /\ tx \in Tx \cup {None} /\ fee \in Nat
    /\ pc \in {"idle", "run", "apply", "settle", "invariants", "over"}
    /\ applied \in BOOLEAN /\ pass \in Pass /\ chains \in Seq(Account)
    /\ pending \subseteq Run /\ hookSkips \subseteq Hashes
    /\ aawMap \subseteq Account \X Hashes /\ additionalWeakTSH \subseteq Account

\* When operator() returns, the strong hooks and the transaction stand or fall
\* together: with doApply's effects in the ledger all of their state is there, and
\* without them none is, nor any emission but a callback's.  They are there only
\* for a result of success, or one turned into tecOVERSIZE by the late test.
AllOrNothing ==
    pc = "over" =>
        /\ {r \in ledger.state : r.pass = "strong"} =
              IF ledger.done THEN Executed({"strong"}) ELSE {}
        /\ ~ledger.done => \A r \in ledger.emissions : r.pass = "callback"
        /\ ledger.done => applied /\ result \in {"tesSUCCESS", "tecOVERSIZE"}

\* No slot runs twice in one pass, and an account whose hooks ran strong is not
\* run weak as well: doTSH's "we also don't want to execute any hooks twice".
RunOnce ==
    \A i, j \in DOMAIN hookLog : i # j =>
        /\ hookLog[i] # hookLog[j]
        /\ hookLog[i].pass = "strong" /\ hookLog[j].pass = "weak" =>
              hookLog[i].account # hookLog[j].account

\* Nobody with the right to roll back is passed over: before doApply, the first
\* hook that can fire of every party that some nomination makes strong has run.
StakeholdersHeard ==
    pc = "apply" =>
        \A i \in DOMAIN Nominated(ledger, tx) :
            LET a == Nominated(ledger, tx)[i]
                fire == CanFire(ledger, tx, a, FALSE)
            IN  canRollback(tx, i) /\ a # tx.account /\ fire # {} =>
                    [pass |-> "strong", account |-> a, pos |-> Min(fire)] \in Range(hookLog)

\* In an open ledger the fee covers the transaction and every strong execution.
StrongHooksPaid ==
    tx # None /\ tx.open => 1 + Cardinality(Executed({"strong"})) <= tx.fee

\* Hooks that run after the application run for a transaction that is applied:
\* the state that weak and repeated hooks set reaches the ledger, and so does the
\* removal of the emission entry, whatever happens in between.
LateRunsStick ==
    pc = "over" =>
        /\ Executed({"weak", "again"}) \subseteq ledger.state
        /\ Executed({"callback", "weak", "again"}) # {} => applied
        /\ tx.emitted => (ledger.emittedTxn <=> ~applied)

\* In a closed ledger drops only move between the accounts and the total that was
\* destroyed: the fee as it was reduced and what each weak chain paid.
DropsConserved == [][tx # None /\ ~tx.open => Worth(ledger') = Worth(ledger)]_vars

\* A transactor creates and loses no drops, so XRPNotCreated has nothing to find:
\* what doApply leaves is the ledger it started from less the fee.
ApplyConserves ==
    pc = "settle" /\ result = "tesSUCCESS" => Worth(view) + fee = Worth(ledger)

\* An account's owner count is the number of objects that it owns.
OwnerCountExact ==
    \A a \in Account : ledger.ownerCount[a] = Cardinality(Owned(ledger.object, a))

\* "The owner must wait out a delay to close the channel to give the recipient a
\* chance to supply any claims": a channel with funds left goes only by the
\* recipient or when its time is over, that time is never brought nearer than the
\* settle delay, and "the total amount paid increases monotonically".
ChannelSettles ==
    [][LET c == ledger.object["channel"]
           d == ledger'.object["channel"]
           paid == ledger'.balance[c.dest] - ledger.balance[c.dest]
       IN  c # None =>
            IF d = None
            THEN ChannelOver(c, now) \/ tx.account = c.dest \/ paid = c.amount - c.balance
            ELSE /\ c.balance <= d.balance /\ d.balance <= d.amount
                 /\ now + SettleDelay < TimeWidth /\ d.expiration \notin {0, c.expiration} =>
                        \/ d.expiration >= now + SettleDelay
                        \/ c.expiration # 0 /\ d.expiration > c.expiration]_vars

\* An account that requires authorization receives no drops from a stranger's
\* transaction, unless it gets its own back from an object or is out of reserve.
DepositsAuthorized ==
    [][tx # None /\ MovesXRP(tx) =>
        \A a \in Account : ledger'.balance[a] > ledger.balance[a] =>
            \/ Authorized(a, tx.account)
            \/ \E k \in Owned(ledger.object, a) : ledger'.object[k] = None
            \/ /\ tx.type = "ttPAYMENT"
               /\ ledger.balance[a] <= accountReserve(0) /\ tx.amount <= accountReserve(0)]_vars
=============================================================================
