---------------------------- MODULE HookExecProofs ----------------------------
(***************************************************************************)
(* What HookExec promises of the hooks, for any accounts, hooks and        *)
(* transactions: what stands and falls with the transaction (MarkInv),     *)
(* that no hook runs twice (RunInv), that no stakeholder is passed over    *)
(* (HeardInv), and that the fee pays for what runs (PaidInv).  Each of     *)
(* these invariants is inductive given LedgerInv; RunInv and PaidInv also  *)
(* use MarkInv.                                                            *)
(***************************************************************************)
EXTENDS HookExecInvariant

\* The executions so far.
Log == Range(hookLog)

\* A ledger that nobody has marked yet.
Unmarked(v) == ~v.done /\ v.state = {} /\ v.emissions = {} /\ v.emittedTxn

\* The view and the strong hooks stand or fall together.
Whole ==
    /\ {r \in view.state : r.pass = "strong"} = IF view.done THEN Executed({"strong"}) ELSE {}
    /\ view.done <=> result = "tesSUCCESS"
    /\ ~view.done => \A r \in view.emissions : r.pass = "callback"

\* The inductive invariant: what the hooks have left in the view, phase by phase.
\* The results of the strong hooks are pending until doApply, in the view until it
\* is reset, and those of the late passes are pending until Commit.
MarkInv ==
    /\ AllOrNothing /\ LateRunsStick
    /\ pc # "over" => Unmarked(ledger)
    /\ pc = "idle" => hookLog = <<>>
    /\ pc \notin {"run", "over"} => pending = {}
    /\ pc \in {"idle", "apply", "settle", "invariants"} \/ (pc = "run" /\ pass = "strong") =>
           \A r \in Log : r.pass = "strong"
    /\ pc = "run" /\ pass = "strong" => pending = Log
    /\ pc = "apply" => view.state = Log /\ view.emittedTxn /\ result = "tesSUCCESS"
    /\ pc = "settle" => /\ view.emittedTxn
                        /\ view.done => view.state = Log
                        /\ ~view.done => Unmarked(view) /\ result # "tesSUCCESS"
    /\ pc = "invariants" => Whole /\ view.emittedTxn /\ applied
    /\ pc = "run" /\ pass # "strong" =>
        /\ Whole /\ applied
        /\ pending = Executed({"weak", "again"})
        /\ view.emittedTxn <=> pass = "callback" \/ ~tx.emitted

\* One more element of a sequence.
LEMMA AppendRange ==
    ASSUME NEW S, NEW s \in Seq(S), NEW x \in S
    PROVE  Range(Append(s, x)) = Range(s) \cup {x}
<1> DEFINE u == Append(s, x)
<1>1. /\ Len(s) \in Nat /\ DOMAIN s = 1 .. Len(s) /\ DOMAIN u = 1 .. Len(s) + 1
      /\ u[Len(s) + 1] = x /\ \A i \in 1 .. Len(s) : u[i] = s[i]
      OBVIOUS
<1>2. \A i \in 1 .. Len(s) + 1 : i \in 1 .. Len(s) \/ i = Len(s) + 1
      BY <1>1
<1>3. 1 .. Len(s) \subseteq 1 .. Len(s) + 1 /\ Len(s) + 1 \in 1 .. Len(s) + 1
      BY <1>1
<1> DEFINE n == Len(s) + 1
<1> HIDE DEF u, n
<1>4. \A y : y \in Range(u) <=> \E i \in 1 .. n : u[i] = y
      BY <1>1, Zenon DEF Range, n
<1>5. \A y : y \in Range(s) <=> \E i \in 1 .. Len(s) : s[i] = y
      BY <1>1, Zenon DEF Range
<1>6. Range(u) = Range(s) \cup {x}
      BY <1>1, <1>2, <1>3, <1>4, <1>5, Zenon DEF n
<1> QED
      BY <1>6, Zenon DEF u

\* The executions of some passes.
LEMMA ExecutedIs ==
    ASSUME NEW passes, NEW r
    PROVE  r \in Executed(passes) <=> r \in Log /\ r.pass \in passes
BY Zenon DEF Executed, Log

\* What one more execution adds.
LEMMA ExecuteIs ==
    ASSUME LedgerInv, NEW exit, NEW skips \in SUBSET Hashes, NEW again \in BOOLEAN,
           ExecuteHook(exit, skips, again)
    PROVE  \E run \in Run :
            /\ run = [pass |-> pass, account |-> Head(chains), pos |-> Min(Remaining(Head(chains)))]
            /\ run.pass = pass /\ run.account = Head(chains)
            /\ run.pos = Min(Remaining(Head(chains))) /\ run.pos > pos
            /\ run.pos \in Remaining(Head(chains))
            /\ \A j \in Remaining(Head(chains)) : run.pos <= j
            /\ hookLog' = Append(hookLog, run) /\ Log' = Log \cup {run}
            /\ \A passes : Executed(passes)' = IF pass \in passes THEN Executed(passes) \cup {run}
                                               ELSE Executed(passes)
            /\ IF pass = "callback"
               THEN /\ pending' = pending /\ view'.done = view.done
                    /\ view'.emittedTxn = view.emittedTxn
                    /\ view'.state \in {view.state, view.state \cup {run}}
                    /\ view'.emissions \in {view.emissions, view.emissions \cup {run}}
               ELSE pending' = pending \cup {run} /\ view' = view
            /\ pass # "strong" => result' = result
            /\ pc = "run" /\ chains # <<>>
            /\ UNCHANGED <<now, count, ledger, tx, fee, pc, applied, pass, additionalWeakTSH>>
<1> DEFINE a == Head(chains)
           i == Min(Remaining(a))
           run == [pass |-> pass, account |-> a, pos |-> i]
<1>1. pc = "run" /\ chains # <<>> /\ Remaining(a) # {} /\ pass \in Pass /\ hookLog \in Seq(Run)
      /\ Typed /\ view \in View(Int)
      BY Zenon DEF ExecuteHook, LedgerInv, Typed, TypeOK
<1>2. a \in Account /\ i \in Nat /\ i > pos /\ \A j \in Remaining(a) : i <= j
      BY <1>1, SlotIs, Zenon
<1>3. i \in Remaining(a)
      BY <1>1, SlotIs, Zenon DEF Remaining
<1>4. run \in Run /\ run.pass = pass /\ run.account = a /\ run.pos = i
      BY <1>1, <1>2, Zenon DEF Run
<1>5. hookLog' = Append(hookLog, run)
      BY Zenon DEF ExecuteHook
<1> HIDE DEF run
<1>6. Log' = Log \cup {run}
      BY <1>1, <1>4, <1>5, AppendRange DEF Log
<1>7. \A passes : Executed(passes)' = IF pass \in passes THEN Executed(passes) \cup {run}
                                      ELSE Executed(passes)
  <2>1. \A passes : Executed(passes)' = {r \in Log' : r.pass \in passes}
                    /\ Executed(passes) = {r \in Log : r.pass \in passes}
        BY Zenon DEF Executed, Log
  <2> QED
        BY <1>4, <1>6, <2>1, Zenon
<1>8. CASE pass = "callback"
  <2>1. PICK x : view' = Finalize(view, {run}, x, x) /\ pending' = pending
        BY <1>8, Zenon DEF ExecuteHook, run
  <2>2. view' = [view EXCEPT !.state = IF x THEN view.state \cup {run} ELSE view.state,
                       !.emissions = IF x /\ ~tx.open THEN view.emissions \cup {run} ELSE view.emissions]
        BY <1>1, <2>1, Zenon DEF Finalize, View
  <2>3. /\ view'.done = view.done /\ view'.emittedTxn = view.emittedTxn
        /\ view'.state = IF x THEN view.state \cup {run} ELSE view.state
        /\ view'.emissions = IF x /\ ~tx.open THEN view.emissions \cup {run} ELSE view.emissions
        BY <1>1, <2>2, Zenon DEF View
  <2>4. pass # "strong" => result' = result
        BY <1>8, Zenon DEF ExecuteHook
  <2>5. UNCHANGED <<now, count, ledger, tx, fee, pc, applied, pass, additionalWeakTSH>>
        BY Zenon DEF ExecuteHook
  <2> QED
        BY <1>1, <1>2, <1>3, <1>4, <1>5, <1>6, <1>7, <1>8, <2>1, <2>3, <2>4, <2>5, Zenon DEF run
<1>9. CASE pass # "callback"
  <2>1. pending' = pending \cup {run} /\ view' = view
        BY <1>9, Zenon DEF ExecuteHook, run
  <2>2. pass # "strong" => result' = result
        BY <1>1, <1>9, Zenon DEF ExecuteHook, Pass
  <2>3. UNCHANGED <<now, count, ledger, tx, fee, pc, applied, pass, additionalWeakTSH>>
        BY Zenon DEF ExecuteHook
  <2> QED
        BY <1>1, <1>2, <1>3, <1>4, <1>5, <1>6, <1>7, <1>9, <2>1, <2>2, <2>3, Zenon DEF run
<1> QED
      BY <1>8, <1>9, Zenon

\* MarkInv holds in every state: the phases of Transactor::operator() carry the
\* results of the hooks along as it says.
THEOREM MarksSafe == Spec => []MarkInv

\* One step for the initial states and for each action.
<1>InitMarks. ASSUME Init PROVE MarkInv
  <2> USE <1>InitMarks
  <2>1. Log = {}
        BY DEF Init, Log, Range
  <2>2. Unmarked(ledger) /\ pc = "idle" /\ hookLog = <<>> /\ pending = {}
        BY DEF Init, Unmarked
  <2> QED
        BY <2>1, <2>2, Zenon DEF MarkInv, AllOrNothing, LateRunsStick

<1>SubmitMarks. ASSUME LedgerInv, MarkInv, NEW t \in Tx, Submit(t)
                PROVE  MarkInv'
  <2> USE <1>SubmitMarks
  <2>1. /\ pc = "idle" /\ Unmarked(ledger) /\ pending = {} /\ hookLog = <<>> /\ view = ledger
        BY Zenon DEF Submit, MarkInv, LedgerInv, TxKnown
  <2>2. ledger' = ledger /\ view' = view /\ pending' = pending /\ hookLog' = hookLog
        BY Zenon DEF Submit
  <2>3. \/ pc' = "run" /\ pass' = "strong"
        \/ pc' = "settle" /\ result' # "tesSUCCESS"
        BY Zenon DEF Submit, Begin
  <2>4. Log = {} /\ Log' = {}
        BY <2>1, <2>2 DEF Log, Range
  <2>5. Unmarked(ledger') /\ Unmarked(view')
        BY <2>1, <2>2, Zenon
  <2> HIDE DEF Log
  <2> QED
        BY <2>1, <2>2, <2>3, <2>4, <2>5, Zenon DEF MarkInv, AllOrNothing, LateRunsStick, Unmarked

<1>ExecuteMarks. ASSUME LedgerInv, MarkInv, NEW exit, NEW skips \in SUBSET Hashes, NEW again \in BOOLEAN,
                        ExecuteHook(exit, skips, again)
                 PROVE  MarkInv'
  <2> USE <1>ExecuteMarks
  <2>1. PICK run \in Run :
              /\ run.pass = pass
              /\ Log' = Log \cup {run}
              /\ \A passes : Executed(passes)' = IF pass \in passes THEN Executed(passes) \cup {run}
                                                 ELSE Executed(passes)
              /\ IF pass = "callback"
                 THEN /\ pending' = pending /\ view'.done = view.done
                      /\ view'.emittedTxn = view.emittedTxn
                      /\ view'.state \in {view.state, view.state \cup {run}}
                      /\ view'.emissions \in {view.emissions, view.emissions \cup {run}}
                 ELSE pending' = pending \cup {run} /\ view' = view
              /\ pass # "strong" => result' = result
              /\ pc = "run"
              /\ ledger' = ledger /\ tx' = tx /\ pc' = pc /\ applied' = applied /\ pass' = pass
        BY ExecuteIs, Zenon
  <2>2. AllOrNothing' /\ LateRunsStick'
        BY <2>1, Zenon DEF AllOrNothing, LateRunsStick
  <2>3. Unmarked(ledger')
        BY <2>1, Zenon DEF MarkInv
  <2>4. CASE pass = "strong"
        BY <2>1, <2>2, <2>3, <2>4, Zenon DEF MarkInv
  <2>5. CASE pass # "strong"
    <3>1. /\ Whole /\ applied /\ pending = Executed({"weak", "again"})
          /\ view.emittedTxn <=> pass = "callback" \/ ~tx.emitted
          BY <2>1, <2>5, Zenon DEF MarkInv
    <3>2. pass \in {"callback", "weak", "again"}
          BY <2>5, Zenon DEF LedgerInv, Typed, TypeOK, Pass
    <3>3. Executed({"strong"})' = Executed({"strong"})
          BY <2>1, <2>5, Zenon
    <3>4. pending' = Executed({"weak", "again"})'
          BY <2>1, <3>1, <3>2, Zenon
    <3>5. {r \in view'.state : r.pass = "strong"} = {r \in view.state : r.pass = "strong"}
          BY <2>1, <2>5, Zenon
    <3>6. (\A r \in view.emissions : r.pass = "callback") => \A r \in view'.emissions : r.pass = "callback"
          BY <2>1, Zenon
    <3>7. view'.done = view.done /\ view'.emittedTxn = view.emittedTxn
          BY <2>1, Zenon
    <3>8. Whole'
          BY <2>1, <2>5, <3>1, <3>3, <3>5, <3>6, <3>7, Zenon DEF Whole
    <3> QED
          BY <2>1, <2>2, <2>3, <2>5, <3>1, <3>4, <3>7, <3>8, Zenon DEF MarkInv
  <2> QED
        BY <2>4, <2>5, Zenon

<1>EndChainMarks. ASSUME LedgerInv, MarkInv, EndChain
                  PROVE  MarkInv'
  <2> USE <1>EndChainMarks
  <2>1. /\ pc = "run" /\ ledger' = ledger /\ view' = view /\ tx' = tx /\ pc' = pc /\ result' = result
        /\ applied' = applied /\ pending' = pending /\ hookLog' = hookLog /\ pass' = pass
        BY Zenon DEF EndChain, Begin
  <2>2. Log' = Log /\ Executed({"strong"})' = Executed({"strong"})
        /\ Executed({"weak", "again"})' = Executed({"weak", "again"})
        BY <2>1, Zenon DEF Log, Executed
  <2>3. Whole => Whole'
        BY <2>1, <2>2, Zenon DEF Whole
  <2> QED
        BY <2>1, <2>2, <2>3, Zenon DEF MarkInv, AllOrNothing, LateRunsStick, Unmarked

<1>EndStrongMarks. ASSUME LedgerInv, MarkInv, EndStrong
                   PROVE  MarkInv'
  <2> USE <1>EndStrongMarks
  <2>1. /\ pc = "run" /\ pass = "strong" /\ pending = Log /\ Unmarked(ledger) /\ view = ledger
        /\ view \in View(Int) /\ \A r \in Log : r.pass = "strong"
        BY LedgerFacts, Zenon DEF EndStrong, MarkInv, LedgerInv, Phases
  <2>2. /\ ledger' = ledger /\ tx' = tx /\ result' = result /\ pending' = {} /\ hookLog' = hookLog
        /\ pc' = IF result = "tesSUCCESS" THEN "apply" ELSE "settle"
        BY Zenon DEF EndStrong
  <2>3. Log' = Log
        BY <2>2, Zenon DEF Log
  <2>4. CASE result = "tesSUCCESS"
    <3>1. view'.state = view.state \cup pending /\ view'.emittedTxn = view.emittedTxn
          BY <2>1, <2>4, Zenon DEF EndStrong, Finalize, View
    <3>2. view'.state = Log
          BY <2>1, <3>1, Zenon DEF Unmarked
    <3> QED
          BY <2>1, <2>2, <2>3, <2>4, <3>1, <3>2, Zenon DEF MarkInv, AllOrNothing, LateRunsStick, Unmarked
  <2>5. CASE result # "tesSUCCESS"
    <3>1. view' = view
          BY <2>1, <2>5, Zenon DEF EndStrong, Finalize, View
    <3> QED
          BY <2>1, <2>2, <2>3, <2>5, <3>1, Zenon DEF MarkInv, AllOrNothing, LateRunsStick, Unmarked
  <2> QED
        BY <2>4, <2>5, Zenon

\* doApply leaves the marks of the hooks alone, and makes its own.
<1>ApplyMarked. ASSUME LedgerInv, NEW weakTSH \in SUBSET Account, Apply(weakTSH)
                PROVE  /\ view'.done = TRUE /\ view'.state = view.state /\ view'.emittedTxn = view.emittedTxn
  <2> USE <1>ApplyMarked
  <2>1. pc = "apply" /\ tx \in Tx /\ view \in View(Int) /\ ledger \in View(Int) /\ now \in Nat
        /\ Exact(ledger) /\ Sound(ledger.object)
        BY LedgerFacts, Zenon DEF Apply
  <2>2. Marked(ledger, view) /\ Ready(ledger, tx)
        BY <2>1, Zenon DEF LedgerInv, Phases
  <2>3. /\ view.balance = ledger.balance /\ view.object = ledger.object
        /\ view.ownerCount = ledger.ownerCount /\ Worth(view) = Worth(ledger)
        BY <2>1, <2>2, MarksWorth, Zenon
  <2>4. PICK paid : paid = Paid(view, tx)
        BY Zenon
  <2>5. /\ paid.object = view.object /\ paid.ownerCount = view.ownerCount
        /\ paid.balance = [view.balance EXCEPT ![tx.account] = @ - tx.fee]
        /\ paid.done = TRUE /\ paid.state = view.state /\ paid.emittedTxn = view.emittedTxn
        BY <2>1, <2>4, Zenon DEF Paid, View
  <2>6. paid \in View(Int) /\ Worth(paid) + tx.fee = Worth(view)
        BY <2>1, <2>4, PaidIs, Zenon
  <2>7. /\ paid.object = ledger.object /\ paid.ownerCount = ledger.ownerCount
        /\ paid.balance = [ledger.balance EXCEPT ![tx.account] = @ - tx.fee]
        /\ Worth(paid) + tx.fee = Worth(ledger)
        BY <2>3, <2>5, <2>6, Zenon
  <2>8. PICK o \in IF MovesXRP(tx) THEN doApply(paid, tx, now) ELSE otherApply(paid, tx) : view' = o.view
        BY <2>4, Zenon DEF Apply, Paid
  <2>9. o.view.done = paid.done /\ o.view.state = paid.state /\ o.view.emittedTxn = paid.emittedTxn
    <3>1. CASE MovesXRP(tx)
      <4>1. SameMarks(paid, o.view)
            BY <2>1, <2>2, <2>6, <2>7, <2>8, <3>1, MovedFollows, Zenon
      <4> QED
            BY <4>1, Zenon DEF SameMarks
    <3>2. CASE ~MovesXRP(tx)
          BY <2>1, <2>6, <2>7, <2>8, <3>2, OtherFollows
    <3> QED
          BY <3>1, <3>2, Zenon
  <2> QED
        BY <2>5, <2>8, <2>9, Zenon

<1>ApplyMarks. ASSUME LedgerInv, MarkInv, NEW weakTSH \in SUBSET Account, Apply(weakTSH)
               PROVE  MarkInv'
  <2> USE <1>ApplyMarks
  <2>1. /\ pc = "apply" /\ view.state = Log /\ view.emittedTxn /\ Unmarked(ledger) /\ pending = {}
        /\ \A r \in Log : r.pass = "strong"
        BY Zenon DEF Apply, MarkInv
  <2>2. view'.done /\ view'.state = view.state /\ view'.emittedTxn
        BY <2>1, <1>ApplyMarked, Zenon
  <2>3. ledger' = ledger /\ pc' = "settle" /\ pending' = pending /\ hookLog' = hookLog
        BY Zenon DEF Apply
  <2>4. Log' = Log
        BY <2>3, Zenon DEF Log
  <2> QED
        BY <2>1, <2>2, <2>3, <2>4, Zenon DEF MarkInv, AllOrNothing, LateRunsStick, Unmarked

\* A view that was reset has no marks.
<1>ResetUnmarked. ASSUME LedgerInv, tx \in Tx, Unmarked(ledger), NEW kept,
                         NEW w, w = resetView(fee) \/ w = [resetView(fee) EXCEPT !.token = kept]
                  PROVE  Unmarked(w)
  <2> USE <1>ResetUnmarked
  <2>1. /\ resetView(fee) \in View(Nat) /\ resetView(fee).done = ledger.done
        /\ resetView(fee).state = ledger.state /\ resetView(fee).emissions = ledger.emissions
        /\ resetView(fee).emittedTxn = ledger.emittedTxn
        BY LedgerFacts, ResetIs, Zenon
  <2>2. /\ w.done = resetView(fee).done /\ w.state = resetView(fee).state
        /\ w.emissions = resetView(fee).emissions /\ w.emittedTxn = resetView(fee).emittedTxn
        BY <2>1, Zenon DEF View
  <2> QED
        BY <2>1, <2>2, Zenon DEF Unmarked

\* A transaction that leaves no trace.
<1>NothingHappenedNext. ASSUME Unmarked(ledger)', (~applied)', (\A r \in Log : r.pass = "strong")'
                        PROVE  AllOrNothing' /\ LateRunsStick'
  <2> USE <1>NothingHappenedNext
  <2>1. Executed({"weak", "again"})' = {} /\ Executed({"callback", "weak", "again"})' = {}
        BY Zenon DEF Executed, Log
  <2> QED
        BY <2>1, Zenon DEF AllOrNothing, LateRunsStick, Unmarked

<1>SettleMarks. ASSUME LedgerInv, MarkInv, NEW oversize \in BOOLEAN, Settle(oversize)
                PROVE  MarkInv'
  <2> USE <1>SettleMarks
  <2> DEFINE r == IF oversize THEN "tecOVERSIZE" ELSE result
             hard == isTecClaim(r) /\ tx.tapFAIL_HARD
             claims == r \in {"tecOVERSIZE", "tecKILLED", "tecEXPIRED"} \/ isTecClaimHardFail(r, tx)
             kept == resetView(fee).token /\ (r = "tecEXPIRED" => view.token)
  <2>1. /\ pc = "settle" /\ tx \in Tx /\ Unmarked(ledger) /\ pending = {} /\ view.emittedTxn
        /\ view.done => view.state = Log
        /\ ~view.done => Unmarked(view) /\ result # "tesSUCCESS"
        /\ \A x \in Log : x.pass = "strong"
        BY LedgerFacts, Zenon DEF Settle, MarkInv
  <2>2. /\ applied' = (~hard /\ (claims \/ r = "tesSUCCESS"))
        /\ pc' = IF applied' THEN "invariants" ELSE "over"
        /\ ledger' = ledger /\ tx' = tx /\ result' = r /\ pending' = pending /\ hookLog' = hookLog
        BY Zenon DEF Settle
  <2>3. \/ hard
        \/ ~hard /\ claims /\ view' = [resetView(fee) EXCEPT !.token = kept]
        \/ ~hard /\ ~claims /\ view' = view
        BY Zenon DEF Settle
  <2>4. claims => r # "tesSUCCESS"
        BY Zenon DEF isTecClaim, isTecClaimHardFail
  <2>5. r = "tesSUCCESS" => result = "tesSUCCESS"
        BY Zenon
  <2> HIDE DEF r, hard, claims, kept
  <2>6. Log' = Log /\ (\A x \in Log' : x.pass = "strong") /\ Unmarked(ledger')
        BY <2>1, <2>2, Zenon DEF Log
  <2>7. CASE ~applied'
    <3>1. AllOrNothing' /\ LateRunsStick'
      <4>1. Unmarked(ledger)' /\ (~applied)' /\ (\A x \in Log : x.pass = "strong")'
            BY <2>6, <2>7, Zenon
      <4> QED
            BY <4>1, <1>NothingHappenedNext, Zenon
    <3> QED
          BY <2>2, <2>7, <3>1, Zenon DEF MarkInv
  <2>8. CASE applied'
    <3>1. Whole' /\ view'.emittedTxn
      <4>1. CASE claims
        <5>1. Unmarked(view')
              BY <2>1, <2>2, <2>3, <2>8, <4>1, <1>ResetUnmarked, Zenon
        <5> QED
              BY <2>2, <2>4, <4>1, <5>1, Zenon DEF Unmarked, Whole
      <4>2. CASE ~claims
        <5>1. view' = view /\ result' = "tesSUCCESS" /\ result = "tesSUCCESS"
              BY <2>2, <2>3, <2>5, <2>8, <4>2, Zenon
        <5>2. view.done /\ view.state = Log
              BY <2>1, <5>1, Zenon
        <5>3. {x \in view'.state : x.pass = "strong"} = Executed({"strong"})'
              BY <2>1, <2>2, <5>1, <5>2, Zenon DEF Executed, Log
        <5> QED
              BY <2>1, <5>1, <5>2, <5>3, Zenon DEF Whole
      <4> QED
            BY <4>1, <4>2, Zenon
    <3>2. pc' = "invariants" /\ pending' = {} /\ applied'
          BY <2>1, <2>2, <2>8, Zenon
    <3> QED
          BY <2>6, <3>1, <3>2, Zenon DEF MarkInv, AllOrNothing, LateRunsStick
  <2> QED
        BY <2>2, <2>7, <2>8, Zenon

<1>CheckInvariantsMarks. ASSUME LedgerInv, MarkInv, NEW failures \in 0 .. 2, CheckInvariants(failures)
                         PROVE  MarkInv'
  <2> USE <1>CheckInvariantsMarks
  <2>1. /\ pc = "invariants" /\ tx \in Tx /\ Unmarked(ledger) /\ pending = {} /\ view.emittedTxn
        /\ Whole /\ \A x \in Log : x.pass = "strong"
        BY LedgerFacts, Zenon DEF CheckInvariants, MarkInv
  <2>2. /\ pc' = IF applied' THEN "run" ELSE "over"
        /\ applied' => pass' = "callback"
        /\ ledger' = ledger /\ tx' = tx /\ pending' = pending /\ hookLog' = hookLog
        BY Zenon DEF CheckInvariants, Begin
  <2>3. \/ view' = view /\ result' = result
        \/ view' = resetView(fee) /\ result' # "tesSUCCESS"
        BY DEF CheckInvariants
  <2>4. Log' = Log /\ (\A x \in Log' : x.pass = "strong") /\ Unmarked(ledger')
        BY <2>1, <2>2, Zenon DEF Log
  <2>5. CASE ~applied'
    <3>1. AllOrNothing' /\ LateRunsStick'
      <4>1. Unmarked(ledger)' /\ (~applied)' /\ (\A x \in Log : x.pass = "strong")'
            BY <2>4, <2>5, Zenon
      <4> QED
            BY <4>1, <1>NothingHappenedNext, Zenon
    <3> QED
          BY <2>2, <2>5, <3>1, Zenon DEF MarkInv
  <2>6. CASE applied'
    <3>1. Whole' /\ view'.emittedTxn
      <4>1. CASE view' = view /\ result' = result
            BY <2>1, <2>2, <4>1, Zenon DEF Whole, Executed
      <4>2. CASE view' = resetView(fee) /\ result' # "tesSUCCESS"
        <5>1. Unmarked(view')
              BY <2>1, <4>2, <1>ResetUnmarked, Zenon
        <5> QED
              BY <4>2, <5>1, Zenon DEF Unmarked, Whole
      <4> QED
            BY <2>3, <4>1, <4>2, Zenon
    <3>2. Executed({"weak", "again"})' = {}
          BY <2>4, Zenon DEF Executed, Log
    <3>3. pc' = "run" /\ pass' = "callback" /\ pending' = {} /\ applied'
          BY <2>1, <2>2, <2>6, Zenon
    <3> QED
          BY <2>4, <3>1, <3>2, <3>3, Zenon DEF MarkInv, AllOrNothing, LateRunsStick
  <2> QED
        BY <2>5, <2>6, Zenon

\* Going from one late pass to the next.
<1>LatePass. ASSUME LedgerInv, MarkInv, pc = "run", pass # "strong", pass' # "strong",
                    view'.done = view.done, view'.state = view.state, view'.emissions = view.emissions,
                    view'.emittedTxn <=> pass' = "callback" \/ ~tx.emitted,
                    ledger' = ledger, tx' = tx, pc' = pc, result' = result, applied' = applied,
                    pending' = pending, hookLog' = hookLog
             PROVE  MarkInv'
  <2> USE <1>LatePass
  <2>1. Unmarked(ledger) /\ Whole /\ applied /\ pending = Executed({"weak", "again"})
        BY Zenon DEF MarkInv
  <2>2. Executed({"weak", "again"})' = Executed({"weak", "again"})
        /\ Executed({"strong"})' = Executed({"strong"})
        BY Zenon DEF Executed
  <2>3. Whole'
        BY <2>1, <2>2, Zenon DEF Whole
  <2>4. Unmarked(ledger')
        BY <2>1, Zenon
  <2> QED
        BY <2>1, <2>2, <2>3, <2>4, Zenon DEF MarkInv, AllOrNothing, LateRunsStick

<1>EndCallbackMarks. ASSUME LedgerInv, MarkInv, EndCallback
                     PROVE  MarkInv'
  <2> USE <1>EndCallbackMarks
  <2>1. pc = "run" /\ pass = "callback" /\ tx \in Tx /\ Typed /\ pass' = "weak"
        BY LedgerFacts, Zenon DEF EndCallback, Begin
  <2>2. view.emittedTxn
        BY <2>1, Zenon DEF MarkInv
  <2>3. /\ view'.done = view.done /\ view'.state = view.state /\ view'.emissions = view.emissions
        /\ view'.emittedTxn = (view.emittedTxn /\ ~tx.emitted)
        BY <2>1, ChargedIs, Zenon
  <2>4. /\ ledger' = ledger /\ tx' = tx /\ pc' = pc /\ result' = result /\ applied' = applied
        /\ pending' = pending /\ hookLog' = hookLog
        BY Zenon DEF EndCallback
  <2> QED
        BY <2>1, <2>2, <2>3, <2>4, <1>LatePass, Zenon

<1>EndWeakMarks. ASSUME LedgerInv, MarkInv, EndWeak
                 PROVE  MarkInv'
  <2> USE <1>EndWeakMarks
  <2>1. pc = "run" /\ pass = "weak" /\ pass' = "again"
        BY Zenon DEF EndWeak, Begin
  <2>2. /\ view' = view /\ ledger' = ledger /\ tx' = tx /\ pc' = pc /\ result' = result
        /\ applied' = applied /\ pending' = pending /\ hookLog' = hookLog
        BY Zenon DEF EndWeak
  <2>3. view'.emittedTxn <=> pass' = "callback" \/ ~tx.emitted
        BY <2>1, <2>2, Zenon DEF MarkInv
  <2> QED
        BY <2>1, <2>2, <2>3, <1>LatePass, Zenon

<1>CommitMarks. ASSUME LedgerInv, MarkInv, NEW oversize \in BOOLEAN, Commit(oversize)
                PROVE  MarkInv'
  <2> USE <1>CommitMarks
  <2>1. /\ ledger' = view' /\ view'.state = view.state \cup pending
        /\ view'.emissions = IF result = "tesSUCCESS" /\ ~tx.open THEN view.emissions \cup pending
                             ELSE view.emissions
        /\ view'.done = view.done /\ view'.emittedTxn = view.emittedTxn
        BY CommitIs, Zenon
  <2>2. pc = "run" /\ pass = "again" /\ pc' = "over" /\ tx' = tx /\ applied' = applied /\ hookLog' = hookLog
        /\ result' = IF oversize THEN "tecOVERSIZE" ELSE result
        BY Zenon DEF Commit
  <2>3. /\ Whole /\ applied /\ pending = Executed({"weak", "again"})
        /\ view.emittedTxn <=> ~tx.emitted
        BY <2>2, Zenon DEF MarkInv
  <2>4. Executed({"strong"})' = Executed({"strong"})
        /\ Executed({"weak", "again"})' = Executed({"weak", "again"})
        BY <2>2, Zenon DEF Executed
  <2>5. {r \in ledger'.state : r.pass = "strong"} = {r \in view.state : r.pass = "strong"}
        BY <2>1, <2>3, ExecutedIs, Zenon
  <2>6. AllOrNothing'
    <3>1. ~view.done => result # "tesSUCCESS" /\ ledger'.emissions = view.emissions
          BY <2>1, <2>3, Zenon DEF Whole
    <3>2. view.done => result' \in {"tesSUCCESS", "tecOVERSIZE"}
          BY <2>2, <2>3, Zenon DEF Whole
    <3> QED
          BY <2>1, <2>2, <2>3, <2>4, <2>5, <3>1, <3>2, Zenon DEF AllOrNothing, Whole
  <2>7. LateRunsStick'
        BY <2>1, <2>2, <2>3, <2>4, Zenon DEF LateRunsStick
  <2> QED
        BY <2>2, <2>6, <2>7, Zenon DEF MarkInv

<1>ReturnMarks. ASSUME LedgerInv, MarkInv, Return
                PROVE  MarkInv'
  <2> USE <1>ReturnMarks
  <2>1. Unmarked(ledger')
        BY ReturnIs, Zenon DEF Unmarked
  <2>2. pc' = "idle" /\ hookLog' = <<>> /\ pending' = {}
        BY Zenon DEF Return
  <2>3. Log' = {}
        BY <2>2 DEF Log, Range
  <2> QED
        BY <2>1, <2>2, <2>3, Zenon DEF MarkInv, AllOrNothing, LateRunsStick

<1>StutterMarks. ASSUME MarkInv, UNCHANGED <<ledger, view, tx, pc, result, applied, passVars, pending, hookLog>>
                 PROVE  MarkInv'
  <2> USE <1>StutterMarks
  <2>1. /\ ledger' = ledger /\ view' = view /\ tx' = tx /\ pc' = pc /\ result' = result
        /\ applied' = applied /\ pending' = pending /\ hookLog' = hookLog /\ pass' = pass
        BY Zenon DEF passVars
  <2>2. Log' = Log /\ \A passes : Executed(passes)' = Executed(passes)
        BY <2>1, Zenon DEF Log, Executed
  <2>3. AllOrNothing' /\ LateRunsStick' /\ (Whole => Whole')
        BY <2>1, <2>2 DEF MarkInv, AllOrNothing, LateRunsStick, Whole
  <2> QED
        BY <2>1, <2>2, <2>3 DEF MarkInv
<1>1. LedgerInv /\ MarkInv /\ [Next]_vars => MarkInv'
  <2> SUFFICES ASSUME LedgerInv, MarkInv, [Next]_vars PROVE MarkInv'
      BY Zenon
  <2>1. ASSUME NEW t \in Tx, Submit(t) PROVE MarkInv'
        BY <2>1, <1>SubmitMarks, Zenon
  <2>2. ASSUME NEW exit \in {"ACCEPT", "ROLLBACK", "WASM_ERROR"}, NEW skips \in SUBSET Hashes,
               NEW again \in BOOLEAN, ExecuteHook(exit, skips, again)
        PROVE  MarkInv'
        BY <2>2, <1>ExecuteMarks, Zenon
  <2>3. ASSUME NEW weakTSH \in SUBSET Account, Apply(weakTSH) PROVE MarkInv'
        BY <2>3, <1>ApplyMarks, Zenon
  <2>4. ASSUME NEW oversize \in BOOLEAN, Settle(oversize) PROVE MarkInv'
        BY <2>4, <1>SettleMarks, Zenon
  <2>5. ASSUME NEW failures \in 0 .. 2, CheckInvariants(failures) PROVE MarkInv'
        BY <2>5, <1>CheckInvariantsMarks, Zenon
  <2>6. ASSUME NEW oversize \in BOOLEAN, Commit(oversize) PROVE MarkInv'
        BY <2>6, <1>CommitMarks, Zenon
  <2>7. CASE CloseLedger \/ Stop \/ UNCHANGED vars
        BY <2>7, <1>StutterMarks, Zenon DEF CloseLedger, Stop, vars
  <2> QED
        BY <2>1, <2>2, <2>3, <2>4, <2>5, <2>6, <2>7, <1>EndChainMarks, <1>EndStrongMarks,
           <1>EndCallbackMarks, <1>EndWeakMarks, <1>ReturnMarks, Zenon DEF Next
<1> QED
      BY <1>1, <1>InitMarks, LedgerSafe, PTL DEF Spec

\* The transaction and its strong hooks stand or fall together: the state that
\* the strong hooks set is in the ledger exactly if what doApply did is,
\* and that only with a result of success or the tecOVERSIZE of the late test, whatever
\* rolls back, resets or fails an invariant check in between.
THEOREM StandOrFallTogether == Spec => []AllOrNothing
<1>1. MarkInv => AllOrNothing
      BY Zenon DEF MarkInv
<1> QED
      BY <1>1, MarksSafe, PTL

\* What the weak hooks and the hooks that run again did is in the ledger once the
\* transaction is over, although it is finalized after the result is known.
THEOREM LateRunsAreKept == Spec => []LateRunsStick
<1>1. MarkInv => LateRunsStick
      BY Zenon DEF MarkInv
<1> QED
      BY <1>1, MarksSafe, PTL

\* Two lists without repetitions and with nothing in common, one after the other.
LEMMA ConcatInjective ==
    ASSUME NEW S, NEW s \in Seq(S), NEW t \in Seq(S), IsInjective(s), IsInjective(t),
           \A x \in Range(s) : x \notin Range(t)
    PROVE  IsInjective(s \o t) /\ Range(s \o t) = Range(s) \cup Range(t)
<1> DEFINE u == s \o t
           m == Len(s)
           n == Len(t)
<1>1. /\ m \in Nat /\ n \in Nat /\ DOMAIN s = 1 .. m /\ DOMAIN t = 1 .. n /\ DOMAIN u = 1 .. m + n
      /\ \A i \in 1 .. m + n : u[i] = IF i <= m THEN s[i] ELSE t[i - m]
      OBVIOUS
<1> HIDE DEF u, m, n
<1>2. \A i \in 1 .. m : i \in 1 .. m + n /\ u[i] = s[i]
      BY <1>1
<1>3. \A j \in 1 .. n : m + j \in 1 .. m + n /\ u[m + j] = t[j]
      BY <1>1
<1>4. \A i \in 1 .. m + n : i \in 1 .. m \/ \E j \in 1 .. n : i = m + j
  <2> TAKE i \in 1 .. m + n
  <2>1. CASE i <= m
        BY <1>1, <2>1
  <2>2. CASE ~(i <= m)
    <3>1. i - m \in 1 .. n /\ i = m + (i - m)
          BY <1>1, <2>2
    <3> QED
          BY <3>1, Zenon
  <2> QED
        BY <2>1, <2>2, Zenon
<1>5. Range(u) = Range(s) \cup Range(t)
  <2>1. \A x : x \in Range(u) <=> \E i \in 1 .. m + n : u[i] = x
        BY <1>1, Zenon DEF Range
  <2>2. \A x : x \in Range(s) <=> \E i \in 1 .. m : s[i] = x
        BY <1>1, Zenon DEF Range
  <2>3. \A x : x \in Range(t) <=> \E i \in 1 .. n : t[i] = x
        BY <1>1, Zenon DEF Range
  <2>4. Range(u) \subseteq Range(s) \cup Range(t)
        BY <1>2, <1>3, <1>4, <2>1, <2>2, <2>3
  <2>5. Range(s) \subseteq Range(u) /\ Range(t) \subseteq Range(u)
        BY <1>2, <1>3, <2>1, <2>2, <2>3
  <2> QED
        BY <2>4, <2>5, Zenon
<1>6. \A i, j \in 1 .. m : s[i] = s[j] => i = j
      BY <1>1, Zenon DEF IsInjective
<1>7. \A i, j \in 1 .. n : t[i] = t[j] => i = j
      BY <1>1, Zenon DEF IsInjective
<1>8. \A i \in 1 .. m, j \in 1 .. n : s[i] # t[j]
      BY <1>1, Zenon DEF Range
<1>9. ASSUME NEW i \in 1 .. m + n, NEW j \in 1 .. m + n, u[i] = u[j]
      PROVE  i = j
  <2>1. CASE i \in 1 .. m /\ j \in 1 .. m
        BY <1>2, <1>6, <1>9, <2>1, Zenon
  <2>2. ASSUME NEW k \in 1 .. n, i = m + k, NEW l \in 1 .. n, j = m + l PROVE i = j
        BY <1>3, <1>7, <1>9, <2>2, Zenon
  <2>3. ASSUME NEW k \in 1 .. n, i = m + k, j \in 1 .. m PROVE FALSE
        BY <1>2, <1>3, <1>8, <1>9, <2>3, Zenon
  <2>4. ASSUME NEW k \in 1 .. n, j = m + k, i \in 1 .. m PROVE FALSE
        BY <1>2, <1>3, <1>8, <1>9, <2>4, Zenon
  <2> QED
        BY <1>4, <2>1, <2>2, <2>3, <2>4, Zenon
<1>10. IsInjective(u)
      BY <1>1, <1>9, Zenon DEF IsInjective
<1> QED
      BY <1>5, <1>10, Zenon DEF u

\* Lists of at most one element have no repetitions.
LEMMA ShortInjective ==
    ASSUME NEW x
    PROVE  /\ IsInjective(<<>>) /\ Range(<<>>) = {}
           /\ IsInjective(<<x>>) /\ Range(<<x>>) = {x}
BY DEF IsInjective, Range

\* The elements of a sequence are in the set it is a sequence of.
LEMMA SeqRange ==
    ASSUME NEW S, NEW s \in Seq(S)
    PROVE  Range(s) \subseteq S
BY DEF Range

\* The accounts whose hooks may run strong.
Strong == {tx.account} \cup TSH(ledger, tx, TRUE)

\* The passes that have begun.
UpTo == CASE pass = "strong" -> {"strong"}
          [] pass = "callback" -> {"strong", "callback"}
          [] pass = "weak" -> {"strong", "callback", "weak"}
          [] OTHER -> Pass

\* An execution of the running pass is one of a chain that is over, or of an
\* earlier slot of the running one.
Behind(r) == r.account \in Range(chains) => r.account = Head(chains) /\ r.pos <= pos

\* The inductive invariant: no chain is listed twice, what has run is behind the
\* slot the pass has come to, and strong and weak accounts are different ones.
RunInv ==
    /\ IsInjective(chains) /\ IsInjective(hookLog)
    /\ \A r, s \in Log : r.pass = "strong" /\ s.pass = "weak" => r.account # s.account
    /\ pc \notin {"idle", "over"} => \A r \in Log : r.pass = "strong" => r.account \in Strong
    /\ pc = "run" => /\ \A r \in Log : r.pass \in UpTo /\ (r.pass = pass => Behind(r))
                     /\ pass = "strong" => Range(chains) \subseteq Strong
                     /\ pass = "weak" => Range(chains) \cap Strong = {}

\* The chains of the strong pass: the sender of the transaction unless it was
\* emitted, then the stakeholders, each once.
LEMMA StrongChains ==
    ASSUME LedgerInv, NEW t \in Tx, Submit(t), result' = "tesSUCCESS"
    PROVE  /\ IsInjective(chains') /\ chains' \in Seq(Account)
           /\ Range(chains') = (IF t.emitted THEN {} ELSE {t.account}) \cup TSH(ledger, t, TRUE)
<1> DEFINE noms == Nominated(ledger, t)
           A == TSH(ledger, t, TRUE)
           s == IF t.emitted THEN <<>> ELSE <<t.account>>
           u == InOrder(noms, A)
<1>1. noms \in Seq(Account) /\ A \subseteq Range(noms) /\ A \subseteq Account /\ t.account \notin A
      BY LedgerFacts, NominatedIs, TSHIs, Zenon
<1>2. chains' = s \o u
      BY Zenon DEF Submit, Begin
<1>3. t.account \in Account
      BY TxFields, Zenon
<1> HIDE DEF noms, A
<1>4. u \in Seq(A) /\ Range(u) = A /\ IsInjective(u)
      BY <1>1, InOrderIs, Zenon
<1> HIDE DEF u
<1>5. /\ s \in Seq(Account) /\ IsInjective(s) /\ Range(s) = IF t.emitted THEN {} ELSE {t.account}
  <2>1. <<>> \in Seq(Account) /\ <<t.account>> \in Seq(Account)
        BY <1>3
  <2>2. /\ IsInjective(<<>>) /\ Range(<<>>) = {}
        /\ IsInjective(<<t.account>>) /\ Range(<<t.account>>) = {t.account}
        BY ShortInjective, Zenon
  <2>3. CASE t.emitted
        BY <2>1, <2>2, <2>3, Zenon
  <2>4. CASE ~t.emitted
        BY <2>1, <2>2, <2>4, Zenon
  <2> QED
        BY <2>3, <2>4, Zenon
<1> HIDE DEF s
<1>6. u \in Seq(Account)
      BY <1>1, <1>4
<1>7. \A x \in Range(s) : x \notin Range(u)
      BY <1>1, <1>4, <1>5, Zenon
<1>8. IsInjective(s \o u) /\ Range(s \o u) = Range(s) \cup Range(u) /\ s \o u \in Seq(Account)
      BY <1>4, <1>5, <1>6, <1>7, ConcatInjective
<1> QED
      BY <1>2, <1>4, <1>5, <1>8, Zenon DEF A

\* RunInv holds in every state: executeHookChain goes up the slots of one chain
\* after another.
THEOREM RunsSafe == Spec => []RunInv

\* The lists of chains grow and shrink without repetitions.
<1>TailInjective. ASSUME NEW S, NEW s \in Seq(S), s # <<>>, IsInjective(s)
                  PROVE  IsInjective(Tail(s)) /\ Head(s) \notin Range(Tail(s))
  <2> USE <1>TailInjective
  <2>1. /\ Len(s) \in Nat /\ DOMAIN s = 1 .. Len(s) /\ DOMAIN Tail(s) = 1 .. Len(s) - 1
        /\ Head(s) = s[1] /\ 1 \in 1 .. Len(s)
        /\ \A i \in 1 .. Len(s) - 1 : i + 1 \in 1 .. Len(s) /\ Tail(s)[i] = s[i + 1]
        OBVIOUS
  <2>2. \A i, j \in 1 .. Len(s) : s[i] = s[j] => i = j
        BY <2>1, Zenon DEF IsInjective
  <2>3. ASSUME NEW i \in DOMAIN Tail(s), NEW j \in DOMAIN Tail(s), Tail(s)[i] = Tail(s)[j]
        PROVE  i = j
    <3>1. i \in 1 .. Len(s) - 1 /\ j \in 1 .. Len(s) - 1
          BY <2>1, Zenon
    <3>2. i + 1 \in 1 .. Len(s) /\ j + 1 \in 1 .. Len(s) /\ s[i + 1] = s[j + 1]
          BY <2>1, <2>3, <3>1, Zenon
    <3>3. i + 1 = j + 1
          BY <2>2, <3>2, Zenon
    <3> QED
          BY <2>1, <3>1, <3>3
  <2>4. ASSUME NEW i \in DOMAIN Tail(s), Tail(s)[i] = Head(s)
        PROVE  FALSE
    <3>1. i \in 1 .. Len(s) - 1 /\ i + 1 \in 1 .. Len(s) /\ s[i + 1] = s[1]
          BY <2>1, <2>4, Zenon
    <3>2. i + 1 = 1
          BY <2>1, <2>2, <3>1, Zenon
    <3> QED
          BY <2>1, <3>1, <3>2
  <2> QED
        BY <2>3, <2>4, Zenon DEF IsInjective, Range

<1>AppendInjective. ASSUME NEW S, NEW s \in Seq(S), NEW x \in S, IsInjective(s), x \notin Range(s)
                    PROVE  IsInjective(Append(s, x))
  <2> USE <1>AppendInjective
  <2> DEFINE u == Append(s, x)
             n == Len(s) + 1
  <2>1. /\ Len(s) \in Nat /\ DOMAIN s = 1 .. Len(s) /\ DOMAIN u = 1 .. n
        /\ u[n] = x /\ \A i \in 1 .. Len(s) : u[i] = s[i]
        OBVIOUS
  <2>2. \A i \in 1 .. n : i \in 1 .. Len(s) \/ i = n
        BY <2>1
  <2> HIDE DEF u, n
  <2>3. \A i \in 1 .. Len(s) : u[i] # x
        BY <2>1, Zenon DEF Range
  <2>4. \A i, j \in 1 .. Len(s) : s[i] = s[j] => i = j
        BY <2>1, Zenon DEF IsInjective
  <2>5. \A i, j \in DOMAIN u : u[i] = u[j] => i = j
        BY <2>1, <2>2, <2>3, <2>4, Zenon
  <2>6. IsInjective(u)
        BY <2>5, Zenon DEF IsInjective
  <2> QED
        BY <2>6, Zenon DEF u

\* One step for the initial states and for each action.
<1>InitRuns. ASSUME Init PROVE RunInv
  <2> USE <1>InitRuns
  <2>1. chains = <<>> /\ hookLog = <<>> /\ pc = "idle"
        BY Zenon DEF Init
  <2>2. Log = {}
        BY <2>1 DEF Log, Range
  <2> QED
        BY <2>1, <2>2, ShortInjective, Zenon DEF RunInv

<1>SubmitRuns. ASSUME LedgerInv, MarkInv, RunInv, NEW t \in Tx, Submit(t)
               PROVE  RunInv'
  <2> USE <1>SubmitRuns
  <2>1. hookLog = <<>> /\ hookLog' = hookLog /\ ledger' = ledger /\ tx' = t
        BY Zenon DEF Submit, MarkInv
  <2>2. Log' = {}
        BY <2>1 DEF Log, Range
  <2>3. IsInjective(hookLog')
        BY <2>1, ShortInjective, Zenon
  <2>4. CASE result' = "tesSUCCESS"
    <3>1. IsInjective(chains') /\ Range(chains') \subseteq {t.account} \cup TSH(ledger, t, TRUE)
          BY <2>4, StrongChains, Zenon
    <3>2. Range(chains)' \subseteq Strong'
          BY <2>1, <3>1, Zenon DEF Strong
    <3>3. pass' = "strong"
          BY <2>4, Zenon DEF Submit, Begin
    <3> QED
          BY <2>2, <2>3, <3>1, <3>2, <3>3, Zenon DEF RunInv
  <2>5. CASE result' # "tesSUCCESS"
    <3>1. chains' = chains /\ pc' = "settle"
          BY <2>5, Zenon DEF Submit, passVars
    <3> QED
          BY <2>2, <2>3, <3>1, Zenon DEF RunInv
  <2> QED
        BY <2>4, <2>5, Zenon

<1>ExecuteRuns. ASSUME LedgerInv, RunInv, NEW exit, NEW skips \in SUBSET Hashes, NEW again \in BOOLEAN,
                       ExecuteHook(exit, skips, again)
                PROVE  RunInv'
  <2> USE <1>ExecuteRuns
  <2>1. PICK run \in Run :
              /\ run.pass = pass /\ run.account = Head(chains)
              /\ run.pos = Min(Remaining(Head(chains))) /\ run.pos > pos
              /\ hookLog' = Append(hookLog, run) /\ Log' = Log \cup {run}
              /\ pc = "run" /\ chains # <<>>
              /\ ledger' = ledger /\ tx' = tx /\ pc' = pc /\ pass' = pass
        BY ExecuteIs, Zenon
  <2>2. /\ chains \in Seq(Account) /\ hookLog \in Seq(Run) /\ pos \in Nat /\ run.pos \in Nat
        /\ \A r \in Log : r \in Run /\ r.pos \in Nat
    <3>1. chains \in Seq(Account) /\ hookLog \in Seq(Run) /\ pos \in Nat
          BY Zenon DEF LedgerInv, Typed, TypeOK
    <3>2. Log \subseteq Run
          BY <3>1, SeqRange, Zenon DEF Log
    <3>3. \A r \in Run : r.pos \in Nat
          BY Zenon DEF Run
    <3> QED
          BY <3>1, <3>2, <3>3, Zenon
  <2>3. \/ chains' = chains /\ pos' = run.pos
        \/ chains' = <<>>
        \/ chains' = Tail(chains)
        BY <2>1, Zenon DEF ExecuteHook
  <2>4. /\ IsInjective(chains) /\ IsInjective(Tail(chains)) /\ Head(chains) \notin Range(Tail(chains))
        /\ Head(chains) \in Range(chains) /\ Range(Tail(chains)) \subseteq Range(chains)
        /\ Tail(chains) \in Seq(Account)
        BY <2>1, <2>2, <1>TailInjective, TailIs, Zenon DEF RunInv
  <2>5. Range(chains') \subseteq Range(chains) /\ IsInjective(chains')
        BY <2>3, <2>4, ShortInjective, Zenon
  <2>6. run \notin Log
    <3> SUFFICES ASSUME run \in Log PROVE FALSE
        BY Zenon
    <3>1. Behind(run)
          BY <2>1, Zenon DEF RunInv
    <3> QED
          BY <2>1, <2>2, <2>4, <3>1 DEF Behind
  <2>7. IsInjective(hookLog')
        BY <2>1, <2>2, <2>6, <1>AppendInjective, Zenon DEF RunInv, Log
  <2>8. Strong' = Strong /\ UpTo' = UpTo
        BY <2>1, Zenon DEF Strong, UpTo
  <2>9. pass \in UpTo
        BY Zenon DEF UpTo, Pass, LedgerInv, Typed, TypeOK
  <2>10. \A r \in Log' : r.pass \in UpTo'
        BY <2>1, <2>8, <2>9, Zenon DEF RunInv
  <2>11. ASSUME NEW r \in Log', r.pass = pass', r.account \in Range(chains')
         PROVE  r.account = Head(chains') /\ r.pos <= pos'
    <3>1. r.account = Head(chains) /\ (r = run \/ r.pos <= pos)
          BY <2>1, <2>5, <2>11, Zenon DEF RunInv, Behind
    <3>2. chains' = chains /\ pos' = run.pos
          BY <2>3, <2>4, <2>11, <3>1, ShortInjective, Zenon
    <3>3. r.pos <= run.pos
          BY <2>1, <2>2, <3>1
    <3> QED
          BY <3>1, <3>2, <3>3, Zenon
  <2>12. \A r \in Log' : r.pass = "strong" => r.account \in Strong'
        BY <2>1, <2>4, <2>8, Zenon DEF RunInv
  <2>13. ASSUME NEW r \in Log', NEW s \in Log', r.pass = "strong", s.pass = "weak"
         PROVE  r.account # s.account
    <3>1. CASE s = run
      <4>1. pass = "weak" /\ s.account \in Range(chains)
            BY <2>1, <2>4, <2>13, <3>1, Zenon
      <4>2. r \in Log /\ r.account \in Strong
            BY <2>1, <2>8, <2>12, <2>13, <4>1, Zenon
      <4> QED
            BY <2>1, <4>1, <4>2, Zenon DEF RunInv
    <3>2. CASE s # run /\ r = run
      <4>1. pass = "strong" /\ s \in Log
            BY <2>1, <2>13, <3>2, Zenon
      <4>2. s.pass \in {"strong"}
            BY <2>1, <4>1, Zenon DEF RunInv, UpTo
      <4> QED
            BY <2>13, <4>2, Zenon
    <3>3. CASE s # run /\ r # run
          BY <2>1, <2>13, <3>3, Zenon DEF RunInv
    <3> QED
          BY <3>1, <3>2, <3>3, Zenon
  <2>14. pass' = "strong" => Range(chains') \subseteq Strong'
        BY <2>1, <2>5, <2>8, Zenon DEF RunInv
  <2>15. pass' = "weak" => Range(chains') \cap Strong' = {}
        BY <2>1, <2>5, <2>8, Zenon DEF RunInv
  <2> QED
        BY <2>5, <2>7, <2>10, <2>11, <2>12, <2>13, <2>14, <2>15, Zenon DEF RunInv, Behind

<1>EndChainRuns. ASSUME LedgerInv, RunInv, EndChain
                 PROVE  RunInv'
  <2> USE <1>EndChainRuns
  <2>1. /\ pc = "run" /\ ledger' = ledger /\ tx' = tx /\ pc' = pc /\ pass' = pass
        /\ chains # <<>> /\ chains' = Tail(chains) /\ hookLog' = hookLog
        BY Zenon DEF EndChain, Begin
  <2>2. chains \in Seq(Account)
        BY Zenon DEF LedgerInv, Typed, TypeOK
  <2>3. /\ IsInjective(chains') /\ Head(chains) \notin Range(chains') /\ Range(chains') \subseteq Range(chains)
        BY <2>1, <2>2, <1>TailInjective, TailIs, Zenon DEF RunInv
  <2>4. Strong' = Strong /\ UpTo' = UpTo /\ Log' = Log
        BY <2>1, Zenon DEF Strong, UpTo, Log
  <2>5. \A r \in Log : r.pass = pass => r.account \notin Range(chains')
        BY <2>1, <2>3, Zenon DEF RunInv, Behind
  <2> QED
        BY <2>1, <2>3, <2>4, <2>5, Zenon DEF RunInv, Behind

\* Steps that leave the chains, the log and the stakeholders alone.
<1>QuietRuns. ASSUME RunInv, pc \notin {"idle", "over"}, pc' # "run", ledger' = ledger, tx' = tx,
                     chains' = chains, hookLog' = hookLog
              PROVE  RunInv'
  <2> USE <1>QuietRuns
  <2>1. Strong' = Strong /\ Log' = Log
        BY Zenon DEF Strong, Log
  <2> QED
        BY <2>1, Zenon DEF RunInv

<1>QuietSteps. ASSUME RunInv,
                      \/ EndStrong
                      \/ \E weakTSH \in SUBSET Account : Apply(weakTSH)
                      \/ \E oversize \in BOOLEAN : Settle(oversize)
               PROVE  RunInv'
  <2> USE <1>QuietSteps
  <2>1. pc \notin {"idle", "over"} /\ pc' # "run" /\ ledger' = ledger /\ tx' = tx
        /\ chains' = chains /\ hookLog' = hookLog
        BY Zenon DEF EndStrong, Apply, Settle, passVars
  <2> QED
        BY <2>1, <1>QuietRuns, Zenon

<1>CheckInvariantsRuns. ASSUME LedgerInv, MarkInv, RunInv, NEW failures \in 0 .. 2, CheckInvariants(failures)
                        PROVE  RunInv'
  <2> USE <1>CheckInvariantsRuns
  <2>1. /\ pc = "invariants" /\ ledger' = ledger /\ tx' = tx /\ hookLog' = hookLog
        /\ \A r \in Log : r.pass = "strong"
        BY Zenon DEF CheckInvariants, MarkInv
  <2>2. CASE ~applied'
    <3>1. chains' = chains /\ pc' = "over"
          BY <2>2, Zenon DEF CheckInvariants, passVars
    <3> QED
          BY <2>1, <3>1, <1>QuietRuns, Zenon
  <2>3. CASE applied'
    <3>1. /\ pc' = "run" /\ pass' = "callback"
          /\ chains' = <<>> \/ chains' = <<tx.callback>>
          BY <2>3, Zenon DEF CheckInvariants, Begin
    <3>2. IsInjective(chains')
          BY <3>1, ShortInjective, Zenon
    <3>3. Strong' = Strong /\ UpTo' = {"strong", "callback"} /\ Log' = Log
          BY <2>1, <3>1, Zenon DEF Strong, UpTo, Log
    <3>4. IsInjective(hookLog')
          BY <2>1, Zenon DEF RunInv
    <3>5. \A r \in Log' : r.pass \in UpTo' /\ r.pass # pass'
          BY <2>1, <3>1, <3>3, Zenon
    <3> QED
          BY <2>1, <3>1, <3>2, <3>3, <3>4, <3>5, Zenon DEF RunInv
  <2> QED
        BY <2>2, <2>3, Zenon

\* Nobody who was heard strong is asked to run weak.
<1>WeakNotStrong. ASSUME LedgerInv, tx \in Tx, SameParties(ledger, view)
                  PROVE  WeakTSH \cap Strong = {}
  <2> USE <1>WeakNotStrong
  <2> DEFINE noms == Nominated(ledger, tx)
             late == Nominated(view, tx)
  <2>1. ledger \in View(Int) /\ view \in View(Int)
        BY LedgerFacts, Zenon
  <2>2. tx.account \notin WeakTSH
        BY WeakIs, Zenon DEF LedgerInv
  <2>3. ASSUME NEW a \in WeakTSH, a \in TSH(ledger, tx, TRUE) PROVE FALSE
    <3>1. Range(<<>>) = {}
          BY ShortInjective, Zenon
    <3>2. a \in Range(noms) \ {tx.account}
          BY <2>1, <2>3, TSHIs, Zenon
    <3>3. CASE late = noms
      <4>1. getTransactionalStakeHolders(view, tx) = getTransactionalStakeHolders(ledger, tx)
            BY <3>3, Zenon DEF getTransactionalStakeHolders
      <4>2. a \in DOMAIN getTransactionalStakeHolders(view, tx)
            BY <2>3, <4>1, Zenon DEF TSH
      <4>3. a \in TSH(view, tx, FALSE)
            BY <2>3, <4>2, Zenon DEF WeakTSH
      <4> QED
            BY <2>3, <4>1, <4>3, Zenon DEF TSH
    <3>4. CASE late = <<>> /\ late # noms
      <4>1. TSH(view, tx, FALSE) = {}
            BY <2>1, <3>1, <3>4, TSHIs, Zenon
      <4>2. additionalWeakTSH # {}
            BY <2>3, <4>1, Zenon DEF WeakTSH
      <4>3. CrossesOffers(tx)
            BY <4>2, Zenon DEF LedgerInv, TxKnown
      <4>4. late = noms
            BY <4>3, Zenon DEF CrossesOffers, Nominated, NamesParties, ReadsObject, ReadsToken
      <4> QED
            BY <3>4, <4>4, Zenon
    <3>5. CASE noms = <<>>
          BY <3>1, <3>2, <3>5, Zenon
    <3> QED
          BY <3>3, <3>4, <3>5, NominatedAgree, Zenon
  <2> QED
        BY <2>2, <2>3, Zenon DEF Strong

<1>WeakChainsInjective. ASSUME NEW noms \in Seq(Account), NEW A, A \subseteq Account,
                               NEW s, s = InOrder(noms, A \cap Range(noms)) \o AnyOrder(A \ Range(noms))
                        PROVE  IsInjective(s) /\ Range(s) \subseteq A
  <2> USE <1>WeakChainsInjective
  <2> DEFINE x == InOrder(noms, A \cap Range(noms))
             y == AnyOrder(A \ Range(noms))
  <2>1. x \in Seq(A \cap Range(noms)) /\ Range(x) = A \cap Range(noms) /\ IsInjective(x)
        BY InOrderIs, Zenon
  <2>2. y \in Seq(A \ Range(noms)) /\ IsInjective(y)
    <3>1. IsFiniteSet(A \ Range(noms))
          BY AccountsFinite, Zenon
    <3> QED
          BY <3>1, AnyOrderIs, Zenon
  <2>3. s = x \o y
        BY Zenon
  <2> HIDE DEF x, y
  <2>4. x \in Seq(A) /\ y \in Seq(A) /\ Range(y) \subseteq A \ Range(noms)
        BY <2>1, <2>2, SeqRange
  <2>5. \A z \in Range(x) : z \notin Range(y)
        BY <2>1, <2>4, ZenonT(40)
  <2>6. IsInjective(x \o y) /\ Range(x \o y) = Range(x) \cup Range(y)
        BY <2>1, <2>2, <2>4, <2>5, ConcatInjective
  <2> QED
        BY <2>1, <2>3, <2>4, <2>6, ZenonT(40)

<1>EndCallbackRuns. ASSUME LedgerInv, RunInv, EndCallback
                    PROVE  RunInv'
  <2> USE <1>EndCallbackRuns
  <2>1. /\ pc = "run" /\ pass = "callback" /\ tx \in Tx /\ view \in View(Int) /\ Typed
        /\ ledger' = ledger /\ tx' = tx /\ pc' = pc /\ pass' = "weak" /\ hookLog' = hookLog
        BY LedgerFacts, Zenon DEF EndCallback, Begin
  <2> DEFINE noms == Nominated(view, tx)
             A == {a \in WeakTSH : PaysForWeak(a)}
  <2>2. noms \in Seq(Account) /\ A \subseteq Account
        BY <2>1, NominatedIs, WeakIs, Zenon
  <2>3. chains' = InOrder(noms, A \cap Range(noms)) \o AnyOrder(A \ Range(noms))
        BY Zenon DEF EndCallback, Begin
  <2>4. A \subseteq WeakTSH
        BY Zenon
  <2> HIDE DEF noms, A
  <2>5. IsInjective(chains') /\ Range(chains') \subseteq A
        BY <2>2, <2>3, <1>WeakChainsInjective, Zenon
  <2>6. SameParties(ledger, view)
        BY <2>1, Zenon DEF LedgerInv, Phases, Follows
  <2>7. Range(chains') \cap Strong = {}
        BY <2>1, <2>4, <2>5, <2>6, <1>WeakNotStrong, Zenon
  <2>8. Strong' = Strong /\ UpTo = {"strong", "callback"} /\ UpTo' = {"strong", "callback", "weak"}
        /\ Log' = Log
        BY <2>1, Zenon DEF Strong, UpTo, Log
  <2>9. \A r \in Log' : r.pass \in UpTo' /\ r.pass # pass'
        BY <2>1, <2>8, Zenon DEF RunInv
  <2>10. IsInjective(hookLog')
        BY <2>1, Zenon DEF RunInv
  <2>11. \A r \in Log' : r.pass = "strong" => r.account \in Strong'
        BY <2>1, <2>8, Zenon DEF RunInv
  <2> QED
        BY <2>1, <2>5, <2>7, <2>8, <2>9, <2>10, <2>11, ZenonT(40) DEF RunInv

<1>EndWeakRuns. ASSUME LedgerInv, RunInv, EndWeak
                PROVE  RunInv'
  <2> USE <1>EndWeakRuns
  <2> DEFINE A == {e[1] : e \in aawMap}
  <2>1. A \subseteq Account
        BY Zenon DEF LedgerInv, Typed, TypeOK
  <2>2. /\ pc = "run" /\ pass = "weak" /\ ledger' = ledger /\ tx' = tx /\ pc' = pc /\ pass' = "again"
        /\ hookLog' = hookLog /\ chains' = AnyOrder(A)
        BY Zenon DEF EndWeak, Begin
  <2> HIDE DEF A
  <2>3. IsInjective(chains')
        BY <2>1, <2>2, AccountsFinite, AnyOrderIs, Zenon
  <2>4. Strong' = Strong /\ UpTo = {"strong", "callback", "weak"} /\ UpTo' = Pass /\ Log' = Log
        BY <2>2, Zenon DEF Strong, UpTo, Log
  <2>5. \A r \in Log' : r.pass \in UpTo' /\ r.pass # pass'
        BY <2>2, <2>4, Zenon DEF RunInv, Pass
  <2> QED
        BY <2>2, <2>3, <2>4, <2>5, Zenon DEF RunInv

<1>CommitRuns. ASSUME RunInv, NEW oversize \in BOOLEAN, Commit(oversize)
               PROVE  RunInv'
  <2> USE <1>CommitRuns
  <2>1. pc' = "over" /\ chains' = chains /\ hookLog' = hookLog
        BY Zenon DEF Commit, passVars
  <2>2. Log' = Log
        BY <2>1, Zenon DEF Log
  <2> QED
        BY <2>1, <2>2, Zenon DEF RunInv

<1>ReturnRuns. ASSUME Return
               PROVE  RunInv'
  <2> USE <1>ReturnRuns
  <2>1. chains' = <<>> /\ hookLog' = <<>> /\ pc' = "idle"
        BY Zenon DEF Return, Begin
  <2>2. Log' = {}
        BY <2>1 DEF Log, Range
  <2> QED
        BY <2>1, <2>2, ShortInjective, Zenon DEF RunInv

<1>StutterRuns. ASSUME RunInv, UNCHANGED <<ledger, tx, pc, passVars, hookLog>>
                PROVE  RunInv'
  <2> USE <1>StutterRuns
  <2>1. ledger' = ledger /\ tx' = tx /\ pc' = pc /\ pass' = pass /\ chains' = chains /\ pos' = pos
        /\ hookLog' = hookLog
        BY Zenon DEF passVars
  <2>2. Log' = Log /\ Strong' = Strong /\ UpTo' = UpTo
        BY <2>1, Zenon DEF Log, Strong, UpTo
  <2> QED
        BY <2>1, <2>2, Zenon DEF RunInv, Behind
<1>1. LedgerInv /\ MarkInv /\ RunInv /\ [Next]_vars => RunInv'
  <2> SUFFICES ASSUME LedgerInv, MarkInv, RunInv, [Next]_vars PROVE RunInv'
      BY Zenon
  <2>1. ASSUME NEW t \in Tx, Submit(t) PROVE RunInv'
        BY <2>1, <1>SubmitRuns, Zenon
  <2>2. ASSUME NEW exit \in {"ACCEPT", "ROLLBACK", "WASM_ERROR"}, NEW skips \in SUBSET Hashes,
               NEW again \in BOOLEAN, ExecuteHook(exit, skips, again)
        PROVE  RunInv'
        BY <2>2, <1>ExecuteRuns, Zenon
  <2>3. ASSUME NEW failures \in 0 .. 2, CheckInvariants(failures) PROVE RunInv'
        BY <2>3, <1>CheckInvariantsRuns, Zenon
  <2>4. ASSUME NEW oversize \in BOOLEAN, Commit(oversize) PROVE RunInv'
        BY <2>4, <1>CommitRuns, Zenon
  <2>5. CASE CloseLedger \/ Stop \/ UNCHANGED vars
        BY <2>5, <1>StutterRuns, Zenon DEF CloseLedger, Stop, vars
  <2> QED
        BY <2>1, <2>2, <2>3, <2>4, <2>5, <1>EndChainRuns, <1>QuietSteps, <1>EndCallbackRuns, <1>EndWeakRuns,
           <1>ReturnRuns, Zenon DEF Next
<1> QED
      BY <1>1, <1>InitRuns, LedgerSafe, MarksSafe, PTL DEF Spec

\* No hook is executed twice in one pass, and no account whose hooks ran strong
\* is asked to run weak: the two passes of doTSH, with the stakeholders computed anew
\* from the view that the transaction left, never overlap.
THEOREM HooksRunOnce == Spec => []RunOnce
<1>1. RunInv => RunOnce
  <2> SUFFICES ASSUME RunInv, NEW i \in DOMAIN hookLog, NEW j \in DOMAIN hookLog, i # j
               PROVE  /\ hookLog[i] # hookLog[j]
                      /\ hookLog[i].pass = "strong" /\ hookLog[j].pass = "weak" =>
                            hookLog[i].account # hookLog[j].account
      BY Zenon DEF RunOnce
  <2>1. hookLog[i] \in Log /\ hookLog[j] \in Log
        BY Zenon DEF Log, Range
  <2> QED
        BY <2>1, Zenon DEF RunInv, IsInjective
<1> QED
      BY <1>1, RunsSafe, PTL

\* The execution of the first hook of an account that can fire.
First(a) == [pass |-> "strong", account |-> a, pos |-> Min(CanFire(ledger, tx, a, FALSE))]

\* It has happened, if there is such a hook.
Heard(a) == CanFire(ledger, tx, a, FALSE) # {} => First(a) \in Log

\* The chain of an account is still to begin.
Waiting(a) ==
    /\ chains # <<>>
    /\ a \in Range(Tail(chains)) \/ (a = Head(chains) /\ pos = 0 /\ hookSkips = {})

\* The inductive invariant: as long as no hook has rolled back, every strong
\* stakeholder was heard or is still to be.
HeardInv ==
    /\ pc = "run" /\ pass = "strong" /\ result = "tesSUCCESS" =>
        \A a \in TSH(ledger, tx, TRUE) : Heard(a) \/ Waiting(a)
    /\ pc = "apply" => \A a \in TSH(ledger, tx, TRUE) : Heard(a)

\* HeardInv holds in every state: no chain is dropped from the strong pass.
THEOREM HeardSafe == Spec => []HeardInv

\* A chain that begins runs what can fire.
<1>RemainingIs. ASSUME LedgerInv, pc = "run", pass = "strong", NEW a \in Account, pos = 0, hookSkips = {}
                PROVE  Remaining(a) = CanFire(ledger, tx, a, FALSE)
  <2> USE <1>RemainingIs
  <2>1. view = ledger /\ ledger \in View(Int)
        BY LedgerFacts, Zenon DEF LedgerInv, Phases
  <2>2. DOMAIN ledger.hooks[a] = 1 .. Len(ledger.hooks[a]) /\ Len(ledger.hooks[a]) \in Nat
        BY <2>1, ChainIs, Zenon
  <2>3. \A i \in DOMAIN ledger.hooks[a] : i > pos
        BY <2>2
  <2>4. \A i : Runs(a, i) <=> LET s == ledger.hooks[a][i] IN s # Blank /\ tx.type \in s.hookOn
        BY <2>1, Zenon DEF Runs
  <2> QED
        BY <2>1, <2>3, <2>4, Zenon DEF Remaining, CanFire

\* One step for each action that runs strong hooks.
<1>SubmitHeard. ASSUME LedgerInv, NEW t \in Tx, Submit(t)
                PROVE  HeardInv'
  <2> USE <1>SubmitHeard
  <2>1. CASE result' # "tesSUCCESS"
    <3>1. pc' = "settle"
          BY <2>1, Zenon DEF Submit
    <3> QED
          BY <3>1, Zenon DEF HeardInv
  <2>2. CASE result' = "tesSUCCESS"
    <3>1. pos' = 0 /\ hookSkips' = {} /\ tx' = t /\ ledger' = ledger /\ pc' = "run"
          BY <2>2, Zenon DEF Submit, Begin
    <3>2. chains' \in Seq(Account) /\ TSH(ledger, t, TRUE) \subseteq Range(chains')
          BY <2>2, StrongChains, Zenon
    <3>3. TSH(ledger, tx, TRUE)' = TSH(ledger, t, TRUE)
          BY <3>1, Zenon
    <3>4. ASSUME NEW a \in Range(chains') PROVE Waiting(a)'
      <4>1. chains' # <<>>
            BY ShortInjective, Zenon
      <4>2. Range(chains') = {Head(chains')} \cup Range(Tail(chains'))
            BY <3>2, <4>1, TailIs, Zenon
      <4> QED
            BY <3>1, <3>4, <4>1, <4>2, Zenon DEF Waiting
    <3> QED
          BY <3>1, <3>2, <3>3, <3>4, Zenon DEF HeardInv
  <2> QED
        BY <2>1, <2>2, Zenon

<1>ExecuteHeard. ASSUME LedgerInv, HeardInv, NEW exit, NEW skips \in SUBSET Hashes, NEW again \in BOOLEAN,
                        ExecuteHook(exit, skips, again)
                 PROVE  HeardInv'
  <2> USE <1>ExecuteHeard
  <2>1. PICK run \in Run :
              /\ run = [pass |-> pass, account |-> Head(chains), pos |-> Min(Remaining(Head(chains)))]
              /\ Log' = Log \cup {run}
              /\ pc = "run" /\ chains # <<>>
              /\ ledger' = ledger /\ tx' = tx /\ pc' = pc /\ pass' = pass
        BY ExecuteIs, Zenon
  <2>2. CASE pass # "strong" \/ result' # "tesSUCCESS"
        BY <2>1, <2>2, Zenon DEF HeardInv
  <2>3. CASE pass = "strong" /\ result' = "tesSUCCESS"
    <3>1. chains' = chains /\ result' = result
          BY <2>3, Zenon DEF ExecuteHook
    <3>2. ASSUME NEW a \in TSH(ledger, tx, TRUE) PROVE Heard(a)' \/ Waiting(a)'
      <4>1. CASE Heard(a)
            BY <2>1, <4>1, Zenon DEF Heard, First
      <4>2. CASE a \in Range(Tail(chains))
            BY <2>1, <3>1, <4>2, Zenon DEF Waiting
      <4>3. CASE a = Head(chains) /\ pos = 0 /\ hookSkips = {}
        <5>1. a \in Account
              BY LedgerFacts, <2>1, TSHIs, Zenon
        <5>2. Remaining(a) = CanFire(ledger, tx, a, FALSE)
              BY <2>1, <2>3, <4>3, <5>1, <1>RemainingIs, Zenon
        <5>3. run = First(a)
              BY <2>1, <2>3, <4>3, <5>2, Zenon DEF First
        <5>4. First(a)' = First(a)
              BY <2>1, Zenon DEF First
        <5> QED
              BY <2>1, <5>3, <5>4, Zenon DEF Heard
      <4> QED
            BY <2>1, <2>3, <3>1, <4>1, <4>2, <4>3, Zenon DEF HeardInv, Waiting
    <3> QED
          BY <2>1, <3>2, Zenon DEF HeardInv
  <2> QED
        BY <2>2, <2>3, Zenon

<1>EndChainHeard. ASSUME LedgerInv, HeardInv, EndChain
                  PROVE  HeardInv'
  <2> USE <1>EndChainHeard
  <2>1. /\ pc = "run" /\ ledger' = ledger /\ tx' = tx /\ pc' = pc /\ pass' = pass /\ result' = result
        /\ chains # <<>> /\ chains' = Tail(chains) /\ hookLog' = hookLog /\ pos' = 0 /\ hookSkips' = {}
        /\ Remaining(Head(chains)) = {}
        BY Zenon DEF EndChain, Begin
  <2>2. chains \in Seq(Account) /\ Tail(chains) \in Seq(Account) /\ tx \in Tx /\ ledger \in View(Int)
        BY <2>1, LedgerFacts, TailIs, Zenon DEF Typed, TypeOK
  <2>3. ASSUME pass = "strong", result = "tesSUCCESS", NEW a \in TSH(ledger, tx, TRUE)
        PROVE  Heard(a)' \/ Waiting(a)'
    <3>1. CASE Heard(a)
          BY <2>1, <3>1, Zenon DEF Heard, First, Log
    <3>2. CASE a \in Range(Tail(chains))
      <4>1. Tail(chains) # <<>>
            BY <3>2, ShortInjective, Zenon
      <4>2. Range(Tail(chains)) = {Head(Tail(chains))} \cup Range(Tail(Tail(chains)))
            BY <2>2, <4>1, TailIs, Zenon
      <4> QED
            BY <2>1, <3>2, <4>1, <4>2, Zenon DEF Waiting
    <3>3. CASE a = Head(chains) /\ pos = 0 /\ hookSkips = {}
      <4>1. a \in Account
            BY <2>2, TSHIs, Zenon
      <4>2. CanFire(ledger, tx, a, FALSE) = {}
            BY <2>1, <2>3, <3>3, <4>1, <1>RemainingIs, Zenon
      <4> QED
            BY <2>1, <4>2, Zenon DEF Heard
    <3> QED
          BY <2>1, <2>3, <3>1, <3>2, <3>3, Zenon DEF HeardInv, Waiting
  <2> QED
        BY <2>1, <2>3, Zenon DEF HeardInv

<1>EndStrongHeard. ASSUME LedgerInv, HeardInv, EndStrong
                   PROVE  HeardInv'
  <2> USE <1>EndStrongHeard
  <2>1. /\ pc = "run" /\ pass = "strong" /\ chains = <<>> /\ ledger' = ledger /\ tx' = tx
        /\ hookLog' = hookLog /\ pc' = IF result = "tesSUCCESS" THEN "apply" ELSE "settle"
        BY Zenon DEF EndStrong
  <2>2. \A a : Heard(a)' <=> Heard(a)
        BY <2>1, Zenon DEF Heard, First, Log
  <2>3. result = "tesSUCCESS" => \A a \in TSH(ledger, tx, TRUE) : Heard(a)
        BY <2>1, Zenon DEF HeardInv, Waiting
  <2> QED
        BY <2>1, <2>2, <2>3, Zenon DEF HeardInv

\* Everything else neither runs strong hooks nor comes to the application.
<1>OtherHeard. ASSUME \/ \E weakTSH \in SUBSET Account : Apply(weakTSH)
                      \/ \E oversize \in BOOLEAN : Settle(oversize) \/ Commit(oversize)
                      \/ \E failures \in 0 .. 2 : CheckInvariants(failures)
                      \/ EndCallback \/ EndWeak \/ Return \/ CloseLedger
               PROVE  HeardInv'
  <2> USE <1>OtherHeard
  <2>1. pc' # "apply" /\ ~(pc' = "run" /\ pass' = "strong")
        BY Zenon DEF Apply, Settle, Commit, CheckInvariants, EndCallback, EndWeak, Return, CloseLedger, Begin
  <2> QED
        BY <2>1, Zenon DEF HeardInv

<1>StutterHeard. ASSUME HeardInv, UNCHANGED vars
                 PROVE  HeardInv'
  <2> USE <1>StutterHeard
  <2>1. /\ ledger' = ledger /\ tx' = tx /\ pc' = pc /\ pass' = pass /\ chains' = chains /\ pos' = pos
        /\ hookSkips' = hookSkips /\ result' = result /\ hookLog' = hookLog
        BY Zenon DEF vars, passVars
  <2>2. \A a : (Heard(a)' <=> Heard(a)) /\ (Waiting(a)' <=> Waiting(a))
        BY <2>1, Zenon DEF Heard, First, Log, Waiting
  <2> QED
        BY <2>1, <2>2, Zenon DEF HeardInv
<1>1. Init => HeardInv
      BY Zenon DEF Init, HeardInv
<1>2. LedgerInv /\ HeardInv /\ [Next]_vars => HeardInv'
  <2> SUFFICES ASSUME LedgerInv, HeardInv, [Next]_vars PROVE HeardInv'
      BY Zenon
  <2>1. ASSUME NEW t \in Tx, Submit(t) PROVE HeardInv'
        BY <2>1, <1>SubmitHeard, Zenon
  <2>2. ASSUME NEW exit \in {"ACCEPT", "ROLLBACK", "WASM_ERROR"}, NEW skips \in SUBSET Hashes,
               NEW again \in BOOLEAN, ExecuteHook(exit, skips, again)
        PROVE  HeardInv'
        BY <2>2, <1>ExecuteHeard, Zenon
  <2>3. CASE Stop \/ UNCHANGED vars
        BY <2>3, <1>StutterHeard, Zenon DEF Stop
  <2> QED
        BY <2>1, <2>2, <2>3, <1>EndChainHeard, <1>EndStrongHeard, <1>OtherHeard, Zenon DEF Next
<1> QED
      BY <1>1, <1>2, LedgerSafe, PTL DEF Spec

\* When a transaction is applied, every strong stakeholder with a hook that can
\* fire has had it run: doTSH leaves nobody out who may roll the transaction back.
THEOREM NobodyPassedOver == Spec => []StakeholdersHeard
<1>1. HeardInv => StakeholdersHeard
  <2> SUFFICES ASSUME HeardInv, pc = "apply", NEW i \in DOMAIN Nominated(ledger, tx),
                      NEW a, a = Nominated(ledger, tx)[i],
                      canRollback(tx, i), a # tx.account, CanFire(ledger, tx, a, FALSE) # {}
               PROVE  First(a) \in Log
      BY Zenon DEF StakeholdersHeard, First, Log
  <2>1. a \in Range(Nominated(ledger, tx)) \ {tx.account}
        BY Zenon DEF Range
  <2>2. a \in TSH(ledger, tx, TRUE)
        BY <2>1, Zenon DEF TSH, getTransactionalStakeHolders
  <2> QED
        BY <2>2, Zenon DEF HeardInv, Heard
<1> QED
      BY <1>1, HeardSafe, PTL

\* The accounts whose strong hooks the fee pays for.
Paying == (IF tx.emitted THEN {} ELSE {tx.account}) \cup TSH(ledger, tx, TRUE)

\* An execution that the fee pays for.
PaidFor(r) == r.account \in Paying /\ r.pos \in CanFire(ledger, tx, r.account, FALSE)

\* The inductive invariant: the fee was found sufficient, and what has run is part
\* of what it was computed for.
PaidInv ==
    /\ StrongHooksPaid
    /\ pc = "run" /\ pass = "strong" =>
        /\ tx.open => tx.fee >= calculateBaseFee(ledger, tx)
        /\ Range(chains) \subseteq Paying
        /\ \A r \in Log : PaidFor(r)

\* PaidInv holds in every state: calculateBaseFee counts the slots that the strong
\* pass comes to.
THEOREM PaidSafe == Spec => []PaidInv

\* The executions on one account are no more than the slots they are of.
<1>RunsOfOne. ASSUME NEW R, NEW a, NEW F, IsFiniteSet(F),
                     \A r \in R : r \in Run /\ r.pass = "strong" /\ r.account = a /\ r.pos \in F
              PROVE  IsFiniteSet(R) /\ Cardinality(R) <= Cardinality(F)
  <2> USE <1>RunsOfOne
  <2> DEFINE f == [r \in R |-> r.pos]
  <2>1. \A r, s \in R : r.pos = s.pos => r = s
        BY DEF Run
  <2>2. f \in Injection(R, F)
        BY <2>1, Zenon DEF Injection, IsInjective
  <2> QED
        BY <2>2, FS_Injection, Zenon

\* The executions on some accounts are no more than the slots of all of them.
<1>RunsOfMany. ASSUME NEW A, IsFiniteSet(A), NEW F, \A a \in A : IsFiniteSet(F[a]), NEW R,
                      \A r \in R : r \in Run /\ r.pass = "strong" /\ r.account \in A /\ r.pos \in F[r.account]
               PROVE  /\ IsFiniteSet(R)
                      /\ Cardinality(R) <= SumFunction([a \in A |-> Cardinality(F[a])])
  <2> USE <1>RunsOfMany
  <2> DEFINE f == [a \in A |-> Cardinality(F[a])]
             On(B) == {r \in R : r.account \in B}
             Bad == {B \in SUBSET A : ~(IsFiniteSet(On(B)) /\ Cardinality(On(B)) <= SumFunctionOnSet(f, B))}
  <2>1. \A a \in A : f[a] \in Nat /\ f[a] \in Int
        BY FS_CardinalityType
  <2>2. Bad = {}
    <3> SUFFICES ASSUME Bad # {} PROVE FALSE
        BY Zenon
    <3>1. PICK B \in Bad : IsFiniteSet(B) /\ \A u \in SUBSET B : u # B => u \notin Bad
      <4>1. Bad \subseteq SUBSET A
            BY Zenon
      <4> HIDE DEF Bad
      <4> QED
            BY <4>1, SmallestSet, Zenon
    <3>2. B # {}
      <4>1. On({}) = {} /\ SumFunctionOnSet(f, {}) = 0
            BY SumEmpty, Zenon
      <4>2. IsFiniteSet(On({})) /\ Cardinality(On({})) = 0
            BY <4>1, FS_EmptySet, Zenon
      <4>3. IsFiniteSet(On({})) /\ Cardinality(On({})) <= SumFunctionOnSet(f, {})
            BY <4>1, <4>2
      <4> HIDE DEF On, f
      <4> QED
            BY <4>3, Zenon
    <3>3. PICK b \in B : TRUE
          BY <3>2, Zenon
    <3> DEFINE C == B \ {b}
    <3>4. C \in SUBSET B /\ C # B /\ C \in SUBSET A /\ B \in SUBSET A
          BY <3>3, Zenon
    <3>5. IsFiniteSet(On(C)) /\ Cardinality(On(C)) <= SumFunctionOnSet(f, C)
          BY <3>1, <3>4, Zenon
    <3>6. IsFiniteSet(On({b})) /\ Cardinality(On({b})) <= Cardinality(F[b])
      <4>1. IsFiniteSet(F[b])
            BY <3>3, <3>4, Zenon
      <4>2. \A r \in On({b}) : r \in Run /\ r.pass = "strong" /\ r.account = b /\ r.pos \in F[b]
            BY Zenon
      <4> HIDE DEF On
      <4> QED
            BY <4>1, <4>2, <1>RunsOfOne, Zenon
    <3>7. SumFunctionOnSet(f, B) = f[b] + SumFunctionOnSet(f, C)
      <4>1. \A x \in B : f[x] \in Int
            BY <2>1, <3>4, Zenon
      <4> HIDE DEF f
      <4> QED
            BY <3>1, <3>3, <4>1, SumTake, Zenon
    <3>8. SumFunctionOnSet(f, C) \in Int
      <4>1. IsFiniteSet(C) /\ \A x \in C : f[x] \in Int
            BY <2>1, <3>1, <3>4, FS_Subset, Zenon
      <4> HIDE DEF f, C
      <4> QED
            BY <4>1, SumInt, Zenon
    <3>9. On(B) = On(C) \cup On({b})
          BY <3>3, Zenon
    <3>10. f[b] = Cardinality(F[b]) /\ f[b] \in Nat
          BY <2>1, <3>3, <3>4, Zenon
    <3> HIDE DEF On, f, C
    <3>11. /\ IsFiniteSet(On(B))
           /\ Cardinality(On(B)) = Cardinality(On(C)) + Cardinality(On({b})) - Cardinality(On(C) \cap On({b}))
          BY <3>5, <3>6, <3>9, FS_Union, Zenon
    <3>12. /\ Cardinality(On(C)) \in Nat /\ Cardinality(On({b})) \in Nat
           /\ Cardinality(On(C) \cap On({b})) \in Nat
          BY <3>5, <3>6, FS_CardinalityType, FS_Intersection, ZenonT(40)
    <3>13. Cardinality(On(B)) <= SumFunctionOnSet(f, B)
          BY <3>5, <3>6, <3>7, <3>8, <3>10, <3>11, <3>12, SMTT(30)
    <3> QED
          BY <3>1, <3>11, <3>13, Zenon
  <2>3. On(A) = R
        BY Zenon
  <2>4. SumFunction(f) = SumFunctionOnSet(f, A)
        BY Zenon DEF SumFunction, SumFunctionOnSet, FoldFunction
  <2>5. A \notin Bad
        BY <2>2, Zenon
  <2> QED
        BY <2>3, <2>4, <2>5, ZenonT(40)

\* The base fee covers them all.
<1>FeeCovers. ASSUME LedgerInv, tx \in Tx, NEW R, \A r \in R : r \in Run /\ r.pass = "strong" /\ PaidFor(r)
              PROVE  /\ Cardinality(R) \in Nat /\ calculateBaseFee(ledger, tx) \in Nat
                     /\ 1 + Cardinality(R) <= calculateBaseFee(ledger, tx)
  <2> USE <1>FeeCovers
  <2> DEFINE A == TSH(ledger, tx, TRUE)
             F == [a \in A |-> CanFire(ledger, tx, a, FALSE)]
             own == CanFire(ledger, tx, tx.account, FALSE)
             Q == {r \in R : r.account = tx.account}
             P == R \ Q
             c == IF ~tx.emitted THEN Cardinality(own) ELSE IF hasCallback(ledger, tx) THEN 1 ELSE 0
             d == SumFunction([a \in A |-> Cardinality(F[a])])
  <2>1. ledger \in View(Int) /\ tx.account \in Account
        BY LedgerFacts, TxFields, Zenon
  <2>2. A \subseteq Account /\ tx.account \notin A /\ IsFiniteSet(A)
        BY <2>1, TSHIs, AccountsFinite, Zenon
  <2>3. IsFiniteSet(own) /\ Cardinality(own) \in Nat /\ \A a \in A : IsFiniteSet(F[a]) /\ Cardinality(F[a]) \in Nat
        BY <2>1, <2>2, CanFireIs, FS_CardinalityType, Zenon
  <2>4. calculateBaseFee(ledger, tx) = 1 + c + d
    <3>1. [a \in A |-> Cardinality(F[a])] = [a \in A |-> calculateHookChainFee(ledger, tx, a, FALSE)]
          BY Zenon DEF calculateHookChainFee
    <3> HIDE DEF F
    <3> QED
          BY <3>1, Zenon DEF calculateBaseFee, calculateHookChainFee
  <2>5. d \in Nat
    <3> DEFINE g == [a \in A |-> Cardinality(F[a])]
    <3>1. g \in [A -> Nat]
          BY <2>3, Zenon
    <3> HIDE DEF g
    <3>2. SumFunction(g) \in Nat
          BY <2>2, <3>1, SumNat, Zenon
    <3> QED
          BY <3>2, Zenon DEF g
  <2>6. IsFiniteSet(P) /\ Cardinality(P) <= d
    <3>1. \A r \in P : r \in Run /\ r.pass = "strong" /\ r.account \in A /\ r.pos \in F[r.account]
          BY Zenon DEF PaidFor, Paying
    <3> HIDE DEF A, F, P
    <3> QED
          BY <2>2, <2>3, <3>1, <1>RunsOfMany, Zenon
  <2>7. IsFiniteSet(Q) /\ Cardinality(Q) <= c
    <3>1. CASE ~tx.emitted
      <4>1. \A r \in Q : r \in Run /\ r.pass = "strong" /\ r.account = tx.account /\ r.pos \in own
            BY Zenon DEF PaidFor
      <4> HIDE DEF Q, own
      <4>2. IsFiniteSet(Q) /\ Cardinality(Q) <= Cardinality(own)
            BY <2>3, <4>1, <1>RunsOfOne, Zenon
      <4> QED
            BY <3>1, <4>2, Zenon
    <3>2. CASE tx.emitted
      <4>1. Q = {}
            BY <2>2, <3>2, Zenon DEF PaidFor, Paying
      <4>2. c \in {0, 1}
            BY <3>2, Zenon
      <4>3. IsFiniteSet(Q) /\ Cardinality(Q) = 0
            BY <4>1, FS_EmptySet, Zenon
      <4> HIDE DEF Q, c
      <4> QED
            BY <4>2, <4>3
    <3> QED
          BY <3>1, <3>2, Zenon
  <2>8. R = P \cup Q
        BY Zenon
  <2>9. c \in Nat
        BY <2>3, Zenon
  <2> HIDE DEF P, Q, c, d
  <2>10. Cardinality(R) = Cardinality(P) + Cardinality(Q) - Cardinality(P \cap Q)
        BY <2>6, <2>7, <2>8, FS_Union, Zenon
  <2>11. Cardinality(P) \in Nat /\ Cardinality(Q) \in Nat /\ Cardinality(P \cap Q) \in Nat
        BY <2>6, <2>7, FS_CardinalityType, FS_Intersection, Zenon
  <2>12. Cardinality(R) \in Nat
        BY <2>6, <2>7, <2>8, FS_Union, FS_CardinalityType, Zenon
  <2> QED
        BY <2>4, <2>5, <2>6, <2>7, <2>9, <2>10, <2>11, <2>12

\* One step for each action that runs strong hooks.
<1>SubmitPaid. ASSUME LedgerInv, MarkInv, NEW t \in Tx, Submit(t)
               PROVE  PaidInv'
  <2> USE <1>SubmitPaid
  <2>1. hookLog' = <<>> /\ tx' = t /\ ledger' = ledger
        BY Zenon DEF Submit, MarkInv
  <2>2. Log' = {} /\ Executed({"strong"})' = {}
        BY <2>1 DEF Log, Executed, Range
  <2>3. t.open => t.fee >= calculateBaseFee(ledger, t)
        BY Zenon DEF Submit
  <2>4. calculateBaseFee(ledger, tx)' = calculateBaseFee(ledger, t) /\ hasCallback(ledger, tx)' = hasCallback(ledger, t)
        BY <2>1, Zenon
  <2>5. 1 <= calculateBaseFee(ledger, t) /\ calculateBaseFee(ledger, t) \in Nat /\ t.fee \in Nat
    <3> DEFINE A == TSH(ledger, t, TRUE)
               g == [a \in A |-> calculateHookChainFee(ledger, t, a, FALSE)]
               c == IF ~t.emitted THEN calculateHookChainFee(ledger, t, t.account, FALSE)
                    ELSE IF hasCallback(ledger, t) THEN 1 ELSE 0
    <3>1. ledger \in View(Int) /\ t.account \in Account /\ t.fee \in Nat
          BY LedgerFacts, TxFields, Zenon
    <3>2. A \subseteq Account /\ IsFiniteSet(A)
          BY <3>1, TSHIs, AccountsFinite, Zenon
    <3>3. g \in [A -> Nat] /\ c \in Nat
          BY <3>1, <3>2, CanFireIs, Zenon
    <3>4. calculateBaseFee(ledger, t) = 1 + c + SumFunction(g)
          BY Zenon DEF calculateBaseFee
    <3> HIDE DEF A, g, c
    <3>5. SumFunction(g) \in Nat
          BY <3>2, <3>3, SumNat, Zenon
    <3> QED
          BY <3>1, <3>3, <3>4, <3>5
  <2>6. StrongHooksPaid'
    <3>1. Cardinality(Executed({"strong"}))' = 0
          BY <2>2, FS_EmptySet, Zenon
    <3>2. tx'.open => 1 + 0 <= tx'.fee
          BY <2>1, <2>3, <2>5
    <3> QED
          BY <3>1, <3>2, Zenon DEF StrongHooksPaid
  <2>7. CASE result' = "tesSUCCESS"
    <3>1. Range(chains') = (IF t.emitted THEN {} ELSE {t.account}) \cup TSH(ledger, t, TRUE)
          BY <2>7, StrongChains, Zenon
    <3>2. Range(chains)' \subseteq Paying'
          BY <2>1, <3>1, Zenon DEF Paying
    <3> QED
          BY <2>1, <2>2, <2>3, <2>4, <2>6, <3>2, Zenon DEF PaidInv
  <2>8. CASE result' # "tesSUCCESS"
    <3>1. pc' = "settle"
          BY <2>8, Zenon DEF Submit
    <3> QED
          BY <2>6, <3>1, Zenon DEF PaidInv
  <2> QED
        BY <2>7, <2>8, Zenon

<1>ExecutePaid. ASSUME LedgerInv, MarkInv, PaidInv, NEW exit, NEW skips \in SUBSET Hashes, NEW again \in BOOLEAN,
                       ExecuteHook(exit, skips, again)
                PROVE  PaidInv'
  <2> USE <1>ExecutePaid
  <2>1. PICK run \in Run :
              /\ run.pass = pass /\ run.account = Head(chains)
              /\ run.pos \in Remaining(Head(chains))
              /\ Log' = Log \cup {run}
              /\ \A passes : Executed(passes)' = IF pass \in passes THEN Executed(passes) \cup {run}
                                                 ELSE Executed(passes)
              /\ pc = "run" /\ chains # <<>>
              /\ ledger' = ledger /\ tx' = tx /\ pc' = pc /\ pass' = pass
        BY ExecuteIs, Zenon
  <2>2. CASE pass # "strong"
    <3>1. Executed({"strong"})' = Executed({"strong"})
          BY <2>1, <2>2, Zenon
    <3>2. StrongHooksPaid'
          BY <2>1, <3>1, Zenon DEF PaidInv, StrongHooksPaid
    <3> QED
          BY <2>1, <2>2, <3>2, Zenon DEF PaidInv
  <2>3. CASE pass = "strong"
    <3>1. /\ tx \in Tx /\ view = ledger /\ hookLog \in Seq(Run) /\ chains \in Seq(Account)
          /\ \A r \in Log : r.pass = "strong" /\ PaidFor(r)
          /\ Range(chains) \subseteq Paying /\ (tx.open => tx.fee >= calculateBaseFee(ledger, tx))
          BY <2>1, <2>3, LedgerFacts, Zenon DEF LedgerInv, Phases, Typed, TypeOK, MarkInv, PaidInv
    <3>2. Range(chains') \subseteq Range(chains) /\ Head(chains) \in Range(chains)
      <4>1. chains' \in {chains, <<>>, Tail(chains)}
            BY Zenon DEF ExecuteHook
      <4>2. Range(<<>>) = {} /\ Range(chains) = {Head(chains)} \cup Range(Tail(chains))
            BY <2>1, <3>1, ShortInjective, TailIs, Zenon
      <4> QED
            BY <4>1, <4>2, Zenon
    <3>3. PaidFor(run)
      <4>1. run.pos \in CanFire(ledger, tx, Head(chains), FALSE)
            BY <2>1, <2>3, <3>1, Zenon DEF Remaining, Runs, CanFire
      <4> QED
            BY <2>1, <3>1, <3>2, <4>1, Zenon DEF PaidFor
    <3>4. Log \subseteq Run
          BY <3>1, SeqRange, Zenon DEF Log
    <3>5. \A r \in Log' : r \in Run /\ r.pass = "strong" /\ PaidFor(r)
          BY <2>1, <2>3, <3>1, <3>3, <3>4, Zenon
    <3>6. Executed({"strong"})' = Log'
          BY <3>5, Zenon DEF Executed, Log
    <3>7. PICK R : R = Log'
          BY Zenon
    <3>8. 1 + Cardinality(R) <= calculateBaseFee(ledger, tx)
          BY <3>1, <3>5, <3>7, <1>FeeCovers, Zenon
    <3>9. StrongHooksPaid'
      <4>1. Cardinality(R) \in Nat /\ calculateBaseFee(ledger, tx) \in Nat
            BY <3>1, <3>5, <3>7, <1>FeeCovers, Zenon
      <4>2. tx.fee \in Nat /\ (tx.open => tx.fee >= calculateBaseFee(ledger, tx))
            BY <3>1, TxFields, Zenon
      <4>3. tx.open => 1 + Cardinality(R) <= tx.fee
            BY <3>8, <4>1, <4>2
      <4> QED
            BY <2>1, <3>6, <3>7, <4>3, ZenonT(40) DEF StrongHooksPaid
    <3>10. Paying' = Paying /\ calculateBaseFee(ledger, tx)' = calculateBaseFee(ledger, tx)
           /\ \A r : PaidFor(r)' <=> PaidFor(r)
          BY <2>1, Zenon DEF Paying, PaidFor
    <3> QED
          BY <2>1, <3>1, <3>2, <3>5, <3>9, <3>10, Zenon DEF PaidInv
  <2> QED
        BY <2>2, <2>3, Zenon

<1>EndChainPaid. ASSUME LedgerInv, PaidInv, EndChain
                 PROVE  PaidInv'
  <2> USE <1>EndChainPaid
  <2>1. /\ pc = "run" /\ ledger' = ledger /\ tx' = tx /\ pc' = pc /\ pass' = pass
        /\ chains # <<>> /\ chains' = Tail(chains) /\ hookLog' = hookLog /\ chains \in Seq(Account)
        BY Zenon DEF EndChain, Begin, LedgerInv, Typed, TypeOK
  <2>2. Range(chains') \subseteq Range(chains)
        BY <2>1, TailIs, Zenon
  <2>3. /\ Paying' = Paying /\ calculateBaseFee(ledger, tx)' = calculateBaseFee(ledger, tx)
        /\ Log' = Log /\ \A r : PaidFor(r)' <=> PaidFor(r)
        BY <2>1, Zenon DEF Paying, PaidFor, Log
  <2>4. StrongHooksPaid'
        BY <2>1, Zenon DEF PaidInv, StrongHooksPaid, Executed
  <2> QED
        BY <2>1, <2>2, <2>3, <2>4, Zenon DEF PaidInv

\* Everything else runs no strong hooks.
<1>OtherPaid. ASSUME PaidInv,
                     \/ EndStrong
                     \/ \E weakTSH \in SUBSET Account : Apply(weakTSH)
                     \/ \E oversize \in BOOLEAN : Settle(oversize) \/ Commit(oversize)
                     \/ \E failures \in 0 .. 2 : CheckInvariants(failures)
                     \/ EndCallback \/ EndWeak \/ Return \/ CloseLedger
              PROVE  PaidInv'
  <2> USE <1>OtherPaid
  <2>1. ~(pc' = "run" /\ pass' = "strong") /\ (tx' = None \/ (tx' = tx /\ hookLog' = hookLog))
        BY Zenon DEF EndStrong, Apply, Settle, Commit, CheckInvariants, EndCallback, EndWeak, Return,
               CloseLedger, Begin
  <2>2. StrongHooksPaid'
        BY <2>1, Zenon DEF PaidInv, StrongHooksPaid, Executed
  <2> QED
        BY <2>1, <2>2, Zenon DEF PaidInv

<1>StutterPaid. ASSUME PaidInv, UNCHANGED vars
                PROVE  PaidInv'
  <2> USE <1>StutterPaid
  <2>1. /\ ledger' = ledger /\ tx' = tx /\ pc' = pc /\ pass' = pass /\ chains' = chains
        /\ hookLog' = hookLog
        BY Zenon DEF vars, passVars
  <2>2. /\ Paying' = Paying /\ calculateBaseFee(ledger, tx)' = calculateBaseFee(ledger, tx)
        /\ Log' = Log /\ \A r : PaidFor(r)' <=> PaidFor(r)
        BY <2>1, Zenon DEF Paying, PaidFor, Log
  <2>3. StrongHooksPaid'
        BY <2>1, Zenon DEF PaidInv, StrongHooksPaid, Executed
  <2> QED
        BY <2>1, <2>2, <2>3, Zenon DEF PaidInv
<1>1. Init => PaidInv
      BY Zenon DEF Init, PaidInv, StrongHooksPaid
<1>2. LedgerInv /\ MarkInv /\ PaidInv /\ [Next]_vars => PaidInv'
  <2> SUFFICES ASSUME LedgerInv, MarkInv, PaidInv, [Next]_vars PROVE PaidInv'
      BY Zenon
  <2>1. ASSUME NEW t \in Tx, Submit(t) PROVE PaidInv'
        BY <2>1, <1>SubmitPaid, Zenon
  <2>2. ASSUME NEW exit \in {"ACCEPT", "ROLLBACK", "WASM_ERROR"}, NEW skips \in SUBSET Hashes,
               NEW again \in BOOLEAN, ExecuteHook(exit, skips, again)
        PROVE  PaidInv'
        BY <2>2, <1>ExecutePaid, Zenon
  <2>3. CASE Stop \/ UNCHANGED vars
        BY <2>3, <1>StutterPaid, Zenon DEF Stop
  <2> QED
        BY <2>1, <2>2, <2>3, <1>EndChainPaid, <1>OtherPaid, Zenon DEF Next
<1> QED
      BY <1>1, <1>2, LedgerSafe, MarksSafe, PTL DEF Spec

\* A transaction in the open ledger pays for every strong hook it runs: the base
\* fee that preclaim requires covers the executions of the strong pass, whatever
\* the hooks answer.
THEOREM StrongHooksArePaid == Spec => []StrongHooksPaid
<1>1. PaidInv => StrongHooksPaid
      BY Zenon DEF PaidInv
<1> QED
      BY <1>1, PaidSafe, PTL
===============================================================================
