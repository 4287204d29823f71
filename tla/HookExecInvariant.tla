-------------------------- MODULE HookExecInvariant ---------------------------
(***************************************************************************)
(* The ledger of HookExec stays lawful, for any accounts, hooks and        *)
(* transactions.  Only Commit changes what the ledger holds, and it writes *)
(* a view that went through every phase of the transaction; the inductive  *)
(* invariant LedgerInv says what the view and the fee owe to the ledger in *)
(* each phase (Phases), so that Commit writes a view that may follow the   *)
(* ledger (Follows).                                                       *)
(***************************************************************************)
EXTENDS XRPObjectsProofs

\* A nonempty set of natural numbers has its minimum as a member.
LEMMA MinIn ==
    ASSUME NEW T, T \subseteq Nat, T # {}
    PROVE  Min(T) \in T /\ \A y \in T : Min(T) <= y
BY LeastNat, Zenon DEF Min

\* Where an account is nominated first.
place(noms, a) == Min({i \in DOMAIN noms : noms[i] = a})

\* Every account nominated has a first place.
LEMMA PlaceIs ==
    ASSUME NEW noms \in Seq(Account), NEW a \in Range(noms)
    PROVE  place(noms, a) \in 1 .. Len(noms) /\ noms[place(noms, a)] = a
<1> DEFINE T == {i \in DOMAIN noms : noms[i] = a}
<1>1. T \subseteq Nat /\ T # {}
      BY DEF Range
<1> HIDE DEF T
<1>2. Min(T) \in T
      BY <1>1, MinIn, Zenon
<1> QED
      BY <1>2 DEF T, place

\* The list s follows the order of the nominations.
Ordered(noms, s) == \A i, j \in DOMAIN s : i < j => place(noms, s[i]) < place(noms, s[j])

\* Some of the accounts nominated can be listed in their order, each once.
LEMMA OrderExists ==
    ASSUME NEW noms \in Seq(Account), NEW A, A \subseteq Range(noms)
    PROVE  IsFiniteSet(A) /\ \E s \in Lists(A) : Ordered(noms, s)
<1> DEFINE N == Len(noms)
           Upto(n) == {a \in A : place(noms, a) <= n}
           Good(n) == IsFiniteSet(Upto(n)) /\ \E s \in Lists(Upto(n)) : Ordered(noms, s)
           T == {n \in 0 .. N : ~Good(n)}
<1>0. N \in Nat
      OBVIOUS
<1>1. \A a \in A : place(noms, a) \in 1 .. N /\ noms[place(noms, a)] = a
      BY PlaceIs, Zenon
<1>2. Upto(N) = A
      BY <1>0, <1>1
<1>3. SUFFICES ASSUME T # {} PROVE FALSE
  <2>1. Good(N)
    <3> HIDE DEF Good, N
    <3> QED
        BY <1>0, <1>3
  <2> QED
        BY <1>2, <2>1, Zenon
<1>4. PICK n \in T : \A m \in T : n <= m
  <2>1. T \subseteq Nat
        BY <1>0
  <2> HIDE DEF T
  <2> QED
        BY <1>3, <2>1, LeastNat, Zenon
<1>5. n \in 0 .. N /\ ~Good(n) /\ (n > 0 => Good(n - 1))
  <2> HIDE DEF Good, N
  <2> QED
      BY <1>0, <1>4
<1> HIDE DEF T, N
<1>6. CASE n = 0
  <2>1. Upto(0) = {}
        BY <1>0, <1>1
  <2>2. IsFiniteSet({}) /\ Cardinality({}) = 0
        BY FS_EmptySet, Zenon
  <2>3. <<>> \in Lists({})
        BY <2>2 DEF Lists, Injection, IsInjective
  <2>4. Ordered(noms, <<>>)
        BY DEF Ordered
  <2> QED
        BY <1>5, <1>6, <2>1, <2>2, <2>3, <2>4, Zenon
<1>7. CASE n > 0 /\ ~ \E a \in A : place(noms, a) = n
  <2>1. Upto(n) = Upto(n - 1)
        BY <1>0, <1>1, <1>5, <1>7
  <2> HIDE DEF Upto
  <2> QED
        BY <1>5, <1>7, <2>1, Zenon
<1>8. CASE n > 0 /\ \E a \in A : place(noms, a) = n
  <2>1. PICK a \in A : place(noms, a) = n
        BY <1>8, Zenon
  <2>2. Upto(n) = Upto(n - 1) \cup {a} /\ a \notin Upto(n - 1)
        BY <1>0, <1>1, <1>5, <1>8, <2>1
  <2>3. \A b \in Upto(n - 1) : place(noms, b) \in Nat /\ place(noms, b) < n
        BY <1>0, <1>1, <1>5, <1>8
  <2>4. IsFiniteSet(Upto(n - 1))
        BY <1>5, <1>8, Zenon
  <2>5. PICK s \in Lists(Upto(n - 1)) : Ordered(noms, s)
        BY <1>5, <1>8, Zenon
  <2> DEFINE k == Cardinality(Upto(n - 1))
             t == [i \in 1 .. k + 1 |-> IF i = k + 1 THEN a ELSE s[i]]
  <2> HIDE DEF Upto
  <2>6. IsFiniteSet(Upto(n)) /\ Cardinality(Upto(n)) = k + 1 /\ k \in Nat
        BY <2>2, <2>4, FS_AddElement, FS_CardinalityType
  <2>7. s \in [1 .. k -> Upto(n - 1)] /\ \A i, j \in 1 .. k : i # j => s[i] # s[j]
        BY <2>5, Zenon DEF Lists, Injection, IsInjective
  <2> HIDE DEF k
  <2>8. t \in [1 .. k + 1 -> Upto(n)]
        BY <2>2, <2>6, <2>7
  <2>9. \A i, j \in 1 .. k + 1 : i # j => t[i] # t[j]
        BY <2>2, <2>6, <2>7
  <2>10. t \in Lists(Upto(n))
        BY <2>6, <2>8, <2>9, Zenon DEF Lists, Injection, IsInjective
  <2>11. ASSUME NEW i \in 1 .. k + 1, NEW j \in 1 .. k + 1, i < j
         PROVE  place(noms, t[i]) < place(noms, t[j])
    <3>1. i \in 1 .. k /\ t[i] = s[i] /\ s[i] \in Upto(n - 1)
          BY <2>6, <2>7, <2>11
    <3>2. CASE j = k + 1
          BY <2>1, <2>3, <2>6, <3>1, <3>2, Zenon
    <3>3. CASE j # k + 1
      <4>1. j \in 1 .. k /\ t[j] = s[j]
            BY <2>6, <3>3
      <4> QED
            BY <2>5, <2>7, <2>11, <3>1, <4>1, Zenon DEF Ordered
    <3> QED
          BY <3>2, <3>3, Zenon
  <2>12. DOMAIN t = 1 .. k + 1
        BY Zenon
  <2> HIDE DEF t
  <2>13. Ordered(noms, t)
        BY <2>11, <2>12, Zenon DEF Ordered
  <2> QED
        BY <1>5, <2>6, <2>10, <2>13, Zenon
<1> QED
    BY <1>0, <1>5, <1>6, <1>7, <1>8

\* InOrder, which stands for the loop over the stakeholders in Transactor::doTSH
\* and calculateBaseFee, lists every account of its argument once.
LEMMA InOrderIs ==
    ASSUME NEW noms \in Seq(Account), NEW A, A \subseteq Range(noms)
    PROVE  /\ InOrder(noms, A) \in Seq(A)
           /\ Range(InOrder(noms, A)) = A
           /\ IsInjective(InOrder(noms, A))
<1> DEFINE s == InOrder(noms, A)
           n == Cardinality(A)
<1>1. IsFiniteSet(A) /\ s \in Lists(A)
  <2>1. s = CHOOSE e \in Lists(A) : Ordered(noms, e)
        BY Zenon DEF InOrder, Ordered, place
  <2> HIDE DEF s
  <2> QED
        BY <2>1, OrderExists, Zenon
<1> HIDE DEF s, n
<1>2. s \in [1 .. n -> A] /\ \A i, j \in 1 .. n : i # j => s[i] # s[j]
      BY <1>1, Zenon DEF Lists, Injection, IsInjective, n
<1>3. n \in Nat
      BY <1>1, FS_CardinalityType, Zenon DEF n
<1>4. s \in Seq(A)
      BY <1>2, <1>3
<1>5. s \in Injection(1 .. n, A) /\ IsInjective(s)
      BY <1>2, Zenon DEF Injection, IsInjective
<1>6. Cardinality(1 .. n) = n
      BY <1>3, FS_Interval
<1>7. s \in Surjection(1 .. n, A)
      BY <1>1, <1>5, <1>6, FS_Injection, Zenon DEF n
<1>8. Range(s) = A
      BY <1>2, <1>7 DEF Range, Surjection
<1> QED
      BY <1>4, <1>5, <1>8, Zenon DEF s

\* AnyOrder lists elements of its argument, none twice.
LEMMA AnyOrderIs ==
    ASSUME NEW A, IsFiniteSet(A)
    PROVE  AnyOrder(A) \in Seq(A) /\ IsInjective(AnyOrder(A))
<1>1. Cardinality(A) \in Nat /\ ExistsBijection(1 .. Cardinality(A), A)
      BY FS_CardinalityType, Zenon
<1>2. \E f \in [1 .. Cardinality(A) -> A] : IsInjective(f)
      BY <1>1, Zenon DEF ExistsBijection, Bijection, Injection
<1>3. AnyOrder(A) \in [1 .. Cardinality(A) -> A] /\ IsInjective(AnyOrder(A))
      BY <1>2, Zenon DEF AnyOrder, Lists, Injection
<1> QED
      BY <1>1, <1>3

\* A sum of natural numbers is one.
LEMMA SumNat ==
    ASSUME NEW S, IsFiniteSet(S), NEW f \in [S -> Nat]
    PROVE  SumFunction(f) \in Nat
<1> DEFINE Good(u) == SumFunctionOnSet(f, u) \in Nat
           T == {u \in SUBSET S : ~Good(u)}
<1>1. T = {}
  <2> SUFFICES ASSUME T # {} PROVE FALSE
      BY Zenon
  <2>1. T \subseteq SUBSET S
        BY Zenon
  <2>2. PICK u \in T : IsFiniteSet(u) /\ \A x \in SUBSET u : x # u => x \notin T
    <3> HIDE DEF T
    <3> QED
        BY <2>1, SmallestSet, Zenon
  <2>3. u \subseteq S /\ ~Good(u)
        BY Zenon
  <2>4. u # {}
        BY <2>3, SumEmpty
  <2>5. PICK y \in u : TRUE
        BY <2>4, Zenon
  <2>6. u \ {y} \in SUBSET u /\ u \ {y} # u
        BY <2>5, Zenon
  <2>7. Good(u \ {y})
        BY <2>2, <2>3, <2>6, Zenon
  <2>8. \A x \in u : f[x] \in Int
        BY <2>3
  <2>9. SumFunctionOnSet(f, u) = f[y] + SumFunctionOnSet(f, u \ {y})
        BY <2>2, <2>5, <2>8, SumTake, Zenon
  <2>10. f[y] \in Nat
        BY <2>3, <2>5, Zenon
  <2> QED
        BY <2>3, <2>7, <2>9, <2>10
<1>2. Good(S)
      BY <1>1, Zenon
<1> QED
      BY <1>2, Zenon DEF SumFunction

\* A view whose balances are not negative is a view.
LEMMA ViewNat == View(Nat) \subseteq View(Int)
BY DEF View

\* A view that differs from another in what hooks left there, at most.
Marked(v, w) == w = [v EXCEPT !.state = w.state, !.emissions = w.emissions]

\* Finalize writes the state and the emissions of the runs, and nothing else.
LEMMA FinalizeIs ==
    ASSUME NEW D, NEW v \in View(D), NEW runs \in SUBSET Run, NEW x, NEW y,
           NEW w, w = Finalize(v, runs, x, y)
    PROVE  /\ w \in View(D) /\ Marked(v, w)
           /\ w.state = IF x THEN v.state \cup runs ELSE v.state
           /\ w.emissions = IF y /\ ~tx.open THEN v.emissions \cup runs ELSE v.emissions
<1>1. v.state \subseteq Run /\ v.emissions \subseteq Run
      BY Zenon DEF View
<1>2. w.state = IF x THEN v.state \cup runs ELSE v.state
      BY Zenon DEF Finalize, View
<1>3. w.emissions = IF y /\ ~tx.open THEN v.emissions \cup runs ELSE v.emissions
      BY Zenon DEF Finalize, View
<1>4. w.state \in SUBSET Run /\ w.emissions \in SUBSET Run
      BY <1>1, <1>2, <1>3, Zenon
<1>5. w = [v EXCEPT !.state = w.state, !.emissions = w.emissions]
  <2>1. w = [v EXCEPT !.state = IF x THEN v.state \cup runs ELSE v.state,
                      !.emissions = IF y /\ ~tx.open THEN v.emissions \cup runs ELSE v.emissions]
        BY Zenon DEF Finalize, View
  <2> QED
        BY <1>2, <1>3, <2>1, Zenon
<1>6. [v EXCEPT !.state = w.state, !.emissions = w.emissions] \in View(D)
      BY <1>4, Zenon DEF View
<1>7. w \in View(D)
      BY <1>5, <1>6, Zenon
<1> QED
      BY <1>2, <1>3, <1>5, <1>7, Zenon DEF Marked

\* Marks are worth nothing.
LEMMA MarksWorth ==
    ASSUME NEW v \in View(Int), NEW w, Marked(v, w)
    PROVE  /\ w.balance = v.balance /\ w.object = v.object /\ w.ownerCount = v.ownerCount
           /\ w.hooks = v.hooks /\ w.token = v.token /\ w.done = v.done /\ w.emittedTxn = v.emittedTxn
           /\ w.dropsDestroyed = v.dropsDestroyed /\ Worth(w) = Worth(v)
<1> DEFINE x == w.state
           y == w.emissions
<1>1. w = [v EXCEPT !.state = x, !.emissions = y]
      BY Zenon DEF Marked
<1> HIDE DEF x, y
<1>2. /\ w.balance = v.balance /\ w.object = v.object /\ w.ownerCount = v.ownerCount
      /\ w.hooks = v.hooks /\ w.token = v.token /\ w.done = v.done /\ w.emittedTxn = v.emittedTxn
      /\ w.dropsDestroyed = v.dropsDestroyed
      BY <1>1, Zenon DEF View
<1> QED
      BY <1>2, Zenon DEF Worth, Held

\* The accounts nominated are accounts.
LEMMA NominatedIs ==
    ASSUME NEW v \in View(Int), NEW t \in Tx
    PROVE  Nominated(v, t) \in Seq(Account)
<1>1. v.object \in [Kind -> Object \cup {None}] /\ kindOf(t) \in Kind
      BY Zenon DEF View, kindOf, Kind
<1>2. t.parties \in Seq(Account)
      BY HookExecAssumption, Zenon
<1>3. v.object[kindOf(t)] # None => <<v.object[kindOf(t)].owner, v.object[kindOf(t)].dest>> \in Seq(Account)
      BY <1>1 DEF Object
<1>4. <<>> \in Seq(Account)
      OBVIOUS
<1> QED
      BY <1>2, <1>3, <1>4, Zenon DEF Nominated

\* The stakeholders are accounts nominated, and not the one who sent the
\* transaction.
LEMMA TSHIs ==
    ASSUME NEW v \in View(Int), NEW t \in Tx, NEW strong
    PROVE  /\ TSH(v, t, strong) \subseteq Range(Nominated(v, t)) \ {t.account}
           /\ TSH(v, t, strong) \subseteq Account
           /\ DOMAIN getTransactionalStakeHolders(v, t) = Range(Nominated(v, t)) \ {t.account}
<1>1. Range(Nominated(v, t)) \subseteq Account
      BY NominatedIs DEF Range
<1> QED
      BY <1>1, Zenon DEF TSH, getTransactionalStakeHolders

\* Some accounts are finitely many.
LEMMA AccountsFinite ==
    ASSUME NEW A, A \subseteq Account
    PROVE  IsFiniteSet(A)
BY XRPObjectsAssumption, FS_Subset, Zenon

\* The hooks of an account are a chain of slots.
LEMMA ChainIs ==
    ASSUME NEW D, NEW v \in View(D), NEW a \in Account
    PROVE  v.hooks[a] \in Chain /\ Len(v.hooks[a]) \in Nat /\ DOMAIN v.hooks[a] = 1 .. Len(v.hooks[a])
<1>1. v.hooks[a] \in Chain
      BY Zenon DEF View
<1> QED
      BY <1>1, HookExecAssumption, Zenon

\* The hooks that can fire are slots of the chain, and their fee is a number.
LEMMA CanFireIs ==
    ASSUME NEW D, NEW v \in View(D), NEW t, NEW a \in Account, NEW only
    PROVE  /\ CanFire(v, t, a, only) \subseteq 1 .. Len(v.hooks[a])
           /\ IsFiniteSet(CanFire(v, t, a, only))
           /\ calculateHookChainFee(v, t, a, only) \in Nat
<1>1. CanFire(v, t, a, only) \subseteq 1 .. Len(v.hooks[a])
      BY ChainIs, Zenon DEF CanFire
<1>2. Len(v.hooks[a]) \in Int
      BY ChainIs
<1>3. IsFiniteSet(1 .. Len(v.hooks[a]))
      BY <1>2, FS_Interval
<1>4. IsFiniteSet(CanFire(v, t, a, only))
      BY <1>1, <1>3, FS_Subset, Zenon
<1>5. Cardinality(CanFire(v, t, a, only)) \in Nat
      BY <1>4, FS_CardinalityType, Zenon
<1> QED
      BY <1>1, <1>4, <1>5, Zenon DEF calculateHookChainFee

\* What a transaction has established before it is applied.
Ready(l, t) ==
    /\ t.type \in CreatesObject => l.object[kindOf(t)] = None
    /\ t.type = "ttCHECK_CASH" /\ l.object["check"] # None => l.object["check"].dest = t.account

\* A view that may become the ledger after l.
Follows(l, t, n, w) ==
    /\ Exact(w) /\ Sound(w.object) /\ SameParties(l, w)
    /\ MovesXRP(t) => Deposits(l, t, w)
    /\ Settles(l, t, n, w)

\* The types, those of the variables that TypeOK leaves unbounded included.
Typed == TypeOK /\ pos \in Nat /\ hookLog \in Seq(Run)

\* There is a transaction except between two; only one that crosses offers asks
\* for more weak stakeholders.
TxKnown ==
    /\ IF pc = "idle" THEN tx = None /\ view = ledger ELSE tx \in Tx
    /\ additionalWeakTSH # {} => pc # "idle" /\ CrossesOffers(tx)

\* What the view and the fee owe to the ledger in each phase of a transaction.
Phases ==
    /\ pc = "run" /\ pass = "strong" => view = ledger /\ fee = tx.fee /\ Ready(ledger, tx)
    /\ pc = "apply" =>
        /\ Marked(ledger, view) /\ fee = tx.fee /\ Ready(ledger, tx)
    /\ pc = "settle" =>
        /\ fee = tx.fee
        /\ result = "tesSUCCESS" => Worth(view) + fee = Worth(ledger) /\ Follows(ledger, tx, now, view)
    /\ pc = "invariants" => Follows(ledger, tx, now, view)
    /\ pc = "run" /\ pass # "strong" =>
        /\ Follows(ledger, tx, now, view)
        /\ Worth(view) + fee = Worth(ledger)
        /\ \A a \in Account : view.balance[a] >= 0

\* The inductive invariant.
LedgerInv == Typed /\ Exact(ledger) /\ Sound(ledger.object) /\ TxKnown /\ Phases

\* A view in which accounts only lost XRP may become the ledger.
LEMMA LessFollows ==
    ASSUME NEW l \in View(Int), Exact(l), Sound(l.object), NEW t, NEW n, NEW w \in View(Int),
           w.object = l.object, w.ownerCount = l.ownerCount,
           \A a \in Account : w.balance[a] <= l.balance[a]
    PROVE  Follows(l, t, n, w)
<1>1. Exact(w) /\ Sound(w.object)
      BY Zenon DEF Exact
<1>2. SameParties(l, w)
      BY Zenon DEF SameParties
<1>3. Settles(l, t, n, w)
      BY ChannelKept, Zenon
<1>4. \A a \in Account : w.balance[a] \in Int /\ l.balance[a] \in Int
      BY Zenon DEF View
<1>5. Deposits(l, t, w)
      BY <1>4 DEF Deposits
<1> QED
      BY <1>1, <1>2, <1>3, <1>5, Zenon DEF Follows

\* Transactor::reset: the ledger, less a fee that the account can pay.
LEMMA ResetIs ==
    ASSUME Typed, tx \in Tx, NEW f \in Nat
    PROVE  /\ resetFee(f) \in Nat
           /\ resetView(f) \in View(Nat)
           /\ resetView(f).object = ledger.object /\ resetView(f).ownerCount = ledger.ownerCount
           /\ resetView(f).done = ledger.done /\ resetView(f).state = ledger.state
           /\ resetView(f).emissions = ledger.emissions /\ resetView(f).emittedTxn = ledger.emittedTxn
           /\ \A a \in Account : resetView(f).balance[a] <= ledger.balance[a]
<1> DEFINE b == ledger.balance[tx.account]
           r == resetFee(f)
           w == resetView(f)
<1>1. ledger \in View(Nat) /\ tx.account \in Account
      BY TxFields, Zenon DEF Typed, TypeOK
<1>2. ledger.balance \in [Account -> Nat] /\ b \in Nat
      BY <1>1, Zenon DEF View
<1>3. r = IF f <= b THEN f ELSE b
      BY <1>2, MinPair DEF resetFee
<1> HIDE DEF r
<1>4. r \in Nat /\ b - r \in Nat
      BY <1>2, <1>3
<1>5. w = [ledger EXCEPT !.balance = [ledger.balance EXCEPT ![tx.account] = b - r]]
      BY <1>1, Zenon DEF resetView, r, View
<1>6. [ledger.balance EXCEPT ![tx.account] = b - r] \in [Account -> Nat]
      BY <1>2, <1>4, Zenon
<1> HIDE DEF w
<1>7. w \in View(Nat)
      BY <1>1, <1>5, <1>6, Zenon DEF View
<1>8. /\ w.object = ledger.object /\ w.ownerCount = ledger.ownerCount
      /\ w.done = ledger.done /\ w.state = ledger.state
      /\ w.emissions = ledger.emissions /\ w.emittedTxn = ledger.emittedTxn
      /\ w.balance = [ledger.balance EXCEPT ![tx.account] = b - r]
      BY <1>1, <1>5, Zenon DEF View
<1>9. \A a \in Account : w.balance[a] <= ledger.balance[a]
      BY <1>1, <1>2, <1>4, <1>8
<1> QED
      BY <1>4, <1>7, <1>8, <1>9, Zenon DEF r, w

\* The view that doApply starts from.
Paid(v, t) == [v EXCEPT !.balance[t.account] = @ - t.fee, !.done = TRUE]

\* payFee and the transactor start from the view less the fee.
LEMMA PaidIs ==
    ASSUME NEW v \in View(Int), NEW t \in Tx,
           NEW paid, paid = Paid(v, t)
    PROVE  /\ paid \in View(Int) /\ paid.object = v.object /\ paid.ownerCount = v.ownerCount
           /\ paid.balance = [v.balance EXCEPT ![t.account] = @ - t.fee]
           /\ paid.done = TRUE /\ paid.state = v.state /\ paid.emittedTxn = v.emittedTxn
           /\ Worth(paid) + t.fee = Worth(v)
<1> DEFINE u == Credit(v, t.account, -t.fee)
<1>1. t.account \in Account /\ t.fee \in Nat /\ v.balance \in [Account -> Int]
      BY TxFields, Zenon DEF View
<1>2. /\ u \in View(Int) /\ u.balance = [v.balance EXCEPT ![t.account] = @ + -t.fee]
      /\ u.object = v.object /\ u.ownerCount = v.ownerCount /\ SameMarks(v, u)
      /\ Worth(u) = Worth(v) + -t.fee
  <2>1. t.account \in Account /\ -t.fee \in Int
        BY <1>1
  <2>2. Credits(v, u, t.account, -t.fee)
        BY <2>1, CreditIs, Zenon
  <2> QED
        BY <2>2, Zenon DEF Credits
<1>3. u.balance = [v.balance EXCEPT ![t.account] = @ - t.fee]
      BY <1>1, <1>2, Zenon
<1>4. paid = [v EXCEPT !.balance = [v.balance EXCEPT ![t.account] = v.balance[t.account] - t.fee], !.done = TRUE]
      BY Zenon DEF View, Paid
<1>5. [v.balance EXCEPT ![t.account] = v.balance[t.account] - t.fee] \in [Account -> Int]
      BY <1>1
<1>6. paid \in View(Int)
      BY <1>4, <1>5, Zenon DEF View
<1>7. /\ paid.object = v.object /\ paid.ownerCount = v.ownerCount
      /\ paid.balance = [v.balance EXCEPT ![t.account] = @ - t.fee]
      /\ paid.done = TRUE /\ paid.state = v.state /\ paid.emittedTxn = v.emittedTxn
      /\ paid.dropsDestroyed = v.dropsDestroyed
      BY <1>4, Zenon DEF View
<1> HIDE DEF u
<1>8. Worth(paid) = Worth(u)
      BY <1>2, <1>3, <1>7 DEF Worth, Held, SameMarks
<1>9. Worth(v) \in Int
      BY WorthParts, Zenon
<1> QED
      BY <1>1, <1>2, <1>6, <1>7, <1>8, <1>9

\* What doApply of a transaction that moves XRP leaves, if it succeeds, may
\* become the ledger.
LEMMA MovedFollows ==
    ASSUME NEW l \in View(Int), Exact(l), Sound(l.object), NEW t \in Tx, MovesXRP(t), NEW n \in Nat,
           Ready(l, t), NEW paid \in View(Int), paid.object = l.object, paid.ownerCount = l.ownerCount,
           paid.balance = [l.balance EXCEPT ![t.account] = @ - t.fee],
           Worth(paid) + t.fee = Worth(l),
           NEW o \in doApply(paid, t, n)
    PROVE  /\ o.view \in View(Int) /\ SameMarks(paid, o.view)
           /\ o.ter = "tesSUCCESS" => Worth(o.view) + t.fee = Worth(l) /\ Follows(l, t, n, o.view)
<1>2. Exact(paid) /\ Sound(paid.object)
      BY Zenon DEF Exact
<1>3. t.type \in CreatesObject => paid.object[kindOf(t)] = None
      BY Zenon DEF Ready
<1>4. t.type = "ttCHECK_CASH" /\ paid.object["check"] # None => paid.object["check"].dest = t.account
      BY Zenon DEF Ready
<1>5. Lawful(paid, t, n, o)
  <2>1. Applicable(paid, t)
        BY <1>2, <1>3, <1>4, Zenon DEF Applicable
  <2> QED
        BY <2>1, DoApplyLawful, Zenon
<1>6. o.view \in View(Int) /\ SameMarks(paid, o.view) /\ SameParties(paid, o.view)
      BY <1>5, Zenon DEF Lawful
<1>7. ASSUME o.ter = "tesSUCCESS"
      PROVE  Worth(o.view) + t.fee = Worth(l) /\ Follows(l, t, n, o.view)
  <2> DEFINE w == o.view
  <2>1. /\ Worth(w) = Worth(paid) /\ Exact(w) /\ Sound(w.object)
        /\ Deposits(paid, t, w) /\ Settles(paid, t, n, w)
        BY <1>5, <1>7, Zenon DEF Lawful
  <2> HIDE DEF w
  <2>2. SameParties(l, w)
        BY <1>6, Zenon DEF SameParties, w
  <2>3. l.balance \in [Account -> Int] /\ w.balance \in [Account -> Int] /\ t.account \in Account /\ t.fee \in Nat
        BY <1>6, TxFields, Zenon DEF View, w
  <2>4. \A a \in Account : a # t.account => paid.balance[a] = l.balance[a]
        BY <2>3, Zenon
  <2>5. paid.balance[t.account] = l.balance[t.account] - t.fee
        BY <2>3, Zenon
  <2>6. Deposits(l, t, w)
    <3> SUFFICES ASSUME NEW a \in Account, w.balance[a] > l.balance[a], ~Authorized(a, t.account)
                 PROVE  \/ \E k \in Owned(l.object, a) : w.object[k] = None
                        \/ /\ t.type = "ttPAYMENT"
                           /\ l.balance[a] <= accountReserve(0) /\ t.amount <= accountReserve(0)
        BY Zenon DEF Deposits
    <3>1. a # t.account
          BY Zenon DEF Authorized
    <3>2. paid.balance[a] = l.balance[a]
          BY <2>4, <3>1, ZenonT(40)
    <3> QED
          BY <2>1, <3>2, Zenon DEF Deposits
  <2>7. Settles(l, t, n, w)
    <3> DEFINE c == l.object["channel"]
    <3>1. c # None => c.dest \in Account
          BY KindMembers, Zenon DEF View, Object
    <3>2. c # None /\ t.account # c.dest => paid.balance[c.dest] = l.balance[c.dest]
          BY <2>4, <3>1, Zenon
    <3> QED
          BY <2>1, <3>2 DEF Settles
  <2>8. Worth(w) + t.fee = Worth(l)
        BY <2>1, Zenon
  <2> QED
        BY <2>1, <2>2, <2>6, <2>7, <2>8, Zenon DEF Follows, w
<1> QED
      BY <1>6, <1>7, Zenon

\* What doApply of another transaction leaves may become the ledger.
LEMMA OtherFollows ==
    ASSUME NEW l \in View(Int), Exact(l), Sound(l.object), NEW t \in Tx, NEW n \in Nat,
           NEW paid \in View(Int), paid.object = l.object, paid.ownerCount = l.ownerCount,
           paid.balance = [l.balance EXCEPT ![t.account] = @ - t.fee],
           Worth(paid) + t.fee = Worth(l),
           NEW o \in otherApply(paid, t)
    PROVE  /\ o.view \in View(Int)
           /\ o.view.done = paid.done /\ o.view.state = paid.state
           /\ o.view.emittedTxn = paid.emittedTxn
           /\ Worth(o.view) + t.fee = Worth(l) /\ Follows(l, t, n, o.view)
<1>2. t.account \in Account /\ t.fee \in Nat /\ l.balance \in [Account -> Int]
      BY TxFields, Zenon DEF View
<1>3. PICK kept \in BOOLEAN, chain \in Chain :
          o.view = [paid EXCEPT !.token = kept, !.hooks[t.account] = chain]
  <2> DEFINE installed == IF t.type = "ttHOOK_SET" THEN Chain ELSE {paid.hooks[t.account]}
             kept == t.type \notin RemovesToken
  <2>1. o.view \in {[paid EXCEPT !.token = kept, !.hooks[t.account] = chain] : chain \in installed}
        BY Zenon DEF otherApply
  <2>2. paid.hooks[t.account] \in Chain
        BY <1>2, Zenon DEF View
  <2>3. installed \subseteq Chain /\ kept \in BOOLEAN
        BY <2>2, Zenon
  <2> HIDE DEF installed, kept
  <2> QED
        BY <2>1, <2>3, Zenon
<1> DEFINE w == o.view
           hooks == [paid.hooks EXCEPT ![t.account] = chain]
<1>4. w = [paid EXCEPT !.token = kept, !.hooks = hooks]
      BY <1>3, Zenon DEF View
<1>5. hooks \in [Account -> Chain]
      BY <1>2, Zenon DEF View
<1> HIDE DEF w, hooks
<1>6. /\ w \in View(Int) /\ w.object = l.object /\ w.ownerCount = l.ownerCount
      /\ w.balance = paid.balance /\ w.dropsDestroyed = paid.dropsDestroyed
      /\ w.done = paid.done /\ w.state = paid.state /\ w.emittedTxn = paid.emittedTxn
      BY <1>4, <1>5, Zenon DEF View
<1>7. Worth(w) = Worth(paid)
      BY <1>6, ZenonT(40) DEF Worth, Held
<1>8. \A a \in Account : w.balance[a] <= l.balance[a]
      BY <1>2, <1>6
<1>9. Follows(l, t, n, w)
      BY <1>6, <1>8, LessFollows, Zenon
<1> QED
      BY <1>6, <1>7, <1>9, Zenon DEF w

\* The parties named in a later view are those named in the ledger, or nobody.
LEMMA NominatedAgree ==
    ASSUME NEW l, NEW t, NEW w, SameParties(l, w)
    PROVE  \/ Nominated(w, t) = Nominated(l, t)
           \/ Nominated(w, t) = <<>>
           \/ Nominated(l, t) = <<>>
<1>1. kindOf(t) \in Kind
      BY Zenon DEF kindOf, Kind
<1>2. CASE t.type \in NamesParties
      BY <1>2 DEF Nominated
<1>3. CASE t.type \in ReadsObject /\ t.type \notin NamesParties
  <2>1. t.type \notin ReadsToken \cup {"ttNFTOKEN_CANCEL_OFFER"}
        BY <1>3, Zenon DEF ReadsObject, ReadsToken
  <2>2. \A v : Nominated(v, t) = IF v.object[kindOf(t)] # None
                                 THEN <<v.object[kindOf(t)].owner, v.object[kindOf(t)].dest>> ELSE <<>>
        BY <1>3, <2>1, Zenon DEF Nominated
  <2> QED
        BY <1>1, <2>2, Zenon DEF SameParties
<1>4. CASE t.type \notin ReadsObject /\ t.type \notin NamesParties
  <2>1. \A v : Nominated(v, t) \in {t.parties, <<>>}
        BY <1>4, Zenon DEF Nominated
  <2> QED
        BY <2>1, Zenon
<1> QED
      BY <1>2, <1>3, <1>4, Zenon

\* The weak stakeholders are accounts, and not the one who sent the transaction.
LEMMA WeakIs ==
    ASSUME Typed, tx \in Tx
    PROVE  WeakTSH \subseteq Account \ {tx.account}
<1>1. view \in View(Int) /\ additionalWeakTSH \subseteq Account
      BY Zenon DEF Typed, TypeOK
<1>2. TSH(view, tx, FALSE) \subseteq Range(Nominated(view, tx)) \ {tx.account} /\ TSH(view, tx, FALSE) \subseteq Account
      BY <1>1, TSHIs, Zenon
<1> QED
      BY <1>1, <1>2, Zenon DEF WeakTSH

\* What the weak chain of an account pays.
Due(a) == IF a \in WeakTSH /\ PaysForWeak(a) THEN calculateHookChainFee(view, tx, a, TRUE) ELSE 0

\* An account pays no more for its weak chain than it has.
LEMMA DueIs ==
    ASSUME Typed, tx \in Tx, NEW a \in Account
    PROVE  Due(a) \in Nat /\ (view.balance[a] >= 0 => Due(a) <= view.balance[a])
<1>1. view \in View(Int)
      BY Zenon DEF Typed, TypeOK
<1>2. calculateHookChainFee(view, tx, a, TRUE) \in Nat
      BY <1>1, CanFireIs, Zenon
<1>3. view.balance[a] \in Int /\ view.ownerCount[a] \in Nat
      BY <1>1, Zenon DEF View
<1>4. accountReserve(view.ownerCount[a]) \in Nat
      BY <1>3, XRPObjectsAssumption DEF accountReserve
<1>5. PaysForWeak(a) => calculateHookChainFee(view, tx, a, TRUE) + accountReserve(view.ownerCount[a]) <= view.balance[a]
      BY Zenon DEF PaysForWeak
<1>6. PaysForWeak(a) => calculateHookChainFee(view, tx, a, TRUE) <= view.balance[a]
  <2>1. \A x, y \in Nat, z \in Int : x + y <= z => x <= z
        OBVIOUS
  <2> QED
        BY <1>2, <1>3, <1>4, <1>5, <2>1, Zenon
<1> QED
      BY <1>2, <1>3, <1>6, Zenon DEF Due

\* The view after the weak chains have paid: what the accounts lost is destroyed.
LEMMA ChargedIs ==
    ASSUME Typed, tx \in Tx, EndCallback
    PROVE  /\ view' \in View(Int) /\ view'.object = view.object /\ view'.ownerCount = view.ownerCount
           /\ view'.done = view.done /\ view'.state = view.state /\ view'.emissions = view.emissions
           /\ view'.emittedTxn = (view.emittedTxn /\ ~tx.emitted)
           /\ view'.balance = [a \in Account |-> view.balance[a] - Due(a)]
           /\ Worth(view') = Worth(view)
<1> DEFINE due == [a \in Account |-> Due(a)]
           paid == [a \in Account |-> view.balance[a] - Due(a)]
<1>1. view \in View(Int) /\ tx.emitted \in BOOLEAN
      BY HookExecAssumption, Zenon DEF Typed, TypeOK
<1>2. due \in [Account -> Nat] /\ due \in [Account -> Int]
      BY DueIs
<1>3. SumFunction(due) \in Nat
      BY <1>2, XRPObjectsAssumption, SumNat, Zenon
<1>4. view.balance \in [Account -> Int] /\ paid \in [Account -> Int]
      BY <1>1, DueIs DEF View
<1>5. view' = [view EXCEPT !.emittedTxn = view.emittedTxn /\ ~tx.emitted, !.balance = paid,
                           !.dropsDestroyed = view.dropsDestroyed + SumFunction(due)]
  <2> DEFINE weak == {a \in WeakTSH : PaysForWeak(a)}
             d == [a \in Account |-> IF a \in weak THEN calculateHookChainFee(view, tx, a, TRUE) ELSE 0]
  <2>1. view' = [view EXCEPT !.emittedTxn = @ /\ ~tx.emitted,
                             !.balance = [a \in Account |-> @[a] - d[a]],
                             !.dropsDestroyed = @ + SumFunction(d)]
        BY Zenon DEF EndCallback
  <2>2. d = due
        BY Zenon DEF Due
  <2> HIDE DEF d, due
  <2>3. [a \in Account |-> view.balance[a] - due[a]] = paid
        BY Zenon DEF due
  <2> HIDE DEF paid
  <2> QED
        BY <1>1, <2>1, <2>2, <2>3, Zenon DEF View
<1> HIDE DEF due, paid
<1>6. (view.emittedTxn /\ ~tx.emitted) \in BOOLEAN /\ view.dropsDestroyed + SumFunction(due) \in Nat
      /\ view.dropsDestroyed \in Nat
      BY <1>1, <1>3 DEF View
<1>7. /\ view' \in View(Int) /\ view'.object = view.object /\ view'.ownerCount = view.ownerCount
      /\ view'.done = view.done /\ view'.state = view.state /\ view'.emissions = view.emissions
      /\ view'.emittedTxn = (view.emittedTxn /\ ~tx.emitted)
      /\ view'.balance = paid /\ view'.dropsDestroyed = view.dropsDestroyed + SumFunction(due)
      BY <1>1, <1>4, <1>5, <1>6, Zenon DEF View
<1>8. SumFunction(paid) = SumFunction(view.balance) - SumFunction(due)
  <2>1. \A x \in Account : paid[x] = view.balance[x] - due[x]
        BY Zenon DEF paid, due
  <2> QED
        BY <1>2, <1>4, <2>1, XRPObjectsAssumption, SumMinus
<1>9. \A k \in Kind : Held(view', k) = Held(view, k)
      BY <1>7, Zenon DEF Held
<1>10. [k \in Kind |-> Held(view', k)] = [k \in Kind |-> Held(view, k)]
      BY <1>9, Zenon
<1>11. SumFunction(view.balance) \in Int /\ SumFunction([k \in Kind |-> Held(view, k)]) \in Int
      BY <1>1, WorthParts, Zenon
<1>12. Worth(view') = Worth(view)
      BY <1>3, <1>6, <1>7, <1>8, <1>10, <1>11 DEF Worth
<1> QED
      BY <1>7, <1>12, Zenon DEF paid

\* What the steps use of the invariant.
LEMMA LedgerFacts ==
    ASSUME LedgerInv
    PROVE  /\ ledger \in View(Nat) /\ ledger \in View(Int) /\ view \in View(Int)
           /\ now \in Nat /\ count \in Nat /\ fee \in Nat
           /\ Exact(ledger) /\ Sound(ledger.object)
           /\ pc # "idle" => tx \in Tx
           /\ Typed
BY ViewNat, Zenon DEF LedgerInv, Typed, TypeOK, TxKnown

\* The next slot of the running chain.
LEMMA SlotIs ==
    ASSUME Typed, chains # <<>>, Remaining(Head(chains)) # {}
    PROVE  LET a == Head(chains)
               i == Min(Remaining(a))
           IN  /\ a \in Account /\ i \in Nat /\ i > pos
               /\ i \in DOMAIN view.hooks[a] /\ Runs(a, i)
               /\ view.hooks[a][i].hash \in Hashes
               /\ \A j \in Remaining(a) : i <= j
<1> DEFINE a == Head(chains)
           i == Min(Remaining(a))
<1>1. a \in Account /\ view \in View(Int)
      BY DEF Typed, TypeOK
<1>2. view.hooks[a] \in Chain /\ DOMAIN view.hooks[a] \subseteq Nat
      BY <1>1, ChainIs
<1>3. Remaining(a) \subseteq Nat
      BY <1>2, Zenon DEF Remaining
<1>4. i \in Remaining(a) /\ \A j \in Remaining(a) : i <= j
      BY <1>3, MinIn, Zenon
<1>5. i \in Nat /\ i > pos /\ i \in DOMAIN view.hooks[a] /\ Runs(a, i)
      BY <1>3, <1>4, Zenon DEF Remaining
<1>6. view.hooks[a][i] \in Range(view.hooks[a]) /\ view.hooks[a][i] # Blank
      BY <1>5, Zenon DEF Range, Runs
<1>7. view.hooks[a][i].hash \in Hashes
      BY <1>2, <1>6, Zenon DEF Hashes
<1> QED
      BY <1>1, <1>4, <1>5, <1>7, Zenon

\* The rest of a list of chains.
LEMMA TailIs ==
    ASSUME NEW s \in Seq(Account), s # <<>>
    PROVE  Head(s) \in Account /\ Tail(s) \in Seq(Account) /\ Range(s) = {Head(s)} \cup Range(Tail(s))
<1>1. Head(s) \in Account /\ Tail(s) \in Seq(Account) /\ Len(s) \in Nat /\ Len(s) > 0
      OBVIOUS
<1>2. \A i \in 1 .. Len(s) : s[i] = Head(s) \/ (i - 1 \in 1 .. Len(Tail(s)) /\ Tail(s)[i - 1] = s[i])
      BY <1>1
<1>3. \A i \in 1 .. Len(Tail(s)) : i + 1 \in 1 .. Len(s) /\ Tail(s)[i] = s[i + 1]
      BY <1>1
<1>4. 1 \in 1 .. Len(s) /\ s[1] = Head(s)
      BY <1>1
<1>5. DOMAIN s = 1 .. Len(s) /\ DOMAIN Tail(s) = 1 .. Len(Tail(s))
      BY <1>1
<1>6. \A x : x \in Range(s) <=> \E i \in 1 .. Len(s) : s[i] = x
      BY <1>5, Zenon DEF Range
<1>7. \A x : x \in Range(Tail(s)) <=> \E i \in 1 .. Len(Tail(s)) : Tail(s)[i] = x
      BY <1>5, Zenon DEF Range
<1>8. Range(s) \subseteq {Head(s)} \cup Range(Tail(s))
      BY <1>2, <1>6, <1>7, Zenon
<1>9. Head(s) \in Range(s) /\ Range(Tail(s)) \subseteq Range(s)
      BY <1>3, <1>4, <1>6, <1>7, ZenonT(40)
<1> QED
      BY <1>1, <1>8, <1>9, Zenon

\* The view that Commit applies: what the hooks left is added, and the fee is
\* destroyed.
LEMMA CommitIs ==
    ASSUME LedgerInv, NEW oversize \in BOOLEAN, Commit(oversize)
    PROVE  /\ view' \in View(Nat) /\ ledger' = view'
           /\ view'.object = view.object /\ view'.ownerCount = view.ownerCount
           /\ view'.balance = view.balance
           /\ Worth(view') = Worth(view) + IF tx.open THEN 0 ELSE fee
           /\ view'.state = view.state \cup pending
           /\ view'.emissions = IF result = "tesSUCCESS" /\ ~tx.open THEN view.emissions \cup pending
                                ELSE view.emissions
           /\ view'.done = view.done /\ view'.emittedTxn = view.emittedTxn
<1> DEFINE final == Finalize(view, pending, TRUE, result = "tesSUCCESS")
           d == IF tx.open THEN view.dropsDestroyed ELSE view.dropsDestroyed + fee
<1>1. /\ pc = "run" /\ pass = "again" /\ tx \in Tx /\ fee \in Nat /\ view \in View(Int)
      /\ pending \in SUBSET Run
      BY LedgerFacts, Zenon DEF Commit, LedgerInv, Typed, TypeOK
<1>2. \A a \in Account : view.balance[a] >= 0
      BY <1>1, Zenon DEF LedgerInv, Phases
<1>3. /\ final \in View(Int) /\ Marked(view, final)
      /\ final.state = view.state \cup pending
      /\ final.emissions = IF result = "tesSUCCESS" /\ ~tx.open THEN view.emissions \cup pending
                           ELSE view.emissions
  <2>1. view.state \cup pending \in SUBSET Run /\ view.emissions \cup pending \in SUBSET Run
        BY <1>1, Zenon DEF View
  <2>2. /\ final.state = view.state \cup pending
        /\ final.emissions = IF result = "tesSUCCESS" /\ ~tx.open THEN view.emissions \cup pending
                             ELSE view.emissions
        BY <1>1, Zenon DEF Finalize, View
  <2>3. PICK x, y : final = Finalize(view, pending, x, y)
        BY Zenon
  <2> HIDE DEF final
  <2>4. final \in View(Int) /\ Marked(view, final)
        BY <1>1, <2>3, FinalizeIs, Zenon
  <2> QED
        BY <2>2, <2>4, Zenon
<1>4. ledger' = view' /\ view' = [final EXCEPT !.dropsDestroyed = IF tx.open THEN @ ELSE @ + fee]
      BY Zenon DEF Commit
<1> HIDE DEF final
<1>5. /\ final.balance = view.balance /\ final.object = view.object /\ final.ownerCount = view.ownerCount
      /\ final.done = view.done /\ final.emittedTxn = view.emittedTxn
      /\ final.dropsDestroyed = view.dropsDestroyed /\ Worth(final) = Worth(view)
      BY <1>1, <1>3, MarksWorth, Zenon
<1>6. view' = [final EXCEPT !.dropsDestroyed = d]
      BY <1>3, <1>4, <1>5, Zenon DEF View
<1>7. view.dropsDestroyed \in Nat /\ d \in Nat /\ d = view.dropsDestroyed + IF tx.open THEN 0 ELSE fee
      BY <1>1 DEF View
<1> HIDE DEF d
<1>8. /\ view' \in View(Int) /\ view'.object = final.object /\ view'.ownerCount = final.ownerCount
      /\ view'.balance = final.balance /\ view'.state = final.state
      /\ view'.emissions = final.emissions /\ view'.done = final.done
      /\ view'.emittedTxn = final.emittedTxn /\ view'.dropsDestroyed = d
      BY <1>3, <1>6, <1>7, Zenon DEF View
<1>9. view' \in View(Nat)
  <2>1. view'.balance \in [Account -> Nat]
    <3>1. view.balance \in [Account -> Int]
          BY <1>1, Zenon DEF View
    <3>2. \A a \in Account : view.balance[a] \in Nat
          BY <1>2, <3>1
    <3> QED
          BY <1>5, <1>8, <3>1, <3>2, Zenon
  <2> QED
        BY <1>8, <2>1, Zenon DEF View
<1>10. Worth(view') = Worth(view) + IF tx.open THEN 0 ELSE fee
  <2> DEFINE b == SumFunction(view.balance)
             h == SumFunction([k \in Kind |-> Held(view, k)])
             b2 == SumFunction(view'.balance)
             h2 == SumFunction([k \in Kind |-> Held(view', k)])
  <2>1. Worth(view) = b + h + view.dropsDestroyed /\ b \in Int /\ h \in Int
        BY <1>1, WorthParts, Zenon DEF Worth
  <2>2. b2 = b /\ h2 = h
        BY <1>5, <1>8, Zenon DEF Held
  <2>3. Worth(view') = b2 + h2 + d
        BY <1>8, Zenon DEF Worth
  <2> HIDE DEF b, h, b2, h2
  <2> QED
        BY <1>1, <1>7, <2>1, <2>2, <2>3
<1> QED
      BY <1>3, <1>4, <1>5, <1>8, <1>9, <1>10, ZenonT(40)

\* Return forgets the marks and keeps the rest.
LEMMA ReturnIs ==
    ASSUME LedgerInv, Return
    PROVE  /\ ledger' \in View(Nat) /\ view' = ledger' /\ ledger'.object = ledger.object
           /\ ledger'.ownerCount = ledger.ownerCount /\ ledger'.balance = ledger.balance
           /\ Worth(ledger') = Worth(ledger)
           /\ ~ledger'.done /\ ledger'.state = {} /\ ledger'.emissions = {} /\ ledger'.emittedTxn
<1>1. ledger \in View(Nat)
      BY LedgerFacts, Zenon
<1>2. /\ ledger' = [ledger EXCEPT !.done = FALSE, !.state = {}, !.emissions = {},
                                !.emittedTxn = TRUE]
      /\ view' = ledger'
      BY Zenon DEF Return
<1>3. /\ ledger' \in View(Nat) /\ ledger'.object = ledger.object
      /\ ledger'.ownerCount = ledger.ownerCount /\ ledger'.balance = ledger.balance
      /\ ledger'.dropsDestroyed = ledger.dropsDestroyed
      /\ ledger'.done = FALSE /\ ledger'.state = {} /\ ledger'.emissions = {} /\ ledger'.emittedTxn = TRUE
      BY <1>1, <1>2, Zenon DEF View
<1>4. Worth(ledger') = Worth(ledger)
      BY <1>3, Zenon DEF Worth, Held
<1> QED
      BY <1>2, <1>3, <1>4, Zenon

\* LedgerInv holds in every state: whatever the hooks, the transactor and the
\* invariant checks of Transactor::operator() do, the view they work on may become
\* the ledger, or is on its way to be reset.
THEOREM LedgerSafe == Spec => []LedgerInv

\* The view after a reset may become the ledger.
<1>ResetFollows. ASSUME LedgerInv, tx \in Tx, NEW f \in Nat, NEW kept \in BOOLEAN,
                        NEW w, w = [resetView(f) EXCEPT !.token = kept]
                 PROVE  w \in View(Nat) /\ Follows(ledger, tx, now, w)
  <2> USE <1>ResetFollows
  <2> DEFINE u == resetView(f)
  <2>1. /\ u \in View(Nat) /\ u.object = ledger.object /\ u.ownerCount = ledger.ownerCount
        /\ \A a \in Account : u.balance[a] <= ledger.balance[a]
        BY ResetIs, Zenon DEF LedgerInv
  <2> HIDE DEF u
  <2>2. w = [u EXCEPT !.token = kept]
        BY Zenon DEF u
  <2>3. w \in View(Nat) /\ w.object = u.object /\ w.ownerCount = u.ownerCount /\ w.balance = u.balance
        BY <2>1, <2>2, Zenon DEF View
  <2>4. w \in View(Int) /\ ledger \in View(Int) /\ Exact(ledger) /\ Sound(ledger.object)
        BY <2>3, ViewNat, Zenon DEF LedgerInv, Typed, TypeOK
  <2> QED
        BY <2>1, <2>3, <2>4, LessFollows, Zenon

\* Once the owner has claimed all for the receiver, nobody is nominated.
<1>ClaimedNominatesNobody. ASSUME NEW t, t.type = "ttPAYCHAN_CLAIM", NEW w, w.object["channel"] = None
                           PROVE  Nominated(w, t) = <<>> /\ ~CrossesOffers(t)
BY <1>ClaimedNominatesNobody, Zenon DEF Nominated, NamesParties, ReadsObject, ReadsToken, kindOf, CrossesOffers

\* So may a view that has paid for the weak chains: nobody gains by it, and the
\* receiver of a channel that closed does not lose by it.
<1>WeakFollows. ASSUME NEW l \in View(Int), NEW t, NEW n, NEW v \in View(Int), Follows(l, t, n, v),
                       NEW w \in View(Int), w.object = v.object, w.ownerCount = v.ownerCount,
                       \A a \in Account : w.balance[a] <= v.balance[a],
                       t.type = "ttPAYCHAN_CLAIM" /\ v.object["channel"] = None => w.balance = v.balance
                PROVE  Follows(l, t, n, w)
  <2> USE <1>WeakFollows
  <2>1. \A a \in Account : w.balance[a] \in Int /\ v.balance[a] \in Int /\ l.balance[a] \in Int
        BY Zenon DEF View
  <2>2. \A a \in Account : w.balance[a] > l.balance[a] => v.balance[a] > l.balance[a]
        BY <2>1
  <2>3. MovesXRP(t) => Deposits(l, t, w)
    <3>1. MovesXRP(t) => Deposits(l, t, v)
          BY Zenon DEF Follows
    <3> QED
          BY <2>2, <3>1, Zenon DEF Deposits
  <2>4. Settles(l, t, n, w)
        BY Zenon DEF Follows, Settles
  <2>5. Exact(w) /\ Sound(w.object) /\ SameParties(l, w)
        BY Zenon DEF Follows, Exact, SameParties
  <2> QED
        BY <2>3, <2>4, <2>5, Zenon DEF Follows

\* One step for the initial states and for each action.
<1>InitLedger. ASSUME Init PROVE LedgerInv
  <2> USE <1>InitLedger
  <2>1. PICK s \in Start, hooks \in [Account -> Chain] :
          ledger = [balance |-> s.balance, dropsDestroyed |-> 0, hooks |-> hooks,
                    ownerCount |-> [a \in Account |-> Cardinality(Owned(s.object, a))],
                    object |-> s.object, token |-> TRUE, emittedTxn |-> TRUE,
                    done |-> FALSE, state |-> {}, emissions |-> {}]
        BY Zenon DEF Init
  <2>2. s.balance \in [Account -> Nat] /\ s.object \in [Kind -> Object \cup {None}] /\ Sound(s.object)
        BY HookExecAssumption, Zenon
  <2>3. \A a \in Account : Cardinality(Owned(s.object, a)) \in Nat
    <3> TAKE a \in Account
    <3>1. Owned(s.object, a) \subseteq Kind
          BY Zenon DEF Owned
    <3> QED
          BY <3>1, KindFinite, FS_Subset, FS_CardinalityType, Zenon
  <2>4. [a \in Account |-> Cardinality(Owned(s.object, a))] \in [Account -> Nat]
        BY <2>3, Zenon
  <2>5. ledger \in View(Nat)
        BY <2>1, <2>2, <2>4, Zenon DEF View
  <2>6. Exact(ledger) /\ Sound(ledger.object)
        BY <2>1, <2>2, Zenon DEF Exact
  <2>7. view = ledger /\ view \in View(Int)
        BY <2>5, ViewNat, Zenon DEF Init
  <2>8. TypeOK /\ pos \in Nat /\ hookLog \in Seq(Run)
    <3>1. /\ now = 1 /\ count = 0 /\ tx = None /\ fee = 0 /\ pc = "idle" /\ applied = FALSE
          /\ pass = "strong" /\ chains = <<>> /\ pos = 0 /\ hookSkips = {}
          /\ pending = {} /\ aawMap = {} /\ additionalWeakTSH = {} /\ hookLog = <<>>
          BY Zenon DEF Init
    <3>2. hookLog \in Seq(Run) /\ chains \in Seq(Account)
          BY <3>1
    <3> QED
          BY <2>5, <2>7, <3>1, <3>2, Zenon DEF TypeOK, Pass
  <2> QED
        BY <2>6, <2>7, <2>8, Zenon DEF LedgerInv, Typed, TxKnown, Phases, Init

<1>SubmitLedger. ASSUME LedgerInv, NEW t \in Tx, Submit(t)
                 PROVE  LedgerInv'
  <2> USE <1>SubmitLedger
  <2>1. /\ ledger \in View(Nat) /\ ledger \in View(Int)
        /\ pc = "idle" /\ view = ledger /\ additionalWeakTSH = {}
        BY LedgerFacts, Zenon DEF LedgerInv, TxKnown, Submit
  <2>2. pass' \in Pass /\ chains' \in Seq(Account) /\ pos' \in Nat /\ hookSkips' \subseteq Hashes
    <3>1. CASE result' # "tesSUCCESS"
          BY <3>1, Zenon DEF Submit, passVars, LedgerInv, Typed, TypeOK
    <3>2. CASE result' = "tesSUCCESS"
      <4> DEFINE noms == Nominated(ledger, t)
                 A == TSH(ledger, t, TRUE)
      <4>1. noms \in Seq(Account) /\ A \subseteq Range(noms) /\ A \subseteq Account
            BY <2>1, NominatedIs, TSHIs, Zenon
      <4> HIDE DEF noms, A
      <4>2. InOrder(noms, A) \in Seq(A)
            BY <4>1, InOrderIs, Zenon
      <4>3. InOrder(noms, A) \in Seq(Account)
            BY <4>1, <4>2
      <4>4. t.account \in Account
            BY TxFields, Zenon
      <4>5. chains' = (IF t.emitted THEN <<>> ELSE <<t.account>>) \o InOrder(noms, A)
            BY <3>2, Zenon DEF Submit, Begin, noms, A
      <4>6. (IF t.emitted THEN <<>> ELSE <<t.account>>) \in Seq(Account)
            BY <4>4
      <4>7. chains' \in Seq(Account)
            BY <4>3, <4>5, <4>6
      <4> QED
            BY <3>2, <4>7 DEF Submit, Begin, Pass
    <3> QED
          BY <3>1, <3>2, Zenon
  <2>3. result' = "tesSUCCESS" => Ready(ledger, t)
    <3> SUFFICES ASSUME result' = "tesSUCCESS" PROVE Ready(ledger, t)
        BY Zenon
    <3>1. t.type \in CreatesObject => ledger.object[kindOf(t)] = None
          BY Zenon DEF Submit
    <3>2. result' \in Preclaim(t)
          BY Zenon DEF Submit
    <3>3. MovesXRP(t) => preclaim(ledger, t, now) = "tesSUCCESS"
          BY <3>2, Zenon DEF Preclaim
    <3>4. ASSUME t.type = "ttCHECK_CASH", ledger.object["check"] # None
          PROVE  ledger.object["check"].dest = t.account
      <4>1. CashCheck_preclaim(ledger, t, now) = "tesSUCCESS"
            BY <3>3, <3>4, Zenon DEF MovesXRP, preclaim
      <4> QED
            BY <3>4, <4>1, Zenon DEF CashCheck_preclaim
    <3> QED
          BY <3>1, <3>4, Zenon DEF Ready
  <2>4. Typed'
    <3>1. count' \in Nat /\ fee' \in Nat /\ tx' \in Tx /\ pc' \in {"run", "settle"}
      <4>1. count \in Nat /\ t.fee \in Nat
            BY LedgerFacts, TxFields, Zenon
      <4>2. count' = count + 1 /\ fee' = t.fee /\ tx' = t /\ pc' \in {"run", "settle"}
            BY Zenon DEF Submit
      <4> QED
            BY <4>1, <4>2
    <3> QED
          BY <2>2, <3>1, Zenon DEF Submit, LedgerInv, Typed, TypeOK
  <2>5. TxKnown'
        BY <2>1, Zenon DEF Submit, TxKnown
  <2>6. Phases'
        BY <2>1, <2>3, Zenon DEF Submit, Begin, Phases
  <2> QED
        BY <2>4, <2>5, <2>6, Zenon DEF LedgerInv, Submit

<1>ExecuteLedger. ASSUME LedgerInv, NEW exit, NEW skips \in SUBSET Hashes, NEW again \in BOOLEAN,
                         ExecuteHook(exit, skips, again)
                  PROVE  LedgerInv'
  <2> USE <1>ExecuteLedger
  <2> DEFINE a == Head(chains)
             i == Min(Remaining(a))
             run == [pass |-> pass, account |-> a, pos |-> i]
  <2>1. /\ a \in Account /\ i \in Nat /\ view.hooks[a][i].hash \in Hashes
        BY SlotIs, Zenon DEF ExecuteHook, LedgerInv
  <2>2. pc = "run" /\ chains # <<>> /\ tx \in Tx
        BY LedgerFacts, Zenon DEF ExecuteHook
  <2>3. run \in Run
        BY <2>1, Zenon DEF Run, LedgerInv, Typed, TypeOK
  <2> HIDE DEF run
  <2>4. hookLog' = Append(hookLog, run) /\ hookLog \in Seq(Run)
        BY Zenon DEF ExecuteHook, LedgerInv, Typed, run
  <2>5. hookLog' \in Seq(Run)
        BY <2>3, <2>4
  <2>6. aawMap' \subseteq Account \X Hashes
    <3>1. aawMap \subseteq Account \X Hashes
          BY Zenon DEF LedgerInv, Typed, TypeOK
    <3>2. aawMap' = aawMap \/ aawMap' = aawMap \cup {<<a, view.hooks[a][i].hash>>}
          BY Zenon DEF ExecuteHook
    <3>3. <<a, view.hooks[a][i].hash>> \in Account \X Hashes
          BY <2>1, Zenon
    <3> QED
          BY <3>1, <3>2, <3>3, Zenon
  <2>7. pos' \in Nat /\ hookSkips' \subseteq Hashes /\ chains' \in Seq(Account)
    <3>1. chains \in Seq(Account) /\ hookSkips \subseteq Hashes
          BY Zenon DEF LedgerInv, Typed, TypeOK
    <3>2. Tail(chains) \in Seq(Account) /\ <<>> \in Seq(Account)
          BY <2>2, <3>1, TailIs
    <3>3. \/ pos' = i /\ hookSkips' = hookSkips \cup skips /\ chains' = chains
          \/ pos' = 0 /\ hookSkips' = {} /\ chains' \in {<<>>, Tail(chains)}
          BY Zenon DEF ExecuteHook
    <3>4. i \in Nat
          BY <2>1, Zenon
    <3> HIDE DEF i
    <3>5. pos' \in Nat
          BY <3>3, <3>4
    <3>6. hookSkips' \subseteq Hashes
          BY <3>1, <3>3, Zenon
    <3>7. chains' \in Seq(Account)
          BY <3>1, <3>2, <3>3, Zenon
    <3> QED
          BY <3>5, <3>6, <3>7, Zenon
  <2>8. pending' \subseteq Run
        BY <2>3, Zenon DEF ExecuteHook, LedgerInv, Typed, TypeOK, run
  <2>9. \/ view' = view
        \/ pass = "callback" /\ \E x : view' = Finalize(view, {run}, x, x)
        BY Zenon DEF ExecuteHook, run
  <2>10. /\ view' \in View(Int) /\ view'.balance = view.balance /\ view'.object = view.object
         /\ view'.ownerCount = view.ownerCount /\ Worth(view') = Worth(view)
         /\ pass = "strong" => view' = view
    <3>1. view \in View(Int)
          BY LedgerFacts, Zenon
    <3>2. ASSUME NEW x, view' = Finalize(view, {run}, x, x)
          PROVE  /\ view' \in View(Int) /\ view'.balance = view.balance /\ view'.object = view.object
                 /\ view'.ownerCount = view.ownerCount /\ Worth(view') = Worth(view)
      <4>1. {run} \in SUBSET Run
            BY <2>3, Zenon
      <4>2. view' \in View(Int) /\ Marked(view, view')
            BY <3>1, <3>2, <4>1, FinalizeIs, Zenon
      <4> QED
            BY <3>1, <4>2, MarksWorth, Zenon
    <3> QED
          BY <2>9, <3>1, <3>2, Zenon
  <2>11. Typed'
        BY <2>5, <2>6, <2>7, <2>8, <2>10, Zenon DEF ExecuteHook, LedgerInv, Typed, TypeOK
  <2>12. ledger' = ledger /\ tx' = tx /\ now' = now /\ fee' = fee /\ pc' = pc /\ pass' = pass
         /\ additionalWeakTSH' = additionalWeakTSH
        BY Zenon DEF ExecuteHook
  <2>13. TxKnown'
        BY <2>2, <2>12, Zenon DEF LedgerInv, TxKnown, CrossesOffers
  <2>14. Phases'
    <3>1. CASE pass = "strong"
          BY <2>2, <2>10, <2>12, <3>1, Zenon DEF LedgerInv, Phases
    <3>2. CASE pass # "strong"
      <4>1. /\ Follows(ledger, tx, now, view) /\ Worth(view) + fee = Worth(ledger)
            /\ \A b \in Account : view.balance[b] >= 0
            BY <2>2, <3>2, Zenon DEF LedgerInv, Phases
      <4>2. ledger \in View(Int) /\ view \in View(Int) /\ \A b \in Account : view.balance[b] \in Int
            BY LedgerFacts, Zenon DEF View
      <4>3. \A b \in Account : view'.balance[b] <= view.balance[b]
            BY <2>10, <4>2
      <4>4. Follows(ledger, tx, now, view')
            BY <2>10, <4>1, <4>2, <4>3, <1>WeakFollows, Zenon
      <4> QED
            BY <2>2, <2>10, <2>12, <3>2, <4>1, <4>4, Zenon DEF Phases
    <3> QED
          BY <3>1, <3>2, Zenon
  <2> QED
        BY <2>11, <2>12, <2>13, <2>14, Zenon DEF LedgerInv

<1>EndChainLedger. ASSUME LedgerInv, EndChain
                   PROVE  LedgerInv'
  <2> USE <1>EndChainLedger
  <2>1. chains \in Seq(Account) /\ chains # <<>> /\ pc = "run"
        BY Zenon DEF LedgerInv, Typed, TypeOK, EndChain
  <2>2. Tail(chains) \in Seq(Account)
        BY <2>1, TailIs, Zenon
  <2>3. Typed'
        BY <2>2, Zenon DEF EndChain, Begin, LedgerInv, Typed, TypeOK
  <2>4. TxKnown' /\ Phases'
        BY <2>1, Zenon DEF EndChain, Begin, LedgerInv, TxKnown, Phases
  <2> QED
        BY <2>3, <2>4, Zenon DEF LedgerInv, EndChain

<1>EndStrongLedger. ASSUME LedgerInv, EndStrong
                    PROVE  LedgerInv'
  <2> USE <1>EndStrongLedger
  <2>1. pc = "run" /\ pass = "strong" /\ tx \in Tx /\ view \in View(Int) /\ pending \in SUBSET Run
        BY LedgerFacts, Zenon DEF EndStrong, LedgerInv, Typed, TypeOK
  <2>2. view = ledger /\ fee = tx.fee /\ Ready(ledger, tx)
        BY <2>1, Zenon DEF LedgerInv, Phases
  <2>3. PICK x : view' = Finalize(view, pending, x, x)
        BY Zenon DEF EndStrong
  <2>4. view' \in View(Int) /\ Marked(view, view')
        BY <2>1, <2>3, FinalizeIs, Zenon
  <2>5. Typed'
        BY <2>4, Zenon DEF EndStrong, passVars, LedgerInv, Typed, TypeOK
  <2>6. TxKnown'
        BY <2>1, Zenon DEF EndStrong, LedgerInv, TxKnown
  <2>7. ledger' = ledger /\ tx' = tx /\ now' = now /\ fee' = fee /\ result' = result
        /\ pc' = IF result = "tesSUCCESS" THEN "apply" ELSE "settle"
        BY Zenon DEF EndStrong
  <2>8. Phases'
        BY <2>2, <2>4, <2>7, Zenon DEF Phases
  <2> QED
        BY <2>5, <2>6, <2>7, <2>8, Zenon DEF LedgerInv

<1>ApplyLedger. ASSUME LedgerInv, NEW weakTSH \in SUBSET Account, Apply(weakTSH)
                PROVE  LedgerInv'
  <2> USE <1>ApplyLedger
  <2>1. pc = "apply" /\ tx \in Tx /\ view \in View(Int) /\ ledger \in View(Int) /\ now \in Nat
        /\ Exact(ledger) /\ Sound(ledger.object)
        BY LedgerFacts, Zenon DEF Apply
  <2>2. Marked(ledger, view) /\ fee = tx.fee /\ Ready(ledger, tx)
        BY <2>1, Zenon DEF LedgerInv, Phases
  <2>3. /\ view.balance = ledger.balance /\ view.object = ledger.object
        /\ view.ownerCount = ledger.ownerCount /\ Worth(view) = Worth(ledger)
        BY <2>1, <2>2, MarksWorth, Zenon
  <2>9. PICK paid : paid = Paid(view, tx)
        BY Zenon
  <2>4. /\ paid \in View(Int) /\ paid.object = view.object /\ paid.ownerCount = view.ownerCount
        /\ paid.balance = [view.balance EXCEPT ![tx.account] = @ - tx.fee]
        /\ Worth(paid) + tx.fee = Worth(view)
    <3>1. tx \in Tx /\ view \in View(Int)
          BY <2>1, Zenon
    <3>2. paid \in View(Int)
          BY <2>9, <3>1, PaidIs, Zenon
    <3>3. paid.object = view.object /\ paid.ownerCount = view.ownerCount
          BY <2>9, <3>1, Zenon DEF Paid, View
    <3>4. paid.balance = [view.balance EXCEPT ![tx.account] = @ - tx.fee]
          BY <2>9, <3>1, Zenon DEF Paid, View
    <3>5. Worth(paid) + tx.fee = Worth(view)
          BY <2>9, <3>1, PaidIs, Zenon
    <3> QED
          BY <3>2, <3>3, <3>4, <3>5, Zenon
  <2>5. PICK o \in IF MovesXRP(tx) THEN doApply(paid, tx, now) ELSE otherApply(paid, tx) :
                view' = o.view /\ result' = o.ter
        BY <2>9, Zenon DEF Apply, Paid
  <2>6. /\ paid.object = ledger.object /\ paid.ownerCount = ledger.ownerCount
        /\ paid.balance = [ledger.balance EXCEPT ![tx.account] = @ - tx.fee]
        /\ Worth(paid) + tx.fee = Worth(ledger)
        BY <2>3, <2>4, Zenon
  <2>7. /\ view' \in View(Int)
        /\ result' = "tesSUCCESS" => Worth(view') + tx.fee = Worth(ledger) /\ Follows(ledger, tx, now, view')
    <3>1. CASE MovesXRP(tx)
      <4>1. o \in doApply(paid, tx, now)
            BY <2>5, <3>1, Zenon
      <4>2. o.view \in View(Int) /\ (o.ter = "tesSUCCESS" =>
                Worth(o.view) + tx.fee = Worth(ledger) /\ Follows(ledger, tx, now, o.view))
            BY <2>1, <2>2, <2>4, <2>6, <3>1, <4>1, MovedFollows, Zenon
      <4> QED
            BY <2>5, <4>2, Zenon
    <3>2. CASE ~MovesXRP(tx)
      <4>1. o \in otherApply(paid, tx)
            BY <2>5, <3>2, Zenon
      <4>2. o.view \in View(Int) /\ Worth(o.view) + tx.fee = Worth(ledger)
            /\ Follows(ledger, tx, now, o.view)
            BY <2>1, <2>4, <2>6, <4>1, OtherFollows
      <4> QED
            BY <2>5, <4>2, Zenon
    <3> QED
          BY <3>1, <3>2, ZenonT(40)
  <2>8. /\ ledger' = ledger /\ tx' = tx /\ now' = now /\ fee' = fee /\ pc' = "settle"
        /\ additionalWeakTSH' = weakTSH /\ (weakTSH # {} => CrossesOffers(tx))
        BY Zenon DEF Apply
  <2>12. Typed'
        BY <2>7, <2>8, Zenon DEF Apply, passVars, LedgerInv, Typed, TypeOK
  <2>10. TxKnown'
        BY <2>1, <2>8, Zenon DEF TxKnown, CrossesOffers
  <2>11. Phases'
        BY <2>2, <2>7, <2>8, Zenon DEF Phases
  <2> QED
        BY <2>8, <2>10, <2>11, <2>12, Zenon DEF LedgerInv

<1>SettleLedger. ASSUME LedgerInv, NEW oversize \in BOOLEAN, Settle(oversize)
                 PROVE  LedgerInv'
  <2> USE <1>SettleLedger
  <2> DEFINE r == IF oversize THEN "tecOVERSIZE" ELSE result
             hard == isTecClaim(r) /\ tx.tapFAIL_HARD
             claims == r \in {"tecOVERSIZE", "tecKILLED", "tecEXPIRED"} \/ isTecClaimHardFail(r, tx)
             kept == resetView(fee).token /\ (r = "tecEXPIRED" => view.token)
  <2>1. /\ pc = "settle" /\ tx \in Tx /\ fee \in Nat /\ Typed
        /\ ledger \in View(Nat) /\ ledger \in View(Int) /\ view \in View(Int)
        BY LedgerFacts, Zenon DEF Settle
  <2>2. /\ applied' = (~hard /\ (claims \/ r = "tesSUCCESS"))
        /\ pc' = IF applied' THEN "invariants" ELSE "over"
        /\ ledger' = ledger /\ tx' = tx /\ now' = now /\ result' = r
        /\ additionalWeakTSH' = additionalWeakTSH /\ passVars' = passVars
        BY Zenon DEF Settle
  <2>3. \/ view' = ledger /\ fee' = fee /\ hard
        \/ ~hard /\ claims /\ fee' = resetFee(fee) /\ view' = [resetView(fee) EXCEPT !.token = kept]
        \/ ~hard /\ ~claims /\ view' = view /\ fee' = fee
        BY Zenon DEF Settle
  <2>4. resetFee(fee) \in Nat /\ kept \in BOOLEAN
        BY <2>1, ResetIs, Zenon
  <2>5. ASSUME view' = [resetView(fee) EXCEPT !.token = kept]
        PROVE  view' \in View(Int) /\ Follows(ledger, tx, now, view')
    <3> HIDE DEF kept
    <3>1. view' \in View(Nat) /\ Follows(ledger, tx, now, view')
          BY <2>1, <2>4, <2>5, <1>ResetFollows, Zenon
    <3> QED
          BY <3>1, ViewNat, Zenon
  <2>6. ~claims /\ r = "tesSUCCESS" => Follows(ledger, tx, now, view)
        BY <2>1, Zenon DEF LedgerInv, Phases
  <2> HIDE DEF r, hard, claims, kept
  <2>7. view' \in View(Int) /\ fee' \in Nat
        BY <2>1, <2>3, <2>4, <2>5, Zenon
  <2>8. applied' => Follows(ledger, tx, now, view')
        BY <2>2, <2>3, <2>5, <2>6, Zenon
  <2>9. applied' \in BOOLEAN
        BY <2>2, Zenon
  <2>10. Typed'
        BY <2>2, <2>7, <2>9, Zenon DEF Settle, passVars, LedgerInv, Typed, TypeOK
  <2>11. TxKnown'
        BY <2>1, <2>2, Zenon DEF LedgerInv, TxKnown
  <2>12. Phases'
        BY <2>2, <2>8, Zenon DEF Phases
  <2> QED
        BY <2>1, <2>2, <2>10, <2>11, <2>12, Zenon DEF LedgerInv

<1>CheckInvariantsLedger. ASSUME LedgerInv, NEW failures \in 0 .. 2, CheckInvariants(failures)
                          PROVE  LedgerInv'
  <2> USE <1>CheckInvariantsLedger
  <2>1. /\ pc = "invariants" /\ tx \in Tx /\ fee \in Nat /\ Typed /\ Follows(ledger, tx, now, view)
        /\ ledger \in View(Nat) /\ ledger \in View(Int) /\ view \in View(Int)
        BY LedgerFacts, Zenon DEF CheckInvariants, LedgerInv, Phases
  <2>2. /\ applied' = (failures < 2)
        /\ pc' = IF applied' THEN "run" ELSE "over"
        /\ applied' => pass' = "callback"
        /\ ledger' = ledger /\ tx' = tx /\ now' = now /\ additionalWeakTSH' = additionalWeakTSH
        BY Zenon DEF CheckInvariants, Begin
  <2>3. \/ failures = 0 /\ view' = view /\ fee' = fee
        \/ failures # 0 /\ view' = resetView(fee) /\ fee' = resetFee(fee)
        BY Zenon DEF CheckInvariants
  <2>4. resetFee(fee) \in Nat /\ resetView(fee) \in View(Int) /\ Follows(ledger, tx, now, resetView(fee))
    <3>1. resetFee(fee) \in Nat /\ resetView(fee) \in View(Nat)
          BY <2>1, ResetIs, Zenon
    <3>2. /\ resetView(fee).token \in BOOLEAN
          /\ resetView(fee) = [resetView(fee) EXCEPT !.token = resetView(fee).token]
          BY <3>1, Zenon DEF View
    <3>3. Follows(ledger, tx, now, resetView(fee))
          BY <2>1, <3>2, <1>ResetFollows, Zenon
    <3> QED
          BY <3>1, <3>3, ViewNat, Zenon
  <2>5. view' \in View(Int) /\ fee' \in Nat /\ Follows(ledger, tx, now, view')
        BY <2>1, <2>3, <2>4, Zenon
  <2>6. applied' => InvariantsHold(view', fee')
    <3>1. failures < 2 => failures = 0 \/ failures = 1
          OBVIOUS
    <3> QED
          BY <2>2, <2>3, <3>1, Zenon DEF CheckInvariants
  <2>7. pass' \in Pass /\ chains' \in Seq(Account) /\ pos' \in Nat /\ hookSkips' \subseteq Hashes
    <3>1. CASE applied'
      <4>1. tx.callback # None => tx.callback \in Account
            BY <2>1, HookExecAssumption, Zenon
      <4>2. tx.callback # None => <<tx.callback>> \in Seq(Account)
            BY <4>1
      <4>3. pass' = "callback" /\ pos' = 0 /\ hookSkips' = {}
            /\ (chains' = <<>> \/ (tx.callback # None /\ chains' = <<tx.callback>>))
            BY <3>1, Zenon DEF CheckInvariants, Begin
      <4>4. <<>> \in Seq(Account)
            OBVIOUS
      <4> QED
            BY <4>2, <4>3, <4>4, Zenon DEF Pass
    <3>2. CASE ~applied'
          BY <2>1, <3>2, Zenon DEF CheckInvariants, passVars, Typed, TypeOK
    <3> QED
          BY <3>1, <3>2, Zenon
  <2>8. applied' \in BOOLEAN
        BY <2>2
  <2>9. Typed'
        BY <2>2, <2>5, <2>7, <2>8, Zenon DEF CheckInvariants, LedgerInv, Typed, TypeOK
  <2>10. TxKnown'
        BY <2>1, <2>2, Zenon DEF LedgerInv, TxKnown
  <2>11. Phases'
        BY <2>2, <2>5, <2>6, Zenon DEF Phases, InvariantsHold
  <2> QED
        BY <2>1, <2>2, <2>9, <2>10, <2>11, Zenon DEF LedgerInv

\* The chains of a weak pass.
<1>WeakChainsIs. ASSUME NEW noms \in Seq(Account), NEW A, A \subseteq Account,
                        NEW s, s = InOrder(noms, A \cap Range(noms)) \o AnyOrder(A \ Range(noms))
                 PROVE  s \in Seq(Account)
  <2> USE <1>WeakChainsIs
  <2> DEFINE x == InOrder(noms, A \cap Range(noms))
             y == AnyOrder(A \ Range(noms))
  <2>1. x \in Seq(A \cap Range(noms))
        BY InOrderIs, Zenon
  <2>2. y \in Seq(A \ Range(noms))
    <3>1. IsFiniteSet(A \ Range(noms))
          BY AccountsFinite, Zenon
    <3> QED
          BY <3>1, AnyOrderIs, Zenon
  <2> HIDE DEF x, y
  <2>3. x \in Seq(Account) /\ y \in Seq(Account)
        BY <2>1, <2>2
  <2>4. x \o y \in Seq(Account)
        BY <2>3
  <2> QED
        BY <2>4, Zenon DEF x, y

<1>EndCallbackLedger. ASSUME LedgerInv, EndCallback
                      PROVE  LedgerInv'
  <2> USE <1>EndCallbackLedger
  <2>1. /\ pc = "run" /\ pass = "callback" /\ tx \in Tx /\ fee \in Nat /\ Typed
        /\ ledger \in View(Int) /\ view \in View(Int)
        BY LedgerFacts, Zenon DEF EndCallback
  <2>2. /\ Follows(ledger, tx, now, view) /\ Worth(view) + fee = Worth(ledger)
        /\ \A a \in Account : view.balance[a] >= 0
        BY <2>1, Zenon DEF LedgerInv, Phases
  <2>3. /\ view' \in View(Int) /\ view'.object = view.object /\ view'.ownerCount = view.ownerCount
        /\ view'.balance = [a \in Account |-> view.balance[a] - Due(a)]
        /\ Worth(view') = Worth(view)
        BY <2>1, ChargedIs, Zenon
  <2>4. \A a \in Account : view.balance[a] \in Int /\ Due(a) \in Nat /\ Due(a) <= view.balance[a]
        BY <2>1, <2>2, DueIs, Zenon DEF View
  <2>5. \A a \in Account : view'.balance[a] <= view.balance[a] /\ view'.balance[a] >= 0
        BY <2>3, <2>4
  <2>6. ASSUME tx.type = "ttPAYCHAN_CLAIM", view.object["channel"] = None
        PROVE  view'.balance = view.balance
    <3>1. Nominated(view, tx) = <<>> /\ ~CrossesOffers(tx)
          BY <2>6, <1>ClaimedNominatesNobody, Zenon
    <3>2. additionalWeakTSH = {}
          BY <3>1, Zenon DEF LedgerInv, TxKnown
    <3>3. TSH(view, tx, FALSE) = {}
      <4>1. Range(<<>>) = {}
            BY DEF Range
      <4>2. TSH(view, tx, FALSE) \subseteq Range(Nominated(view, tx))
            BY <2>1, TSHIs, Zenon
      <4> QED
            BY <3>1, <4>1, <4>2, Zenon
    <3>4. WeakTSH = {}
          BY <3>2, <3>3, Zenon DEF WeakTSH
    <3>5. \A a \in Account : Due(a) = 0
          BY <3>4, Zenon DEF Due
    <3>6. view.balance \in [Account -> Int]
          BY <2>1, Zenon DEF View
    <3> QED
          BY <2>3, <3>5, <3>6
  <2>7. Follows(ledger, tx, now, view')
        BY <2>1, <2>2, <2>3, <2>5, <2>6, <1>WeakFollows, Zenon
  <2>8. chains' \in Seq(Account)
    <3> DEFINE noms == Nominated(view, tx)
               A == {a \in WeakTSH : PaysForWeak(a)}
    <3>1. noms \in Seq(Account) /\ A \subseteq Account
          BY <2>1, NominatedIs, WeakIs, Zenon
    <3>2. chains' = InOrder(noms, A \cap Range(noms)) \o AnyOrder(A \ Range(noms))
          BY Zenon DEF EndCallback, Begin
    <3> HIDE DEF noms, A
    <3> QED
          BY <3>1, <3>2, <1>WeakChainsIs, Zenon
  <2>9. /\ ledger' = ledger /\ tx' = tx /\ now' = now /\ fee' = fee /\ pc' = pc /\ pass' = "weak"
        /\ pos' = 0 /\ hookSkips' = {} /\ additionalWeakTSH' = additionalWeakTSH
        BY Zenon DEF EndCallback, Begin
  <2>10. Typed'
        BY <2>3, <2>8, <2>9, Zenon DEF EndCallback, LedgerInv, Typed, TypeOK, Pass
  <2>11. TxKnown'
        BY <2>1, <2>9, Zenon DEF LedgerInv, TxKnown
  <2>12. Phases'
        BY <2>1, <2>2, <2>3, <2>5, <2>7, <2>9, Zenon DEF Phases
  <2> QED
        BY <2>9, <2>10, <2>11, <2>12, Zenon DEF LedgerInv

<1>EndWeakLedger. ASSUME LedgerInv, EndWeak
                  PROVE  LedgerInv'
  <2> USE <1>EndWeakLedger
  <2> DEFINE A == {e[1] : e \in aawMap}
  <2>1. A \subseteq Account
        BY Zenon DEF LedgerInv, Typed, TypeOK
  <2>2. chains' = AnyOrder(A)
        BY Zenon DEF EndWeak, Begin
  <2> HIDE DEF A
  <2>3. chains' \in Seq(A)
        BY <2>1, <2>2, AccountsFinite, AnyOrderIs, Zenon
  <2>4. chains' \in Seq(Account)
        BY <2>1, <2>3
  <2>5. Typed'
        BY <2>4, Zenon DEF EndWeak, Begin, LedgerInv, Typed, TypeOK, Pass
  <2>6. TxKnown' /\ Phases'
        BY Zenon DEF EndWeak, Begin, LedgerInv, TxKnown, Phases
  <2> QED
        BY <2>5, <2>6, Zenon DEF LedgerInv, EndWeak

<1>CommitLedger. ASSUME LedgerInv, NEW oversize \in BOOLEAN, Commit(oversize)
                 PROVE  LedgerInv'
  <2> USE <1>CommitLedger
  <2>1. /\ view' \in View(Nat) /\ ledger' = view' /\ view'.object = view.object
        /\ view'.ownerCount = view.ownerCount
        BY CommitIs, Zenon
  <2>2. view' \in View(Int)
        BY <2>1, ViewNat, Zenon
  <2>3. pc = "run" /\ pass = "again" /\ tx \in Tx
        BY LedgerFacts, Zenon DEF Commit
  <2>4. Follows(ledger, tx, now, view)
        BY <2>3, Zenon DEF LedgerInv, Phases
  <2>5. Exact(ledger') /\ Sound(ledger'.object)
        BY <2>1, <2>4, Zenon DEF Follows, Exact
  <2>6. Typed'
        BY <2>1, <2>2, Zenon DEF Commit, passVars, LedgerInv, Typed, TypeOK
  <2>7. TxKnown' /\ Phases'
        BY <2>3, Zenon DEF Commit, LedgerInv, TxKnown, Phases
  <2> QED
        BY <2>5, <2>6, <2>7, Zenon DEF LedgerInv

<1>ReturnLedger. ASSUME LedgerInv, Return
                 PROVE  LedgerInv'
  <2> USE <1>ReturnLedger
  <2>1. /\ ledger' \in View(Nat) /\ view' = ledger' /\ ledger'.object = ledger.object
        /\ ledger'.ownerCount = ledger.ownerCount
        BY ReturnIs, Zenon
  <2>2. view' \in View(Int)
        BY <2>1, ViewNat, Zenon
  <2>3. Exact(ledger') /\ Sound(ledger'.object)
        BY <2>1, Zenon DEF LedgerInv, Exact
  <2>4. /\ now' = now /\ count' = count /\ tx' = None /\ fee' = 0 /\ pc' = "idle" /\ applied' = FALSE
        /\ pass' = "strong" /\ chains' = <<>> /\ pos' = 0 /\ hookSkips' = {}
        /\ pending' = {} /\ aawMap' = {} /\ additionalWeakTSH' = {} /\ hookLog' = <<>>
        BY Zenon DEF Return, Begin
  <2>5. chains' \in Seq(Account) /\ hookLog' \in Seq(Run)
        BY <2>4
  <2>6. now \in Nat /\ count \in Nat
        BY LedgerFacts, Zenon
  <2>7. Typed'
        BY <2>1, <2>2, <2>4, <2>5, <2>6, Zenon DEF Typed, TypeOK, Pass
  <2>8. TxKnown' /\ Phases'
        BY <2>1, <2>4, Zenon DEF TxKnown, Phases
  <2> QED
        BY <2>3, <2>7, <2>8, Zenon DEF LedgerInv

<1>StutterLedger. ASSUME LedgerInv, vars' = vars
                  PROVE  LedgerInv'
BY <1>StutterLedger, Zenon DEF LedgerInv, Typed, TypeOK, TxKnown, Phases, CrossesOffers, vars, passVars

<1>CloseLedgerLedger. ASSUME LedgerInv, CloseLedger
                      PROVE  LedgerInv'
  <2> USE <1>CloseLedgerLedger
  <2>1. now' \in Nat /\ pc = "idle"
        BY LedgerFacts DEF CloseLedger
  <2> QED
        BY <2>1, Zenon DEF CloseLedger, LedgerInv, Typed, TypeOK, TxKnown, Phases, passVars
<1>1. LedgerInv /\ [Next]_vars => LedgerInv'
  <2> SUFFICES ASSUME LedgerInv, [Next]_vars PROVE LedgerInv'
      BY Zenon
  <2>1. ASSUME NEW t \in Tx, Submit(t) PROVE LedgerInv'
        BY <2>1, <1>SubmitLedger, Zenon
  <2>2. ASSUME NEW exit \in {"ACCEPT", "ROLLBACK", "WASM_ERROR"}, NEW skips \in SUBSET Hashes,
               NEW again \in BOOLEAN, ExecuteHook(exit, skips, again)
        PROVE  LedgerInv'
        BY <2>2, <1>ExecuteLedger, Zenon
  <2>3. ASSUME NEW weakTSH \in SUBSET Account, Apply(weakTSH) PROVE LedgerInv'
        BY <2>3, <1>ApplyLedger, Zenon
  <2>4. ASSUME NEW oversize \in BOOLEAN, Settle(oversize) PROVE LedgerInv'
        BY <2>4, <1>SettleLedger, Zenon
  <2>5. ASSUME NEW failures \in 0 .. 2, CheckInvariants(failures) PROVE LedgerInv'
        BY <2>5, <1>CheckInvariantsLedger, Zenon
  <2>6. ASSUME NEW oversize \in BOOLEAN, Commit(oversize) PROVE LedgerInv'
        BY <2>6, <1>CommitLedger, Zenon
  <2>7. CASE Stop \/ UNCHANGED vars
        BY <2>7, <1>StutterLedger, Zenon DEF Stop
  <2> QED
        BY <2>1, <2>2, <2>3, <2>4, <2>5, <2>6, <2>7, <1>EndChainLedger, <1>EndStrongLedger,
           <1>EndCallbackLedger, <1>EndWeakLedger, <1>ReturnLedger, <1>CloseLedgerLedger, Zenon DEF Next
<1> QED
      BY <1>1, <1>InitLedger, PTL DEF Spec

\* Only Commit and Return write the ledger.
LEMMA LedgerSteps ==
    ASSUME LedgerInv, [Next]_vars
    PROVE  \/ ledger' = ledger
           \/ \E oversize \in BOOLEAN : Commit(oversize)
           \/ Return
BY Zenon DEF Next, Submit, ExecuteHook, EndChain, EndStrong, Apply, Settle, CheckInvariants, EndCallback,
       EndWeak, Stop, CloseLedger, vars

\* The view that Commit starts from may become the ledger, and its worth is that
\* of the ledger less the fee.
LEMMA CommitFollows ==
    ASSUME LedgerInv, NEW oversize \in BOOLEAN, Commit(oversize)
    PROVE  /\ pc = "run" /\ pass = "again" /\ tx \in Tx /\ Follows(ledger, tx, now, view)
           /\ Worth(view) + fee = Worth(ledger)
<1>1. pc = "run" /\ pass = "again" /\ tx \in Tx
      BY LedgerFacts, Zenon DEF Commit
<1> QED
      BY <1>1, Zenon DEF LedgerInv, Phases

\* The variables of HookExec have their types; in particular the balances of the
\* ledger that Transactor::operator() leaves are never negative.
THEOREM TypeCorrect == Spec => []TypeOK
<1>1. LedgerInv => TypeOK
      BY Zenon DEF LedgerInv, Typed
<1> QED
      BY <1>1, LedgerSafe, PTL

\* The owner count of every account is the number of objects it owns, whatever
\* succeeds, fails with a claimed fee or is reset: the transactors adjust the count
\* exactly when they add or delete an object, or the reset takes both back.
THEOREM OwnersCounted == Spec => []OwnerCountExact
<1>1. LedgerInv => OwnerCountExact
      BY Zenon DEF LedgerInv, Exact, OwnerCountExact
<1> QED
      BY <1>1, LedgerSafe, PTL

\* When doApply has succeeded, the view and the fee are worth what the ledger
\* was: applying a transaction creates and destroys no XRP.
THEOREM ApplyCreatesNothing == Spec => []ApplyConserves
<1>1. LedgerInv => ApplyConserves
      BY Zenon DEF LedgerInv, Phases, ApplyConserves
<1> QED
      BY <1>1, LedgerSafe, PTL

\* A transaction applied to a closed ledger leaves the ledger worth what it was,
\* the drops it destroys counted: the fee, and the fees of the weak hooks, come out
\* of the balances and go to dropsDestroyed, and nothing else changes the total.
THEOREM DropsAreConserved == Spec => DropsConserved
<1>1. LedgerInv /\ [Next]_vars => [tx # None /\ ~tx.open => Worth(ledger') = Worth(ledger)]_vars
  <2> SUFFICES ASSUME LedgerInv, [Next]_vars, tx # None, ~tx.open
               PROVE  Worth(ledger') = Worth(ledger)
      BY Zenon
  <2>1. ASSUME NEW oversize \in BOOLEAN, Commit(oversize) PROVE Worth(ledger') = Worth(ledger)
    <3>1. Worth(view) + fee = Worth(ledger)
          BY <2>1, CommitFollows, Zenon
    <3>2. ledger' = view' /\ Worth(view') = Worth(view) + IF tx.open THEN 0 ELSE fee
          BY <2>1, CommitIs, Zenon
    <3> QED
          BY <3>1, <3>2, Zenon
  <2>2. ledger' = ledger => Worth(ledger') = Worth(ledger)
        BY Zenon DEF Worth, Held
  <2> QED
        BY <2>1, <2>2, LedgerSteps, ReturnIs, Zenon
<1> QED
      BY <1>1, LedgerSafe, PTL DEF Spec, DropsConserved

\* A payment channel ends only when it is over, by its receiver, or paying all of
\* it; while it is there its balance only grows, up to its amount; and an expiration
\* newly set is later than the old one or leaves the receiver the settle delay.  PayChan.cpp keeps to this
\* whatever hooks run and whatever is reset.
THEOREM ChannelsSettle == Spec => ChannelSettles

\* What a step does to a channel.
<1>ChannelStep. ASSUME LedgerInv, [Next]_vars,
                       NEW c, c = ledger.object["channel"], c # None,
                       NEW d, d = ledger'.object["channel"]
                PROVE  IF d = None
                       THEN \/ ChannelOver(c, now) \/ tx.account = c.dest
                            \/ ledger'.balance[c.dest] - ledger.balance[c.dest] = c.amount - c.balance
                       ELSE /\ c.balance <= d.balance /\ d.balance <= d.amount
                            /\ now + SettleDelay < TimeWidth /\ d.expiration \notin {0, c.expiration} =>
                                    \/ d.expiration >= now + SettleDelay
                                    \/ c.expiration # 0 /\ d.expiration > c.expiration
  <2> USE <1>ChannelStep
  <2>1. ledger \in View(Int) /\ Sound(ledger.object)
        BY LedgerFacts, Zenon
  <2>2. ASSUME d = c
        PROVE  c.balance <= d.balance /\ d.balance <= d.amount /\ d.expiration \in {0, c.expiration}
    <3>1. c.balance \in Nat /\ c.balance <= c.amount
          BY <2>1, Zenon DEF View, Sound, Kind, Object
    <3> QED
          BY <2>2, <3>1
  <2>3. CASE d = c
        BY <2>2, <2>3, Zenon
  <2>4. ASSUME NEW oversize \in BOOLEAN, Commit(oversize), d # c
        PROVE  /\ Settles(ledger, tx, now, view)
               /\ view.object["channel"] = d /\ view.balance = ledger'.balance
        BY <2>4, CommitIs, CommitFollows, Zenon DEF Follows
  <2>5. ASSUME NEW oversize \in BOOLEAN, Commit(oversize), d # c
        PROVE  IF d = None
               THEN \/ ChannelOver(c, now) \/ tx.account = c.dest
                    \/ ledger'.balance[c.dest] - ledger.balance[c.dest] = c.amount - c.balance
               ELSE /\ c.balance <= d.balance /\ d.balance <= d.amount
                    /\ now + SettleDelay < TimeWidth /\ d.expiration \notin {0, c.expiration} =>
                            \/ d.expiration >= now + SettleDelay
                            \/ c.expiration # 0 /\ d.expiration > c.expiration
        BY <2>4, <2>5, Zenon DEF Settles
  <2>6. Return \/ ledger' = ledger => d = c
        BY ReturnIs, Zenon
  <2> QED
        BY <2>3, <2>5, <2>6, LedgerSteps, Zenon
<1>1. LedgerInv /\ [Next]_vars =>
        [LET c == ledger.object["channel"]
             d == ledger'.object["channel"]
             paid == ledger'.balance[c.dest] - ledger.balance[c.dest]
         IN  c # None =>
              IF d = None
              THEN ChannelOver(c, now) \/ tx.account = c.dest \/ paid = c.amount - c.balance
              ELSE /\ c.balance <= d.balance /\ d.balance <= d.amount
                   /\ now + SettleDelay < TimeWidth /\ d.expiration \notin {0, c.expiration} =>
                          \/ d.expiration >= now + SettleDelay
                          \/ c.expiration # 0 /\ d.expiration > c.expiration]_vars
      BY <1>ChannelStep, Zenon
<1> QED
      BY <1>1, LedgerSafe, PTL DEF Spec, ChannelSettles

\* No transaction that moves XRP adds to the balance of an account with deposit
\* authorization unless it agreed, gets its own XRP back, or is below the reserve:
\* the checks of Payment.cpp, Escrow.cpp, CashCheck.cpp and PayChan.cpp hold of what
\* is committed.
THEOREM DepositsAreAuthorized == Spec => DepositsAuthorized
<1>1. LedgerInv /\ [Next]_vars =>
        [tx # None /\ MovesXRP(tx) =>
            \A a \in Account : ledger'.balance[a] > ledger.balance[a] =>
                \/ Authorized(a, tx.account)
                \/ \E k \in Owned(ledger.object, a) : ledger'.object[k] = None
                \/ /\ tx.type = "ttPAYMENT"
                   /\ ledger.balance[a] <= accountReserve(0) /\ tx.amount <= accountReserve(0)]_vars
  <2> SUFFICES ASSUME LedgerInv, [Next]_vars, MovesXRP(tx),
                      NEW a \in Account, ledger'.balance[a] > ledger.balance[a]
               PROVE  \/ Authorized(a, tx.account)
                      \/ \E k \in Owned(ledger.object, a) : ledger'.object[k] = None
                      \/ /\ tx.type = "ttPAYMENT"
                         /\ ledger.balance[a] <= accountReserve(0) /\ tx.amount <= accountReserve(0)
      BY Zenon
  <2>1. ledger.balance[a] \in Int
        BY LedgerFacts, Zenon DEF View
  <2>2. Return \/ ledger' = ledger => ledger'.balance[a] = ledger.balance[a]
        BY ReturnIs, Zenon
  <2>3. PICK oversize \in BOOLEAN : Commit(oversize)
        BY <2>1, <2>2, LedgerSteps
  <2>4. Deposits(ledger, tx, view) /\ view.object = ledger'.object /\ view.balance = ledger'.balance
        BY <2>3, CommitIs, CommitFollows, Zenon DEF Follows
  <2> QED
        BY <2>4, Zenon DEF Deposits
<1> QED
      BY <1>1, LedgerSafe, PTL DEF Spec, DepositsAuthorized
===============================================================================
