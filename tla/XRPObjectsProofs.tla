--------------------------- MODULE XRPObjectsProofs ---------------------------
(***************************************************************************)
(* What applying a transaction that moves XRP does to a view, for any      *)
(* number of accounts and any amounts: it creates and destroys no drop,    *)
(* the owner counts stay exact, a deposit is authorized and a channel      *)
(* settles (DoApplyLawful).  The worth of a view is a sum over its         *)
(* accounts and its objects, so the lemmas about such sums come first.     *)
(* They are proved from the recursion that the fold unfolds to, by the     *)
(* least counterexample among the subsets of a finite set.                 *)
(***************************************************************************)
EXTENDS HookExec, FiniteSetTheorems, TLAPS

\* A nonempty set of natural numbers has a least element.
LEMMA LeastNat ==
    ASSUME NEW T, T \subseteq Nat, T # {}
    PROVE  \E x \in T : \A y \in T : x <= y
<1>1. \E x \in T : \A y \in T : ~(<<y, x>> \in OpToRel(<, Nat))
      BY WFMin, NatLessThanWellFounded, Zenon
<1>2. PICK x \in T : \A y \in T : ~(<<y, x>> \in OpToRel(<, Nat))
      BY <1>1, Zenon
<1>3. \A y \in T : ~(y < x)
      BY <1>2, Zenon DEF OpToRel
<1> QED
      BY <1>3

\* A nonempty collection of subsets of a finite set has a member that includes
\* no other.
LEMMA SmallestSet ==
    ASSUME NEW S, IsFiniteSet(S), NEW T, T \subseteq SUBSET S, T # {}
    PROVE  \E s \in T : IsFiniteSet(s) /\ \A u \in SUBSET s : u # s => u \notin T
<1>1. IsWellFoundedOn(StrictSubsetOrdering(S), SUBSET S)
      BY FS_StrictSubsetOrderingWellFounded, FS_FiniteSubsetsOfFinite, Zenon
<1>2. PICK s \in T : \A u \in T : ~(<<u, s>> \in StrictSubsetOrdering(S))
      BY <1>1, WFMin, Zenon
<1>3. \A u \in SUBSET s : u # s => u \notin T
      BY <1>2, Zenon DEF StrictSubsetOrdering
<1>4. IsFiniteSet(s)
      BY FS_Subset, Zenon
<1> QED
      BY <1>3, <1>4, Zenon

\* The element that the fold of a set takes first.
Some(s) == CHOOSE x \in s : TRUE

\* g is the recursion that the sum of f unfolds to on the subsets of S.
IsSum(g, f, S) ==
    g = [s \in SUBSET S |-> IF s = {} THEN 0 ELSE f[Some(s)] + g[s \ {Some(s)}]]

\* The element taken is one of the set.
LEMMA SomeIn == ASSUME NEW s, s # {} PROVE Some(s) \in s
BY Zenon DEF Some

\* SumFunctionOnSet is such a recursion, taken at the whole set.
LEMMA SumDef ==
    ASSUME NEW f, NEW S
    PROVE  SumFunctionOnSet(f, S) = (CHOOSE g : IsSum(g, f, S))[S]
BY Zenon DEF SumFunctionOnSet, FoldFunctionOnSet, MapThenFoldSet, IsSum, Some

\* The recursion starts from 0.
LEMMA IsSumEmpty ==
    ASSUME NEW f, NEW S, NEW g, IsSum(g, f, S)
    PROVE  g[{}] = 0
BY Zenon DEF IsSum

\* The recursion adds the value of the element taken.
LEMMA IsSumStep ==
    ASSUME NEW f, NEW S, NEW g, IsSum(g, f, S)
    PROVE  \A s \in SUBSET S : s # {} => g[s] = f[Some(s)] + g[s \ {Some(s)}]
BY Zenon DEF IsSum

\* The recursion has one solution: two agree where the functions do.
LEMMA SumsAgree ==
    ASSUME NEW S, IsFiniteSet(S), NEW U, NEW f, NEW h, NEW g1, NEW g2, IsSum(g1, f, S), IsSum(g2, h, U),
           NEW s \in SUBSET (S \cap U), \A x \in s : f[x] = h[x]
    PROVE  g1[s] = g2[s]
<1> DEFINE T == {u \in SUBSET s : g1[u] # g2[u]}
<1> SUFFICES T = {}
    BY Zenon
<1> SUFFICES ASSUME T # {} PROVE FALSE
    BY Zenon
<1>1. IsFiniteSet(s) /\ T \subseteq SUBSET s
      BY FS_Subset, Zenon
<1>2. PICK u \in T : \A w \in SUBSET u : w # u => w \notin T
  <2> HIDE DEF T
  <2> QED
      BY <1>1, SmallestSet, Zenon
<1>3. u \in SUBSET S /\ u \in SUBSET U /\ u \in SUBSET s /\ g1[u] # g2[u]
      BY Zenon
<1>4. \A w \in SUBSET u : w # u => g1[w] = g2[w]
      BY <1>2, <1>3, Zenon
<1> HIDE DEF T
<1>5. CASE u = {}
  <2>1. g1[u] = 0
        BY <1>5, IsSumEmpty, Zenon
  <2>2. g2[u] = 0
        BY <1>5, IsSumEmpty, Zenon
  <2> QED
        BY <1>3, <2>1, <2>2, Zenon
<1>6. CASE u # {}
  <2>1. Some(u) \in u
        BY <1>6, SomeIn, Zenon
  <2>2. g1[u \ {Some(u)}] = g2[u \ {Some(u)}]
        BY <1>4, <2>1, Zenon
  <2>3. f[Some(u)] = h[Some(u)]
        BY <1>3, <2>1, Zenon
  <2>4. \A w \in SUBSET S : w # {} => g1[w] = f[Some(w)] + g1[w \ {Some(w)}]
        BY IsSumStep
  <2>5. \A w \in SUBSET U : w # {} => g2[w] = h[Some(w)] + g2[w \ {Some(w)}]
        BY Zenon DEF IsSum
  <2> QED
        BY <1>3, <1>6, <2>2, <2>3, <2>4, <2>5, Zenon
<1> QED
    BY <1>5, <1>6, Zenon

\* The recursion has a solution on every finite set.
LEMMA SumExists ==
    ASSUME NEW S, IsFiniteSet(S), NEW f
    PROVE  \E g : IsSum(g, f, S)
<1> DEFINE T == {u \in SUBSET S : ~ \E g : IsSum(g, f, u)}
<1> SUFFICES ASSUME T # {} PROVE FALSE
    BY Zenon
<1>1. T \subseteq SUBSET S
      BY Zenon
<1>2. PICK u \in T : \A w \in SUBSET u : w # u => w \notin T
  <2> HIDE DEF T
  <2> QED
      BY <1>1, SmallestSet, Zenon
<1> DEFINE G(w) == CHOOSE g : IsSum(g, f, w)
<1>3. ASSUME NEW w \in SUBSET u, w # u PROVE IsSum(G(w), f, w)
      BY <1>2, <1>3, Zenon
<1> DEFINE val(w) == IF w = {} THEN 0 ELSE f[Some(w)] + G(w \ {Some(w)})[w \ {Some(w)}]
           g == [w \in SUBSET u |-> val(w)]
<1>4. ASSUME NEW w \in SUBSET u, w # u PROVE G(w)[w] = val(w)
  <2>1. CASE w = {}
        BY <1>3, <1>4, <2>1, IsSumEmpty, Zenon
  <2>2. CASE w # {}
    <3> DEFINE r == w \ {Some(w)}
    <3>1. Some(w) \in w
          BY <2>2, SomeIn, Zenon
    <3>2. r \in SUBSET u /\ r # u /\ r \in SUBSET w
          BY <3>1, Zenon
    <3>3. IsSum(G(w), f, w) /\ IsSum(G(r), f, r)
          BY <1>3, <1>4, <3>2, Zenon
    <3>4. IsFiniteSet(w)
          BY FS_Subset, <1>2, Zenon
    <3>5. G(w)[r] = G(r)[r]
          BY <3>2, <3>3, <3>4, SumsAgree
    <3>6. \A e \in SUBSET w : e # {} => G(w)[e] = f[Some(e)] + G(w)[e \ {Some(e)}]
          BY <3>3, IsSumStep
    <3>7. G(w)[w] = f[Some(w)] + G(w)[r]
      <4> HIDE DEF G
      <4> QED
          BY <2>2, <3>6, Zenon
    <3> QED
          BY <2>2, <3>5, <3>7
  <2> QED
        BY <2>1, <2>2, Zenon
<1>5. ASSUME NEW w \in SUBSET u, w # {} PROVE g[w \ {Some(w)}] = G(w \ {Some(w)})[w \ {Some(w)}]
  <2>1. Some(w) \in w
        BY <1>5, SomeIn, Zenon
  <2> DEFINE r == w \ {Some(w)}
  <2>2. r \in SUBSET u /\ r # u
        BY <2>1, Zenon
  <2>3. g[r] = val(r)
        BY <2>2, Zenon
  <2> HIDE DEF r, g, val, G
  <2> QED
        BY <1>4, <2>2, <2>3, Zenon DEF r
<1>6. ASSUME NEW w \in SUBSET u
      PROVE  val(w) = IF w = {} THEN 0 ELSE f[Some(w)] + g[w \ {Some(w)}]
  <2>1. CASE w = {}
        BY <2>1, Zenon
  <2>2. CASE w # {}
    <3>1. g[w \ {Some(w)}] = G(w \ {Some(w)})[w \ {Some(w)}]
          BY <1>5, <2>2, Zenon
    <3>2. val(w) = f[Some(w)] + G(w \ {Some(w)})[w \ {Some(w)}]
          BY <2>2, Zenon
    <3> HIDE DEF g, val, G
    <3> QED
          BY <2>2, <3>1, <3>2, Zenon
  <2> QED
        BY <2>1, <2>2, Zenon
<1>7. g = [w \in SUBSET u |-> val(w)]
      BY Zenon
<1>8. IsSum(g, f, u)
  <2> HIDE DEF g, val
  <2> QED
      BY <1>6, <1>7, Zenon DEF IsSum
<1> QED
    BY <1>8, Zenon

\* One recursion gives the sums over a set and over a part of it.
LEMMA SumIsSum ==
    ASSUME NEW S, IsFiniteSet(S), NEW f, NEW s \in SUBSET S
    PROVE  \E g : IsSum(g, f, S) /\ g[S] = SumFunctionOnSet(f, S) /\ g[s] = SumFunctionOnSet(f, s)
<1> DEFINE g == CHOOSE g : IsSum(g, f, S)
           h == CHOOSE h : IsSum(h, f, s)
<1>1. IsSum(g, f, S)
      BY SumExists, Zenon
<1>2. IsFiniteSet(s)
      BY FS_Subset, Zenon
<1>3. IsSum(h, f, s)
      BY <1>2, SumExists, Zenon
<1>4. g[s] = h[s]
      BY <1>1, <1>3, SumsAgree
<1> QED
      BY <1>1, <1>4, SumDef, Zenon

\* A sum over no element is 0.
LEMMA SumEmpty ==
    ASSUME NEW f
    PROVE  SumFunctionOnSet(f, {}) = 0
<1>1. PICK g : IsSum(g, f, {}) /\ g[{}] = SumFunctionOnSet(f, {})
      BY SumIsSum, FS_EmptySet, Zenon
<1>2. g[{}] = 0
      BY <1>1, IsSumEmpty, Zenon
<1> QED
      BY <1>1, <1>2, Zenon

\* A sum takes its elements one by one, in the order of the fold.
LEMMA SumStep ==
    ASSUME NEW S, IsFiniteSet(S), S # {}, NEW f
    PROVE  SumFunctionOnSet(f, S) = f[Some(S)] + SumFunctionOnSet(f, S \ {Some(S)})
<1>1. PICK g : IsSum(g, f, S) /\ g[S] = SumFunctionOnSet(f, S)
                /\ g[S \ {Some(S)}] = SumFunctionOnSet(f, S \ {Some(S)})
      BY SumIsSum
<1>2. \A s \in SUBSET S : s # {} => g[s] = f[Some(s)] + g[s \ {Some(s)}]
      BY <1>1, IsSumStep
<1> QED
      BY <1>1, <1>2, Zenon

\* A sum of integers is an integer.
LEMMA SumInt ==
    ASSUME NEW S, IsFiniteSet(S), NEW f, \A x \in S : f[x] \in Int
    PROVE  SumFunctionOnSet(f, S) \in Int
<1> DEFINE T == {u \in SUBSET S : SumFunctionOnSet(f, u) \notin Int}
<1> SUFFICES ASSUME T # {} PROVE FALSE
    BY Zenon
<1>1. T \subseteq SUBSET S
      BY Zenon
<1>2. PICK u \in T : IsFiniteSet(u) /\ \A w \in SUBSET u : w # u => w \notin T
  <2> HIDE DEF T
  <2> QED
      BY <1>1, SmallestSet, Zenon
<1>3. CASE u = {}
      BY <1>3, SumEmpty
<1>4. CASE u # {}
  <2>1. Some(u) \in u
        BY <1>4, SomeIn, Zenon
  <2>2. SumFunctionOnSet(f, u \ {Some(u)}) \in Int
        BY <1>2, <2>1, Zenon
  <2>3. SumFunctionOnSet(f, u) = f[Some(u)] + SumFunctionOnSet(f, u \ {Some(u)})
        BY <1>2, <1>4, SumStep, Zenon
  <2> QED
        BY <2>1, <2>2, <2>3
<1> QED
    BY <1>3, <1>4, Zenon

\* Any element may be taken first: the order does not matter.
LEMMA SumTake ==
    ASSUME NEW S, IsFiniteSet(S), NEW f, \A x \in S : f[x] \in Int, NEW y \in S
    PROVE  SumFunctionOnSet(f, S) = f[y] + SumFunctionOnSet(f, S \ {y})
<1> DEFINE Good(u) == \A x \in u : SumFunctionOnSet(f, u) = f[x] + SumFunctionOnSet(f, u \ {x})
           T == {u \in SUBSET S : ~Good(u)}
<1> SUFFICES ASSUME T # {} PROVE FALSE
    BY Zenon
<1>1. T \subseteq SUBSET S
      BY Zenon
<1>2. PICK u \in T : IsFiniteSet(u) /\ \A w \in SUBSET u : w # u => w \notin T
  <2> HIDE DEF T
  <2> QED
      BY <1>1, SmallestSet, Zenon
<1>3. PICK x \in u : SumFunctionOnSet(f, u) # f[x] + SumFunctionOnSet(f, u \ {x})
      BY Zenon
<1>4. u \in SUBSET S /\ \A w \in SUBSET u : w # u => Good(w)
      BY <1>2, Zenon
<1> DEFINE z == Some(u)
<1>5. z \in u /\ z \in S /\ x \in S
      BY <1>3, <1>4, SomeIn, Zenon
<1> HIDE DEF T, z
<1>6. SumFunctionOnSet(f, u) = f[z] + SumFunctionOnSet(f, u \ {z})
      BY <1>2, <1>3, SumStep, Zenon DEF z
<1>7. x # z
      BY <1>3, <1>6, Zenon
<1>8. SumFunctionOnSet(f, u \ {z}) = f[x] + SumFunctionOnSet(f, (u \ {z}) \ {x})
      BY <1>3, <1>4, <1>5, <1>7, Zenon
<1>9. SumFunctionOnSet(f, u \ {x}) = f[z] + SumFunctionOnSet(f, (u \ {x}) \ {z})
      BY <1>3, <1>4, <1>5, <1>7, Zenon
<1>10. (u \ {x}) \ {z} = (u \ {z}) \ {x}
      BY Zenon
<1>11. SumFunctionOnSet(f, (u \ {z}) \ {x}) \in Int
      BY <1>2, <1>4, SumInt, FS_Subset, Zenon
<1>12. f[x] \in Int /\ f[z] \in Int
      BY <1>5, Zenon
<1>13. SumFunctionOnSet(f, u) = f[x] + SumFunctionOnSet(f, u \ {x})
  <2> DEFINE A == SumFunctionOnSet(f, u)
             B == SumFunctionOnSet(f, u \ {z})
             C == SumFunctionOnSet(f, u \ {x})
             D == SumFunctionOnSet(f, (u \ {z}) \ {x})
  <2>1. A = f[z] + B /\ B = f[x] + D /\ C = f[z] + D /\ D \in Int
        BY <1>6, <1>8, <1>9, <1>10, <1>11, Zenon
  <2> HIDE DEF A, B, C, D
  <2>2. A = f[x] + C
        BY <1>12, <2>1
  <2> QED
        BY <2>2, Zenon DEF A, C
<1> QED
      BY <1>3, <1>13, Zenon

\* Only the values on the set count.
LEMMA SumSame ==
    ASSUME NEW S, IsFiniteSet(S), NEW f, NEW h, \A x \in S : f[x] = h[x]
    PROVE  SumFunctionOnSet(f, S) = SumFunctionOnSet(h, S)
<1>1. PICK g1 : IsSum(g1, f, S) /\ g1[S] = SumFunctionOnSet(f, S)
      BY SumIsSum, Zenon
<1>2. PICK g2 : IsSum(g2, h, S) /\ g2[S] = SumFunctionOnSet(h, S)
      BY SumIsSum, Zenon
<1> QED
      BY <1>1, <1>2, SumsAgree

\* The sum of an integer function, as the model takes it.
LEMMA SumFunctionInt ==
    ASSUME NEW S, IsFiniteSet(S), NEW f \in [S -> Int]
    PROVE  SumFunction(f) \in Int
BY SumInt, Zenon DEF SumFunction

\* A change of one value shows in the sum in full.
LEMMA SumUpdate ==
    ASSUME NEW S, IsFiniteSet(S), NEW f \in [S -> Int], NEW h \in [S -> Int], NEW x \in S,
           \A y \in S : y # x => h[y] = f[y]
    PROVE  SumFunction(h) = SumFunction(f) - f[x] + h[x]
<1>1. IsFiniteSet(S \ {x})
      BY FS_Subset, Zenon
<1>2. SumFunctionOnSet(f, S \ {x}) = SumFunctionOnSet(h, S \ {x})
      BY <1>1, SumSame, Zenon
<1>3. SumFunctionOnSet(f, S \ {x}) \in Int
      BY <1>1, SumInt, Zenon
<1>4. SumFunctionOnSet(f, S) = f[x] + SumFunctionOnSet(f, S \ {x})
      BY SumTake, Zenon
<1>5. SumFunctionOnSet(h, S) = h[x] + SumFunctionOnSet(h, S \ {x})
      BY SumTake, Zenon
<1>6. SumFunction(f) = SumFunctionOnSet(f, S) /\ SumFunction(h) = SumFunctionOnSet(h, S)
      BY Zenon DEF SumFunction
<1>7. f[x] \in Int /\ h[x] \in Int
      BY Zenon
<1> QED
      BY <1>2, <1>3, <1>4, <1>5, <1>6, <1>7

\* The sum of a difference is the difference of the sums.
LEMMA SumMinus ==
    ASSUME NEW S, IsFiniteSet(S), NEW f \in [S -> Int], NEW d \in [S -> Int],
           NEW h \in [S -> Int], \A x \in S : h[x] = f[x] - d[x]
    PROVE  SumFunction(h) = SumFunction(f) - SumFunction(d)
<1> DEFINE Good(u) == SumFunctionOnSet(h, u) = SumFunctionOnSet(f, u) - SumFunctionOnSet(d, u)
           T == {u \in SUBSET S : ~Good(u)}
<1>0. SUFFICES ASSUME T # {} PROVE FALSE
    BY Zenon DEF SumFunction
<1>1. T \subseteq SUBSET S
      BY Zenon
<1>2. PICK u \in T : IsFiniteSet(u) /\ \A w \in SUBSET u : w # u => w \notin T
  <2> HIDE DEF T
  <2> QED
      BY <1>0, <1>1, SmallestSet, Zenon
<1>3. u \in SUBSET S /\ ~Good(u) /\ \A w \in SUBSET u : w # u => Good(w)
      BY <1>2, Zenon
<1> HIDE DEF T
<1>4. CASE u = {}
      BY <1>3, <1>4, SumEmpty
<1>5. CASE u # {}
  <2> DEFINE x == Some(u)  r == u \ {x}
  <2>1. x \in u /\ x \in S /\ r \in SUBSET u /\ r # u /\ r \in SUBSET S /\ IsFiniteSet(r)
        BY <1>2, <1>3, <1>5, SomeIn, FS_Subset, Zenon
  <2> HIDE DEF x, r
  <2>2. SumFunctionOnSet(f, u) = f[x] + SumFunctionOnSet(f, r)
        BY <1>2, <1>5, SumStep, Zenon DEF x, r
  <2>3. SumFunctionOnSet(d, u) = d[x] + SumFunctionOnSet(d, r)
        BY <1>2, <1>5, SumStep, Zenon DEF x, r
  <2>4. SumFunctionOnSet(h, u) = h[x] + SumFunctionOnSet(h, r)
        BY <1>2, <1>5, SumStep, Zenon DEF x, r
  <2>5. SumFunctionOnSet(f, r) \in Int /\ SumFunctionOnSet(d, r) \in Int
        BY <2>1, SumInt, Zenon
  <2>6. Good(r)
        BY <1>3, <2>1, Zenon
  <2>7. f[x] \in Int /\ d[x] \in Int /\ h[x] = f[x] - d[x]
        BY <2>1, Zenon
  <2> QED
        BY <1>3, <2>2, <2>3, <2>4, <2>5, <2>6, <2>7
<1> QED
    BY <1>4, <1>5, Zenon

\* There are finitely many kinds of objects.
LEMMA KindFinite == IsFiniteSet(Kind)
<1>1. IsFiniteSet({"escrow"}) /\ IsFiniteSet({"check"}) /\ IsFiniteSet({"channel"})
      BY FS_Singleton, Zenon
<1>2. IsFiniteSet({"escrow"} \cup {"check"})
      BY <1>1, FS_Union, Zenon
<1>3. IsFiniteSet(({"escrow"} \cup {"check"}) \cup {"channel"})
      BY <1>1, <1>2, FS_Union, Zenon
<1>4. Kind = ({"escrow"} \cup {"check"}) \cup {"channel"}
      BY Zenon DEF Kind
<1> QED
      BY <1>3, <1>4, Zenon

\* What a transactor leaves alone of a view.
SameMarks(v, w) ==
    /\ w.hooks = v.hooks /\ w.token = v.token /\ w.emittedTxn = v.emittedTxn
    /\ w.done = v.done /\ w.state = v.state /\ w.emissions = v.emissions
    /\ w.dropsDestroyed = v.dropsDestroyed

\* Every account is charged for the objects it owns and no other.
Exact(v) == \A a \in Account : v.ownerCount[a] = Cardinality(Owned(v.object, a))

\* What an object holds is a number of drops.
LEMMA HeldInt ==
    ASSUME NEW v \in View(Int), NEW k \in Kind
    PROVE  Held(v, k) \in Int
<1>1. v.object[k] \in Object \cup {None}
      BY Zenon DEF View
<1> QED
      BY <1>1 DEF Held, Object

\* The worth of a view is a number of drops, and so are its parts.
LEMMA WorthParts ==
    ASSUME NEW v \in View(Int)
    PROVE  /\ SumFunction(v.balance) \in Int
           /\ SumFunction([k \in Kind |-> Held(v, k)]) \in Int
           /\ v.dropsDestroyed \in Int
           /\ Worth(v) \in Int
<1>1. v.balance \in [Account -> Int] /\ v.dropsDestroyed \in Int
      BY DEF View
<1>2. SumFunction(v.balance) \in Int
      BY <1>1, SumFunctionInt, XRPObjectsAssumption, Zenon
<1>3. [k \in Kind |-> Held(v, k)] \in [Kind -> Int]
      BY HeldInt, Zenon
<1>4. SumFunction([k \in Kind |-> Held(v, k)]) \in Int
      BY <1>3, SumFunctionInt, KindFinite, Zenon
<1> QED
      BY <1>1, <1>2, <1>4 DEF Worth

\* The worth changes with one balance by as much.
LEMMA BalanceWorth ==
    ASSUME NEW v \in View(Int), NEW w \in View(Int), NEW a \in Account,
           w.object = v.object, w.dropsDestroyed = v.dropsDestroyed,
           \A b \in Account : b # a => w.balance[b] = v.balance[b]
    PROVE  Worth(w) = Worth(v) - v.balance[a] + w.balance[a]
<1>1. v.balance \in [Account -> Int] /\ w.balance \in [Account -> Int]
      BY Zenon DEF View
<1>2. SumFunction(w.balance) = SumFunction(v.balance) - v.balance[a] + w.balance[a]
      BY <1>1, SumUpdate, XRPObjectsAssumption
<1>3. [k \in Kind |-> Held(w, k)] = [k \in Kind |-> Held(v, k)]
      BY Zenon DEF Held
<1>4. v.balance[a] \in Int /\ w.balance[a] \in Int
      BY <1>1, Zenon
<1> QED
      BY <1>2, <1>3, <1>4, WorthParts DEF Worth

\* w is v after x drops are paid to a, or taken when x is negative.
Credits(v, w, a, x) ==
    /\ w \in View(Int) /\ w.balance = [v.balance EXCEPT ![a] = @ + x]
    /\ w.object = v.object /\ w.ownerCount = v.ownerCount /\ SameMarks(v, w)
    /\ Worth(w) = Worth(v) + x

\* Credit changes one balance, and the worth by as much.
LEMMA CreditIs ==
    ASSUME NEW v \in View(Int), NEW a \in Account, NEW x \in Int
    PROVE  Credits(v, Credit(v, a, x), a, x)
<1> DEFINE w == Credit(v, a, x)
<1>1. w \in View(Int)
      BY DEF View, Credit
<1>2. w.balance = [v.balance EXCEPT ![a] = @ + x]
      BY Zenon DEF View, Credit
<1>3. w.object = v.object /\ w.ownerCount = v.ownerCount
      BY Zenon DEF View, Credit
<1>4. SameMarks(v, w)
      BY Zenon DEF View, Credit, SameMarks
<1> HIDE DEF w
<1>5. v.balance \in [Account -> Int]
      BY Zenon DEF View
<1>6. Worth(w) = Worth(v) - v.balance[a] + w.balance[a]
      BY <1>1, <1>2, <1>3, <1>4, <1>5, BalanceWorth, Zenon DEF SameMarks
<1>7. w.balance[a] = v.balance[a] + x /\ v.balance[a] \in Int
      BY <1>2, <1>5, Zenon
<1>8. Worth(v) \in Int
      BY WorthParts, Zenon
<1>9. Worth(w) = Worth(v) + x
      BY <1>6, <1>7, <1>8
<1> QED
      BY <1>1, <1>2, <1>3, <1>4, <1>9, Zenon DEF w, Credits

\* An object that changes in place, its owner kept.
WithObject(v, k, o) == [v EXCEPT !.object[k] = o]

\* DepositsAuthorized, of a view v and a later view w.
Deposits(v, t, w) ==
    \A a \in Account : w.balance[a] > v.balance[a] =>
        \/ Authorized(a, t.account)
        \/ \E k \in Owned(v.object, a) : w.object[k] = None
        \/ /\ t.type = "ttPAYMENT"
           /\ v.balance[a] <= accountReserve(0) /\ t.amount <= accountReserve(0)

\* ChannelSettles, of a view v and a later view w.
Settles(v, t, n, w) ==
    LET c == v.object["channel"]
        d == w.object["channel"]
    IN  c # None =>
          IF d = None
          THEN \/ ChannelOver(c, n) \/ t.account = c.dest
               \/ /\ t.type = "ttPAYCHAN_CLAIM" /\ t.account # c.dest
                  /\ w.balance[c.dest] - v.balance[c.dest] = c.amount - c.balance
          ELSE /\ c.balance <= d.balance /\ d.balance <= d.amount
               /\ n + SettleDelay < TimeWidth /\ d.expiration \notin {0, c.expiration} =>
                    \/ d.expiration >= n + SettleDelay
                    \/ c.expiration # 0 /\ d.expiration > c.expiration

\* An object that stays keeps its owner and its destination.
SameParties(v, w) ==
    \A k \in Kind : v.object[k] # None /\ w.object[k] # None =>
        w.object[k].owner = v.object[k].owner /\ w.object[k].dest = v.object[k].dest

\* The objects new are the objects object without the one of kind k.
OneFewer(object, new, k) ==
    object[k] # None /\ new[k] = None /\ \A j \in Kind : j # k => new[j] = object[j]

\* w is v after the object of kind k is deleted and x drops are paid to b.
Releases(v, w, k, b, x) ==
    /\ w \in View(Int) /\ SameMarks(v, w) /\ SameParties(v, w) /\ Exact(w) /\ Sound(w.object)
    /\ w.object = [v.object EXCEPT ![k] = None]
    /\ w.balance = [v.balance EXCEPT ![b] = @ + x]
    /\ Worth(w) = Worth(v) + x - Held(v, k)

\* w is v after the object of kind k is written as o.
Writes(v, w, k, o) ==
    /\ w \in View(Int) /\ w.balance = v.balance /\ w.ownerCount = v.ownerCount /\ SameMarks(v, w)
    /\ w.object = [v.object EXCEPT ![k] = o]
    /\ v.object[k] # None /\ o.owner = v.object[k].owner /\ Exact(v) => Exact(w)
    /\ Worth(w) = Worth(v) - Held(v, k) + IF k = "check" THEN 0 ELSE o.amount - o.balance

\* What every transactor keeps to: whatever the outcome, the marks of the hooks
\* and the parties; on success also the drops, the owner counts, the deposits and
\* the channel.
Lawful(v, t, n, out) ==
    /\ out.view \in View(Int) /\ SameMarks(v, out.view) /\ SameParties(v, out.view)
    /\ out.ter = "tesSUCCESS" =>
        /\ Worth(out.view) = Worth(v) /\ Exact(out.view) /\ Sound(out.view.object)
        /\ Deposits(v, t, out.view) /\ Settles(v, t, n, out.view)

\* A channel left as it was has nothing to settle.
LEMMA ChannelKept ==
    ASSUME NEW v \in View(Int), NEW t, NEW n, NEW w, Sound(v.object),
           w.object["channel"] = v.object["channel"]
    PROVE  Settles(v, t, n, w)
<1>1. v.object["channel"] \in Object \cup {None}
      BY Zenon DEF View, Kind
<1> QED
      BY <1>1 DEF Settles, Sound, Kind, Object

\* The fields of a transaction have their types.
LEMMA TxFields ==
    ASSUME NEW t \in Tx
    PROVE  /\ t.account \in Account /\ t.fee \in Nat /\ t.amount \in Nat /\ t.balance \in Nat
           /\ t.finishAfter \in Nat /\ t.cancelAfter \in Nat /\ t.expiration \in Nat
           /\ t.condition \in BOOLEAN
           /\ t.type \in CreatesObject \cup {"ttPAYMENT"} => Destination(t) \in Account
BY HookExecAssumption DEF Destination

\* The three kinds.
LEMMA KindMembers == "escrow" \in Kind /\ "check" \in Kind /\ "channel" \in Kind
BY Zenon DEF Kind

\* The lesser of two integers.
LEMMA MinPair == ASSUME NEW i \in Int, NEW j \in Int PROVE Min({i, j}) = IF i <= j THEN i ELSE j
BY DEF Min

\* A view in which only the channel and what it paid have changed so far.
Touched(v, t, u) ==
    LET c == v.object["channel"]
        d == u.object["channel"]
    IN  /\ u \in View(Int) /\ SameMarks(v, u) /\ Exact(u) /\ Worth(u) = Worth(v)
        /\ \A k \in Kind : k # "channel" => u.object[k] = v.object[k]
        /\ d \in Object /\ d.owner = c.owner /\ d.dest = c.dest
        /\ c.balance <= d.balance /\ d.balance <= d.amount
        /\ \A a \in Account : u.balance[a] > v.balance[a] => Authorized(a, t.account)

\* What a transaction that moves XRP is applied to: preclaim has turned away the
\* rest.
Applicable(v, t) ==
    /\ v \in View(Int) /\ Exact(v) /\ Sound(v.object) /\ t \in Tx /\ MovesXRP(t)
    /\ t.type \in CreatesObject => v.object[kindOf(t)] = None
    /\ t.type = "ttCHECK_CASH" /\ v.object["check"] # None => v.object["check"].dest = t.account

\* Every outcome of doApply of a payment, an escrow, a check or a payment
\* channel transaction is lawful: the transactors of Payment.cpp, Escrow.cpp,
\* CreateCheck.cpp, CashCheck.cpp, CancelCheck.cpp and PayChan.cpp create and
\* destroy no drops, keep the owner counts exact, pay an account with deposit
\* authorization only where it agreed, and close a channel or move its expiration
\* only as its parties were promised.
THEOREM DoApplyLawful ==
    \A v, t : Applicable(v, t) =>
        \A n \in Nat : \A out \in doApply(v, t, n) : Lawful(v, t, n, out)

\* The worth changes with one object by what it holds.
<1>ObjectWorth. ASSUME NEW v \in View(Int), NEW w \in View(Int), NEW k \in Kind,
                       w.balance = v.balance, w.dropsDestroyed = v.dropsDestroyed,
                       \A j \in Kind : j # k => w.object[j] = v.object[j]
                PROVE  Worth(w) = Worth(v) - Held(v, k) + Held(w, k)
  <2> USE <1>ObjectWorth
  <2> DEFINE f == [j \in Kind |-> Held(v, j)]
             h == [j \in Kind |-> Held(w, j)]
  <2>1. f \in [Kind -> Int] /\ h \in [Kind -> Int]
        BY HeldInt, Zenon
  <2>2. \A j \in Kind : j # k => h[j] = f[j]
        BY Zenon DEF Held
  <2>3. f[k] = Held(v, k) /\ h[k] = Held(w, k)
        BY Zenon
  <2>4. Worth(v) = SumFunction(v.balance) + SumFunction(f) + v.dropsDestroyed
        BY Zenon DEF Worth
  <2>5. Worth(w) = SumFunction(v.balance) + SumFunction(h) + v.dropsDestroyed
        BY Zenon DEF Worth
  <2>6. SumFunction(v.balance) \in Int /\ SumFunction(f) \in Int /\ v.dropsDestroyed \in Int
        BY WorthParts, Zenon
  <2>7. Held(v, k) \in Int /\ Held(w, k) \in Int
        BY HeldInt, Zenon
  <2> HIDE DEF f, h
  <2>8. SumFunction(h) = SumFunction(f) - f[k] + h[k]
        BY <2>1, <2>2, KindFinite, SumUpdate
  <2> QED
        BY <2>3, <2>4, <2>5, <2>6, <2>7, <2>8

\* One object comes, goes, or changes in place: what an account owns.
<1>OwnedFinite. ASSUME NEW object, NEW a
                PROVE  IsFiniteSet(Owned(object, a)) /\ Cardinality(Owned(object, a)) \in Nat
  <2>1. Owned(object, a) \subseteq Kind
        BY Zenon DEF Owned
  <2> QED
        BY <2>1, KindFinite, FS_Subset, FS_CardinalityType, Zenon

<1>OwnedRemoved. ASSUME NEW object, NEW new, NEW k \in Kind, OneFewer(object, new, k), NEW a
                 PROVE  Cardinality(Owned(object, a)) =
                           Cardinality(Owned(new, a)) + IF object[k].owner = a THEN 1 ELSE 0
  <2> USE <1>OwnedRemoved DEF OneFewer
  <2>1. CASE object[k].owner = a
    <3>1. k \in Owned(object, a) /\ Owned(new, a) = Owned(object, a) \ {k}
          BY <2>1, Zenon DEF Owned
    <3>2. Cardinality(Owned(new, a)) = Cardinality(Owned(object, a)) - 1
          BY <3>1, <1>OwnedFinite, FS_RemoveElement, Zenon
    <3> QED
          BY <2>1, <3>2, <1>OwnedFinite
  <2>2. CASE object[k].owner # a
    <3>1. Owned(new, a) = Owned(object, a)
          BY <2>2, Zenon DEF Owned
    <3> QED
          BY <2>2, <3>1, <1>OwnedFinite
  <2> QED
      BY <2>1, <2>2, Zenon

<1>OwnedSame. ASSUME NEW object, NEW new, \A j \in Kind : new[j] = None <=> object[j] = None,
                     \A j \in Kind : object[j] # None => new[j].owner = object[j].owner, NEW a
              PROVE  Owned(new, a) = Owned(object, a)
BY <1>OwnedSame, Zenon DEF Owned

\* Removed: the object is gone, its worth with it, and the counts stay exact.
<1>RemovedIs. ASSUME NEW v \in View(Int), NEW k \in Kind, v.object[k] # None, Exact(v)
              PROVE  /\ Removed(v, k) \in View(Int)
                     /\ Removed(v, k).balance = v.balance
                     /\ Removed(v, k).object = [v.object EXCEPT ![k] = None]
                     /\ SameMarks(v, Removed(v, k))
                     /\ Exact(Removed(v, k))
                     /\ Worth(Removed(v, k)) = Worth(v) - Held(v, k)
  <2> USE <1>RemovedIs
  <2> DEFINE w == Removed(v, k)
             o == v.object[k].owner
  <2>1. v.object \in [Kind -> Object \cup {None}] /\ v.ownerCount \in [Account -> Nat]
        BY Zenon DEF View
  <2>2. o \in Account
        BY <2>1, Zenon DEF Object
  <2> DEFINE new == [v.object EXCEPT ![k] = None]
  <2>3. \A a \in Account : Cardinality(Owned(v.object, a)) =
                              Cardinality(Owned(new, a)) + IF o = a THEN 1 ELSE 0
    <3>1. OneFewer(v.object, new, k)
          BY <2>1, Zenon DEF OneFewer
    <3> HIDE DEF new
    <3> TAKE a \in Account
    <3>2. Cardinality(Owned(v.object, a)) =
              Cardinality(Owned(new, a)) + IF v.object[k].owner = a THEN 1 ELSE 0
          BY <3>1, <1>OwnedRemoved
    <3> QED
          BY <3>2, Zenon
  <2>4. \A a \in Account : Cardinality(Owned(new, a)) \in Nat
        BY <1>OwnedFinite, Zenon
  <2>5. v.ownerCount[o] - 1 \in Nat
        BY <2>1, <2>2, <2>3, <2>4 DEF Exact
  <2>6. w \in View(Int)
        BY <2>1, <2>2, <2>5, Zenon DEF View, Removed
  <2>7. w.balance = v.balance /\ w.object = new /\ w.ownerCount = [v.ownerCount EXCEPT ![o] = @ - 1]
        BY Zenon DEF View, Removed
  <2>8. SameMarks(v, w)
        BY Zenon DEF View, Removed, SameMarks
  <2> HIDE DEF w, new, o
  <2>9. Exact(w)
        BY <2>1, <2>2, <2>3, <2>4, <2>7 DEF Exact
  <2>10. new[k] = None /\ \A j \in Kind : j # k => new[j] = v.object[j]
        BY <2>1, Zenon DEF new
  <2>11. Worth(w) = Worth(v) - Held(v, k) + Held(w, k)
        BY <2>6, <2>7, <2>8, <2>10, <1>ObjectWorth DEF SameMarks
  <2>12. Held(w, k) = 0
        BY <2>7, <2>10, Zenon DEF Held
  <2>13. Worth(v) \in Int /\ Held(v, k) \in Int
        BY WorthParts, HeldInt, Zenon
  <2>14. Worth(w) = Worth(v) - Held(v, k)
        BY <2>11, <2>12, <2>13
  <2> QED
        BY <2>6, <2>7, <2>8, <2>9, <2>14, Zenon DEF w, new

\* WithObject: the object is written, the counts stay exact if the owner stays.
<1>WithObjectIs. ASSUME NEW v \in View(Int), NEW k \in Kind, NEW o \in Object
                 PROVE  Writes(v, WithObject(v, k, o), k, o)
  <2> DEFINE w == WithObject(v, k, o)
             new == [v.object EXCEPT ![k] = o]
  <2>1. v.object \in [Kind -> Object \cup {None}]
        BY Zenon DEF View
  <2>2. w \in View(Int)
        BY Zenon DEF View, WithObject
  <2>3. w.balance = v.balance /\ w.ownerCount = v.ownerCount /\ w.object = new
        BY Zenon DEF View, WithObject
  <2>4. SameMarks(v, w)
        BY Zenon DEF View, WithObject, SameMarks
  <2>5. new[k] = o /\ \A j \in Kind : j # k => new[j] = v.object[j]
        BY <2>1, Zenon
  <2>6. o # None
        BY XRPObjectsAssumption, Zenon
  <2> HIDE DEF w, new
  <2>7. ASSUME v.object[k] # None, o.owner = v.object[k].owner, Exact(v) PROVE Exact(w)
    <3>1. \A a \in Account : Owned(new, a) = Owned(v.object, a)
          BY <2>5, <2>6, <2>7, <1>OwnedSame, ZenonT(40)
    <3> QED
          BY <2>3, <2>7, <3>1, Zenon DEF Exact
  <2>8. Worth(w) = Worth(v) - Held(v, k) + Held(w, k)
        BY <2>2, <2>3, <2>4, <2>5, <1>ObjectWorth, Zenon DEF SameMarks
  <2>9. Held(w, k) = IF k = "check" THEN 0 ELSE o.amount - o.balance
        BY <2>3, <2>5, <2>6, Zenon DEF Held
  <2> QED
        BY <2>2, <2>3, <2>4, <2>7, <2>8, <2>9, Zenon DEF w, new, Writes

\* Created: the failures may leave the object uncounted; success counts it.
<1>CreatedIs. ASSUME NEW v \in View(Int), NEW k \in Kind, NEW o \in Object, v.object[k] = None, Exact(v),
                     NEW out \in Created(v, k, o)
              PROVE  /\ out.ter \in {"tesSUCCESS", "tec"}
                     /\ out.view \in View(Int)
                     /\ out.view.balance = v.balance
                     /\ out.view.object = [v.object EXCEPT ![k] = o]
                     /\ SameMarks(v, out.view)
                     /\ out.ter = "tesSUCCESS" => Exact(out.view)
                     /\ Worth(out.view) = Worth(v) + IF k = "check" THEN 0 ELSE o.amount - o.balance
  <2> USE <1>CreatedIs
  <2> DEFINE i == WithObject(v, k, o)
             s == [i EXCEPT !.ownerCount[o.owner] = @ + 1]
             new == [v.object EXCEPT ![k] = o]
  <2>1. v.object \in [Kind -> Object \cup {None}] /\ v.ownerCount \in [Account -> Nat]
        BY Zenon DEF View
  <2>2. o.owner \in Account /\ o # None /\ o.amount \in Nat /\ o.balance \in Nat
        BY XRPObjectsAssumption, Zenon DEF Object
  <2>3. out = Outcome("tec", i) \/ out = Outcome("tesSUCCESS", s)
        BY Zenon DEF Created, Fails, tes, WithObject
  <2>4. (out.ter = "tec" /\ out.view = i) \/ (out.ter = "tesSUCCESS" /\ out.view = s)
    <3> HIDE DEF i, s
    <3> QED
        BY <2>3 DEF Outcome
  <2>5. /\ i \in View(Int) /\ i.balance = v.balance /\ i.ownerCount = v.ownerCount /\ i.object = new
        /\ SameMarks(v, i)
        /\ Worth(i) = Worth(v) - Held(v, k) + IF k = "check" THEN 0 ELSE o.amount - o.balance
    <3>1. Writes(v, i, k, o)
          BY <1>WithObjectIs, Zenon
    <3> QED
          BY <3>1, Zenon DEF Writes
  <2>6. Held(v, k) = 0
        BY Zenon DEF Held
  <2> HIDE DEF i
  <2>7. s \in View(Int)
        BY <2>1, <2>2, <2>5 DEF View
  <2>8. s.balance = v.balance /\ s.object = new /\ s.ownerCount = [v.ownerCount EXCEPT ![o.owner] = @ + 1]
        BY <2>5, Zenon DEF View
  <2>9. SameMarks(v, s)
        BY <2>5, Zenon DEF View, SameMarks
  <2>10. \A a \in Account : Cardinality(Owned(new, a)) =
                              Cardinality(Owned(v.object, a)) + IF o.owner = a THEN 1 ELSE 0
    <3>1. OneFewer(new, v.object, k) /\ new[k].owner = o.owner
          BY <2>1, <2>2, Zenon DEF OneFewer
    <3> HIDE DEF new
    <3> TAKE a \in Account
    <3>2. Cardinality(Owned(new, a)) =
              Cardinality(Owned(v.object, a)) + IF new[k].owner = a THEN 1 ELSE 0
          BY <3>1, <1>OwnedRemoved
    <3> QED
          BY <3>1, <3>2, Zenon
  <2>11. Exact(s)
    <3> HIDE DEF new
    <3> QED
        BY <2>1, <2>2, <2>8, <2>10 DEF Exact
  <2>12. Worth(i) = Worth(v) + IF k = "check" THEN 0 ELSE o.amount - o.balance
    <3>1. Worth(v) \in Int
          BY WorthParts, Zenon
    <3> QED
          BY <2>2, <2>5, <2>6, <3>1
  <2>13. Worth(s) = Worth(i)
    <3>1. s.balance = i.balance /\ s.object = i.object /\ s.dropsDestroyed = i.dropsDestroyed
          BY <2>5, <2>8, <2>9, Zenon DEF SameMarks
    <3>2. [j \in Kind |-> Held(s, j)] = [j \in Kind |-> Held(i, j)]
          BY <3>1 DEF Held
    <3> QED
          BY <3>1, <3>2, Zenon DEF Worth
  <2> QED
      BY <2>4, <2>5, <2>7, <2>8, <2>9, <2>11, <2>12, <2>13, Zenon

\* A failure keeps the view, a lawful outcome.
<1>FailsLawful. ASSUME NEW v \in View(Int), NEW t, NEW n, NEW ter, ter # "tesSUCCESS", NEW out \in Fails(ter, v)
                PROVE  Lawful(v, t, n, out)
BY <1>FailsLawful DEF Fails, Outcome, Lawful, SameMarks, SameParties

\* Payment: what one account loses the other gets.
<1>PaymentLawful. ASSUME NEW v \in View(Int), Exact(v), Sound(v.object), NEW t \in Tx, t.type = "ttPAYMENT", NEW n,
                         NEW out \in Payment(v, t)
                  PROVE  Lawful(v, t, n, out)
  <2> USE <1>PaymentLawful
  <2> DEFINE d == Destination(t)
             w1 == Credit(v, t.account, -t.amount)
             w == Credit(w1, d, t.amount)
             ok == Authorized(d, t.account) \/
                   (t.amount <= accountReserve(0) /\ v.balance[d] <= accountReserve(0))
  <2>1. \/ out \in Fails("tec", v)
        \/ out \in tes(w) /\ ok
        BY Zenon DEF Payment
  <2>2. CASE out \in Fails("tec", v)
        BY <2>2, <1>FailsLawful, Zenon
  <2>3. CASE out \in tes(w) /\ ok
    <3>1. t.account \in Account /\ d \in Account /\ t.amount \in Nat
          BY TxFields, Zenon
    <3>2. /\ w1 \in View(Int) /\ w1.balance = [v.balance EXCEPT ![t.account] = @ + -t.amount]
          /\ w1.object = v.object /\ w1.ownerCount = v.ownerCount /\ SameMarks(v, w1)
          /\ Worth(w1) = Worth(v) + -t.amount
      <4>1. -t.amount \in Int
            BY <3>1
      <4>2. Credits(v, w1, t.account, -t.amount)
            BY <3>1, <4>1, CreditIs, Zenon
      <4> QED
            BY <4>2, Zenon DEF Credits
    <3> HIDE DEF w1
    <3>3. /\ w \in View(Int) /\ w.balance = [w1.balance EXCEPT ![d] = @ + t.amount]
          /\ w.object = w1.object /\ w.ownerCount = w1.ownerCount /\ SameMarks(w1, w)
          /\ Worth(w) = Worth(w1) + t.amount
      <4>1. t.amount \in Int
            BY <3>1, <3>2
      <4>2. Credits(w1, w, d, t.amount)
            BY <3>1, <3>2, <4>1, CreditIs, Zenon
      <4> QED
            BY <4>2, Zenon DEF Credits
    <3> HIDE DEF w, d
    <3>4. Worth(v) \in Int
          BY WorthParts, Zenon
    <3>5. Worth(w) = Worth(v)
          BY <3>1, <3>2, <3>3, <3>4
    <3>6. Exact(w) /\ Sound(w.object)
          BY <3>2, <3>3, Zenon DEF Exact
    <3>7. v.balance \in [Account -> Int]
          BY Zenon DEF View
    <3>8. Deposits(v, t, w)
      <4> SUFFICES ASSUME NEW a \in Account, w.balance[a] > v.balance[a]
                   PROVE  a = d
          BY <2>3, Zenon DEF Deposits
      <4> QED
          BY <3>1, <3>2, <3>3, <3>7
    <3>9. Settles(v, t, n, w)
          BY <3>2, <3>3, ChannelKept, Zenon
    <3>10. SameMarks(v, w) /\ SameParties(v, w)
          BY <3>2, <3>3, Zenon DEF SameMarks, SameParties
    <3>11. out.view = w
          BY <2>3 DEF tes, Outcome
    <3> QED
          BY <3>3, <3>5, <3>6, <3>8, <3>9, <3>10, <3>11, Zenon DEF Lawful
  <2> QED
      BY <2>1, <2>2, <2>3, Zenon

<1>MaxPair. ASSUME NEW i \in Int, NEW j \in Int PROVE Max({i, j}) = IF i >= j THEN i ELSE j
BY DEF Max

<1>MinNat. ASSUME NEW i \in Nat, NEW j \in Nat PROVE Min({i, j}) \in Nat
BY DEF Min

<1>MaxNat. ASSUME NEW i \in Nat, NEW j \in Int PROVE Max({i, j}) \in Nat
BY <1>MaxPair

\* An object goes and an account is credited.
<1>ReleaseIs. ASSUME NEW v \in View(Int), Exact(v), Sound(v.object), NEW k \in Kind, v.object[k] # None,
                     NEW b \in Account, NEW x \in Int
              PROVE  Releases(v, Removed(Credit(v, b, x), k), k, b, x)
  <2> USE <1>ReleaseIs
  <2> DEFINE w1 == Credit(v, b, x)
             w == Removed(Credit(v, b, x), k)
  <2>0. w = Removed(w1, k)
        BY Zenon
  <2>1. /\ w1 \in View(Int) /\ w1.balance = [v.balance EXCEPT ![b] = @ + x]
        /\ w1.object = v.object /\ w1.ownerCount = v.ownerCount /\ SameMarks(v, w1)
        /\ Worth(w1) = Worth(v) + x
    <3>1. Credits(v, w1, b, x)
          BY CreditIs, Zenon
    <3> QED
          BY <3>1, Zenon DEF Credits
  <2> HIDE DEF w1, w
  <2>2. Exact(w1)
        BY <2>1, Zenon DEF Exact
  <2>3. /\ w \in View(Int) /\ w.balance = w1.balance /\ w.object = [w1.object EXCEPT ![k] = None]
        /\ SameMarks(w1, w) /\ Exact(w) /\ Worth(w) = Worth(w1) - Held(w1, k)
        BY <2>0, <2>1, <2>2, <1>RemovedIs
  <2>4. Held(w1, k) = Held(v, k)
        BY <2>1, Zenon DEF Held
  <2>5. v.object \in [Kind -> Object \cup {None}]
        BY Zenon DEF View
  <2>6. w.object = [v.object EXCEPT ![k] = None]
        BY <2>1, <2>3, Zenon
  <2>7. Sound(w.object) /\ SameParties(v, w)
        BY <2>5, <2>6, Zenon DEF Sound, SameParties
  <2>8. SameMarks(v, w)
        BY <2>1, <2>3, Zenon DEF SameMarks
  <2>9. w.balance = [v.balance EXCEPT ![b] = @ + x]
        BY <2>1, <2>3, Zenon
  <2>10. Worth(w) = Worth(v) + x - Held(v, k)
    <3>1. Worth(w1) = Worth(v) + x /\ Worth(w) = Worth(w1) - Held(w1, k)
          BY <2>1, <2>3, Zenon
    <3>2. Worth(v) \in Int /\ Held(v, k) \in Int
          BY WorthParts, HeldInt, Zenon
    <3> HIDE DEF w1
    <3> QED
          BY <2>4, <3>1, <3>2
  <2> QED
        BY <2>3, <2>6, <2>7, <2>8, <2>9, <2>10, Zenon DEF w, Releases

\* A new object is paid for by the account that makes it.
<1>CreateLawful. ASSUME NEW v \in View(Int), Exact(v), Sound(v.object), NEW t, NEW n,
                        NEW k \in Kind, v.object[k] = None, NEW o \in Object, o.balance = 0,
                        NEW made \in Created(v, k, o), NEW out, out.ter = made.ter,
                        out.view = IF k = "check" \/ made.ter = "tec" THEN made.view
                                   ELSE Credit(made.view, o.owner, -o.amount)
                 PROVE  Lawful(v, t, n, out)
  <2> USE <1>CreateLawful
  <2> DEFINE m == made.view
             w == Credit(m, o.owner, -o.amount)
  <2>1. /\ made.ter \in {"tesSUCCESS", "tec"} /\ m \in View(Int) /\ m.balance = v.balance
        /\ m.object = [v.object EXCEPT ![k] = o] /\ SameMarks(v, m)
        /\ made.ter = "tesSUCCESS" => Exact(m)
        /\ Worth(m) = Worth(v) + IF k = "check" THEN 0 ELSE o.amount - o.balance
        BY <1>CreatedIs
  <2>2. o.owner \in Account /\ o.amount \in Nat
        BY Zenon DEF Object
  <2> HIDE DEF m
  <2>3. /\ w \in View(Int) /\ w.balance = [m.balance EXCEPT ![o.owner] = @ + -o.amount]
        /\ w.object = m.object /\ w.ownerCount = m.ownerCount /\ SameMarks(m, w)
        /\ Worth(w) = Worth(m) + -o.amount
    <3>1. -o.amount \in Int
          BY <2>1, <2>2
    <3>2. Credits(m, w, o.owner, -o.amount)
          BY <2>1, <2>2, <3>1, CreditIs, Zenon
    <3> QED
          BY <3>2, Zenon DEF Credits
  <2> HIDE DEF w
  <2>4. v.object \in [Kind -> Object \cup {None}] /\ v.balance \in [Account -> Int] /\ Worth(v) \in Int
        BY WorthParts, Zenon DEF View
  <2>5. Sound(m.object) /\ SameParties(v, m)
        BY <2>1, <2>2, <2>4 DEF Sound, SameParties
  <2>6. Settles(v, t, n, m)
    <3>1. CASE k = "channel"
          BY <3>1, Zenon DEF Settles
    <3>2. CASE k # "channel"
      <4>1. m.object["channel"] = v.object["channel"]
            BY <2>1, <2>4, <3>2, Zenon DEF Kind
      <4> QED
            BY <4>1, ChannelKept, Zenon
    <3> QED
          BY <3>1, <3>2, Zenon
  <2>7. Settles(v, t, n, w)
    <3>1. CASE k = "channel"
          BY <3>1, Zenon DEF Settles
    <3>2. CASE k # "channel"
      <4>1. w.object["channel"] = v.object["channel"]
            BY <2>1, <2>3, <2>4, <3>2, Zenon DEF Kind
      <4> QED
            BY <4>1, ChannelKept, Zenon
    <3> QED
          BY <3>1, <3>2, Zenon
  <2>8. CASE k = "check" \/ made.ter = "tec"
    <3>1. out.view = m
          BY <2>8, Zenon DEF m
    <3>2. Deposits(v, t, m)
          BY <2>1, <2>4 DEF Deposits
    <3>3. made.ter = "tesSUCCESS" => Worth(m) = Worth(v)
          BY <2>1, <2>4, <2>8
    <3> QED
          BY <2>1, <2>5, <2>6, <3>1, <3>2, <3>3, Zenon DEF Lawful
  <2>9. CASE k # "check" /\ made.ter # "tec"
    <3>1. out.view = w
          BY <2>9, Zenon DEF w, m
    <3>2. Deposits(v, t, w)
      <4>1. \A a \in Account : ~(w.balance[a] > v.balance[a])
            BY <2>1, <2>2, <2>3, <2>4
      <4> QED
            BY <4>1, Zenon DEF Deposits
    <3>3. Worth(w) = Worth(v)
      <4>1. Worth(m) = Worth(v) + (o.amount - o.balance) /\ Worth(w) = Worth(m) + -o.amount
            BY <2>1, <2>3, <2>9, Zenon
      <4>2. o.balance = 0 /\ o.amount \in Nat /\ Worth(v) \in Int
            BY <2>2, <2>4, Zenon
      <4> QED
            BY <4>1, <4>2
    <3>4. made.ter = "tesSUCCESS" => Exact(w)
          BY <2>1, <2>3, Zenon DEF Exact
    <3>5. SameMarks(v, w) /\ SameParties(v, w) /\ Sound(w.object)
          BY <2>1, <2>3, <2>5, ZenonT(40) DEF SameMarks, SameParties
    <3> QED
          BY <2>3, <2>7, <3>1, <3>2, <3>3, <3>4, <3>5, Zenon DEF Lawful
  <2> QED
      BY <2>8, <2>9, Zenon

\* EscrowCreate, PaymentChannelCreate and CheckCreate make a new object.
<1>EscrowCreateLawful. ASSUME NEW v \in View(Int), Exact(v), Sound(v.object), NEW t \in Tx,
                              t.type = "ttESCROW_CREATE",
                              v.object["escrow"] = None, NEW n, NEW out \in EscrowCreate(v, t, n)
                       PROVE  Lawful(v, t, n, out)
  <2> USE <1>EscrowCreateLawful
  <2> DEFINE o == [Plain(t.account, Destination(t)) EXCEPT
                      !.amount = t.amount, !.condition = t.condition,
                      !.finishAfter = t.finishAfter, !.cancelAfter = t.cancelAfter]
  <2>1. o \in Object /\ o.owner = t.account /\ o.amount = t.amount /\ o.balance = 0
        BY TxFields, Zenon DEF Object, Plain, CreatesObject
  <2> HIDE DEF o
  <2>2. \/ out \in Fails("tec", v)
        \/ \E made \in Created(v, "escrow", o) :
              out = [made EXCEPT !.view = IF made.ter = "tec" THEN @ ELSE Credit(@, t.account, -t.amount)]
        BY Zenon DEF EscrowCreate, o
  <2>3. CASE out \in Fails("tec", v)
        BY <2>3, <1>FailsLawful, Zenon
  <2>4. CASE \E made \in Created(v, "escrow", o) :
              out = [made EXCEPT !.view = IF made.ter = "tec" THEN @ ELSE Credit(@, t.account, -t.amount)]
    <3>1. PICK made \in Created(v, "escrow", o) :
              out = [made EXCEPT !.view = IF made.ter = "tec" THEN @ ELSE Credit(@, t.account, -t.amount)]
          BY <2>4, Zenon
    <3>2. DOMAIN made = {"ter", "view"}
          BY Zenon DEF Created, Fails, tes, Outcome
    <3>3. /\ out.ter = made.ter
          /\ out.view = IF made.ter = "tec" THEN made.view ELSE Credit(made.view, t.account, -t.amount)
          BY <3>1, <3>2, Zenon
    <3> QED
          BY <2>1, <3>3, <1>CreateLawful, Zenon DEF Kind
  <2> QED
      BY <2>2, <2>3, <2>4, Zenon

<1>PayChanCreateLawful. ASSUME NEW v \in View(Int), Exact(v), Sound(v.object), NEW t \in Tx,
                               t.type = "ttPAYCHAN_CREATE",
                               v.object["channel"] = None, NEW n, NEW out \in PayChanCreate(v, t)
                        PROVE  Lawful(v, t, n, out)
  <2> USE <1>PayChanCreateLawful
  <2> DEFINE o == [Plain(t.account, Destination(t)) EXCEPT
                      !.amount = t.amount, !.cancelAfter = t.cancelAfter]
  <2>1. o \in Object /\ o.owner = t.account /\ o.amount = t.amount /\ o.balance = 0
        BY TxFields, Zenon DEF Object, Plain, CreatesObject
  <2> HIDE DEF o
  <2>2. PICK made \in Created(v, "channel", o) :
              out = [made EXCEPT !.view = IF made.ter = "tec" THEN @ ELSE Credit(@, t.account, -t.amount)]
        BY Zenon DEF PayChanCreate, o
  <2>3. DOMAIN made = {"ter", "view"}
        BY Zenon DEF Created, Fails, tes, Outcome
  <2>4. /\ out.ter = made.ter
        /\ out.view = IF made.ter = "tec" THEN made.view ELSE Credit(made.view, t.account, -t.amount)
        BY <2>2, <2>3, Zenon
  <2> QED
        BY <2>1, <2>4, <1>CreateLawful, Zenon DEF Kind

<1>CreateCheckLawful. ASSUME NEW v \in View(Int), Exact(v), Sound(v.object), NEW t \in Tx, t.type = "ttCHECK_CREATE",
                             v.object["check"] = None, NEW n, NEW out \in CreateCheck(v, t)
                      PROVE  Lawful(v, t, n, out)
  <2> USE <1>CreateCheckLawful
  <2> DEFINE o == [Plain(t.account, Destination(t)) EXCEPT
                      !.amount = t.amount, !.expiration = t.expiration]
  <2>1. o \in Object /\ o.owner = t.account /\ o.balance = 0
        BY TxFields, Zenon DEF Object, Plain, CreatesObject
  <2> HIDE DEF o
  <2>2. out \in Fails("tec", v) \/ out \in Created(v, "check", o)
        BY Zenon DEF CreateCheck, o
  <2>3. CASE out \in Fails("tec", v)
        BY <2>3, <1>FailsLawful, Zenon
  <2>4. CASE out \in Created(v, "check", o)
        BY <2>1, <2>4, <1>CreateLawful, Zenon DEF Kind
  <2> QED
        BY <2>2, <2>3, <2>4, Zenon

\* EscrowFinish pays the destination, which agreed or is the one who asks.
<1>EscrowFinishLawful. ASSUME NEW v \in View(Int), Exact(v), Sound(v.object), NEW t \in Tx, NEW n,
                              NEW out \in EscrowFinish(v, t, n)
                       PROVE  Lawful(v, t, n, out)
  <2> USE <1>EscrowFinishLawful
  <2> DEFINE e == v.object["escrow"]
             w == Removed(Credit(v, e.dest, e.amount), "escrow")
  <2>1. \/ out \in Fails("tec", v)
        \/ e # None /\ Authorized(e.dest, t.account) /\ out \in tes(w)
        BY Zenon DEF EscrowFinish
  <2>2. CASE out \in Fails("tec", v)
        BY <2>2, <1>FailsLawful, Zenon
  <2>3. CASE e # None /\ Authorized(e.dest, t.account) /\ out \in tes(w)
    <3>1. v.object \in [Kind -> Object \cup {None}] /\ v.balance \in [Account -> Int] /\ Worth(v) \in Int
          BY WorthParts, Zenon DEF View
    <3>2. e.owner \in Account /\ e.dest \in Account /\ e.amount \in Nat /\ e.balance = 0
          BY <2>3, <3>1, Zenon DEF Object, Sound, Kind
    <3>3. /\ w \in View(Int) /\ SameMarks(v, w) /\ SameParties(v, w) /\ Exact(w) /\ Sound(w.object)
          /\ w.object = [v.object EXCEPT !["escrow"] = None]
          /\ w.balance = [v.balance EXCEPT ![e.dest] = @ + e.amount]
          /\ Worth(w) = Worth(v) + e.amount - Held(v, "escrow")
      <4>1. e.owner \in Account /\ e.dest \in Account /\ e.amount \in Int /\ e # None /\ "escrow" \in Kind
            BY <2>3, <3>2, KindMembers
      <4>2. Releases(v, w, "escrow", e.dest, e.amount)
            BY <4>1, <1>ReleaseIs, Zenon
      <4> QED
            BY <4>2, Zenon DEF Releases
    <3> HIDE DEF w
    <3>4. Held(v, "escrow") = e.amount
          BY <2>3, <3>2 DEF Held
    <3> HIDE DEF e
    <3>5. Worth(w) = Worth(v)
          BY <3>1, <3>2, <3>3, <3>4
    <3>6. Deposits(v, t, w)
          BY <2>3, <3>1, <3>2, <3>3 DEF Deposits
    <3>7. Settles(v, t, n, w)
      <4>1. w.object["channel"] = v.object["channel"]
            BY <3>1, <3>3, Zenon DEF Kind
      <4> QED
            BY <4>1, ChannelKept, Zenon
    <3>8. out.view = w
          BY <2>3 DEF tes, Outcome
    <3> QED
          BY <3>3, <3>5, <3>6, <3>7, <3>8, Zenon DEF Lawful
  <2> QED
      BY <2>1, <2>2, <2>3, Zenon

\* EscrowCancel pays the owner back; that the owner loses the object lets it be.
<1>EscrowCancelLawful. ASSUME NEW v \in View(Int), Exact(v), Sound(v.object), NEW t \in Tx, NEW n,
                              NEW out \in EscrowCancel(v, t, n)
                       PROVE  Lawful(v, t, n, out)
  <2> USE <1>EscrowCancelLawful
  <2> DEFINE e == v.object["escrow"]
             w == Removed(Credit(v, e.owner, e.amount), "escrow")
  <2>1. out \in Fails("tec", v) \/ (e # None /\ out \in tes(w))
        BY Zenon DEF EscrowCancel
  <2>2. CASE out \in Fails("tec", v)
        BY <2>2, <1>FailsLawful, Zenon
  <2>3. CASE e # None /\ out \in tes(w)
    <3>1. v.object \in [Kind -> Object \cup {None}] /\ v.balance \in [Account -> Int] /\ Worth(v) \in Int
          BY WorthParts, Zenon DEF View
    <3>2. e.owner \in Account /\ e.dest \in Account /\ e.amount \in Nat /\ e.balance = 0
          BY <2>3, <3>1, Zenon DEF Object, Sound, Kind
    <3>3. /\ w \in View(Int) /\ SameMarks(v, w) /\ SameParties(v, w) /\ Exact(w) /\ Sound(w.object)
          /\ w.object = [v.object EXCEPT !["escrow"] = None]
          /\ w.balance = [v.balance EXCEPT ![e.owner] = @ + e.amount]
          /\ Worth(w) = Worth(v) + e.amount - Held(v, "escrow")
      <4>1. e.owner \in Account /\ e.dest \in Account /\ e.amount \in Int /\ e # None /\ "escrow" \in Kind
            BY <2>3, <3>2, KindMembers
      <4>2. Releases(v, w, "escrow", e.owner, e.amount)
            BY <4>1, <1>ReleaseIs, Zenon
      <4> QED
            BY <4>2, Zenon DEF Releases
    <3> HIDE DEF w
    <3>4. Held(v, "escrow") = e.amount /\ "escrow" \in Owned(v.object, e.owner)
          BY <2>3, <3>2 DEF Held, Owned, Kind
    <3> HIDE DEF e
    <3>5. Worth(w) = Worth(v)
          BY <3>1, <3>2, <3>3, <3>4
    <3>6. Deposits(v, t, w)
      <4> SUFFICES ASSUME NEW a \in Account, w.balance[a] > v.balance[a]
                   PROVE  "escrow" \in Owned(v.object, a) /\ w.object["escrow"] = None
          BY Zenon DEF Deposits
      <4> QED
          BY <3>1, <3>2, <3>3, <3>4 DEF Kind
    <3>7. Settles(v, t, n, w)
      <4>1. w.object["channel"] = v.object["channel"]
            BY <3>1, <3>3, Zenon DEF Kind
      <4> QED
            BY <4>1, ChannelKept, Zenon
    <3>8. out.view = w
          BY <2>3 DEF tes, Outcome
    <3> QED
          BY <3>3, <3>5, <3>6, <3>7, <3>8, Zenon DEF Lawful
  <2> QED
      BY <2>1, <2>2, <2>3, Zenon

\* The account that cashes a check is its destination: preclaim saw to that.
<1>CashCheckLawful. ASSUME NEW v \in View(Int), Exact(v), Sound(v.object), NEW t \in Tx, NEW n,
                           v.object["check"] # None => v.object["check"].dest = t.account,
                           NEW out \in CashCheck(v, t)
                    PROVE  Lawful(v, t, n, out)
  <2> USE <1>CashCheckLawful
  <2> DEFINE c == v.object["check"]
             srcLiquid == xrpLiquid(v, c.owner, -1)
             x == IF t.deliverMin THEN Max({t.amount, Min({c.amount, srcLiquid})}) ELSE t.amount
             w1 == Credit(v, c.owner, -x)
             w == Removed(Credit(w1, c.dest, x), "check")
  <2>1. out \in Fails("tec", v) \/ (c # None /\ out \in tes(w))
        BY Zenon DEF CashCheck
  <2>2. CASE out \in Fails("tec", v)
        BY <2>2, <1>FailsLawful, Zenon
  <2>3. CASE c # None /\ out \in tes(w)
    <3>1. v.object \in [Kind -> Object \cup {None}] /\ v.balance \in [Account -> Int] /\ Worth(v) \in Int
          /\ v.ownerCount \in [Account -> Nat]
          BY WorthParts, Zenon DEF View
    <3>2. c.owner \in Account /\ c.dest = t.account /\ c.dest \in Account /\ c.amount \in Nat
          /\ t.amount \in Nat
          BY <2>3, <3>1, TxFields, Zenon DEF Object, Kind
    <3>3. x \in Nat
      <4>1. srcLiquid \in Nat
        <5>1. v.ownerCount[c.owner] + -1 \in Int /\ v.balance[c.owner] \in Int
              BY <3>1, <3>2
        <5>2. Max({0, v.ownerCount[c.owner] + -1}) \in Nat
          <6> DEFINE m == v.ownerCount[c.owner] + -1
          <6>1. m \in Int /\ 0 \in Nat
                BY <5>1, Zenon
          <6> HIDE DEF m
          <6>2. Max({0, m}) \in Nat
                BY <6>1, <1>MaxNat, Zenon
          <6> QED
                BY <6>2, Zenon DEF m
        <5>3. accountReserve(Max({0, v.ownerCount[c.owner] + -1})) \in Int
              BY <5>2, XRPObjectsAssumption DEF accountReserve
        <5> DEFINE r == accountReserve(Max({0, v.ownerCount[c.owner] + -1}))
        <5>4. srcLiquid = Max({0, v.balance[c.owner] - r})
              BY Zenon DEF xrpLiquid
        <5> HIDE DEF r, srcLiquid, c
        <5>5. v.balance[c.owner] - r \in Int
              BY <5>1, <5>3 DEF r
        <5> QED
              BY <5>4, <5>5, <1>MaxNat, 0 \in Nat, Zenon
      <4> HIDE DEF srcLiquid
      <4>2. Min({c.amount, srcLiquid}) \in Nat
            BY <3>2, <4>1, <1>MinNat, Zenon
      <4>3. Max({t.amount, Min({c.amount, srcLiquid})}) \in Nat
        <5>1. Min({c.amount, srcLiquid}) \in Int
              BY <4>2
        <5> QED
              BY <3>2, <5>1, <1>MaxNat, Zenon
      <4> QED
            BY <3>2, <4>3, Zenon
    <3> HIDE DEF x
    <3>4. /\ w1 \in View(Int) /\ w1.balance = [v.balance EXCEPT ![c.owner] = @ + -x]
          /\ w1.object = v.object /\ w1.ownerCount = v.ownerCount /\ SameMarks(v, w1)
          /\ Worth(w1) = Worth(v) + -x
      <4>1. -x \in Int
            BY <3>2, <3>3
      <4>2. Credits(v, w1, c.owner, -x)
            BY <3>2, <3>3, <4>1, CreditIs, Zenon
      <4> QED
            BY <4>2, Zenon DEF Credits
    <3> HIDE DEF w1
    <3>5. Exact(w1) /\ Sound(w1.object)
          BY <3>4, Zenon DEF Exact
    <3>6. /\ w \in View(Int) /\ SameMarks(w1, w) /\ SameParties(w1, w) /\ Exact(w) /\ Sound(w.object)
          /\ w.object = [w1.object EXCEPT !["check"] = None]
          /\ w.balance = [w1.balance EXCEPT ![c.dest] = @ + x]
          /\ Worth(w) = Worth(w1) + x - Held(w1, "check")
      <4>1. w1.object["check"] # None /\ x \in Int
            BY <2>3, <3>3, <3>4
      <4>2. w = Removed(Credit(w1, c.dest, x), "check")
            BY Zenon
      <4>3. w1 \in View(Int) /\ c.dest \in Account
            BY <3>2, <3>4, Zenon
      <4> HIDE DEF c, w
      <4>4. Releases(w1, w, "check", c.dest, x)
            BY <3>5, <4>1, <4>2, <4>3, KindMembers, <1>ReleaseIs, Zenon
      <4> QED
            BY <4>4, Zenon DEF Releases
    <3> HIDE DEF w
    <3>7. Held(w1, "check") = 0
          BY Zenon DEF Held
    <3>8. Worth(w) = Worth(v)
          BY <3>1, <3>3, <3>4, <3>6, <3>7, SMTT(30)
    <3> HIDE DEF c
    <3>9. Deposits(v, t, w)
      <4> SUFFICES ASSUME NEW a \in Account, w.balance[a] > v.balance[a]
                   PROVE  a = t.account
          BY Zenon DEF Deposits, Authorized
      <4> QED
          BY <3>1, <3>2, <3>3, <3>4, <3>6
    <3>10. Settles(v, t, n, w)
      <4>1. w.object["channel"] = v.object["channel"]
            BY <3>1, <3>4, <3>6, Zenon DEF Kind
      <4> QED
            BY <4>1, ChannelKept, Zenon
    <3>11. SameMarks(v, w) /\ SameParties(v, w)
          BY <3>4, <3>6, ZenonT(40) DEF SameMarks, SameParties
    <3>12. out.view = w
          BY <2>3 DEF tes, Outcome
    <3> QED
          BY <3>6, <3>8, <3>9, <3>10, <3>11, <3>12, Zenon DEF Lawful
  <2> QED
      BY <2>1, <2>2, <2>3, Zenon

\* CancelCheck: a check holds nothing.
<1>CancelCheckLawful. ASSUME NEW v \in View(Int), Exact(v), Sound(v.object), NEW t \in Tx, NEW n,
                             NEW out \in CancelCheck(v, t)
                      PROVE  Lawful(v, t, n, out)
  <2> USE <1>CancelCheckLawful
  <2> DEFINE w == Removed(v, "check")
  <2>1. out \in Fails("tec", v) \/ (v.object["check"] # None /\ out \in tes(w))
        BY Zenon DEF CancelCheck
  <2>2. CASE out \in Fails("tec", v)
        BY <2>2, <1>FailsLawful, Zenon
  <2>3. CASE v.object["check"] # None /\ out \in tes(w)
    <3>1. v.object \in [Kind -> Object \cup {None}] /\ v.balance \in [Account -> Int] /\ Worth(v) \in Int
          BY WorthParts, Zenon DEF View
    <3>2. /\ w \in View(Int) /\ w.balance = v.balance /\ w.object = [v.object EXCEPT !["check"] = None]
          /\ SameMarks(v, w) /\ Exact(w) /\ Worth(w) = Worth(v) - Held(v, "check")
          BY <2>3, KindMembers, <1>RemovedIs, Zenon
    <3> HIDE DEF w
    <3>3. Worth(w) = Worth(v)
          BY <3>1, <3>2 DEF Held
    <3>4. Sound(w.object) /\ SameParties(v, w)
          BY <3>1, <3>2, Zenon DEF Sound, SameParties
    <3>5. Deposits(v, t, w)
          BY <3>1, <3>2 DEF Deposits
    <3>6. Settles(v, t, n, w)
      <4>1. w.object["channel"] = v.object["channel"]
            BY <3>1, <3>2, Zenon DEF Kind
      <4> QED
            BY <4>1, ChannelKept, Zenon
    <3>7. out.view = w
          BY <2>3 DEF tes, Outcome
    <3> QED
          BY <3>2, <3>3, <3>4, <3>5, <3>6, <3>7, Zenon DEF Lawful
  <2> QED
      BY <2>1, <2>2, <2>3, Zenon

\* The channel transactions: the view before anything has happened is touched,
<1>Untouched. ASSUME NEW v \in View(Int), Exact(v), Sound(v.object), v.object["channel"] # None, NEW t
              PROVE  Touched(v, t, v)
  <2> USE <1>Untouched
  <2>1. v.object["channel"] \in Object /\ v.balance \in [Account -> Int]
        BY KindMembers, Zenon DEF View
  <2> QED
        BY <2>1, KindMembers DEF Touched, SameMarks, Sound, Object

\* a touched view is sound,
<1>TouchedSound. ASSUME NEW v \in View(Int), Sound(v.object), NEW t, NEW u, Touched(v, t, u)
                 PROVE  Sound(u.object) /\ SameParties(v, u)
BY <1>TouchedSound, Zenon DEF Touched, Sound, SameParties, Kind

\* succeeding with it is lawful if the expiration is,
<1>TouchedLawful. ASSUME NEW v \in View(Int), Sound(v.object), v.object["channel"] # None, NEW t, NEW n,
                         NEW u, Touched(v, t, u), NEW out \in tes(u),
                         LET c == v.object["channel"]
                             d == u.object["channel"]
                         IN  n + SettleDelay < TimeWidth /\ d.expiration \notin {0, c.expiration} =>
                                  \/ d.expiration >= n + SettleDelay
                                  \/ c.expiration # 0 /\ d.expiration > c.expiration
                  PROVE  Lawful(v, t, n, out)
  <2> USE <1>TouchedLawful
  <2>1. u.object["channel"] # None
        BY XRPObjectsAssumption, Zenon DEF Touched
  <2>2. Settles(v, t, n, u)
        BY <2>1, Zenon DEF Touched, Settles
  <2>3. Deposits(v, t, u)
        BY Zenon DEF Touched, Deposits
  <2>4. out.view = u
        BY DEF tes, Outcome
  <2> QED
        BY <2>2, <2>3, <2>4, <1>TouchedSound, Zenon DEF Touched, Lawful

\* and so is closing the channel in it, by whoever may.
<1>CloseLawful. ASSUME NEW v \in View(Int), Sound(v.object), v.object["channel"] # None, NEW t, NEW n,
                       NEW u, Touched(v, t, u), NEW out \in closeChannel(u),
                       LET c == v.object["channel"]
                           d == u.object["channel"]
                       IN  \/ ChannelOver(c, n) \/ t.account = c.dest
                           \/ /\ t.type = "ttPAYCHAN_CLAIM" /\ t.account # c.dest /\ d.balance = d.amount
                              /\ u.balance[c.dest] - v.balance[c.dest] = c.amount - c.balance
                PROVE  Lawful(v, t, n, out)
  <2> USE <1>CloseLawful
  <2> DEFINE c == v.object["channel"]
             d == u.object["channel"]
             w == Removed(Credit(u, d.owner, d.amount - d.balance), "channel")
  <2>1. /\ u \in View(Int) /\ SameMarks(v, u) /\ Exact(u) /\ Worth(u) = Worth(v)
        /\ \A k \in Kind : k # "channel" => u.object[k] = v.object[k]
        /\ d \in Object /\ d.owner = c.owner /\ d.dest = c.dest
        /\ \A a \in Account : u.balance[a] > v.balance[a] => Authorized(a, t.account)
        BY Zenon DEF Touched
  <2>2. Sound(u.object) /\ SameParties(v, u)
        BY <1>TouchedSound, Zenon
  <2>3. d # None /\ d.owner \in Account /\ d.amount \in Nat /\ d.balance \in Nat
        BY <2>1, XRPObjectsAssumption, Zenon DEF Object
  <2>4. v.balance \in [Account -> Int] /\ u.balance \in [Account -> Int] /\ u.object \in [Kind -> Object \cup {None}]
        /\ v.object \in [Kind -> Object \cup {None}]
        BY <2>1, Zenon DEF View
  <2>5. /\ w \in View(Int) /\ SameMarks(u, w) /\ SameParties(u, w)
        /\ Exact(w) /\ Sound(w.object)
        /\ w.object = [u.object EXCEPT !["channel"] = None]
        /\ w.balance = [u.balance EXCEPT ![d.owner] = @ + (d.amount - d.balance)]
        /\ Worth(w) = Worth(u) + (d.amount - d.balance) - Held(u, "channel")
    <3> DEFINE x == d.amount - d.balance
    <3>1. x \in Int
          BY <2>3
    <3>2. w = Removed(Credit(u, d.owner, x), "channel")
          BY Zenon
    <3>3. u \in View(Int) /\ Exact(u)
          BY <2>1, Zenon
    <3> HIDE DEF x, w
    <3>4. Releases(u, w, "channel", d.owner, x)
          BY <2>2, <2>3, <3>1, <3>2, <3>3, KindMembers, <1>ReleaseIs, Zenon
    <3> QED
          BY <3>4, Zenon DEF x, Releases
  <2>6. Held(u, "channel") = d.amount - d.balance
        BY <2>3, Zenon DEF Held
  <2>7. Worth(u) \in Int
        BY <2>1, WorthParts, Zenon
  <2>8. out.view = w
        BY SMTT(30) DEF closeChannel, tes, Outcome
  <2> HIDE DEF w, d
  <2>9. Worth(w) = Worth(v)
        BY <2>1, <2>3, <2>5, <2>6, <2>7
  <2>10. w.object["channel"] = None /\ \A k \in Kind : k # "channel" => w.object[k] = v.object[k]
        BY <2>1, <2>4, <2>5, KindMembers, Zenon
  <2>11. Deposits(v, t, w)
    <3> SUFFICES ASSUME NEW a \in Account, w.balance[a] > v.balance[a], ~Authorized(a, t.account)
                 PROVE  "channel" \in Owned(v.object, a) /\ w.object["channel"] = None
        BY Zenon DEF Deposits
    <3>1. ~(u.balance[a] > v.balance[a])
          BY <2>1, Zenon
    <3>2. a = d.owner
          BY <2>3, <2>4, <2>5, <3>1, Zenon
    <3> QED
          BY <2>1, <2>10, <3>2, KindMembers, Zenon DEF Owned
  <2>12. Settles(v, t, n, w)
    <3>1. CASE ChannelOver(c, n) \/ t.account = c.dest
          BY <2>10, <3>1, Zenon DEF Settles
    <3>2. CASE /\ t.type = "ttPAYCHAN_CLAIM" /\ t.account # c.dest /\ d.balance = d.amount
               /\ u.balance[c.dest] - v.balance[c.dest] = c.amount - c.balance
      <4>1. c.dest \in Account
            BY <2>1, <2>4, KindMembers, ZenonT(40) DEF Object
      <4>2. w.balance[c.dest] = u.balance[c.dest]
            BY <2>3, <2>4, <2>5, <3>2, <4>1
      <4> QED
            BY <2>10, <3>2, <4>2, Zenon DEF Settles
    <3> QED
          BY <3>1, <3>2, Zenon DEF d
  <2>13. SameMarks(v, w) /\ SameParties(v, w)
        BY <2>1, <2>5, <2>10, Zenon DEF SameMarks, SameParties
  <2> QED
        BY <2>5, <2>8, <2>9, <2>11, <2>12, <2>13, Zenon DEF Lawful

\* The time now and a delay, unless it wraps.
<1>SettleExpirationIs. ASSUME NEW n \in Nat
                       PROVE  /\ settleExpiration(n) \in Nat
                              /\ n + SettleDelay < TimeWidth => settleExpiration(n) = n + SettleDelay
  <2>1. SettleDelay \in Nat /\ TimeWidth \in Nat \ {0}
        BY XRPObjectsAssumption, Zenon
  <2>2. \A i \in Nat, m \in Nat \ {0} : i % m \in Nat /\ (i < m => i % m = i)
        OBVIOUS
  <2> QED
        BY <2>1, <2>2 DEF settleExpiration

\* The worth changes with the channel by what it holds.
<1>ChannelWorth. ASSUME NEW v \in View(Int), NEW o \in Object
                 PROVE  Worth(WithObject(v, "channel", o)) = Worth(v) - Held(v, "channel") + (o.amount - o.balance)
  <2>1. "channel" \in Kind
        BY Zenon DEF Kind
  <2> DEFINE w == WithObject(v, "channel", o)
  <2>2. /\ w \in View(Int) /\ w.balance = v.balance /\ SameMarks(v, w)
        /\ w.object = [v.object EXCEPT !["channel"] = o]
    <3>1. Writes(v, w, "channel", o)
          BY <2>1, <1>WithObjectIs, Zenon
    <3> QED
          BY <3>1, Zenon DEF Writes
  <2>3. v.object \in [Kind -> Object \cup {None}]
        BY Zenon DEF View
  <2>4. w.object["channel"] = o /\ \A k \in Kind : k # "channel" => w.object[k] = v.object[k]
        BY <2>1, <2>2, <2>3, Zenon
  <2> HIDE DEF w
  <2>5. Worth(w) = Worth(v) - Held(v, "channel") + Held(w, "channel")
        BY <2>1, <2>2, <2>4, <1>ObjectWorth, Zenon DEF SameMarks
  <2>6. Held(w, "channel") = o.amount - o.balance
        BY <2>4, XRPObjectsAssumption, Zenon DEF Held
  <2>7. Worth(w) = Worth(v) - Held(v, "channel") + (o.amount - o.balance)
        BY <2>5, <2>6, Zenon
  <2> QED
        BY <2>7, Zenon DEF w

\* A change of the channel's object in a touched view.
<1>TouchedAgain. ASSUME NEW v \in View(Int), NEW t, NEW u, Touched(v, t, u), NEW o \in Object,
                        o.owner = u.object["channel"].owner, o.dest = u.object["channel"].dest,
                        o.balance = u.object["channel"].balance, o.amount = u.object["channel"].amount
                 PROVE  Touched(v, t, WithObject(u, "channel", o))
  <2> USE <1>TouchedAgain
  <2> DEFINE d == u.object["channel"]
             w == WithObject(u, "channel", o)
  <2>1. /\ u \in View(Int) /\ SameMarks(v, u) /\ Exact(u) /\ Worth(u) = Worth(v) /\ d \in Object
        /\ \A k \in Kind : k # "channel" => u.object[k] = v.object[k]
        BY Zenon DEF Touched
  <2>2. d # None /\ o.amount \in Nat /\ o.balance \in Nat
        BY <2>1, XRPObjectsAssumption, Zenon DEF Object
  <2>3. /\ w \in View(Int) /\ w.balance = u.balance
        /\ w.object = [u.object EXCEPT !["channel"] = o]
        /\ SameMarks(u, w) /\ Exact(w)
    <3>1. Writes(u, w, "channel", o)
          BY <2>1, <1>WithObjectIs, KindMembers, Zenon
    <3> QED
          BY <2>1, <2>2, <3>1, Zenon DEF Writes
  <2>4. Worth(w) = Worth(u) - Held(u, "channel") + (o.amount - o.balance)
        BY <2>1, <1>ChannelWorth, Zenon
  <2>5. Held(u, "channel") = o.amount - o.balance
        BY <2>2, Zenon DEF Held
  <2>6. Worth(u) \in Int
        BY <2>1, WorthParts, Zenon
  <2> HIDE DEF w
  <2>7. Worth(w) = Worth(v)
        BY <2>1, <2>2, <2>4, <2>5, <2>6
  <2>8. u.object \in [Kind -> Object \cup {None}]
        BY <2>1, Zenon DEF View
  <2>9. w.object["channel"] = o /\ \A k \in Kind : k # "channel" => w.object[k] = v.object[k]
        BY <2>1, <2>3, <2>8, KindMembers, Zenon
  <2>10. SameMarks(v, w)
        BY <2>1, <2>3, Zenon DEF SameMarks
  <2>11. Touched(v, t, w)
        BY <2>3, <2>7, <2>9, <2>10, Zenon DEF Touched
  <2> QED
        BY <2>11, Zenon DEF w

\* A failure after the channel was touched: the view goes with it.
<1>TouchedFails. ASSUME NEW v \in View(Int), Sound(v.object), NEW t, NEW n, NEW u, Touched(v, t, u),
                        NEW out \in Fails("tec", u)
                 PROVE  Lawful(v, t, n, out)
  <2> USE <1>TouchedFails
  <2>1. out.view = u /\ out.ter = "tec"
        BY DEF Fails, Outcome
  <2> QED
        BY <2>1, <1>TouchedSound, Zenon DEF Touched, Lawful

\* PaymentChannelFund: the expiration is moved, then the channel funded.
<1>PayChanFundLawful. ASSUME NEW v \in View(Int), Exact(v), Sound(v.object), NEW t \in Tx, NEW n \in Nat,
                             NEW out \in PayChanFund(v, t, n)
                      PROVE  Lawful(v, t, n, out)
  <2> USE <1>PayChanFundLawful
  <2> DEFINE c == v.object["channel"]
             min == IF c.expiration # 0 THEN Min({c.expiration, settleExpiration(n)})
                    ELSE settleExpiration(n)
             o == [c EXCEPT !.expiration = t.expiration]
             u == IF t.expiration = 0 THEN v ELSE WithObject(v, "channel", o)
             w == [Credit(u, t.account, -t.amount) EXCEPT !.object["channel"].amount = @ + t.amount]
  <2>1. \/ out \in Fails("tec", v)
        \/ c # None /\ ChannelOver(c, n) /\ out \in closeChannel(v)
        \/ out \in Fails("tem", v)
        \/ c # None /\ out \in Fails("tec", u)
        \/ c # None /\ ~(t.expiration # 0 /\ t.expiration < min) /\ out \in tes(w)
        BY Zenon DEF PayChanFund, WithObject
  <2>2. CASE out \in Fails("tec", v) \/ out \in Fails("tem", v)
        BY <2>2, <1>FailsLawful, Zenon
  <2>3. CASE c # None /\ ChannelOver(c, n) /\ out \in closeChannel(v)
        BY <2>3, <1>Untouched, <1>CloseLawful, Zenon
  <2>4. ASSUME c # None
        PROVE  Touched(v, t, u) /\ u.balance = v.balance /\ u.object["channel"].amount = c.amount
               /\ u.object["channel"].balance = c.balance
               /\ u.object["channel"].expiration = IF t.expiration = 0 THEN c.expiration ELSE t.expiration
    <3>1. v.object \in [Kind -> Object \cup {None}] /\ c \in Object
          BY <2>4, KindMembers, Zenon DEF View
    <3>2. o \in Object /\ o.owner = c.owner /\ o.dest = c.dest /\ o.balance = c.balance /\ o.amount = c.amount
          /\ o.expiration = t.expiration
          BY <3>1, TxFields, Zenon DEF Object
    <3>3. Touched(v, t, v)
          BY <2>4, <1>Untouched, Zenon
    <3> HIDE DEF o
    <3>4. Touched(v, t, WithObject(v, "channel", o))
          BY <3>2, <3>3, <1>TouchedAgain, Zenon
    <3>5. WithObject(v, "channel", o).balance = v.balance
          /\ WithObject(v, "channel", o).object = [v.object EXCEPT !["channel"] = o]
      <4>1. Writes(v, WithObject(v, "channel", o), "channel", o)
            BY <3>2, <1>WithObjectIs, KindMembers, Zenon
      <4> QED
            BY <4>1, Zenon DEF Writes
    <3>6. WithObject(v, "channel", o).object["channel"] = o
          BY <3>1, <3>5, KindMembers, Zenon
    <3> QED
          BY <3>2, <3>3, <3>4, <3>5, <3>6, Zenon
  <2>5. CASE c # None /\ out \in Fails("tec", u)
        BY <2>4, <2>5, <1>TouchedFails, Zenon
  <2>6. CASE c # None /\ ~(t.expiration # 0 /\ t.expiration < min) /\ out \in tes(w)
    <3> DEFINE d == u.object["channel"]
               w1 == Credit(u, t.account, -t.amount)
               e == [d EXCEPT !.amount = @ + t.amount]
    <3>1. t.account \in Account /\ t.amount \in Nat /\ t.expiration \in Nat
          BY TxFields, Zenon
    <3>2. Touched(v, t, u) /\ u.balance = v.balance /\ d.amount = c.amount /\ d.balance = c.balance
          /\ d.expiration = IF t.expiration = 0 THEN c.expiration ELSE t.expiration
          BY <2>4, <2>6, Zenon
    <3> HIDE DEF u
    <3>3. /\ u \in View(Int) /\ SameMarks(v, u) /\ Exact(u) /\ Worth(u) = Worth(v) /\ d \in Object
          /\ \A k \in Kind : k # "channel" => u.object[k] = v.object[k]
          /\ d.owner = c.owner /\ d.dest = c.dest /\ d.balance <= d.amount
          BY <3>2, Zenon DEF Touched
    <3>4. /\ w1 \in View(Int) /\ w1.balance = [u.balance EXCEPT ![t.account] = @ + -t.amount]
          /\ w1.object = u.object /\ w1.ownerCount = u.ownerCount /\ SameMarks(u, w1)
          /\ Worth(w1) = Worth(u) + -t.amount
      <4>1. -t.amount \in Int
            BY <3>1, <3>3
      <4>2. Credits(u, w1, t.account, -t.amount)
            BY <3>1, <3>3, <4>1, CreditIs, Zenon
      <4> QED
            BY <4>2, Zenon DEF Credits
    <3>5. w = WithObject(w1, "channel", e)
          BY <3>4, Zenon DEF WithObject
    <3> HIDE DEF w1, w
    <3>6. /\ e \in Object /\ e.owner = d.owner /\ e.dest = d.dest /\ e.balance = d.balance
          /\ e.amount = d.amount + t.amount /\ e.expiration = d.expiration /\ d # None
          /\ d.amount \in Nat /\ d.balance \in Nat
          BY <3>1, <3>3, XRPObjectsAssumption DEF Object
    <3> HIDE DEF e
    <3>7. Exact(w1)
          BY <3>3, <3>4, Zenon DEF Exact
    <3>8. /\ w \in View(Int) /\ w.balance = w1.balance
          /\ w.object = [w1.object EXCEPT !["channel"] = e]
          /\ SameMarks(w1, w) /\ Exact(w)
          /\ Worth(w) = Worth(w1) - Held(w1, "channel") + (e.amount - e.balance)
      <4>1. w1.object["channel"] # None /\ e.owner = w1.object["channel"].owner
            BY <3>4, <3>6, Zenon
      <4>2. w1 \in View(Int)
            BY <3>4, Zenon
      <4>3. Writes(w1, w, "channel", e)
            BY <3>5, <3>6, <4>2, <1>WithObjectIs, KindMembers, Zenon
      <4> QED
            BY <3>7, <4>1, <4>3 DEF Writes
    <3>9. Held(w1, "channel") = d.amount - d.balance
          BY <3>4, <3>6, Zenon DEF Held
    <3>10. Worth(v) \in Int
          BY WorthParts, Zenon
    <3>11. Worth(w) = Worth(v)
      <4>1. Worth(w1) = Worth(v) + -t.amount
            BY <3>3, <3>4, Zenon
      <4> QED
          BY <3>1, <3>6, <3>8, <3>9, <3>10, <4>1
    <3>12. u.object \in [Kind -> Object \cup {None}] /\ v.balance \in [Account -> Int]
          BY <3>3, Zenon DEF View
    <3>13. w.object["channel"] = e /\ \A k \in Kind : k # "channel" => w.object[k] = v.object[k]
          BY <3>3, <3>4, <3>8, <3>12, KindMembers, ZenonT(40)
    <3>14. \A a \in Account : ~(w.balance[a] > v.balance[a])
          BY <3>1, <3>2, <3>4, <3>8, <3>12
    <3>15. SameMarks(v, w)
          BY <3>3, <3>4, <3>8, Zenon DEF SameMarks
    <3> HIDE DEF d
    <3>16. Touched(v, t, w)
      <4>1. c.balance <= e.balance /\ e.balance <= e.amount
            BY <3>1, <3>2, <3>3, <3>6
      <4> QED
            BY <3>3, <3>6, <3>8, <3>11, <3>13, <3>14, <3>15, <4>1, Zenon DEF Touched
    <3>17. n + SettleDelay < TimeWidth /\ e.expiration \notin {0, c.expiration} =>
                      \/ e.expiration >= n + SettleDelay
                      \/ c.expiration # 0 /\ e.expiration > c.expiration
      <4> SUFFICES ASSUME n + SettleDelay < TimeWidth, e.expiration \notin {0, c.expiration}
                   PROVE  \/ e.expiration >= n + SettleDelay
                          \/ c.expiration # 0 /\ e.expiration > c.expiration
          BY Zenon
      <4>1. e.expiration = t.expiration /\ t.expiration # 0 /\ t.expiration # c.expiration
            BY <3>2, <3>6, Zenon
      <4>2. settleExpiration(n) = n + SettleDelay /\ settleExpiration(n) \in Nat
            BY <1>SettleExpirationIs, Zenon
      <4>3. c.expiration \in Nat
            BY <2>6, KindMembers, Zenon DEF View, Object
      <4>4. ~(t.expiration < min)
            BY <2>6, <4>1, Zenon
      <4> HIDE DEF c
      <4>5. min = IF c.expiration # 0 THEN (IF c.expiration <= settleExpiration(n) THEN c.expiration
                                            ELSE settleExpiration(n))
                  ELSE settleExpiration(n)
            BY <4>2, <4>3, MinPair
      <4> HIDE DEF min
      <4> QED
            BY <3>1, <4>1, <4>2, <4>3, <4>4, <4>5
    <3> QED
          BY <2>6, <3>13, <3>16, <3>17, <1>TouchedLawful, Zenon
  <2> QED
      BY <2>1, <2>2, <2>3, <2>5, <2>6, Zenon

\* PaymentChannelClaim: first the receiver is paid,
<1>ClaimedTouches. ASSUME NEW v \in View(Int), Exact(v), Sound(v.object), v.object["channel"] # None, NEW t \in Tx,
                          t.balance > v.object["channel"].balance, t.balance <= v.object["channel"].amount,
                          Authorized(v.object["channel"].dest, t.account),
                          NEW u, u = Claimed(v, v.object["channel"], t)
                   PROVE  /\ Touched(v, t, u)
                          /\ u.object["channel"].balance = t.balance
                          /\ u.object["channel"].amount = v.object["channel"].amount
                          /\ u.object["channel"].expiration = v.object["channel"].expiration
                          /\ u.balance[v.object["channel"].dest] - v.balance[v.object["channel"].dest] =
                               t.balance - v.object["channel"].balance
  <2> USE <1>ClaimedTouches
  <2> DEFINE c == v.object["channel"]
             w1 == Credit(v, c.dest, t.balance - c.balance)
             e == [c EXCEPT !.balance = t.balance]
  <2>1. v.object \in [Kind -> Object \cup {None}] /\ c \in Object /\ v.balance \in [Account -> Int]
        BY KindMembers, Zenon DEF View
  <2>2. t.balance \in Nat /\ c.balance \in Nat /\ c.amount \in Nat /\ c.dest \in Account
        /\ t.balance - c.balance \in Int
        BY <2>1, TxFields DEF Object
  <2>3. /\ w1 \in View(Int) /\ w1.balance = [v.balance EXCEPT ![c.dest] = @ + (t.balance - c.balance)]
        /\ w1.object = v.object /\ w1.ownerCount = v.ownerCount /\ SameMarks(v, w1)
        /\ Worth(w1) = Worth(v) + (t.balance - c.balance)
    <3>1. Credits(v, w1, c.dest, t.balance - c.balance)
          BY <2>2, CreditIs, Zenon
    <3> QED
          BY <3>1, Zenon DEF Credits
  <2>4. u = WithObject(w1, "channel", e)
        BY <2>3, Zenon DEF WithObject, Claimed
  <2> HIDE DEF w1
  <2>5. /\ e \in Object /\ e.owner = c.owner /\ e.dest = c.dest /\ e.balance = t.balance
        /\ e.amount = c.amount /\ e.expiration = c.expiration
        BY <2>1, <2>2, Zenon DEF Object
  <2> HIDE DEF e, c
  <2>6. Exact(w1)
        BY <2>3, Zenon DEF Exact
  <2>7. w1.object["channel"] # None /\ e.owner = w1.object["channel"].owner
        BY <2>3, <2>5, Zenon DEF c
  <2>8. /\ u \in View(Int) /\ u.balance = w1.balance
        /\ u.object = [w1.object EXCEPT !["channel"] = e]
        /\ SameMarks(w1, u) /\ Exact(u)
    <3>1. w1 \in View(Int)
          BY <2>3, Zenon
    <3>2. Writes(w1, u, "channel", e)
          BY <2>4, <2>5, <3>1, <1>WithObjectIs, KindMembers, Zenon
    <3> QED
          BY <2>6, <2>7, <3>2, Zenon DEF Writes
  <2>9. Worth(u) = Worth(w1) - Held(w1, "channel") + (e.amount - e.balance)
        BY <2>3, <2>4, <2>5, <1>ChannelWorth, Zenon
  <2>10. Held(w1, "channel") = c.amount - c.balance
        BY <2>3, Zenon DEF Held, c
  <2>11. Worth(v) \in Int
        BY WorthParts, Zenon
  <2>12. Worth(u) = Worth(v)
        BY <2>2, <2>3, <2>5, <2>9, <2>10, <2>11
  <2>13. u.object["channel"] = e /\ \A k \in Kind : k # "channel" => u.object[k] = v.object[k]
        BY <2>1, <2>3, <2>8, KindMembers, Zenon
  <2>14. SameMarks(v, u)
        BY <2>3, <2>8, Zenon DEF SameMarks
  <2>15. \A a \in Account : u.balance[a] > v.balance[a] => a = c.dest
        BY <2>1, <2>2, <2>3, <2>8
  <2>16. u.balance[c.dest] = v.balance[c.dest] + (t.balance - c.balance) /\ v.balance[c.dest] \in Int
        BY <2>1, <2>2, <2>3, <2>8, ZenonT(40)
  <2>17. u.balance[c.dest] - v.balance[c.dest] = t.balance - c.balance
        BY <2>2, <2>16
  <2>18. Authorized(c.dest, t.account) /\ t.balance > c.balance /\ t.balance <= c.amount
        BY Zenon DEF c
  <2>19. c.balance <= t.balance
        BY <2>2, <2>18
  <2>20. Touched(v, t, u)
        BY <2>5, <2>8, <2>12, <2>13, <2>14, <2>15, <2>18, <2>19, Zenon DEF Touched, c
  <2> QED
        BY <2>5, <2>13, <2>17, <2>20, Zenon DEF c

\* then the channel may be renewed or closed.
<1>PayChanClaimLawful. ASSUME NEW v \in View(Int), Exact(v), Sound(v.object), NEW t \in Tx,
                              t.type = "ttPAYCHAN_CLAIM",
                              NEW n \in Nat, NEW out \in PayChanClaim(v, t, n)
                       PROVE  Lawful(v, t, n, out)
  <2> USE <1>PayChanClaimLawful
  <2> DEFINE c == v.object["channel"]
             u == IF t.balance = 0 THEN v ELSE Claimed(v, c, t)
             at(e) == [u EXCEPT !.object["channel"].expiration = e]
             live == c # None /\ ~(t.balance # 0 /\ \/ t.balance > c.amount \/ t.balance <= c.balance
                                                    \/ ~Authorized(c.dest, t.account))
             open == c.expiration = 0 \/ c.expiration > settleExpiration(n)
             whole == c.dest = t.account \/ u.object["channel"].balance = c.amount
  <2>1. \/ out \in Fails("tec", v)
        \/ out \in Fails("tem", v)
        \/ c # None /\ ChannelOver(c, n) /\ out \in closeChannel(v)
        \/ live /\ out \in Fails("tec", u)
        \/ live /\ out \in tes(at(0))
        \/ live /\ whole /\ out \in closeChannel(u)
        \/ live /\ open /\ out \in tes(at(settleExpiration(n)))
        \/ live /\ out \in tes(u)
        BY Zenon DEF PayChanClaim, Close
  <2>2. CASE out \in Fails("tec", v) \/ out \in Fails("tem", v)
        BY <2>2, <1>FailsLawful, Zenon
  <2>3. CASE c # None /\ ChannelOver(c, n) /\ out \in closeChannel(v)
        BY <2>3, <1>Untouched, <1>CloseLawful, Zenon
  <2>4. ASSUME live
        PROVE  /\ Touched(v, t, u) /\ u.object["channel"].amount = c.amount
               /\ u.object["channel"].expiration = c.expiration
               /\ u.balance[c.dest] - v.balance[c.dest] = u.object["channel"].balance - c.balance
               /\ u.object["channel"] \in Object /\ c.expiration \in Nat
    <3>1. c \in Object /\ v.balance \in [Account -> Int] /\ t.balance \in Nat
          BY <2>4, KindMembers, TxFields, Zenon DEF View
    <3>2. c.balance \in Nat /\ c.amount \in Nat /\ c.dest \in Account /\ c.expiration \in Nat
          BY <3>1, Zenon DEF Object
    <3>3. CASE t.balance = 0
      <4>1. u = v /\ Touched(v, t, v)
            BY <2>4, <3>3, <1>Untouched, Zenon
      <4>2. v.balance[c.dest] - v.balance[c.dest] = c.balance - c.balance
            BY <3>1, <3>2
      <4> QED
            BY <3>1, <3>2, <4>1, <4>2, Zenon
    <3>4. CASE t.balance # 0
      <4>1. u = Claimed(v, c, t)
            BY <3>4, Zenon
      <4>2. t.balance > c.balance /\ t.balance <= c.amount /\ Authorized(c.dest, t.account) /\ c # None
            BY <2>4, <3>1, <3>2, <3>4
      <4> HIDE DEF u
      <4>3. /\ Touched(v, t, u) /\ u.object["channel"].balance = t.balance
            /\ u.object["channel"].amount = c.amount
            /\ u.object["channel"].expiration = c.expiration
            /\ u.balance[c.dest] - v.balance[c.dest] = t.balance - c.balance
            BY <4>1, <4>2, <1>ClaimedTouches, Zenon
      <4> QED
            BY <3>2, <4>3, Zenon DEF Touched
    <3> QED
          BY <3>3, <3>4, Zenon
  <2>5. CASE live /\ out \in Fails("tec", u)
        BY <2>4, <2>5, <1>TouchedFails, Zenon
  <2>6. CASE live /\ out \in tes(u)
        BY <2>4, <2>6, <1>TouchedLawful, Zenon
  <2>7. CASE live /\ whole /\ out \in closeChannel(u)
    <3> HIDE DEF u
    <3> QED
        BY <2>4, <2>7, <1>CloseLawful, Zenon
  <2>8. ASSUME live, NEW x \in Nat, out \in tes(at(x)), x = 0 \/ x = settleExpiration(n)
        PROVE  Lawful(v, t, n, out)
    <3> DEFINE e == [u.object["channel"] EXCEPT !.expiration = x]
               w == WithObject(u, "channel", e)
    <3>1. at(x) = w
          BY Zenon DEF WithObject
    <3>2. Touched(v, t, u) /\ u.object["channel"] \in Object /\ c # None
          BY <2>4, <2>8, Zenon
    <3> HIDE DEF u
    <3>3. /\ e \in Object /\ e.expiration = x /\ e.owner = u.object["channel"].owner
          /\ e.dest = u.object["channel"].dest /\ e.balance = u.object["channel"].balance
          /\ e.amount = u.object["channel"].amount
          BY <3>2, Zenon DEF Object
    <3> HIDE DEF e
    <3>4. Touched(v, t, w)
          BY <3>2, <3>3, <1>TouchedAgain, Zenon
    <3>5. w.object["channel"] = e
      <4>1. w.object = [u.object EXCEPT !["channel"] = e] /\ u.object \in [Kind -> Object \cup {None}]
        <5>1. u \in View(Int)
              BY <3>2, Zenon DEF Touched
        <5>2. Writes(u, w, "channel", e)
              BY <3>3, <5>1, <1>WithObjectIs, KindMembers, Zenon
        <5> QED
              BY <5>1, <5>2, Zenon DEF Writes, View
      <4> QED
            BY <4>1, KindMembers, Zenon
    <3>6. x # 0 /\ n + SettleDelay < TimeWidth => x = n + SettleDelay
          BY <2>8, <1>SettleExpirationIs, Zenon
    <3>7. n + SettleDelay \in Nat
          BY XRPObjectsAssumption
    <3>8. x # 0 /\ n + SettleDelay < TimeWidth => x >= n + SettleDelay
          BY <3>6, <3>7
    <3> HIDE DEF w
    <3> QED
          BY <2>8, <3>1, <3>2, <3>3, <3>4, <3>5, <3>8, <1>TouchedLawful, Zenon
  <2>9. CASE live /\ out \in tes(at(0))
        BY <2>8, <2>9, Zenon
  <2>10. CASE live /\ open /\ out \in tes(at(settleExpiration(n)))
        BY <2>8, <2>10, <1>SettleExpirationIs, Zenon
  <2> QED
        BY <2>1, <2>2, <2>3, <2>5, <2>6, <2>7, <2>9, <2>10, Zenon
<1> SUFFICES ASSUME NEW v, NEW t, Applicable(v, t), NEW n \in Nat, NEW out \in doApply(v, t, n)
             PROVE  Lawful(v, t, n, out)
      BY Zenon
<1>0. /\ v \in View(Int) /\ Exact(v) /\ Sound(v.object) /\ t \in Tx /\ MovesXRP(t)
      /\ t.type \in CreatesObject => v.object[kindOf(t)] = None
      /\ t.type = "ttCHECK_CASH" /\ v.object["check"] # None => v.object["check"].dest = t.account
      BY Zenon DEF Applicable
<1>1. CASE t.type = "ttPAYMENT"
      BY <1>0, <1>1, <1>PaymentLawful, Zenon DEF doApply
<1>2. CASE t.type = "ttESCROW_CREATE"
      BY <1>0, <1>2, <1>EscrowCreateLawful, Zenon DEF doApply, kindOf, CreatesObject
<1>3. CASE t.type = "ttESCROW_FINISH"
      BY <1>0, <1>3, <1>EscrowFinishLawful, Zenon DEF doApply
<1>4. CASE t.type = "ttESCROW_CANCEL"
      BY <1>0, <1>4, <1>EscrowCancelLawful, Zenon DEF doApply
<1>5. CASE t.type = "ttCHECK_CREATE"
      BY <1>0, <1>5, <1>CreateCheckLawful, Zenon DEF doApply, kindOf, CreatesObject
<1>6. CASE t.type = "ttCHECK_CASH"
      BY <1>0, <1>6, <1>CashCheckLawful, Zenon DEF doApply
<1>7. CASE t.type = "ttCHECK_CANCEL"
      BY <1>0, <1>7, <1>CancelCheckLawful, Zenon DEF doApply
<1>8. CASE t.type = "ttPAYCHAN_CREATE"
      BY <1>0, <1>8, <1>PayChanCreateLawful, Zenon DEF doApply, kindOf, CreatesObject
<1>9. CASE t.type = "ttPAYCHAN_FUND"
      BY <1>0, <1>9, <1>PayChanFundLawful, Zenon DEF doApply
<1>10. CASE t.type = "ttPAYCHAN_CLAIM"
      BY <1>0, <1>10, <1>PayChanClaimLawful, Zenon DEF doApply
<1> QED
      BY <1>0, <1>1, <1>2, <1>3, <1>4, <1>5, <1>6, <1>7, <1>8, <1>9, <1>10, Zenon DEF MovesXRP
===============================================================================
