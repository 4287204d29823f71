-------------------------- MODULE DirectoryProofs --------------------------
(***************************************************************************)
(* For every set of keys, page size and page limit: the directory stays    *)
(* well linked, every stored page number stays right, no LogicError is     *)
(* thrown, and pages are in order of insertion.                            *)
(***************************************************************************)
EXTENDS Directory, WellFoundedInduction, TLAPS

USE DirectoryConstants

\* Every listed key has an object, which stores the page that lists it.
EntriesOwned ==
    \A p \in DOMAIN pages : \A k \in pages[p].indexes :
        k \in DOMAIN ownerNode /\ ownerNode[k] = p

\* The page an object stores exists and lists it.
HintsFound ==
    \A k \in DOMAIN ownerNode :
        ownerNode[k] \in DOMAIN pages /\ k \in pages[ownerNode[k]].indexes

\* Every listed key was inserted in the past.
StampsPast == \A k \in DOMAIN ownerNode : stamp[k] < clock

\* Linked without the detour through the functions it hands to Ring, for
\* any pages P.
ChainOf(P) ==
    /\ DOMAIN P # {} => 0 \in DOMAIN P
    /\ \A p \in DOMAIN P :
          /\ P[p].next \in DOMAIN P /\ P[P[p].next].prev = p
          /\ P[p].prev \in DOMAIN P /\ P[P[p].prev].next = p
          /\ \/ P[p].next = 0 /\ \A q \in DOMAIN P : q <= p
             \/ P[p].next > p /\ \A q \in DOMAIN P : q <= p \/ P[p].next <= q

Chain == ChainOf(pages)

IInv ==
    /\ TypeOK /\ Chain /\ EntriesOwned /\ HintsFound
    /\ NoLogicError /\ StampsPast /\ InsertionOrder

\* Chain and Linked say the same of the pages.
LEMMA ChainIsLinked == Chain <=> Linked
BY Zenon DEF Chain, ChainOf, Linked, Ring, rootPage

\* What the ring of pages says of the root, and of the last page.
LEMMA LastPage ==
    ASSUME TypeOK, Chain, Exists(0)
    PROVE  /\ lastPage \in DOMAIN pages /\ pages[lastPage].next = 0
           /\ \A q \in DOMAIN pages : q <= lastPage
           /\ lastPage = 0 <=> pages[0].next = 0
           /\ lastPage = 0 <=> DOMAIN pages = {0}
<1>1. DOMAIN pages \subseteq Nat
  BY DEF TypeOK, PageNumbers
<1>2. lastPage \in DOMAIN pages /\ pages[lastPage].next = 0
  BY Zenon DEF Chain, ChainOf, Exists, lastPage, rootPage
<1>3. \A q \in DOMAIN pages : q <= lastPage
  <2>1. ~(0 > lastPage)
    BY <1>1, <1>2
  <2> QED BY <1>2, <2>1, Zenon DEF Chain, ChainOf
<1>4. lastPage = 0 <=> pages[0].next = 0
  BY Zenon DEF Chain, ChainOf, Exists, lastPage, rootPage
<1>5. lastPage = 0 <=> DOMAIN pages = {0}
  BY <1>1, <1>2, <1>3 DEF Exists
<1> QED BY <1>2, <1>3, <1>4, <1>5, Zenon

\* dirDelete meets every page.
LEMMA AllFollowed ==
    ASSUME TypeOK, Chain, Exists(0)
    PROVE  Followed = DOMAIN pages
<1> SUFFICES ASSUME NEW S \in SUBSET DOMAIN pages, 0 \in S, ClosedUnderNext(S),
                    DOMAIN pages \ S # {}
             PROVE  FALSE
  BY Zenon DEF Followed, rootPage
<1> DEFINE R == OpToRel(<, Nat)
<1>1. \E x \in DOMAIN pages \ S : \A y \in DOMAIN pages \ S : ~(<<y, x>> \in R)
  <2>1. DOMAIN pages \ S \subseteq Nat
    BY DEF TypeOK, PageNumbers
  <2>2. IsWellFoundedOn(R, Nat)
    BY NatLessThanWellFounded, Zenon
  <2> HIDE DEF R
  <2> QED BY <2>1, <2>2, WFMin, Zenon
<1>2. PICK x \in DOMAIN pages \ S : \A y \in DOMAIN pages \ S : ~(y < x)
  <2>1. \A y, x \in Nat : <<y, x>> \in R <=> y < x
    BY Zenon DEF OpToRel
  <2>2. DOMAIN pages \subseteq Nat
    BY DEF TypeOK, PageNumbers
  <2> HIDE DEF R
  <2> QED BY <1>1, <2>1, <2>2, Zenon
<1>3. pages[x].prev \in DOMAIN pages /\ pages[x].prev < x
  BY <1>2 DEF Chain, ChainOf, TypeOK, PageNumbers
<1>4. pages[x].prev \in S
  BY <1>2, <1>3, Zenon
<1>5. pages[pages[x].prev].next = x
  BY <1>2, Zenon DEF Chain, ChainOf
<1> QED BY <1>2, <1>4, <1>5, Zenon DEF ClosedUnderNext, Exists

-----------------------------------------------------------------------------
(***************************************************************************)
(* The objects' side of an insertion and of a removal.                     *)
(***************************************************************************)
LEMMA RememberStep ==
    ASSUME IInv, NEW key \in Keys, NEW page \in PageNumbers, Fresh(key),
           \A p \in DOMAIN pages : p <= page, Remember(key, page)
    PROVE  /\ DOMAIN ownerNode' = DOMAIN ownerNode \cup {key}
           /\ ownerNode'[key] = page
           /\ \A k \in DOMAIN ownerNode : k # key /\ ownerNode'[k] = ownerNode[k]
           /\ DOMAIN ownerNode' \subseteq Keys
           /\ ownerNode' \in [DOMAIN ownerNode' -> PageNumbers]
           /\ stamp' \in [DOMAIN ownerNode' -> Nat]
           /\ clock' \in Nat
           /\ StampsPast' /\ InsertionOrder'
<1> USE DEF IInv, TypeOK
<1>1. /\ DOMAIN ownerNode' = DOMAIN ownerNode \cup {key}
      /\ ownerNode'[key] = page
      /\ \A k \in DOMAIN ownerNode : k # key /\ ownerNode'[k] = ownerNode[k]
      /\ stamp'[key] = clock
      /\ \A k \in DOMAIN ownerNode : stamp'[k] = stamp[k]
      /\ clock' = clock + 1
  BY Zenon DEF Remember, Fresh, With
<1>2. /\ DOMAIN ownerNode' \subseteq Keys
      /\ ownerNode' \in [DOMAIN ownerNode' -> PageNumbers]
      /\ stamp' \in [DOMAIN ownerNode' -> Nat]
      /\ clock' \in Nat
  BY <1>1 DEF Remember, With
<1>3. StampsPast'
  BY <1>1 DEF StampsPast
<1>4. InsertionOrder'
  BY <1>1 DEF InsertionOrder, StampsPast, HintsFound, PageNumbers
<1> QED BY <1>1, <1>2, <1>3, <1>4, Zenon

LEMMA ForgetStep ==
    ASSUME IInv, NEW gone, Forget(gone)
    PROVE  /\ DOMAIN ownerNode' = DOMAIN ownerNode \ gone
           /\ \A k \in DOMAIN ownerNode' : ownerNode'[k] = ownerNode[k]
           /\ DOMAIN ownerNode' \subseteq Keys
           /\ ownerNode' \in [DOMAIN ownerNode' -> PageNumbers]
           /\ stamp' \in [DOMAIN ownerNode' -> Nat]
           /\ clock' \in Nat
           /\ StampsPast' /\ InsertionOrder'
BY Zenon DEF IInv, TypeOK, Forget, Without, StampsPast, InsertionOrder

\* The two sides agree after an insertion, and after a removal.
LEMMA EntriesAfterInsertion ==
    ASSUME EntriesOwned, HintsFound, NEW key, NEW page, key \notin DOMAIN ownerNode,
           DOMAIN ownerNode' = DOMAIN ownerNode \cup {key},
           ownerNode'[key] = page,
           \A k \in DOMAIN ownerNode : ownerNode'[k] = ownerNode[k],
           DOMAIN pages' = DOMAIN pages \cup {page},
           \A p \in DOMAIN pages \ {page} : pages'[p].indexes = pages[p].indexes,
           pages'[page].indexes =
               {key} \cup IF page \in DOMAIN pages THEN pages[page].indexes ELSE {}
    PROVE  EntriesOwned' /\ HintsFound'
<1>1. EntriesOwned'
  BY ZenonT(40) DEF EntriesOwned
<1>2. HintsFound'
  BY ZenonT(40) DEF HintsFound
<1> QED BY <1>1, <1>2, Zenon

LEMMA EntriesAfterRemoval ==
    ASSUME EntriesOwned, HintsFound, NEW gone,
           DOMAIN ownerNode' = DOMAIN ownerNode \ gone,
           \A k \in DOMAIN ownerNode' : ownerNode'[k] = ownerNode[k],
           DOMAIN pages' \subseteq DOMAIN pages,
           \A p \in DOMAIN pages' : pages'[p].indexes = pages[p].indexes \ gone,
           \A p \in DOMAIN pages \ DOMAIN pages' : pages[p].indexes \subseteq gone
    PROVE  EntriesOwned' /\ HintsFound'
<1>1. EntriesOwned'
  BY DEF EntriesOwned
<1>2. HintsFound'
  BY DEF HintsFound
<1> QED BY <1>1, <1>2, Zenon

\* The links alone decide whether the pages form a ring.
LEMMA SameChain ==
    ASSUME Chain, DOMAIN pages' = DOMAIN pages,
           \A p \in DOMAIN pages : pages'[p].next = pages[p].next
                                /\ pages'[p].prev = pages[p].prev
    PROVE  Chain'
<1>1. ASSUME NEW p \in DOMAIN pages
      PROVE  /\ pages'[p].next \in DOMAIN pages' /\ pages'[pages'[p].next].prev = p
             /\ pages'[p].prev \in DOMAIN pages' /\ pages'[pages'[p].prev].next = p
  BY ZenonT(60) DEF Chain, ChainOf
<1>2. ASSUME NEW p \in DOMAIN pages
      PROVE  \/ pages'[p].next = 0 /\ \A q \in DOMAIN pages' : q <= p
             \/ /\ pages'[p].next > p
                /\ \A q \in DOMAIN pages' : q <= p \/ pages'[p].next <= q
  BY Zenon DEF Chain, ChainOf
<1>3. DOMAIN pages' # {} => 0 \in DOMAIN pages'
  BY Zenon DEF Chain, ChainOf
<1> QED BY <1>1, <1>2, <1>3, Zenon DEF Chain, ChainOf

\* Taking one page other than the root out of a ring leaves a ring.
LEMMA UnlinkingKeepsChain ==
    ASSUME NEW P, ChainOf(P), DOMAIN P \subseteq Nat,
           NEW page \in DOMAIN P, page # 0,
           NEW Q, DOMAIN Q = DOMAIN P \ {page},
           \A p \in DOMAIN Q :
              /\ p = P[page].prev => Q[p].next = P[page].next
              /\ p # P[page].prev => Q[p].next = P[p].next
              /\ p = P[page].next => Q[p].prev = P[page].prev
              /\ p # P[page].next => Q[p].prev = P[p].prev
    PROVE  ChainOf(Q)
<1> DEFINE next == P[page].next
           prev == P[page].prev
<1>1. /\ 0 \in DOMAIN P /\ next \in DOMAIN P /\ prev \in DOMAIN P
      /\ P[next].prev = page /\ P[prev].next = page
  BY Zenon DEF ChainOf
<1>2. prev < page /\ \A q \in DOMAIN P : q <= prev \/ page <= q
  <2>1. \/ P[prev].next = 0
        \/ P[prev].next > prev /\ \A q \in DOMAIN P : q <= prev \/ P[prev].next <= q
    BY <1>1, Zenon DEF ChainOf
  <2> QED BY <1>1, <2>1, Zenon
<1>3. next # page
  BY <1>1, <1>2
<1>4. ASSUME NEW p \in DOMAIN Q
      PROVE  /\ Q[p].next \in DOMAIN Q /\ Q[Q[p].next].prev = p
             /\ Q[p].prev \in DOMAIN Q /\ Q[Q[p].prev].next = p
  <2>1. /\ P[p].next \in DOMAIN P /\ P[P[p].next].prev = p
        /\ P[p].prev \in DOMAIN P /\ P[P[p].prev].next = p
    BY Zenon DEF ChainOf
  <2>2. p # prev => P[p].next # page /\ P[p].next # next
    BY <1>1, <2>1
  <2>3. p # next => P[p].prev # page /\ P[p].prev # prev
    BY <1>1, <2>1
  <2> QED BY <1>1, <1>2, <1>3, <2>1, <2>2, <2>3, ZenonT(40)
<1>5. ASSUME NEW p \in DOMAIN Q
      PROVE  \/ Q[p].next = 0 /\ \A q \in DOMAIN Q : q <= p
             \/ Q[p].next > p /\ \A q \in DOMAIN Q : q <= p \/ Q[p].next <= q
  <2>1. CASE p # prev
    BY <2>1, Zenon DEF ChainOf
  <2>2. CASE p = prev /\ next = 0
    <3>1. Q[p].next = 0
      BY <2>2, Zenon
    <3>2. \A q \in DOMAIN P : q <= page
      <4>1. \/ \A q \in DOMAIN P : q <= page
            \/ next > page
        BY Zenon DEF ChainOf
      <4> QED BY <2>2, <4>1
    <3> QED BY <1>1, <1>2, <2>2, <3>1, <3>2
  <2>3. CASE p = prev /\ next # 0
    <3>1. Q[p].next = next /\ next > page
      BY <1>1, <2>3, Zenon DEF ChainOf
    <3>2. \A q \in DOMAIN P : q <= page \/ next <= q
      BY <1>1, <2>3, Zenon DEF ChainOf
    <3> QED BY <1>1, <1>2, <2>3, <3>1, <3>2
  <2> QED BY <2>1, <2>2, <2>3, Zenon
<1>6. 0 \in DOMAIN Q
  BY <1>1, Zenon
<1> QED BY <1>4, <1>5, <1>6, Zenon DEF ChainOf

-----------------------------------------------------------------------------
(***************************************************************************)
(* The initial states, and one lemma per operation.                        *)
(***************************************************************************)
LEMMA InitIInv == Init => IInv
<1> SUFFICES ASSUME Init PROVE IInv
  BY Zenon
<1>1. /\ DOMAIN pages \subseteq PageNumbers
      /\ pages \in [DOMAIN pages -> [indexes : SUBSET Keys, next : PageNumbers,
                                     prev : PageNumbers]]
      /\ Chain
      /\ \A p, q \in DOMAIN pages : p # q => pages[p].indexes \cap pages[q].indexes = {}
  <2>1. CASE pages = [p \in {} |-> {}]
    BY <2>1, Zenon DEF Chain, ChainOf
  <2>2. CASE LegacyDirectory
    BY <2>2, SMTT(30) DEF LegacyDirectory, Chain, ChainOf, Ring, Page, rootPage
  <2> QED BY <2>1, <2>2, Zenon DEF Init
<1>2. DOMAIN ownerNode = Listed /\ DOMAIN stamp = Listed /\ Listed \subseteq Keys
  BY <1>1, Zenon DEF Init, Listed
<1>3. HintsFound
  BY <1>2, ZenonT(40) DEF Init, Listed, HintsFound
<1>4. EntriesOwned
  BY <1>1, <1>2, <1>3, Zenon DEF EntriesOwned, HintsFound, Listed
<1>5. \A k \in DOMAIN ownerNode : ownerNode[k] \in PageNumbers /\ stamp[k] = ownerNode[k]
  BY <1>1, <1>2, <1>3, Zenon DEF Init, HintsFound
<1>6. TypeOK
  <2>1. ownerNode \in [DOMAIN ownerNode -> PageNumbers]
    BY <1>5, Zenon DEF Init
  <2>2. stamp \in [DOMAIN ownerNode -> Nat]
    <3>1. \A k \in DOMAIN ownerNode : stamp[k] \in Nat
      BY <1>5 DEF PageNumbers
    <3>2. stamp = [k \in DOMAIN ownerNode |-> stamp[k]]
      BY <1>2 DEF Init
    <3> QED BY <3>1, <3>2, Zenon
  <2> QED BY <1>1, <1>2, <2>1, <2>2, Zenon DEF TypeOK, Init
<1>7. StampsPast
  <2>1. clock = dirNodeMaxPages
    BY Zenon DEF Init
  <2> QED BY <1>5, <2>1 DEF StampsPast, PageNumbers
<1>8. InsertionOrder
  BY <1>5, Zenon DEF InsertionOrder
<1>9. NoLogicError
  BY Zenon DEF NoLogicError, Init
<1> QED BY <1>1, <1>3, <1>4, <1>6, <1>7, <1>8, <1>9, Zenon DEF IInv

LEMMA AddRootStep ==
    ASSUME IInv, NEW key \in Keys, dirAddRoot(key)
    PROVE  IInv'
<1> USE DEF IInv, rootPage
<1>1. DOMAIN pages = {}
  BY Zenon DEF dirAddRoot, Exists, Chain, ChainOf
<1>2. 0 \in PageNumbers /\ \A p \in DOMAIN pages : p <= 0
  BY <1>1 DEF PageNumbers
<1>3. Fresh(key) /\ Remember(key, 0) /\ UNCHANGED fault /\ key \notin DOMAIN ownerNode
  BY Zenon DEF dirAddRoot, Fresh
<1>4. pages' = [x \in {0} |-> Page({key}, 0, 0)]
  BY <1>1, Zenon DEF dirAddRoot, With
<1>5. /\ DOMAIN pages' \subseteq PageNumbers
      /\ pages' \in [DOMAIN pages' -> [indexes : SUBSET Keys, next : PageNumbers,
                                       prev : PageNumbers]]
  BY <1>2, <1>4, Zenon DEF Page
<1>6. Chain'
  BY <1>4 DEF Chain, ChainOf, Page
<1>7. EntriesOwned' /\ HintsFound'
  <2>1. DOMAIN pages' = DOMAIN pages \cup {0} /\ pages'[0].indexes = {key}
    BY <1>1, <1>4, Zenon DEF Page
  <2>2. /\ DOMAIN ownerNode' = DOMAIN ownerNode \cup {key}
        /\ ownerNode'[key] = 0
        /\ \A k \in DOMAIN ownerNode : ownerNode'[k] = ownerNode[k]
    BY <1>2, <1>3, RememberStep, Zenon
  <2>3. 0 \notin DOMAIN pages /\ \A p \in DOMAIN pages : FALSE
    BY <1>1, Zenon
  <2> QED BY <1>3, <2>1, <2>2, <2>3, EntriesAfterInsertion
<1>8. TypeOK'
  BY <1>2, <1>3, <1>5, RememberStep, Zenon DEF TypeOK
<1> QED
  BY <1>2, <1>3, <1>6, <1>7, <1>8, RememberStep, Zenon DEF NoLogicError

LEMMA AddInPageStep ==
    ASSUME IInv, NEW key \in Keys, dirAddInPage(key)
    PROVE  IInv'
<1> USE DEF IInv, rootPage
<1>1. /\ lastPage \in DOMAIN pages /\ lastPage \in PageNumbers
      /\ \A p \in DOMAIN pages : p <= lastPage
  BY LastPage, Zenon DEF dirAddInPage, Exists, TypeOK
<1>2. key \notin DOMAIN ownerNode /\ key \notin pages[lastPage].indexes /\ Fresh(key)
  BY <1>1, Zenon DEF dirAddInPage, Fresh, EntriesOwned
<1>3. /\ pages' = [pages EXCEPT ![lastPage].indexes = @ \cup {key}]
      /\ Remember(key, lastPage) /\ UNCHANGED fault
  BY <1>1, <1>2, Zenon DEF dirAddInPage, Exists
<1>4. /\ DOMAIN pages' = DOMAIN pages
      /\ \A p \in DOMAIN pages :
            /\ pages'[p].next = pages[p].next /\ pages'[p].prev = pages[p].prev
            /\ p # lastPage => pages'[p].indexes = pages[p].indexes
      /\ pages'[lastPage].indexes = pages[lastPage].indexes \cup {key}
  BY <1>1, <1>3, Zenon DEF TypeOK
<1>5. pages' \in [DOMAIN pages' -> [indexes : SUBSET Keys, next : PageNumbers,
                                    prev : PageNumbers]]
  BY <1>1, <1>3, Zenon DEF TypeOK
<1>6. Chain'
  BY <1>4, SameChain, Zenon
<1>7. EntriesOwned' /\ HintsFound'
  <2>1. DOMAIN pages' = DOMAIN pages \cup {lastPage}
    BY <1>1, <1>4, Zenon
  <2>2. /\ DOMAIN ownerNode' = DOMAIN ownerNode \cup {key}
        /\ ownerNode'[key] = lastPage
        /\ \A k \in DOMAIN ownerNode : ownerNode'[k] = ownerNode[k]
    BY <1>1, <1>2, <1>3, RememberStep, Zenon
  <2>3. pages'[lastPage].indexes = {key} \cup
            IF lastPage \in DOMAIN pages THEN pages[lastPage].indexes ELSE {}
    BY <1>1, <1>4, Zenon
  <2> QED BY <1>2, <1>4, <2>1, <2>2, <2>3, EntriesAfterInsertion, Zenon
<1>8. TypeOK'
  BY <1>1, <1>2, <1>3, <1>4, <1>5, RememberStep, Zenon DEF TypeOK
<1> QED
  BY <1>1, <1>2, <1>3, <1>6, <1>7, <1>8, RememberStep, Zenon DEF NoLogicError

LEMMA AddNewPageStep ==
    ASSUME IInv, NEW key \in Keys, dirAddNewPage(key)
    PROVE  IInv'
<1> USE DEF IInv, rootPage
<1> DEFINE page == lastPage + 1
<1>1. /\ lastPage \in DOMAIN pages /\ lastPage \in PageNumbers
      /\ pages[lastPage].next = 0 /\ 0 \in DOMAIN pages
      /\ \A p \in DOMAIN pages : p <= lastPage /\ p \in Nat
  BY LastPage DEF dirAddNewPage, Exists, TypeOK, PageNumbers
<1>2. /\ page \in PageNumbers /\ page \notin DOMAIN pages /\ page > lastPage
      /\ \A p \in DOMAIN pages : p <= page
  BY <1>1 DEF dirAddNewPage, PageNumberLeft, PageNumbers
<1>3. /\ Fresh(key) /\ Remember(key, page) /\ UNCHANGED fault
      /\ key \notin DOMAIN ownerNode
  BY Zenon DEF dirAddNewPage, Fresh
<1> DEFINE P == [[pages EXCEPT ![lastPage].next = page] EXCEPT ![0].prev = page]
<1>4. P \in [DOMAIN pages -> [indexes : SUBSET Keys, next : PageNumbers,
                              prev : PageNumbers]]
  BY <1>1, <1>2, SMTT(30) DEF TypeOK
<1>5. \A p \in DOMAIN pages :
         /\ P[p].indexes = pages[p].indexes
         /\ P[p].next = IF p = lastPage THEN page ELSE pages[p].next
         /\ P[p].prev = IF p = 0 THEN page ELSE pages[p].prev
  BY <1>1, <1>2, ZenonT(40) DEF TypeOK
<1>6. pages' = With(P, page, Page({key}, 0, lastPage))
  BY Zenon DEF dirAddNewPage
<1> HIDE DEF P, page
<1>7. /\ DOMAIN pages' = DOMAIN pages \cup {page}
      /\ pages'[page] = Page({key}, 0, lastPage)
      /\ \A p \in DOMAIN pages : pages'[p] = P[p]
  BY <1>2, <1>4, <1>6, Zenon DEF With
<1>8. pages' \in [DOMAIN pages' -> [indexes : SUBSET Keys, next : PageNumbers,
                                    prev : PageNumbers]]
  BY <1>1, <1>2, <1>4, <1>6 DEF With, Page, PageNumbers
<1>9. Chain'
  <2>1. pages'[page].next = 0 /\ pages'[page].prev = lastPage
    BY <1>7 DEF Page
  <2>2. \A p \in DOMAIN pages :
           /\ pages'[p].next = IF p = lastPage THEN page ELSE pages[p].next
           /\ pages'[p].prev = IF p = 0 THEN page ELSE pages[p].prev
    BY <1>5, <1>7, Zenon
  <2>3. ASSUME NEW p \in DOMAIN pages'
        PROVE  /\ pages'[p].next \in DOMAIN pages' /\ pages'[pages'[p].next].prev = p
               /\ pages'[p].prev \in DOMAIN pages' /\ pages'[pages'[p].prev].next = p
    <3>1. CASE p = page
      BY <1>1, <1>2, <1>7, <2>1, <2>2, <3>1, Zenon DEF lastPage
    <3>2. CASE p \in DOMAIN pages
      <4>1. /\ pages[p].next \in DOMAIN pages /\ pages[pages[p].next].prev = p
            /\ pages[p].prev \in DOMAIN pages /\ pages[pages[p].prev].next = p
        BY <3>2, Zenon DEF Chain, ChainOf
      <4>2. p # 0 => pages[p].prev # lastPage
        BY <1>1, <4>1, Zenon
      <4>3. p # lastPage => pages[p].next # 0
        BY <1>1, <4>1, Zenon DEF lastPage
      <4> QED BY <1>1, <1>2, <1>7, <2>1, <2>2, <3>2, <4>1, <4>2, <4>3
    <3> QED BY <1>7, <3>1, <3>2, Zenon
  <2>4. ASSUME NEW p \in DOMAIN pages'
        PROVE  \/ pages'[p].next = 0 /\ \A q \in DOMAIN pages' : q <= p
               \/ /\ pages'[p].next > p
                  /\ \A q \in DOMAIN pages' : q <= p \/ pages'[p].next <= q
    <3>1. CASE p = page
      BY <1>1, <1>2, <1>7, <2>1, <3>1 DEF PageNumbers
    <3>2. CASE p = lastPage
      BY <1>1, <1>2, <1>7, <2>2, <3>2 DEF PageNumbers
    <3>3. CASE p \in DOMAIN pages /\ p # lastPage
      <4>1. pages'[p].next = pages[p].next /\ pages[p].next > p
        BY <1>1, <1>2, <2>2, <3>3, ZenonT(60) DEF Chain, ChainOf
      <4>2. pages[p].next \in DOMAIN pages
        BY <3>3, Zenon DEF Chain, ChainOf
      <4>3. \A q \in DOMAIN pages : q <= p \/ pages[p].next <= q
        BY <1>1, <3>3, <4>1, <4>2, Zenon DEF Chain, ChainOf
      <4>4. pages[p].next <= page
        BY <1>2, <4>2, Zenon
      <4> QED BY <1>7, <4>1, <4>3, <4>4, Zenon
    <3> QED BY <1>7, <3>1, <3>2, <3>3, Zenon
  <2> QED BY <1>1, <1>7, <2>3, <2>4, Zenon DEF Chain, ChainOf
<1>10. EntriesOwned' /\ HintsFound'
  <2>1. pages'[page].indexes = {key} \cup
            IF page \in DOMAIN pages THEN pages[page].indexes ELSE {}
    BY <1>2, <1>7 DEF Page
  <2>2. /\ DOMAIN ownerNode' = DOMAIN ownerNode \cup {key}
        /\ ownerNode'[key] = page
        /\ \A k \in DOMAIN ownerNode : ownerNode'[k] = ownerNode[k]
    BY <1>2, <1>3, RememberStep, Zenon
  <2>3. \A p \in DOMAIN pages \ {page} : pages'[p].indexes = pages[p].indexes
    BY <1>5, <1>7, Zenon
  <2> QED BY <1>3, <1>7, <2>1, <2>2, <2>3, EntriesAfterInsertion, SMTT(30)
<1>11. TypeOK'
  BY <1>2, <1>3, <1>7, <1>8, RememberStep, Zenon DEF TypeOK
<1> QED
  BY <1>2, <1>3, <1>9, <1>10, <1>11, RememberStep, Zenon DEF NoLogicError

\* What a removal starts from, and what is left to show of it: its pages.
LEMMA RemovalStep ==
    ASSUME IInv, NEW gone, Forget(gone), fault' = fault,
           Chain',
           pages' \in [DOMAIN pages' -> [indexes : SUBSET Keys, next : PageNumbers,
                                         prev : PageNumbers]],
           DOMAIN pages' \subseteq DOMAIN pages,
           \A p \in DOMAIN pages' : pages'[p].indexes = pages[p].indexes \ gone,
           \A p \in DOMAIN pages \ DOMAIN pages' : pages[p].indexes \subseteq gone
    PROVE  IInv'
<1>1. /\ DOMAIN ownerNode' = DOMAIN ownerNode \ gone
      /\ \A k \in DOMAIN ownerNode' : ownerNode'[k] = ownerNode[k]
      /\ DOMAIN ownerNode' \subseteq Keys
      /\ ownerNode' \in [DOMAIN ownerNode' -> PageNumbers]
      /\ stamp' \in [DOMAIN ownerNode' -> Nat]
      /\ clock' \in Nat
      /\ StampsPast' /\ InsertionOrder'
  BY ForgetStep, Zenon
<1>2. EntriesOwned' /\ HintsFound'
  BY <1>1, EntriesAfterRemoval, Zenon DEF IInv
<1>3. TypeOK'
  BY <1>1, Zenon DEF IInv, TypeOK
<1> QED BY <1>1, <1>2, <1>3, Zenon DEF IInv, NoLogicError

LEMMA OnlyItsPageLists ==
    ASSUME IInv, NEW key, Removing(key)
    PROVE  /\ ownerNode[key] \in DOMAIN pages
           /\ \A p \in DOMAIN pages \ {ownerNode[key]} :
                 pages[p].indexes = pages[p].indexes \ {key}
BY DEF IInv, EntriesOwned, Removing, Exists

LEMMA RemoveEntryStep ==
    ASSUME IInv, NEW key \in Keys, dirRemoveEntry(key)
    PROVE  IInv'
<1> DEFINE page == ownerNode[key]
<1>1. /\ page \in DOMAIN pages
      /\ \A p \in DOMAIN pages \ {page} : pages[p].indexes = pages[p].indexes \ {key}
  BY OnlyItsPageLists, Zenon DEF dirRemoveEntry
<1>2. /\ pages' = [pages EXCEPT ![page].indexes = pages[page].indexes \ {key}]
      /\ Forget({key}) /\ fault' = fault
  BY Zenon DEF dirRemoveEntry, Rest
<1> HIDE DEF page
<1>3. /\ DOMAIN pages' = DOMAIN pages
      /\ \A p \in DOMAIN pages :
            /\ pages'[p].next = pages[p].next /\ pages'[p].prev = pages[p].prev
            /\ pages'[p].indexes = pages[p].indexes \ {key}
  BY <1>1, <1>2, Zenon DEF IInv, TypeOK
<1>4. pages' \in [DOMAIN pages' -> [indexes : SUBSET Keys, next : PageNumbers,
                                    prev : PageNumbers]]
  BY <1>1, <1>2, ZenonT(40) DEF IInv, TypeOK
<1>5. Chain'
  BY <1>3, SameChain, Zenon DEF IInv
<1> QED BY <1>2, <1>3, <1>4, <1>5, RemovalStep, Zenon

\* Dropping the root from a directory without other pages leaves no page.
LEMMA EmptyIsChain == ASSUME DOMAIN pages' = {} PROVE Chain'
BY Zenon DEF Chain, ChainOf

LEMMA RootLinksSound == ASSUME IInv, Exists(0) PROVE ~RootLinksBroken
BY LastPage, Zenon DEF IInv, RootLinksBroken, OneOtherPage, lastPage, rootPage, Exists

\* With one other page, the directory is that page and the root.
LEMMA TwoPages ==
    ASSUME IInv, Exists(0), OneOtherPage
    PROVE  /\ DOMAIN pages = {0, lastPage} /\ lastPage # 0
           /\ pages[lastPage].next = 0 /\ pages[lastPage].prev = 0
<1>1. DOMAIN pages \subseteq Nat
  BY DEF IInv, TypeOK, PageNumbers
<1>2. /\ lastPage \in DOMAIN pages /\ pages[lastPage].next = 0
      /\ \A q \in DOMAIN pages : q <= lastPage
      /\ lastPage # 0 /\ pages[0].next = lastPage
  BY LastPage, Zenon DEF IInv, OneOtherPage, rootPage
<1>3. \A q \in DOMAIN pages : q <= 0 \/ lastPage <= q
  <2>1. \/ pages[0].next = 0
        \/ \A q \in DOMAIN pages : q <= 0 \/ pages[0].next <= q
    BY Zenon DEF IInv, Chain, ChainOf, Exists
  <2> QED BY <1>2, <2>1, Zenon
<1>4. pages[lastPage].prev = 0
  BY <1>2, Zenon DEF IInv, Chain, ChainOf, Exists
<1> QED BY <1>1, <1>2, <1>3, <1>4 DEF Exists

LEMMA RemoveFromRootStep ==
    ASSUME IInv, NEW key \in Keys, NEW keepRoot, dirRemoveFromRoot(key, keepRoot)
    PROVE  IInv'
<1> USE DEF rootPage
<1> DEFINE dropLast == OneOtherPage /\ pages[lastPage].indexes = {}
           trimmed == IF dropLast THEN Without(pages, {lastPage}) ELSE pages
           alone == dropLast \/ lastPage = 0
           erase == alone /\ ~keepRoot
<1>1. /\ 0 \in DOMAIN pages /\ Exists(0) /\ pages[0].indexes \subseteq {key}
      /\ \A p \in DOMAIN pages \ {0} : pages[p].indexes = pages[p].indexes \ {key}
  BY OnlyItsPageLists, Zenon DEF dirRemoveFromRoot, Exists, Rest
<1>2. /\ pages' = IF erase THEN Without(trimmed, {0})
                  ELSE [trimmed EXCEPT ![0] = EmptiedRoot(dropLast)]
      /\ Forget({key}) /\ fault' = fault
  BY <1>1, RootLinksSound, Zenon DEF dirRemoveFromRoot
<1>3. CASE erase
  <2>1. DOMAIN pages' = {}
    <3>1. CASE dropLast
      BY <1>2, <1>3, <3>1, <1>1, TwoPages, Zenon DEF Without
    <3>2. CASE ~dropLast
      BY <1>1, <1>2, <1>3, <3>2, LastPage, Zenon DEF Without, IInv
    <3> QED BY <3>1, <3>2, Zenon
  <2>2. \A p \in DOMAIN pages : pages[p].indexes \subseteq {key}
    <3>1. CASE dropLast
      BY <1>1, <3>1, TwoPages, Zenon
    <3>2. CASE ~dropLast
      BY <1>1, <1>3, <3>2, LastPage, Zenon DEF IInv
    <3> QED BY <3>1, <3>2, Zenon
  <2>3. pages' = [p \in {} |-> {}]
    BY <1>2, <1>3, <2>1, Zenon DEF Without
  <2>4. pages' \in [DOMAIN pages' -> [indexes : SUBSET Keys, next : PageNumbers,
                                      prev : PageNumbers]]
    BY <2>3, Zenon
  <2> QED BY <1>2, <2>1, <2>2, <2>4, EmptyIsChain, RemovalStep, Zenon
<1>4. CASE ~erase /\ dropLast
  <2>1. DOMAIN pages = {0, lastPage} /\ lastPage # 0
    BY <1>1, <1>4, TwoPages, Zenon
  <2>2. pages' = [p \in {0} |-> Page({}, 0, 0)]
    BY <1>2, <1>4, <2>1, Zenon DEF EmptiedRoot, Without
  <2>3. /\ DOMAIN pages' = {0}
        /\ pages' \in [DOMAIN pages' -> [indexes : SUBSET Keys, next : PageNumbers,
                                         prev : PageNumbers]]
    BY <2>2 DEF Page, PageNumbers
  <2>4. Chain'
    BY <2>2 DEF Chain, ChainOf, Page
  <2>5. /\ \A p \in DOMAIN pages' : pages'[p].indexes = pages[p].indexes \ {key}
        /\ \A p \in DOMAIN pages \ DOMAIN pages' : pages[p].indexes \subseteq {key}
        /\ DOMAIN pages' \subseteq DOMAIN pages
    BY <1>1, <1>4, <2>1, <2>2, Zenon DEF Page
  <2> QED BY <1>2, <2>3, <2>4, <2>5, RemovalStep, Zenon
<1>5. CASE ~erase /\ ~dropLast
  <2>1. pages' = [pages EXCEPT ![0] = Page({}, pages[0].next, pages[0].prev)]
    BY <1>2, <1>5, Zenon DEF EmptiedRoot, lastPage
  <2>2. /\ DOMAIN pages' = DOMAIN pages
        /\ \A p \in DOMAIN pages :
              /\ pages'[p].next = pages[p].next /\ pages'[p].prev = pages[p].prev
              /\ pages'[p].indexes = pages[p].indexes \ {key}
    BY <1>1, <2>1, Zenon DEF IInv, TypeOK, Page
  <2>3. pages' \in [DOMAIN pages' -> [indexes : SUBSET Keys, next : PageNumbers,
                                      prev : PageNumbers]]
    BY <1>1, <2>1, Zenon DEF IInv, TypeOK, Page
  <2>4. Chain'
    BY <2>2, SameChain, Zenon DEF IInv
  <2> QED BY <1>2, <2>2, <2>3, <2>4, RemovalStep, Zenon
<1> QED BY <1>3, <1>4, <1>5, Zenon

PageType == [indexes : SUBSET Keys, next : PageNumbers, prev : PageNumbers]

Unlink(P, page) ==
    [[Without(P, {page}) EXCEPT ![P[page].prev].next = P[page].next]
                         EXCEPT ![P[page].next].prev = P[page].prev]

\* What the two assignments that unlink a page do to another page.
LEMMA UnlinkFields ==
    ASSUME NEW P, ChainOf(P), DOMAIN P \subseteq Nat, P \in [DOMAIN P -> PageType],
           NEW page \in DOMAIN P, page # 0, NEW p \in DOMAIN P, p # page
    PROVE  /\ Unlink(P, page)[p] \in PageType
           /\ Unlink(P, page)[p].indexes = P[p].indexes
           /\ p = P[page].prev => Unlink(P, page)[p].next = P[page].next
           /\ p # P[page].prev => Unlink(P, page)[p].next = P[p].next
           /\ p = P[page].next => Unlink(P, page)[p].prev = P[page].prev
           /\ p # P[page].next => Unlink(P, page)[p].prev = P[p].prev
<1> DEFINE next == P[page].next
           prev == P[page].prev
           W == Without(P, {page})
           V == [W EXCEPT ![prev].next = next]
           Q == [V EXCEPT ![next].prev = prev]
<1>1. next \in PageNumbers /\ prev \in PageNumbers /\ P[p] \in PageType
  BY Zenon DEF PageType
<1> HIDE DEF next, prev
<1>2. p \in DOMAIN W /\ W[p] = P[p]
  BY Zenon DEF Without
<1> HIDE DEF W
<1>3. p \in DOMAIN V /\ V[p] = IF p = prev THEN [W[p] EXCEPT !.next = next] ELSE W[p]
  BY <1>2, Zenon
<1> HIDE DEF V
<1>4. Q[p] = IF p = next THEN [V[p] EXCEPT !.prev = prev] ELSE V[p]
  BY <1>3, Zenon
<1>5. Unlink(P, page) = Q
  BY Zenon DEF Unlink, Q, V, W, next, prev
<1> HIDE DEF Q
<1>6. /\ V[p] \in PageType /\ V[p].indexes = P[p].indexes /\ V[p].prev = P[p].prev
      /\ p = prev => V[p].next = next
      /\ p # prev => V[p].next = P[p].next
  BY <1>1, <1>2, <1>3, Zenon DEF PageType
<1>7. /\ Q[p] \in PageType /\ Q[p].indexes = P[p].indexes /\ Q[p].next = V[p].next
      /\ p = next => Q[p].prev = prev
      /\ p # next => Q[p].prev = P[p].prev
  BY <1>1, <1>4, <1>6, Zenon DEF PageType
<1> QED BY <1>5, <1>6, <1>7, Zenon DEF next, prev

LEMMA UnlinkFacts ==
    ASSUME NEW P, ChainOf(P), DOMAIN P \subseteq Nat, P \in [DOMAIN P -> PageType],
           NEW page \in DOMAIN P, page # 0
    PROVE  /\ DOMAIN Unlink(P, page) = DOMAIN P \ {page}
           /\ Unlink(P, page) \in [DOMAIN Unlink(P, page) -> PageType]
           /\ ChainOf(Unlink(P, page))
           /\ P[page].prev \in DOMAIN Unlink(P, page)
           /\ P[page].next \in DOMAIN Unlink(P, page)
<1> DEFINE Q == Unlink(P, page)
<1>1. DOMAIN Q = DOMAIN P \ {page} /\ Q = [p \in DOMAIN Q |-> Q[p]]
  BY Zenon DEF Unlink, Without
<1>2. \A p \in DOMAIN P : p # page =>
         /\ Q[p] \in PageType
         /\ p = P[page].prev => Q[p].next = P[page].next
         /\ p # P[page].prev => Q[p].next = P[p].next
         /\ p = P[page].next => Q[p].prev = P[page].prev
         /\ p # P[page].next => Q[p].prev = P[p].prev
  BY UnlinkFields
<1> HIDE DEF Q
<1>3. ChainOf(Q)
  <2>1. \A p \in DOMAIN Q :
           /\ p = P[page].prev => Q[p].next = P[page].next
           /\ p # P[page].prev => Q[p].next = P[p].next
           /\ p = P[page].next => Q[p].prev = P[page].prev
           /\ p # P[page].next => Q[p].prev = P[p].prev
    BY <1>1, <1>2, Zenon
  <2>2. DOMAIN Q = DOMAIN P \ {page}
    BY <1>1, Zenon
  <2> QED BY <2>1, <2>2, UnlinkingKeepsChain, Zenon
<1>4. P[page].prev \in DOMAIN Q /\ P[page].next \in DOMAIN Q
  <2>1. /\ P[page].next \in DOMAIN P /\ P[page].prev \in DOMAIN P
        /\ P[P[page].next].prev = page /\ P[P[page].prev].next = page
        /\ P[page].next = 0 \/ P[page].next > page
    BY Zenon DEF ChainOf
  <2> QED BY <1>1, <2>1
<1>5. Q \in [DOMAIN Q -> PageType]
  BY <1>1, <1>2, Zenon
<1> QED BY <1>1, <1>3, <1>4, <1>5, Zenon DEF Q

\* ... and what unlinking an empty last page after it does.
LEMMA TrimFacts ==
    ASSUME NEW U, ChainOf(U), DOMAIN U \subseteq Nat, U \in [DOMAIN U -> PageType],
           NEW next \in DOMAIN U, IsEmptyLast(U, next)
    PROVE  /\ DOMAIN Unlink(U, next) = DOMAIN U \ {next} /\ 0 \in DOMAIN Unlink(U, next)
           /\ Unlink(U, next) \in [DOMAIN Unlink(U, next) -> PageType]
           /\ ChainOf(Unlink(U, next))
           /\ U[next].prev = 0 => Unlink(U, next)[0].next = 0
<1>1. next # 0 /\ U[next].next = 0 /\ 0 \in DOMAIN U
  BY Zenon DEF IsEmptyLast, rootPage, ChainOf
<1>2. /\ DOMAIN Unlink(U, next) = DOMAIN U \ {next}
      /\ Unlink(U, next) \in [DOMAIN Unlink(U, next) -> PageType]
      /\ ChainOf(Unlink(U, next))
  BY <1>1, UnlinkFacts, Zenon
<1>3. U[next].prev = 0 => Unlink(U, next)[0].next = 0
  BY <1>1, UnlinkFields
<1> QED BY <1>1, <1>2, <1>3, Zenon

LEMMA RemovePageStep ==
    ASSUME IInv, NEW key \in Keys, NEW keepRoot, dirRemovePage(key, keepRoot)
    PROVE  IInv'
<1> USE DEF rootPage
<1> DEFINE page == ownerNode[key]
           next == pages[page].next
           prev == pages[page].prev
           U == Unlink(pages, page)
           dropNext == IsEmptyLast(U, next)
           T == IF dropNext THEN Unlink(U, next) ELSE U
           alone == (dropNext \/ next = 0) /\ prev = 0
           erase == ~keepRoot /\ alone /\ T[0].indexes = {}
<1>1. /\ page \in DOMAIN pages /\ page # 0 /\ pages[page].indexes \subseteq {key}
      /\ \A p \in DOMAIN pages \ {page} : pages[p].indexes = pages[p].indexes \ {key}
  BY OnlyItsPageLists, Zenon DEF dirRemovePage, Rest
<1>2. /\ DOMAIN pages \subseteq Nat /\ pages \in [DOMAIN pages -> PageType]
      /\ ChainOf(pages) /\ 0 \in DOMAIN pages
  <2>1. DOMAIN pages \subseteq Nat /\ pages \in [DOMAIN pages -> PageType]
    BY DEF IInv, TypeOK, PageNumbers, PageType
  <2>2. ChainOf(pages)
    BY Zenon DEF IInv, Chain
  <2>3. 0 \in DOMAIN pages
    BY <1>1, <2>2, Zenon DEF ChainOf
  <2> QED BY <2>1, <2>2, <2>3, Zenon
<1> HIDE DEF page
<1>3. /\ DOMAIN U = DOMAIN pages \ {page} /\ U \in [DOMAIN U -> PageType] /\ ChainOf(U)
      /\ prev \in DOMAIN U /\ next \in DOMAIN U
  BY <1>1, <1>2, UnlinkFacts, Zenon
<1>4. \A p \in DOMAIN pages : p # page =>
         /\ U[p].indexes = pages[p].indexes
         /\ p = prev => U[p].next = next
         /\ p # prev => U[p].next = pages[p].next
         /\ p = next => U[p].prev = prev
         /\ p # next => U[p].prev = pages[p].prev
  BY <1>1, <1>2, UnlinkFields
<1> HIDE DEF U
<1>5. dropNext =>
         /\ next # 0 /\ U[next].next = 0 /\ U[next].indexes = {} /\ U[next].prev = prev
  BY <1>3, <1>4, Zenon DEF IsEmptyLast
<1>6. /\ DOMAIN T \subseteq DOMAIN U /\ 0 \in DOMAIN T
      /\ T \in [DOMAIN T -> PageType] /\ ChainOf(T)
      /\ \A p \in DOMAIN T : T[p].indexes = U[p].indexes
      /\ \A p \in DOMAIN U \ DOMAIN T : U[p].indexes = {}
      /\ alone => T[0].next = 0
  <2>1. CASE ~dropNext
    BY <1>1, <1>2, <1>3, <1>4, <2>1, Zenon
  <2>2. CASE dropNext
    <3>1. DOMAIN U \subseteq Nat /\ T = Unlink(U, next) /\ next \in DOMAIN U
      BY <1>2, <1>3, <2>2, Zenon
    <3> HIDE DEF next, prev
    <3>2. /\ DOMAIN Unlink(U, next) = DOMAIN U \ {next} /\ 0 \in DOMAIN Unlink(U, next)
          /\ Unlink(U, next) \in [DOMAIN Unlink(U, next) -> PageType]
          /\ ChainOf(Unlink(U, next))
          /\ U[next].prev = 0 => Unlink(U, next)[0].next = 0
      BY <1>3, <2>2, <3>1, TrimFacts, Zenon
    <3>3. \A p \in DOMAIN U : p # next => Unlink(U, next)[p].indexes = U[p].indexes
      BY <1>3, <1>5, <2>2, <3>1, UnlinkFields
    <3> HIDE DEF T
    <3> QED BY <1>5, <2>2, <3>1, <3>2, <3>3, Zenon
  <2> QED BY <2>1, <2>2, Zenon
<1>7. /\ pages' = IF erase THEN Without(T, {0}) ELSE T
      /\ Forget({key}) /\ fault' = fault
  <2>1. Unlinked(page) = U
    BY Zenon DEF Unlinked, Unlink, U
  <2>2. T = IF dropNext
            THEN [[Without(U, {next}) EXCEPT ![prev].next = 0] EXCEPT ![0].prev = prev]
            ELSE U
    BY <1>5, Zenon DEF Unlink
  <2>3. /\ next # page /\ prev # page /\ next \in DOMAIN pages /\ prev \in DOMAIN pages
    BY <1>3, Zenon
  <2> HIDE DEF T
  <2> QED BY <1>2, <2>1, <2>2, <2>3, Zenon DEF dirRemovePage, Exists, page
<1> HIDE DEF T, next, prev, dropNext
<1>8. CASE ~erase
  <2>1. pages' = T
    BY <1>7, <1>8, Zenon
  <2>2. Chain' /\ pages' \in [DOMAIN pages' -> PageType]
    BY <1>6, <2>1, Zenon DEF Chain
  <2>3. /\ DOMAIN pages' \subseteq DOMAIN pages
        /\ \A p \in DOMAIN pages' : pages'[p].indexes = pages[p].indexes \ {key}
        /\ \A p \in DOMAIN pages \ DOMAIN pages' : pages[p].indexes \subseteq {key}
    BY <1>1, <1>3, <1>4, <1>6, <2>1, Zenon
  <2> QED BY <1>7, <2>2, <2>3, RemovalStep, Zenon DEF PageType
<1>9. CASE erase
  <2>1. DOMAIN T = {0}
    <3>1. \/ \A q \in DOMAIN T : q <= 0
          \/ T[0].next > 0
      BY <1>6, Zenon DEF ChainOf
    <3>2. \A q \in DOMAIN T : q <= 0
      BY <1>6, <1>9, <3>1
    <3>3. DOMAIN T \subseteq Nat
      BY <1>2, <1>3, <1>6, Zenon
    <3> QED BY <1>6, <3>2, <3>3
  <2>2. pages' = [p \in {} |-> T[p]]
    BY <1>7, <1>9, <2>1, Zenon DEF Without
  <2>3. DOMAIN pages' = {} /\ pages' \in [DOMAIN pages' -> PageType]
    BY <2>2, Zenon
  <2>4. \A p \in DOMAIN pages : pages[p].indexes \subseteq {key}
    BY <1>1, <1>3, <1>4, <1>6, <1>9, <2>1, Zenon
  <2> QED BY <1>7, <2>3, <2>4, EmptyIsChain, RemovalStep, Zenon DEF PageType
<1> QED BY <1>8, <1>9, Zenon

LEMMA EmptyDirDeleteStep == ASSUME IInv, emptyDirDelete PROVE IInv'
<1> USE DEF rootPage
<1>1. Exists(0) /\ 0 \in DOMAIN pages /\ pages[0].indexes = {} /\ ~RootLinksBroken
  BY RootLinksSound, Zenon DEF emptyDirDelete, Exists
<1>2. /\ UNCHANGED <<ownerNode, stamp, clock, fault>>
      /\ OneOtherPage => pages[lastPage].indexes = {}
      /\ pages' = IF OneOtherPage \/ lastPage = 0
                  THEN Without(pages, {0, lastPage}) ELSE pages
  BY <1>1, Zenon DEF emptyDirDelete
<1>3. CASE OneOtherPage \/ lastPage = 0
  <2>1. DOMAIN pages = {0, lastPage} /\ \A p \in DOMAIN pages : pages[p].indexes = {}
    BY <1>1, <1>2, <1>3, TwoPages, LastPage, Zenon DEF IInv
  <2>2. DOMAIN ownerNode = {}
    BY <2>1, Zenon DEF IInv, HintsFound
  <2>3. pages' = [p \in {} |-> pages[p]]
    BY <1>2, <1>3, <2>1, Zenon DEF Without
  <2>4. TypeOK' /\ StampsPast' /\ InsertionOrder' /\ NoLogicError'
    BY <1>2, <2>2, <2>3, Zenon DEF IInv, TypeOK, StampsPast, InsertionOrder, NoLogicError
  <2>5. EntriesOwned' /\ HintsFound' /\ Chain'
    BY <1>2, <2>2, <2>3, EmptyIsChain, Zenon DEF EntriesOwned, HintsFound
  <2> QED BY <2>4, <2>5, Zenon DEF IInv
<1>4. CASE ~(OneOtherPage \/ lastPage = 0)
  BY <1>2, <1>4, Zenon DEF IInv, TypeOK, StampsPast, InsertionOrder, NoLogicError,
                    EntriesOwned, HintsFound, Chain
<1> QED BY <1>3, <1>4, Zenon

LEMMA DirDeleteStep == ASSUME IInv, dirDelete PROVE IInv'
<1>1. Followed = DOMAIN pages
  BY AllFollowed, Zenon DEF IInv, dirDelete, rootPage
<1> DEFINE gone == {k \in DOMAIN ownerNode : \E p \in Followed : k \in pages[p].indexes}
<1>2. /\ pages' = [p \in {} |-> pages[p]]
      /\ Forget(gone) /\ fault' = fault
  BY <1>1, Zenon DEF dirDelete, Without
<1>3. \A p \in DOMAIN pages : pages[p].indexes \subseteq gone
  BY <1>1, Zenon DEF IInv, EntriesOwned
<1> HIDE DEF gone
<1> QED BY <1>2, <1>3, EmptyIsChain, RemovalStep, Zenon

-----------------------------------------------------------------------------
(***************************************************************************)
(* Every step of the specification keeps the inductive invariant.          *)
(***************************************************************************)
LEMMA NextIInv == IInv /\ [Next]_vars => IInv'
<1> SUFFICES ASSUME IInv, [Next]_vars PROVE IInv'
  BY Zenon
<1>1. ASSUME NEW key \in Keys, dirAdd(key) PROVE IInv'
  BY <1>1, AddRootStep, AddInPageStep, AddNewPageStep, Zenon DEF dirAdd
<1>2. ASSUME NEW key \in Keys, NEW keepRoot \in BOOLEAN, dirRemove(key, keepRoot)
      PROVE  IInv'
  BY <1>2, RemoveEntryStep, RemoveFromRootStep, RemovePageStep, Zenon DEF dirRemove
<1>3. CASE emptyDirDelete
  BY <1>3, EmptyDirDeleteStep, Zenon
<1>4. CASE dirDelete
  BY <1>4, DirDeleteStep, Zenon
<1>5. CASE UNCHANGED vars
  BY <1>5, Zenon DEF vars, IInv, TypeOK, StampsPast, InsertionOrder, NoLogicError,
              EntriesOwned, HintsFound, Chain
<1> QED BY <1>1, <1>2, <1>3, <1>4, <1>5, Zenon DEF Next

LEMMA IInvHolds == Spec => []IInv
BY InitIInv, NextIInv, PTL DEF Spec

\* The inductive invariant gives the properties the runs check.
LEMMA IInvImplies ==
    ASSUME IInv
    PROVE  TypeOK /\ Linked /\ HintsSound /\ NoLogicError /\ InsertionOrder /\ NothingOrphaned
<1>1. DOMAIN ownerNode = Listed
  BY DEF IInv, EntriesOwned, HintsFound, Listed
<1>2. NothingOrphaned
  BY Zenon DEF IInv, NothingOrphaned, Chain, ChainOf, HintsFound, Exists, rootPage
<1> QED BY <1>1, <1>2, ChainIsLinked, Zenon DEF IInv, HintsSound, HintsFound, Exists

\* The state of a directory is well formed whatever is inserted, removed or
\* deleted (dirAdd, dirRemove, emptyDirDelete, dirDelete).
THEOREM TypeCorrect == Spec => []TypeOK
BY IInvHolds, IInvImplies, PTL

\* dirAdd and dirRemove keep the pages in one ring in increasing order.
THEOREM PagesLinked == Spec => []Linked
BY IInvHolds, IInvImplies, PTL

\* The page number dirAdd returned finds the entry until it is removed.
THEOREM HintsStaySound == Spec => []HintsSound
BY IInvHolds, IInvImplies, PTL

\* No "Directory chain: ... broken" or "double insertion" LogicError.
THEOREM NeverLogicError == Spec => []NoLogicError
BY IInvHolds, IInvImplies, PTL

\* Pages are in order of insertion, as dirAppend promises.
THEOREM InsertionOrderKept == Spec => []InsertionOrder
BY IInvHolds, IInvImplies, PTL

\* Erasing the root (dirRemove, emptyDirDelete, dirDelete) orphans nothing.
THEOREM NothingEverOrphaned == Spec => []NothingOrphaned
BY IInvHolds, IInvImplies, PTL

-----------------------------------------------------------------------------
(***************************************************************************)
(* The pages implement a set of entries.                                   *)
(***************************************************************************)
LEMMA ListedAreOwned == ASSUME IInv PROVE Listed = DOMAIN ownerNode /\ Listed \subseteq Keys
BY IInvImplies, Zenon DEF HintsSound, TypeOK

\* What a step does to the keys whose objects are listed.
LEMMA OwnedStep ==
    ASSUME IInv, Next
    PROVE  \/ \E key \in Keys : /\ key \notin DOMAIN ownerNode
                                /\ DOMAIN ownerNode' = DOMAIN ownerNode \cup {key}
           \/ \E key \in Keys : /\ key \in DOMAIN ownerNode
                                /\ DOMAIN ownerNode' = DOMAIN ownerNode \ {key}
           \/ DOMAIN ownerNode' = DOMAIN ownerNode
           \/ DOMAIN ownerNode' = {}
<1>1. ASSUME NEW key \in Keys, dirAdd(key)
      PROVE  \/ /\ key \notin DOMAIN ownerNode
                /\ DOMAIN ownerNode' = DOMAIN ownerNode \cup {key}
             \/ DOMAIN ownerNode' = DOMAIN ownerNode
  <2>1. ASSUME NEW page, Remember(key, page)
        PROVE  DOMAIN ownerNode' = DOMAIN ownerNode \cup {key}
    BY <2>1, Zenon DEF Remember, With
  <2>2. /\ key \notin DOMAIN ownerNode
        /\ (\E page : Remember(key, page)) \/ LogicError
    BY <1>1, Zenon DEF dirAdd, dirAddRoot, dirAddInPage, dirAddNewPage, Fresh
  <2> QED BY <2>1, <2>2, Zenon DEF LogicError
<1>2. ASSUME NEW key \in Keys, NEW keepRoot \in BOOLEAN, dirRemove(key, keepRoot)
      PROVE  /\ key \in DOMAIN ownerNode
             /\ \/ DOMAIN ownerNode' = DOMAIN ownerNode \ {key}
                \/ DOMAIN ownerNode' = DOMAIN ownerNode
  <2>1. ASSUME Forget({key}) PROVE DOMAIN ownerNode' = DOMAIN ownerNode \ {key}
    BY <2>1, Zenon DEF Forget, Without
  <2>2. Removing(key) /\ (Forget({key}) \/ LogicError)
    BY <1>2, Zenon DEF dirRemove, dirRemoveEntry, dirRemoveFromRoot, dirRemovePage
  <2> QED BY <2>1, <2>2, Zenon DEF Removing, LogicError
<1>3. CASE emptyDirDelete
  BY <1>3, Zenon DEF emptyDirDelete, LogicError
<1>4. CASE dirDelete
  <2>1. Followed = DOMAIN pages
    BY <1>4, AllFollowed, Zenon DEF IInv, dirDelete, rootPage
  <2>2. Forget(DOMAIN ownerNode)
    <3>1. {k \in DOMAIN ownerNode : \E p \in Followed : k \in pages[p].indexes} = DOMAIN ownerNode
      BY <2>1, Zenon DEF IInv, HintsFound
    <3> QED BY <1>4, <3>1, Zenon DEF dirDelete
  <2> QED BY <2>2, Zenon DEF Forget, Without
<1> QED BY <1>1, <1>2, <1>3, <1>4, Zenon DEF Next

\* However dirAdd, dirRemove and dirDelete split, unlink and trim pages, for any
\* page size: the keys listed are a set that they change one key at a time, and
\* that dirDelete empties.
THEOREM DirectoryIsASet == Spec => ImplementsEntrySet
<1>1. Init => Entries!Init
  BY InitIInv, ListedAreOwned, Zenon DEF Entries!Init
<1> DEFINE Agree == Listed = DOMAIN ownerNode
<1>2. IInv => Agree
  BY ListedAreOwned, Zenon
<1>3. IInv /\ Agree /\ Agree' /\ [Next]_vars => [Entries!Next]_Listed
  <2> SUFFICES ASSUME IInv, Listed = DOMAIN ownerNode, Listed' = DOMAIN ownerNode', [Next]_vars
               PROVE  [Entries!Next]_Listed
    BY Zenon
  <2>1. CASE Next
    <3>1. \/ \E key \in Keys : key \notin Listed /\ Listed' = Listed \cup {key}
          \/ \E key \in Keys : key \in Listed /\ Listed' = Listed \ {key}
          \/ Listed' = Listed
          \/ Listed' = {}
      BY <2>1, OwnedStep, Zenon
    <3> QED BY <3>1, Zenon DEF Entries!Next, Entries!Insert, Entries!Remove, Entries!Delete
  <2>2. CASE UNCHANGED vars
    BY <2>2, Zenon DEF vars, Listed
  <2> QED BY <2>1, <2>2, Zenon
<1> HIDE DEF Agree
<1> QED BY <1>1, <1>2, <1>3, IInvHolds, PTL DEF Spec, ImplementsEntrySet, Entries!Spec
=============================================================================
