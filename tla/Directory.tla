----------------------------- MODULE Directory -----------------------------
(***************************************************************************)
(* The paged directories of the ledger (ApplyView::dirAdd, dirRemove,      *)
(* emptyDirDelete and dirDelete).  Owner directories, hook-state           *)
(* directories and the emitted-transaction directory are all of this kind. *)
(*                                                                         *)
(* A directory is a chain of pages.  Page 0 is the root; `next' and `prev' *)
(* link the pages in a ring through the root.  An object remembers, in its *)
(* sfOwnerNode field, the page number that dirAdd returned, and hands it   *)
(* back as a hint when it is removed: dirRemove looks at that page only.   *)
(*                                                                         *)
(* The order of the keys inside one page is abstracted away; `stamp' is a  *)
(* history variable that dates each insertion.                             *)
(***************************************************************************)
EXTENDS Naturals, FiniteSets

CONSTANTS
    Keys,               \* the ledger objects a directory may list
    dirNodeMaxEntries,  \* 32 in Protocol.h
    dirNodeMaxPages,    \* 262144 in Protocol.h
    MaxInserts          \* bound on the number of insertions in a behaviour

ASSUME DirectoryConstants ==
    /\ dirNodeMaxEntries \in Nat \ {0}
    /\ dirNodeMaxPages \in Nat \ {0}
    /\ MaxInserts \in Nat

VARIABLES
    pages,      \* page number -> the page; its domain is the existing pages
    ownerNode,  \* listed key -> the page number its object stores
    stamp,      \* listed key -> the time of its insertion (history)
    clock,      \* the number of insertions so far (history)
    fault       \* a LogicError was thrown

vars == <<pages, ownerNode, stamp, clock, fault>>

PageNumbers == 0 .. dirNodeMaxPages - 1
rootPage == 0
Page(indexes, next, prev) == [indexes |-> indexes, next |-> next, prev |-> prev]
Exists(p) == p \in DOMAIN pages

\* A function without some of its arguments, and with one more of them.
Without(f, S) == [x \in DOMAIN f \ S |-> f[x]]
With(f, a, v) == [x \in DOMAIN f \cup {a} |-> IF x = a THEN v ELSE f[x]]

TypeOK ==
    /\ DOMAIN pages \subseteq PageNumbers
    /\ pages \in [DOMAIN pages -> [indexes : SUBSET Keys, next : PageNumbers,
                                   prev : PageNumbers]]
    /\ DOMAIN ownerNode \subseteq Keys
    /\ ownerNode \in [DOMAIN ownerNode -> PageNumbers]
    /\ stamp \in [DOMAIN ownerNode -> Nat]
    /\ clock \in Nat
    /\ fault \in BOOLEAN

(***************************************************************************)
(* The pages in D form one ring in increasing order of page number: `next' *)
(* is the following page (the root after the last one), `prev' undoes it.  *)
(***************************************************************************)
Ring(D, next, prev) ==
    /\ D # {} => rootPage \in D
    /\ \A p \in D :
          /\ next[p] \in D /\ prev[next[p]] = p
          /\ prev[p] \in D /\ next[prev[p]] = p
          /\ \/ next[p] = rootPage /\ \A q \in D : q <= p
             \/ next[p] > p /\ \A q \in D : q <= p \/ next[p] <= q

Linked ==
    Ring(DOMAIN pages, [p \in DOMAIN pages |-> pages[p].next],
                       [p \in DOMAIN pages |-> pages[p].prev])

(***************************************************************************)
(* Initially there is no directory, or one in the state an older version   *)
(* of the code could leave: well linked, but with an empty last page.      *)
(***************************************************************************)
LegacyDirectory ==
    \E D \in SUBSET PageNumbers : \E next, prev \in [D -> D] :
        /\ D # {}
        /\ Ring(D, next, prev)
        /\ prev[rootPage] # rootPage
        /\ \E indexes \in [D -> SUBSET Keys] :
              /\ \A p \in D :
                    /\ Cardinality(indexes[p]) <= dirNodeMaxEntries
                    /\ indexes[p] = {} => p \in {rootPage, prev[rootPage]}
                    /\ \A q \in D \ {p} : indexes[p] \cap indexes[q] = {}
              /\ indexes[prev[rootPage]] = {}
              /\ pages = [p \in D |-> Page(indexes[p], next[p], prev[p])]

Listed == UNION {pages[p].indexes : p \in DOMAIN pages}

Init ==
    /\ \/ pages = [p \in {} |-> {}]
       \/ LegacyDirectory
    /\ ownerNode = [k \in Listed |-> CHOOSE p \in DOMAIN pages : k \in pages[p].indexes]
    /\ stamp = [k \in Listed |-> ownerNode[k]]
    /\ clock = dirNodeMaxPages
    /\ fault = FALSE

-----------------------------------------------------------------------------
(***************************************************************************)
(* dirAdd.  An object inserts itself once and keeps the page number.       *)
(***************************************************************************)
FirstFit == IF Cardinality(pages[rootPage].indexes) < dirNodeMaxEntries
            THEN rootPage ELSE pages[rootPage].prev

lastPage == pages[rootPage].prev

Remember(key, page) ==
    /\ ownerNode' = With(ownerNode, key, page)
    /\ stamp' = With(stamp, key, clock)
    /\ clock' = clock + 1

Fresh(key) == key \notin DOMAIN ownerNode /\ clock < dirNodeMaxPages + MaxInserts

LogicError ==
    /\ fault' = TRUE
    /\ UNCHANGED <<pages, ownerNode, stamp, clock>>

dirAddRoot(key) ==
    /\ Fresh(key) /\ ~Exists(rootPage)
    /\ pages' = With(pages, rootPage, Page({key}, rootPage, rootPage))
    /\ Remember(key, rootPage) /\ UNCHANGED fault

\* "Directory chain: root back-pointer broken.", "dirInsert: double insertion"
dirAddInPage(key) ==
    /\ Fresh(key) /\ Exists(rootPage)
    /\ Exists(lastPage) => Cardinality(pages[lastPage].indexes) < dirNodeMaxEntries
    /\ IF ~Exists(lastPage) \/ key \in pages[lastPage].indexes
       THEN LogicError
       ELSE /\ pages' = [pages EXCEPT ![lastPage].indexes = @ \cup {key}]
            /\ Remember(key, lastPage) /\ UNCHANGED fault

PageNumberLeftLate == lastPage + 1 <= dirNodeMaxPages

\* With no page number left the result is nullopt and nothing changes.
PageNumberLeft == lastPage + 1 < dirNodeMaxPages

dirAddNewPage(key) ==
    /\ Fresh(key) /\ Exists(rootPage) /\ Exists(lastPage)
    /\ Cardinality(pages[lastPage].indexes) >= dirNodeMaxEntries
    /\ PageNumberLeft
    /\ LET page == lastPage + 1
           linked == [[pages EXCEPT ![lastPage].next = page]
                             EXCEPT ![rootPage].prev = page]
       IN /\ pages' = With(linked, page, Page({key}, rootPage, lastPage))
          /\ Remember(key, page)
    /\ UNCHANGED fault

dirAdd(key) == dirAddRoot(key) \/ dirAddInPage(key) \/ dirAddNewPage(key)

(***************************************************************************)
(* dirRemove(directory, page, key, keepRoot) with the stored hint.         *)
(***************************************************************************)
Forget(keys) ==
    /\ ownerNode' = Without(ownerNode, keys)
    /\ stamp' = Without(stamp, keys)
    /\ UNCHANGED clock

\* The entry is found in the page its object names.
Removing(key) ==
    /\ key \in DOMAIN ownerNode
    /\ Exists(ownerNode[key])
    /\ key \in pages[ownerNode[key]].indexes

Rest(key) == pages[ownerNode[key]].indexes \ {key}

dirRemoveEntry(key) ==
    /\ Removing(key) /\ Rest(key) # {}
    /\ pages' = [pages EXCEPT ![ownerNode[key]].indexes = Rest(key)]
    /\ Forget({key}) /\ UNCHANGED fault

\* The root has one other page.  The two checks on the links of the root.
OneOtherPage == lastPage = pages[rootPage].next /\ lastPage # rootPage

RootLinksBroken ==
    \/ (pages[rootPage].next = rootPage) # (lastPage = rootPage)
    \/ OneOtherPage /\ ~Exists(lastPage)

EmptiedRootHalf(dropLast) ==
    IF dropLast THEN Page({}, rootPage, lastPage)
    ELSE Page({}, pages[rootPage].next, lastPage)

EmptiedRoot(dropLast) ==
    IF dropLast THEN Page({}, rootPage, rootPage)
    ELSE Page({}, pages[rootPage].next, lastPage)

\* The root became empty: drop an empty last page, then perhaps the root.
dirRemoveFromRoot(key, keepRoot) ==
    /\ Removing(key) /\ Rest(key) = {} /\ ownerNode[key] = rootPage
    /\ LET dropLast == OneOtherPage /\ pages[lastPage].indexes = {}
           trimmed == IF dropLast THEN Without(pages, {lastPage}) ELSE pages
           alone == dropLast \/ lastPage = rootPage
       IN IF RootLinksBroken THEN LogicError
          ELSE /\ pages' = IF alone /\ ~keepRoot
                           THEN Without(trimmed, {rootPage})
                           ELSE [trimmed EXCEPT ![rootPage] = EmptiedRoot(dropLast)]
               /\ Forget({key}) /\ UNCHANGED fault

UnlinkedOneWay(page) ==
    [Without(pages, {page}) EXCEPT ![pages[page].prev].next = pages[page].next]

Unlinked(page) ==
    [[Without(pages, {page}) EXCEPT ![pages[page].prev].next = pages[page].next]
                             EXCEPT ![pages[page].next].prev = pages[page].prev]

IsLast(ps, page) == page # rootPage /\ ps[page].next = rootPage

IsEmptyLast(ps, page) ==
    page # rootPage /\ ps[page].next = rootPage /\ ps[page].indexes = {}

\* Another page became empty: unlink it, drop a last page that was empty
\* already, then perhaps the root.
dirRemovePage(key, keepRoot) ==
    /\ Removing(key) /\ Rest(key) = {} /\ ownerNode[key] # rootPage
    /\ LET page == ownerNode[key]
           next == pages[page].next
           prev == pages[page].prev
           unlinked == Unlinked(page)
           dropNext == IsEmptyLast(unlinked, next)
           trimmed == IF dropNext
                      THEN [[Without(unlinked, {next}) EXCEPT ![prev].next = rootPage]
                                                       EXCEPT ![rootPage].prev = prev]
                      ELSE unlinked
           alone == (dropNext \/ next = rootPage) /\ prev = rootPage
       IN IF \/ next = page \/ prev = page \/ ~Exists(prev) \/ ~Exists(next)
             \/ dropNext /\ ~Exists(rootPage)
          THEN LogicError
          ELSE /\ pages' = IF ~keepRoot /\ alone /\ trimmed[rootPage].indexes = {}
                           THEN Without(trimmed, {rootPage})
                           ELSE trimmed
               /\ Forget({key}) /\ UNCHANGED fault

dirRemove(key, keepRoot) ==
    \/ dirRemoveEntry(key)
    \/ dirRemoveFromRoot(key, keepRoot)
    \/ dirRemovePage(key, keepRoot)

(***************************************************************************)
(* emptyDirDelete, when it returns true: the root is empty, and so is the  *)
(* other page if there is just one.  With more pages it returns true as    *)
(* well and leaves them all.                                               *)
(***************************************************************************)
emptyDirDelete ==
    /\ Exists(rootPage) /\ pages[rootPage].indexes = {}
    /\ IF RootLinksBroken THEN LogicError
       ELSE /\ OneOtherPage => pages[lastPage].indexes = {}
            /\ pages' = IF OneOtherPage \/ lastPage = rootPage
                        THEN Without(pages, {rootPage, lastPage})
                        ELSE pages
            /\ UNCHANGED <<ownerNode, stamp, clock, fault>>

(***************************************************************************)
(* dirDelete: erase the pages met by following `next' from the root; the   *)
(* callback removes every object listed in them.                           *)
(***************************************************************************)
RootOnly == {rootPage}

ClosedUnderNext(S) == \A p \in S : Exists(pages[p].next) => pages[p].next \in S

Followed ==
    {p \in DOMAIN pages :
        \A S \in SUBSET DOMAIN pages : rootPage \in S /\ ClosedUnderNext(S) => p \in S}

dirDelete ==
    /\ Exists(rootPage)
    /\ pages' = Without(pages, Followed)
    /\ Forget({k \in DOMAIN ownerNode : \E p \in Followed : k \in pages[p].indexes})
    /\ UNCHANGED fault

Next ==
    \/ \E key \in Keys : dirAdd(key)
    \/ \E key \in Keys, keepRoot \in BOOLEAN : dirRemove(key, keepRoot)
    \/ emptyDirDelete
    \/ dirDelete

Spec == Init /\ [][Next]_vars

-----------------------------------------------------------------------------
(***************************************************************************)
(* Properties.                                                             *)
(***************************************************************************)
\* The page number an object stores stays right however the pages around it
\* come and go, and nothing is listed without an object that stores it: the
\* "Unable to delete ... from owner" failures of every dirRemove caller do
\* not happen.
HintsSound ==
    /\ DOMAIN ownerNode = Listed
    /\ \A k \in DOMAIN ownerNode :
          Exists(ownerNode[k]) /\ k \in pages[ownerNode[k]].indexes

\* No LogicError of dirAdd, dirRemove or emptyDirDelete is ever thrown.
NoLogicError == ~fault

\* dirAppend's promise, "entries ... will be stored in order of insertion":
\* whatever was inserted earlier is in an earlier or the same page.
InsertionOrder ==
    \A k, l \in DOMAIN ownerNode :
        ownerNode[k] < ownerNode[l] => stamp[k] < stamp[l]

\* The pages implement a set of entries: dirAdd adds its key to what is listed,
\* dirRemove takes its key away, and neither loses or revives another one however
\* the pages are split, unlinked and trimmed; dirDelete leaves nothing listed.
Entries == INSTANCE EntrySet WITH entries <- Listed
ImplementsEntrySet == Entries!Spec

\* Deleting the whole directory (dirDelete) leaves no page and no object
\* behind: a directory without a root has neither.
NothingOrphaned == ~Exists(rootPage) => DOMAIN pages = {} /\ DOMAIN ownerNode = {}
=============================================================================
