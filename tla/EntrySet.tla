------------------------------ MODULE EntrySet ------------------------------
(***************************************************************************)
(* What a directory promises: a set of entries.  Whoever uses it thinks of *)
(* no pages: an operation on one entry leaves the others alone, and        *)
(* deleting the directory leaves nothing.                                  *)
(***************************************************************************)
CONSTANT Keys

VARIABLE entries

Init == entries \in SUBSET Keys

Insert(key) == key \notin entries /\ entries' = entries \cup {key}

Remove(key) == key \in entries /\ entries' = entries \ {key}

Delete == entries' = {}

Next == (\E key \in Keys : Insert(key) \/ Remove(key)) \/ Delete

Spec == Init /\ [][Next]_entries
=============================================================================
