----------------------------- MODULE MCEmission -----------------------------
(* Emission on small instances. *)
EXTENDS Emission, TLC

Symmetry == Permutations(Node) \cup Permutations(Txn)
=============================================================================
