----------------------------- MODULE MCSetHook -----------------------------
(* Instances of SetHook for TLC.                                           *)
EXTENDS SetHook, TLC

SharedSymmetry == Permutations(Account) \cup Permutations(Hash)
                  \cup Permutations(Namespace)
=============================================================================
