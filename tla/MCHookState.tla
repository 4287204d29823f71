---------------------------- MODULE MCHookState ----------------------------
(* Instances of HookState for TLC.  Every account lets the hooks of the     *)
(* others write to one namespace and keeps the rest to itself.             *)
EXTENDS HookState, TLC

CONSTANT OpenNamespace

GrantOpen == Account \X {OpenNamespace} \X Account

Symmetry == Permutations(Account) \cup Permutations(Namespace \ {OpenNamespace})
            \cup Permutations(Key)
=============================================================================
