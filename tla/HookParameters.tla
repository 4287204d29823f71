--------------------------- MODULE HookParameters ---------------------------
(***************************************************************************)
(* The parameters of one installed hook: the definition carries defaults,  *)
(* the account's slot stores only what differs from them, and the hook     *)
(* reads the combination.  Each update names some parameters and leaves    *)
(* the others alone; a name comes with a value, an empty value (EV) or no  *)
(* value (AV).                                                             *)
(***************************************************************************)
EXTENDS Naturals, FiniteSets

CONSTANTS
    Name,           \* parameter names
    Value,          \* non-empty parameter values
    Blank,          \* the empty value (EV)
    Absent,         \* no value (AV), and the result DOESNT_EXIST
    MaxParameters   \* parameters one hook may store

ASSUME ParameterAssumption ==
    /\ MaxParameters \in Nat
    /\ IsFiniteSet(Name)
    /\ Blank # Absent
    /\ Blank \notin Value /\ Absent \notin Value

VARIABLES
    installed,  \* does the slot hold the hook
    default,    \* sfHookParameters of the definition
    custom,     \* sfHookParameters of the slot
    asked       \* what the account last asked for, by name: history only

vars == <<installed, default, custom, asked>>

Stored == Value \cup {Blank}
NoParameters == [n \in {} |-> Blank]

Init ==
    /\ installed = FALSE
    /\ default = NoParameters
    /\ custom = NoParameters
    /\ asked = [n \in Name |-> Absent]

\* The parameters a transaction may name: validateHookParams.
ParameterSets(V) ==
    UNION {[N -> V] : N \in {N \in SUBSET Name : Cardinality(N) <= MaxParameters}}

Overridden(old, new) ==
    [n \in DOMAIN old \cup DOMAIN new |->
        IF n \in DOMAIN new THEN new[n] ELSE old[n]]

\* Parameters that say nothing beyond the defaults d: equal to the default,
\* reset to it, or blanking a parameter that has none.
RedundantBlanks(d, p) ==
    {n \in DOMAIN p :
        p[n] \in {Absent, Blank} \/ (n \in DOMAIN d /\ d[n] = p[n])}

OnlyResets(d, p) == {n \in DOMAIN p : p[n] = Absent}

Redundant(d, p) ==
    {n \in DOMAIN p :
        \/ p[n] = Absent
        \/ n \in DOMAIN d /\ d[n] = p[n]
        \/ n \notin DOMAIN d /\ p[n] = Blank}

Merged(d, old, new) ==
    LET p == Overridden(old, new)
    IN  [n \in DOMAIN p \ Redundant(d, p) |-> p[n]]

TooMany(d, old, new) == Cardinality(DOMAIN Merged(d, old, new)) > MaxParameters

\* The account creates the hook: its transaction's parameters are the defaults.
Create ==
    /\ ~installed
    /\ installed' = TRUE
    /\ default' \in ParameterSets(Stored)
    /\ custom' = NoParameters
    /\ asked' = [n \in Name |-> Absent]

\* The account installs a definition that is already on the ledger.
Install ==
    /\ ~installed
    /\ installed' = TRUE
    /\ default' \in ParameterSets(Stored)
    /\ \E new \in ParameterSets(Stored \cup {Absent}) :
        /\ custom' = Merged(default', NoParameters, new)
        /\ asked' = Overridden([n \in Name |-> Absent], new)

\* An update names some parameters, perhaps none.  Too many in the result are
\* tecINTERNAL: nothing changes.
updateHookParameters(new) ==
    /\ installed
    /\ IF TooMany(default, custom, new)
       THEN UNCHANGED <<custom, asked>>
       ELSE /\ custom' = Merged(default, custom, new)
            /\ asked' = Overridden(asked, new)
    /\ UNCHANGED <<installed, default>>

\* An empty array deletes the parameters.
ClearParameters ==
    /\ installed
    /\ custom' = NoParameters
    /\ asked' = [n \in Name |-> Absent]
    /\ UNCHANGED <<installed, default>>

Delete ==
    /\ installed
    /\ installed' = FALSE
    /\ default' = NoParameters
    /\ custom' = NoParameters
    /\ asked' = [n \in Name |-> Absent]

Next ==
    \/ Create \/ Install \/ ClearParameters \/ Delete
    \/ \E new \in ParameterSets(Stored \cup {Absent}) : updateHookParameters(new)

Spec == Init /\ [][Next]_vars

----------------------------------------------------------------------------
(* What the running hook sees.                                             *)

gatherHookParameters == Overridden(default, custom)

hook_param(n) ==
    IF n \in DOMAIN gatherHookParameters /\ gatherHookParameters[n] # Blank
    THEN gatherHookParameters[n]
    ELSE Absent

----------------------------------------------------------------------------
(* Properties.                                                             *)

DefaultOf(n) ==
    IF n \in DOMAIN default /\ default[n] # Blank THEN default[n] ELSE Absent

\* After any sequence of updates the hook reads, for every name, what the
\* account last asked for: a value, nothing (EV), or the default (AV), although
\* the slot forgets whatever agrees with the defaults (SetHook.cpp:941 "they can
\* come in three flavours").
ReadsWhatWasAsked ==
    installed => \A n \in Name :
        hook_param(n) = CASE asked[n] = Absent -> DefaultOf(n)
                          [] asked[n] = Blank -> Absent
                          [] OTHER -> asked[n]

\* The slot, and with it the reserve of the account, holds nothing redundant: no
\* name without a value, no value that equals the default and no blank without a
\* default to hide; and no more than the limit, however many updates that each
\* stay below it went before (SetHook.cpp:1029).
NothingRedundant ==
    /\ Cardinality(DOMAIN custom) <= MaxParameters
    /\ \A n \in DOMAIN custom :
            /\ custom[n] \in Stored
            /\ n \in DOMAIN default => custom[n] # default[n]
            /\ n \notin DOMAIN default => custom[n] # Blank
=============================================================================
