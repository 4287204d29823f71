------------------------ MODULE HookParametersProofs ------------------------
(***************************************************************************)
(* A slot that stores only differences means what the account asked for,   *)
(* for every set of names and values and every limit.                      *)
(*                                                                         *)
(* The invariant says what the slot holds: of everything that was asked    *)
(* since the hook was installed, the part that says more than the defaults.*)
(***************************************************************************)
EXTENDS HookParameters, FiniteSetTheorems, TLAPS

ParamTypes ==
    /\ installed \in BOOLEAN
    /\ DOMAIN default \subseteq Name
    /\ \A n \in DOMAIN default : default[n] \in Stored
    /\ DOMAIN asked = Name
    /\ \A n \in Name : asked[n] \in Stored \cup {Absent}

\* c is what remains of the requests a once the defaults d are taken out.
Differences(d, a, c) ==
    /\ DOMAIN c = DOMAIN a \ Redundant(d, a)
    /\ \A n \in DOMAIN c : c[n] = a[n]

IInv ==
    /\ ParamTypes
    /\ Differences(default, asked, custom)
    /\ Cardinality(DOMAIN custom) <= MaxParameters
    /\ ~installed => custom = NoParameters /\ default = NoParameters

\* A merge keeps the differences: whatever it forgets, the defaults say.
LEMMA MergeKeeps ==
    ASSUME NEW d, NEW a, NEW c, NEW new, DOMAIN new \subseteq DOMAIN a,
           Differences(d, a, c)
    PROVE  Differences(d, Overridden(a, new), Merged(d, c, new))
<1> DEFINE b == Overridden(a, new)
           p == Overridden(c, new)
           m == Merged(d, c, new)
<1>1. DOMAIN b = DOMAIN a
      /\ \A n \in DOMAIN a : b[n] = IF n \in DOMAIN new THEN new[n] ELSE a[n]
  BY Zenon DEF Overridden
<1>2. DOMAIN p = DOMAIN c \cup DOMAIN new
      /\ \A n \in DOMAIN p : p[n] = IF n \in DOMAIN new THEN new[n] ELSE c[n]
  BY Zenon DEF Overridden
<1>3. DOMAIN m = DOMAIN p \ Redundant(d, p) /\ \A n \in DOMAIN m : m[n] = p[n]
  BY Zenon DEF Merged
<1>4. /\ DOMAIN c \subseteq DOMAIN a
      /\ \A n \in DOMAIN c : c[n] = a[n]
      /\ \A n \in DOMAIN a : n \in DOMAIN c <=> n \notin Redundant(d, a)
  BY Zenon DEF Differences
<1> HIDE DEF b, p, m
<1>5. \A n \in DOMAIN p : n \in DOMAIN b /\ p[n] = b[n]
  BY <1>1, <1>2, <1>4, Zenon
<1>6. \A n \in DOMAIN p : n \in Redundant(d, p) <=> n \in Redundant(d, b)
  BY <1>5, Zenon DEF Redundant
<1>7. ASSUME NEW n \in DOMAIN b, n \notin DOMAIN p PROVE n \in Redundant(d, b)
  <2>1. n \in DOMAIN a /\ n \notin DOMAIN new /\ n \notin DOMAIN c /\ b[n] = a[n]
    BY <1>1, <1>2, <1>7, Zenon
  <2>2. n \in Redundant(d, a)
    BY <1>4, <2>1, Zenon
  <2> QED
    BY <1>1, <2>1, <2>2, Zenon DEF Redundant
<1>8. DOMAIN m = DOMAIN b \ Redundant(d, b)
  BY <1>3, <1>5, <1>6, <1>7, Zenon
<1>9. \A n \in DOMAIN m : m[n] = b[n]
  BY <1>3, <1>5, Zenon
<1> QED
  BY <1>8, <1>9, Zenon DEF Differences, b, m

\* Without requests there is nothing to store.
LEMMA NothingAsked ==
    ASSUME NEW d
    PROVE  Differences(d, [n \in Name |-> Absent], NoParameters)
  BY Zenon DEF Differences, Redundant, NoParameters

LEMMA SetsOfParameters ==
    ASSUME NEW V, NEW new \in ParameterSets(V)
    PROVE  /\ DOMAIN new \subseteq Name /\ \A n \in DOMAIN new : new[n] \in V
           /\ IsFiniteSet(DOMAIN new) /\ Cardinality(DOMAIN new) <= MaxParameters
<1>1. PICK N \in SUBSET Name : Cardinality(N) <= MaxParameters /\ new \in [N -> V]
  BY Zenon DEF ParameterSets
<1> QED
  BY <1>1, FS_Subset, ParameterAssumption, Zenon

LEMMA NoneStored == DOMAIN NoParameters = {}
  BY Zenon DEF NoParameters

LEMMA EmptyWithinLimit == Cardinality(DOMAIN NoParameters) <= MaxParameters
  BY NoneStored, FS_EmptySet, ParameterAssumption

LEMMA InitIInv == Init => IInv
<1> SUFFICES ASSUME Init PROVE IInv
  BY Zenon
<1>1. ParamTypes
  <2>1. installed \in BOOLEAN
    BY Zenon DEF Init
  <2>2. DOMAIN default = {} /\ asked = [n \in Name |-> Absent]
    BY NoneStored, Zenon DEF Init
  <2> QED
    BY <2>1, <2>2, Zenon DEF ParamTypes
<1> QED
  BY <1>1, NothingAsked, EmptyWithinLimit, Zenon DEF Init, IInv

LEMMA NextIInv ==
    ASSUME IInv, [Next]_vars
    PROVE  IInv'
<1> DEFINE none == [n \in Name |-> Absent]
<1>1. CASE Create
  <2>1. default' \in ParameterSets(Stored)
    BY <1>1, Zenon DEF Create
  <2>2. ParamTypes'
    BY <1>1, <2>1, SetsOfParameters, Zenon DEF Create, ParamTypes
  <2> QED
    BY <1>1, <2>2, NothingAsked, EmptyWithinLimit, Zenon DEF Create, IInv
<1>2. CASE Install
  <2>1. PICK new \in ParameterSets(Stored \cup {Absent}) :
            /\ custom' = Merged(default', NoParameters, new)
            /\ asked' = Overridden(none, new)
    BY <1>2, Zenon DEF Install
  <2>2. installed' = TRUE /\ default' \in ParameterSets(Stored)
    BY <1>2, Zenon DEF Install
  <2>3. /\ DOMAIN new \subseteq Name
        /\ \A n \in DOMAIN new : new[n] \in Stored \cup {Absent}
        /\ IsFiniteSet(DOMAIN new) /\ Cardinality(DOMAIN new) <= MaxParameters
    BY SetsOfParameters, Zenon
  <2>4. ParamTypes'
    <3>1. DOMAIN asked' = Name /\ \A n \in Name : asked'[n] \in Stored \cup {Absent}
      BY <2>1, <2>3, Zenon DEF Overridden
    <3> QED
      BY <2>2, <3>1, SetsOfParameters, Zenon DEF ParamTypes
  <2>5. Differences(default', asked', custom')
    <3>1. DOMAIN none = Name /\ Differences(default', none, NoParameters)
      BY NothingAsked, Zenon
    <3> HIDE DEF none
    <3> QED
      BY <2>1, <2>3, <3>1, MergeKeeps, Zenon
  <2>6. DOMAIN custom' \subseteq DOMAIN new
    BY <2>1, Zenon DEF Merged, Overridden, NoParameters
  <2>7. Cardinality(DOMAIN custom') <= MaxParameters
    <3>1. IsFiniteSet(DOMAIN custom')
          /\ Cardinality(DOMAIN custom') <= Cardinality(DOMAIN new)
      BY <2>3, <2>6, FS_Subset, Zenon
    <3> QED
      BY <2>3, <3>1, FS_CardinalityType, ParameterAssumption
  <2> QED
    BY <2>2, <2>4, <2>5, <2>7, Zenon DEF IInv
<1>3. ASSUME NEW new \in ParameterSets(Stored \cup {Absent}),
             updateHookParameters(new)
      PROVE  IInv'
  <2>1. installed /\ installed' = installed /\ default' = default
    BY <1>3, Zenon DEF updateHookParameters
  <2>2. CASE TooMany(default, custom, new)
    BY <1>3, <2>1, <2>2 DEF updateHookParameters, IInv, ParamTypes
  <2>3. CASE ~TooMany(default, custom, new)
    <3>1. custom' = Merged(default, custom, new) /\ asked' = Overridden(asked, new)
      BY <1>3, <2>3, Zenon DEF updateHookParameters
    <3>2. /\ DOMAIN new \subseteq Name
          /\ \A n \in DOMAIN new : new[n] \in Stored \cup {Absent}
      BY SetsOfParameters, Zenon
    <3>3. ParamTypes'
      BY <2>1, <3>1, <3>2, Zenon DEF IInv, ParamTypes, Overridden
    <3>4. Differences(default', asked', custom')
      BY <2>1, <3>1, <3>2, MergeKeeps, Zenon DEF IInv, ParamTypes
    <3>5. Cardinality(DOMAIN custom') <= MaxParameters
      <4>1. DOMAIN custom' \subseteq Name
        BY <3>3, <3>4, Zenon DEF ParamTypes, Differences
      <4>2. Cardinality(DOMAIN custom') \in Nat
        BY <4>1, FS_Subset, FS_CardinalityType, ParameterAssumption, Zenon
      <4>3. ~(Cardinality(DOMAIN custom') > MaxParameters)
        BY <2>3, <3>1, Zenon DEF TooMany
      <4> QED
        BY <4>2, <4>3, ParameterAssumption
    <3> QED
      BY <2>1, <3>3, <3>4, <3>5, Zenon DEF IInv
  <2> QED
    BY <2>2, <2>3, Zenon
<1>4. CASE ClearParameters
  <2>1. ParamTypes'
    BY <1>4, Zenon DEF ClearParameters, IInv, ParamTypes
  <2> QED
    BY <1>4, <2>1, NothingAsked, EmptyWithinLimit, Zenon DEF ClearParameters, IInv
<1>5. CASE Delete
  <2>1. ParamTypes'
    <3>1. installed' \in BOOLEAN
      BY <1>5, Zenon DEF Delete
    <3>2. DOMAIN default' = {} /\ asked' = none
      BY <1>5, NoneStored, Zenon DEF Delete
    <3> QED
      BY <3>1, <3>2, Zenon DEF ParamTypes
  <2> QED
    BY <1>5, <2>1, NothingAsked, EmptyWithinLimit, Zenon DEF Delete, IInv
<1>6. CASE UNCHANGED vars
  BY <1>6, Zenon DEF vars, IInv, ParamTypes
<1> QED
  BY <1>1, <1>2, <1>3, <1>4, <1>5, <1>6, Zenon DEF Next

----------------------------------------------------------------------------
(* The results.                                                            *)

\* The inductive invariant of the parameters of a slot.
THEOREM IInvHolds == Spec => []IInv
  BY InitIInv, NextIInv, PTL DEF Spec

\* After any history of creates, installs, updates and clears the hook reads
\* what was last asked for (updateHookParameters and hook_param).
THEOREM HooksReadWhatWasAsked == Spec => []ReadsWhatWasAsked
<1>1. IInv => ReadsWhatWasAsked
  <2> SUFFICES ASSUME IInv, installed, NEW n \in Name
               PROVE  hook_param(n) = CASE asked[n] = Absent -> DefaultOf(n)
                                        [] asked[n] = Blank -> Absent
                                        [] OTHER -> asked[n]
    BY Zenon DEF ReadsWhatWasAsked
  <2> DEFINE g == gatherHookParameters
  <2>1. DOMAIN g = DOMAIN default \cup DOMAIN custom
        /\ \A k \in DOMAIN g : g[k] = IF k \in DOMAIN custom THEN custom[k] ELSE default[k]
    BY Zenon DEF gatherHookParameters, Overridden
  <2>2. /\ n \in DOMAIN custom <=> n \notin Redundant(default, asked)
        /\ n \in DOMAIN custom => custom[n] = asked[n]
        /\ n \in DOMAIN asked
    BY Zenon DEF IInv, ParamTypes, Differences
  <2>3. /\ n \in DOMAIN default => default[n] \in Stored
        /\ Blank # Absent /\ Absent \notin Stored
    BY ParameterAssumption, Zenon DEF IInv, ParamTypes, Stored
  <2>4. n \in Redundant(default, asked) <=>
            \/ asked[n] = Absent
            \/ n \in DOMAIN default /\ default[n] = asked[n]
            \/ n \notin DOMAIN default /\ asked[n] = Blank
    BY <2>2, Zenon DEF Redundant
  <2>5. hook_param(n) = IF n \in DOMAIN g /\ g[n] # Blank THEN g[n] ELSE Absent
    BY Zenon DEF hook_param
  <2> HIDE DEF g
  <2>6. CASE asked[n] = Absent
    BY <2>1, <2>2, <2>3, <2>4, <2>5, <2>6, Zenon DEF DefaultOf
  <2>7. CASE asked[n] = Blank
    BY <2>1, <2>2, <2>3, <2>4, <2>5, <2>7, Zenon
  <2>8. CASE asked[n] # Absent /\ asked[n] # Blank
    BY <2>1, <2>2, <2>3, <2>4, <2>5, <2>8, Zenon
  <2> QED
    BY <2>6, <2>7, <2>8, Zenon
<1> QED
  BY <1>1, IInvHolds, PTL

\* The slot stores nothing that the defaults already say, and never more than
\* the limit (the end of updateHookParameters).
THEOREM SlotStoresDifferences == Spec => []NothingRedundant
<1>1. IInv => NothingRedundant
  <2> SUFFICES ASSUME IInv, NEW n \in DOMAIN custom
               PROVE  /\ custom[n] \in Stored
                      /\ n \in DOMAIN default => custom[n] # default[n]
                      /\ n \notin DOMAIN default => custom[n] # Blank
    BY Zenon DEF NothingRedundant, IInv
  <2>1. n \in DOMAIN asked /\ n \notin Redundant(default, asked)
        /\ custom[n] = asked[n] /\ asked[n] \in Stored \cup {Absent}
    BY Zenon DEF IInv, ParamTypes, Differences
  <2> QED
    BY <2>1, Zenon DEF Redundant
<1> QED
  BY <1>1, IInvHolds, PTL

=============================================================================
