---------------------------- MODULE MCEpistemics ----------------------------
(* Instance of Epistemics for TLC. *)
EXTENDS Epistemics

(* Signals of 0, 1/2 and 1; thresholds of these, one too low, one too high.*)
AllThresholds == -1 .. 3

Item(d, c, r, q) ==
    [direction |-> d, confidence |-> c, reliability |-> r, provenance_quality |-> q]

(* Every direction with weights 0, 1/8, 1/4, 1/2 and 1; two that are out   *)
(* of range.                                                               *)
SomeItems ==
    {Item(d, c, 2, 2) : d \in -2 .. 2, c \in 0 .. 2}
      \cup {Item(d, 1, 1, q) : d \in -2 .. 2, q \in 1 .. 2}
      \cup {Item(3, 2, 2, 2), Item(1, 2, -1, 2)}

(* Profiles that one bound or another of the requirements exceeds. *)
SomeProfiles ==
    [resolution_level : {1}, budget_units : {-1, 1}, observables : {{}, {"o1", "o2"}},
     methods : {{"m1"}}, cutoff : {0, 1}]

SomeRequirements ==
    [resolution_level : {1, 2}, cost_units : {-1, 1, 2}, observables : {{"o1"}},
     method : {"m1", "m2"}, regime_value : {-2, 1}]

TwoClasses == {"observed", "simulated"}
=============================================================================
