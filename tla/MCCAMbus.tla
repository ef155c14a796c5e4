------------------------------ MODULE MCCAMbus ------------------------------
(* Instance of CAMbus for TLC. *)
EXTENDS CAMbus, TLC

CONSTANTS k1, k2, v, float, s1, s2, r1, r2

ThreeEvents == {1, 2, 3}
TwoKeys == {k1, k2}
TwoValues == {v, float}
Floats == {float}
TwoSends == {s1, s2}
TwoReceives == {r1, r2}

(* With every patch, events that only local clients hand in; and over the  *)
(* bus one event that sets a key, one that deletes it, one with a float.   *)
AllScenarios ==
    [remote : {{}}, patch : [ThreeEvents -> Patch]]
        \cup [remote : {ThreeEvents}, patch : {<<k1 :> v, k1 :> Null, k2 :> float>>}]
=============================================================================
