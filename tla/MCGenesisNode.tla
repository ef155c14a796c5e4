--------------------------- MODULE MCGenesisNode ----------------------------
(* Instances of GenesisNode for TLC. *)
EXTENDS GenesisNode, TLC

CONSTANTS r1, r2, r3, k1, v1, v2, float, p1, p2, c1, c2, q1

TwoRuns == {r1, r2}
ThreeRuns == {r1, r2, r3}

RunSymmetry == Permutations(ThreeRuns)

(* Events 1 and 3 set a key, event 2 deletes it, event 4 sets it to a      *)
(* float, event 5 is malformed.                                            *)
Events == 1 .. 5
GoodEvents == 1 .. 4
Patches == <<k1 :> v1, k1 :> Null, k1 :> v2, k1 :> float, k1 :> v1>>
TwoEvents == {1, 2}
TwoPatches == <<k1 :> v1, k1 :> Null>>
Keys == {k1}
Values == {v1, v2, float}
Floats == {float}

Patching(e, scope) == [op |-> "state.patch", event |-> e, scope |-> scope]
Inspecting(p, scope) == [op |-> "artifact.inspect", path |-> p, scope |-> scope]
Replaying == [op |-> "state.replay"]

RecallingClaim == [op |-> "claim.recall", claim |-> q1]
RecallingPath == [op |-> "artifact.recall", path |-> p1]

Qualifying(scope) == [op |-> "claim.qualify", claim |-> q1, scope |-> scope]

(* Deliveries of three events, one of them with and without write scope,   *)
(* and a reader.                                                           *)
PatchRequests ==
    {Patching(1, "local.state.write"), Patching(1, "local.read"),
     Patching(2, "private.local.state.write"), Patching(3, "local.state.write"),
     Replaying}

(* Patches that may leave a float behind. *)
FloatPatches ==
    {Patching(1, "local.state.write"), Patching(4, "local.state.write")}

(* Inspections inside and outside the root, beside a claim, two events and *)
(* recalls.                                                                *)
FileRequests ==
    {Inspecting(p1, "local.read"), Inspecting(p2, "local.read"),
     Qualifying("local.reason"), Patching(1, "local.state.write"),
     Patching(2, "local.state.write"), RecallingClaim, RecallingPath}

(* Calls of every kind that writes, one of them held, one malformed, and   *)
(* replays.                                                                *)
MixedRequests ==
    {Patching(1, "local.state.write"), Patching(4, "local.state.write"),
     Patching(5, "local.state.write"), Inspecting(p1, "local.read"), Replaying,
     Qualifying("local.reason"), Qualifying("none")}

Claims == {q1}

OnePath == {p1}
TwoPaths == {p1, p2}
TwoContents == {c1, c2}

(* A place for the artifact of each run. *)
TwoPlaces == 1 .. 2
ThreePlaces == 1 .. 3
=============================================================================
