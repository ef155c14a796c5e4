------------------------------- MODULE Replay -------------------------------
(***************************************************************************)
(* replay_verified_state (src/migi/replay.py) once it knows which events   *)
(* have an executed receipt with Tre Logic +1: the state is the fold of    *)
(* their patches in the order of list_kind, ORDER BY created_at, object_id *)
(* - which for events is the text order of (occurred_at, event_id), both   *)
(* given by the sender; nothing makes occurred_at a date.                  *)
(*                                                                         *)
(* An event is the natural number of its place in that order.              *)
(***************************************************************************)
EXTENDS Naturals, FiniteSets, SequencesExt, FiniteSetsExt

CONSTANTS
    Event,          \* the events, a finite set of numbers
    Key,            \* the keys a patch may name
    Value,          \* what a key may be set to
    FloatValue,     \* the values with a float somewhere inside
    Null            \* JSON null: the key is deleted

ASSUME EventAssumption == Event \subseteq Nat /\ IsFiniteSet(Event)
ASSUME ValueAssumption == FloatValue \subseteq Value /\ Null \notin Value

(* A JSON object: some keys, each with a value or null. *)
Patch == UNION {[keys -> Value \cup {Null}] : keys \in SUBSET Key}
State == UNION {[keys -> Value] : keys \in SUBSET Key}

EmptyState == [k \in {} |-> Null]

(* The inner loop. The keys of a patch are distinct, so their sorted order *)
(* decides nothing.                                                        *)
ApplyPatch(state, patch) ==
    LET deleted == {k \in DOMAIN patch : patch[k] = Null}
        written == DOMAIN patch \ deleted
    IN  [k \in (DOMAIN state \ deleted) \cup written |->
            IF k \in written THEN patch[k] ELSE state[k]]

(* Mutant of Materialize: newest first. *)
MaterializeNewestFirst(patch, applied) ==
    FoldLeft(LAMBDA state, e : ApplyPatch(state, patch[e]),
             EmptyState,
             SetToSortSeq(applied, >))

(* The outer loop: the state before the event in each place. *)
StateBefore(patch, applied) ==
    LET before[n \in Nat] ==
            IF n = 0 THEN EmptyState
            ELSE IF n - 1 \in applied THEN ApplyPatch(before[n - 1], patch[n - 1])
            ELSE before[n - 1]
    IN  before

Materialize(patch, applied) == StateBefore(patch, applied)[Max(applied \cup {0}) + 1]

(* canonical_json_bytes, which the state hash needs, raises TypeError when *)
(* a float is anywhere in the state.                                       *)
Hashable(state) == \A k \in DOMAIN state : state[k] \notin FloatValue
=============================================================================
