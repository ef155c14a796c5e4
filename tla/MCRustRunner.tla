---------------------------- MODULE MCRustRunner ----------------------------
(* Instances of RustRunner for TLC. *)
EXTENDS RustRunner

CONSTANTS a, b, x

TwoCalls == {a, b}
CallsOneBroken == {a, x}
BrokenCalls == {x}
=============================================================================
