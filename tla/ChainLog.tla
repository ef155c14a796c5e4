------------------------------ MODULE ChainLog ------------------------------
(***************************************************************************)
(* What the receipt store promises its callers, said without rows, digests *)
(* or reads: "the append-only lineage store that connects one receipt to   *)
(* the next" (docs/architecture/internal-operating-projects.md:181).       *)
(*                                                                         *)
(* A receipt is either logged, at once and behind every receipt logged     *)
(* before it, or dropped; both are final.                                  *)
(***************************************************************************)
EXTENDS Sequences

CONSTANT Receipt

VARIABLES
    log,        \* the lineage: receipts in the order they were logged
    outcome     \* what each receipt's issuer was told

logVars == <<log, outcome>>

LogTypeOK ==
    /\ log \in Seq(Receipt)
    /\ outcome \in [Receipt -> {"pending", "logged", "dropped"}]

LogInit ==
    /\ log = <<>>
    /\ outcome = [r \in Receipt |-> "pending"]

(* The receipt becomes the newest element of the lineage. *)
Log(r) ==
    /\ outcome[r] = "pending"
    /\ log' = Append(log, r)
    /\ outcome' = [outcome EXCEPT ![r] = "logged"]

(* The receipt never gets in: its append was refused or its issuer died. *)
Drop(r) ==
    /\ outcome[r] = "pending"
    /\ outcome' = [outcome EXCEPT ![r] = "dropped"]
    /\ UNCHANGED log

LogNext == \E r \in Receipt : Log(r) \/ Drop(r)

LogSpec == LogInit /\ [][LogNext]_logVars
=============================================================================
