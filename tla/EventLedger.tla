---------------------------- MODULE EventLedger -----------------------------
(***************************************************************************)
(* What a Genesis node promises about state events, said without stores,   *)
(* receipts or threads. An event that the node has accepted is decided at  *)
(* most once: its receipt says that it was executed, or that it was        *)
(* withheld (authority held or denied it), or there is none and the event  *)
(* is abandoned (its handler ended first). Whatever was decided stays, and *)
(* only an event with authority is executed. What was executed shows in    *)
(* the replayed state as long as the record is readable; it may cease to   *)
(* be so when a receipt is added, and then it never is again.              *)
(***************************************************************************)
CONSTANT Event

VARIABLES
    fate,           \* what has become of each event
    authorized,     \* the events that authority has allowed
    readable        \* replays accept the record

ledgerVars == <<fate, authorized, readable>>

Fate == {"unseen", "pending", "executed", "withheld", "abandoned"}

LedgerTypeOK ==
    /\ fate \in [Event -> Fate]
    /\ authorized \subseteq Event
    /\ readable \in BOOLEAN

LedgerInit ==
    /\ fate = [e \in Event |-> "unseen"]
    /\ authorized = {}
    /\ readable = TRUE

Accept(e) ==
    /\ fate[e] = "unseen"
    /\ fate' = [fate EXCEPT ![e] = "pending"]
    /\ UNCHANGED <<authorized, readable>>

Authorize(e) ==
    /\ fate[e] = "pending"
    /\ authorized' = authorized \cup {e}
    /\ UNCHANGED <<fate, readable>>

(* A receipt is added to the record. *)
Receipted == readable' \in {readable, FALSE} /\ UNCHANGED authorized

Execute(e) ==
    /\ fate[e] = "pending"
    /\ e \in authorized
    /\ fate' = [fate EXCEPT ![e] = "executed"]
    /\ Receipted

Withhold(e) ==
    /\ fate[e] = "pending"
    /\ e \notin authorized
    /\ fate' = [fate EXCEPT ![e] = "withheld"]
    /\ Receipted

(* The receipt of something else. *)
ReceiptOther == Receipted /\ UNCHANGED fate

Abandon(e) ==
    /\ fate[e] = "pending"
    /\ fate' = [fate EXCEPT ![e] = "abandoned"]
    /\ UNCHANGED <<authorized, readable>>

LedgerNext ==
    \/ \E e \in Event :
          Accept(e) \/ Authorize(e) \/ Execute(e) \/ Withhold(e) \/ Abandon(e)
    \/ ReceiptOther

LedgerSpec == LedgerInit /\ [][LedgerNext]_ledgerVars
=============================================================================
