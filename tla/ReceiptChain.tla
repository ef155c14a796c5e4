---------------------------- MODULE ReceiptChain ----------------------------
(***************************************************************************)
(* The receipt_chain table of GenesisStore (src/migi/storage.py) and the   *)
(* handlers that append to it. A handler run issues at most one receipt,   *)
(* and issuing it takes three SQLite sessions, each of them a transaction  *)
(* of its own:                                                             *)
(*   _make_receipt    reads the newest hash into previous_receipt_ref,     *)
(*   append_receipt   reads the newest hash again and compares, and then   *)
(*                    inserts the row in another session.                  *)
(* Nothing holds a lock from one session to the next, so the runs of a     *)
(* thread pool (src/migi/api.py) or of several processes interleave        *)
(* between them. Serial restricts the system to one append at a time, the  *)
(* way the command line and the tests use a database.                      *)
(*                                                                         *)
(* A digest is modelled by what it commits to. SHA-256 over the previous   *)
(* digest and the payload is taken to be injective, so a digest is the     *)
(* lineage of receipts that leads to it. The payload's                     *)
(* previous_receipt_ref needs no place in it: wherever a digest is         *)
(* computed it has just been found equal to the previous digest.           *)
(***************************************************************************)
EXTENDS Naturals, Sequences

CONSTANTS
    Receipt,    \* the receipts ever issued: new_id("receipt") never repeats
    Serial,     \* TRUE: no two appends overlap
    Faults      \* TRUE: a run may die, or its session fail, between two steps

ASSUME SerialAssumption == Serial \in BOOLEAN
ASSUME FaultsAssumption == Faults \in BOOLEAN

VARIABLES
    chain,      \* the rows of receipt_chain in the order of their sequence
    pc,         \* how far each receipt has come
    ref,        \* previous_receipt_ref of each receipt made
    prev        \* the local variable previous of append_receipt

chainVars == <<chain, pc, ref, prev>>

Hash == Seq(Receipt)
NoHash == <<>>
ChainedHash(previous, receipt) == Append(previous, receipt)

(* The columns receipt_id, previous_receipt_hash and receipt_hash, and the *)
(* payload_json: what of it is hashed (receipt) and previous_receipt_ref.  *)
Row == [receipt_id : Receipt, receipt : Receipt, previous_receipt_ref : Hash,
        previous_receipt_hash : Hash, receipt_hash : Hash]

Phase == {"idle", "made", "checked", "appended", "refused", "failed"}

InFlight(r) == pc[r] \in {"made", "checked"}

-----------------------------------------------------------------------------
(* Reading and verifying rows. *)

HashOfRow(rows, i) == IF i = 0 THEN NoHash ELSE rows[i].receipt_hash

LatestReceiptHash == HashOfRow(chain, Len(chain))

(* Mutant of RowReason: the digest is not recomputed. *)
RowReasonNoDigest(rows, i) ==
    IF rows[i].previous_receipt_hash # HashOfRow(rows, i - 1)
      THEN "stored_previous_mismatch"
    ELSE IF rows[i].previous_receipt_ref # HashOfRow(rows, i - 1)
      THEN "payload_previous_mismatch"
    ELSE "none"

(* What verify_chain finds at row i when every row before it passed. *)
RowReason(rows, i) ==
    LET previous == HashOfRow(rows, i - 1)
        row == rows[i]
    IN  IF row.previous_receipt_hash # previous
          THEN "stored_previous_mismatch"
        ELSE IF row.previous_receipt_ref # previous
          THEN "payload_previous_mismatch"
        ELSE IF row.receipt_hash # ChainedHash(previous, row.receipt)
          THEN "receipt_hash_mismatch"
        ELSE "none"

BadRows(rows) == {i \in DOMAIN rows : RowReason(rows, i) # "none"}

(* Mutant of VerifyChain: only the newest row is looked at. *)
VerifyChainLastRow(rows) ==
    LET n == Len(rows)
        valid == rows = <<>> \/ RowReason(rows, n) = "none"
    IN  [valid |-> valid, checked |-> IF valid THEN n ELSE n - 1,
         reason |-> IF valid THEN "none" ELSE RowReason(rows, n),
         head |-> IF valid THEN HashOfRow(rows, n) ELSE NoHash]

(* Mutant of VerifyChain: the row that does not fit is counted as checked. *)
VerifyChainCountsBadRow(rows) ==
    LET bad == {i \in BadRows(rows) : \A j \in BadRows(rows) : i <= j}
    IN  [valid |-> bad = {},
         checked |-> IF bad = {} THEN Len(rows) ELSE CHOOSE i \in bad : TRUE,
         reason |-> "none",
         head |-> HashOfRow(rows, Len(rows))]

(* verify_chain: it stops at the first row that does not fit. *)
VerifyChain(rows) ==
    IF BadRows(rows) = {}
    THEN [valid |-> TRUE, checked |-> Len(rows), reason |-> "none",
          head |-> HashOfRow(rows, Len(rows))]
    ELSE LET i == CHOOSE i \in BadRows(rows) :
                    \A j \in BadRows(rows) : i <= j
         IN  [valid |-> FALSE, checked |-> i - 1,
              reason |-> RowReason(rows, i), head |-> NoHash]

-----------------------------------------------------------------------------
ChainInit ==
    /\ chain = <<>>
    /\ pc = [r \in Receipt |-> "idle"]
    /\ ref = [r \in Receipt |-> NoHash]
    /\ prev = [r \in Receipt |-> NoHash]

(* _make_receipt: the payload is complete, with the hash that is newest now. *)
MakeReceipt(r) ==
    /\ pc[r] = "idle"
    /\ Serial => \A q \in Receipt : ~InFlight(q)
    /\ pc' = [pc EXCEPT ![r] = "made"]
    /\ ref' = [ref EXCEPT ![r] = LatestReceiptHash]
    /\ UNCHANGED <<chain, prev>>

(* Mutant of CheckHead: previous does not get the hash that was read. *)
CheckHeadForgetsHash(r) ==
    /\ pc[r] = "made"
    /\ ref[r] = LatestReceiptHash
    /\ pc' = [pc EXCEPT ![r] = "checked"]
    /\ UNCHANGED <<chain, ref, prev>>

(* append_receipt up to its insert: the newest hash is still the one the   *)
(* payload names.                                                          *)
CheckHead(r) ==
    /\ pc[r] = "made"
    /\ ref[r] = LatestReceiptHash
    /\ pc' = [pc EXCEPT ![r] = "checked"]
    /\ prev' = [prev EXCEPT ![r] = LatestReceiptHash]
    /\ UNCHANGED <<chain, ref>>

(* Mutant of RefuseReceipt: it refuses without comparing. *)
RefuseReceiptAlways(r) ==
    /\ pc[r] = "made"
    /\ pc' = [pc EXCEPT ![r] = "refused"]
    /\ UNCHANGED <<chain, ref, prev>>

(* append_receipt raises ValueError: another receipt came in between. *)
RefuseReceipt(r) ==
    /\ pc[r] = "made"
    /\ ref[r] # LatestReceiptHash
    /\ pc' = [pc EXCEPT ![r] = "refused"]
    /\ UNCHANGED <<chain, ref, prev>>

(* The row that append_receipt builds from a payload and its previous. *)
RowOf(r, previous) ==
    [receipt_id |-> r, receipt |-> r, previous_receipt_ref |-> ref[r],
     previous_receipt_hash |-> previous, receipt_hash |-> ChainedHash(previous, r)]

(* Mutant of InsertReceipt: a column is left out. *)
InsertReceiptNoColumn(r) ==
    /\ pc[r] = "checked"
    /\ chain' = Append(chain, [receipt_id |-> r, receipt |-> r,
                               previous_receipt_ref |-> ref[r],
                               receipt_hash |-> ChainedHash(prev[r], r)])
    /\ pc' = [pc EXCEPT ![r] = "appended"]
    /\ UNCHANGED <<ref, prev>>

(* Mutant of InsertReceipt: the column and the digest take the newest hash *)
(* of the moment of the insert, the payload keeps the older one.           *)
InsertReceiptReadsAgain(r) ==
    /\ pc[r] = "checked"
    /\ chain' = Append(chain, RowOf(r, LatestReceiptHash))
    /\ pc' = [pc EXCEPT ![r] = "appended"]
    /\ UNCHANGED <<ref, prev>>

(* Mutant of InsertReceipt: INSERT OR REPLACE over a row with the same     *)
(* previous_receipt_hash.                                                  *)
InsertReceiptReplaces(r) ==
    /\ pc[r] = "checked"
    /\ LET row == RowOf(r, prev[r])
           rivals == {i \in DOMAIN chain : chain[i].previous_receipt_hash = prev[r]}
       IN  chain' = IF rivals = {} THEN Append(chain, row)
                    ELSE [i \in DOMAIN chain |-> IF i \in rivals THEN row ELSE chain[i]]
    /\ pc' = [pc EXCEPT ![r] = "appended"]
    /\ UNCHANGED <<ref, prev>>

(* The insert. The head may have moved since the check, and no constraint  *)
(* of the table notices: receipt_id and receipt_hash are UNIQUE, which new *)
(* ids satisfy, and previous_receipt_hash is not.                          *)
InsertReceipt(r) ==
    /\ pc[r] = "checked"
    /\ chain' = Append(chain, RowOf(r, prev[r]))
    /\ pc' = [pc EXCEPT ![r] = "appended"]
    /\ UNCHANGED <<ref, prev>>

(* Mutant of LoseReceipt: the row stays although the session failed. *)
LoseReceiptKeepsRow(r) ==
    /\ Faults
    /\ InFlight(r)
    /\ pc' = [pc EXCEPT ![r] = "failed"]
    /\ chain' = Append(chain, RowOf(r, ref[r]))
    /\ UNCHANGED <<ref, prev>>

(* The process dies or a session raises before the insert has committed. *)
LoseReceipt(r) ==
    /\ Faults
    /\ InFlight(r)
    /\ pc' = [pc EXCEPT ![r] = "failed"]
    /\ UNCHANGED <<chain, ref, prev>>

ChainNext ==
    \E r \in Receipt :
        \/ MakeReceipt(r)
        \/ CheckHead(r)
        \/ RefuseReceipt(r)
        \/ InsertReceipt(r)
        \/ LoseReceipt(r)

ChainSpec == ChainInit /\ [][ChainNext]_chainVars

-----------------------------------------------------------------------------
(* Type invariant: the variables stay in the sets the code keeps them in. *)
ChainTypeOK ==
    /\ chain \in Seq(Row)
    /\ pc \in [Receipt -> Phase]
    /\ ref \in [Receipt -> Hash]
    /\ prev \in [Receipt -> Hash]

(* Every row is whole and extends the empty chain or an EARLIER row, even  *)
(* when runs interleave: payload, column and digest of a row agree. So the *)
(* rows form a tree, and the one defect verify_chain can meet in a         *)
(* database that only append_receipt wrote is a stored_previous_mismatch.  *)
(* (That the tree may fork is ChainValid's subject.)                       *)
Linkage ==
    \A i \in DOMAIN chain :
        /\ chain[i].previous_receipt_ref = chain[i].previous_receipt_hash
        /\ chain[i].receipt_hash =
              ChainedHash(chain[i].previous_receipt_hash, chain[i].receipt)
        /\ \E k \in 0 .. (i - 1) :
              chain[i].previous_receipt_hash = HashOfRow(chain, k)

(* A receipt is in the table exactly when its append returned, and then in *)
(* one row: no run is told that a receipt was refused which got in.        *)
AppendedOnce ==
    \A r \in Receipt :
        LET places == {i \in DOMAIN chain : chain[i].receipt = r}
        IN  IF pc[r] = "appended"
            THEN \E i \in places : places = {i}
            ELSE places = {}

(* A refusal is final: the head a refused receipt names is never again the *)
(* newest hash, so appending the same receipt once more could not succeed. *)
RefusalIsFinal ==
    \A r \in Receipt : pc[r] = "refused" => ref[r] # LatestReceiptHash

(* verify_chain accepts the table. It holds when appends do not overlap.   *)
ChainValid == VerifyChain(chain).valid

(* With one append at a time the check of append_receipt never fires.      *)
NeverRefused == \A r \in Receipt : pc[r] # "refused"

(* What verify_chain once vouched for it vouches for ever after: the count *)
(* of accepted rows never falls, and a reader's head stays in the table.   *)
VerifiedPrefixKept ==
    [][ /\ VerifyChain(chain).checked <= VerifyChain(chain').checked
        /\ SubSeq(chain', 1, Len(chain)) = chain ]_chainVars

(* A fork is for ever: once verify_chain rejects the table, every later    *)
(* verification gives the same answer, whatever is appended.               *)
ForkIsForever ==
    [][~VerifyChain(chain).valid => VerifyChain(chain') = VerifyChain(chain)]_chainVars

(* The log a reader of the head digest believes in, and what each issuer   *)
(* was told: the chain implements ChainLog when appends do not overlap.    *)
Log == INSTANCE ChainLog WITH
    log <- LatestReceiptHash,
    outcome <- [r \in Receipt |->
                  CASE pc[r] = "appended" -> "logged"
                    [] pc[r] \in {"refused", "failed"} -> "dropped"
                    [] OTHER -> "pending"]

(* The receipt table as a linear append-only log: each append extends the  *)
(* lineage the head digest commits to by exactly the receipt it was for.   *)
ImplementsChainLog == Log!LogSpec
=============================================================================
