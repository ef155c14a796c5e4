----------------------------- MODULE ChainAudit -----------------------------
(***************************************************************************)
(* What verify_chain (src/migi/storage.py) is for: a reader runs it over a *)
(* table that something else may have touched since the node wrote it      *)
(* (tests/test_genesis.py, test_receipt_tampering_is_detected, edits one   *)
(* payload). Here the node fills the table one append at a time, and then  *)
(* the table in the database file is damaged, once or several times:       *)
(* a column or the payload of a row changes, a row is lost, or two rows    *)
(* trade places.                                                           *)
(*                                                                         *)
(* verify_chain does not see the table but what receipts() makes of it,    *)
(* where a key of the payload hides the column of its name; and it takes   *)
(* three keys away before it computes a digest. A payload that the node    *)
(* wrote has none of the three, one in a damaged file may.                 *)
(***************************************************************************)
EXTENDS ReceiptChain, SequencesExt

CONSTANT Damages    \* how often the table is damaged at most (a bound)

ASSUME AuditAssumption == Serial /\ Damages \in Nat

VARIABLES
    file,       \* the table as it is in the file; chain is what the node wrote
    damages     \* how often it has been damaged

auditVars == <<chain, pc, ref, prev, file, damages>>

StrippedKeys == {"sequence", "receipt_hash", "previous_receipt_hash"}

(* A row and those of the stripped keys that its payload has. *)
FileRow == [row : Row, extra : UNION {[K -> Hash] : K \in SUBSET StrippedKeys}]

AsWritten(rows) == [i \in DOMAIN rows |-> [row |-> rows[i], extra |-> <<>>]]

(* receipts(): the payload's keys are spread over the columns. *)
Shown(stored, key, column) ==
    IF key \in DOMAIN stored.extra THEN stored.extra[key] ELSE column

Receipts(rows) ==
    [i \in DOMAIN rows |->
        [rows[i].row EXCEPT
            !.receipt_hash = Shown(rows[i], "receipt_hash", @),
            !.previous_receipt_hash = Shown(rows[i], "previous_receipt_hash", @)]]

Audit == VerifyChain(Receipts(file))

-----------------------------------------------------------------------------
AuditInit ==
    /\ ChainInit
    /\ file = <<>>
    /\ damages = 0

Work ==
    /\ damages = 0
    /\ ChainNext
    /\ file' = AsWritten(chain')
    /\ UNCHANGED damages

(* The table at rest ... *)
AtRest == damages < Damages /\ \A r \in Receipt : ~InFlight(r)

(* ... turns into another one. *)
Damage(rows) ==
    /\ rows # file
    /\ file' = rows
    /\ damages' = damages + 1
    /\ UNCHANGED chainVars

(* The hashes that an edit of row i may put anywhere: those that occur in  *)
(* the table, and the digest that the receipt r would have in that place.  *)
HashesAt(i, r) ==
    LET rows == Receipts(file)
    IN  {HashOfRow(rows, k) : k \in 0 .. Len(rows)} \cup {Append(HashOfRow(rows, i - 1), r)}

(* A column changes. *)
EditColumn ==
    /\ AtRest
    /\ \E i \in DOMAIN file, r \in Receipt :
          \/ Damage([file EXCEPT ![i].row.receipt_id = r])
          \/ \E h \in HashesAt(i, file[i].row.receipt) :
                \/ Damage([file EXCEPT ![i].row.previous_receipt_hash = h])
                \/ Damage([file EXCEPT ![i].row.receipt_hash = h])

(* The payload turns into any other, perhaps with stripped keys in it.     *)
(* (Nothing reads the value of sequence, so one value is enough.)          *)
EditPayload ==
    /\ AtRest
    /\ \E i \in DOMAIN file, r \in Receipt, K \in SUBSET StrippedKeys :
       \E h \in HashesAt(i, r), extra \in [K -> HashesAt(i, r)] :
          /\ "sequence" \in K => extra["sequence"] = NoHash
          /\ LET row == [file[i].row EXCEPT !.receipt = r, !.previous_receipt_ref = h]
             IN  Damage([file EXCEPT ![i] = [row |-> row, extra |-> extra]])

LoseRow ==
    /\ AtRest
    /\ \E i \in DOMAIN file : Damage(RemoveAt(file, i))

SwapRows ==
    /\ AtRest
    /\ \E i, j \in DOMAIN file :
          Damage([file EXCEPT ![i] = file[j], ![j] = file[i]])

AuditNext == Work \/ EditColumn \/ EditPayload \/ LoseRow \/ SwapRows

AuditSpec == AuditInit /\ [][AuditNext]_auditVars

-----------------------------------------------------------------------------
Hashed(rows) == [i \in DOMAIN rows |-> rows[i].receipt]

(* For a reader who has kept the node's head digest: however often the     *)
(* file was damaged, if verify_chain accepts the table and answers with    *)
(* that head, the receipts are those the node wrote, none missing, added   *)
(* or moved. (The column receipt_id, and the stripped keys of a payload,   *)
(* may still have changed: no digest commits to them.)                     *)
AuditFindsDamage ==
    Audit.valid /\ Audit.head = LatestReceiptHash =>
        Hashed(Receipts(file)) = Hashed(chain)

(* Without a head to compare with, after one damage: the receipts that     *)
(* verify_chain counts as checked are the node's, in its order, except     *)
(* that the last one counted may be another if its payload brings the      *)
(* digest along, as a key receipt_hash that receipts() puts before the     *)
(* column.                                                                 *)
AuditCountsIntactRows ==
    damages = 1 =>
        \A k \in 1 .. Audit.checked :
            \/ /\ k \in DOMAIN chain
               /\ file[k].row.receipt = chain[k].receipt
               /\ file[k].row.previous_receipt_ref = chain[k].previous_receipt_ref
            \/ k = Audit.checked /\ "receipt_hash" \in DOMAIN file[k].extra
=============================================================================
