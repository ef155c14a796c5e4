-------------------------- MODULE ChainAuditProofs --------------------------
(***************************************************************************)
(* What holds of ChainAudit for every number of receipts and of damages:   *)
(* the head digest commits to the receipts, and one damage goes unnoticed  *)
(* only where no digest commits to what it changed.                        *)
(***************************************************************************)
EXTENDS ChainAudit, ReceiptChainProofs, SequenceTheorems

(* In a table that verify_chain accepts, the digest of a row is as long as *)
(* the rows that lead to it: no two rows have the same digest.             *)
LEMMA HashesAreLineages ==
    ASSUME NEW rows \in Seq(Row), BadRows(rows) = {}
    PROVE  \A k \in 0 .. Len(rows) : Len(HashOfRow(rows, k)) = k
<1> DEFINE Wrong == {k \in 0 .. Len(rows) : Len(HashOfRow(rows, k)) # k}
<1>1. SUFFICES ASSUME Wrong # {} PROVE FALSE
  OBVIOUS
<1>2. PICK k \in Wrong : \A j \in Wrong : k <= j
  <2>1. Wrong \subseteq Nat
    OBVIOUS
  <2> HIDE DEF Wrong
  <2> QED
    BY <1>1, <2>1, LeastElement
<1>3. k # 0
  BY <1>2 DEF HashOfRow, NoHash
<1>4. k \in DOMAIN rows /\ k - 1 \in 0 .. Len(rows) /\ k - 1 \notin Wrong
  BY <1>2, <1>3
<1>5. /\ HashOfRow(rows, k) = ChainedHash(HashOfRow(rows, k - 1), rows[k].receipt)
      /\ HashOfRow(rows, k - 1) \in Seq(Receipt)
  BY <1>3, <1>4, HashOfRowType DEF BadRows, RowReason, HashOfRow, Hash
<1> QED
  BY <1>2, <1>4, <1>5 DEF ChainedHash

(* Of rows that fit, each is the one its receipt and the row before make.  *)
LEMMA FittingRow ==
    ASSUME NEW rows \in Seq(Row), NEW i \in DOMAIN rows
    PROVE  RowReason(rows, i) = "none" <=>
              /\ rows[i].previous_receipt_hash = HashOfRow(rows, i - 1)
              /\ rows[i].previous_receipt_ref = HashOfRow(rows, i - 1)
              /\ rows[i].receipt_hash = ChainedHash(HashOfRow(rows, i - 1), rows[i].receipt)
BY DEF RowReason

(* Of such a table, the head digest is the receipts in their order.        *)
LEMMA HeadIsHashed ==
    ASSUME NEW rows \in Seq(Row), BadRows(rows) = {}
    PROVE  HashOfRow(rows, Len(rows)) = Hashed(rows)
<1> DEFINE Right(k) == \A j \in 1 .. k : HashOfRow(rows, k)[j] = rows[j].receipt
           Wrong == {k \in 0 .. Len(rows) : ~Right(k)}
<1>1. ASSUME Wrong # {} PROVE FALSE
  <2>1. PICK k \in Wrong : \A j \in Wrong : k <= j
    <3>1. Wrong \subseteq Nat
      OBVIOUS
    <3> HIDE DEF Wrong
    <3> QED
      BY <1>1, <3>1, LeastElement
  <2>2. k # 0
    BY <2>1
  <2>3. k \in DOMAIN rows /\ k - 1 \in 0 .. Len(rows) /\ k - 1 \notin Wrong
    BY <2>1, <2>2
  <2>4. /\ HashOfRow(rows, k) = Append(HashOfRow(rows, k - 1), rows[k].receipt)
        /\ HashOfRow(rows, k - 1) \in Seq(Receipt)
        /\ Len(HashOfRow(rows, k - 1)) = k - 1
        /\ rows[k].receipt \in Receipt
    <3>1. /\ rows[k] \in Row /\ RowReason(rows, k) = "none"
      BY <2>3 DEF BadRows
    <3>2. rows[k].receipt_hash = Append(HashOfRow(rows, k - 1), rows[k].receipt)
      BY <2>3, <3>1, FittingRow DEF ChainedHash
    <3>3. HashOfRow(rows, k) = rows[k].receipt_hash
      BY <2>2 DEF HashOfRow
    <3>4. rows[k].receipt \in Receipt
      BY <3>1 DEF Row
    <3>5. HashOfRow(rows, k - 1) \in Seq(Receipt) /\ Len(HashOfRow(rows, k - 1)) = k - 1
      BY <2>3, HashOfRowType, HashesAreLineages DEF Hash
    <3> QED
      BY <3>2, <3>3, <3>4, <3>5
  <2>5. ASSUME NEW j \in 1 .. k PROVE HashOfRow(rows, k)[j] = rows[j].receipt
    <3>1. CASE j = k
      BY <2>4, <3>1
    <3>2. CASE j # k
      <4>1. j \in 1 .. (k - 1)
        BY <3>2
      <4>2. HashOfRow(rows, k)[j] = HashOfRow(rows, k - 1)[j]
        BY <2>4, <4>1
      <4>3. Right(k - 1)
        BY <2>3
      <4> QED
        BY <4>1, <4>2, <4>3
    <3> QED
      BY <3>1, <3>2
  <2> QED
    BY <2>1, <2>5
<1> DEFINE head == HashOfRow(rows, Len(rows))
<1>2. head \in Seq(Receipt) /\ Len(head) = Len(rows)
  BY HashOfRowType, HashesAreLineages DEF Hash
<1>3. \A j \in 1 .. Len(rows) : head[j] = rows[j].receipt
  <2>1. Len(rows) \in 0 .. Len(rows) /\ Len(rows) \notin Wrong
    BY <1>1
  <2> QED
    BY <2>1
<1> HIDE DEF head
<1>4. head = [j \in 1 .. Len(rows) |-> head[j]]
  BY <1>2
<1>5. DOMAIN rows = 1 .. Len(rows)
  OBVIOUS
<1> QED
  BY <1>3, <1>4, <1>5 DEF Hashed, head

-----------------------------------------------------------------------------
(* What receipts() hands out, and how far verify_chain comes in it.        *)

LEMMA ReceiptsOfFile ==
    ASSUME NEW f \in Seq(FileRow)
    PROVE  /\ Receipts(f) \in Seq(Row) /\ Len(Receipts(f)) = Len(f)
           /\ DOMAIN Receipts(f) = 1 .. Len(f)
           /\ \A i \in 1 .. Len(f) :
                 /\ f[i] \in FileRow
                 /\ Receipts(f)[i].receipt = f[i].row.receipt
                 /\ Receipts(f)[i].previous_receipt_ref = f[i].row.previous_receipt_ref
                 /\ Receipts(f)[i].receipt_hash =
                       Shown(f[i], "receipt_hash", f[i].row.receipt_hash)
                 /\ Receipts(f)[i].previous_receipt_hash =
                       Shown(f[i], "previous_receipt_hash", f[i].row.previous_receipt_hash)
<1>1. DOMAIN f = 1 .. Len(f) /\ Len(f) \in Nat
  OBVIOUS
<1>2. ASSUME NEW i \in 1 .. Len(f)
      PROVE  /\ f[i] \in FileRow /\ f[i].row \in Row
             /\ Shown(f[i], "receipt_hash", f[i].row.receipt_hash) \in Hash
             /\ Shown(f[i], "previous_receipt_hash", f[i].row.previous_receipt_hash) \in Hash
  <2>0. f[i] \in FileRow
    OBVIOUS
  <2>1. f[i] \in FileRow /\ f[i].row \in Row
    BY <2>0 DEF FileRow
  <2>2. PICK K \in SUBSET StrippedKeys : f[i].extra \in [K -> Hash]
    BY <2>1 DEF FileRow
  <2> QED
    BY <2>1, <2>2 DEF Shown, Row
<1>3. \A i \in 1 .. Len(f) :
         Receipts(f)[i] =
            [receipt_id |-> f[i].row.receipt_id, receipt |-> f[i].row.receipt,
             previous_receipt_ref |-> f[i].row.previous_receipt_ref,
             previous_receipt_hash |->
                Shown(f[i], "previous_receipt_hash", f[i].row.previous_receipt_hash),
             receipt_hash |-> Shown(f[i], "receipt_hash", f[i].row.receipt_hash)]
  BY <1>1, <1>2 DEF Receipts, Row
<1>4. \A i \in 1 .. Len(f) : Receipts(f)[i] \in Row
  <2> TAKE i \in 1 .. Len(f)
  <2>1. /\ f[i].row.receipt_id \in Receipt /\ f[i].row.receipt \in Receipt
        /\ f[i].row.previous_receipt_ref \in Hash
    <3>1. f[i].row \in Row
      BY <1>2
    <3> QED
      BY <3>1 DEF Row
  <2>2. /\ Shown(f[i], "receipt_hash", f[i].row.receipt_hash) \in Hash
        /\ Shown(f[i], "previous_receipt_hash", f[i].row.previous_receipt_hash) \in Hash
    BY <1>2
  <2>3. [receipt_id |-> f[i].row.receipt_id, receipt |-> f[i].row.receipt,
         previous_receipt_ref |-> f[i].row.previous_receipt_ref,
         previous_receipt_hash |->
            Shown(f[i], "previous_receipt_hash", f[i].row.previous_receipt_hash),
         receipt_hash |-> Shown(f[i], "receipt_hash", f[i].row.receipt_hash)] \in Row
    BY <2>1, <2>2 DEF Row
  <2> QED
    BY <1>3, <2>3
<1>5. Receipts(f) = [i \in 1 .. Len(f) |-> Receipts(f)[i]]
  BY <1>1 DEF Receipts
<1>6. Receipts(f) \in Seq(Row) /\ Len(Receipts(f)) = Len(f) /\ DOMAIN Receipts(f) = 1 .. Len(f)
  <2> DEFINE rows == Receipts(f)
  <2>1. rows = [i \in 1 .. Len(f) |-> rows[i]] /\ \A i \in 1 .. Len(f) : rows[i] \in Row
    BY <1>4, <1>5
  <2> HIDE DEF rows
  <2>2. rows \in Seq(Row) /\ Len(rows) = Len(f) /\ DOMAIN rows = 1 .. Len(f)
    BY <1>1, <2>1
  <2> QED
    BY <2>2 DEF rows
<1> QED
  BY <1>2, <1>3, <1>6

LEMMA WrittenFile ==
    ASSUME NEW from \in Seq(Row)
    PROVE  /\ AsWritten(from) \in Seq(FileRow) /\ Len(AsWritten(from)) = Len(from)
           /\ \A i \in 1 .. Len(from) :
                 AsWritten(from)[i] = [row |-> from[i], extra |-> <<>>]
<1>1. <<>> \in [{} -> Hash] /\ {} \in SUBSET StrippedKeys
  OBVIOUS
<1>2. \A i \in 1 .. Len(from) : [row |-> from[i], extra |-> <<>>] \in FileRow
  <2>1. <<>> \in UNION {[K -> Hash] : K \in SUBSET StrippedKeys}
    BY <1>1, Zenon
  <2>2. \A i \in 1 .. Len(from) : from[i] \in Row
    OBVIOUS
  <2>3. \A row \in Row, extra \in UNION {[K -> Hash] : K \in SUBSET StrippedKeys} :
           [row |-> row, extra |-> extra] \in FileRow
    BY Zenon DEF FileRow
  <2> QED
    BY <2>1, <2>2, <2>3, Zenon
<1>3. DOMAIN from = 1 .. Len(from) /\ Len(from) \in Nat
  OBVIOUS
<1> QED
  BY <1>2, <1>3 DEF AsWritten

(* A row without stripped keys shows its columns. *)
LEMMA PlainRow ==
    ASSUME NEW stored, NEW row, stored = [row |-> row, extra |-> <<>>]
    PROVE  /\ stored.row = row
           /\ \A key, column : Shown(stored, key, column) = column
<1>1. stored.row = row /\ stored.extra = <<>>
  OBVIOUS
<1>2. DOMAIN stored.extra = {}
  BY <1>1
<1> QED
  BY <1>1, <1>2 DEF Shown

(* Every row that verify_chain counts fits. *)
LEMMA CheckedRowsFit ==
    ASSUME NEW rows \in Seq(Row)
    PROVE  /\ VerifyChain(rows).checked \in 0 .. Len(rows)
           /\ \A k \in 1 .. VerifyChain(rows).checked : RowReason(rows, k) = "none"
           /\ VerifyChain(rows).valid => BadRows(rows) = {}
<1>1. CASE BadRows(rows) = {}
  BY <1>1 DEF VerifyChain, BadRows
<1>2. CASE BadRows(rows) # {}
  <2>1. /\ FirstBad(rows) \in 1 .. Len(rows)
        /\ \A j \in BadRows(rows) : FirstBad(rows) <= j
    BY <1>2, FirstBadRow
  <2>2. VerifyChain(rows).checked = FirstBad(rows) - 1 /\ ~VerifyChain(rows).valid
    BY <1>2 DEF VerifyChain, FirstBad
  <2>3. ASSUME NEW k \in 1 .. (FirstBad(rows) - 1) PROVE RowReason(rows, k) = "none"
    <3>1. k \notin BadRows(rows) /\ k \in DOMAIN rows
      BY <2>1
    <3> QED
      BY <3>1 DEF BadRows
  <2> QED
    BY <2>1, <2>2, <2>3
<1> QED
  BY <1>1, <1>2

-----------------------------------------------------------------------------
(* Each kind of damage, done to a table that the node wrote. *)

SamePayload(f, from, k) ==
    /\ k \in DOMAIN from
    /\ f[k].row.receipt = from[k].receipt
    /\ f[k].row.previous_receipt_ref = from[k].previous_receipt_ref

CountsIntactRows(f, from) ==
    LET n == VerifyChain(Receipts(f)).checked
    IN  \A k \in 1 .. n :
            SamePayload(f, from, k) \/ (k = n /\ "receipt_hash" \in DOMAIN f[k].extra)

(* Everything before a row that does not fit is as it was. *)
LEMMA IntactBeforeMisfit ==
    ASSUME NEW from \in Seq(Row), NEW f \in Seq(FileRow), NEW d \in 1 .. Len(f),
           RowReason(Receipts(f), d) # "none",
           \A k \in 1 .. (d - 1) : SamePayload(f, from, k)
    PROVE  CountsIntactRows(f, from)
<1> DEFINE n == VerifyChain(Receipts(f)).checked
<1>1. n \in 0 .. Len(f) /\ \A k \in 1 .. n : RowReason(Receipts(f), k) = "none"
  BY ReceiptsOfFile, CheckedRowsFit
<1> HIDE DEF n
<1>2. n < d
  BY <1>1
<1> QED
  BY <1>1, <1>2 DEF CountsIntactRows, n

(* Columns are not counted upon. *)
LEMMA ColumnEdit ==
    ASSUME NEW from \in Seq(Row), NEW f \in Seq(FileRow), Len(f) = Len(from),
           \A k \in 1 .. Len(from) : SamePayload(f, from, k)
    PROVE  CountsIntactRows(f, from)
<1>1. VerifyChain(Receipts(f)).checked \in 0 .. Len(f)
  BY ReceiptsOfFile, CheckedRowsFit
<1> QED
  BY <1>1 DEF CountsIntactRows

(* A row whose payload is another. *)
LEMMA PayloadEdit ==
    ASSUME NEW from \in Seq(Row), BadRows(from) = {}, NEW i \in 1 .. Len(from),
           NEW f \in Seq(FileRow), Len(f) = Len(from),
           \A k \in 1 .. Len(from) : k # i => f[k] = [row |-> from[k], extra |-> <<>>],
           f[i].row.receipt_hash = from[i].receipt_hash
    PROVE  CountsIntactRows(f, from)
<1> DEFINE rows == Receipts(f)
           n == VerifyChain(rows).checked
<1>1. /\ rows \in Seq(Row) /\ Len(rows) = Len(from) /\ DOMAIN rows = 1 .. Len(from)
      /\ n \in 0 .. Len(from)
      /\ \A k \in 1 .. n : RowReason(rows, k) = "none"
  BY ReceiptsOfFile, CheckedRowsFit
<1>2. /\ rows[i].receipt = f[i].row.receipt
      /\ rows[i].previous_receipt_ref = f[i].row.previous_receipt_ref
      /\ rows[i].receipt_hash = Shown(f[i], "receipt_hash", from[i].receipt_hash)
  BY ReceiptsOfFile
<1>3. ASSUME NEW k \in 1 .. Len(from), k # i
      PROVE  /\ rows[k].receipt_hash = from[k].receipt_hash
             /\ rows[k].previous_receipt_hash = from[k].previous_receipt_hash
             /\ SamePayload(f, from, k)
  <2>1. f[k] = [row |-> from[k], extra |-> <<>>]
    BY <1>3
  <2>2. f[k].row = from[k] /\ \A key, column : Shown(f[k], key, column) = column
    BY <2>1, PlainRow, Zenon
  <2> QED
    BY <2>2, ReceiptsOfFile DEF SamePayload
<1>4. ASSUME i <= n, rows[i].receipt_hash = from[i].receipt_hash
      PROVE  SamePayload(f, from, i)
  <2>1. i - 1 \in 0 .. Len(from) /\ (i - 1 # 0 => i - 1 \in 1 .. Len(from) /\ i - 1 # i)
    OBVIOUS
  <2>2. /\ HashOfRow(rows, i - 1) = HashOfRow(from, i - 1)
        /\ HashOfRow(from, i - 1) \in Hash
    BY <1>3, <2>1, HashOfRowType DEF HashOfRow
  <2> HIDE DEF rows, n
  <2>3. /\ rows[i].previous_receipt_ref = HashOfRow(rows, i - 1)
        /\ rows[i].receipt_hash = ChainedHash(HashOfRow(rows, i - 1), rows[i].receipt)
    <3>1. i \in DOMAIN rows /\ RowReason(rows, i) = "none"
      BY <1>1, <1>4
    <3> QED
      BY <1>1, <3>1, FittingRow
  <2>4. /\ from[i].previous_receipt_ref = HashOfRow(from, i - 1)
        /\ from[i].receipt_hash = ChainedHash(HashOfRow(from, i - 1), from[i].receipt)
    BY FittingRow DEF BadRows
  <2>5. rows[i].receipt \in Receipt /\ from[i].receipt \in Receipt
    <3>1. rows[i] \in Row /\ from[i] \in Row
      BY <1>1
    <3> QED
      BY <3>1 DEF Row
  <2>6. rows[i].receipt = from[i].receipt
    <3>1. ChainedHash(HashOfRow(from, i - 1), rows[i].receipt) =
             ChainedHash(HashOfRow(from, i - 1), from[i].receipt)
      BY <1>4, <2>2, <2>3, <2>4
    <3> QED
      BY <2>2, <2>5, <3>1, ChainedHashInjective
  <2> QED
    BY <1>2, <2>2, <2>3, <2>4, <2>6 DEF SamePayload
<1>5. CASE "receipt_hash" \notin DOMAIN f[i].extra
  <2>1. rows[i].receipt_hash = from[i].receipt_hash
    BY <1>2, <1>5 DEF Shown
  <2> HIDE DEF rows
  <2> QED
    BY <1>1, <1>3, <1>4, <2>1 DEF CountsIntactRows, rows
<1>6. CASE "receipt_hash" \in DOMAIN f[i].extra
  <2>1. ASSUME i < n PROVE rows[i].receipt_hash = from[i].receipt_hash
    <3>1. i + 1 \in DOMAIN rows /\ i + 1 \in 1 .. n /\ i + 1 # i /\ (i + 1) - 1 = i /\ i # 0
      BY <1>1, <2>1
    <3>2. RowReason(rows, i + 1) = "none"
      BY <1>1, <3>1
    <3>3. rows[i + 1].previous_receipt_hash = rows[i].receipt_hash
      <4> HIDE DEF rows
      <4> QED
        BY <1>1, <3>1, <3>2, FittingRow DEF HashOfRow
    <3>4. from[i + 1].previous_receipt_hash = from[i].receipt_hash
      BY <1>1, <3>1, FittingRow DEF BadRows, HashOfRow
    <3> QED
      BY <1>1, <1>3, <3>1, <3>3, <3>4
  <2>2. \A k \in 1 .. n : k # i => SamePayload(f, from, k)
    BY <1>1, <1>3
  <2>3. i < n => SamePayload(f, from, i)
    <3>1. i < n => i <= n
      BY <1>1
    <3> QED
      BY <1>4, <2>1, <3>1
  <2> HIDE DEF rows
  <2>4. \A k \in 1 .. n : SamePayload(f, from, k) \/ (k = n /\ k = i)
    BY <1>1, <2>2, <2>3
  <2> QED
    BY <1>6, <2>4 DEF CountsIntactRows, rows
<1> QED
  BY <1>5, <1>6

(* A row of the table where an earlier one belongs. *)
LEMMA MovedRow ==
    ASSUME NEW from \in Seq(Row), BadRows(from) = {}, NEW f \in Seq(FileRow),
           NEW d \in 1 .. Len(f), NEW j \in 1 .. Len(from), d < j,
           f[d] = [row |-> from[j], extra |-> <<>>],
           \A k \in 1 .. (d - 1) : f[k] = [row |-> from[k], extra |-> <<>>]
    PROVE  CountsIntactRows(f, from)
<1> DEFINE rows == Receipts(f)
<1>0. d \in Nat /\ j \in Nat /\ d <= Len(from) /\ Len(from) \in Nat
  OBVIOUS
<1>1. rows \in Seq(Row) /\ d \in DOMAIN rows
  BY ReceiptsOfFile
<1>2. ASSUME NEW k \in 1 .. Len(f), NEW i \in 1 .. Len(from),
             f[k] = [row |-> from[i], extra |-> <<>>]
      PROVE  /\ rows[k].receipt_hash = from[i].receipt_hash
             /\ rows[k].previous_receipt_hash = from[i].previous_receipt_hash
             /\ f[k].row = from[i]
  <2>1. f[k].row = from[i] /\ \A key, column : Shown(f[k], key, column) = column
    BY <1>2, PlainRow, Zenon
  <2> QED
    BY <2>1, ReceiptsOfFile
<1>3. HashOfRow(rows, d - 1) = HashOfRow(from, d - 1)
  <2>1. CASE d = 1
    BY <2>1 DEF HashOfRow
  <2>2. CASE d # 1
    <3>1. d - 1 \in 1 .. (d - 1) /\ d - 1 \in 1 .. Len(f) /\ d - 1 \in 1 .. Len(from) /\ d - 1 # 0
      BY <1>0, <2>2
    <3>2. rows[d - 1].receipt_hash = from[d - 1].receipt_hash
      BY <1>2, <3>1
    <3> QED
      BY <3>1, <3>2 DEF HashOfRow
  <2> QED
    BY <2>1, <2>2
<1>4. rows[d].previous_receipt_hash = HashOfRow(from, j - 1)
  <2>1. rows[d].previous_receipt_hash = from[j].previous_receipt_hash
    BY <1>2
  <2> QED
    BY <2>1, FittingRow DEF BadRows
<1>5. HashOfRow(from, d - 1) # HashOfRow(from, j - 1)
  <2>1. d - 1 \in 0 .. Len(from) /\ j - 1 \in 0 .. Len(from) /\ d - 1 # j - 1
    BY <1>0
  <2> QED
    BY <2>1, HashesAreLineages
<1>6. RowReason(rows, d) # "none"
  <2> HIDE DEF rows
  <2> QED
    BY <1>1, <1>3, <1>4, <1>5, FittingRow
<1>7. \A k \in 1 .. (d - 1) : SamePayload(f, from, k)
  <2> TAKE k \in 1 .. (d - 1)
  <2>1. k \in 1 .. Len(f) /\ k \in 1 .. Len(from) /\ k \in DOMAIN from
    BY <1>0
  <2>2. f[k].row = from[k]
    BY <1>2, <2>1
  <2> QED
    BY <2>1, <2>2 DEF SamePayload
<1> QED
  BY <1>6, <1>7, IntactBeforeMisfit

LEMMA RemoveAtOf ==
    ASSUME NEW f \in Seq(FileRow), NEW i \in 1 .. Len(f)
    PROVE  /\ RemoveAt(f, i) \in Seq(FileRow) /\ Len(RemoveAt(f, i)) = Len(f) - 1
           /\ \A k \in 1 .. (Len(f) - 1) :
                 RemoveAt(f, i)[k] = IF k < i THEN f[k] ELSE f[k + 1]
<1> DEFINE before == SubSeq(f, 1, i - 1)
           after == SubSeq(f, i + 1, Len(f))
<1>1. /\ before \in Seq(FileRow) /\ Len(before) = i - 1
      /\ \A k \in 1 .. (i - 1) : before[k] = f[k]
  OBVIOUS
<1>2. /\ after \in Seq(FileRow) /\ Len(after) = Len(f) - i
      /\ \A k \in 1 .. (Len(f) - i) : after[k] = f[i + k]
  OBVIOUS
<1>3. RemoveAt(f, i) = before \o after
  BY DEF RemoveAt
<1> HIDE DEF before, after
<1>4. /\ before \o after \in Seq(FileRow) /\ Len(before \o after) = Len(f) - 1
      /\ \A k \in 1 .. (Len(f) - 1) :
            (before \o after)[k] = IF k < i THEN before[k] ELSE after[k - (i - 1)]
  <2>1. Len(before) \in Nat /\ Len(after) \in Nat /\ Len(before) + Len(after) = Len(f) - 1
    BY <1>1, <1>2
  <2>2. before \o after \in Seq(FileRow) /\ Len(before \o after) = Len(f) - 1
    BY <1>1, <1>2, <2>1, ConcatProperties
  <2>3. \A k \in 1 .. (Len(before) + Len(after)) :
           (before \o after)[k] = IF k <= Len(before) THEN before[k] ELSE after[k - Len(before)]
    BY <1>1, <1>2, ConcatProperties
  <2>4. \A k \in 1 .. (Len(f) - 1) : k <= i - 1 <=> k < i
    OBVIOUS
  <2> QED
    BY <1>1, <2>1, <2>2, <2>3, <2>4
<1>5. ASSUME NEW k \in 1 .. (Len(f) - 1)
      PROVE  (before \o after)[k] = IF k < i THEN f[k] ELSE f[k + 1]
  <2>1. CASE k < i
    BY <1>1, <1>4, <2>1
  <2>2. CASE ~(k < i)
    <3>1. k - (i - 1) \in 1 .. (Len(f) - i) /\ i + (k - (i - 1)) = k + 1
      BY <2>2
    <3> QED
      BY <1>2, <1>4, <2>2, <3>1
  <2> QED
    BY <2>1, <2>2
<1> QED
  BY <1>3, <1>4, <1>5

-----------------------------------------------------------------------------
(* The node's work, then the damages. *)

AuditInv ==
    /\ ChainInv /\ SerialInv
    /\ file \in Seq(FileRow)
    /\ damages \in Nat
    /\ damages = 0 => file = AsWritten(chain)
    /\ damages = 1 => CountsIntactRows(file, chain)

(* The table as the node left it. *)
LEMMA TableAtRest ==
    ASSUME AuditInv
    PROVE  /\ chain \in Seq(Row) /\ BadRows(chain) = {} /\ DOMAIN chain = 1 .. Len(chain)
           /\ damages = 0 =>
                 /\ Len(file) = Len(chain)
                 /\ \A k \in 1 .. Len(chain) : file[k] = [row |-> chain[k], extra |-> <<>>]
<1>1. chain \in Seq(Row) /\ BadRows(chain) = {}
  BY DEF AuditInv, SerialInv, ChainTypeOK, RowsAreLinear, BadRows
<1>2. damages = 0 => file = AsWritten(chain)
  BY DEF AuditInv
<1> QED
  BY <1>1, <1>2, WrittenFile

(* A damage of the right type keeps the invariant when it is a further     *)
(* one, and when as the first it leaves the counted rows intact.           *)
LEMMA DamageKeeps ==
    ASSUME AuditInv, NEW f \in Seq(FileRow), Damage(f),
           damages = 0 => CountsIntactRows(f, chain)
    PROVE  AuditInv'
<1>1. file' = f /\ damages' = damages + 1 /\ UNCHANGED <<chain, pc, ref, prev>>
  BY DEF Damage, chainVars
<1>2. damages \in Nat /\ damages' \in Nat /\ damages' # 0 /\ (damages' = 1 => damages = 0)
  BY <1>1 DEF AuditInv
<1>3. (ChainInv /\ SerialInv)'
  <2>1. [ChainNext]_chainVars
    BY <1>1 DEF chainVars
  <2> QED
    BY <2>1, AuditAssumption, NextChainInv, NextSerialInv DEF AuditInv
<1>4. damages = 0 => CountsIntactRows(f, chain)'
  BY <1>1 DEF CountsIntactRows, SamePayload
<1> QED
  BY <1>1, <1>2, <1>3, <1>4 DEF AuditInv, CountsIntactRows, SamePayload

LEMMA HashesAtType ==
    ASSUME AuditInv, NEW i \in DOMAIN file, NEW r \in Receipt
    PROVE  HashesAt(i, r) \subseteq Hash
<1>1. Receipts(file) \in Seq(Row) /\ Len(Receipts(file)) = Len(file) /\ i \in 1 .. Len(file)
  BY ReceiptsOfFile DEF AuditInv
<1>2. \A k \in 0 .. Len(file) : HashOfRow(Receipts(file), k) \in Hash
  BY <1>1, HashOfRowType
<1>3. i - 1 \in 0 .. Len(file)
  BY <1>1
<1>4. Append(HashOfRow(Receipts(file), i - 1), r) \in Hash
  BY <1>2, <1>3 DEF Hash
<1> QED
  BY <1>1, <1>2, <1>4 DEF HashesAt

LEMMA EditColumnKeeps == ASSUME AuditInv, EditColumn PROVE AuditInv'
<1>1. PICK i \in DOMAIN file, r \in Receipt :
         \/ Damage([file EXCEPT ![i].row.receipt_id = r])
         \/ \E h \in HashesAt(i, file[i].row.receipt) :
               \/ Damage([file EXCEPT ![i].row.previous_receipt_hash = h])
               \/ Damage([file EXCEPT ![i].row.receipt_hash = h])
  BY DEF EditColumn
<1>2. file \in Seq(FileRow) /\ DOMAIN file = 1 .. Len(file) /\ file[i] \in FileRow
  BY DEF AuditInv
<1>3. /\ file[i].row \in Row /\ file[i] = [row |-> file[i].row, extra |-> file[i].extra]
      /\ file[i].row.receipt \in Receipt
  BY <1>2 DEF FileRow, Row
<1>4. ASSUME NEW row \in Row, row.receipt = file[i].row.receipt,
             row.previous_receipt_ref = file[i].row.previous_receipt_ref,
             NEW f, f = [file EXCEPT ![i] = [row |-> row, extra |-> file[i].extra]], Damage(f)
      PROVE  AuditInv'
  <2>1. [row |-> row, extra |-> file[i].extra] \in FileRow
    BY <1>2 DEF FileRow
  <2>2. f \in Seq(FileRow) /\ Len(f) = Len(file)
    BY <1>2, <1>4, <2>1
  <2>3. ASSUME damages = 0 PROVE CountsIntactRows(f, chain)
    <3>1. ASSUME NEW k \in 1 .. Len(chain) PROVE SamePayload(f, chain, k)
      <4>1. /\ k \in DOMAIN chain /\ k \in DOMAIN file
            /\ file[k] = [row |-> chain[k], extra |-> <<>>]
        BY <1>2, <2>3, TableAtRest
      <4>2. file[k].row = chain[k]
        BY <4>1, PlainRow, Zenon
      <4>3. CASE k = i
        <5>1. f[k].row = row
          BY <1>4, <4>1, <4>3
        <5> QED
          BY <1>4, <4>1, <4>2, <4>3, <5>1 DEF SamePayload
      <4>4. CASE k # i
        <5>1. f[k] = file[k]
          BY <1>4, <4>1, <4>4
        <5> QED
          BY <4>1, <4>2, <5>1 DEF SamePayload
      <4> QED
        BY <4>3, <4>4
    <3> QED
      BY <2>2, <2>3, <3>1, TableAtRest, ColumnEdit
  <2> QED
    BY <1>4, <2>2, <2>3, DamageKeeps
<1>5. CASE Damage([file EXCEPT ![i].row.receipt_id = r])
  <2> DEFINE row == [file[i].row EXCEPT !.receipt_id = r]
  <2>1. /\ row \in Row /\ row.receipt = file[i].row.receipt
        /\ row.previous_receipt_ref = file[i].row.previous_receipt_ref
    BY <1>3 DEF Row
  <2>2. [file EXCEPT ![i].row.receipt_id = r] =
           [file EXCEPT ![i] = [row |-> row, extra |-> file[i].extra]]
    <3>1. [file[i] EXCEPT !.row.receipt_id = r] = [row |-> row, extra |-> file[i].extra]
      BY <1>3
    <3> QED
      BY <3>1
  <2> HIDE DEF row
  <2> QED
    BY <1>4, <1>5, <2>1, <2>2
<1>6. CASE \E h \in HashesAt(i, file[i].row.receipt) :
              Damage([file EXCEPT ![i].row.previous_receipt_hash = h])
  <2>1. PICK h \in HashesAt(i, file[i].row.receipt) :
           Damage([file EXCEPT ![i].row.previous_receipt_hash = h])
    BY <1>6
  <2> DEFINE row == [file[i].row EXCEPT !.previous_receipt_hash = h]
  <2>2. h \in Hash
    BY <1>3, <2>1, HashesAtType
  <2>3. /\ row \in Row /\ row.receipt = file[i].row.receipt
        /\ row.previous_receipt_ref = file[i].row.previous_receipt_ref
    BY <1>3, <2>2 DEF Row
  <2>4. [file EXCEPT ![i].row.previous_receipt_hash = h] =
           [file EXCEPT ![i] = [row |-> row, extra |-> file[i].extra]]
    <3>1. [file[i] EXCEPT !.row.previous_receipt_hash = h] = [row |-> row, extra |-> file[i].extra]
      BY <1>3
    <3> QED
      BY <3>1
  <2> HIDE DEF row
  <2> QED
    BY <1>4, <2>1, <2>3, <2>4
<1>7. CASE \E h \in HashesAt(i, file[i].row.receipt) :
              Damage([file EXCEPT ![i].row.receipt_hash = h])
  <2>1. PICK h \in HashesAt(i, file[i].row.receipt) :
           Damage([file EXCEPT ![i].row.receipt_hash = h])
    BY <1>7
  <2> DEFINE row == [file[i].row EXCEPT !.receipt_hash = h]
  <2>2. h \in Hash
    BY <1>3, <2>1, HashesAtType
  <2>3. /\ row \in Row /\ row.receipt = file[i].row.receipt
        /\ row.previous_receipt_ref = file[i].row.previous_receipt_ref
    BY <1>3, <2>2 DEF Row
  <2>4. [file EXCEPT ![i].row.receipt_hash = h] =
           [file EXCEPT ![i] = [row |-> row, extra |-> file[i].extra]]
    <3>1. [file[i] EXCEPT !.row.receipt_hash = h] = [row |-> row, extra |-> file[i].extra]
      BY <1>3
    <3> QED
      BY <3>1
  <2> HIDE DEF row
  <2> QED
    BY <1>4, <2>1, <2>3, <2>4
<1> QED
  BY <1>1, <1>5, <1>6, <1>7

LEMMA EditPayloadKeeps == ASSUME AuditInv, EditPayload PROVE AuditInv'
<1> DEFINE rowOf(i, r, h) == [file[i].row EXCEPT !.receipt = r, !.previous_receipt_ref = h]
<1>1. PICK i \in DOMAIN file, r \in Receipt, K \in SUBSET StrippedKeys :
         \E h \in HashesAt(i, r), extra \in [K -> HashesAt(i, r)] :
            Damage([file EXCEPT ![i] = [row |-> rowOf(i, r, h), extra |-> extra]])
  BY DEF EditPayload
<1>2. PICK h \in HashesAt(i, r), extra \in [K -> HashesAt(i, r)] :
         Damage([file EXCEPT ![i] = [row |-> rowOf(i, r, h), extra |-> extra]])
  BY <1>1
<1>3. file \in Seq(FileRow) /\ DOMAIN file = 1 .. Len(file) /\ file[i] \in FileRow
  BY DEF AuditInv
<1>4. file[i].row \in Row /\ h \in Hash /\ extra \in [K -> Hash]
  <2>1. HashesAt(i, r) \subseteq Hash
    BY HashesAtType
  <2> QED
    BY <1>3, <2>1 DEF FileRow
<1> DEFINE row == rowOf(i, r, h)
           f == [file EXCEPT ![i] = [row |-> row, extra |-> extra]]
<1>5. row \in Row /\ row.receipt_hash = file[i].row.receipt_hash
  BY <1>4 DEF Row
<1>6. Damage(f)
  BY <1>2
<1> HIDE DEF row
<1>7. [row |-> row, extra |-> extra] \in FileRow
  BY <1>4, <1>5 DEF FileRow
<1>8. /\ f \in Seq(FileRow) /\ Len(f) = Len(file)
      /\ f[i] = [row |-> row, extra |-> extra]
      /\ \A k \in 1 .. Len(file) : k # i => f[k] = file[k]
  BY <1>3, <1>7
<1> HIDE DEF f
<1>9. ASSUME damages = 0 PROVE CountsIntactRows(f, chain)
  <2>1. /\ chain \in Seq(Row) /\ BadRows(chain) = {}
        /\ Len(file) = Len(chain) /\ i \in 1 .. Len(chain)
        /\ \A k \in 1 .. Len(chain) : file[k] = [row |-> chain[k], extra |-> <<>>]
    BY <1>3, <1>9, TableAtRest
  <2>2. f[i].row.receipt_hash = chain[i].receipt_hash
    <3>1. file[i] = [row |-> chain[i], extra |-> <<>>]
      BY <2>1
    <3>2. file[i].row = chain[i]
      BY <3>1, PlainRow, Zenon
    <3> QED
      BY <1>5, <1>8, <3>2
  <2> QED
    BY <1>8, <2>1, <2>2, PayloadEdit
<1> QED
  BY <1>6, <1>8, <1>9, DamageKeeps

LEMMA LoseRowKeeps == ASSUME AuditInv, LoseRow PROVE AuditInv'
<1>1. PICK i \in DOMAIN file : Damage(RemoveAt(file, i))
  BY DEF LoseRow
<1>2. file \in Seq(FileRow) /\ i \in 1 .. Len(file) /\ Len(file) \in Nat
  BY DEF AuditInv
<1> DEFINE f == RemoveAt(file, i)
<1>3. /\ f \in Seq(FileRow) /\ Len(f) = Len(file) - 1
      /\ \A k \in 1 .. (Len(file) - 1) : f[k] = IF k < i THEN file[k] ELSE file[k + 1]
  BY <1>2, RemoveAtOf
<1> HIDE DEF f
<1>4. ASSUME damages = 0 PROVE CountsIntactRows(f, chain)
  <2>1. /\ chain \in Seq(Row) /\ BadRows(chain) = {} /\ Len(file) = Len(chain)
        /\ DOMAIN chain = 1 .. Len(chain)
        /\ \A k \in 1 .. Len(chain) : file[k] = [row |-> chain[k], extra |-> <<>>]
    BY <1>4, TableAtRest
  <2>2. CASE i = Len(file)
    <3>1. \A k \in 1 .. Len(f) : k \in DOMAIN chain /\ f[k] = [row |-> chain[k], extra |-> <<>>]
      BY <1>2, <1>3, <2>1, <2>2
    <3>2. VerifyChain(Receipts(f)).checked \in 0 .. Len(f)
      BY <1>3, ReceiptsOfFile, CheckedRowsFit
    <3>3. \A k \in 1 .. Len(f) : SamePayload(f, chain, k)
      <4> TAKE k \in 1 .. Len(f)
      <4>1. k \in DOMAIN chain /\ f[k].row = chain[k]
        BY <3>1, PlainRow, Zenon
      <4> QED
        BY <4>1 DEF SamePayload
    <3>4. Len(f) \in Nat
      BY <1>3
    <3> QED
      BY <3>2, <3>3, <3>4 DEF CountsIntactRows
  <2>3. CASE i # Len(file)
    <3>1. /\ i \in 1 .. Len(f) /\ i + 1 \in 1 .. Len(chain) /\ i < i + 1
          /\ f[i] = [row |-> chain[i + 1], extra |-> <<>>]
      <4>1. /\ i \in 1 .. (Len(file) - 1) /\ i + 1 \in 1 .. Len(file) /\ i < i + 1
            /\ ~(i < i)
        BY <1>2, <2>3
      <4>2. f[i] = file[i + 1]
        BY <1>3, <4>1
      <4>3. file[i + 1] = [row |-> chain[i + 1], extra |-> <<>>]
        BY <2>1, <4>1
      <4> QED
        BY <1>3, <2>1, <4>1, <4>2, <4>3
    <3>2. \A k \in 1 .. (i - 1) : f[k] = [row |-> chain[k], extra |-> <<>>]
      <4> TAKE k \in 1 .. (i - 1)
      <4>1. k \in 1 .. (Len(file) - 1) /\ k \in 1 .. Len(file) /\ k < i
        BY <1>2
      <4>2. f[k] = file[k]
        BY <1>3, <4>1
      <4> QED
        BY <2>1, <4>1, <4>2
    <3> QED
      BY <1>3, <2>1, <3>1, <3>2, MovedRow
  <2> QED
    BY <2>2, <2>3
<1> QED
  BY <1>1, <1>3, <1>4, DamageKeeps DEF f

LEMMA SwapRowsKeeps == ASSUME AuditInv, SwapRows PROVE AuditInv'
<1>1. PICK i \in DOMAIN file, j \in DOMAIN file :
         Damage([file EXCEPT ![i] = file[j], ![j] = file[i]])
  BY DEF SwapRows
<1> DEFINE f == [file EXCEPT ![i] = file[j], ![j] = file[i]]
<1>2. file \in Seq(FileRow) /\ i \in 1 .. Len(file) /\ j \in 1 .. Len(file) /\ Len(file) \in Nat
  BY DEF AuditInv
<1>3. i # j
  <2>1. f # file
    BY <1>1 DEF Damage
  <2> QED
    BY <1>2, <2>1
<1>4. /\ f \in Seq(FileRow) /\ Len(f) = Len(file) /\ f[i] = file[j] /\ f[j] = file[i]
      /\ \A k \in 1 .. Len(file) : k # i /\ k # j => f[k] = file[k]
  BY <1>2, <1>3
<1> HIDE DEF f
<1>5. ASSUME damages = 0, NEW d \in {i, j}, NEW e \in {i, j}, d < e
      PROVE  CountsIntactRows(f, chain)
  <2>1. /\ chain \in Seq(Row) /\ BadRows(chain) = {} /\ Len(file) = Len(chain)
        /\ \A k \in 1 .. Len(chain) : file[k] = [row |-> chain[k], extra |-> <<>>]
    BY <1>5, TableAtRest
  <2>2. d # e /\ d \in 1 .. Len(chain) /\ e \in 1 .. Len(chain) /\ f[d] = file[e]
    BY <1>2, <1>4, <1>5, <2>1
  <2>3. f[d] = [row |-> chain[e], extra |-> <<>>]
    BY <2>1, <2>2
  <2>4. \A k \in 1 .. (d - 1) : f[k] = [row |-> chain[k], extra |-> <<>>]
    <3> TAKE k \in 1 .. (d - 1)
    <3>1. k \in 1 .. Len(file) /\ k # d /\ k # e
      BY <1>2, <1>5, <2>1, <2>2
    <3>2. k # i /\ k # j
      BY <1>5, <2>2, <3>1
    <3> QED
      BY <1>4, <2>1, <3>1, <3>2
  <2>5. d \in 1 .. Len(f)
    BY <1>4, <2>1, <2>2
  <2> QED
    BY <1>4, <1>5, <2>1, <2>2, <2>3, <2>4, <2>5, MovedRow
<1>6. ASSUME damages = 0 PROVE CountsIntactRows(f, chain)
  <2>1. i < j \/ j < i
    BY <1>2, <1>3
  <2> QED
    BY <1>5, <1>6, <2>1
<1> QED
  BY <1>1, <1>4, <1>6, DamageKeeps DEF f

LEMMA AuditInvariance == AuditSpec => []AuditInv
<1>1. AuditInit => AuditInv
  <2> SUFFICES ASSUME AuditInit PROVE AuditInv
    OBVIOUS
  <2>1. chain = <<>> /\ file = <<>> /\ damages = 0
    BY DEF AuditInit, ChainInit
  <2>2. AsWritten(chain) = <<>>
    BY <2>1 DEF AsWritten
  <2> QED
    BY <2>1, <2>2, InitChainInv, InitSerialInv DEF AuditInit, AuditInv
<1>2. AuditInv /\ [AuditNext]_auditVars => AuditInv'
  <2> SUFFICES ASSUME AuditInv, [AuditNext]_auditVars PROVE AuditInv'
    OBVIOUS
  <2>1. CASE Work
    <3>1. /\ ChainInv /\ SerialInv /\ [ChainNext]_chainVars
          /\ damages = 0 /\ damages' = 0 /\ file' = AsWritten(chain')
      BY <2>1 DEF Work, AuditInv
    <3>2. ChainInv'
      BY <3>1, NextChainInv
    <3>3. SerialInv'
      BY <3>1, <3>2, AuditAssumption, NextSerialInv
    <3>4. chain' \in Seq(Row)
      BY <3>3 DEF SerialInv, ChainTypeOK
    <3>5. file' \in Seq(FileRow)
      BY <3>1, <3>4, WrittenFile
    <3> QED
      BY <3>1, <3>2, <3>3, <3>5 DEF AuditInv, AsWritten
  <2>2. CASE EditColumn \/ EditPayload \/ LoseRow \/ SwapRows
    BY <2>2, EditColumnKeeps, EditPayloadKeeps, LoseRowKeeps, SwapRowsKeeps
  <2>3. CASE UNCHANGED auditVars
    <3>1. UNCHANGED <<chain, pc, ref, prev, file, damages>> /\ [ChainNext]_chainVars
      BY <2>3 DEF auditVars, chainVars
    <3>2. ChainInv' /\ SerialInv'
      BY <3>1, NextChainInv, NextSerialInv, AuditAssumption DEF AuditInv
    <3> QED
      BY <3>1, <3>2 DEF AuditInv, AsWritten, CountsIntactRows, SamePayload
  <2> QED
    BY <2>1, <2>2, <2>3 DEF AuditNext
<1> QED
  BY <1>1, <1>2, PTL DEF AuditSpec

(* However often the file was damaged: a table that verify_chain accepts   *)
(* with the head that the node had holds the receipts that the node wrote, *)
(* since the head digest of an accepted table is its receipts in order.    *)
THEOREM VerificationFindsDamage == AuditSpec => []AuditFindsDamage
<1>1. AuditInv => AuditFindsDamage
  <2> SUFFICES ASSUME AuditInv, Audit.valid, Audit.head = LatestReceiptHash
               PROVE  Hashed(Receipts(file)) = Hashed(chain)
    BY DEF AuditFindsDamage
  <2> DEFINE rows == Receipts(file)
  <2>1. rows \in Seq(Row) /\ BadRows(rows) = {}
    BY ReceiptsOfFile, CheckedRowsFit DEF AuditInv, Audit
  <2>2. Audit.head = HashOfRow(rows, Len(rows))
    BY <2>1 DEF Audit, VerifyChain
  <2>3. Audit.head = Hashed(rows)
    <3> HIDE DEF rows
    <3> QED
      BY <2>1, <2>2, HeadIsHashed
  <2>4. LatestReceiptHash = Hashed(chain)
    BY TableAtRest, HeadIsHashed DEF LatestReceiptHash
  <2> QED
    BY <2>3, <2>4
<1> QED
  BY <1>1, AuditInvariance, PTL

(* After one damage, of any row and of any of its parts, the receipts that *)
(* verify_chain counts as checked are the node's, but for a last one whose *)
(* payload brings its own digest.                                          *)
THEOREM CheckedRowsAreIntact == AuditSpec => []AuditCountsIntactRows
<1>1. AuditInv => AuditCountsIntactRows
  BY DEF AuditInv, AuditCountsIntactRows, CountsIntactRows, SamePayload, Audit
<1> QED
  BY <1>1, AuditInvariance, PTL
=============================================================================
