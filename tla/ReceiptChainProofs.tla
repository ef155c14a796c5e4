------------------------- MODULE ReceiptChainProofs -------------------------
(***************************************************************************)
(* Theorems about ReceiptChain, for every set of receipts and with or      *)
(* without faults. First what holds however runs interleave, then what     *)
(* one append at a time adds.                                              *)
(***************************************************************************)
EXTENDS ReceiptChain, FiniteSetTheorems, WellFoundedInduction, TLAPS

(* What the table holds of each receipt: a row only of appended receipts,  *)
(* one row of each.                                                        *)
RowsAreAppends ==
    /\ \A i \in DOMAIN chain : pc[chain[i].receipt] = "appended"
    /\ \A r \in Receipt :
          pc[r] = "appended" => \E i \in DOMAIN chain : chain[i].receipt = r
    /\ \A i, j \in DOMAIN chain : chain[i].receipt = chain[j].receipt => i = j

(* Every hash a run has read is the hash of some row, or of no row, and    *)
(* the two reads of a checked receipt agree.                               *)
ReadsAreOfRows ==
    \A r \in Receipt :
        /\ pc[r] \in {"made", "checked", "refused"} =>
              \E k \in 0 .. Len(chain) : ref[r] = HashOfRow(chain, k)
        /\ pc[r] = "checked" => prev[r] = ref[r]

(* The inductive invariant of the interleaved system.                      *)
ChainInv ==
    /\ ChainTypeOK
    /\ Linkage
    /\ RowsAreAppends
    /\ ReadsAreOfRows
    /\ RefusalIsFinal

-----------------------------------------------------------------------------
(* Appending a row leaves every earlier hash where it was. *)
LEMMA HashOfRowAppend ==
    ASSUME NEW rows \in Seq(Row), NEW row \in Row
    PROVE  /\ Append(rows, row) \in Seq(Row)
           /\ Len(Append(rows, row)) = Len(rows) + 1
           /\ \A i \in 1 .. Len(rows) : Append(rows, row)[i] = rows[i]
           /\ Append(rows, row)[Len(rows) + 1] = row
           /\ \A k \in 0 .. Len(rows) :
                HashOfRow(Append(rows, row), k) = HashOfRow(rows, k)
           /\ HashOfRow(Append(rows, row), Len(rows) + 1) = row.receipt_hash
  BY DEF HashOfRow

(* The hash of a row, or of no row, is a digest. *)
LEMMA HashOfRowType ==
    ASSUME NEW rows \in Seq(Row), NEW k \in 0 .. Len(rows)
    PROVE  HashOfRow(rows, k) \in Hash
<1>1. CASE k = 0
  BY <1>1 DEF HashOfRow, NoHash, Hash
<1>2. CASE k # 0
  <2>1. rows[k] \in Row
    BY <1>2
  <2> QED
    BY <1>2, <2>1 DEF HashOfRow, Row
<1> QED
  BY <1>1, <1>2

(* A digest commits to the digest before it and to its receipt. *)
LEMMA ChainedHashInjective ==
    ASSUME NEW g \in Hash, NEW h \in Hash, NEW q \in Receipt, NEW r \in Receipt
    PROVE  /\ ChainedHash(g, q) \in Hash
           /\ ChainedHash(g, q) # NoHash
           /\ ChainedHash(g, q) = ChainedHash(h, r) => g = h /\ q = r
<1>1. ChainedHash(g, q) \in Hash /\ Len(ChainedHash(g, q)) = Len(g) + 1
      /\ ChainedHash(g, q)[Len(g) + 1] = q
      /\ \A i \in 1 .. Len(g) : ChainedHash(g, q)[i] = g[i]
  BY DEF ChainedHash, Hash
<1>2. Len(ChainedHash(h, r)) = Len(h) + 1 /\ ChainedHash(h, r)[Len(h) + 1] = r
      /\ \A i \in 1 .. Len(h) : ChainedHash(h, r)[i] = h[i]
  BY DEF ChainedHash, Hash
<1>3. ChainedHash(g, q) # NoHash
  BY <1>1 DEF NoHash, Hash
<1>4. ASSUME ChainedHash(g, q) = ChainedHash(h, r)
      PROVE  g = h /\ q = r
  <2>1. Len(g) = Len(h)
    BY <1>1, <1>2, <1>4 DEF Hash
  <2>2. \A i \in 1 .. Len(g) : g[i] = h[i]
    BY <1>1, <1>2, <1>4, <2>1
  <2> QED
    BY <1>1, <1>2, <1>4, <2>1, <2>2 DEF Hash
<1> QED
  BY <1>1, <1>3, <1>4

-----------------------------------------------------------------------------
(* The newest hash is a digest. *)
LEMMA LatestType ==
    ASSUME ChainTypeOK
    PROVE  LatestReceiptHash \in Hash
  BY HashOfRowType DEF ChainTypeOK, LatestReceiptHash

LEMMA InitChainInv == ChainInit => ChainInv
<1> SUFFICES ASSUME ChainInit PROVE ChainInv
  OBVIOUS
<1>1. ChainTypeOK
  BY DEF ChainInit, ChainTypeOK, Phase, Hash, NoHash
<1>2. DOMAIN chain = {}
  BY DEF ChainInit
<1> QED
  BY <1>1, <1>2
  DEF ChainInit, ChainInv, Linkage, RowsAreAppends, ReadsAreOfRows, RefusalIsFinal

(* MakeReceipt reads the newest hash, which is the hash of the last row. *)
LEMMA MakeReceiptInv ==
    ASSUME ChainInv, NEW r \in Receipt, MakeReceipt(r)
    PROVE  ChainInv'
<1> USE DEF ChainInv, MakeReceipt
<1>1. ChainTypeOK'
  BY LatestType DEF ChainTypeOK, Phase
<1>2. Linkage'
  BY DEF Linkage, HashOfRow
<1>3. RowsAreAppends'
  BY DEF RowsAreAppends, ChainTypeOK
<1>4. ReadsAreOfRows'
  <2>1. Len(chain) \in 0 .. Len(chain)
    BY DEF ChainTypeOK
  <2> QED
    BY <2>1 DEF ReadsAreOfRows, ChainTypeOK, LatestReceiptHash, HashOfRow
<1>5. RefusalIsFinal'
  BY DEF RefusalIsFinal, ChainTypeOK, LatestReceiptHash, HashOfRow
<1> QED
  BY <1>1, <1>2, <1>3, <1>4, <1>5

LEMMA CheckHeadInv ==
    ASSUME ChainInv, NEW r \in Receipt, CheckHead(r)
    PROVE  ChainInv'
<1> USE DEF ChainInv, CheckHead
<1>1. ChainTypeOK'
  BY LatestType DEF ChainTypeOK, Phase
<1>2. Linkage'
  BY DEF Linkage, HashOfRow
<1>3. RowsAreAppends'
  BY DEF RowsAreAppends, ChainTypeOK
<1>4. ReadsAreOfRows'
  BY DEF ReadsAreOfRows, ChainTypeOK, HashOfRow
<1>5. RefusalIsFinal'
  BY DEF RefusalIsFinal, ChainTypeOK, LatestReceiptHash, HashOfRow
<1> QED
  BY <1>1, <1>2, <1>3, <1>4, <1>5

(* RefuseReceipt and LoseReceipt only move the receipt's phase. *)
LEMMA RefuseReceiptInv ==
    ASSUME ChainInv, NEW r \in Receipt, RefuseReceipt(r)
    PROVE  ChainInv'
<1> USE DEF ChainInv, RefuseReceipt
<1>1. ChainTypeOK'
  BY DEF ChainTypeOK, Phase
<1>2. Linkage'
  BY DEF Linkage, HashOfRow
<1>3. RowsAreAppends'
  BY DEF RowsAreAppends, ChainTypeOK
<1>4. ReadsAreOfRows'
  BY DEF ReadsAreOfRows, ChainTypeOK, HashOfRow
<1>5. RefusalIsFinal'
  BY DEF RefusalIsFinal, ChainTypeOK, LatestReceiptHash, HashOfRow
<1> QED
  BY <1>1, <1>2, <1>3, <1>4, <1>5

LEMMA LoseReceiptInv ==
    ASSUME ChainInv, NEW r \in Receipt, LoseReceipt(r)
    PROVE  ChainInv'
<1> USE DEF ChainInv, LoseReceipt
<1>1. ChainTypeOK'
  BY DEF ChainTypeOK, Phase
<1>2. Linkage'
  BY DEF Linkage, HashOfRow
<1>3. RowsAreAppends'
  BY DEF RowsAreAppends, ChainTypeOK, InFlight
<1>4. ReadsAreOfRows'
  BY DEF ReadsAreOfRows, ChainTypeOK, HashOfRow
<1>5. RefusalIsFinal'
  BY DEF RefusalIsFinal, ChainTypeOK, LatestReceiptHash, HashOfRow
<1> QED
  BY <1>1, <1>2, <1>3, <1>4, <1>5

(* The row InsertReceipt appends is whole and is chained to a row that is  *)
(* there, be it the last one or not.                                       *)
LEMMA InsertReceiptInv ==
    ASSUME ChainInv, NEW r \in Receipt, InsertReceipt(r)
    PROVE  ChainInv'
<1> DEFINE row == RowOf(r, prev[r])
           n == Len(chain)
<1>1. /\ chain \in Seq(Row) /\ n \in Nat
      /\ pc[r] = "checked" /\ prev[r] = ref[r] /\ ref[r] \in Hash
  BY DEF ChainInv, ChainTypeOK, ReadsAreOfRows, InsertReceipt
<1>2. row \in Row /\ row.receipt_hash \in Hash
  BY <1>1, ChainedHashInjective DEF Row, RowOf
<1>3. chain' = Append(chain, row) /\ ref' = ref /\ prev' = prev
  BY DEF InsertReceipt
<1>4. /\ chain' \in Seq(Row)
      /\ Len(chain') = n + 1
      /\ DOMAIN chain = 1 .. n
      /\ DOMAIN chain' = 1 .. (n + 1)
      /\ \A i \in 1 .. n : chain'[i] = chain[i]
      /\ chain'[n + 1] = row
      /\ \A k \in 0 .. n : HashOfRow(chain', k) = HashOfRow(chain, k)
      /\ HashOfRow(chain', n + 1) = ChainedHash(prev[r], r)
  BY <1>1, <1>2, <1>3, HashOfRowAppend DEF RowOf
<1>5. /\ pc' = [pc EXCEPT ![r] = "appended"]
      /\ pc \in [Receipt -> Phase]
  BY DEF InsertReceipt, ChainInv, ChainTypeOK
<1>6. PICK k \in 0 .. n : ref[r] = HashOfRow(chain, k)
  BY <1>1 DEF ChainInv, ReadsAreOfRows
<1> HIDE DEF row, n
<1>7. ChainTypeOK'
  BY <1>3, <1>4, <1>5 DEF ChainInv, ChainTypeOK, Phase
<1>8. Linkage'
  <2> SUFFICES ASSUME NEW i \in 1 .. (n + 1)
               PROVE  /\ chain'[i].previous_receipt_ref = chain'[i].previous_receipt_hash
                      /\ chain'[i].receipt_hash =
                            ChainedHash(chain'[i].previous_receipt_hash, chain'[i].receipt)
                      /\ \E j \in 0 .. (i - 1) :
                            chain'[i].previous_receipt_hash = HashOfRow(chain', j)
    BY <1>4 DEF Linkage
  <2>1. CASE i = n + 1
    BY <1>1, <1>4, <1>6, <2>1 DEF row, RowOf
  <2>2. CASE i \in 1 .. n
    <3>1. PICK j \in 0 .. (i - 1) :
             chain[i].previous_receipt_hash = HashOfRow(chain, j)
      BY <1>4, <2>2 DEF ChainInv, Linkage
    <3>2. HashOfRow(chain', j) = HashOfRow(chain, j)
      BY <1>1, <1>4, <2>2
    <3> QED
      BY <1>4, <2>2, <3>1, <3>2 DEF ChainInv, Linkage
  <2> QED
    BY <1>1, <2>1, <2>2
<1>9. RowsAreAppends'
  <2>1. \A i \in 1 .. n : chain[i].receipt # r
    BY <1>1, <1>4 DEF ChainInv, RowsAreAppends
  <2>2. chain'[n + 1].receipt = r
    BY <1>4 DEF row, RowOf
  <2>3. \A i \in 1 .. (n + 1) : pc'[chain'[i].receipt] = "appended"
    <3> SUFFICES ASSUME NEW i \in 1 .. n
                 PROVE  pc'[chain'[i].receipt] = "appended"
      BY <1>1, <1>5, <2>2
    <3>1. chain[i] \in Row
      BY <1>1, <1>4
    <3> QED
      BY <1>4, <1>5, <3>1 DEF ChainInv, RowsAreAppends, Row
  <2>4. \A q \in Receipt :
           pc'[q] = "appended" => \E i \in 1 .. (n + 1) : chain'[i].receipt = q
    <3> SUFFICES ASSUME NEW q \in Receipt, pc'[q] = "appended", q # r
                 PROVE  \E i \in 1 .. (n + 1) : chain'[i].receipt = q
      BY <1>1, <2>2
    <3>1. PICK i \in 1 .. n : chain[i].receipt = q
      BY <1>4, <1>5 DEF ChainInv, RowsAreAppends
    <3> QED
      BY <1>1, <1>4, <3>1
  <2>5. \A i, j \in 1 .. (n + 1) :
           chain'[i].receipt = chain'[j].receipt => i = j
    <3> SUFFICES ASSUME NEW i \in 1 .. (n + 1), NEW j \in 1 .. (n + 1),
                        chain'[i].receipt = chain'[j].receipt
                 PROVE  i = j
      OBVIOUS
    <3>1. CASE i \in 1 .. n /\ j \in 1 .. n
      BY <1>4, <3>1 DEF ChainInv, RowsAreAppends
    <3>2. CASE i = n + 1 \/ j = n + 1
      BY <1>1, <1>4, <2>1, <2>2, <3>2
    <3> QED
      BY <1>1, <3>1, <3>2
  <2> QED
    BY <1>4, <2>3, <2>4, <2>5 DEF RowsAreAppends
<1>10. ReadsAreOfRows'
  <2> SUFFICES ASSUME NEW q \in Receipt
               PROVE  /\ pc'[q] \in {"made", "checked", "refused"} =>
                            \E j \in 0 .. (n + 1) : ref[q] = HashOfRow(chain', j)
                      /\ pc'[q] = "checked" => prev[q] = ref[q]
    BY <1>3, <1>4 DEF ReadsAreOfRows
  <2>1. ASSUME pc'[q] \in {"made", "checked", "refused"}
        PROVE  \E j \in 0 .. (n + 1) : ref[q] = HashOfRow(chain', j)
    <3>1. pc[q] \in {"made", "checked", "refused"}
      BY <1>5, <2>1
    <3>2. PICK j \in 0 .. n : ref[q] = HashOfRow(chain, j)
      BY <3>1 DEF ChainInv, ReadsAreOfRows, n
    <3> QED
      BY <1>1, <1>4, <3>2
  <2>2. pc'[q] = "checked" => prev[q] = ref[q]
    BY <1>5 DEF ChainInv, ReadsAreOfRows
  <2> QED
    BY <2>1, <2>2
<1>11. RefusalIsFinal'
  <2>1. LatestReceiptHash' = ChainedHash(prev[r], r)
    BY <1>4 DEF LatestReceiptHash
  <2> SUFFICES ASSUME NEW q \in Receipt, pc'[q] = "refused",
                      ref[q] = ChainedHash(prev[r], r)
               PROVE  FALSE
    BY <1>3, <2>1 DEF RefusalIsFinal
  <2>2. pc[q] = "refused"
    BY <1>5
  <2>3. PICK j \in 0 .. n : ref[q] = HashOfRow(chain, j)
    BY <2>2 DEF ChainInv, ReadsAreOfRows, n
  <2>4. j # 0
    BY <1>1, <2>3, ChainedHashInjective DEF HashOfRow
  <2>5. chain[j] \in Row /\ chain[j].receipt_hash = ChainedHash(prev[r], r)
    BY <1>1, <1>4, <2>3, <2>4 DEF HashOfRow
  <2>6. chain[j].receipt_hash =
           ChainedHash(chain[j].previous_receipt_hash, chain[j].receipt)
    BY <1>1, <1>4, <2>4 DEF ChainInv, Linkage
  <2>7. chain[j].receipt = r
    <3>1. chain[j].receipt \in Receipt /\ chain[j].previous_receipt_hash \in Hash
      BY <2>5 DEF Row
    <3>2. prev[r] \in Hash
      BY <1>1
    <3>3. ChainedHash(chain[j].previous_receipt_hash, chain[j].receipt) =
             ChainedHash(prev[r], r)
      BY <2>5, <2>6
    <3> QED
      BY <3>1, <3>2, <3>3, ChainedHashInjective
  <2>8. pc[chain[j].receipt] = "appended"
    BY <1>1, <1>4, <2>4 DEF ChainInv, RowsAreAppends
  <2> QED
    BY <1>1, <2>7, <2>8
<1> QED
  BY <1>7, <1>8, <1>9, <1>10, <1>11 DEF ChainInv

LEMMA NextChainInv == ChainInv /\ [ChainNext]_chainVars => ChainInv'
<1> SUFFICES ASSUME ChainInv, [ChainNext]_chainVars PROVE ChainInv'
  OBVIOUS
<1>1. CASE UNCHANGED chainVars
  BY <1>1 DEF chainVars, ChainInv, ChainTypeOK, Linkage, RowsAreAppends,
              ReadsAreOfRows, RefusalIsFinal, LatestReceiptHash, HashOfRow
<1>2. ASSUME NEW r \in Receipt,
             MakeReceipt(r) \/ CheckHead(r) \/ RefuseReceipt(r)
               \/ InsertReceipt(r) \/ LoseReceipt(r)
      PROVE  ChainInv'
  BY <1>2, MakeReceiptInv, CheckHeadInv, RefuseReceiptInv, InsertReceiptInv,
     LoseReceiptInv
<1> QED
  BY <1>1, <1>2 DEF ChainNext

LEMMA ChainInvariance == ChainSpec => []ChainInv
  BY InitChainInv, NextChainInv, PTL DEF ChainSpec

(* Type correctness of the receipt table and of the runs that append to it. *)
THEOREM ChainTypeCorrect == ChainSpec => []ChainTypeOK
<1>1. ChainInv => ChainTypeOK
  BY DEF ChainInv
<1> QED
  BY <1>1, ChainInvariance, PTL

(* However appends interleave, the rows form a tree of whole receipts:     *)
(* append_receipt never writes a row that is inconsistent in itself or     *)
(* whose predecessor is not in the table.                                  *)
THEOREM RowsAreLinked == ChainSpec => []Linkage
<1>1. ChainInv => Linkage
  BY DEF ChainInv
<1> QED
  BY <1>1, ChainInvariance, PTL

(* append_receipt's ValueError is final: the head a refused receipt names  *)
(* never becomes the newest hash again.                                    *)
THEOREM RefusalStands == ChainSpec => []RefusalIsFinal
<1>1. ChainInv => RefusalIsFinal
  BY DEF ChainInv
<1> QED
  BY <1>1, ChainInvariance, PTL

(* A receipt has a row exactly when its append returned, and one row only. *)
THEOREM AppendsAreRows == ChainSpec => []AppendedOnce
<1>1. ASSUME ChainInv PROVE AppendedOnce
  <2> SUFFICES ASSUME NEW r \in Receipt,
                      NEW places, places = {i \in DOMAIN chain : chain[i].receipt = r}
               PROVE  IF pc[r] = "appended"
                      THEN \E i \in places : places = {i}
                      ELSE places = {}
    BY DEF AppendedOnce
  <2>1. \A i \in places : i \in DOMAIN chain /\ chain[i].receipt = r
    OBVIOUS
  <2>2. CASE pc[r] = "appended"
    <3>1. PICK i \in DOMAIN chain : chain[i].receipt = r
      BY <1>1, <2>2 DEF ChainInv, RowsAreAppends
    <3>2. i \in places
      BY <3>1
    <3>3. \A j \in places : j = i
      BY <1>1, <2>1, <3>1 DEF ChainInv, RowsAreAppends
    <3> QED
      BY <2>2, <3>2, <3>3
  <2>3. CASE pc[r] # "appended"
    <3>1. \A i \in DOMAIN chain : chain[i].receipt # r
      BY <1>1, <2>3 DEF ChainInv, RowsAreAppends
    <3> QED
      BY <2>1, <2>3, <3>1
  <2> QED
    BY <2>2, <2>3
<1> QED
  BY <1>1, ChainInvariance, PTL

-----------------------------------------------------------------------------
(* A set of natural numbers has a least element. *)
LEMMA LeastElement ==
    ASSUME NEW T, T \subseteq Nat, T # {}
    PROVE  \E i \in T : \A j \in T : i <= j
<1>1. PICK i \in T : \A j \in T : <<j, i>> \notin OpToRel(<, Nat)
  BY NatLessThanWellFounded, WFMin
<1>2. \A j \in T : ~(j < i)
  BY <1>1 DEF OpToRel
<1> QED
  BY <1>2

(* A step leaves the table alone or adds a row. *)
LEMMA ChainGrows ==
    ASSUME ChainInv, [ChainNext]_chainVars
    PROVE  chain' = chain \/ \E row \in Row : chain' = Append(chain, row)
<1>1. ASSUME NEW r \in Receipt, InsertReceipt(r)
      PROVE  \E row \in Row : chain' = Append(chain, row)
  <2>1. prev[r] \in Hash /\ ref[r] \in Hash
    BY DEF ChainInv, ChainTypeOK
  <2>2. RowOf(r, prev[r]) \in Row
    BY <2>1, ChainedHashInjective DEF Row, RowOf
  <2> QED
    BY <1>1, <2>2 DEF InsertReceipt
<1>2. ASSUME NEW r \in Receipt,
             MakeReceipt(r) \/ CheckHead(r) \/ RefuseReceipt(r) \/ LoseReceipt(r)
      PROVE  chain' = chain
  BY <1>2 DEF MakeReceipt, CheckHead, RefuseReceipt, LoseReceipt
<1> QED
  BY <1>1, <1>2 DEF ChainNext, chainVars

(* The first row that does not fit. *)
FirstBad(rows) == CHOOSE i \in BadRows(rows) : \A j \in BadRows(rows) : i <= j

LEMMA FirstBadRow ==
    ASSUME NEW rows \in Seq(Row), BadRows(rows) # {}
    PROVE  /\ FirstBad(rows) \in BadRows(rows)
           /\ FirstBad(rows) \in 1 .. Len(rows)
           /\ \A j \in BadRows(rows) : FirstBad(rows) <= j
<1>1. BadRows(rows) \subseteq 1 .. Len(rows)
  BY DEF BadRows
<1>2. \E i \in BadRows(rows) : \A j \in BadRows(rows) : i <= j
  BY <1>1, LeastElement
<1>3. FirstBad(rows) \in BadRows(rows) /\ \A j \in BadRows(rows) : FirstBad(rows) <= j
  BY <1>2 DEF FirstBad
<1> QED
  BY <1>1, <1>3

(* An added row changes nothing about the rows before it. *)
LEMMA BadRowsAppend ==
    ASSUME NEW rows \in Seq(Row), NEW row \in Row, NEW more, more = Append(rows, row)
    PROVE  /\ BadRows(rows) \subseteq 1 .. Len(rows)
           /\ BadRows(more) \subseteq BadRows(rows) \cup {Len(rows) + 1}
           /\ BadRows(rows) \subseteq BadRows(more)
           /\ \A i \in 1 .. Len(rows) : RowReason(more, i) = RowReason(rows, i)
<1>1. /\ DOMAIN rows = 1 .. Len(rows) /\ DOMAIN more = 1 .. (Len(rows) + 1)
      /\ Len(rows) \in Nat
  BY HashOfRowAppend
<1>2. ASSUME NEW i \in 1 .. Len(rows) PROVE RowReason(more, i) = RowReason(rows, i)
  <2>1. HashOfRow(more, i - 1) = HashOfRow(rows, i - 1) /\ more[i] = rows[i]
    BY <1>1, HashOfRowAppend
  <2> QED
    BY <2>1 DEF RowReason
<1>3. \A i \in DOMAIN more : i \in DOMAIN rows \/ i = Len(rows) + 1
  BY <1>1
<1> QED
  BY <1>1, <1>2, <1>3 DEF BadRows

LEMMA LeastOfMore ==
    ASSUME NEW n \in Nat, NEW S, S \subseteq 1 .. n, S # {},
           NEW T, S \subseteq T, T \subseteq S \cup {n + 1}
    PROVE  \A i : (i \in T /\ \A j \in T : i <= j) <=> (i \in S /\ \A j \in S : i <= j)
<1>1. ASSUME NEW i \in S, \A j \in S : i <= j PROVE \A j \in T : i <= j
  BY <1>1
<1>2. ASSUME NEW i \in T, \A j \in T : i <= j PROVE i \in S
  <2>1. PICK k : k \in S
    OBVIOUS
  <2>2. k \in T /\ k \in 1 .. n
    BY <2>1
  <2>3. i <= k
    BY <1>2, <2>2
  <2>4. i # n + 1
    BY <2>2, <2>3
  <2> QED
    BY <2>4
<1> QED
  BY <1>1, <1>2

LEMMA VerifyAfterAppend ==
    ASSUME NEW rows \in Seq(Row), NEW row \in Row, NEW more, more = Append(rows, row)
    PROVE  /\ ~VerifyChain(rows).valid => VerifyChain(more) = VerifyChain(rows)
           /\ VerifyChain(rows).checked <= VerifyChain(more).checked
<1>1. Len(rows) \in Nat /\ more \in Seq(Row) /\ Len(more) = Len(rows) + 1
  BY HashOfRowAppend
<1>2. CASE BadRows(rows) # {}
  <2>1. BadRows(more) # {}
    BY <1>2, BadRowsAppend
  <2>2. FirstBad(more) = FirstBad(rows)
    <3>1. \A i : (i \in BadRows(more) /\ \A j \in BadRows(more) : i <= j)
                   <=> (i \in BadRows(rows) /\ \A j \in BadRows(rows) : i <= j)
      <4>1. BadRows(rows) \subseteq BadRows(more)
              /\ BadRows(more) \subseteq BadRows(rows) \cup {Len(rows) + 1}
              /\ BadRows(rows) \subseteq 1 .. Len(rows)
        BY BadRowsAppend
      <4> QED
        BY <1>1, <1>2, <4>1, LeastOfMore
    <3> QED
      BY <3>1 DEF FirstBad
  <2>3. RowReason(more, FirstBad(rows)) = RowReason(rows, FirstBad(rows))
    BY <1>2, FirstBadRow, BadRowsAppend
  <2>4. VerifyChain(more) = VerifyChain(rows)
    BY <1>2, <2>1, <2>2, <2>3 DEF VerifyChain, FirstBad
  <2>5. VerifyChain(rows).checked \in Nat
    BY <1>1, <1>2, FirstBadRow DEF VerifyChain, FirstBad
  <2> QED
    BY <2>4, <2>5
<1>3. CASE BadRows(rows) = {}
  <2>1. VerifyChain(rows).valid /\ VerifyChain(rows).checked = Len(rows)
    BY <1>3 DEF VerifyChain
  <2>2. CASE BadRows(more) = {}
    BY <1>1, <2>1, <2>2 DEF VerifyChain
  <2>3. CASE BadRows(more) # {}
    <3>1. FirstBad(more) = Len(rows) + 1
      <4>1. BadRows(more) \subseteq {Len(rows) + 1}
        BY <1>3, BadRowsAppend
      <4> QED
        BY <1>1, <2>3, <4>1, FirstBadRow
    <3>2. VerifyChain(more).checked = Len(rows)
      <4>1. VerifyChain(more).checked = FirstBad(more) - 1
        BY <2>3 DEF VerifyChain, FirstBad
      <4> QED
        BY <1>1, <3>1, <4>1
    <3> QED
      BY <1>1, <2>1, <3>2
  <2> QED
    BY <2>2, <2>3
<1> QED
  BY <1>2, <1>3

LEMMA VerifyStep ==
    ASSUME ChainInv, [ChainNext]_chainVars
    PROVE  /\ VerifyChain(chain).checked <= VerifyChain(chain').checked
           /\ SubSeq(chain', 1, Len(chain)) = chain
           /\ ~VerifyChain(chain).valid => VerifyChain(chain') = VerifyChain(chain)
<1>1. chain \in Seq(Row) /\ Len(chain) \in Nat
  BY DEF ChainInv, ChainTypeOK
<1>2. CASE chain' = chain
  <2>1. VerifyChain(chain).checked \in Nat
    BY <1>1, FirstBadRow DEF VerifyChain, FirstBad
  <2>2. SubSeq(chain, 1, Len(chain)) = chain
    BY <1>1
  <2> QED
    BY <1>2, <2>1, <2>2
<1>3. ASSUME NEW row \in Row, chain' = Append(chain, row)
      PROVE  /\ VerifyChain(chain).checked <= VerifyChain(chain').checked
             /\ ~VerifyChain(chain).valid => VerifyChain(chain') = VerifyChain(chain)
             /\ SubSeq(chain', 1, Len(chain)) = chain
  <2>1. SubSeq(chain', 1, Len(chain)) = chain
    BY <1>1, <1>3
  <2> QED
    BY <1>1, <1>3, <2>1, VerifyAfterAppend
<1> QED
  BY <1>2, <1>3, ChainGrows

(* Rows are only added, and verify_chain never takes a row back that it    *)
(* has accepted, however appends interleave.                               *)
THEOREM VerifiedRowsStay == ChainSpec => VerifiedPrefixKept
<1>1. ChainInv /\ [ChainNext]_chainVars
         => [ /\ VerifyChain(chain).checked <= VerifyChain(chain').checked
              /\ SubSeq(chain', 1, Len(chain)) = chain ]_chainVars
  BY VerifyStep
<1> QED
  BY <1>1, ChainInvariance, PTL DEF ChainSpec, VerifiedPrefixKept

(* Once verify_chain rejects the table, no append mends it and none makes  *)
(* the answer another one.                                                 *)
THEOREM ForksStay == ChainSpec => ForkIsForever
<1>1. ChainInv /\ [ChainNext]_chainVars
         => [~VerifyChain(chain).valid => VerifyChain(chain') = VerifyChain(chain)]_chainVars
  BY VerifyStep
<1> QED
  BY <1>1, ChainInvariance, PTL DEF ChainSpec, ForkIsForever

(* The digest of a row commits to receipts that have rows, none else: the  *)
(* lineage behind a head can be found in the table.                        *)
Lineage ==
    \A k \in 0 .. Len(chain) :
        \A i \in DOMAIN HashOfRow(chain, k) : pc[HashOfRow(chain, k)[i]] = "appended"

LEMMA LineageStep ==
    ASSUME ChainInv, Lineage, [ChainNext]_chainVars
    PROVE  Lineage'
<1>1. chain \in Seq(Row) /\ Len(chain) \in Nat /\ pc \in [Receipt -> Phase]
  BY DEF ChainInv, ChainTypeOK
<1>2. \A q \in Receipt : pc[q] = "appended" => pc'[q] = "appended"
  BY <1>1 DEF ChainNext, chainVars, MakeReceipt, CheckHead, RefuseReceipt, InsertReceipt,
     LoseReceipt, InFlight
<1>3. ASSUME NEW k \in 0 .. Len(chain), NEW i \in DOMAIN HashOfRow(chain, k)
      PROVE  pc'[HashOfRow(chain, k)[i]] = "appended"
  <2>1. HashOfRow(chain, k)[i] \in Receipt
    BY <1>1, HashOfRowType DEF Hash
  <2> QED
    BY <1>2, <2>1 DEF Lineage
<1>4. CASE chain' = chain
  <2>1. \A k : HashOfRow(chain, k)' = HashOfRow(chain, k)
    BY <1>4 DEF HashOfRow
  <2> QED
    BY <1>3, <1>4, <2>1 DEF Lineage
<1>5. ASSUME NEW r \in Receipt, InsertReceipt(r)
      PROVE  Lineage'
  <2>1. /\ prev[r] \in Hash /\ ref[r] \in Hash
        /\ prev[r] = ref[r] /\ \E k \in 0 .. Len(chain) : ref[r] = HashOfRow(chain, k)
    BY <1>5 DEF ChainInv, ChainTypeOK, ReadsAreOfRows, InsertReceipt
  <2>2. RowOf(r, prev[r]) \in Row /\ RowOf(r, prev[r]).receipt_hash = Append(prev[r], r)
    BY <2>1, ChainedHashInjective DEF Row, RowOf, ChainedHash
  <2>3. /\ chain' = Append(chain, RowOf(r, prev[r])) /\ pc'[r] = "appended"
    BY <1>1, <1>5 DEF InsertReceipt
  <2>4. /\ Len(chain') = Len(chain) + 1
        /\ \A k \in 0 .. Len(chain) : HashOfRow(chain', k) = HashOfRow(chain, k)
        /\ HashOfRow(chain', Len(chain) + 1) = Append(prev[r], r)
    BY <1>1, <2>2, <2>3, HashOfRowAppend
  <2>5. ASSUME NEW i \in DOMAIN Append(prev[r], r)
        PROVE  pc'[Append(prev[r], r)[i]] = "appended"
    <3>1. CASE i \in DOMAIN prev[r]
      <4>1. Append(prev[r], r)[i] = prev[r][i]
        BY <2>1, <3>1 DEF Hash
      <4> QED
        BY <1>3, <2>1, <3>1, <4>1
    <3>2. CASE i \notin DOMAIN prev[r]
      <4>1. Append(prev[r], r)[i] = r
        BY <2>1, <2>5, <3>2 DEF Hash
      <4> QED
        BY <2>3, <4>1
    <3> QED
      BY <3>1, <3>2
  <2> SUFFICES ASSUME NEW k \in 0 .. (Len(chain) + 1), NEW i \in DOMAIN HashOfRow(chain', k)
               PROVE  pc'[HashOfRow(chain', k)[i]] = "appended"
    BY <2>4 DEF Lineage
  <2>6. CASE k \in 0 .. Len(chain)
    BY <1>3, <2>4, <2>6
  <2>7. CASE k = Len(chain) + 1
    BY <2>4, <2>5, <2>7
  <2> QED
    BY <1>1, <2>6, <2>7
<1>6. ASSUME NEW r \in Receipt,
             MakeReceipt(r) \/ CheckHead(r) \/ RefuseReceipt(r) \/ LoseReceipt(r)
      PROVE  chain' = chain
  BY <1>6 DEF MakeReceipt, CheckHead, RefuseReceipt, LoseReceipt
<1> QED
  BY <1>4, <1>5, <1>6 DEF ChainNext, chainVars

LEMMA LineageIsOfRows == ChainSpec => []Lineage
<1>1. ChainInit => Lineage
  BY DEF ChainInit, Lineage, HashOfRow, NoHash
<1> QED
  BY <1>1, LineageStep, ChainInvariance, PTL DEF ChainSpec

-----------------------------------------------------------------------------
(* One append at a time. *)

(* At most one receipt is between its first read and its insert.           *)
OneInFlight == \A q, r \in Receipt : InFlight(q) /\ InFlight(r) => q = r

(* What it read is still the newest hash.                                  *)
HeadIsRead ==
    \A r \in Receipt :
        /\ InFlight(r) => ref[r] = LatestReceiptHash
        /\ pc[r] = "checked" => prev[r] = LatestReceiptHash

(* Every row extends the row before it.                                    *)
RowsAreLinear == \A i \in DOMAIN chain : RowReason(chain, i) = "none"

(* The inductive invariant of the serial system.                           *)
SerialInv ==
    /\ ChainTypeOK
    /\ OneInFlight
    /\ HeadIsRead
    /\ NeverRefused
    /\ RowsAreLinear

LEMMA InitSerialInv == ChainInit => SerialInv
<1>1. ChainInit => ChainTypeOK
  BY InitChainInv DEF ChainInv
<1>2. ChainInit => OneInFlight /\ HeadIsRead /\ NeverRefused /\ RowsAreLinear
  BY DEF ChainInit, OneInFlight, HeadIsRead, NeverRefused, RowsAreLinear,
         InFlight
<1> QED
  BY <1>1, <1>2 DEF SerialInv

(* The steps that leave the table alone. *)
LEMMA SerialReadInv ==
    ASSUME Serial, SerialInv, ChainTypeOK', NEW r \in Receipt,
           MakeReceipt(r) \/ CheckHead(r) \/ RefuseReceipt(r) \/ LoseReceipt(r)
    PROVE  SerialInv'
<1>1. chain' = chain /\ LatestReceiptHash' = LatestReceiptHash
  BY DEF MakeReceipt, CheckHead, RefuseReceipt, LoseReceipt, LatestReceiptHash,
         HashOfRow
<1>2. RowsAreLinear'
  BY <1>1 DEF SerialInv, RowsAreLinear, RowReason, HashOfRow
<1>3. ~RefuseReceipt(r)
  BY DEF SerialInv, HeadIsRead, RefuseReceipt, InFlight
<1>4. OneInFlight' /\ HeadIsRead' /\ NeverRefused'
  <2>1. CASE MakeReceipt(r)
    BY <1>1, <2>1 DEF SerialInv, ChainTypeOK, OneInFlight, HeadIsRead,
       NeverRefused, MakeReceipt, InFlight
  <2>2. CASE CheckHead(r)
    BY <1>1, <2>2 DEF SerialInv, ChainTypeOK, OneInFlight, HeadIsRead,
       NeverRefused, CheckHead, InFlight
  <2>3. CASE LoseReceipt(r)
    BY <1>1, <2>3 DEF SerialInv, ChainTypeOK, OneInFlight, HeadIsRead,
       NeverRefused, LoseReceipt, InFlight
  <2> QED
    BY <1>3, <2>1, <2>2, <2>3
<1> QED
  BY <1>2, <1>4 DEF SerialInv

(* The insert extends the last row, because nobody else is in flight. *)
LEMMA SerialInsertInv ==
    ASSUME Serial, SerialInv, ChainTypeOK', NEW r \in Receipt, InsertReceipt(r)
    PROVE  /\ SerialInv'
           /\ LatestReceiptHash' = ChainedHash(LatestReceiptHash, r)
<1> DEFINE row == RowOf(r, prev[r])
           n == Len(chain)
<1>1. /\ chain \in Seq(Row) /\ n \in Nat
      /\ pc \in [Receipt -> Phase]
      /\ pc[r] = "checked" /\ InFlight(r)
      /\ ref[r] = LatestReceiptHash /\ prev[r] = LatestReceiptHash
      /\ LatestReceiptHash \in Hash
  BY LatestType DEF SerialInv, ChainTypeOK, HeadIsRead, InsertReceipt, InFlight
<1>2. row \in Row
  BY <1>1, ChainedHashInjective DEF Row, RowOf
<1>3. /\ chain' = Append(chain, row) /\ ref' = ref /\ prev' = prev
      /\ pc' = [pc EXCEPT ![r] = "appended"]
  BY DEF InsertReceipt
<1>4. /\ Len(chain') = n + 1
      /\ DOMAIN chain = 1 .. n
      /\ DOMAIN chain' = 1 .. (n + 1)
      /\ \A i \in 1 .. n : chain'[i] = chain[i]
      /\ chain'[n + 1] = row
      /\ \A k \in 0 .. n : HashOfRow(chain', k) = HashOfRow(chain, k)
      /\ HashOfRow(chain', n + 1) = ChainedHash(prev[r], r)
  BY <1>1, <1>2, <1>3, HashOfRowAppend DEF RowOf
<1>5. LatestReceiptHash' = ChainedHash(LatestReceiptHash, r)
  BY <1>1, <1>4 DEF LatestReceiptHash
<1>6. RowsAreLinear'
  <2> SUFFICES ASSUME NEW i \in 1 .. (n + 1)
               PROVE  RowReason(chain', i) = "none"
    BY <1>4 DEF RowsAreLinear
  <2>1. CASE i \in 1 .. n
    <3>1. /\ chain'[i] = chain[i]
          /\ HashOfRow(chain', i - 1) = HashOfRow(chain, i - 1)
          /\ i \in DOMAIN chain
      BY <1>1, <1>4, <2>1
    <3> QED
      BY <3>1 DEF SerialInv, RowsAreLinear, RowReason
  <2>2. CASE i = n + 1
    <3>1. HashOfRow(chain', i - 1) = LatestReceiptHash
      BY <1>1, <1>4, <2>2 DEF LatestReceiptHash
    <3> QED
      BY <1>1, <1>4, <2>2, <3>1 DEF RowReason, RowOf
  <2> QED
    BY <1>1, <2>1, <2>2
<1>7. OneInFlight' /\ HeadIsRead' /\ NeverRefused'
  <2>1. \A q \in Receipt : ~InFlight(q)'
    BY <1>1, <1>3 DEF SerialInv, OneInFlight, InFlight
  <2> QED
    BY <1>1, <1>3, <2>1
    DEF SerialInv, OneInFlight, HeadIsRead, NeverRefused, InFlight
<1> QED
  BY <1>5, <1>6, <1>7 DEF SerialInv

LEMMA NextSerialInv ==
    ASSUME Serial
    PROVE  SerialInv /\ ChainInv /\ ChainInv' /\ [ChainNext]_chainVars => SerialInv'
<1> SUFFICES ASSUME SerialInv, ChainTypeOK', [ChainNext]_chainVars
             PROVE  SerialInv'
  BY DEF ChainInv
<1>1. CASE UNCHANGED chainVars
  BY <1>1 DEF chainVars, SerialInv, ChainTypeOK, OneInFlight, HeadIsRead,
     NeverRefused, RowsAreLinear, RowReason, InFlight, LatestReceiptHash, HashOfRow
<1>2. CASE ChainNext
  BY <1>2, SerialReadInv, SerialInsertInv DEF ChainNext
<1> QED
  BY <1>1, <1>2

LEMMA SerialInvariance ==
    ASSUME Serial
    PROVE  ChainSpec => []SerialInv
<1>1. SerialInv /\ ChainInv /\ ChainInv' /\ [ChainNext]_chainVars => SerialInv'
  BY NextSerialInv
<1> QED
  BY <1>1, InitSerialInv, ChainInvariance, PTL DEF ChainSpec

(* When no two appends overlap, verify_chain accepts the table at every    *)
(* moment, also when runs die between any two of their sessions.           *)
THEOREM SerialChainIsValid ==
    ASSUME Serial
    PROVE  ChainSpec => []ChainValid
<1>1. SerialInv => ChainValid
  BY DEF SerialInv, RowsAreLinear, ChainValid, VerifyChain, BadRows
<1> QED
  BY <1>1, SerialInvariance, PTL

(* When no two appends overlap, append_receipt never raises.               *)
THEOREM SerialNeverRefuses ==
    ASSUME Serial
    PROVE  ChainSpec => []NeverRefused
<1>1. SerialInv => NeverRefused
  BY DEF SerialInv
<1> QED
  BY <1>1, SerialInvariance, PTL

(* The newest hash commits to all rows, in their order.                    *)
WholeLineage ==
    /\ Len(LatestReceiptHash) = Len(chain)
    /\ \A i \in DOMAIN chain : LatestReceiptHash[i] = chain[i].receipt

LEMMA WholeLineageStep ==
    ASSUME Serial, SerialInv, SerialInv', WholeLineage, [ChainNext]_chainVars
    PROVE  WholeLineage'
<1>1. chain \in Seq(Row) /\ Len(chain) \in Nat /\ LatestReceiptHash \in Hash
  BY LatestType DEF SerialInv, ChainTypeOK
<1>2. CASE chain' = chain
  BY <1>2 DEF WholeLineage, LatestReceiptHash, HashOfRow
<1>3. ASSUME NEW r \in Receipt, InsertReceipt(r)
      PROVE  WholeLineage'
  <2>1. LatestReceiptHash' = Append(LatestReceiptHash, r)
    BY <1>3, SerialInsertInv DEF SerialInv, ChainedHash
  <2>2. chain' = Append(chain, RowOf(r, prev[r])) /\ RowOf(r, prev[r]).receipt = r
    BY <1>3 DEF InsertReceipt, RowOf
  <2>3. /\ Len(Append(LatestReceiptHash, r)) = Len(LatestReceiptHash) + 1
        /\ \A i \in 1 .. Len(LatestReceiptHash) :
              Append(LatestReceiptHash, r)[i] = LatestReceiptHash[i]
        /\ Append(LatestReceiptHash, r)[Len(LatestReceiptHash) + 1] = r
    BY <1>1 DEF Hash
  <2>4. /\ Len(chain') = Len(chain) + 1 /\ DOMAIN chain' = 1 .. (Len(chain) + 1)
        /\ DOMAIN chain = 1 .. Len(chain)
        /\ \A i \in 1 .. Len(chain) : chain'[i] = chain[i]
        /\ chain'[Len(chain) + 1].receipt = r
    BY <1>1, <2>2
  <2>5. ASSUME NEW i \in 1 .. (Len(chain) + 1)
        PROVE  Append(LatestReceiptHash, r)[i] = chain'[i].receipt
    <3>1. CASE i \in 1 .. Len(chain)
      <4>1. Append(LatestReceiptHash, r)[i] = LatestReceiptHash[i]
        BY <2>3, <3>1 DEF WholeLineage
      <4>2. LatestReceiptHash[i] = chain[i].receipt
        BY <2>4, <3>1 DEF WholeLineage
      <4> QED
        BY <2>4, <3>1, <4>1, <4>2
    <3>2. CASE i = Len(chain) + 1
      BY <2>3, <2>4, <3>2 DEF WholeLineage
    <3>3. i \in 1 .. Len(chain) \/ i = Len(chain) + 1
      BY <1>1
    <3> QED
      BY <3>1, <3>2, <3>3
  <2> QED
    BY <2>1, <2>3, <2>4, <2>5 DEF WholeLineage
<1>4. ASSUME NEW r \in Receipt,
             MakeReceipt(r) \/ CheckHead(r) \/ RefuseReceipt(r) \/ LoseReceipt(r)
      PROVE  chain' = chain
  BY <1>4 DEF MakeReceipt, CheckHead, RefuseReceipt, LoseReceipt
<1> QED
  BY <1>2, <1>3, <1>4 DEF ChainNext, chainVars

LEMMA HeadCommitsToAllRows ==
    ASSUME Serial
    PROVE  ChainSpec => []WholeLineage
<1>1. ChainInit => WholeLineage
  BY DEF ChainInit, WholeLineage, LatestReceiptHash, HashOfRow, NoHash
<1>2. SerialInv /\ SerialInv' /\ WholeLineage /\ [ChainNext]_chainVars => WholeLineage'
  BY WholeLineageStep
<1> QED
  BY <1>1, <1>2, SerialInvariance, PTL DEF ChainSpec

-----------------------------------------------------------------------------
(* What an issuer was told, as ReceiptChain maps it to ChainLog. *)
Told(r) == CASE pc[r] = "appended" -> "logged"
             [] pc[r] \in {"refused", "failed"} -> "dropped"
             [] OTHER -> "pending"

LEMMA InitRefines == ChainInit => Log!LogInit
  BY DEF ChainInit, Log!LogInit, LatestReceiptHash, HashOfRow, NoHash

(* Every step of the serial system is a step of ChainLog or a stutter.     *)
LEMMA NextRefines ==
    ASSUME Serial
    PROVE  SerialInv /\ SerialInv' /\ [ChainNext]_chainVars
              => [Log!LogNext]_(Log!logVars)
<1> SUFFICES ASSUME SerialInv, SerialInv', [ChainNext]_chainVars
             PROVE  [Log!LogNext]_(Log!logVars)
  OBVIOUS
<1> DEFINE outcome == [r \in Receipt |-> Told(r)]
<1>t. pc \in [Receipt -> Phase] /\ pc' \in [Receipt -> Phase]
  BY DEF SerialInv, ChainTypeOK
<1>a. ASSUME outcome' = outcome, LatestReceiptHash' = LatestReceiptHash
      PROVE  UNCHANGED Log!logVars
  BY <1>a DEF Log!logVars, Told
<1>1. CASE UNCHANGED chainVars
  BY <1>1, <1>a DEF chainVars, Told, LatestReceiptHash, HashOfRow
<1>2. ASSUME NEW r \in Receipt, MakeReceipt(r) \/ CheckHead(r)
      PROVE  UNCHANGED Log!logVars
  <2>1. LatestReceiptHash' = LatestReceiptHash
    BY <1>2 DEF MakeReceipt, CheckHead, LatestReceiptHash, HashOfRow
  <2>2. \A q \in Receipt : Told(q)' = Told(q)
    BY <1>2, <1>t DEF MakeReceipt, CheckHead, Told
  <2> QED
    BY <2>1, <2>2, <1>a
<1>3. ASSUME NEW r \in Receipt, RefuseReceipt(r) \/ LoseReceipt(r)
      PROVE  Log!Drop(r)
  <2>1. LatestReceiptHash' = LatestReceiptHash
    BY <1>3 DEF RefuseReceipt, LoseReceipt, LatestReceiptHash, HashOfRow
  <2>2. /\ Told(r) = "pending" /\ Told(r)' = "dropped"
        /\ \A q \in Receipt \ {r} : Told(q)' = Told(q)
    BY <1>3, <1>t DEF RefuseReceipt, LoseReceipt, InFlight, Told
  <2>3. /\ outcome[r] = "pending"
        /\ outcome' = [outcome EXCEPT ![r] = "dropped"]
    BY <2>2
  <2> QED
    BY <2>1, <2>3 DEF Log!Drop, Told
<1>4. ASSUME NEW r \in Receipt, InsertReceipt(r)
      PROVE  Log!Log(r)
  <2>1. LatestReceiptHash' = Append(LatestReceiptHash, r)
    BY <1>4, SerialInsertInv DEF SerialInv, ChainedHash
  <2>2. /\ Told(r) = "pending" /\ Told(r)' = "logged"
        /\ \A q \in Receipt \ {r} : Told(q)' = Told(q)
    BY <1>4, <1>t DEF InsertReceipt, Told
  <2>3. /\ outcome[r] = "pending"
        /\ outcome' = [outcome EXCEPT ![r] = "logged"]
    BY <2>2
  <2> QED
    BY <2>1, <2>3 DEF Log!Log, Told
<1> QED
  BY <1>1, <1>2, <1>3, <1>4 DEF ChainNext, Log!LogNext

(* When no two appends overlap, the three sessions of an append implement  *)
(* one atomic step of an append-only log: each extends the lineage behind  *)
(* the newest hash by its own receipt, or leaves it alone for good.        *)
THEOREM SerialChainImplementsLog ==
    ASSUME Serial
    PROVE  ChainSpec => ImplementsChainLog
<1>1. SerialInv /\ SerialInv' /\ [ChainNext]_chainVars
         => [Log!LogNext]_(Log!logVars)
  BY NextRefines
<1> QED
  BY <1>1, InitRefines, SerialInvariance, PTL
  DEF ChainSpec, ImplementsChainLog, Log!LogSpec
=============================================================================
