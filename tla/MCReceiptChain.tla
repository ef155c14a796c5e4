--------------------------- MODULE MCReceiptChain ---------------------------
(* Instances of ReceiptChain for TLC. *)
EXTENDS ReceiptChain, TLC

CONSTANTS r1, r2, r3, r4

ThreeReceipts == {r1, r2, r3}
FourReceipts == {r1, r2, r3, r4}

(* Receipts are interchangeable; used by the runs without liveness. *)
ReceiptSymmetry == Permutations(FourReceipts)
=============================================================================
