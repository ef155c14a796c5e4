---------------------------- MODULE MCChainAudit ----------------------------
(* Instance of ChainAudit for TLC. *)
EXTENDS ChainAudit, TLC

CONSTANTS r1, r2, r3

ThreeReceipts == {r1, r2, r3}

ReceiptSymmetry == Permutations(ThreeReceipts)
=============================================================================
