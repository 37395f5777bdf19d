--------------------------- MODULE MCTxnNotifier ---------------------------
(* TxnNotifier for TLC: extrinsics, and scans, are interchangeable.        *)
EXTENDS TxnNotifier, TLC

Symmetry == Permutations(Txns)
ScanSymmetry == Permutations(Txns) \cup Permutations(Scans)
=============================================================================
