--------------------------- MODULE MCNonceService ---------------------------
(***************************************************************************)
(* NonceService for TLC: jobs, and services, are interchangeable.          *)
(***************************************************************************)
EXTENDS NonceService, TLC

Symmetry == Permutations(Jobs) \cup Permutations(Services)

=============================================================================
