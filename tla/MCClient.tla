------------------------------ MODULE MCClient ------------------------------
(* Small instances of Client for TLC; the values are in the client_*.cfg. *)
EXTENDS Client, TLC

\* uuids are only compared for equality.
Symmetry == Permutations(ReqIDs)
=============================================================================
