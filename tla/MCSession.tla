------------------------------ MODULE MCSession ------------------------------
(* Small instances of Session for TLC; the values are in the session_*.cfg. *)
EXTENDS Session, TLC

\* The ids of the client's requests are only compared for equality.
Symmetry == Permutations(Reqs)
=============================================================================
