------------------------------- MODULE MCStdIO -------------------------------
(* A small instance of StdIO for TLC: the last request of the client has a   *)
(* reply that is too long.                                                   *)
EXTENDS StdIO

CONSTANTS c1, c2, s1
LongReply == {<<"res", c2>>}
=============================================================================
