---------------------------- MODULE MCFilesystem ----------------------------
(***************************************************************************)
(* Filesystem with paths of one and two names; calls are alike.            *)
(***************************************************************************)
EXTENDS Filesystem, TLC

CallPaths == {<<1>>, <<2>>, <<2, 1>>}
CallSymmetry == Permutations(Calls)
====
