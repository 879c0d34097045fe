---------------------------- MODULE MCServerList ----------------------------
(* A small instance of ServerList for TLC. *)
EXTENDS ServerList, TLC

Symmetry == Permutations(Threads)
=============================================================================
