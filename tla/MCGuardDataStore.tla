-------------------------- MODULE MCGuardDataStore --------------------------
(* Small instances of GuardDataStore for TLC. *)
EXTENDS GuardDataStore, TLC

Symmetry == Permutations(Stores) \cup Permutations(Accounts) \cup Permutations(Tokens)
=============================================================================
