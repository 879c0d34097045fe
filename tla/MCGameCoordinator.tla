------------------------- MODULE MCGameCoordinator -------------------------
(* Small instances of GameCoordinator and CoordinatorCalls for TLC. *)
EXTENDS CoordinatorCalls
=============================================================================
