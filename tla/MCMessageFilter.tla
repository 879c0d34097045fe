-------------------------- MODULE MCMessageFilter --------------------------
(* Small instances of MessageFilter for TLC. *)
EXTENDS MessageFilter

\* Every job id in one shard: any registration may meet the task's guard.
OneShard == [id \in JobIds |-> "shard"]
============================================================================
