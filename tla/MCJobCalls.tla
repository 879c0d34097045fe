----------------------------- MODULE MCJobCalls -----------------------------
(* Small instances of JobCalls for TLC. *)
EXTENDS JobCalls

CONSTANTS Inner, Outer   \* Inner is called by the consumer of the stream Outer

Ids == 1..Cardinality(Receivers)
OneShard == [id \in Ids |-> "shard"]
Nested == [c \in Receivers |-> IF c = Inner THEN Outer ELSE NoCall]
=============================================================================
