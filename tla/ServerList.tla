----------------------------- MODULE ServerList -----------------------------
(***************************************************************************)
(* serverlist.rs: a rotating list shared by connections.  A server is its  *)
(* position in the list, after the shuffle of TryFrom.  pick takes the     *)
(* next server, tcp_servers and ws_servers take as many as the list has,   *)
(* both under one lock.  The two lists of a ServerList are two instances.  *)
(***************************************************************************)
EXTENDS Integers, Sequences

CONSTANTS
    Count,    \* tcp_count or ws_count
    Threads,  \* what uses clones of the list
    MaxRounds \* bound on how often the list is gone through, for TLC

\* ServerList::new refuses an empty list.
ASSUME ListAssumption == Count \in Nat \ {0} /\ MaxRounds \in Nat

Servers == 1..Count
Idle == [op |-> "idle", result |-> <<>>]

VARIABLES
    next,    \* the server the cycle is at
    lock,    \* the thread that holds the mutex, as a set of at most one
    call,    \* of each thread: the operation and what it collected so far
    offered  \* how often each server was taken from the cycle
vars == <<next, lock, call, offered>>

Init ==
    /\ next = 1 /\ lock = {} /\ call = [t \in Threads |-> Idle]
    /\ offered = [s \in Servers |-> 0]

\* Cycle::next
Advance ==
    /\ next' = IF next = Count THEN 1 ELSE next + 1
    /\ offered' = [offered EXCEPT ![next] = @ + 1]

\* The lock is taken.
Begin(t, op) ==
    /\ offered[1] < MaxRounds /\ lock = {} /\ lock' = {t} /\ call[t].op \in {"idle", "done"}
    /\ call' = [call EXCEPT ![t] = [op |-> op, result |-> <<>>]]
    /\ UNCHANGED <<next, offered>>

PickStale(t) ==                              \* for a mutant: cycle not advanced
    /\ call[t].op = "pick" /\ t \in lock /\ lock' = {} /\ UNCHANGED next
    /\ offered' = [offered EXCEPT ![next] = @ + 1]
    /\ call' = [call EXCEPT ![t] = Idle]
\* pick and pick_ws
Pick(t) ==
    /\ call[t].op = "pick" /\ t \in lock /\ lock' = {} /\ Advance
    /\ call' = [call EXCEPT ![t] = Idle]

TakeUnlocked(t) ==                           \* for a mutant: locked per item
    /\ call[t].op = "all" /\ (t \in lock \/ lock = {})
    /\ IF Len(call[t].result) < Count
       THEN /\ Advance /\ lock' = {}
            /\ call' = [call EXCEPT ![t].result = Append(@, next)]
       ELSE /\ lock' = {} /\ call' = [call EXCEPT ![t].op = "done"]
            /\ UNCHANGED <<next, offered>>
\* take_from_iter, for tcp_servers and ws_servers
Take(t) ==
    /\ call[t].op = "all" /\ t \in lock
    /\ IF Len(call[t].result) < Count
       THEN /\ Advance /\ UNCHANGED lock
            /\ call' = [call EXCEPT ![t].result = Append(@, next)]
       ELSE /\ lock' = {} /\ call' = [call EXCEPT ![t].op = "done"]
            /\ UNCHANGED <<next, offered>>

Next == \E t \in Threads :
    \/ \E op \in {"pick", "all"} : Begin(t, op)
    \/ Pick(t)
    \/ Take(t)

Spec == Init /\ [][Next]_vars

-----------------------------------------------------------------------------
(* Properties. *)

\* Every variable has its type; the lock is held during a call only.
TypeOK ==
    /\ next \in Servers /\ offered \in [Servers -> Nat]
    /\ call \in [Threads -> [op: {"idle", "pick", "all", "done"}, result: Seq(Servers)]]
    /\ lock \in SUBSET Threads
    /\ \A t \in Threads : t \in lock <=> call[t].op \in {"pick", "all"}
    /\ \A t, u \in lock : t = u

\* serverlist.rs line 111: "rotating them in a round-robin way for
\* reconnects".  Whatever picks and listings cross, no server is offered
\* twice more than another.
RoundRobin == \A s, t \in Servers : offered[s] <= offered[t] + 1

\* A listing has every server exactly once, also when others pick meanwhile
\* (test_save_servers, lines 170-179, checks it for one thread).
ListsEveryServer ==
    \A t \in Threads : call[t].op = "done" =>
        /\ Len(call[t].result) = Count
        /\ \A i, j \in 1..Count : call[t].result[i] = call[t].result[j] => i = j
=============================================================================
