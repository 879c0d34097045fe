---------------------------- MODULE RequestReply ----------------------------
(***************************************************************************)
(* What job, service_method and job_multi of connection/mod.rs promise     *)
(* their callers, with no filters, job ids or channels: a call is open     *)
(* until it returns, it returns the answers to its own request in order,   *)
(* and it ends with the completed one or with an error.                    *)
(***************************************************************************)
EXTENDS Naturals, Sequences, Functions

CONSTANTS Calls, Multi

VARIABLES
    status,  \* of each call: "idle", "open" or "done"
    answers, \* what the server answered to each call: a set of answers, each
             \* with the number n it was sent as
    taken,   \* the answers the call returned, a sequence
    result   \* how it ended
vars == <<status, answers, taken, result>>

Init ==
    /\ status = [c \in Calls |-> "idle"] /\ result = [c \in Calls |-> "none"]
    /\ answers = [c \in Calls |-> {}] /\ taken = [c \in Calls |-> <<>>]

Ask(c) ==
    /\ status[c] = "idle" /\ status' = [status EXCEPT ![c] = "open"]
    /\ UNCHANGED <<answers, taken, result>>

\* Answers may come after the call has given up; they may be lost.
Answer(c) ==
    /\ status[c] # "idle"
    /\ \E a \in answers'[c] :
         /\ \A b \in answers[c] : b.n < a.n
         /\ answers' = [answers EXCEPT ![c] = @ \cup {a}]
    /\ UNCHANGED <<status, taken, result>>

Lose(c) ==
    /\ \E a \in answers[c] \ Range(taken[c]) :
         answers' = [answers EXCEPT ![c] = @ \ {a}]
    /\ UNCHANGED <<status, taken, result>>

Finish(c, how) ==
    status' = [status EXCEPT ![c] = "done"] /\ result' = [result EXCEPT ![c] = how]

\* The first answer that was not returned yet.
Take(c) ==
    /\ status[c] = "open"
    /\ \E a \in answers[c] \ Range(taken[c]) :
         /\ \A b \in answers[c] : b.n < a.n => b \in Range(taken[c])
         /\ taken' = [taken EXCEPT ![c] = Append(@, a)]
    /\ IF c \in Multi THEN UNCHANGED <<status, result>> ELSE Finish(c, "ok")
    /\ UNCHANGED answers

Complete(c) ==
    /\ status[c] = "open" /\ taken[c] # <<>> /\ taken[c][Len(taken[c])].last
    /\ Finish(c, "ok") /\ UNCHANGED <<answers, taken>>

\* The channel is never closed under the call: "eof" is no way to end.
GiveUp(c) ==
    /\ status[c] = "open"
    /\ \E how \in {"error", "timeout", "cancelled"} : Finish(c, how)
    /\ UNCHANGED <<answers, taken>>

Next == \E c \in Calls : \/ Ask(c) \/ Answer(c) \/ Lose(c) \/ Take(c)
                         \/ Complete(c) \/ GiveUp(c)

Spec == Init /\ [][Next]_vars
=============================================================================
