-------------------------- MODULE CoordinatorCalls --------------------------
(***************************************************************************)
(* job, as a game coordinator makes it (connection/mod.rs lines 338-346    *)
(* over game_coordinator/mod.rs lines 170-212).  The coordinator registers *)
(* with a filter of its own, to which its forwarding task hands the        *)
(* answers to every coordinator of the connection; what keeps them apart   *)
(* is that all sessions share one job id counter.                          *)
(*                                                                         *)
(* Each coordinator makes one call: calls side by side over one filter are *)
(* in JobCalls.  Whoever else draws job ids, the calls of the connection   *)
(* and of coordinators that are not in Apps, is "others".                  *)
(***************************************************************************)
EXTENDS GameCoordinator, Functions

CONSTANT MaxJobs   \* bound on the job ids drawn
ASSUME JobsAssumption == MaxJobs \in Nat /\ "reply" \in Carried

NONE == 0          \* the target of a message that answers no job

VARIABLES
    next_job_id, \* the JobIdCounter of the session
    others,      \* the job ids of the calls of others
    call,        \* where the call of each coordinator is
    job,         \* its source_job_id
    entry,       \* is its sender in the job_id_filters of the coordinator?
    answer,      \* what was sent through it, a sequence of at most one message
    outcome,     \* how the call ended
    asked,       \* the coordinators whose request reached the server
    target       \* for each message of said its target_job_id, and whose
                 \* request it answers

client   == <<call, job, outcome>>
waiter   == <<entry, answer>>
counter  == <<next_job_id, others>>
remote   == <<asked, target>>
calls    == <<client, waiter, counter, remote>>
allVars  == <<vars, calls>>

CallsInit ==
    /\ Init
    /\ next_job_id = 1 /\ others = {}
    /\ call = [a \in Apps |-> "idle"] /\ job = [a \in Apps |-> NONE]
    /\ entry = [a \in Apps |-> FALSE] /\ answer = [a \in Apps |-> <<>>]
    /\ outcome = [a \in Apps |-> "none"] /\ asked = {} /\ target = <<>>

-----------------------------------------------------------------------------
(* The call. *)

DrawFromOwn == UNCHANGED next_job_id         \* for a mutant: one counter each
Draw == next_job_id <= MaxJobs /\ next_job_id' = next_job_id + 1

\* header(true) and on_job_id
Ask(a) ==
    /\ pc[a] = "ready" /\ call[a] = "idle" /\ Draw
    /\ call' = [call EXCEPT ![a] = "send"]
    /\ job' = [job EXCEPT ![a] = next_job_id]
    /\ entry' = [entry EXCEPT ![a] = TRUE]
    /\ UNCHANGED <<vars, others, answer, outcome, remote>>

OthersAsk ==
    /\ Draw /\ others' = others \cup {next_job_id}
    /\ UNCHANGED <<vars, client, waiter, remote>>

\* raw_send_with_kind: the id travels in the header of the wrapped message.
SendRequest(a) ==
    /\ call[a] = "send" /\ call' = [call EXCEPT ![a] = "wait"]
    /\ asked' = asked \cup {a}
    /\ UNCHANGED <<vars, job, outcome, waiter, counter, target>>

\* The call returns, which drops its receiver but not the sender in the map.
End(a, how) ==
    /\ call' = [call EXCEPT ![a] = "done"] /\ outcome' = [outcome EXCEPT ![a] = how]
    /\ UNCHANGED <<vars, job, waiter, counter, remote>>

RequestFails(a) == call[a] = "send" /\ End(a, "error")

\* An answer may carry an error, or not decode.
Return(a) ==
    /\ call[a] = "wait" /\ answer[a] # <<>>
    /\ \E how \in {"ok", "error"} : End(a, how)

GiveUpClosed(a) ==                           \* for a mutant: no timeout()
    /\ call[a] = "wait" /\ answer[a] = <<>> /\ ~entry[a] /\ End(a, "eof")
GiveUp(a) == call[a] = "wait" /\ answer[a] = <<>> /\ End(a, "timeout")

Cancel(a) == call[a] \in {"send", "wait"} /\ End(a, "cancelled")

-----------------------------------------------------------------------------
(* What the server says, and the filter of the coordinator. *)

SayTo(a, what, id, whose) ==
    /\ Say(a, what) /\ target' = Append(target, [job |-> id, whose |-> whose])
    /\ UNCHANGED <<client, waiter, counter, asked>>

Reply(a) ==
    /\ a \in asked /\ \A i \in DOMAIN target : target[i].whose # {a}
    /\ SayTo(a, "reply", job[a], {a})

\* The answer to a call of others, which reaches this coordinator as well.
ReplyToOthers(a) == \E id \in others : SayTo(a, "reply", id, {})

Tell(a, what) == SayTo(a, what, NONE, {})

\* The else-if chain starts with the waiter for the job id (MessageFilter has
\* the rest of it).
DispatchJob(a) ==
    /\ Dispatch(a)
    /\ LET m == Head(channel[a])
       IN  IF entry[a] /\ m.carries = "reply" /\ target[m.n].job = job[a]
           THEN /\ entry' = [entry EXCEPT ![a] = FALSE]
                /\ answer' = IF call[a] = "done" THEN answer
                             ELSE [answer EXCEPT ![a] = <<m>>]
           ELSE UNCHANGED waiter
    /\ UNCHANGED <<client, counter, remote>>

CallsNext == \/ OthersAsk
             \/ \E a \in Apps :
                  \/ Step(a) /\ UNCHANGED calls
                  \/ DispatchJob(a)
                  \/ \E what \in Carried : Tell(a, what)
                  \/ Reply(a)
                  \/ ReplyToOthers(a)
                  \/ Ask(a)
                  \/ SendRequest(a)
                  \/ RequestFails(a)
                  \/ Return(a)
                  \/ GiveUp(a)
                  \/ Cancel(a)

\* As for GameCoordinator; besides, the call is polled, its timer fires, and
\* the sink takes or refuses its request, which no timeout guards.
CallsSpec ==
    /\ CallsInit /\ [][CallsNext]_allVars /\ Fairness
    /\ \A a \in Apps : WF_allVars(SendRequest(a) \/ Return(a) \/ GiveUp(a))

-----------------------------------------------------------------------------
(* Properties. *)

\* Every variable has its type.
CallTypeOK ==
    /\ TypeOK
    /\ next_job_id \in 1..MaxJobs + 1 /\ others \subseteq 1..MaxJobs
    /\ call \in [Apps -> {"idle", "send", "wait", "done"}]
    /\ job \in [Apps -> 0..MaxJobs] /\ entry \in [Apps -> BOOLEAN]
    /\ answer \in [Apps -> Seq(Message)] /\ asked \subseteq Apps
    /\ outcome \in [Apps -> {"none", "ok", "error", "timeout", "cancelled"}]
    /\ target \in Seq([job: 0..MaxJobs, whose: SUBSET Apps])
    /\ Len(target) = Len(said)

\* Although every coordinator is handed the answers to all of them, a call is
\* given the answer to its own request and no other: job ids are unique over
\* the connection, as with_app_id clones a session that shares the counter
\* (session.rs lines 117-137, mod.rs line 111).
OwnAnswer ==
    \A a \in Apps : answer[a] # <<>> => target[answer[a][1].n].whose = {a}

\* The answer to a call that waits is on its way through both filters, or was
\* given to the call, unless a buffer was overrun or the coordinator's filter
\* has ended.
NoAnswerLost ==
    \A a \in Apps, i \in DOMAIN target :
        call[a] = "wait" /\ target[i].whose = {a}
          /\ a \notin overrun /\ ~stopped[a] =>
            \E m \in UNION {Range(q[a]) : q \in {answer, channel, held, buffer}} :
                m.n = i

\* A call through a coordinator whose request the sink takes or refuses ends,
\* even if a payload that cannot be read has ended the dispatch task of its
\* filter, which nothing else notices (mod.rs line 102, filter.rs line 121).
CallsEnd == \A a \in Apps : (call[a] = "send") ~> (call[a] = "done")

-----------------------------------------------------------------------------
(* The same promise as that of a call of the connection itself. *)

Numbered(i) == [n |-> i, last |-> TRUE]

Abstract == INSTANCE RequestReply WITH
    Calls   <- Apps, Multi <- {},
    status  <- [a \in Apps |-> IF call[a] \in {"idle", "done"} THEN call[a] ELSE "open"],
    answers <- [a \in Apps |-> {Numbered(i) : i \in {i \in DOMAIN target :
                                                       target[i].whose = {a}}}],
    taken   <- [a \in Apps |-> IF outcome[a] = "ok" THEN <<Numbered(answer[a][1].n)>>
                               ELSE <<>>],
    result  <- outcome

\* Every behaviour of the calls of coordinators is one of RequestReply.
ImplementsRequestReply == Abstract!Spec
=============================================================================
