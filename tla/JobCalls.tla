------------------------------ MODULE JobCalls ------------------------------
(***************************************************************************)
(* connection/mod.rs: job, service_method and job_multi, on top of the     *)
(* dispatch task of MessageFilter, the job id counter of session.rs and a  *)
(* server that answers.                                                    *)
(*                                                                         *)
(* A call is identified with the receiver it opens.  The transport from    *)
(* the server is stream: the filter has read its first "read" items.       *)
(***************************************************************************)
EXTENDS MessageFilter, FiniteSets

CONSTANTS
    Multi,     \* the calls that are job_multi streams; the others are
               \* job and service_method, which differ in decoding only
    Parent,    \* the stream in whose consumer a call is made, or NoCall
    NoCall,
    ReplyKind, \* the kind of every reply
    MaxParts,  \* replies per job_multi request (bound)
    Talkative  \* does the server send more parts after the completed one?

Calls == Receivers

ASSUME CallsAssumption ==
    /\ IsFiniteSet(Calls) /\ Multi \subseteq Calls /\ NoCall \notin Calls
    /\ JobIds = 1..Cardinality(Calls)
    /\ Parent \in [Calls -> Multi \cup {NoCall}]
    /\ ReplyKind \in Kinds \ {KEMsgServiceMethod}
    /\ MaxParts \in Nat /\ Talkative \in BOOLEAN

VARIABLES
    next_job_id, \* JobIdCounter
    pc,          \* where each call is: its next await, or "consumer" when the
                 \* stream has yielded a part
    job,         \* the source_job_id of each call
    got,         \* the positions in stream of the parts each call returned
    outcome,     \* how each call ended
    requests,    \* the calls whose request reached the server
    stream       \* what the server sent

callVars == <<pc, job, next_job_id, got, outcome>>
server   == <<requests, stream>>
vars     == <<filterVars, callVars, server>>

Init ==
    /\ FilterInit
    /\ next_job_id = 1
    /\ pc = [c \in Calls |-> "idle"] /\ job = [c \in Calls |-> NONE]
    /\ got = [c \in Calls |-> <<>>] /\ outcome = [c \in Calls |-> "none"]
    /\ requests = {} /\ stream = <<>>

Goto(c, where) == pc' = [pc EXCEPT ![c] = where]
Completed(c) == got[c] # <<>> /\ stream[got[c][Len(got[c])]].last

-----------------------------------------------------------------------------
(* The server and the transport. *)

Answers(c) == {i \in DOMAIN stream : stream[i].call = c}

\* One reply to the request of c, or one part of a job_multi response.
Reply(c, last, ok) ==
    /\ c \in requests /\ Len(stream) < MaxMessages
    /\ Cardinality(Answers(c)) < IF c \in Multi THEN MaxParts ELSE 1
    /\ Talkative \/ \A i \in Answers(c) : ~stream[i].last
    /\ c \notin Multi => last
    /\ stream' = Append(stream, [call |-> c, target |-> job[c],
                                 last |-> last, ok |-> ok])
    /\ UNCHANGED <<filterVars, callVars, requests>>

Receive ==
    /\ read < Len(stream)
    /\ Read([seq |-> read + 1, target |-> stream[read + 1].target,
             kind |-> ReplyKind, job_name |-> Unreadable])
    /\ UNCHANGED <<callVars, server>>

\* The next item does not decode: the task skips it.
ReceiveGarbled ==
    /\ read < Len(stream) /\ Skip
    /\ stream' = [stream EXCEPT ![read + 1].call = NoCall]
    /\ UNCHANGED <<callVars, requests>>

Disconnect == Stop /\ UNCHANGED <<callVars, server>>

FilterStep == Dispatch /\ UNCHANGED <<callVars, server>>

-----------------------------------------------------------------------------
(* The calls. *)

\* session().header(true): a part of a stream is consumed by code that may
\* make calls of its own.
BeginShared(c) ==                            \* for a mutant: load, no fetch_add
    /\ pc[c] = "idle"
    /\ Parent[c] # NoCall => pc[Parent[c]] = "consumer"
    /\ job' = [job EXCEPT ![c] = next_job_id] /\ Goto(c, "register")
    /\ UNCHANGED <<filterVars, got, outcome, server, next_job_id>>
Begin(c) ==
    /\ pc[c] = "idle"
    /\ Parent[c] # NoCall => pc[Parent[c]] = "consumer"
    /\ job' = [job EXCEPT ![c] = next_job_id] /\ next_job_id' = next_job_id + 1
    /\ Goto(c, "register")
    /\ UNCHANGED <<filterVars, got, outcome, server>>

Register(c) ==
    /\ pc[c] = "register"
    /\ IF c \in Multi THEN OnJobIdMulti(c, job[c]) ELSE OnJobId(c, job[c])
    /\ Goto(c, "send")
    /\ UNCHANGED <<job, next_job_id, got, outcome, server>>

Send(c) ==
    /\ pc[c] = "send"
    /\ requests' = requests \cup {c} /\ Goto(c, "wait")
    /\ UNCHANGED <<filterVars, job, next_job_id, got, outcome, stream>>

\* The call returns, which drops its receiver but not the sender in the map.
End(c, how) ==
    /\ Drop(c) /\ Goto(c, "done") /\ outcome' = [outcome EXCEPT ![c] = how]
    /\ UNCHANGED <<job, next_job_id, got, server>>

SendFails(c) == pc[c] = "send" /\ End(c, "error")

\* The timeout fires, or the channel is closed, with no message to return.
GiveUpOnlyClosed(c) ==                       \* for a mutant: no timeout()
    pc[c] = "wait" /\ Closed(c) /\ End(c, "eof")
GiveUp(c) ==
    /\ pc[c] = "wait" /\ inbox[c] = <<>>
    /\ End(c, IF Closed(c) THEN "eof" ELSE "timeout")

\* The caller drops the future, and with it the calls its consumer is in.
Quiet(c) == \A d \in Calls : Parent[d] = c => pc[d] \in {"idle", "done"}

Cancel(c) ==
    /\ pc[c] \in {"send", "wait", "consumer"} /\ Quiet(c)
    /\ End(c, "cancelled")

Answer(c) == Head(inbox[c]).seq

Return(c) ==
    /\ pc[c] = "wait" /\ inbox[c] # <<>> /\ stream[Answer(c)].ok
    /\ Recv(c)
    /\ got' = [got EXCEPT ![c] = Append(@, Answer(c))]
    /\ IF c \in Multi
       THEN Goto(c, "consumer") /\ UNCHANGED outcome
       ELSE Goto(c, "done") /\ outcome' = [outcome EXCEPT ![c] = "ok"]
    /\ UNCHANGED <<job, next_job_id, server>>

\* An error in the header, or a body that does not decode.
ReturnError(c) ==
    /\ pc[c] = "wait" /\ inbox[c] # <<>> /\ ~stream[Answer(c)].ok
    /\ End(c, "error")

\* The consumer asks for the next part.
ResumeAnyway(c) ==                           \* for a mutant: completed ignored
    /\ pc[c] = "consumer" /\ Quiet(c) /\ Goto(c, "complete")
    /\ UNCHANGED <<filterVars, job, next_job_id, got, outcome, server>>
Resume(c) ==
    /\ pc[c] = "consumer" /\ Quiet(c)
    /\ Goto(c, IF Completed(c) THEN "complete" ELSE "wait")
    /\ UNCHANGED <<filterVars, job, next_job_id, got, outcome, server>>

CompleteKeep(c) ==                           \* for a mutant: entry left behind
    /\ pc[c] = "complete" /\ Goto(c, "close")
    /\ UNCHANGED <<filterVars, job, next_job_id, got, outcome, server>>
Complete(c) ==
    /\ pc[c] = "complete" /\ CompleteJobIdMulti(job[c]) /\ Goto(c, "close")
    /\ UNCHANGED <<job, next_job_id, got, outcome, server>>

Close(c) == pc[c] = "close" /\ End(c, "ok")

Step(c) ==
    \/ Register(c)
    \/ Send(c)
    \/ Return(c)
    \/ ReturnError(c)
    \/ GiveUp(c)
    \/ Resume(c)
    \/ Complete(c)
    \/ Close(c)

Next ==
    \/ \E c \in Calls, last, ok \in BOOLEAN : Reply(c, last, ok)
    \/ Receive
    \/ ReceiveGarbled
    \/ Disconnect
    \/ FilterStep
    \/ \E c \in Calls :
         \/ Begin(c)
         \/ SendFails(c)
         \/ Cancel(c)
         \/ Step(c)

\* The runtime polls the dispatch task and the calls, and timers fire.  The
\* sink is assumed to take or refuse a request: raw_send is outside the timeout
\* (mod.rs lines 328, 340, 356).  The server need not answer.
Spec == /\ Init /\ [][Next]_vars
        /\ WF_vars(FilterStep)
        /\ \A c \in Calls : WF_vars(Step(c))

-----------------------------------------------------------------------------
(* Properties. *)

\* Every variable has its type.
CallTypeOK ==
    /\ TypeOK
    /\ next_job_id \in 1..Cardinality(Calls) + 1
    /\ pc \in [Calls -> {"idle", "register", "send", "wait", "consumer",
                         "complete", "close", "done"}]
    /\ job \in [Calls -> JobIds \cup {NONE}]
    /\ got \in [Calls -> Seq(1..MaxMessages)]
    /\ outcome \in [Calls -> {"none", "ok", "error", "timeout", "eof", "cancelled"}]
    /\ requests \in SUBSET Calls
    /\ stream \in Seq([call: Calls \cup {NoCall}, target: JobIds,
                       last: BOOLEAN, ok: BOOLEAN])

\* A call returns answers to its own request and to no other, in the order
\* they were sent, whatever the interleaving of calls, late answers of calls
\* that gave up, and new registrations (mod.rs lines 325-371).
OwnAnswersInOrder ==
    \A c \in Calls :
        /\ \A i \in DOMAIN got[c] : stream[got[c][i]].call = c
        /\ \A i, j \in DOMAIN got[c] : i < j => got[c][i] < got[c][j]

\* No answer is lost on the way to a call that waits for it: it is still to
\* be read, under dispatch, in the channel of the call, or was returned.
\* It depends on the registration coming before the request is sent.
NoAnswerLost ==
    \A c \in Calls : pc[c] \in {"wait", "consumer"} =>
        \A i \in Answers(c) :
            \/ i > read
            \/ message.seq = i
            \/ \E k \in DOMAIN inbox[c] : inbox[c][k].seq = i
            \/ i \in Range(got[c])

\* An entry outlives its call only if the call did not end well: job_multi
\* removes its entry, and the dispatch removes the others (mod.rs line 369,
\* filter.rs line 85).
LeftOnlyAfterGivingUp ==
    \A c \in Range(job_id_filters) \cup Range(job_id_multi_filters) :
        outcome[c] # "ok"

\* No call is told that its channel was closed, not even after the transport
\* ended: an entry is never replaced, and only its own call removes it.
NeverEOF == \A c \in Calls : outcome[c] # "eof"

\* A job_multi stream ends well with its completed part and only then, and has
\* returned every part before it that reached the client.
WholeStream ==
    \A c \in Multi : outcome[c] = "ok" =>
        Completed(c) /\ {i \in Answers(c) : i <= got[c][Len(got[c])]} = Range(got[c])

\* mod.rs lines 219 and 225: a call waits for its response, a stream goes on
\* until a response marks that it is complete: every call ends.
CallsEnd == \A c \in Calls : (pc[c] = "register") ~> (pc[c] = "done")

\* One thing alone keeps calls whose request the sink takes or refuses from
\* ending: the task waits for room in the
\* channel of a stream, with the shard locked, while code that would make room
\* waits for that shard, to register a stream or to remove the entry of one
\* (filter.rs lines 88-92, 140-148; mod.rs lines 325-371).
Blocked == \E d \in Multi : pc[d] \in {"register", "complete"} /\ Guarded(job[d])
EndsUnlessBlocked ==
    \A c \in Calls : (pc[c] = "register") ~> (pc[c] = "done" \/ []Blocked)

-----------------------------------------------------------------------------
(* The abstract specification this one implements. *)

Numbered(i) == [n |-> i, last |-> stream[i].last]

Abstract == INSTANCE RequestReply WITH
    status  <- [c \in Calls |-> IF pc[c] \in {"idle", "done"} THEN pc[c] ELSE "open"],
    answers <- [c \in Calls |-> {Numbered(i) : i \in Answers(c)}],
    taken   <- [c \in Calls |-> [j \in DOMAIN got[c] |-> Numbered(got[c][j])]],
    result  <- outcome

\* Every behaviour of the calls is one of RequestReply.
ImplementsRequestReply == Abstract!Spec
=============================================================================
