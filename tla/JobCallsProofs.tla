--------------------------- MODULE JobCallsProofs ---------------------------
(***************************************************************************)
(* What holds of JobCalls for any number of calls and streams, any nesting *)
(* of calls in consumers, any capacities and any server.  Under the calls  *)
(* is the dispatch task: they use it as MessageFilter says its clients do, *)
(* so what MessageFilterProofs proves of the filter holds here.            *)
(***************************************************************************)
EXTENDS JobCalls, MessageFilterProofs, FiniteSetTheorems

-----------------------------------------------------------------------------
(* The inductive invariant, on top of the one of the filter. *)

Begun == {c \in Calls : pc[c] # "idle"}

\* Every call that has begun has a job id of its own.
Jobs ==
    /\ next_job_id = Cardinality(Begun) + 1
    /\ \A c \in Calls : IF pc[c] = "idle" THEN job[c] = NONE
                        ELSE job[c] \in 1..(next_job_id - 1)
    /\ \A c, d \in Begun : job[c] = job[d] => c = d

\* The receiver of a call is opened by Register and dropped when it returns.
Handles ==
    \A c \in Calls :
        /\ handle[c] \in {"unused", "dropped", IF c \in Multi THEN "mpsc" ELSE "oneshot"}
        /\ handle[c] = "unused" <=> pc[c] \in {"idle", "register"}
        /\ handle[c] = "dropped" <=> pc[c] = "done"
        /\ outcome[c] = "none" <=> pc[c] # "done"
        /\ c \notin Multi => pc[c] \notin {"consumer", "complete", "close"}

\* An entry of a map belongs to the call that drew its id, and is there as
\* long as the call may be answered.
Entries ==
    /\ oneshot_kind_filters = <<>> /\ notification_filters = <<>> /\ kind_filters = <<>>
    /\ lagged = {}
    /\ \A k \in DOMAIN job_id_filters :
         LET c == job_id_filters[k]
         IN  c \notin Multi /\ job[c] = k /\ outcome[c] # "ok"
    /\ \A k \in DOMAIN job_id_multi_filters :
         LET c == job_id_multi_filters[k]
         IN  c \in Multi /\ job[c] = k /\ outcome[c] # "ok" /\ pc[c] # "close"
    /\ \A c \in Calls \ Multi :
         pc[c] \in {"send", "wait"} /\ inbox[c] = <<>> => job[c] \in DOMAIN job_id_filters
    /\ \A c \in Multi :
         pc[c] \in {"send", "wait", "consumer", "complete"} =>
             job[c] \in DOMAIN job_id_multi_filters

\* A map that was consulted without success has no entry since.
Consulted ==
    /\ stage \in {"job_id_multi", "sending", "oneshot_kind", "broadcast", "rest"} =>
         message.target \notin DOMAIN job_id_filters
    /\ stage \in {"oneshot_kind", "broadcast", "rest"} =>
         message.target \notin DOMAIN job_id_multi_filters

\* The message is an item of stream that was read, and not garbled.
Fits(m) == m.seq \in 1..read /\ stream[m.seq].call # NoCall
             /\ m.target = stream[m.seq].target

\* What the server sent, and what of it is on the way to the calls.
Answered ==
    /\ Len(stream) <= MaxMessages /\ read <= Len(stream)
    /\ \A c \in requests : pc[c] \notin {"idle", "register", "send"}
    /\ \A i \in DOMAIN stream :
         /\ i > read => stream[i].call # NoCall
         /\ stream[i].call # NoCall =>
              stream[i].call \in requests /\ stream[i].target = job[stream[i].call]
    /\ message # NoMessage => Fits(message)
    /\ \A c \in Calls : \A k \in DOMAIN inbox[c] :
         Fits(inbox[c][k]) /\ stream[inbox[c][k].seq].call = c
    /\ \A c \in Calls \ Multi : \A i, j \in Answers(c) : i = j

\* What calls have returned: no answer that came before it is missing.
Returned ==
    \A c \in Calls :
        /\ \A j \in DOMAIN got[c] : /\ got[c][j] < Newest /\ stream[got[c][j]].call = c
                                    /\ \A k \in DOMAIN inbox[c] : got[c][j] < inbox[c][k].seq
        /\ \A i, j \in DOMAIN got[c] : i < j => got[c][i] < got[c][j]
        /\ got[c] # <<>> =>
             \A i \in Answers(c) : i <= got[c][Len(got[c])] => i \in Range(got[c])
        /\ c \in Multi /\ (pc[c] \in {"complete", "close"} \/ outcome[c] = "ok") =>
             Completed(c)

CallIInv == CallTypeOK /\ IInvOrder /\ Jobs /\ Handles /\ Entries /\ Consulted
              /\ Answered /\ Returned /\ NoAnswerLost /\ NeverEOF
-----------------------------------------------------------------------------
\* The initial state satisfies the inductive invariant.
LEMMA InitCallIInv == Init => CallIInv
  <1> SUFFICES ASSUME Init PROVE CallIInv
    OBVIOUS
  <1> USE DEF Calls
  <1>1. IInvOrder /\ TypeOK
    BY InitIInvOrder DEF Init, IInvOrder, IInv
  <1>2. /\ next_job_id = 1 /\ requests = {} /\ stream = <<>>
        /\ \A c \in Calls : /\ pc[c] = "idle" /\ job[c] = NONE /\ got[c] = <<>>
                            /\ outcome[c] = "none" /\ inbox[c] = <<>>
                            /\ handle[c] = "unused"
        /\ read = 0 /\ stage = "next" /\ message = NoMessage
        /\ job_id_filters = <<>> /\ job_id_multi_filters = <<>>
        /\ oneshot_kind_filters = <<>> /\ notification_filters = <<>>
        /\ kind_filters = <<>> /\ lagged = {}
    BY DEF Init, FilterInit
  <1>3. Begun = {} /\ Cardinality(Begun) = 0
    BY <1>2, FS_EmptySet DEF Begun
  <1>4. Cardinality(Calls) \in Nat
    BY CallsAssumption, FS_CardinalityType
  <1>5. CallTypeOK
    BY <1>1, <1>4 DEF Init, CallTypeOK
  <1>6. Jobs
    BY <1>2, <1>3 DEF Jobs
  <1>7. Handles /\ Entries /\ Consulted
    BY <1>2, CallsAssumption DEF Handles, Entries, Consulted
  <1>8. Answered /\ Returned
    BY <1>2, FilterAssumption DEF Answered, Returned, Answers
  <1>9. NoAnswerLost /\ NeverEOF
    BY <1>2 DEF NoAnswerLost, NeverEOF
  <1> QED
    BY <1>1, <1>5, <1>6, <1>7, <1>8, <1>9 DEF CallIInv

\* Every call that has begun has a job id, and there is one left for every
\* call that has not.
LEMMA JobFacts ==
    ASSUME CallTypeOK, Jobs
    PROVE  /\ \A c \in Begun : job[c] \in JobIds /\ job[c] \in 1..(next_job_id - 1)
           /\ next_job_id \in Nat /\ IsFiniteSet(Begun)
           /\ \A c \in Calls : pc[c] = "idle" => next_job_id \in JobIds
  <1>1. IsFiniteSet(Begun) /\ Cardinality(Begun) <= Cardinality(Calls)
    BY CallsAssumption, FS_Subset DEF Begun
  <1>2. Cardinality(Begun) \in Nat /\ Cardinality(Calls) \in Nat
    BY <1>1, CallsAssumption, FS_CardinalityType
  <1>3. next_job_id = Cardinality(Begun) + 1 /\ JobIds = 1..Cardinality(Calls)
    BY CallsAssumption DEF Jobs
  <1>4. \A c \in Begun : job[c] \in 1..(next_job_id - 1)
    BY DEF Begun, Jobs
  <1>5. ASSUME NEW c \in Calls, pc[c] = "idle" PROVE Cardinality(Begun) # Cardinality(Calls)
    <2>1. c \notin Begun /\ Begun \subseteq Calls
      BY <1>5 DEF Begun
    <2> QED
      BY <2>1, CallsAssumption, FS_Subset
  <1> QED
    BY <1>1, <1>2, <1>3, <1>4, <1>5

\* What the server sent.
LEMMA StreamFacts ==
    ASSUME CallTypeOK
    PROVE  /\ Len(stream) \in Nat /\ DOMAIN stream = 1..Len(stream)
           /\ \A i \in DOMAIN stream :
                /\ stream[i].call \in Calls \cup {NoCall} /\ stream[i].target \in JobIds
                /\ stream[i].last \in BOOLEAN /\ stream[i].ok \in BOOLEAN
  <1> DEFINE T == [call: Calls \cup {NoCall}, target: JobIds, last: BOOLEAN, ok: BOOLEAN]
  <1>1. stream \in Seq(T)
    BY DEF CallTypeOK
  <1>2. \A t \in T : /\ t.call \in Calls \cup {NoCall} /\ t.target \in JobIds
                     /\ t.last \in BOOLEAN /\ t.ok \in BOOLEAN
    OBVIOUS
  <1> HIDE DEF T
  <1> QED
    BY <1>1, <1>2

\* An entry of a map is found under the id of its call, and only there.
LEMMA Owners ==
    ASSUME CallIInv
    PROVE  /\ \A k \in DOMAIN job_id_filters :
                /\ k \in JobIds /\ job_id_filters[k] \in Begun \ Multi
                /\ pc[job_id_filters[k]] # "register"
                /\ \A c \in Begun : job[c] = k => job_id_filters[k] = c
           /\ \A k \in DOMAIN job_id_multi_filters :
                /\ k \in JobIds /\ job_id_multi_filters[k] \in Begun \cap Multi
                /\ pc[job_id_multi_filters[k]] # "register"
                /\ \A c \in Begun : job[c] = k => job_id_multi_filters[k] = c
  <1> USE DEF Calls
  <1>1. ASSUME NEW k \in DOMAIN job_id_filters
        PROVE  k \in JobIds /\ job_id_filters[k] \in Calls
                 /\ handle[job_id_filters[k]] # "unused"
    BY <1>1, LookupMap DEF CallIInv, IInvOrder, IInv, TypeOK, Flavours
  <1>2. ASSUME NEW k \in DOMAIN job_id_multi_filters
        PROVE  k \in JobIds /\ job_id_multi_filters[k] \in Calls
                 /\ handle[job_id_multi_filters[k]] # "unused"
    BY <1>2, LookupMap DEF CallIInv, IInvOrder, IInv, TypeOK, Flavours
  <1>3. \A c \in Calls : handle[c] # "unused" => c \in Begun /\ pc[c] # "register"
    BY DEF CallIInv, Handles, Begun
  <1>4. \A c, d \in Begun : job[c] = job[d] => c = d
    BY DEF CallIInv, Jobs
  <1>5. \A k \in DOMAIN job_id_filters :
          job_id_filters[k] \notin Multi /\ job[job_id_filters[k]] = k
    BY DEF CallIInv, Entries
  <1>6. \A k \in DOMAIN job_id_multi_filters :
          job_id_multi_filters[k] \in Multi /\ job[job_id_multi_filters[k]] = k
    BY DEF CallIInv, Entries
  <1> QED
    BY <1>1, <1>2, <1>3, <1>4, <1>5, <1>6

\* The calls use the filter as MessageFilter says its clients do.  In
\* particular no call registers under an id that is in a map.
LEMMA CallsUseFilter == CallIInv /\ [Next]_vars => [FilterNext]_filterVars
  <1> SUFFICES ASSUME CallIInv, [Next]_vars PROVE [FilterNext]_filterVars
    OBVIOUS
  <1> USE DEF Calls
  <1>1. CASE Receive
    <2> DEFINE m == [seq |-> read + 1, target |-> stream[read + 1].target,
                     kind |-> ReplyKind, job_name |-> Unreadable]
    <2>1. Read(m) /\ read + 1 \in DOMAIN stream /\ read + 1 \in 1..MaxMessages
      BY <1>1, FilterAssumption
         DEF Receive, CallIInv, CallTypeOK, TypeOK, Answered
    <2>2. stream[read + 1].target \in JobIds
      BY <2>1, StreamFacts DEF CallIInv
    <2>3. m \in Message
      BY <2>1, <2>2, CallsAssumption DEF Message
    <2> QED
      BY <2>1, <2>3 DEF FilterNext
  <1>2. CASE ReceiveGarbled \/ Disconnect \/ FilterStep
    BY <1>2 DEF ReceiveGarbled, Disconnect, FilterStep, Dispatch, FilterNext
  <1>3. ASSUME NEW c \in Calls, Register(c) PROVE FilterNext
    <2>1. c \in Begun /\ pc[c] = "register" /\ job[c] \in JobIds
      BY <1>3, JobFacts DEF Register, Begun, CallIInv
    <2>2. job[c] \in Unregistered
      BY <2>1, Owners DEF Unregistered
    <2>3. OnJobId(c, job[c]) \/ OnJobIdMulti(c, job[c])
      BY <1>3 DEF Register
    <2> QED
      BY <2>2, <2>3 DEF FilterNext
  <1>4. ASSUME NEW c \in Calls, NEW how, End(c, how) PROVE FilterNext
    BY <1>4 DEF End, FilterNext
  <1>5. ASSUME NEW c \in Calls, Return(c) PROVE FilterNext
    BY <1>5 DEF Return, FilterNext
  <1>6. ASSUME NEW c \in Calls, Complete(c) PROVE FilterNext
    <2>1. job[c] \in JobIds
      BY <1>6, JobFacts DEF Complete, Begun, CallIInv
    <2> QED
      BY <1>6, <2>1 DEF Complete, FilterNext
  <1>7. ASSUME NEW c \in Calls, SendFails(c) \/ Cancel(c) \/ ReturnError(c)
                                  \/ GiveUp(c) \/ Close(c)
        PROVE  FilterNext
    BY <1>4, <1>7 DEF SendFails, Cancel, ReturnError, GiveUp, Close
  <1>8. CASE \E c \in Calls, last, ok \in BOOLEAN : Reply(c, last, ok)
    BY <1>8 DEF Reply
  <1>9. ASSUME NEW c \in Calls, Begin(c) \/ Send(c) \/ Resume(c)
        PROVE  UNCHANGED filterVars
    BY <1>9 DEF Begin, Send, Resume
  <1>10. CASE UNCHANGED vars
    BY <1>10 DEF vars
  <1> QED
    BY <1>1, <1>2, <1>3, <1>5, <1>6, <1>7, <1>8, <1>9, <1>10 DEF Next, Step

\* What is underway, and what was returned, was read before.
LEMMA Positions ==
    ASSUME CallIInv
    PROVE  /\ read \in Nat /\ read <= Len(stream) /\ Newest \in {read, read + 1}
           /\ message # NoMessage => message.seq = read /\ Newest = read /\ read >= 1
           /\ message = NoMessage => message.seq = 0 /\ Newest = read + 1
           /\ \A c \in Calls : \A j \in DOMAIN got[c] :
                got[c][j] \in 1..read /\ got[c][j] < Newest
           /\ \A c \in Calls : \A k \in DOMAIN inbox[c] :
                inbox[c][k].seq \in 1..read /\ inbox[c][k].seq < Newest
           /\ \A c \in Calls : /\ Len(got[c]) \in Nat /\ DOMAIN got[c] = 1..Len(got[c])
                               /\ Len(inbox[c]) \in Nat /\ DOMAIN inbox[c] = 1..Len(inbox[c])
                               /\ got[c] # <<>> => Len(got[c]) \in DOMAIN got[c]
                               /\ inbox[c] # <<>> => 1 \in DOMAIN inbox[c]
  <1> USE DEF Calls
  <1>1. read \in Nat /\ read <= Len(stream)
    BY FilterAssumption DEF CallIInv, CallTypeOK, TypeOK, Answered
  <1>2. message # NoMessage => message.seq = read /\ Newest = read /\ read >= 1
    BY DEF CallIInv, IInvOrder, Ordered, Newest, Answered, Fits
  <1>3. message = NoMessage => message.seq = 0 /\ Newest = read + 1
    BY DEF Newest, NoMessage
  <1>4. ASSUME NEW c \in Calls
        PROVE  /\ Len(got[c]) \in Nat /\ DOMAIN got[c] = 1..Len(got[c])
               /\ \A j \in DOMAIN got[c] : got[c][j] \in Nat \ {0}
               /\ Len(inbox[c]) \in Nat /\ DOMAIN inbox[c] = 1..Len(inbox[c])
               /\ got[c] # <<>> => Len(got[c]) \in DOMAIN got[c]
               /\ inbox[c] # <<>> => 1 \in DOMAIN inbox[c]
    <2>1. got[c] \in Seq(1..MaxMessages) /\ inbox[c] \in Queue
      BY DEF CallIInv, CallTypeOK, TypeOK
    <2> QED
      BY <2>1, FilterAssumption DEF Queue
  <1>5. \A c \in Calls : \A j \in DOMAIN got[c] : got[c][j] < Newest
    BY DEF CallIInv, Returned
  <1>6. \A c \in Calls : \A k \in DOMAIN inbox[c] :
          inbox[c][k].seq \in 1..read /\ inbox[c][k].seq < Newest
    BY DEF CallIInv, IInvOrder, Ordered, Before, Answered, Fits
  <1> QED
    BY <1>1, <1>2, <1>3, <1>4, <1>5, <1>6

\* The server answers: nothing on the way to the calls is touched.
LEMMA ReplyCallIInv ==
    ASSUME CallIInv, IInvOrder', NEW c \in Calls, NEW last \in BOOLEAN,
           NEW ok \in BOOLEAN, Reply(c, last, ok)
    PROVE  CallIInv'
  <1> USE DEF Calls
  <1> DEFINE a == [call |-> c, target |-> job[c], last |-> last, ok |-> ok]
  <1>1. /\ stream' = Append(stream, a) /\ Len(stream) < MaxMessages
        /\ c \in requests /\ c \in Begun /\ c # NoCall
        /\ read' = read /\ message' = message /\ inbox' = inbox /\ stage' = stage
        /\ handle' = handle /\ lagged' = lagged /\ Newest' = Newest
        /\ UNCHANGED <<callVars, requests>>
        /\ UNCHANGED <<job_id_filters, job_id_multi_filters, topics, oneshot>>
    BY CallsAssumption
       DEF Reply, filterVars, task, clients, oneshot, Newest, Begun, CallIInv, Answered
  <1>2. /\ Len(stream') = Len(stream) + 1 /\ DOMAIN stream' = 1..(Len(stream) + 1)
        /\ \A i \in DOMAIN stream : stream'[i] = stream[i]
        /\ stream'[Len(stream) + 1] = a
    BY <1>1, StreamFacts DEF CallIInv, CallTypeOK
  <1> HIDE DEF a
  <1>3. a.call = c /\ a.target = job[c]
    BY DEF a
  <1>4. Len(stream) \in Nat /\ DOMAIN stream = 1..Len(stream)
    BY StreamFacts DEF CallIInv
  <1>5. \A d \in Calls : Answers(d)' = Answers(d) \cup IF d = c THEN {Len(stream) + 1} ELSE {}
    BY <1>2, <1>3, <1>4 DEF Answers
  <1>6. CallTypeOK'
    <2>1. a \in [call: Calls \cup {NoCall}, target: JobIds, last: BOOLEAN, ok: BOOLEAN]
      BY <1>1, JobFacts DEF a, CallIInv
    <2>2. stream' \in Seq([call: Calls \cup {NoCall}, target: JobIds, last: BOOLEAN,
                           ok: BOOLEAN])
      BY <1>1, <2>1 DEF CallIInv, CallTypeOK
    <2>3. TypeOK'
      BY DEF IInvOrder, IInv
    <2> QED
      BY <1>1, <2>2, <2>3 DEF CallIInv, CallTypeOK, callVars
  <1>7. Jobs'
    BY <1>1 DEF CallIInv, Jobs, Begun, callVars
  <1>8. Handles' /\ Entries' /\ Consulted' /\ NeverEOF'
    BY <1>1 DEF CallIInv, Handles, Entries, Consulted, NeverEOF, callVars, topics, oneshot
  <1>9. Answered'
    <2>1. Len(stream') <= MaxMessages /\ read' <= Len(stream')
      BY <1>1, <1>2, <1>4, Positions, FilterAssumption DEF CallIInv, Answered
    <2>2. \A i \in 1..read : stream'[i] = stream[i]
      BY <1>2, <1>4, Positions
    <2>3. \A d \in Calls : \A k \in DOMAIN inbox[d] :
            stream'[inbox[d][k].seq] = stream[inbox[d][k].seq]
      BY <1>2, <1>4, Positions
    <2>4. \A i \in DOMAIN stream' :
            /\ i > read' => stream'[i].call # NoCall
            /\ stream'[i].call # NoCall =>
                 stream'[i].call \in requests' /\ stream'[i].target = job'[stream'[i].call]
      BY <1>1, <1>2, <1>3, <1>4 DEF CallIInv, Answered, callVars
    <2>5. ASSUME NEW d \in Calls \ Multi PROVE \A i, j \in Answers(d)' : i = j
      <3>1. CASE d # c
        BY <1>5, <2>5, <3>1 DEF CallIInv, Answered
      <3>2. CASE d = c
        <4>1. Cardinality(Answers(c)) < 1 /\ IsFiniteSet(Answers(c))
          <5>1. Answers(c) \subseteq 1..Len(stream) /\ IsFiniteSet(1..Len(stream))
            BY <1>4, FS_Interval DEF Answers
          <5> QED
            BY <2>5, <3>2, <5>1, FS_Subset DEF Reply
        <4>2. Answers(c) = {}
          BY <4>1, FS_EmptySet, FS_CardinalityType
        <4> QED
          BY <1>5, <3>2, <4>2
      <3> QED
        BY <3>1, <3>2
    <2>6. \A d \in requests' : pc'[d] \notin {"idle", "register", "send"}
      BY <1>1 DEF CallIInv, Answered, callVars
    <2>7. message' # NoMessage => Fits(message)'
      BY <1>1, <2>2 DEF CallIInv, Answered, Fits
    <2>8. (\A d \in Calls : \A k \in DOMAIN inbox[d] :
             Fits(inbox[d][k]) /\ stream[inbox[d][k].seq].call = d)'
      <3> SUFFICES ASSUME NEW d \in Calls, NEW k \in DOMAIN inbox[d]
                   PROVE  Fits(inbox[d][k])' /\ stream'[inbox[d][k].seq].call = d
        BY <1>1
      <3>1. Fits(inbox[d][k]) /\ stream[inbox[d][k].seq].call = d
        BY DEF CallIInv, Answered
      <3> QED
        BY <1>1, <2>2, <3>1 DEF Fits
    <2> QED
      BY <2>1, <2>4, <2>5, <2>6, <2>7, <2>8 DEF Answered
  <1>10. Returned'
    <2>1. got' = got /\ pc' = pc /\ outcome' = outcome
      BY <1>1 DEF callVars
    <2>2. \A d \in Calls : \A j \in DOMAIN got[d] :
            /\ got[d][j] \in 1..Len(stream) /\ got[d][j] < Len(stream) + 1
            /\ stream'[got[d][j]] = stream[got[d][j]]
      BY <1>2, <1>4, Positions
    <2>3. \A d \in Calls : Completed(d)' <=> Completed(d)
      BY <2>1, <2>2, Positions DEF Completed
    <2>4. ASSUME NEW d \in Calls, got[d] # <<>>, NEW i \in Answers(d)',
                 i <= got[d][Len(got[d])]
          PROVE  i \in Range(got[d])
      <3>0. Len(got[d]) \in DOMAIN got[d]
        BY <2>4, Positions
      <3>1. got[d][Len(got[d])] \in Int /\ got[d][Len(got[d])] < Len(stream) + 1
        BY <2>2, <3>0
      <3>2. i \in Answers(d)
        BY <1>4, <1>5, <2>4, <3>1
      <3> QED
        BY <2>4, <3>2 DEF CallIInv, Returned
    <2>5. ASSUME NEW d \in Calls
          PROVE  /\ \A j \in DOMAIN got'[d] :
                      /\ got'[d][j] < Newest' /\ stream'[got'[d][j]].call = d
                      /\ \A k \in DOMAIN inbox'[d] : got'[d][j] < inbox'[d][k].seq
                 /\ \A i, j \in DOMAIN got'[d] : i < j => got'[d][i] < got'[d][j]
                 /\ d \in Multi /\ (pc'[d] \in {"complete", "close"} \/ outcome'[d] = "ok")
                      => Completed(d)'
      BY <1>1, <2>1, <2>2, <2>3 DEF CallIInv, Returned
    <2> QED
      BY <2>1, <2>4, <2>5 DEF Returned
  <1>11. NoAnswerLost'
    <2>1. Len(stream) + 1 > read
      BY <1>4, Positions
    <2> QED
      BY <1>1, <1>5, <2>1 DEF CallIInv, NoAnswerLost, callVars
  <1> QED
    BY <1>6, <1>7, <1>8, <1>9, <1>10, <1>11 DEF CallIInv

\* Where a call goes, and where the others stay.
LEMMA GotoFacts ==
    ASSUME CallTypeOK, NEW c \in Calls, NEW where, Goto(c, where)
    PROVE  pc'[c] = where /\ \A d \in Calls \ {c} : pc'[d] = pc[d]
  BY DEF CallTypeOK, Goto

\* A call draws a job id that no other call has.
LEMMA BeginCallIInv ==
    ASSUME CallIInv, IInvOrder', NEW c \in Calls, Begin(c)
    PROVE  CallIInv'
  <1> USE DEF Calls
  <1>1. /\ pc[c] = "idle" /\ pc'[c] = "register"
        /\ \A d \in Calls \ {c} : pc'[d] = pc[d] /\ job'[d] = job[d]
        /\ job'[c] = next_job_id /\ next_job_id' = next_job_id + 1
        /\ job' = [job EXCEPT ![c] = next_job_id]
        /\ read' = read /\ message' = message /\ inbox' = inbox /\ stage' = stage
        /\ handle' = handle /\ lagged' = lagged /\ Newest' = Newest
        /\ UNCHANGED <<got, outcome, requests, stream>>
        /\ UNCHANGED <<job_id_filters, job_id_multi_filters, notification_filters,
                       kind_filters, oneshot_kind_filters>>
    BY GotoFacts
       DEF Begin, filterVars, task, clients, oneshot, topics, server, Newest, CallIInv,
           CallTypeOK
  <1>2. \A d \in Calls : Answers(d)' = Answers(d)
    BY <1>1 DEF Answers
  <1>3. next_job_id \in JobIds /\ next_job_id \in Nat /\ IsFiniteSet(Begun)
          /\ \A d \in Begun : job[d] \in 1..(next_job_id - 1)
    BY <1>1, JobFacts DEF CallIInv
  <1>4. c \notin Begun /\ Begun' = Begun \cup {c}
    BY <1>1 DEF Begun
  <1>5. CallTypeOK'
    <2>1. TypeOK'
      BY DEF IInvOrder, IInv
    <2>2. next_job_id' \in 1..Cardinality(Calls) + 1
      BY <1>1, <1>3, CallsAssumption, FS_CardinalityType
    <2>3. pc' \in [Calls -> {"idle", "register", "send", "wait", "consumer",
                             "complete", "close", "done"}]
      BY DEF Begin, Goto, CallIInv, CallTypeOK
    <2>4. job' \in [Calls -> JobIds \cup {NONE}]
      BY <1>1, <1>3 DEF CallIInv, CallTypeOK
    <2> QED
      BY <1>1, <2>1, <2>2, <2>3, <2>4 DEF CallIInv, CallTypeOK
  <1>6. Jobs'
    <2>1. next_job_id' = Cardinality(Begun') + 1
      <3>1. Cardinality(Begun') = Cardinality(Begun) + 1
        BY <1>3, <1>4, FS_AddElement
      <3> QED
        BY <1>1, <3>1 DEF CallIInv, Jobs
    <2>2. \A d \in Calls : IF pc'[d] = "idle" THEN job'[d] = NONE
                           ELSE job'[d] \in 1..(next_job_id' - 1)
      <3> TAKE d \in Calls
      <3>1. CASE d = c
        <4>1. next_job_id \in 1..(next_job_id' - 1)
          <5>1. next_job_id >= 1
            BY <1>3, CallsAssumption DEF CallIInv, CallTypeOK
          <5> QED
            BY <1>1, <1>3, <5>1
        <4> QED
          BY <1>1, <3>1, <4>1
      <3>2. CASE d # c
        <4>1. \A j \in 1..(next_job_id - 1) : j \in 1..(next_job_id' - 1)
          BY <1>1, <1>3
        <4> QED
          BY <1>1, <3>2, <4>1 DEF CallIInv, Jobs
      <3> QED
        BY <3>1, <3>2
    <2>3. ASSUME NEW d \in Begun', NEW e \in Begun', job'[d] = job'[e] PROVE d = e
      <3>1. \A x \in Begun : job'[x] = job[x] /\ job'[x] # next_job_id
        BY <1>1, <1>3, <1>4 DEF Begun
      <3> QED
        BY <1>1, <1>4, <2>3, <3>1 DEF CallIInv, Jobs
    <2> QED
      BY <2>1, <2>2, <2>3 DEF Jobs
  <1>7. Handles' /\ NeverEOF'
    BY <1>1 DEF CallIInv, Handles, NeverEOF
  <1>8. Entries'
    <2>1. \A k \in DOMAIN job_id_filters : job_id_filters[k] \in Calls \ {c}
      BY <1>4, Owners DEF Begun
    <2>2. \A k \in DOMAIN job_id_multi_filters : job_id_multi_filters[k] \in Calls \ {c}
      BY <1>4, Owners DEF Begun
    <2> QED
      BY <1>1, <2>1, <2>2, CallsAssumption DEF CallIInv, Entries
  <1>9. Consulted'
    BY <1>1 DEF CallIInv, Consulted
  <1>10. Answered'
    <2>1. requests \subseteq Calls \ {c}
      BY <1>1 DEF CallIInv, CallTypeOK, Answered
    <2>2. \A m : Fits(m)' <=> Fits(m)
      BY <1>1 DEF Fits
    <2>3. message # NoMessage => Fits(message)'
      BY <1>1 DEF Fits, CallIInv, Answered
    <2> QED
      BY <1>1, <1>2, <2>1, <2>2, <2>3 DEF CallIInv, Answered
  <1>11. Returned'
    BY <1>1, <1>2, CallsAssumption DEF CallIInv, Returned, Completed
  <1>12. NoAnswerLost'
    BY <1>1, <1>2 DEF CallIInv, NoAnswerLost
  <1> QED
    BY <1>5, <1>6, <1>7, <1>8, <1>9, <1>10, <1>11, <1>12 DEF CallIInv

\* A step of one call that returns no answer: the ids, and what is on the way
\* to the calls, stay.
LEMMA CallMoves ==
    ASSUME CallIInv, NEW c \in Begun,
           NEW where \in {"send", "wait", "consumer", "complete", "close", "done"},
           Goto(c, where),
           UNCHANGED <<job, next_job_id, got, stream, read, message>>,
           \/ requests' = requests /\ (where = "send" => c \notin requests)
           \/ requests' = requests \cup {c} /\ where # "send",
           \A d \in Calls \ {c} : inbox'[d] = inbox[d] /\ outcome'[d] = outcome[d],
           inbox'[c] = inbox[c] \/ (inbox'[c] = <<>> /\ where = "done"),
           where \in {"wait", "consumer"} => pc[c] \in {"send", "wait", "consumer"},
           c \in Multi /\ (where \in {"complete", "close"} \/ outcome'[c] = "ok")
             => Completed(c)
    PROVE  Jobs' /\ Answered' /\ Returned' /\ NoAnswerLost'
  <1> USE DEF Calls
  <1>1. /\ c \in Calls /\ pc[c] # "idle" /\ pc'[c] = where
        /\ \A d \in Calls \ {c} : pc'[d] = pc[d]
        /\ Newest' = Newest
    BY GotoFacts DEF Begun, CallIInv, Newest
  <1>2. \A d \in Calls : inbox'[d] = inbox[d] \/ inbox'[d] = <<>>
    OBVIOUS
  <1>8. \A d \in Calls : Answers(d)' = Answers(d)
    BY DEF Answers
  <1>9. \A d \in Calls : Completed(d)' <=> Completed(d)
    BY DEF Completed
  <1>3. Begun' = Begun
    BY <1>1 DEF Begun
  <1>4. Jobs'
    BY <1>1, <1>3 DEF CallIInv, Jobs
  <1>5. Answered'
    <2>1. \A d \in requests' : pc'[d] \notin {"idle", "register", "send"} /\ d \in Calls
      <3>1. \A d \in requests : pc[d] \notin {"idle", "register", "send"} /\ d \in Calls
        BY DEF CallIInv, CallTypeOK, Answered
      <3>2. SUFFICES ASSUME NEW d \in requests'
                     PROVE  pc'[d] \notin {"idle", "register", "send"} /\ d \in Calls
        OBVIOUS
      <3>3. CASE d = c
        <4>1. where # "send"
          BY <3>2, <3>3
        <4>2. where \in {"wait", "consumer", "complete", "close", "done"}
          BY <4>1
        <4> QED
          BY <1>1, <3>3, <4>2
      <3>4. CASE d # c
        <4>1. d \in requests
          BY <3>2, <3>4
        <4> QED
          BY <1>1, <3>1, <3>4, <4>1
      <3> QED
        BY <3>3, <3>4
    <2>2. message # NoMessage => Fits(message)'
      BY DEF Fits, CallIInv, Answered
    <2>3. ASSUME NEW d \in Calls, NEW k \in DOMAIN inbox'[d]
          PROVE  Fits(inbox[d][k])' /\ stream[inbox[d][k].seq].call = d
                   /\ inbox'[d] = inbox[d]
      BY <1>2, <2>3 DEF Fits, CallIInv, Answered
    <2>4. (\A d \in Calls : \A k \in DOMAIN inbox[d] :
             Fits(inbox[d][k]) /\ stream[inbox[d][k].seq].call = d)'
      BY <2>3 DEF Fits
    <2>5. \A i \in DOMAIN stream :
            /\ i > read => stream[i].call # NoCall
            /\ stream[i].call # NoCall =>
                 stream[i].call \in requests' /\ stream[i].target = job[stream[i].call]
      BY DEF CallIInv, Answered
    <2>6. \A d \in Calls \ Multi : \A i, j \in Answers(d)' : i = j
      BY <1>8 DEF CallIInv, Answered
    <2>7. Len(stream) <= MaxMessages /\ read <= Len(stream)
      BY DEF CallIInv, Answered
    <2> QED
      BY <2>1, <2>2, <2>4, <2>5, <2>6, <2>7 DEF Answered
  <1>6. Returned'
    <2>1. ASSUME NEW d \in Calls, d \in Multi,
                 pc'[d] \in {"complete", "close"} \/ outcome'[d] = "ok"
          PROVE  Completed(d)
      BY <1>1, <2>1 DEF CallIInv, Returned
    <2>2. ASSUME NEW d \in Calls, NEW k \in DOMAIN inbox'[d]
          PROVE  k \in DOMAIN inbox[d] /\ inbox'[d][k] = inbox[d][k]
      BY <1>2
    <2>3. ASSUME NEW d \in Calls
          PROVE  /\ \A j \in DOMAIN got[d] :
                      /\ got[d][j] < Newest /\ stream[got[d][j]].call = d
                      /\ \A k \in DOMAIN inbox'[d] : got[d][j] < inbox'[d][k].seq
                 /\ \A i, j \in DOMAIN got[d] : i < j => got[d][i] < got[d][j]
                 /\ got[d] # <<>> => \A i \in Answers(d)' :
                      i <= got[d][Len(got[d])] => i \in Range(got[d])
      <3>1. \A k \in DOMAIN inbox'[d] : k \in DOMAIN inbox[d] /\ inbox'[d][k] = inbox[d][k]
        BY <2>2
      <3> QED
        BY <1>8, <3>1 DEF CallIInv, Returned
    <2> QED
      BY <1>1, <1>9, <2>1, <2>3 DEF Returned
  <1>7. NoAnswerLost'
    <2>1. ASSUME NEW d \in Calls, pc'[d] \in {"wait", "consumer"}, NEW i \in Answers(d)
          PROVE  /\ pc[d] \in {"wait", "consumer"} /\ inbox'[d] = inbox[d]
      <3>1. d \in requests
        <4>1. i \in DOMAIN stream /\ stream[i].call = d /\ d # NoCall
          BY <2>1, CallsAssumption DEF Answers
        <4> QED
          BY <4>1 DEF CallIInv, Answered
      <3> QED
        BY <1>1, <2>1, <3>1 DEF CallIInv, Answered
    <2> SUFFICES ASSUME NEW d \in Calls, pc'[d] \in {"wait", "consumer"},
                        NEW i \in Answers(d)
                 PROVE  \/ i > read
                        \/ message.seq = i
                        \/ \E k \in DOMAIN inbox'[d] : inbox'[d][k].seq = i
                        \/ i \in Range(got[d])
      BY <1>8 DEF NoAnswerLost
    <2> QED
      BY <2>1 DEF CallIInv, NoAnswerLost
  <1> QED
    BY <1>4, <1>5, <1>6, <1>7

\* The request reaches the server, or the consumer asks for the next part.
LEMMA WaitCallIInv ==
    ASSUME CallIInv, IInvOrder', NEW c \in Calls, Send(c) \/ Resume(c)
    PROVE  CallIInv'
  <1> USE DEF Calls
  <1>1. PICK where \in {"wait", "complete"} :
          /\ Goto(c, where) /\ pc[c] \in {"send", "consumer"}
          /\ \/ where = "wait" /\ requests' = requests \cup {c}
             \/ requests' = requests /\ pc[c] = "consumer"
          /\ where = "complete" => Completed(c)
    <2>1. CASE Send(c)
      BY <2>1 DEF Send
    <2>2. CASE Resume(c) /\ Completed(c)
      BY <2>2 DEF Resume, server
    <2>3. CASE Resume(c) /\ ~Completed(c)
      BY <2>3 DEF Resume, server
    <2> QED
      BY <2>1, <2>2, <2>3
  <1>2. /\ UNCHANGED <<job, next_job_id, got, stream, read, message, stage>>
        /\ UNCHANGED <<inbox, handle, lagged, outcome>>
        /\ UNCHANGED <<job_id_filters, job_id_multi_filters, notification_filters,
                       kind_filters, oneshot_kind_filters>>
    BY DEF Send, Resume, server, filterVars, task, clients, oneshot, topics
  <1>3. pc'[c] = where /\ \A d \in Calls \ {c} : pc'[d] = pc[d]
    BY <1>1, GotoFacts DEF CallIInv
  <1>4. Jobs' /\ Answered' /\ Returned' /\ NoAnswerLost'
    <2>1. c \in Begun
      BY <1>1 DEF Begun
    <2>2. outcome[c] # "ok"
      BY <1>1 DEF CallIInv, Handles
    <2> QED
      BY <1>1, <1>2, <2>1, <2>2, CallMoves
  <1>5. c \notin Multi => where = "wait" /\ pc[c] = "send"
    <2>1. c \notin Multi => pc[c] # "consumer"
      BY DEF CallIInv, Handles
    <2> QED
      BY <1>1, <2>1
  <1>6. CallTypeOK'
    <2>1. TypeOK'
      BY DEF IInvOrder, IInv
    <2>2. pc' \in [Calls -> {"idle", "register", "send", "wait", "consumer",
                             "complete", "close", "done"}]
      BY <1>1 DEF Goto, CallIInv, CallTypeOK
    <2>3. requests' \in SUBSET Calls
      BY <1>1 DEF CallIInv, CallTypeOK
    <2> QED
      BY <1>2, <2>1, <2>2, <2>3 DEF CallIInv, CallTypeOK
  <1>7. Handles'
    BY <1>1, <1>2, <1>3, <1>5 DEF CallIInv, Handles
  <1>8. Entries'
    <2>1. \A k \in DOMAIN job_id_multi_filters : job_id_multi_filters[k] \in Calls
      BY Owners DEF Begun
    <2> QED
      BY <1>1, <1>2, <1>3, <1>5, <2>1, CallsAssumption DEF CallIInv, Entries
  <1>9. Consulted' /\ NeverEOF'
    BY <1>2 DEF CallIInv, Consulted, NeverEOF
  <1> QED
    BY <1>4, <1>6, <1>7, <1>8, <1>9 DEF CallIInv

\* complete_job_id_multi removes the entry of its own call.
LEMMA CompleteCallIInv ==
    ASSUME CallIInv, IInvOrder', NEW c \in Calls, Complete(c)
    PROVE  CallIInv'
  <1> USE DEF Calls
  <1>1. /\ pc[c] = "complete" /\ Goto(c, "close")
        /\ job_id_multi_filters' = Remove(job_id_multi_filters, job[c])
    BY DEF Complete, CompleteJobIdMulti
  <1>2. /\ UNCHANGED <<job, next_job_id, got, stream, read, message, stage>>
        /\ UNCHANGED <<inbox, handle, lagged, outcome, requests>>
        /\ UNCHANGED <<job_id_filters, notification_filters, kind_filters,
                       oneshot_kind_filters>>
    BY DEF Complete, CompleteJobIdMulti, server, task, clients, oneshot, topics
  <1>3. pc'[c] = "close" /\ \A d \in Calls \ {c} : pc'[d] = pc[d]
    BY <1>1, GotoFacts DEF CallIInv
  <1>4. c \in Begun /\ c \in Multi
    BY <1>1 DEF Begun, CallIInv, Handles
  <1>5. Jobs' /\ Answered' /\ Returned' /\ NoAnswerLost'
    <2>1. Completed(c)
      BY <1>1, <1>4 DEF CallIInv, Returned
    <2> QED
      BY <1>1, <1>2, <1>4, <2>1, CallMoves
  <1>6. /\ DOMAIN job_id_multi_filters' = DOMAIN job_id_multi_filters \ {job[c]}
        /\ \A k \in DOMAIN job_id_multi_filters' :
             job_id_multi_filters'[k] = job_id_multi_filters[k]
    BY <1>1 DEF Remove, Restrict
  <1>7. CallTypeOK'
    <2>1. TypeOK'
      BY DEF IInvOrder, IInv
    <2>2. pc' \in [Calls -> {"idle", "register", "send", "wait", "consumer",
                             "complete", "close", "done"}]
      BY <1>1 DEF Goto, CallIInv, CallTypeOK
    <2> QED
      BY <1>2, <2>1, <2>2 DEF CallIInv, CallTypeOK
  <1>8. Handles'
    BY <1>1, <1>2, <1>3, <1>4 DEF CallIInv, Handles
  <1>9. Entries'
    <2>1. ASSUME NEW k \in DOMAIN job_id_multi_filters'
          PROVE  /\ k \in DOMAIN job_id_multi_filters
                 /\ job_id_multi_filters[k] \in Calls \ {c}
                 /\ job_id_multi_filters'[k] = job_id_multi_filters[k]
      <3>1. k \in DOMAIN job_id_multi_filters /\ k # job[c]
        BY <1>6
      <3>2. job_id_multi_filters[k] \in Calls /\ job[job_id_multi_filters[k]] = k
        BY <3>1, Owners DEF Begun, CallIInv, Entries
      <3> QED
        BY <1>6, <3>1, <3>2
    <2>2. \A k \in DOMAIN job_id_multi_filters' :
            LET d == job_id_multi_filters'[k]
            IN  d \in Multi /\ job'[d] = k /\ outcome'[d] # "ok" /\ pc'[d] # "close"
      BY <1>2, <1>3, <2>1 DEF CallIInv, Entries
    <2>3. ASSUME NEW d \in Multi, pc'[d] \in {"send", "wait", "consumer", "complete"}
          PROVE  job[d] \in DOMAIN job_id_multi_filters'
      <3>1. d \in Calls \ {c} /\ pc'[d] = pc[d]
        BY <1>3, <2>3, CallsAssumption
      <3>2. d \in Begun /\ job[d] # job[c] /\ job[d] \in DOMAIN job_id_multi_filters
        BY <1>4, <2>3, <3>1 DEF Begun, CallIInv, Jobs, Entries
      <3> QED
        BY <1>6, <3>2
    <2> QED
      BY <1>2, <1>3, <1>4, <2>2, <2>3 DEF CallIInv, Entries
  <1>10. Consulted' /\ NeverEOF'
    BY <1>2, <1>6 DEF CallIInv, Consulted, NeverEOF
  <1> QED
    BY <1>5, <1>7, <1>8, <1>9, <1>10 DEF CallIInv

\* No answer is under way to a call that has not sent its request.
LEMMA NotAsked ==
    ASSUME CallIInv, NEW c \in Begun, c \notin requests, message # NoMessage
    PROVE  message.target # job[c]
  <1> DEFINE d == stream[message.seq].call
  <1>1. message.seq \in DOMAIN stream /\ d # NoCall /\ message.target = stream[message.seq].target
    BY Positions, StreamFacts DEF CallIInv, Answered, Fits
  <1>2. d \in requests /\ message.target = job[d]
    BY <1>1 DEF CallIInv, Answered
  <1>3. d \in Begun
    BY <1>2 DEF CallIInv, CallTypeOK, Answered, Begun
  <1> HIDE DEF d
  <1> QED
    BY <1>2, <1>3 DEF CallIInv, Jobs

\* A call registers before it sends its request.
LEMMA RegisterCallIInv ==
    ASSUME CallIInv, IInvOrder', NEW c \in Calls, Register(c)
    PROVE  CallIInv'
  <1> USE DEF Calls
  <1> DEFINE Added(map, new) ==
               /\ DOMAIN new = DOMAIN map \cup {job[c]} /\ new[job[c]] = c
               /\ \A k \in DOMAIN map : k # job[c] /\ new[k] = map[k]
  <1>1. /\ pc[c] = "register" /\ Goto(c, "send") /\ handle[c] = "unused"
        /\ handle' = [handle EXCEPT ![c] = IF c \in Multi THEN "mpsc" ELSE "oneshot"]
    BY DEF Register, OnJobId, OnJobIdMulti, Open
  <1>2. /\ UNCHANGED <<job, next_job_id, got, stream, read, message, stage>>
        /\ UNCHANGED <<inbox, lagged, outcome, requests>>
        /\ UNCHANGED <<notification_filters, kind_filters, oneshot_kind_filters>>
    BY DEF Register, OnJobId, OnJobIdMulti, Open, server, task, oneshot, topics
  <1>3. pc'[c] = "send" /\ \A d \in Calls \ {c} : pc'[d] = pc[d]
    BY <1>1, GotoFacts DEF CallIInv
  <1>4. c \in Begun /\ c \notin requests /\ outcome[c] = "none"
    BY <1>1 DEF Begun, CallIInv, Handles, Answered
  <1>5. Jobs' /\ Answered' /\ Returned' /\ NoAnswerLost'
    BY <1>1, <1>2, <1>4, CallMoves
  <1>6. \A k \in DOMAIN job_id_filters \cup DOMAIN job_id_multi_filters : k # job[c]
    BY <1>1, <1>4, Owners
  <1>7. /\ c \notin Multi => /\ Added(job_id_filters, job_id_filters')
                             /\ job_id_multi_filters' = job_id_multi_filters
        /\ c \in Multi => /\ Added(job_id_multi_filters, job_id_multi_filters')
                          /\ job_id_filters' = job_id_filters
    BY <1>6 DEF Register, OnJobId, OnJobIdMulti, Insert, oneshot
  <1>8. CallTypeOK'
    <2>1. TypeOK'
      BY DEF IInvOrder, IInv
    <2>2. pc' \in [Calls -> {"idle", "register", "send", "wait", "consumer",
                             "complete", "close", "done"}]
      BY <1>1 DEF Goto, CallIInv, CallTypeOK
    <2> QED
      BY <1>2, <2>1, <2>2 DEF CallIInv, CallTypeOK
  <1>9. Handles'
    <2>1. /\ handle'[c] = IF c \in Multi THEN "mpsc" ELSE "oneshot"
          /\ \A d \in Calls \ {c} : handle'[d] = handle[d]
      BY <1>1 DEF CallIInv, CallTypeOK, TypeOK
    <2> QED
      BY <1>1, <1>2, <1>3, <1>4, <2>1 DEF CallIInv, Handles
  <1>10. Entries'
    <2>1. ASSUME NEW k \in DOMAIN job_id_filters'
          PROVE  LET d == job_id_filters'[k]
                 IN  d \notin Multi /\ job[d] = k /\ outcome[d] # "ok"
      BY <1>4, <1>7 DEF CallIInv, Entries
    <2>2. ASSUME NEW k \in DOMAIN job_id_multi_filters'
          PROVE  LET d == job_id_multi_filters'[k]
                 IN  d \in Multi /\ job[d] = k /\ outcome[d] # "ok" /\ pc'[d] # "close"
      <3>1. CASE c \in Multi /\ k = job[c]
        BY <1>3, <1>4, <1>7, <3>1
      <3>2. CASE ~(c \in Multi /\ k = job[c])
        <4>1. k \in DOMAIN job_id_multi_filters
                /\ job_id_multi_filters'[k] = job_id_multi_filters[k]
          BY <1>7, <3>2
        <4>2. job_id_multi_filters[k] \in Calls
          BY <4>1, Owners DEF Begun
        <4> QED
          BY <1>3, <4>1, <4>2 DEF CallIInv, Entries
      <3> QED
        BY <3>1, <3>2
    <2>3. ASSUME NEW d \in Calls \ Multi, pc'[d] \in {"send", "wait"}, inbox[d] = <<>>
          PROVE  job[d] \in DOMAIN job_id_filters'
      BY <1>3, <1>7, <2>3 DEF CallIInv, Entries
    <2>4. ASSUME NEW d \in Multi, pc'[d] \in {"send", "wait", "consumer", "complete"}
          PROVE  job[d] \in DOMAIN job_id_multi_filters'
      BY <1>3, <1>7, <2>4, CallsAssumption DEF CallIInv, Entries
    <2> QED
      BY <1>2, <2>1, <2>2, <2>3, <2>4 DEF CallIInv, Entries
  <1>11. Consulted'
    <2>1. stage # "next" /\ stage # "stopped" => message.target # job[c]
      BY <1>4, NotAsked DEF CallIInv, CallTypeOK, TypeOK
    <2> QED
      BY <1>2, <1>7, <2>1 DEF CallIInv, Consulted
  <1>12. NeverEOF'
    BY <1>2 DEF CallIInv, NeverEOF
  <1> QED
    BY <1>5, <1>8, <1>9, <1>10, <1>11, <1>12 DEF CallIInv

\* A call returns: its receiver is dropped.
LEMMA EndCallIInv ==
    ASSUME CallIInv, IInvOrder', NEW c \in Calls,
           NEW how \in {"ok", "error", "timeout", "cancelled"}, End(c, how),
           pc[c] \in {"send", "wait", "consumer", "close"},
           how = "ok" => pc[c] = "close"
    PROVE  CallIInv'
  <1> USE DEF Calls
  <1>1. /\ Goto(c, "done") /\ handle' = [handle EXCEPT ![c] = "dropped"]
        /\ inbox' = [inbox EXCEPT ![c] = <<>>]
        /\ outcome' = [outcome EXCEPT ![c] = how]
        /\ lagged' = {}
    BY DEF End, Drop, CallIInv, Entries
  <1>2. /\ UNCHANGED <<job, next_job_id, got, stream, read, message, stage>>
        /\ UNCHANGED <<requests, job_id_filters, job_id_multi_filters>>
        /\ UNCHANGED <<notification_filters, kind_filters, oneshot_kind_filters>>
    BY DEF End, Drop, server, task, oneshot, topics
  <1>3. /\ pc'[c] = "done" /\ inbox'[c] = <<>> /\ outcome'[c] = how /\ handle'[c] = "dropped"
        /\ \A d \in Calls \ {c} : /\ pc'[d] = pc[d] /\ inbox'[d] = inbox[d]
                                  /\ outcome'[d] = outcome[d] /\ handle'[d] = handle[d]
    BY <1>1, GotoFacts DEF CallIInv, CallTypeOK, TypeOK
  <1>4. c \in Begun /\ (how = "ok" => c \in Multi)
    BY DEF Begun, CallIInv, Handles
  <1>5. Jobs' /\ Answered' /\ Returned' /\ NoAnswerLost'
    <2>1. how = "ok" => Completed(c)
      BY <1>4 DEF CallIInv, Returned
    <2> QED
      BY <1>1, <1>2, <1>3, <1>4, <2>1, CallMoves
  <1>6. CallTypeOK'
    <2>1. TypeOK'
      BY DEF IInvOrder, IInv
    <2>2. pc' \in [Calls -> {"idle", "register", "send", "wait", "consumer",
                             "complete", "close", "done"}]
      BY <1>1 DEF Goto, CallIInv, CallTypeOK
    <2>3. outcome' \in [Calls -> {"none", "ok", "error", "timeout", "eof", "cancelled"}]
      BY <1>1 DEF CallIInv, CallTypeOK
    <2> QED
      BY <1>2, <2>1, <2>2, <2>3 DEF CallIInv, CallTypeOK
  <1>7. Handles'
    BY <1>3 DEF CallIInv, Handles
  <1>8. Entries'
    <2>1. \A k \in DOMAIN job_id_filters :
            job_id_filters[k] \in Calls /\ job_id_filters[k] \notin Multi
      BY Owners DEF Begun
    <2>2. \A k \in DOMAIN job_id_multi_filters :
            /\ job_id_multi_filters[k] \in Calls
            /\ pc[job_id_multi_filters[k]] # "close"
      BY Owners DEF Begun, CallIInv, Entries
    <2> QED
      BY <1>1, <1>2, <1>3, <1>4, <2>1, <2>2, CallsAssumption DEF CallIInv, Entries
  <1>9. Consulted' /\ NeverEOF'
    BY <1>2, <1>3 DEF CallIInv, Consulted, NeverEOF
  <1> QED
    BY <1>5, <1>6, <1>7, <1>8, <1>9 DEF CallIInv

\* The channel of a call that waits without an answer is open: the dispatch
\* task took no sender of its away, and no other call replaced it.
LEMMA WaitsOpen ==
    ASSUME CallIInv, NEW c \in Calls, pc[c] = "wait", inbox[c] = <<>>
    PROVE  ~Closed(c)
  <1> USE DEF Calls
  <1>1. c \in Begun
    BY DEF Begun
  <1>2. CASE c \in Multi
    <2>1. job[c] \in DOMAIN job_id_multi_filters
      BY <1>2 DEF CallIInv, Entries
    <2>2. job_id_multi_filters[job[c]] = c
      BY <1>1, <2>1, Owners
    <2> QED
      BY <2>1, <2>2 DEF Closed, Range
  <1>3. CASE c \notin Multi
    <2>1. job[c] \in DOMAIN job_id_filters
      BY <1>3 DEF CallIInv, Entries
    <2>2. job_id_filters[job[c]] = c
      BY <1>1, <2>1, Owners
    <2> QED
      BY <2>1, <2>2 DEF Closed, Range
  <1> QED
    BY <1>2, <1>3

\* The ways to return without an answer, and the good end of a stream.
LEMMA LeaveCallIInv ==
    ASSUME CallIInv, IInvOrder', NEW c \in Calls,
           SendFails(c) \/ GiveUp(c) \/ Cancel(c) \/ ReturnError(c) \/ Close(c)
    PROVE  CallIInv'
  <1>1. CASE SendFails(c)
    BY <1>1, EndCallIInv DEF SendFails
  <1>2. CASE GiveUp(c)
    <2>1. pc[c] = "wait" /\ End(c, "timeout")
      BY <1>2, WaitsOpen DEF GiveUp
    <2> QED
      BY <2>1, EndCallIInv
  <1>3. CASE Cancel(c)
    BY <1>3, EndCallIInv DEF Cancel
  <1>4. CASE ReturnError(c)
    BY <1>4, EndCallIInv DEF ReturnError
  <1>5. CASE Close(c)
    BY <1>5, EndCallIInv DEF Close
  <1> QED
    BY <1>1, <1>2, <1>3, <1>4, <1>5

\* A call returns the oldest answer in its channel.  No answer before it is
\* missing: it would be in the channel, or was returned.
LEMMA ReturnCallIInv ==
    ASSUME CallIInv, IInvOrder', NEW c \in Calls, Return(c)
    PROVE  CallIInv'
  <1> USE DEF Calls
  <1> DEFINE a == Answer(c)
             where == IF c \in Multi THEN "consumer" ELSE "done"
  <1>1. /\ pc[c] = "wait" /\ inbox[c] # <<>> /\ Goto(c, where)
        /\ got' = [got EXCEPT ![c] = Append(@, a)]
        /\ Recv(c)
    BY DEF Return
  <1>2. /\ UNCHANGED <<job, next_job_id, stream, read, message, stage, requests>>
        /\ UNCHANGED <<job_id_filters, job_id_multi_filters, notification_filters,
                       kind_filters, oneshot_kind_filters>>
        /\ Newest' = Newest
    BY DEF Return, Recv, server, task, oneshot, topics, Newest
  <1>3. pc'[c] = where /\ \A d \in Calls \ {c} : pc'[d] = pc[d]
    BY <1>1, GotoFacts DEF CallIInv
  <1>4. c \in Begun /\ handle[c] = IF c \in Multi THEN "mpsc" ELSE "oneshot"
    BY <1>1 DEF Begun, CallIInv, Handles
  <1>5. /\ inbox' = [inbox EXCEPT ![c] = Tail(@)] /\ lagged' = lagged
        /\ handle' = IF c \in Multi THEN handle ELSE [handle EXCEPT ![c] = "dropped"]
    BY <1>1, <1>4 DEF Recv, CallIInv, Entries
  <1>6. /\ inbox'[c] = Tail(inbox[c]) /\ got'[c] = Append(got[c], a)
        /\ handle'[c] = IF c \in Multi THEN "mpsc" ELSE "dropped"
        /\ outcome'[c] = IF c \in Multi THEN "none" ELSE "ok"
        /\ \A d \in Calls \ {c} : /\ inbox'[d] = inbox[d] /\ got'[d] = got[d]
                                  /\ handle'[d] = handle[d] /\ outcome'[d] = outcome[d]
    <2>1. outcome[c] = "none"
      BY <1>1 DEF CallIInv, Handles
    <2> QED
      BY <1>1, <1>4, <1>5, <2>1 DEF Return, CallIInv, CallTypeOK, TypeOK
  \* The answer, and the rest of the channel.
  <1>7. /\ a \in 1..read /\ a < Newest /\ stream[a].call = c /\ a = inbox[c][1].seq
        /\ \A j \in DOMAIN got[c] : got[c][j] < a
    <2>1. 1 \in DOMAIN inbox[c] /\ a = inbox[c][1].seq
      BY <1>1, Positions DEF Answer
    <2> QED
      BY <2>1, Positions DEF CallIInv, Answered, Returned
  <1>8. /\ DOMAIN inbox'[c] = 1..(Len(inbox[c]) - 1)
        /\ \A k \in DOMAIN inbox'[c] :
             /\ k + 1 \in DOMAIN inbox[c] /\ inbox'[c][k] = inbox[c][k + 1]
             /\ a < inbox'[c][k].seq
    <2>1. inbox[c] \in Queue /\ Increasing(inbox[c])
      BY DEF CallIInv, CallTypeOK, TypeOK, IInvOrder, Ordered
    <2>2. /\ DOMAIN inbox'[c] = 1..(Len(inbox[c]) - 1)
          /\ \A k \in 1..(Len(inbox[c]) - 1) :
               /\ k + 1 \in DOMAIN inbox[c] /\ inbox'[c][k] = inbox[c][k + 1]
      BY <1>1, <1>6, <2>1 DEF Queue
    <2>3. 1 \in DOMAIN inbox[c] /\ Len(inbox[c]) \in Nat
      BY <1>1, Positions
    <2>4. \A k \in 1..(Len(inbox[c]) - 1) : inbox[c][1].seq < inbox[c][k + 1].seq
      BY <2>1, <2>2, <2>3 DEF Increasing
    <2> QED
      BY <1>7, <2>2, <2>4
  <1>9. /\ Len(got'[c]) = Len(got[c]) + 1 /\ DOMAIN got'[c] = DOMAIN got[c] \cup {Len(got[c]) + 1}
        /\ got'[c][Len(got[c]) + 1] = a /\ Len(got[c]) + 1 \notin DOMAIN got[c]
        /\ \A j \in DOMAIN got[c] : got'[c][j] = got[c][j] /\ j < Len(got[c]) + 1
        /\ Range(got'[c]) = Range(got[c]) \cup {a}
    <2>1. got[c] \in Seq(1..MaxMessages) /\ a \in Int
      BY <1>7, Positions DEF CallIInv, CallTypeOK
    <2>2. /\ Len(got'[c]) = Len(got[c]) + 1
          /\ DOMAIN got'[c] = DOMAIN got[c] \cup {Len(got[c]) + 1}
          /\ got'[c][Len(got[c]) + 1] = a /\ Len(got[c]) + 1 \notin DOMAIN got[c]
          /\ \A j \in DOMAIN got[c] : got'[c][j] = got[c][j] /\ j < Len(got[c]) + 1
      BY <1>6, <2>1
    <2> QED
      BY <2>2 DEF Range
  <1> HIDE DEF a, where
  <1>10. CallTypeOK'
    <2>1. TypeOK'
      BY DEF IInvOrder, IInv
    <2>2. pc' \in [Calls -> {"idle", "register", "send", "wait", "consumer",
                             "complete", "close", "done"}]
      BY <1>1 DEF Goto, where, CallIInv, CallTypeOK
    <2>3. got' \in [Calls -> Seq(1..MaxMessages)]
      <3>1. a \in 1..MaxMessages
        <4>1. a \in 1..Len(stream) /\ Len(stream) <= MaxMessages /\ Len(stream) \in Nat
          BY <1>7, Positions, StreamFacts DEF CallIInv, Answered
        <4> QED
          BY <4>1, FilterAssumption
      <3>2. Append(got[c], a) \in Seq(1..MaxMessages)
        BY <3>1 DEF CallIInv, CallTypeOK
      <3> QED
        BY <1>1, <3>2 DEF CallIInv, CallTypeOK
    <2>4. outcome' \in [Calls -> {"none", "ok", "error", "timeout", "eof", "cancelled"}]
      BY DEF Return, CallIInv, CallTypeOK
    <2> QED
      BY <1>2, <2>1, <2>2, <2>3, <2>4 DEF CallIInv, CallTypeOK
  <1>11. Jobs'
    <2>1. Begun' = Begun /\ pc'[c] # "idle" /\ pc[c] # "idle"
      BY <1>1, <1>3 DEF Begun, where
    <2> QED
      BY <1>2, <1>3, <2>1 DEF CallIInv, Jobs
  <1>12. Handles'
    BY <1>1, <1>3, <1>4, <1>6 DEF CallIInv, Handles, where
  <1>13. Entries'
    <2>1. \A k \in DOMAIN job_id_filters : job_id_filters[k] \in Calls \ {c}
      <3> SUFFICES ASSUME NEW k \in DOMAIN job_id_filters PROVE job_id_filters[k] # c
        BY Owners DEF Begun
      <3>1. inbox[job_id_filters[k]] = <<>>
        BY DEF CallIInv, IInvOrder, IInv, Unused
      <3> QED
        BY <1>1, <3>1
    <2>2. \A k \in DOMAIN job_id_multi_filters :
            /\ job_id_multi_filters[k] \in Calls /\ job_id_multi_filters[k] \in Multi
      BY Owners DEF Begun
    <2> QED
      BY <1>1, <1>2, <1>3, <1>5, <1>6, <2>1, <2>2, CallsAssumption
         DEF CallIInv, Entries, where
  <1>14. Consulted' /\ NeverEOF'
    BY <1>2, <1>6 DEF CallIInv, Consulted, NeverEOF
  <1>15. \A d \in Calls : Answers(d)' = Answers(d)
    BY <1>2 DEF Answers
  <1>16. Answered'
    <2>1. \A d \in requests' : pc'[d] \notin {"idle", "register", "send"}
      BY <1>2, <1>3 DEF CallIInv, CallTypeOK, Answered, where
    <2>2. message # NoMessage => Fits(message)'
      BY <1>2 DEF Fits, CallIInv, Answered
    <2>3. (\A d \in Calls : \A k \in DOMAIN inbox[d] :
             Fits(inbox[d][k]) /\ stream[inbox[d][k].seq].call = d)'
      <3> SUFFICES ASSUME NEW d \in Calls, NEW k \in DOMAIN inbox'[d]
                   PROVE  Fits(inbox[d][k])' /\ stream[inbox'[d][k].seq].call = d
        BY <1>2
      <3>1. PICK l \in DOMAIN inbox[d] : inbox'[d][k] = inbox[d][l]
        <4>1. CASE d = c
          BY <1>6, <1>8, <4>1
        <4>2. CASE d # c
          BY <1>6, <1>8, <4>2
        <4> QED
          BY <4>1, <4>2
      <3>2. Fits(inbox[d][l]) /\ stream[inbox[d][l].seq].call = d
        BY DEF CallIInv, Answered
      <3> QED
        BY <1>2, <3>1, <3>2 DEF Fits
    <2>4. /\ Len(stream) <= MaxMessages /\ read <= Len(stream)
          /\ \A i \in DOMAIN stream :
               /\ i > read => stream[i].call # NoCall
               /\ stream[i].call # NoCall =>
                    stream[i].call \in requests /\ stream[i].target = job[stream[i].call]
      BY DEF CallIInv, Answered
    <2>5. \A d \in Calls \ Multi : \A i, j \in Answers(d)' : i = j
      BY <1>15 DEF CallIInv, Answered
    <2> QED
      BY <1>2, <2>1, <2>2, <2>3, <2>4, <2>5 DEF Answered
  \* No answer before a is missing.
  <1>17. ASSUME NEW i \in Answers(c)
         PROVE  /\ i <= a => i \in Range(got'[c])
                /\ \/ i > read
                   \/ message.seq = i
                   \/ \E k \in DOMAIN inbox'[c] : inbox'[c][k].seq = i
                   \/ i \in Range(got'[c])
    <2>1. i \in Nat \ {0}
      BY StreamFacts DEF Answers, CallIInv
    <2>2. CASE i > read
      BY <1>7, <2>1, <2>2, Positions
    <2>3. CASE message.seq = i
      <3>1. i > a
        BY <1>7, <2>1, <2>3, Positions
      <3> QED
        BY <1>7, <2>3, <3>1, Positions
    <2>4. CASE \E k \in DOMAIN inbox[c] : inbox[c][k].seq = i
      <3>1. PICK k \in DOMAIN inbox[c] : inbox[c][k].seq = i
        BY <2>4
      <3>2. CASE k = 1
        BY <1>7, <1>9, <3>1, <3>2
      <3>3. CASE k # 1
        <4>1. k \in 1..Len(inbox[c]) /\ Len(inbox[c]) \in Nat
          BY <3>1, Positions
        <4>2. k - 1 \in DOMAIN inbox'[c] /\ inbox'[c][k - 1] = inbox[c][k]
          BY <1>8, <3>3, <4>1
        <4>3. a < i
          BY <1>8, <3>1, <4>2
        <4> QED
          BY <1>7, <2>1, <3>1, <4>2, <4>3
      <3> QED
        BY <3>2, <3>3
    <2>5. CASE i \in Range(got[c])
      BY <1>9, <2>5
    <2> QED
      BY <1>1, <2>2, <2>3, <2>4, <2>5 DEF CallIInv, NoAnswerLost
  <1>18. Returned'
    <2>1. ASSUME NEW d \in Calls \ {c}
          PROVE  /\ \A j \in DOMAIN got'[d] :
                      /\ got'[d][j] < Newest /\ stream[got'[d][j]].call = d
                      /\ \A k \in DOMAIN inbox'[d] : got'[d][j] < inbox'[d][k].seq
                 /\ \A i, j \in DOMAIN got'[d] : i < j => got'[d][i] < got'[d][j]
                 /\ got'[d] # <<>> => \A i \in Answers(d) :
                      i <= got'[d][Len(got'[d])] => i \in Range(got'[d])
                 /\ d \in Multi /\ (pc'[d] \in {"complete", "close"} \/ outcome'[d] = "ok") =>
                      Completed(d)
      BY <1>3, <1>6 DEF CallIInv, Returned
    <2>2. /\ \A j \in DOMAIN got'[c] :
               /\ got'[c][j] < Newest /\ stream[got'[c][j]].call = c
               /\ \A k \in DOMAIN inbox'[c] : got'[c][j] < inbox'[c][k].seq
          /\ \A i, j \in DOMAIN got'[c] : i < j => got'[c][i] < got'[c][j]
      <3>1. ASSUME NEW j \in DOMAIN got[c]
            PROVE  /\ got'[c][j] < Newest /\ stream[got'[c][j]].call = c
                   /\ \A k \in DOMAIN inbox'[c] : got'[c][j] < inbox'[c][k].seq
        BY <1>8, <1>9 DEF CallIInv, Returned
      <3>2. \A i, j \in DOMAIN got[c] : i < j => got'[c][i] < got'[c][j]
        BY <1>9 DEF CallIInv, Returned
      <3>3. Len(got[c]) \in Nat /\ DOMAIN got[c] = 1..Len(got[c])
        BY Positions
      <3> QED
        BY <1>7, <1>8, <1>9, <3>1, <3>2, <3>3
    <2>3. \A i \in Answers(c) : i <= got'[c][Len(got'[c])] => i \in Range(got'[c])
      BY <1>9, <1>17
    <2>4. c \in Multi => pc'[c] = "consumer" /\ outcome'[c] = "none"
      BY <1>3, <1>6 DEF where
    <2>5. \A d \in Calls \ {c} : Completed(d) => Completed(d)'
      BY <1>2, <1>6 DEF Completed
    <2> QED
      BY <1>2, <1>15, <2>1, <2>2, <2>3, <2>4, <2>5 DEF Returned
  <1>19. NoAnswerLost'
    <2> SUFFICES ASSUME NEW d \in Calls, pc'[d] \in {"wait", "consumer"},
                        NEW i \in Answers(d)
                 PROVE  \/ i > read
                        \/ message.seq = i
                        \/ \E k \in DOMAIN inbox'[d] : inbox'[d][k].seq = i
                        \/ i \in Range(got'[d])
      BY <1>2, <1>15 DEF NoAnswerLost
    <2>1. CASE d = c
      BY <1>17, <2>1
    <2>2. CASE d # c
      BY <1>3, <1>6, <2>2 DEF CallIInv, NoAnswerLost
    <2> QED
      BY <2>1, <2>2
  <1> QED
    BY <1>10, <1>11, <1>12, <1>13, <1>14, <1>16, <1>18, <1>19 DEF CallIInv

\* The task goes on, or stops, without a message for anybody.
LEMMA ConsultCallIInv ==
    ASSUME CallIInv, IInvOrder', Consulted', UNCHANGED <<callVars, server>>,
           UNCHANGED <<read, message, oneshot, job_id_multi_filters, topics, clients>>
    PROVE  CallIInv'
  <1>1. /\ UNCHANGED <<pc, job, next_job_id, got, outcome, requests, stream>>
        /\ UNCHANGED <<read, message, inbox, handle, lagged>>
        /\ UNCHANGED <<job_id_filters, job_id_multi_filters, notification_filters,
                       kind_filters, oneshot_kind_filters>>
        /\ Newest' = Newest /\ Begun' = Begun
    BY DEF callVars, server, oneshot, topics, clients, Newest, Begun
  <1>2. \A d \in Calls : Answers(d)' = Answers(d)
    BY <1>1 DEF Answers
  <1>3. \A d \in Calls : Completed(d)' <=> Completed(d)
    BY <1>1 DEF Completed
  <1>4. CallTypeOK'
    <2>1. TypeOK'
      BY DEF IInvOrder, IInv
    <2> QED
      BY <1>1, <2>1 DEF CallIInv, CallTypeOK
  <1>5. Jobs' /\ Handles' /\ Entries' /\ NeverEOF'
    BY <1>1 DEF CallIInv, Jobs, Handles, Entries, NeverEOF
  <1>6. Answered'
    BY <1>1, <1>2 DEF CallIInv, Answered, Fits
  <1>7. Returned'
    BY <1>1, <1>2, <1>3 DEF CallIInv, Returned
  <1>8. NoAnswerLost'
    BY <1>1, <1>2 DEF CallIInv, NoAnswerLost
  <1> QED
    BY <1>4, <1>5, <1>6, <1>7, <1>8 DEF CallIInv

\* The task reads an item of the stream.
LEMMA ReceiveCallIInv ==
    ASSUME CallIInv, IInvOrder', Receive
    PROVE  CallIInv'
  <1> DEFINE m == [seq |-> read + 1, target |-> stream[read + 1].target,
                   kind |-> ReplyKind, job_name |-> Unreadable]
  <1>1. /\ UNCHANGED <<pc, job, next_job_id, got, outcome, requests, stream>>
        /\ UNCHANGED <<inbox, handle, lagged>>
        /\ UNCHANGED <<job_id_filters, job_id_multi_filters, notification_filters,
                       kind_filters, oneshot_kind_filters>>
        /\ read' = read + 1 /\ message' = m /\ stage' = "job_id" /\ stage = "next"
    BY DEF Receive, Read, callVars, server, oneshot, topics, clients
  <1>2. m.seq = read + 1 /\ m.target = stream[read + 1].target
    OBVIOUS
  <1> HIDE DEF m
  <1>3. message = NoMessage /\ message.seq = 0 /\ Newest = read + 1
    BY <1>1, Positions DEF CallIInv, CallTypeOK, TypeOK
  <1>4. read + 1 \in DOMAIN stream /\ read \in Nat /\ Len(stream) \in Nat
    BY Positions, StreamFacts DEF Receive, CallIInv
  <1>5. m # NoMessage /\ Newest' = Newest
    BY <1>1, <1>2, <1>3, <1>4 DEF NoMessage, Newest
  <1>6. \A d \in Calls : Answers(d)' = Answers(d)
    BY <1>1 DEF Answers
  <1>7. \A d \in Calls : Completed(d)' <=> Completed(d)
    BY <1>1 DEF Completed
  <1>8. CallTypeOK'
    <2>1. TypeOK'
      BY DEF IInvOrder, IInv
    <2> QED
      BY <1>1, <2>1 DEF CallIInv, CallTypeOK
  <1>9. Jobs' /\ Handles' /\ Entries' /\ NeverEOF'
    BY <1>1 DEF CallIInv, Jobs, Begun, Handles, Entries, NeverEOF
  <1>10. Consulted'
    BY <1>1 DEF Consulted
  <1>11. Answered'
    <2>1. \A i : i \in 1..read => i \in 1..read'
      BY <1>1, <1>4
    <2>2. Fits(message)'
      <3>1. stream[read + 1].call # NoCall
        BY <1>4 DEF CallIInv, Answered
      <3> QED
        BY <1>1, <1>2, <1>4, <3>1 DEF Fits
    <2>3. (\A d \in Calls : \A k \in DOMAIN inbox[d] :
             Fits(inbox[d][k]) /\ stream[inbox[d][k].seq].call = d)'
      BY <1>1, <2>1 DEF CallIInv, Answered, Fits
    <2>4. \A i \in DOMAIN stream : i > read' => i > read
      BY <1>1, <1>4, StreamFacts DEF CallIInv
    <2>5. read' <= Len(stream)
      BY <1>1, <1>4 DEF Receive
    <2>6. \A d \in Calls \ Multi : \A i, j \in Answers(d)' : i = j
      BY <1>6 DEF CallIInv, Answered
    <2> QED
      BY <1>1, <2>2, <2>3, <2>4, <2>5, <2>6 DEF CallIInv, Answered
  <1>12. Returned'
    BY <1>1, <1>5, <1>6, <1>7 DEF CallIInv, Returned
  <1>13. NoAnswerLost'
    <2>1. ASSUME NEW d \in Calls, NEW i \in Answers(d)
          PROVE  /\ i > read => i > read' \/ message'.seq = i
                 /\ message.seq # i
      BY <1>1, <1>2, <1>3, <1>4, StreamFacts DEF Answers, CallIInv
    <2> QED
      BY <1>1, <1>6, <2>1 DEF CallIInv, NoAnswerLost
  <1> QED
    BY <1>8, <1>9, <1>10, <1>11, <1>12, <1>13 DEF CallIInv

\* An item that does not decode is an answer to nobody.
LEMMA GarbledCallIInv ==
    ASSUME CallIInv, IInvOrder', ReceiveGarbled
    PROVE  CallIInv'
  <1> USE DEF Calls
  <1>1. /\ UNCHANGED <<pc, job, next_job_id, got, outcome, requests>>
        /\ UNCHANGED <<inbox, handle, lagged, message, stage>>
        /\ UNCHANGED <<job_id_filters, job_id_multi_filters, notification_filters,
                       kind_filters, oneshot_kind_filters>>
        /\ read' = read + 1 /\ stage = "next" /\ read < Len(stream)
        /\ stream' = [stream EXCEPT ![read + 1].call = NoCall]
    BY DEF ReceiveGarbled, Skip, callVars, oneshot, topics, clients
  <1>2. message = NoMessage /\ Newest = read + 1 /\ Newest' = read' + 1
    BY <1>1, Positions DEF CallIInv, CallTypeOK, TypeOK, Newest
  <1>3. /\ read + 1 \in DOMAIN stream /\ read \in Nat /\ Len(stream) \in Nat
        /\ DOMAIN stream = 1..Len(stream)
    BY <1>1, Positions, StreamFacts DEF CallIInv
  <1>4. /\ DOMAIN stream' = DOMAIN stream /\ Len(stream') = Len(stream)
        /\ \A i \in DOMAIN stream \ {read + 1} : stream'[i] = stream[i]
        /\ stream'[read + 1].call = NoCall
        /\ stream' \in Seq([call: Calls \cup {NoCall}, target: JobIds, last: BOOLEAN,
                            ok: BOOLEAN])
    <2> DEFINE T == [call: Calls \cup {NoCall}, target: JobIds, last: BOOLEAN, ok: BOOLEAN]
               t == [stream[read + 1] EXCEPT !.call = NoCall]
    <2>1. stream \in Seq(T) /\ stream' = [stream EXCEPT ![read + 1] = t]
      <3>1. stream \in Seq(T)
        BY DEF CallIInv, CallTypeOK
      <3>2. stream' = [stream EXCEPT ![read + 1] = t]
        BY <1>1
      <3> QED
        BY <3>1, <3>2
    <2> HIDE DEF T, t
    <2>2. stream[read + 1] \in T
      BY <1>3, <2>1
    <2>3. t \in T /\ t.call = NoCall
      BY <2>2 DEF T, t
    <2>4. stream' \in Seq(T) /\ Len(stream') = Len(stream) /\ DOMAIN stream' = DOMAIN stream
      BY <1>3, <2>1, <2>3, ExceptSeq
    <2> QED
      BY <1>3, <2>1, <2>3, <2>4 DEF T
  <1>5. \A d \in Calls : Answers(d)' = Answers(d) \ {read + 1}
    BY <1>3, <1>4, CallsAssumption DEF Answers
  <1>6. \A i \in 1..read : i \in DOMAIN stream /\ i # read + 1 /\ stream'[i] = stream[i]
    BY <1>1, <1>3, <1>4
  <1>7. \A d \in Calls : Completed(d)' <=> Completed(d)
    BY <1>1, <1>6, Positions DEF Completed
  <1>8. CallTypeOK'
    <2>1. TypeOK'
      BY DEF IInvOrder, IInv
    <2> QED
      BY <1>1, <1>4, <2>1 DEF CallIInv, CallTypeOK
  <1>9. Jobs' /\ Handles' /\ Entries' /\ Consulted' /\ NeverEOF'
    BY <1>1 DEF CallIInv, Jobs, Begun, Handles, Entries, Consulted, NeverEOF
  <1>10. Answered'
    <2>1. (\A d \in Calls : \A k \in DOMAIN inbox[d] :
             Fits(inbox[d][k]) /\ stream[inbox[d][k].seq].call = d)'
      <3> SUFFICES ASSUME NEW d \in Calls, NEW k \in DOMAIN inbox[d]
                   PROVE  Fits(inbox[d][k])' /\ stream'[inbox[d][k].seq].call = d
        BY <1>1
      <3>1. Fits(inbox[d][k]) /\ stream[inbox[d][k].seq].call = d
        BY DEF CallIInv, Answered
      <3> QED
        BY <1>1, <1>3, <1>6, <3>1 DEF Fits
    <2>2. ASSUME NEW i \in DOMAIN stream
          PROVE  /\ i > read' => stream'[i].call # NoCall
                 /\ stream'[i].call # NoCall =>
                      stream'[i].call \in requests /\ stream'[i].target = job[stream'[i].call]
      BY <1>1, <1>3, <1>4 DEF CallIInv, Answered
    <2>3. read' <= Len(stream)
      BY <1>1, <1>3
    <2>4. \A d \in Calls \ Multi : \A i, j \in Answers(d)' : i = j
      BY <1>5 DEF CallIInv, Answered
    <2> QED
      BY <1>1, <1>2, <1>4, <2>1, <2>2, <2>3, <2>4 DEF CallIInv, Answered
  <1>11. Returned'
    <2>1. ASSUME NEW d \in Calls
          PROVE  /\ \A j \in DOMAIN got[d] :
                      /\ got[d][j] < Newest' /\ stream'[got[d][j]].call = d
                      /\ \A k \in DOMAIN inbox[d] : got[d][j] < inbox[d][k].seq
                 /\ \A i, j \in DOMAIN got[d] : i < j => got[d][i] < got[d][j]
                 /\ got[d] # <<>> => \A i \in Answers(d)' :
                      i <= got[d][Len(got[d])] => i \in Range(got[d])
      <3>1. \A j \in DOMAIN got[d] : got[d][j] \in 1..read /\ got[d][j] < Newest'
        BY <1>1, <1>2, <1>3, Positions
      <3> QED
        BY <1>5, <1>6, <3>1 DEF CallIInv, Returned
    <2> QED
      BY <1>1, <1>7, <2>1 DEF CallIInv, Returned
  <1>12. NoAnswerLost'
    <2>1. ASSUME NEW d \in Calls, NEW i \in Answers(d) \ {read + 1}
          PROVE  i > read => i > read'
      BY <1>1, <1>3 DEF Answers
    <2> QED
      BY <1>1, <1>5, <2>1 DEF CallIInv, NoAnswerLost
  <1> QED
    BY <1>8, <1>9, <1>10, <1>11, <1>12 DEF CallIInv

\* The message under dispatch answers a call that sent its request, and is
\* addressed to its id.
LEMMA Addressee ==
    ASSUME CallIInv, message # NoMessage
    PROVE  /\ message.seq = read /\ read \in DOMAIN stream
           /\ stream[read].call \in Begun \cap requests
           /\ message.target = job[stream[read].call]
  <1>1. message.seq = read /\ read \in DOMAIN stream
    BY Positions, StreamFacts DEF CallIInv
  <1>2. stream[read].call # NoCall /\ message.target = stream[read].target
    BY <1>1 DEF CallIInv, Answered, Fits
  <1> QED
    BY <1>1, <1>2 DEF CallIInv, CallTypeOK, Answered, Begun

\* A dispatch ends with the message in the channel of the call it answers,
\* unless that call does not wait.
LEMMA DispatchedCallIInv ==
    ASSUME CallIInv, IInvOrder', Entries', message # NoMessage, EndDispatch,
           UNCHANGED <<callVars, server, handle>>,
           NEW r \in Calls, r = stream[read].call,
           \A d \in Calls \ {r} : inbox'[d] = inbox[d],
           \/ inbox'[r] = Append(inbox[r], message)
           \/ inbox'[r] = inbox[r] /\ pc[r] \notin {"wait", "consumer"}
    PROVE  CallIInv'
  <1> USE DEF Calls
  <1>1. /\ UNCHANGED <<pc, job, next_job_id, got, outcome, requests, stream, handle, read>>
        /\ stage' = "next" /\ message' = NoMessage
    BY DEF callVars, server, EndDispatch
  <1>2. /\ message.seq = read /\ read \in DOMAIN stream /\ r # NoCall
        /\ Newest = read /\ Newest' = read + 1 /\ read \in Nat
    BY <1>1, Addressee, Positions, CallsAssumption DEF Newest
  <1>3. ASSUME NEW d \in Calls, NEW k \in DOMAIN inbox'[d]
        PROVE  \/ k \in DOMAIN inbox[d] /\ inbox'[d][k] = inbox[d][k]
               \/ d = r /\ inbox'[d][k] = message
    <2>1. inbox[d] \in Queue
      BY DEF CallIInv, CallTypeOK, TypeOK
    <2>2. CASE inbox'[d] = inbox[d]
      BY <1>3, <2>2
    <2>3. CASE d = r /\ inbox'[r] = Append(inbox[r], message)
      BY <1>3, <2>1, <2>3 DEF Queue
    <2> QED
      BY <2>2, <2>3
  <1>4. ASSUME NEW d \in Calls, NEW k \in DOMAIN inbox[d]
        PROVE  k \in DOMAIN inbox'[d] /\ inbox'[d][k] = inbox[d][k]
    <2>1. inbox[d] \in Queue
      BY DEF CallIInv, CallTypeOK, TypeOK
    <2> QED
      BY <1>4, <2>1 DEF Queue
  <1>5. ASSUME inbox'[r] = Append(inbox[r], message)
        PROVE  Len(inbox[r]) + 1 \in DOMAIN inbox'[r]
                 /\ inbox'[r][Len(inbox[r]) + 1] = message
    <2>1. inbox[r] \in Queue
      BY DEF CallIInv, CallTypeOK, TypeOK
    <2> QED
      BY <1>5, <2>1 DEF Queue
  <1>6. \A d \in Calls : Answers(d)' = Answers(d)
    BY <1>1 DEF Answers
  <1>7. \A d \in Calls : Completed(d)' <=> Completed(d)
    BY <1>1 DEF Completed
  <1>8. CallTypeOK'
    <2>1. TypeOK'
      BY DEF IInvOrder, IInv
    <2> QED
      BY <1>1, <2>1 DEF CallIInv, CallTypeOK
  <1>9. Jobs' /\ Handles' /\ Consulted' /\ NeverEOF'
    BY <1>1 DEF CallIInv, Jobs, Begun, Handles, Consulted, NeverEOF
  <1>10. Answered'
    <2>1. (\A d \in Calls : \A k \in DOMAIN inbox[d] :
             Fits(inbox[d][k]) /\ stream[inbox[d][k].seq].call = d)'
      <3> SUFFICES ASSUME NEW d \in Calls, NEW k \in DOMAIN inbox'[d]
                   PROVE  Fits(inbox[d][k])' /\ stream[inbox'[d][k].seq].call = d
        BY <1>1
      <3>1. CASE k \in DOMAIN inbox[d] /\ inbox'[d][k] = inbox[d][k]
        <4>1. Fits(inbox[d][k]) /\ stream[inbox[d][k].seq].call = d
          BY <3>1 DEF CallIInv, Answered
        <4> QED
          BY <1>1, <3>1, <4>1 DEF Fits
      <3>2. CASE d = r /\ inbox'[d][k] = message
        <4>1. Fits(message)
          BY DEF CallIInv, Answered
        <4> QED
          BY <1>1, <1>2, <3>2, <4>1 DEF Fits
      <3> QED
        BY <1>3, <3>1, <3>2
    <2>2. \A d \in Calls \ Multi : \A i, j \in Answers(d)' : i = j
      BY <1>6 DEF CallIInv, Answered
    <2> QED
      BY <1>1, <2>1, <2>2 DEF CallIInv, Answered
  <1>11. Returned'
    <2>1. ASSUME NEW d \in Calls
          PROVE  /\ \A j \in DOMAIN got[d] :
                      /\ got[d][j] < Newest' /\ stream[got[d][j]].call = d
                      /\ \A k \in DOMAIN inbox'[d] : got[d][j] < inbox'[d][k].seq
                 /\ \A i, j \in DOMAIN got[d] : i < j => got[d][i] < got[d][j]
                 /\ got[d] # <<>> => \A i \in Answers(d) :
                      i <= got[d][Len(got[d])] => i \in Range(got[d])
      <3>1. \A j \in DOMAIN got[d] : /\ got[d][j] < message.seq /\ got[d][j] < Newest'
        BY <1>2, Positions
      <3>2. ASSUME NEW j \in DOMAIN got[d], NEW k \in DOMAIN inbox'[d]
            PROVE  got[d][j] < inbox'[d][k].seq
        BY <1>3, <3>1 DEF CallIInv, Returned
      <3> QED
        BY <3>1, <3>2 DEF CallIInv, Returned
    <2> QED
      BY <1>1, <1>6, <1>7, <2>1 DEF CallIInv, Returned
  <1>12. NoAnswerLost'
    <2> SUFFICES ASSUME NEW d \in Calls, pc[d] \in {"wait", "consumer"},
                        NEW i \in Answers(d)
                 PROVE  \/ i > read
                        \/ \E k \in DOMAIN inbox'[d] : inbox'[d][k].seq = i
                        \/ i \in Range(got[d])
      BY <1>1, <1>6 DEF NoAnswerLost
    <2>1. CASE message.seq = i
      <3>1. d = r
        BY <1>2, <2>1 DEF Answers
      <3>2. \E k \in DOMAIN inbox'[r] : inbox'[r][k] = message
        <4>1. CASE inbox'[r] = Append(inbox[r], message)
          BY <1>5, <4>1
        <4>2. CASE inbox'[r] = inbox[r] /\ pc[r] \notin {"wait", "consumer"}
          BY <3>1, <4>2
        <4> QED
          BY <4>1, <4>2
      <3> QED
        BY <2>1, <3>1, <3>2
    <2>2. CASE \E k \in DOMAIN inbox[d] : inbox[d][k].seq = i
      <3>1. PICK k \in DOMAIN inbox[d] : inbox[d][k].seq = i
        BY <2>2
      <3> QED
        BY <1>4, <3>1
    <2> QED
      BY <2>1, <2>2 DEF CallIInv, NoAnswerLost
  <1> QED
    BY <1>8, <1>9, <1>10, <1>11, <1>12 DEF CallIInv

\* The entry the task finds is the one of the call the message answers.
LEMMA FilterStepCallIInv ==
    ASSUME CallIInv, IInvOrder', FilterStep
    PROVE  CallIInv'
  <1> USE DEF Calls
  <1> DEFINE r == stream[read].call
  <1>1. message # NoMessage
    BY DEF FilterStep, Dispatch, ByJobId, ByJobIdMulti, SendMulti, ByOneshotKind,
           ByNotification, ByKind, KeepRest, CallIInv, CallTypeOK, TypeOK
  <1>2. /\ r \in Begun /\ r \in Calls /\ r \in requests /\ message.target = job[r]
        /\ message.seq = read /\ read \in DOMAIN stream
    BY <1>1, Addressee DEF Begun
  <1> HIDE DEF r
  <1>3. UNCHANGED <<callVars, server>>
    BY DEF FilterStep
  <1>4. UNCHANGED <<pc, job, next_job_id, got, outcome, requests, stream>>
    BY <1>3 DEF callVars, server
  <1>5. ASSUME Give(r)
        PROVE  /\ \A d \in Calls \ {r} : inbox'[d] = inbox[d]
               /\ \/ inbox'[r] = Append(inbox[r], message)
                  \/ inbox'[r] = inbox[r] /\ pc[r] \notin {"wait", "consumer"}
    <2>1. handle[r] = "dropped" => pc[r] = "done"
      BY <1>2 DEF CallIInv, Handles
    <2> QED
      BY <1>2, <1>5, <2>1 DEF Give, CallIInv, CallTypeOK, TypeOK
  <1>6. CASE ByJobId
    <2>1. CASE message.target \in DOMAIN job_id_filters
      <3>1. job_id_filters[message.target] = r /\ r \notin Multi
        BY <1>2, <2>1, Owners
      <3>2. /\ Give(r) /\ EndDispatch
            /\ job_id_filters' = Remove(job_id_filters, message.target)
            /\ UNCHANGED <<job_id_multi_filters, oneshot_kind_filters, topics, handle,
                           lagged>>
        BY <1>6, <2>1, <3>1 DEF ByJobId
      <3>3. /\ DOMAIN job_id_filters' = DOMAIN job_id_filters \ {message.target}
            /\ \A k \in DOMAIN job_id_filters' : job_id_filters'[k] = job_id_filters[k]
        BY <3>2 DEF Remove, Restrict
      <3>4. ASSUME NEW d \in Calls \ Multi, pc[d] \in {"send", "wait"}, inbox'[d] = <<>>
            PROVE  job[d] \in DOMAIN job_id_filters'
        <4>1. d # r
          <5>1. CASE pc[r] \in {"send", "wait"}
            <6>1. pc[r] = "wait"
              BY <1>2, <5>1 DEF CallIInv, Answered
            <6>2. inbox'[r] = Append(inbox[r], message)
              BY <1>5, <3>2, <6>1
            <6>3. inbox[r] \in Queue
              BY <1>2 DEF CallIInv, CallTypeOK, TypeOK
            <6>4. Len(inbox'[r]) = Len(inbox[r]) + 1 /\ Len(inbox[r]) \in Nat
              BY <6>2, <6>3 DEF Queue
            <6>5. inbox'[r] # <<>>
              BY <6>4
            <6> QED
              BY <3>4, <6>5
          <5> QED
            BY <3>4, <5>1
        <4>2. inbox[d] = <<>> /\ d \in Begun
          BY <1>5, <3>2, <3>4, <4>1 DEF Begun
        <4>3. job[d] \in DOMAIN job_id_filters /\ job[d] # message.target
          BY <1>2, <3>4, <4>1, <4>2 DEF CallIInv, Entries, Jobs
        <4> QED
          BY <3>3, <4>3
      <3>5. Entries'
        BY <1>4, <3>2, <3>3, <3>4 DEF CallIInv, Entries, topics
      <3> QED
        BY <1>1, <1>2, <1>3, <1>5, <3>2, <3>5, DispatchedCallIInv DEF r
    <2>2. CASE message.target \notin DOMAIN job_id_filters
      <3>1. /\ stage' = "job_id_multi"
            /\ UNCHANGED <<read, message, oneshot, job_id_multi_filters, topics, clients>>
        BY <1>6, <2>2 DEF ByJobId, Consult, oneshot, clients
      <3>2. Consulted'
        BY <2>2, <3>1 DEF Consulted, oneshot
      <3> QED
        BY <1>3, <3>1, <3>2, ConsultCallIInv
    <2> QED
      BY <2>1, <2>2
  <1>7. CASE ByJobIdMulti
    <2>1. /\ stage' = IF message.target \in DOMAIN job_id_multi_filters
                      THEN "sending" ELSE "oneshot_kind"
          /\ UNCHANGED <<read, message, oneshot, job_id_multi_filters, topics, clients>>
      BY <1>7 DEF ByJobIdMulti, Consult
    <2>2. message.target \notin DOMAIN job_id_filters
      BY <1>7 DEF ByJobIdMulti, CallIInv, Consulted
    <2>3. Consulted'
      BY <2>1, <2>2 DEF Consulted, oneshot
    <2> QED
      BY <1>3, <2>1, <2>3, ConsultCallIInv
  <1>8. CASE SendMulti
    <2>1. message.target \in DOMAIN job_id_multi_filters
      BY <1>8 DEF SendMulti, CallIInv, IInvOrder, IInv, BorrowedEntryStays
    <2>2. job_id_multi_filters[message.target] = r /\ r \in Multi
      BY <1>2, <2>1, Owners
    <2>3. /\ Give(r) /\ EndDispatch
          /\ UNCHANGED <<oneshot, job_id_multi_filters, topics, handle, lagged>>
      BY <1>8, <2>2 DEF SendMulti
    <2>4. \A d \in Calls \ Multi : inbox'[d] = inbox[d]
      BY <1>5, <2>2, <2>3
    <2>5. Entries'
      BY <1>4, <2>3, <2>4 DEF CallIInv, Entries, topics, oneshot
    <2> QED
      BY <1>1, <1>2, <1>3, <1>5, <2>3, <2>5, DispatchedCallIInv DEF r
  <1>9. CASE ByOneshotKind \/ ByKind
    <2>1. oneshot_kind_filters = <<>> /\ kind_filters = <<>>
      BY DEF CallIInv, Entries
    <2>2. /\ stage \in {"oneshot_kind", "broadcast"} /\ stage' \in {"broadcast", "rest"}
          /\ UNCHANGED <<read, message, oneshot, job_id_multi_filters, topics, clients>>
      BY <1>9, <2>1 DEF ByOneshotKind, ByKind, Consult, oneshot, clients
    <2>3. Consulted'
      BY <2>2 DEF CallIInv, Consulted, oneshot
    <2> QED
      BY <1>3, <2>2, <2>3, ConsultCallIInv
  <1>10. CASE ByNotification \/ KeepRest
    <2>1. notification_filters = <<>>
      BY DEF CallIInv, Entries
    <2>2. /\ stage \in {"broadcast", "rest"} /\ EndDispatch
          /\ UNCHANGED <<oneshot, job_id_multi_filters, topics, clients>>
      BY <1>10, <2>1 DEF ByNotification, KeepRest
    <2>3. job[r] \notin DOMAIN job_id_filters /\ job[r] \notin DOMAIN job_id_multi_filters
      BY <1>2, <2>2 DEF CallIInv, Consulted
    <2>4. pc[r] \notin {"wait", "consumer"}
      <3>1. CASE r \in Multi
        BY <2>3, <3>1 DEF CallIInv, Entries
      <3>2. CASE r \notin Multi
        <4>1. SUFFICES ASSUME pc[r] = "wait" PROVE FALSE
          BY <1>2, <3>2 DEF CallIInv, Handles
        <4>2. inbox[r] # <<>>
          BY <1>2, <2>3, <3>2, <4>1 DEF CallIInv, Entries
        <4>3. 1 \in DOMAIN inbox[r]
          BY <1>2, <4>2, Positions
        <4>4. /\ stream[inbox[r][1].seq].call = r /\ inbox[r][1].seq \in DOMAIN stream
              /\ inbox[r][1].seq < read
          <5>1. inbox[r][1].seq \in 1..read /\ inbox[r][1].seq < Newest
            BY <1>2, <4>3, Positions
          <5>2. Newest = read /\ read \in Nat /\ read <= Len(stream)
            BY <1>1, Positions
          <5>3. stream[inbox[r][1].seq].call = r
            BY <1>2, <4>3 DEF CallIInv, Answered
          <5> QED
            BY <5>1, <5>2, <5>3, StreamFacts DEF CallIInv
        <4>5. inbox[r][1].seq = read
          BY <1>2, <3>2, <4>4 DEF CallIInv, Answered, Answers, r
        <4>6. read \in Nat
          BY Positions
        <4> QED
          BY <4>4, <4>5, <4>6
      <3> QED
        BY <3>1, <3>2
    <2>5. Entries' /\ inbox' = inbox /\ handle' = handle
      BY <1>4, <2>2 DEF CallIInv, Entries, topics, oneshot, clients
    <2> QED
      BY <1>1, <1>2, <1>3, <2>2, <2>4, <2>5, DispatchedCallIInv DEF r
  <1> QED
    BY <1>6, <1>7, <1>8, <1>9, <1>10 DEF FilterStep, Dispatch

LEMMA NextCallIInv == CallIInv /\ [Next]_vars => CallIInv'
  <1> SUFFICES ASSUME CallIInv, [Next]_vars PROVE CallIInv'
    OBVIOUS
  <1>1. IInvOrder'
    BY CallsUseFilter, NextIInvOrder DEF CallIInv
  <1>2. CASE \E c \in Calls, last, ok \in BOOLEAN : Reply(c, last, ok)
    BY <1>1, <1>2, ReplyCallIInv
  <1>3. CASE Receive
    BY <1>1, <1>3, ReceiveCallIInv
  <1>4. CASE ReceiveGarbled
    BY <1>1, <1>4, GarbledCallIInv
  <1>5. CASE Disconnect \/ UNCHANGED vars
    <2>1. /\ UNCHANGED <<callVars, server>> /\ (stage' = stage \/ stage' = "stopped")
          /\ UNCHANGED <<read, message, oneshot, job_id_multi_filters, topics, clients>>
      BY <1>5 DEF Disconnect, Stop, vars, filterVars, task
    <2>2. Consulted'
      BY <2>1 DEF CallIInv, Consulted, oneshot
    <2> QED
      BY <1>1, <2>1, <2>2, ConsultCallIInv
  <1>6. CASE FilterStep
    BY <1>1, <1>6, FilterStepCallIInv
  <1>7. ASSUME NEW c \in Calls, Begin(c) PROVE CallIInv'
    BY <1>1, <1>7, BeginCallIInv
  <1>8. ASSUME NEW c \in Calls, Register(c) PROVE CallIInv'
    BY <1>1, <1>8, RegisterCallIInv
  <1>9. ASSUME NEW c \in Calls, Send(c) \/ Resume(c) PROVE CallIInv'
    BY <1>1, <1>9, WaitCallIInv
  <1>10. ASSUME NEW c \in Calls, Complete(c) PROVE CallIInv'
    BY <1>1, <1>10, CompleteCallIInv
  <1>11. ASSUME NEW c \in Calls, Return(c) PROVE CallIInv'
    BY <1>1, <1>11, ReturnCallIInv
  <1>12. ASSUME NEW c \in Calls,
                SendFails(c) \/ GiveUp(c) \/ Cancel(c) \/ ReturnError(c) \/ Close(c)
         PROVE  CallIInv'
    BY <1>1, <1>12, LeaveCallIInv
  <1> QED
    BY <1>2, <1>3, <1>4, <1>5, <1>6, <1>7, <1>8, <1>9, <1>10, <1>11, <1>12 DEF Next, Step

\* The inductive invariant of calls and filter holds in every behaviour.
THEOREM InductiveCalls == Spec => []CallIInv
  BY InitCallIInv, NextCallIInv, PTL DEF Spec
-----------------------------------------------------------------------------
(* What the calls are sure of. *)

\* The calls are clients of the filter: every step of theirs is one of
\* FilterNext, so what holds of the filter for any clients holds under them.
THEOREM CallsImplementFilter == Spec => FilterSpec
  <1>1. Init => FilterInit
    BY DEF Init
  <1> QED
    BY <1>1, InductiveCalls, CallsUseFilter, PTL DEF Spec, FilterSpec

\* Every variable of a connection with calls has its type; no call draws an id
\* beyond the number of calls.
THEOREM CallsTypeCorrect == Spec => []CallTypeOK
  <1>1. CallIInv => CallTypeOK
    BY DEF CallIInv
  <1> QED
    BY <1>1, InductiveCalls, PTL

\* mod.rs lines 325-371: a call returns answers to its own request and to no
\* other, in the order they were sent.
THEOREM OwnAnswersInOrderHolds == Spec => []OwnAnswersInOrder
  <1>1. CallIInv => OwnAnswersInOrder
    BY DEF CallIInv, Returned, OwnAnswersInOrder
  <1> QED
    BY <1>1, InductiveCalls, PTL

\* mod.rs lines 325-371, filter.rs lines 84-92: no answer is lost on its way to
\* a call that waits for it, because the call registers before it sends.
THEOREM NoAnswerLostHolds == Spec => []NoAnswerLost
  <1>1. CallIInv => NoAnswerLost
    BY DEF CallIInv
  <1> QED
    BY <1>1, InductiveCalls, PTL

\* mod.rs line 369, filter.rs line 85: a call that ended well left no entry in
\* the maps.
THEOREM LeftOnlyAfterGivingUpHolds == Spec => []LeftOnlyAfterGivingUp
  <1>1. CallIInv => LeftOnlyAfterGivingUp
    BY DEF CallIInv, Entries, LeftOnlyAfterGivingUp, Range
  <1> QED
    BY <1>1, InductiveCalls, PTL

\* mod.rs lines 332, 344 and 361: no call is told that its channel was closed.
THEOREM NeverEOFHolds == Spec => []NeverEOF
  <1>1. CallIInv => NeverEOF
    BY DEF CallIInv
  <1> QED
    BY <1>1, InductiveCalls, PTL

\* mod.rs lines 348-371: a stream that ends well ends with the completed part,
\* and has returned every part before it that reached the client.
THEOREM WholeStreamHolds == Spec => []WholeStream
  <1>1. CallIInv => WholeStream
    <2> SUFFICES ASSUME CallIInv, NEW c \in Multi, outcome[c] = "ok"
                 PROVE  /\ Completed(c)
                        /\ {i \in Answers(c) : i <= got[c][Len(got[c])]} = Range(got[c])
      BY DEF WholeStream
    <2>1. c \in Calls /\ Completed(c) /\ got[c] # <<>>
      BY CallsAssumption DEF CallIInv, Returned, Completed
    <2>2. \A i \in Answers(c) : i <= got[c][Len(got[c])] => i \in Range(got[c])
      BY <2>1 DEF CallIInv, Returned
    <2>3. ASSUME NEW j \in DOMAIN got[c]
          PROVE  got[c][j] \in Answers(c) /\ got[c][j] <= got[c][Len(got[c])]
      <3>1. got[c][j] \in 1..read /\ read \in Nat /\ read <= Len(stream)
        BY <2>1, Positions
      <3>2. got[c][j] \in Answers(c)
        BY <2>1, <3>1, StreamFacts DEF CallIInv, Returned, Answers
      <3>3. /\ Len(got[c]) \in DOMAIN got[c] /\ j \in 1..Len(got[c]) /\ Len(got[c]) \in Nat
            /\ got[c][Len(got[c])] \in 1..read
        BY <2>1, Positions
      <3>4. j < Len(got[c]) => got[c][j] < got[c][Len(got[c])]
        BY <2>1, <3>3 DEF CallIInv, Returned
      <3> QED
        BY <3>1, <3>2, <3>3, <3>4
    <2> QED
      BY <2>1, <2>2, <2>3 DEF Range
  <1> QED
    BY <1>1, InductiveCalls, PTL
-----------------------------------------------------------------------------
(* The refinement: with the filters, ids and channels hidden, a connection *)
(* is a RequestReply.                                                      *)

Status    == [c \in Calls |-> IF pc[c] \in {"idle", "done"} THEN pc[c] ELSE "open"]
AnswersTo == [c \in Calls |-> {Numbered(i) : i \in Answers(c)}]
Taken     == [c \in Calls |-> [j \in DOMAIN got[c] |-> Numbered(got[c][j])]]

\* The steps of RequestReply, as those of a connection.
AnswersGoOut(c) ==
    /\ Status[c] # "idle"
    /\ \E a \in AnswersTo'[c] :
         /\ \A b \in AnswersTo[c] : b.n < a.n
         /\ AnswersTo' = [AnswersTo EXCEPT ![c] = @ \cup {a}]
    /\ UNCHANGED <<Status, Taken, outcome>>

AnswerIsLost(c) ==
    /\ \E a \in AnswersTo[c] \ Range(Taken[c]) :
         AnswersTo' = [AnswersTo EXCEPT ![c] = @ \ {a}]
    /\ UNCHANGED <<Status, Taken, outcome>>

Ends(c, how) ==
    /\ Status' = [Status EXCEPT ![c] = "done"]
    /\ outcome' = [outcome EXCEPT ![c] = how]

AnswerIsTaken(c) ==
    /\ Status[c] = "open"
    /\ \E a \in AnswersTo[c] \ Range(Taken[c]) :
         /\ \A b \in AnswersTo[c] : b.n < a.n => b \in Range(Taken[c])
         /\ Taken' = [Taken EXCEPT ![c] = Append(@, a)]
    /\ IF c \in Multi THEN UNCHANGED <<Status, outcome>> ELSE Ends(c, "ok")
    /\ UNCHANGED AnswersTo

LEMMA AbstractSteps ==
    /\ \A c \in Calls :
         /\ /\ Status[c] = "idle" /\ Status' = [Status EXCEPT ![c] = "open"]
            /\ UNCHANGED <<AnswersTo, Taken, outcome>>
            => Abstract!Next
         /\ AnswersGoOut(c) => Abstract!Next
         /\ AnswerIsLost(c) => Abstract!Next
         /\ AnswerIsTaken(c) => Abstract!Next
         /\ /\ Status[c] = "open" /\ Taken[c] # <<>> /\ Taken[c][Len(Taken[c])].last
            /\ Ends(c, "ok") /\ UNCHANGED <<AnswersTo, Taken>>
            => Abstract!Next
         /\ \A how \in {"error", "timeout", "cancelled"} :
              /\ Status[c] = "open" /\ Ends(c, how) /\ UNCHANGED <<AnswersTo, Taken>>
              => Abstract!Next
    /\ UNCHANGED <<Status, AnswersTo, Taken, outcome>> => UNCHANGED Abstract!vars
  <1>1. ASSUME NEW c \in Calls, Status[c] = "idle",
               Status' = [Status EXCEPT ![c] = "open"],
               UNCHANGED <<AnswersTo, Taken, outcome>>
        PROVE  Abstract!Ask(c)
    BY <1>1 DEF Abstract!Ask, Status, AnswersTo, Taken
  <1>2. ASSUME NEW c \in Calls, AnswersGoOut(c) PROVE Abstract!Answer(c)
    BY <1>2 DEF AnswersGoOut, Abstract!Answer, Status, AnswersTo, Taken
  <1>3. ASSUME NEW c \in Calls, AnswerIsLost(c) PROVE Abstract!Lose(c)
    BY <1>3 DEF AnswerIsLost, Abstract!Lose, Abstract!Range, Range, Status, AnswersTo, Taken
  <1>4. ASSUME NEW c \in Calls, AnswerIsTaken(c) PROVE Abstract!Take(c)
    BY <1>4 DEF AnswerIsTaken, Ends, Abstract!Take, Abstract!Finish, Abstract!Range, Range,
              Status, AnswersTo, Taken
  <1>5. ASSUME NEW c \in Calls, Status[c] = "open", Taken[c] # <<>>,
               Taken[c][Len(Taken[c])].last,
               Ends(c, "ok"), UNCHANGED <<AnswersTo, Taken>>
        PROVE  Abstract!Complete(c)
    BY <1>5 DEF Ends, Abstract!Complete, Abstract!Finish, Status, AnswersTo, Taken
  <1>6. ASSUME NEW c \in Calls, NEW how \in {"error", "timeout", "cancelled"},
               Status[c] = "open", Ends(c, how), UNCHANGED <<AnswersTo, Taken>>
        PROVE  Abstract!GiveUp(c)
    BY <1>6 DEF Ends, Abstract!GiveUp, Abstract!Finish, Status, AnswersTo, Taken
  <1>7. UNCHANGED <<Status, AnswersTo, Taken, outcome>> => UNCHANGED Abstract!vars
    BY DEF Abstract!vars, Status, AnswersTo, Taken
  <1> QED
    BY <1>1, <1>2, <1>3, <1>4, <1>5, <1>6, <1>7 DEF Abstract!Next

\* An answer is known by its position.
LEMMA NumberedFacts ==
    /\ \A i : Numbered(i).n = i /\ Numbered(i).last = stream[i].last
    /\ \A i, j : Numbered(i) = Numbered(j) => i = j
  <1>1. \A i : Numbered(i).n = i /\ Numbered(i).last = stream[i].last
    BY DEF Numbered
  <1> QED
    BY <1>1

LEMMA TakenFacts ==
    ASSUME CallTypeOK, NEW c \in Calls
    PROVE  /\ AnswersTo[c] = {Numbered(i) : i \in Answers(c)}
           /\ Taken[c] = [j \in DOMAIN got[c] |-> Numbered(got[c][j])]
           /\ DOMAIN Taken[c] = DOMAIN got[c] /\ Taken[c] \in Seq({Numbered(i) : i \in Nat})
           /\ Len(Taken[c]) = Len(got[c])
           /\ \A i : Numbered(i) \in Range(Taken[c]) <=> i \in Range(got[c])
  <1>1. AnswersTo[c] = {Numbered(i) : i \in Answers(c)}
    BY DEF AnswersTo
  <1>2. Taken[c] = [j \in DOMAIN got[c] |-> Numbered(got[c][j])]
    BY DEF Taken
  <1>3. got[c] \in Seq(Nat)
    BY FilterAssumption DEF CallTypeOK
  <1>4. Taken[c] \in Seq({Numbered(i) : i \in Nat}) /\ Len(Taken[c]) = Len(got[c])
    <2>1. \A j \in 1..Len(got[c]) : got[c][j] \in Nat
      BY <1>3
    <2>2. Len(got[c]) \in Nat /\ DOMAIN got[c] = 1..Len(got[c])
      BY <1>3
    <2> HIDE DEF Numbered
    <2> QED
      BY <1>2, <2>1, <2>2
  <1>5. \A i : Numbered(i) \in Range(Taken[c]) <=> i \in Range(got[c])
    BY <1>2, NumberedFacts DEF Range
  <1> QED
    BY <1>1, <1>2, <1>4, <1>5

\* The step of a call that begins, returns an answer, or leaves.
LEMMA BeginRefines ==
    ASSUME CallIInv, NEW c \in Calls, Begin(c)
    PROVE  Abstract!Next
  <1>1. /\ Status[c] = "idle" /\ Status' = [Status EXCEPT ![c] = "open"]
        /\ UNCHANGED <<got, stream, outcome>>
    BY DEF Begin, Goto, server, CallIInv, CallTypeOK, Status
  <1>2. UNCHANGED <<AnswersTo, Taken>>
    BY <1>1 DEF AnswersTo, Taken, Answers, Numbered
  <1> QED
    BY <1>1, <1>2, AbstractSteps

LEMMA QuietRefines ==
    ASSUME CallIInv, NEW c \in Calls,
           Register(c) \/ Send(c) \/ Resume(c) \/ Complete(c)
    PROVE  UNCHANGED Abstract!vars
  <1>1. UNCHANGED <<got, stream, outcome>>
    BY DEF Register, Send, Resume, Complete, server
  <1>2. UNCHANGED <<AnswersTo, Taken>>
    BY <1>1 DEF AnswersTo, Taken, Answers, Numbered
  <1>3. PICK where \in {"send", "wait", "complete", "close"} : Goto(c, where)
    BY DEF Register, Send, Resume, Complete
  <1>4. pc[c] \notin {"idle", "done"}
    BY DEF Register, Send, Resume, Complete
  <1>5. UNCHANGED Status
    BY <1>3, <1>4 DEF Goto, Status, CallIInv, CallTypeOK
  <1> QED
    BY <1>1, <1>2, <1>5, AbstractSteps

LEMMA EndRefines ==
    ASSUME CallIInv, NEW c \in Calls,
           NEW how \in {"ok", "error", "timeout", "cancelled"}, End(c, how),
           pc[c] \in {"send", "wait", "consumer", "close"},
           how = "ok" => pc[c] = "close"
    PROVE  Abstract!Next
  <1>1. UNCHANGED <<got, stream>>
    BY DEF End, server
  <1>2. UNCHANGED <<AnswersTo, Taken>>
    BY <1>1 DEF AnswersTo, Taken, Answers, Numbered
  <1>3. Status[c] = "open" /\ Ends(c, how)
    BY DEF End, Goto, Ends, Status, CallIInv, CallTypeOK
  <1>4. CASE how = "ok"
    <2>1. c \in Multi
      BY <1>4 DEF CallIInv, Handles
    <2>2. Completed(c)
      BY <1>4, <2>1 DEF CallIInv, Returned
    <2>3. got[c] # <<>> /\ Len(got[c]) \in DOMAIN got[c]
      BY <2>2, Positions DEF Completed
    <2>4. Taken[c] # <<>> /\ Taken[c][Len(Taken[c])].last
      <3>0. Taken[c][Len(got[c])] = Numbered(got[c][Len(got[c])])
        BY <2>3, TakenFacts DEF CallIInv
      <3>1. Taken[c][Len(got[c])].last = stream[got[c][Len(got[c])]].last
        BY <3>0, NumberedFacts
      <3>2. DOMAIN Taken[c] = DOMAIN got[c] /\ Len(Taken[c]) = Len(got[c])
        BY TakenFacts DEF CallIInv
      <3>3. Taken[c] # <<>>
        BY <2>3, <3>2
      <3> QED
        BY <2>2, <3>1, <3>2, <3>3 DEF Completed
    <2> QED
      BY <1>2, <1>3, <1>4, <2>4, AbstractSteps
  <1>5. CASE how # "ok"
    BY <1>2, <1>3, <1>5, AbstractSteps
  <1> QED
    BY <1>4, <1>5

LEMMA ReturnRefines ==
    ASSUME CallIInv, CallIInv', NEW c \in Calls, Return(c)
    PROVE  Abstract!Next
  <1> DEFINE a == Answer(c)
  <1>1. /\ pc[c] = "wait" /\ inbox[c] # <<>> /\ stream' = stream
        /\ got' = [got EXCEPT ![c] = Append(@, a)]
    BY DEF Return, server
  <1>2. a \in Answers(c) /\ \A j \in DOMAIN got[c] : got[c][j] < a /\ got[c][j] \in Int
    <2>1. 1 \in DOMAIN inbox[c] /\ a = inbox[c][1].seq
      BY <1>1, Positions DEF Answer
    <2>2. a \in 1..read /\ read <= Len(stream) /\ read \in Nat
      BY <2>1, Positions
    <2>3. stream[a].call = c /\ a \in DOMAIN stream
      BY <2>1, <2>2, StreamFacts DEF CallIInv, Answered
    <2> QED
      BY <2>1, <2>3, Positions DEF CallIInv, Returned, Answers
  <1> HIDE DEF a
  <1>3. got'[c] = Append(got[c], a) /\ got[c] \in Seq(Nat) /\ a \in Nat
    BY <1>1, <1>2, FilterAssumption, StreamFacts DEF CallIInv, CallTypeOK, Answers
  <1>4. a \notin Range(got[c])
    BY <1>2, <1>3 DEF Range
  \* Every answer before a was returned: Returned says so after the step.
  <1>5. \A i \in Answers(c) : i < a => i \in Range(got[c])
    <2>1. \A i \in Answers(c)' : i <= got'[c][Len(got'[c])] => i \in Range(got'[c])
      <3>1. got'[c] # <<>>
        BY <1>3
      <3> QED
        BY <3>1 DEF CallIInv, Returned
    <2>2. Answers(c)' = Answers(c) /\ \A i \in Answers(c) : i \in Nat
      BY <1>1, StreamFacts DEF Answers, CallIInv
    <2>3. got'[c][Len(got'[c])] = a /\ Range(got'[c]) = Range(got[c]) \cup {a}
      <3>1. /\ Len(got'[c]) = Len(got[c]) + 1 /\ Len(got[c]) \in Nat
            /\ DOMAIN got'[c] = DOMAIN got[c] \cup {Len(got[c]) + 1}
            /\ got'[c][Len(got[c]) + 1] = a
            /\ \A j \in DOMAIN got[c] : got'[c][j] = got[c][j]
        BY <1>3
      <3> QED
        BY <3>1 DEF Range
    <2> QED
      BY <1>3, <2>1, <2>2, <2>3
  <1>6. AnswersTo' = AnswersTo
    BY <1>1 DEF AnswersTo, Answers, Numbered
  <1>7. Taken' = [Taken EXCEPT ![c] = Append(@, Numbered(a))]
    <2>1. \A i : Numbered(i)' = Numbered(i)
      BY <1>1 DEF Numbered
    <2>2. Taken' = [d \in Calls |-> [j \in DOMAIN got'[d] |-> Numbered(got'[d][j])]]
      BY <2>1, <1>1 DEF Taken, Numbered
    <2>3. ASSUME NEW d \in Calls \ {c}
          PROVE  [j \in DOMAIN got'[d] |-> Numbered(got'[d][j])] = Taken[d]
      BY <1>1 DEF CallIInv, CallTypeOK, Taken
    <2>4. [j \in DOMAIN got'[c] |-> Numbered(got'[c][j])] = Append(Taken[c], Numbered(a))
      <3> DEFINE new == [j \in DOMAIN got'[c] |-> Numbered(got'[c][j])]
                 T == {Numbered(i) : i \in Nat}
      <3>1. /\ DOMAIN got'[c] = 1..(Len(got[c]) + 1) /\ Len(got[c]) \in Nat
            /\ got'[c][Len(got[c]) + 1] = a
            /\ \A j \in 1..Len(got[c]) : j \in DOMAIN got[c] /\ got'[c][j] = got[c][j]
        BY <1>3
      <3>2. Taken[c] \in Seq(T) /\ Len(Taken[c]) = Len(got[c]) /\ Numbered(a) \in T
        BY <1>3, TakenFacts DEF CallIInv
      <3>3. \A j \in 1..Len(got[c]) : Taken[c][j] = Numbered(got[c][j])
        BY <3>1, TakenFacts DEF CallIInv
      <3> HIDE DEF T
      <3>4. /\ DOMAIN Append(Taken[c], Numbered(a)) = 1..(Len(got[c]) + 1)
            /\ Append(Taken[c], Numbered(a))[Len(got[c]) + 1] = Numbered(a)
            /\ \A j \in 1..Len(got[c]) : Append(Taken[c], Numbered(a))[j] = Taken[c][j]
            /\ Append(Taken[c], Numbered(a)) \in Seq(T)
        BY <3>1, <3>2
      <3>5. new = [j \in 1..(Len(got[c]) + 1) |-> Append(Taken[c], Numbered(a))[j]]
        <4>1. \A j \in 1..(Len(got[c]) + 1) : j \in 1..Len(got[c]) \/ j = Len(got[c]) + 1
          BY <3>1
        <4> QED
          BY <3>1, <3>3, <3>4, <4>1
      <3>6. Append(Taken[c], Numbered(a))
              = [j \in 1..(Len(got[c]) + 1) |-> Append(Taken[c], Numbered(a))[j]]
        BY <3>4
      <3> QED
        BY <3>5, <3>6
    <2>5. Taken' = [d \in Calls |-> IF d = c THEN Append(Taken[c], Numbered(a))
                                  ELSE Taken[d]]
      BY <2>2, <2>3, <2>4
    <2>6. Taken = [d \in Calls |-> Taken[d]]
      BY DEF Taken
    <2> HIDE DEF Numbered
    <2> QED
      BY <2>5, <2>6
  <1>8. Status[c] = "open" /\ IF c \in Multi THEN UNCHANGED <<Status, outcome>> ELSE Ends(c, "ok")
    <2>1. Status[c] = "open"
      BY <1>1 DEF Status
    <2>2. pc \in [Calls -> {"idle", "register", "send", "wait", "consumer",
                           "complete", "close", "done"}]
      BY DEF CallIInv, CallTypeOK
    <2>3. CASE c \in Multi
      <3>1. pc' = [pc EXCEPT ![c] = "consumer"] /\ outcome' = outcome
        BY <2>3 DEF Return, Goto
      <3>2. UNCHANGED Status
        BY <1>1, <2>2, <3>1 DEF Status
      <3> QED
        BY <2>1, <2>3, <3>1, <3>2
    <2>4. CASE c \notin Multi
      <3>1. /\ pc' = [pc EXCEPT ![c] = "done"]
            /\ outcome' = [outcome EXCEPT ![c] = "ok"]
        BY <2>4 DEF Return, Goto
      <3>2. Status' = [Status EXCEPT ![c] = "done"]
        BY <2>2, <3>1 DEF Status
      <3>3. Ends(c, "ok")
        BY <3>1, <3>2 DEF Ends
      <3> QED
        BY <2>1, <2>4, <3>3
    <2> QED
      BY <2>3, <2>4
  <1>9. AnswerIsTaken(c)
    <2>1. Numbered(a) \in AnswersTo[c] \ Range(Taken[c])
      BY <1>2, <1>4, TakenFacts DEF CallIInv
    <2>2. ASSUME NEW b \in AnswersTo[c], b.n < Numbered(a).n
          PROVE  b \in Range(Taken[c])
      <3>0. AnswersTo[c] = {Numbered(i) : i \in Answers(c)}
        BY DEF AnswersTo
      <3>1. PICK i \in Answers(c) : b = Numbered(i)
        BY <3>0
      <3>2. i < a
        BY <2>2, <3>1, NumberedFacts
      <3> QED
        BY <1>5, <3>1, <3>2, TakenFacts DEF CallIInv
    <2> QED
      BY <1>6, <1>7, <1>8, <2>1, <2>2 DEF AnswerIsTaken
  <1> QED
    BY <1>9, AbstractSteps

\* The server answers, or an answer does not decode.
LEMMA ReplyRefines ==
    ASSUME CallIInv, NEW c \in Calls, NEW last \in BOOLEAN, NEW ok \in BOOLEAN,
           Reply(c, last, ok)
    PROVE  Abstract!Next
  <1> DEFINE a == [call |-> c, target |-> job[c], last |-> last, ok |-> ok]
             n == Len(stream) + 1
  <1>1. stream' = Append(stream, a) /\ c \in requests /\ UNCHANGED callVars
    BY DEF Reply
  <1>2. /\ Len(stream) \in Nat /\ DOMAIN stream = 1..Len(stream)
        /\ DOMAIN stream' = DOMAIN stream \cup {n}
        /\ \A i \in DOMAIN stream : stream'[i] = stream[i]
        /\ stream'[n] = a
    BY <1>1, StreamFacts DEF CallIInv, CallTypeOK
  <1>3. a.call = c
    OBVIOUS
  <1> HIDE DEF a
  <1>4. \A d \in Calls :
          Answers(d)' = Answers(d) \cup IF d = c THEN {n} ELSE {}
    BY <1>2, <1>3 DEF Answers
  <1> DEFINE After(i) == [n |-> i, last |-> stream'[i].last]
             new == After(n)
  <1>5. \A i \in DOMAIN stream : After(i) = Numbered(i)
    BY <1>2 DEF Numbered
  <1>6. /\ \A d \in Calls : AnswersTo'[d] = {After(i) : i \in Answers(d)'}
        /\ \A d \in Calls : AnswersTo[d] = {Numbered(i) : i \in Answers(d)}
    BY DEF AnswersTo, Numbered
  <1>7. new = After(n) /\ new.n = n
    OBVIOUS
  <1>8. \A d \in Calls : Answers(d) \subseteq DOMAIN stream
    BY DEF Answers
  <1> HIDE DEF n, new
  <1>9. \A d \in Calls : AnswersTo'[d] = AnswersTo[d] \cup IF d = c THEN {new} ELSE {}
    <2> HIDE DEF After
    <2>1. SUFFICES ASSUME NEW d \in Calls
                   PROVE  AnswersTo'[d] = AnswersTo[d] \cup IF d = c THEN {new} ELSE {}
      OBVIOUS
    <2>2. AnswersTo[d] = {After(i) : i \in Answers(d)}
      BY <1>5, <1>6, <1>8
    <2>3. CASE d = c
      <3>1. Answers(d)' = Answers(d) \cup {n}
        BY <1>4, <2>3
      <3>2. AnswersTo'[d] = {After(i) : i \in Answers(d) \cup {n}}
        BY <1>6, <3>1
      <3> QED
        BY <1>7, <2>2, <2>3, <3>2
    <2>4. CASE d # c
      <3>1. Answers(d)' = Answers(d)
        BY <1>4, <2>4
      <3> QED
        BY <1>6, <2>2, <2>4, <3>1
    <2> QED
      BY <2>3, <2>4
  <1>10. AnswersTo' = [AnswersTo EXCEPT ![c] = @ \cup {new}]
    <2>1. AnswersTo = [d \in Calls |-> AnswersTo[d]] /\ AnswersTo' = [d \in Calls |-> AnswersTo'[d]]
      BY DEF AnswersTo
    <2>2. DOMAIN AnswersTo = Calls /\ DOMAIN AnswersTo' = Calls
      BY DEF AnswersTo
    <2> QED
      BY <1>9, <2>1, <2>2
  <1>11. \A b \in AnswersTo[c] : b.n < new.n
    <2>1. SUFFICES ASSUME NEW b \in AnswersTo[c] PROVE b.n < n
      BY <1>7
    <2>2. AnswersTo[c] = {Numbered(i) : i \in Answers(c)}
      BY <1>6
    <2>3. PICK i \in Answers(c) : b = Numbered(i)
      BY <2>2
    <2>4. i \in 1..Len(stream) /\ b.n = i
      BY <1>2, <1>8, <2>3, NumberedFacts
    <2> QED
      BY <1>2, <2>4 DEF n
  <1>12. UNCHANGED <<Status, Taken, outcome>>
    <2>1. UNCHANGED <<Status, outcome, got>>
      BY <1>1 DEF Status, callVars
    <2>2. \A d \in Calls : \A j \in DOMAIN got[d] : got[d][j] \in DOMAIN stream
      BY <1>2, Positions
    <2>3. \A d \in Calls : \A j \in DOMAIN got[d] : Numbered(got[d][j])' = Numbered(got[d][j])
      BY <1>2, <2>1, <2>2 DEF Numbered
    <2> QED
      BY <2>1, <2>3 DEF Taken
  <1>13. Status[c] # "idle"
    BY <1>1 DEF CallIInv, Answered, Status
  <1>14. AnswersGoOut(c)
    <2>1. new \in AnswersTo'[c]
      BY <1>9
    <2> QED
      BY <1>10, <1>11, <1>12, <1>13, <2>1 DEF AnswersGoOut
  <1> QED
    BY <1>14, AbstractSteps

LEMMA GarbledRefines ==
    ASSUME CallIInv, ReceiveGarbled
    PROVE  Abstract!Next
  <1> DEFINE n == read + 1
             c == stream[n].call
             t == [stream[n] EXCEPT !.call = NoCall]
  <1>1. /\ stream' = [stream EXCEPT ![n] = t] /\ read < Len(stream) /\ UNCHANGED callVars
    BY DEF ReceiveGarbled
  <1>2. /\ n \in DOMAIN stream /\ read \in Nat
        /\ Len(stream) \in Nat /\ DOMAIN stream = 1..Len(stream)
    BY <1>1, Positions, StreamFacts DEF CallIInv
  <1>3. c \in Calls /\ c # NoCall
    <2>1. n > read /\ c \in Calls \cup {NoCall}
      BY <1>2, StreamFacts DEF CallIInv
    <2> QED
      BY <1>2, <2>1 DEF CallIInv, Answered
  <1>4. t.call = NoCall /\ t.last = stream[n].last
    <2> DEFINE T == [call: Calls \cup {NoCall}, target: JobIds, last: BOOLEAN, ok: BOOLEAN]
    <2>1. stream \in Seq(T)
      BY DEF CallIInv, CallTypeOK
    <2> HIDE DEF T
    <2>2. stream[n] \in T
      BY <1>2, <2>1
    <2> QED
      BY <2>2 DEF T
  <1> HIDE DEF t
  <1>5. /\ DOMAIN stream' = DOMAIN stream /\ stream'[n] = t
        /\ \A i \in DOMAIN stream \ {n} : stream'[i] = stream[i]
    BY <1>1, <1>2
  <1>6. \A d \in Calls : Answers(d)' = Answers(d) \ IF d = c THEN {n} ELSE {}
    <2> HIDE DEF n
    <2>1. NoCall \notin Calls
      BY CallsAssumption
    <2> QED
      BY <1>3, <1>4, <1>5, <2>1 DEF Answers
  <1>7. \A i \in DOMAIN stream : Numbered(i)' = Numbered(i)
    BY <1>4, <1>5 DEF Numbered
  <1>8. /\ \A d \in Calls : AnswersTo'[d] = {Numbered(i)' : i \in Answers(d)'}
        /\ \A d \in Calls : AnswersTo[d] = {Numbered(i) : i \in Answers(d)}
        /\ \A d \in Calls : Answers(d) \subseteq DOMAIN stream
    BY DEF AnswersTo, Numbered, Answers
  <1>9. n \in Answers(c)
    BY <1>2 DEF Answers
  <1>10. \A d \in Calls : \A j \in DOMAIN got[d] : got[d][j] \in DOMAIN stream /\ got[d][j] # n
    BY <1>2, Positions
  <1> HIDE DEF n, c
  <1>11. \A d \in Calls : AnswersTo'[d] = AnswersTo[d] \ IF d = c THEN {Numbered(n)} ELSE {}
    <2>1. SUFFICES ASSUME NEW d \in Calls
                   PROVE  AnswersTo'[d] = AnswersTo[d] \ IF d = c THEN {Numbered(n)} ELSE {}
      OBVIOUS
    <2>2. Answers(d)' \subseteq DOMAIN stream
      BY <1>6, <1>8
    <2>3. AnswersTo'[d] = {Numbered(i) : i \in Answers(d)'}
      BY <1>7, <1>8, <2>2
    <2>4. AnswersTo[d] = {Numbered(i) : i \in Answers(d)}
      BY <1>8
    <2>5. \A i, j : Numbered(i) = Numbered(j) => i = j
      BY NumberedFacts
    <2> HIDE DEF Numbered
    <2>6. CASE d = c
      <3>1. Answers(d)' = Answers(d) \ {n}
        BY <1>6, <2>6
      <3> QED
        BY <2>3, <2>4, <2>5, <2>6, <3>1
    <2>7. CASE d # c
      <3>1. Answers(d)' = Answers(d)
        BY <1>6, <2>7
      <3> QED
        BY <2>3, <2>4, <2>7, <3>1
    <2> QED
      BY <2>6, <2>7
  <1>12. AnswersTo' = [AnswersTo EXCEPT ![c] = @ \ {Numbered(n)}]
    <2>1. DOMAIN AnswersTo = Calls /\ DOMAIN AnswersTo' = Calls
      BY DEF AnswersTo
    <2>2. AnswersTo = [d \in Calls |-> AnswersTo[d]] /\ AnswersTo' = [d \in Calls |-> AnswersTo'[d]]
      BY DEF AnswersTo
    <2> QED
      BY <1>11, <2>1, <2>2
  <1>13. Numbered(n) \in AnswersTo[c] \ Range(Taken[c])
    <2>1. n \notin Range(got[c])
      BY <1>3, <1>10 DEF Range
    <2> QED
      BY <1>3, <1>9, <2>1, TakenFacts DEF CallIInv
  <1>14. UNCHANGED <<Status, Taken, outcome>>
    <2>1. UNCHANGED <<Status, outcome, got>>
      BY <1>1 DEF Status, callVars
    <2>2. \A d \in Calls : \A j \in DOMAIN got[d] : Numbered(got[d][j])' = Numbered(got[d][j])
      BY <1>4, <1>5, <1>10, <2>1 DEF Numbered
    <2> QED
      BY <2>1, <2>2 DEF Taken
  <1>15. AnswerIsLost(c)
    BY <1>12, <1>13, <1>14 DEF AnswerIsLost
  <1> QED
    BY <1>3, <1>15, AbstractSteps

LEMMA InitRefines == Init => Abstract!Init
  <1> SUFFICES ASSUME Init PROVE Abstract!Init
    OBVIOUS
  <1>1. /\ pc = [c \in Calls |-> "idle"] /\ outcome = [c \in Calls |-> "none"]
        /\ got = [c \in Calls |-> <<>>] /\ stream = <<>>
    BY DEF Init
  <1>2. \A c \in Calls : Answers(c) = {}
    BY <1>1 DEF Answers
  <1>3. Status = [c \in Calls |-> "idle"] /\ AnswersTo = [c \in Calls |-> {}]
    BY <1>1, <1>2 DEF Status, AnswersTo
  <1>4. Taken = [c \in Calls |-> <<>>]
    BY <1>1 DEF Taken
  <1> QED
    BY <1>1, <1>3, <1>4 DEF Abstract!Init, Status, AnswersTo, Taken

\* A step of the dispatch task is none of RequestReply.
LEMMA NextRefines ==
    CallIInv /\ CallIInv' /\ [Next]_vars => [Abstract!Next]_(Abstract!vars)
  <1> SUFFICES ASSUME CallIInv, CallIInv', [Next]_vars
               PROVE  Abstract!Next \/ UNCHANGED Abstract!vars
    OBVIOUS
  <1>1. CASE \E c \in Calls, last, ok \in BOOLEAN : Reply(c, last, ok)
    BY <1>1, ReplyRefines
  <1>2. CASE ReceiveGarbled
    BY <1>2, GarbledRefines
  <1>3. CASE Receive \/ Disconnect \/ FilterStep \/ UNCHANGED vars
    <2>1. UNCHANGED <<pc, got, outcome, stream>>
      BY <1>3 DEF Receive, Disconnect, FilterStep, vars, callVars, server
    <2>2. UNCHANGED <<Status, AnswersTo, Taken, outcome>>
      BY <2>1 DEF Status, AnswersTo, Taken, Answers, Numbered
    <2> QED
      BY <2>2, AbstractSteps
  <1>4. ASSUME NEW c \in Calls, Begin(c) PROVE Abstract!Next
    BY <1>4, BeginRefines
  <1>5. ASSUME NEW c \in Calls, Register(c) \/ Send(c) \/ Resume(c) \/ Complete(c)
        PROVE  UNCHANGED Abstract!vars
    BY <1>5, QuietRefines
  <1>6. ASSUME NEW c \in Calls, Return(c) PROVE Abstract!Next
    BY <1>6, ReturnRefines
  <1>7. ASSUME NEW c \in Calls,
               SendFails(c) \/ GiveUp(c) \/ Cancel(c) \/ ReturnError(c) \/ Close(c)
        PROVE  Abstract!Next
    <2>1. CASE GiveUp(c)
      <3>1. pc[c] = "wait" /\ End(c, "timeout")
        BY <2>1, WaitsOpen DEF GiveUp
      <3> QED
        BY <3>1, EndRefines
    <2>2. CASE SendFails(c) \/ ReturnError(c)
      BY <2>2, EndRefines DEF SendFails, ReturnError
    <2>3. CASE Cancel(c)
      BY <2>3, EndRefines DEF Cancel
    <2>4. CASE Close(c)
      BY <2>4, EndRefines DEF Close
    <2> QED
      BY <1>7, <2>1, <2>2, <2>3, <2>4
  <1> QED
    BY <1>1, <1>2, <1>3, <1>4, <1>5, <1>6, <1>7 DEF Next, Step

\* job, service_method and job_multi implement RequestReply: with the filters,
\* ids and channels hidden, every call returns the answers to its own request
\* in order, and ends with the completed one, an error, or its timeout
\* (mod.rs lines 219-371).
THEOREM ImplementsRequestReplyHolds == Spec => ImplementsRequestReply
  <1>1. Init => Abstract!Init
    BY InitRefines
  <1>2. CallIInv /\ CallIInv' /\ [Next]_vars => [Abstract!Next]_(Abstract!vars)
    BY NextRefines
  <1> QED
    BY <1>1, <1>2, InductiveCalls, PTL DEF Spec, ImplementsRequestReply, Abstract!Spec
=============================================================================
