------------------------- MODULE CoordinatorProofs -------------------------
(***************************************************************************)
(* What holds of GameCoordinator and CoordinatorCalls for any number of    *)
(* coordinators, any capacities and any number of messages and job ids.    *)
(***************************************************************************)
EXTENDS CoordinatorCalls, SequenceTheorems, TLAPS

-----------------------------------------------------------------------------
(* The inductive invariant of the coordinators. *)

Queues == {received, channel, held, buffer}
InPipe(a) == Range(received[a]) \cup Range(channel[a]) \cup Range(held[a])
               \cup Range(buffer[a])

\* A message is one the server said, and a coordinator that has not
\* subscribed is handed none.
Sound ==
    /\ \A n \in DOMAIN said : said[n].n = n /\ said[n].carries # "welcome"
    /\ \A a \in Apps : \A m \in InPipe(a) :
         IF m.carries = "welcome" THEN m.n = 0 ELSE m.n \in DOMAIN said /\ m = said[m.n]
    /\ \A a \in Apps : pc[a] = "new" => /\ received[a] = <<>> /\ channel[a] = <<>>
                                        /\ held[a] = <<>> /\ buffer[a] = <<>>
    /\ \A a \in Apps : since[a] <= Len(said)

IInv == TypeOK /\ Sound /\ RepliesArriveInOrder

(* The inductive invariant of their calls. *)

\* The job id of a call is that of no other call over the connection.
Ids ==
    /\ others \subseteq 1..(next_job_id - 1)
    /\ \A a \in Apps : IF call[a] = "idle" THEN job[a] = NONE
                       ELSE /\ job[a] \in 1..(next_job_id - 1) /\ job[a] \notin others
                            /\ pc[a] = "ready"
    /\ \A a, b \in Apps : job[a] = job[b] /\ job[a] # NONE => a = b

\* An answer bears the id of the call it answers, and there is one at most.
Targets ==
    /\ \A a \in asked : call[a] \in {"wait", "done"}
    /\ \A i \in DOMAIN target :
         \/ target[i].whose = {} /\ target[i].job \in others \cup {NONE}
         \/ \E a \in asked : /\ target[i].whose = {a} /\ target[i].job = job[a]
                             /\ said[i].carries = "reply"
    /\ \A a \in Apps, i, j \in DOMAIN target :
         target[i].whose = {a} /\ target[j].whose = {a} => i = j

\* A call that is not over has its entry until it is given the answer.
Waiters ==
    \A a \in Apps :
        /\ entry[a] \/ answer[a] # <<>> => call[a] # "idle"
        /\ call[a] \in {"send", "wait"} => entry[a] \/ answer[a] # <<>>
        /\ answer[a] # <<>> => 1 \in DOMAIN answer[a] /\ answer[a][1].n \in DOMAIN target
        /\ outcome[a] = "none" <=> call[a] # "done"
        /\ outcome[a] = "ok" => answer[a] # <<>>

CallIInv == IInv /\ CallTypeOK /\ Ids /\ Targets /\ Waiters /\ OwnAnswer /\ NoAnswerLost
-----------------------------------------------------------------------------
(* The pipe of a coordinator as one sequence. *)

Ascending(p) == \A i, j \in Replies(p) : i < j => p[i].n < p[j].n
RepliesIn(p) == {p[i] : i \in Replies(p)}
SentTo(a)    == {said[n] : n \in {n \in Replies(said) : n > since[a]}}

\* A message is appended that is newer than the replies in the pipe.
LEMMA Grows ==
    ASSUME NEW p \in Seq(Message), NEW m \in Message, Ascending(p),
           \A r \in RepliesIn(p) : r.n < m.n
    PROVE  /\ Ascending(Append(p, m))
           /\ RepliesIn(Append(p, m))
                = RepliesIn(p) \cup IF m.carries = "reply" THEN {m} ELSE {}
  <1> DEFINE q == Append(p, m)
  <1>1. /\ Len(p) \in Nat /\ DOMAIN p = 1..Len(p) /\ DOMAIN q = 1..(Len(p) + 1)
        /\ \A i \in 1..Len(p) : q[i] = p[i]
        /\ q[Len(p) + 1] = m
    OBVIOUS
  <1> HIDE DEF q
  <1>2. /\ Replies(q) = Replies(p) \cup IF m.carries = "reply" THEN {Len(p) + 1} ELSE {}
        /\ Replies(p) \subseteq 1..Len(p)
    <2>1. \A i \in 1..(Len(p) + 1) : i \in 1..Len(p) \/ i = Len(p) + 1
      BY <1>1
    <2>2. Len(p) + 1 \notin 1..Len(p) /\ 1..Len(p) \subseteq 1..(Len(p) + 1)
          /\ Len(p) + 1 \in 1..(Len(p) + 1)
      BY <1>1
    <2> QED
      BY <1>1, <2>1, <2>2, Zenon DEF Replies
  <1>3. Ascending(q)
    BY <1>1, <1>2 DEF Ascending, RepliesIn
  <1>4. RepliesIn(q) = RepliesIn(p) \cup IF m.carries = "reply" THEN {m} ELSE {}
    BY <1>1, <1>2 DEF RepliesIn
  <1> QED
    BY <1>3, <1>4 DEF q

\* A message that is no reply is taken out.
LEMMA Drops ==
    ASSUME NEW x \in Seq(Message), NEW z \in Seq(Message), NEW m \in Message,
           m.carries # "reply", Ascending((x \o <<m>>) \o z)
    PROVE  Ascending(x \o z) /\ RepliesIn(x \o z) = RepliesIn((x \o <<m>>) \o z)
  <1> DEFINE p == (x \o <<m>>) \o z
             q == x \o z
             f(i) == IF i <= Len(x) THEN i ELSE i + 1
  <1>1. /\ Len(x) \in Nat /\ Len(z) \in Nat
        /\ DOMAIN q = 1..(Len(x) + Len(z)) /\ DOMAIN p = 1..(Len(x) + Len(z) + 1)
    OBVIOUS
  <1>2. p[Len(x) + 1] = m
    BY <1>1
  <1>3. \A i \in DOMAIN q : f(i) \in DOMAIN p /\ f(i) # Len(x) + 1 /\ p[f(i)] = q[i]
    BY <1>1
  <1>4. \A k \in DOMAIN p : k # Len(x) + 1 => \E i \in DOMAIN q : k = f(i)
    <2>1. ASSUME NEW k \in DOMAIN p, k < Len(x) + 1 PROVE k \in DOMAIN q /\ k = f(k)
      BY <1>1, <2>1
    <2>2. ASSUME NEW k \in DOMAIN p, k > Len(x) + 1
          PROVE  k - 1 \in DOMAIN q /\ k = f(k - 1)
      BY <1>1, <2>2
    <2> QED
      BY <1>1, <2>1, <2>2
  <1>5. \A i, j \in DOMAIN q : i < j => f(i) < f(j)
    BY <1>1
  <1> HIDE DEF p, q, f
  <1>6. \A i \in Replies(q) : f(i) \in Replies(p)
    BY <1>3 DEF Replies
  <1>7. \A k \in Replies(p) : \E i \in Replies(q) : k = f(i)
    BY <1>2, <1>3, <1>4 DEF Replies
  <1>8. Replies(q) \subseteq DOMAIN q
    BY DEF Replies
  <1>9. Ascending(q)
    BY <1>3, <1>5, <1>6, <1>8 DEF Ascending, p
  <1>10. RepliesIn(q) = RepliesIn(p)
    BY <1>3, <1>6, <1>7, <1>8 DEF RepliesIn
  <1> QED
    BY <1>9, <1>10 DEF p, q

\* A message moves along the pipe.
LEMMA Moves ==
    ASSUME NEW x \in Seq(Message), NEW y \in Seq(Message), NEW z \in Seq(Message)
    PROVE  (x \o y) \o z = x \o (y \o z)
  BY ConcatAssociative

\* The three stations behind what was dispatched, and all four.
Rest(t, h, b) == (t \o h) \o b
Line(x, t, h, b) == ((x \o t) \o h) \o b

LEMMA LineIs ==
    ASSUME NEW x \in Seq(Message), NEW t \in Seq(Message),
           NEW h \in Seq(Message), NEW b \in Seq(Message)
    PROVE  Rest(t, h, b) \in Seq(Message) /\ Line(x, t, h, b) = x \o Rest(t, h, b)
  <1>1. t \o h \in Seq(Message) /\ (t \o h) \o b \in Seq(Message)
    BY ConcatProperties
  <1>2. (x \o t) \o h = x \o (t \o h)
    BY Moves
  <1>3. (x \o (t \o h)) \o b = x \o ((t \o h) \o b)
    <2> DEFINE y == t \o h
    <2>1. y \in Seq(Message)
      BY <1>1
    <2> HIDE DEF y
    <2>2. (x \o y) \o b = x \o (y \o b)
      BY <2>1, Moves
    <2> QED
      BY <2>2 DEF y
  <1> QED
    BY <1>1, <1>2, <1>3 DEF Rest, Line
-----------------------------------------------------------------------------
(* Type correctness of the coordinators. *)

\* What the type invariant says, app by app.
LEMMA TypeFacts ==
    ASSUME TypeOK
    PROVE  /\ \A q \in Queues : q \in [Apps -> Seq(Message)]
           /\ \A a \in Apps : /\ received[a] \in Seq(Message) /\ channel[a] \in Seq(Message)
                              /\ held[a] \in Seq(Message) /\ buffer[a] \in Seq(Message)
                              /\ Len(channel[a]) <= ChannelCapacity /\ Len(held[a]) <= 1
                              /\ Len(buffer[a]) <= BroadcastCapacity
           /\ \A a \in Apps : held[a] # <<>> => held[a] = <<Head(held[a])>> /\ Len(held[a]) = 1
           /\ said \in Seq(Message) /\ Len(said) \in Nat /\ DOMAIN said = 1..Len(said)
           /\ \A m \in Message : m.app \in Apps /\ m.n \in 0..MaxMessages
                                   /\ m.carries \in Carried \cup {"welcome"}
  <1>1. \A m \in Message : m.app \in Apps /\ m.n \in 0..MaxMessages
                             /\ m.carries \in Carried \cup {"welcome"}
    BY DEF Message
  <1>2. /\ \A q \in Queues : q \in [Apps -> Seq(Message)]
        /\ said \in Seq(Message) /\ Len(said) \in Nat /\ DOMAIN said = 1..Len(said)
    BY DEF TypeOK, Queues
  <1>3. \A a \in Apps : /\ received[a] \in Seq(Message) /\ channel[a] \in Seq(Message)
                        /\ held[a] \in Seq(Message) /\ buffer[a] \in Seq(Message)
                        /\ Len(channel[a]) <= ChannelCapacity /\ Len(held[a]) <= 1
                        /\ Len(buffer[a]) <= BroadcastCapacity
    BY <1>2 DEF TypeOK, Queues
  <1>4. ASSUME NEW a \in Apps, held[a] # <<>>
        PROVE  held[a] = <<Head(held[a])>> /\ Len(held[a]) = 1
    <2>1. held[a] \in Seq(Message) /\ Len(held[a]) <= 1 /\ Len(held[a]) \in Nat
      BY <1>3
    <2>2. Len(held[a]) # 0
      BY <1>4, <2>1, EmptySeq
    <2>3. Len(held[a]) = 1
      <3> DEFINE n == Len(held[a])
      <3>1. n \in Nat /\ n <= 1 /\ n # 0
        BY <2>1, <2>2
      <3> HIDE DEF n
      <3>2. n = 1
        BY <3>1
      <3> QED
        BY <3>2 DEF n
    <2>4. Head(held[a]) = held[a][1]
      BY <2>1, <2>3
    <2> QED
      BY <2>1, <2>3, <2>4
  <1> QED
    BY <1>1, <1>2, <1>3, <1>4

\* A message is published to those who have subscribed; a full buffer drops
\* its oldest message.
LEMMA Published ==
    ASSUME TypeOK, NEW m \in Message, Publish(m)
    PROVE  /\ buffer' \in [Apps -> Seq(Message)] /\ lagged' \in [Apps -> BOOLEAN]
           /\ overrun \subseteq overrun' /\ overrun' \subseteq Apps
           /\ \A a \in Apps : Len(buffer'[a]) <= BroadcastCapacity
           /\ \A a \in Apps : pc[a] = "new" => buffer'[a] = buffer[a]
           /\ \A a \in Apps : pc[a] # "new" /\ a \notin overrun' =>
                                buffer'[a] = Append(buffer[a], m)
           /\ \A a \in Apps : \A k \in DOMAIN buffer'[a] :
                buffer'[a][k] = m \/ \E l \in DOMAIN buffer[a] : buffer'[a][k] = buffer[a][l]
  <1> DEFINE full == {a \in Subscribed : Len(buffer[a]) = BroadcastCapacity}
  <1>1. /\ buffer' = [a \in Apps |->
                        CASE a \in full -> Append(Tail(buffer[a]), m)
                          [] a \in Subscribed \ full -> Append(buffer[a], m)
                          [] OTHER -> buffer[a]]
        /\ lagged' = [a \in Apps |-> lagged[a] \/ a \in full]
        /\ overrun' = overrun \cup full
    BY DEF Publish
  <1>2. Subscribed \subseteq Apps /\ full \subseteq Subscribed
        /\ \A a \in Apps : a \in Subscribed <=> pc[a] # "new"
    BY DEF Subscribed
  <1>3. \A a \in full : buffer[a] # <<>> /\ Len(buffer[a]) = BroadcastCapacity
    BY <1>2, CoordinatorAssumption, TypeFacts
  <1>4. \A a \in Subscribed \ full : Len(buffer[a]) < BroadcastCapacity
    <2>1. \A a \in Subscribed : /\ Len(buffer[a]) <= BroadcastCapacity /\ Len(buffer[a]) \in Nat
                                /\ buffer[a] \in Seq(Message)
      BY <1>2, TypeFacts
    <2> QED
      BY <2>1, CoordinatorAssumption
  <1> HIDE DEF full
  <1>5. \A a \in Apps : /\ a \in full => buffer'[a] = Append(Tail(buffer[a]), m)
                        /\ a \in Subscribed \ full => buffer'[a] = Append(buffer[a], m)
                        /\ a \notin Subscribed => buffer'[a] = buffer[a]
    BY <1>1, <1>2
  <1>6. ASSUME NEW a \in Apps
        PROVE  /\ buffer'[a] \in Seq(Message) /\ Len(buffer'[a]) <= BroadcastCapacity
               /\ \A k \in DOMAIN buffer'[a] :
                    buffer'[a][k] = m \/ \E l \in DOMAIN buffer[a] : buffer'[a][k] = buffer[a][l]
    <2>1. /\ buffer[a] \in Seq(Message) /\ Len(buffer[a]) \in Nat
          /\ Len(buffer[a]) <= BroadcastCapacity /\ DOMAIN buffer[a] = 1..Len(buffer[a])
      BY TypeFacts
    <2>2. CASE a \in full
      <3> DEFINE t == Tail(buffer[a])
      <3>1. /\ t \in Seq(Message) /\ Len(t) = Len(buffer[a]) - 1
            /\ \A i \in 1..Len(t) : t[i] = buffer[a][i + 1] /\ i + 1 \in DOMAIN buffer[a]
        BY <1>3, <2>1, <2>2
      <3> HIDE DEF t
      <3>2. buffer'[a] = Append(t, m)
        BY <1>5, <2>2 DEF t
      <3>3. /\ Append(t, m) \in Seq(Message) /\ DOMAIN Append(t, m) = 1..(Len(t) + 1)
            /\ Len(Append(t, m)) = Len(t) + 1 /\ Len(t) \in Nat
            /\ \A i \in 1..Len(t) : Append(t, m)[i] = t[i]
            /\ Append(t, m)[Len(t) + 1] = m
        BY <3>1
      <3>4. \A k \in 1..(Len(t) + 1) : k \in 1..Len(t) \/ k = Len(t) + 1
        BY <3>3
      <3> QED
        BY <2>1, <3>1, <3>2, <3>3, <3>4
    <2>3. CASE a \in Subscribed \ full
      <3>1. buffer'[a] = Append(buffer[a], m) /\ Len(buffer[a]) < BroadcastCapacity
        BY <1>4, <1>5, <2>3
      <3> QED
        BY <2>1, <3>1, CoordinatorAssumption
    <2>4. CASE a \notin Subscribed
      BY <1>5, <2>1, <2>4
    <2> QED
      BY <1>2, <2>2, <2>3, <2>4
  <1>7. buffer' \in [Apps -> Seq(Message)] /\ lagged' \in [Apps -> BOOLEAN]
    <2>1. buffer' = [a \in Apps |-> buffer'[a]]
      BY <1>1
    <2> QED
      BY <1>1, <1>6, <2>1
  <1> QED
    BY <1>1, <1>2, <1>5, <1>6, <1>7 DEF TypeOK

LEMMA InitTypeOK == Init => TypeOK
  BY CoordinatorAssumption DEF Init, TypeOK

\* The steps of the handshake, of the pipe, and of the server.
LEMMA HandshakeTypeOK ==
    ASSUME TypeOK, NEW a \in Apps,
           \/ Start(a) \/ Played(a) \/ WaitWelcome(a) \/ SendHello(a) \/ SendFails(a)
           \/ Welcomed(a) \/ Ignore(a)
    PROVE  TypeOK'
  <1>1. UNCHANGED <<buffer, lagged, held, channel, stopped, received, said, welcome, overrun>>
    BY DEF Start, Played, WaitWelcome, SendHello, SendFails, Welcomed, Ignore, pipeline,
           server, ghosts, handshake
  <1>2. /\ waiting' \in [Apps -> BOOLEAN] /\ hello' \in [Apps -> BOOLEAN]
    BY DEF Start, Played, WaitWelcome, SendHello, SendFails, Welcomed, Ignore, server,
           handshake, TypeOK
  <1>3. pc' \in [Apps -> {"new", "play", "select", "hello", "sleep", "ready", "failed"}]
    BY DEF Start, Played, WaitWelcome, SendHello, SendFails, Welcomed, Ignore, Goto,
           handshake, TypeOK
  <1>4. since' \in [Apps -> 0..MaxMessages]
    <2>1. Len(said) \in 0..MaxMessages
      BY CoordinatorAssumption, TypeFacts DEF TypeOK
    <2> QED
      BY <2>1 DEF Start, Played, WaitWelcome, SendHello, SendFails, Welcomed, Ignore,
                  ghosts, TypeOK
  <1> QED
    BY <1>1, <1>2, <1>3, <1>4 DEF TypeOK

LEMMA PipeTypeOK ==
    ASSUME TypeOK, NEW a \in Apps, Forward(a) \/ Hand(a) \/ Dispatch(a)
    PROVE  TypeOK'
  <1>1. UNCHANGED <<pc, hello, said, since, overrun>>
    BY DEF Forward, Hand, Dispatch, handshake, server, ghosts
  <1>2. CASE Forward(a)
    <2>1. /\ UNCHANGED <<waiting, welcome, channel, stopped, received>>
          /\ lagged' = [lagged EXCEPT ![a] = FALSE] /\ held[a] = <<>>
      BY <1>2 DEF Forward, handshake
    <2>2. CASE lagged[a]
      BY <1>1, <1>2, <2>1, <2>2 DEF Forward, TypeOK
    <2>3. CASE ~lagged[a]
      <3>1. /\ buffer[a] # <<>> /\ buffer' = [buffer EXCEPT ![a] = Tail(@)]
            /\ held' = IF Head(buffer[a]).carries = "garbled" THEN held
                       ELSE [held EXCEPT ![a] = <<Head(buffer[a])>>]
        BY <1>2, <2>3 DEF Forward
      <3>2. /\ Tail(buffer[a]) \in Seq(Message) /\ Head(buffer[a]) \in Message
            /\ Len(Tail(buffer[a])) = Len(buffer[a]) - 1 /\ Len(buffer[a]) \in Nat
        BY <3>1, TypeFacts
      <3>3. /\ <<Head(buffer[a])>> \in Seq(Message) /\ Len(<<Head(buffer[a])>>) = 1
        BY <3>2
      <3>4. Len(Tail(buffer[a])) <= BroadcastCapacity
        BY <3>2, TypeFacts, CoordinatorAssumption
      <3>5. /\ buffer' \in [Apps -> Seq(Message)]
            /\ \A b \in Apps : Len(buffer'[b]) <= BroadcastCapacity
        BY <3>1, <3>2, <3>4 DEF TypeOK
      <3>6. held' \in [Apps -> Seq(Message)] /\ \A b \in Apps : Len(held'[b]) <= 1
        BY <3>1, <3>3 DEF TypeOK
      <3> QED
        BY <1>1, <2>1, <3>5, <3>6 DEF TypeOK
    <2> QED
      BY <2>2, <2>3
  <1>3. CASE Hand(a)
    <2>1. /\ UNCHANGED <<waiting, welcome, buffer, lagged, stopped, received>>
          /\ held[a] # <<>> /\ held' = [held EXCEPT ![a] = <<>>]
          /\ channel' = channel \/ /\ Len(channel[a]) < ChannelCapacity
                                   /\ channel' = [channel EXCEPT ![a] = @ \o held[a]]
      BY <1>3 DEF Hand, handshake
    <2>2. CASE channel' = channel
      BY <1>1, <2>1, <2>2 DEF TypeOK
    <2>3. CASE Len(channel[a]) < ChannelCapacity /\ channel' = [channel EXCEPT ![a] = @ \o held[a]]
      <3>1. /\ channel[a] \in Seq(Message) /\ held[a] \in Seq(Message) /\ Len(held[a]) = 1
            /\ Len(channel[a]) \in Nat
        BY <2>1, TypeFacts
      <3>0. /\ channel[a] \o held[a] \in Seq(Message)
            /\ Len(channel[a] \o held[a]) = Len(channel[a]) + Len(held[a])
        BY <3>1, ConcatProperties
      <3>2. /\ channel[a] \o held[a] \in Seq(Message)
            /\ Len(channel[a] \o held[a]) <= ChannelCapacity
        BY <2>3, <3>0, <3>1, CoordinatorAssumption
      <3>3. /\ channel' \in [Apps -> Seq(Message)]
            /\ \A b \in Apps : Len(channel'[b]) <= ChannelCapacity
        BY <2>3, <3>2 DEF TypeOK
      <3>4. held' \in [Apps -> Seq(Message)] /\ \A b \in Apps : Len(held'[b]) <= 1
        BY <2>1 DEF TypeOK
      <3> QED
        BY <1>1, <2>1, <3>3, <3>4 DEF TypeOK
    <2> QED
      BY <2>1, <2>2, <2>3
  <1>4. CASE Dispatch(a)
    <2> DEFINE m == Head(channel[a])
    <2>1. /\ UNCHANGED <<buffer, lagged, held>> /\ channel[a] # <<>>
          /\ stopped' = [stopped EXCEPT ![a] = m.carries = "short"]
          /\ channel' = [channel EXCEPT ![a] = IF m.carries = "short" THEN <<>> ELSE Tail(@)]
          /\ received' = received \/ received' = [received EXCEPT ![a] = Append(@, m)]
          /\ \/ UNCHANGED <<waiting, welcome>>
             \/ /\ waiting' = [waiting EXCEPT ![a] = FALSE]
                /\ welcome' = [welcome EXCEPT ![a] = <<m>>]
      BY <1>4 DEF Dispatch
    <2>2. /\ m \in Message /\ Tail(channel[a]) \in Seq(Message) /\ Len(channel[a]) \in Nat
          /\ Len(Tail(channel[a])) = Len(channel[a]) - 1
      BY <2>1, TypeFacts
    <2> HIDE DEF m
    <2>3. /\ Len(Tail(channel[a])) <= ChannelCapacity /\ Append(received[a], m) \in Seq(Message)
          /\ Len(<<>>) <= ChannelCapacity /\ <<m>> \in Seq(Message) /\ Len(<<m>>) = 1
      BY <2>2, TypeFacts, CoordinatorAssumption
    <2>4. /\ channel' \in [Apps -> Seq(Message)]
          /\ \A b \in Apps : Len(channel'[b]) <= ChannelCapacity
      BY <2>1, <2>2, <2>3 DEF TypeOK
    <2>5. received' \in [Apps -> Seq(Message)]
      <3>1. received \in [Apps -> Seq(Message)]
        BY DEF TypeOK
      <3>2. received' = received \/ received' = [received EXCEPT ![a] = Append(received[a], m)]
        BY <2>1, <3>1
      <3> QED
        BY <2>3, <3>1, <3>2
    <2>6. /\ welcome' \in [Apps -> Seq(Message)] /\ \A b \in Apps : Len(welcome'[b]) <= 1
          /\ waiting' \in [Apps -> BOOLEAN]
      <3>1. /\ welcome \in [Apps -> Seq(Message)] /\ waiting \in [Apps -> BOOLEAN]
            /\ \A b \in Apps : Len(welcome[b]) <= 1
        BY DEF TypeOK
      <3>2. CASE UNCHANGED <<waiting, welcome>>
        BY <3>1, <3>2
      <3>3. CASE /\ waiting' = [waiting EXCEPT ![a] = FALSE]
                 /\ welcome' = [welcome EXCEPT ![a] = <<m>>]
        <4>1. welcome' \in [Apps -> Seq(Message)] /\ waiting' \in [Apps -> BOOLEAN]
          BY <2>3, <3>1, <3>3
        <4>2. welcome'[a] = <<m>> /\ \A b \in Apps \ {a} : welcome'[b] = welcome[b]
          BY <3>1, <3>3
        <4>3. Len(welcome'[a]) <= 1
          BY <2>3, <4>2
        <4>4. \A b \in Apps \ {a} : Len(welcome'[b]) <= 1
          BY <3>1, <4>2
        <4>5. \A b \in Apps : Len(welcome'[b]) <= 1
          BY <4>3, <4>4
        <4> QED
          BY <4>1, <4>5
      <3> QED
        BY <2>1, <3>2, <3>3
    <2>7. stopped' \in [Apps -> BOOLEAN]
      BY <2>1 DEF TypeOK
    <2> QED
      BY <1>1, <2>1, <2>4, <2>5, <2>6, <2>7 DEF TypeOK
  <1> QED
    BY <1>2, <1>3, <1>4

\* The message of a step that publishes one.
News == {m \in Message : m.n = IF m.carries = "welcome" THEN 0 ELSE Len(said) + 1}

LEMMA PublishTypeOK ==
    ASSUME TypeOK, NEW a \in Apps, Welcome(a) \/ \E what \in Carried : Say(a, what)
    PROVE  /\ TypeOK'
           /\ UNCHANGED <<pc, waiting, welcome, held, channel, stopped, received, since>>
           /\ \E m \in News :
                /\ Publish(m)
                /\ said' = IF m.carries = "welcome" THEN said ELSE Append(said, m)
  <1>1. UNCHANGED <<pc, waiting, welcome, held, channel, stopped, received, since>>
    BY DEF Welcome, Say, handshake
  <1>2. hello' \in [Apps -> BOOLEAN]
    BY DEF Welcome, Say, TypeOK
  <1>3. PICK m \in News :
               /\ Publish(m) /\ (said' = IF m.carries = "welcome" THEN said ELSE Append(said, m))
               /\ (m.carries # "welcome" => Len(said) < MaxMessages)
    <2>1. CASE Welcome(a)
      <3> DEFINE m == [app |-> a, carries |-> "welcome", n |-> 0]
      <3>1. m \in News
        BY CoordinatorAssumption DEF Message, News
      <3> QED
        BY <2>1, <3>1 DEF Welcome
    <2>2. ASSUME NEW what \in Carried, Say(a, what)
          PROVE  \E m \in News :
                   /\ Publish(m) /\ said' = Append(said, m) /\ m.carries # "welcome"
                   /\ Len(said) < MaxMessages
      <3> DEFINE m == [app |-> a, carries |-> what, n |-> Len(said) + 1]
      <3>1. Len(said) < MaxMessages /\ Publish(m) /\ said' = Append(said, m)
        BY <2>2 DEF Say
      <3>2. Len(said) + 1 \in 0..MaxMessages
        BY <3>1, TypeFacts, CoordinatorAssumption
      <3>3. m \in News /\ m.carries # "welcome"
        BY <3>2, CoordinatorAssumption DEF Message, News
      <3> QED
        BY <3>1, <3>3
    <2> QED
      BY <2>1, <2>2
  <1>4. m \in Message /\ Publish(m)
    BY <1>3 DEF News
  <1>5. /\ buffer' \in [Apps -> Seq(Message)] /\ lagged' \in [Apps -> BOOLEAN]
        /\ overrun' \subseteq Apps /\ \A b \in Apps : Len(buffer'[b]) <= BroadcastCapacity
    BY <1>4, Published
  <1>6. said' \in Seq(Message) /\ Len(said') <= MaxMessages
    BY <1>3, <1>4, TypeFacts, CoordinatorAssumption DEF TypeOK
  <1>7. TypeOK'
    BY <1>1, <1>2, <1>5, <1>6 DEF TypeOK
  <1> QED
    BY <1>1, <1>3, <1>7

LEMMA NextTypeOK == TypeOK /\ [Next]_vars => TypeOK'
  <1> SUFFICES ASSUME TypeOK, [Next]_vars PROVE TypeOK'
    OBVIOUS
  <1>1. CASE UNCHANGED vars
    BY <1>1 DEF vars, handshake, pipeline, server, ghosts, TypeOK
  <1>2. ASSUME NEW a \in Apps, Step(a) \/ Dispatch(a) \/ \E what \in Carried : Say(a, what)
        PROVE  TypeOK'
    BY <1>2, HandshakeTypeOK, PipeTypeOK, PublishTypeOK DEF Step
  <1> QED
    BY <1>1, <1>2 DEF Next

\* Every variable of the coordinators has its type, for any number of them and
\* any capacities of the buffers.
THEOREM CoordinatorTypeCorrect == Spec => []TypeOK
  BY InitTypeOK, NextTypeOK, PTL DEF Spec
-----------------------------------------------------------------------------
(* Nothing is lost, doubled or overtaken. *)

LEMMA RangeOfConcat ==
    ASSUME NEW s \in Seq(Message), NEW t \in Seq(Message)
    PROVE  Range(s \o t) = Range(s) \cup Range(t)
  <1> DEFINE u == s \o t
             l == Len(s)
  <1>1. /\ l \in Nat /\ Len(t) \in Nat /\ DOMAIN s = 1..l /\ DOMAIN t = 1..Len(t)
        /\ DOMAIN u = 1..(l + Len(t))
        /\ \A i \in 1..l : u[i] = s[i]
        /\ \A i \in 1..Len(t) : u[l + i] = t[i]
    OBVIOUS
  <1> HIDE DEF u, l
  <1>2. ASSUME NEW i \in DOMAIN u PROVE u[i] \in Range(s) \cup Range(t)
    <2>1. CASE i <= l
      <3>1. i \in DOMAIN s /\ u[i] = s[i]
        BY <1>1, <2>1
      <3> QED
        BY <3>1 DEF Range
    <2>2. CASE ~(i <= l)
      <3>1. i - l \in DOMAIN t /\ l + (i - l) = i
        BY <1>1, <2>2
      <3>2. u[i] = t[i - l]
        BY <1>1, <3>1
      <3> QED
        BY <3>1, <3>2 DEF Range
    <2> QED
      BY <2>1, <2>2
  <1>3. ASSUME NEW i \in DOMAIN s PROVE s[i] \in Range(u)
    <2>1. i \in DOMAIN u /\ u[i] = s[i]
      BY <1>1
    <2> QED
      BY <2>1 DEF Range
  <1>4. ASSUME NEW i \in DOMAIN t PROVE t[i] \in Range(u)
    <2>1. l + i \in DOMAIN u /\ u[l + i] = t[i]
      BY <1>1
    <2> QED
      BY <2>1 DEF Range
  <1> QED
    BY <1>2, <1>3, <1>4, Zenon DEF Range, u

LEMMA RangeOfOne ==
    ASSUME NEW m \in Message
    PROVE  Range(<<m>>) = {m} /\ <<m>> \in Seq(Message) /\ Range(<<>>) = {}
  BY DEF Range

\* The pipe in front of an app, taken apart at its stations.
LEMMA SequenceFacts ==
    ASSUME NEW s \in Seq(Message), s # <<>>
    PROVE  /\ s = <<Head(s)>> \o Tail(s) /\ Head(s) \in Message /\ Tail(s) \in Seq(Message)
           /\ <<Head(s)>> \in Seq(Message)
           /\ Range(s) = {Head(s)} \cup Range(Tail(s))
  <1>1. /\ Head(s) \in Message /\ Tail(s) \in Seq(Message) /\ Len(s) \in Nat \ {0}
        /\ Len(Tail(s)) = Len(s) - 1 /\ DOMAIN s = 1..Len(s)
        /\ \A i \in 1..(Len(s) - 1) : Tail(s)[i] = s[i + 1]
        /\ DOMAIN Tail(s) = 1..(Len(s) - 1)
    BY EmptySeq
  <1>2. Head(s) = s[1] /\ <<Head(s)>> \in Seq(Message)
    BY <1>1
  <1> DEFINE t == <<Head(s)>> \o Tail(s)
  <1>3. /\ t \in Seq(Message) /\ Len(t) = Len(s) /\ t[1] = s[1]
        /\ \A i \in 2..Len(s) : t[i] = s[i]
    BY <1>1, <1>2
  <1> HIDE DEF t
  <1>4. s = t
    <2>1. \A i \in 1..Len(s) : s[i] = t[i]
      <3>1. \A i \in 1..Len(s) : i = 1 \/ i \in 2..Len(s)
        BY <1>1
      <3> QED
        BY <1>3, <3>1
    <2> QED
      BY <1>3, <2>1, SeqEqual
  <1>5. Range(s) = {Head(s)} \cup Range(Tail(s))
    BY <1>1, <1>2, <1>4, RangeOfConcat, RangeOfOne DEF t
  <1> QED
    BY <1>1, <1>2, <1>4, <1>5 DEF t


\* A step along the pipe of an app moves one message to the next station, or
\* takes one out that is no reply.
Shifts(a) ==
    \/ Pipe(a)' = Pipe(a)
    \/ \E x, z \in Seq(Message), m \in Message :
         /\ m.carries # "reply" /\ Pipe(a) = (x \o <<m>>) \o z /\ Pipe(a)' = x \o z

LEMMA ForwardShifts ==
    ASSUME TypeOK, NEW a \in Apps, Forward(a)
    PROVE  /\ Shifts(a) /\ InPipe(a)' \subseteq InPipe(a)
           /\ UNCHANGED <<received, channel>>
           /\ \A b \in Apps \ {a} : held'[b] = held[b] /\ buffer'[b] = buffer[b]
  <1> DEFINE r == received[a]
             c == channel[a]
             b == buffer[a]
  <1>1. UNCHANGED <<received, channel>> /\ held[a] = <<>>
    BY DEF Forward
  <1>2. CASE lagged[a]
    <2>1. UNCHANGED <<buffer, held>>
      BY <1>2 DEF Forward
    <2> QED
      BY <1>1, <2>1 DEF Shifts, Pipe, InPipe
  <1>3. CASE ~lagged[a]
    <2> DEFINE m == Head(b)
               t == Tail(b)
    <2>1. /\ b # <<>> /\ buffer' = [buffer EXCEPT ![a] = t]
          /\ held' = IF m.carries = "garbled" THEN held ELSE [held EXCEPT ![a] = <<m>>]
      BY <1>3 DEF Forward
    <2>2. /\ buffer \in [Apps -> Seq(Message)] /\ held \in [Apps -> Seq(Message)]
          /\ r \in Seq(Message) /\ c \in Seq(Message) /\ b \in Seq(Message)
      BY TypeFacts DEF TypeOK
    <2>3. /\ b = <<m>> \o t /\ m \in Message /\ t \in Seq(Message)
          /\ <<m>> \in Seq(Message) /\ Range(b) = {m} \cup Range(t)
          /\ Range(<<m>>) = {m} /\ Range(<<>>) = {}
      BY <2>1, <2>2, SequenceFacts, RangeOfOne
    <2>4. /\ buffer'[a] = t
          /\ held'[a] = IF m.carries = "garbled" THEN <<>> ELSE <<m>>
          /\ \A d \in Apps \ {a} : held'[d] = held[d] /\ buffer'[d] = buffer[d]
      BY <1>1, <2>1, <2>2
    <2>5. Pipe(a) = ((r \o c) \o <<>>) \o b /\ Pipe(a)' = ((r \o c) \o held'[a]) \o t
      BY <1>1, <2>4 DEF Pipe
    <2> HIDE DEF r, c, b, m, t
    <2>6. r \o c \in Seq(Message) /\ (r \o c) \o <<>> = r \o c
      BY <2>2, ConcatProperties, ConcatEmptySeq
    <2>7. ((r \o c) \o <<m>>) \o t = (r \o c) \o b
      BY <2>3, <2>6, Moves
    <2>8. Shifts(a)
      <3>1. CASE m.carries = "garbled"
        <4>1. Pipe(a) = ((r \o c) \o <<m>>) \o t /\ Pipe(a)' = (r \o c) \o t
          BY <2>4, <2>5, <2>6, <2>7, <3>1
        <4> QED
          BY <2>3, <2>6, <3>1, <4>1 DEF Shifts
      <3>2. CASE m.carries # "garbled"
        BY <2>4, <2>5, <2>6, <2>7, <3>2 DEF Shifts
      <3> QED
        BY <3>1, <3>2
    <2>9. InPipe(a)' \subseteq InPipe(a)
      <3>1. InPipe(a)' = Range(r) \cup Range(c) \cup Range(held'[a]) \cup Range(t)
        BY <1>1, <2>4 DEF InPipe, r, c
      <3>2. InPipe(a) = Range(r) \cup Range(c) \cup Range(<<>>) \cup Range(b)
        BY <1>1 DEF InPipe, r, c, b
      <3>3. Range(held'[a]) \subseteq {m}
        BY <2>3, <2>4
      <3> QED
        BY <2>3, <3>1, <3>2, <3>3
    <2> QED
      BY <1>1, <2>4, <2>8, <2>9
  <1> QED
    BY <1>2, <1>3

LEMMA HandShifts ==
    ASSUME TypeOK, NEW a \in Apps, Hand(a)
    PROVE  /\ ~stopped[a] => Shifts(a)
           /\ InPipe(a)' \subseteq InPipe(a)
           /\ UNCHANGED <<received, buffer>>
           /\ \A b \in Apps \ {a} : held'[b] = held[b] /\ channel'[b] = channel[b]
  <1> DEFINE r == received[a]
             c == channel[a]
             h == held[a]
             b == buffer[a]
  <1>1. /\ UNCHANGED <<received, buffer>> /\ held' = [held EXCEPT ![a] = <<>>]
        /\ channel' = IF stopped[a] THEN channel ELSE [channel EXCEPT ![a] = c \o h]
    BY DEF Hand
  <1>2. /\ held \in [Apps -> Seq(Message)] /\ channel \in [Apps -> Seq(Message)]
        /\ r \in Seq(Message) /\ c \in Seq(Message) /\ h \in Seq(Message) /\ b \in Seq(Message)
    BY TypeFacts DEF TypeOK
  <1>3. /\ held'[a] = <<>>
        /\ channel'[a] = IF stopped[a] THEN c ELSE c \o h
        /\ \A d \in Apps \ {a} : held'[d] = held[d] /\ channel'[d] = channel[d]
    BY <1>1, <1>2
  <1>4. Pipe(a) = ((r \o c) \o h) \o b /\ Pipe(a)' = ((r \o channel'[a]) \o <<>>) \o b
    BY <1>1, <1>3 DEF Pipe
  <1>5. /\ InPipe(a) = Range(r) \cup Range(c) \cup Range(h) \cup Range(b)
        /\ InPipe(a)' = Range(r) \cup Range(channel'[a]) \cup Range(<<>>) \cup Range(b)
    BY <1>1, <1>3 DEF InPipe
  <1> HIDE DEF r, c, h, b
  <1>6. Range(c \o h) = Range(c) \cup Range(h) /\ Range(<<>>) = {}
    <2>1. Range(<<>>) = {}
      BY DEF Range
    <2> QED
      BY <1>2, <2>1, RangeOfConcat
  <1>7. ASSUME ~stopped[a] PROVE Pipe(a)' = Pipe(a)
    <2>1. r \o (c \o h) \in Seq(Message) /\ (r \o c) \o h = r \o (c \o h)
      BY <1>2, ConcatProperties, Moves
    <2>2. (r \o (c \o h)) \o <<>> = r \o (c \o h)
      BY <2>1, ConcatEmptySeq
    <2> QED
      BY <1>3, <1>4, <1>7, <2>1, <2>2
  <1> QED
    BY <1>1, <1>3, <1>5, <1>6, <1>7 DEF Shifts

LEMMA DispatchShifts ==
    ASSUME TypeOK, NEW a \in Apps, Dispatch(a)
    PROVE  /\ stopped'[a] \/ Shifts(a)
           /\ InPipe(a)' \subseteq InPipe(a)
           /\ UNCHANGED <<held, buffer>>
           /\ \A b \in Apps \ {a} : /\ received'[b] = received[b] /\ channel'[b] = channel[b]
                                    /\ stopped'[b] = stopped[b]
           /\ Range(channel[a]) \subseteq Range(channel'[a]) \cup {Head(channel[a])} \/ stopped'[a]
           /\ stopped'[a] <=> Head(channel[a]).carries = "short"
           /\ Head(channel[a]) \in Range(channel[a])
  <1> DEFINE r == received[a]
             c == channel[a]
             h == held[a]
             b == buffer[a]
             m == Head(c)
             t == Tail(c)
  <1>1. /\ UNCHANGED <<held, buffer>> /\ c # <<>>
        /\ stopped' = [stopped EXCEPT ![a] = m.carries = "short"]
        /\ channel' = [channel EXCEPT ![a] = IF m.carries = "short" THEN <<>> ELSE t]
        /\ received' = IF m.carries = "reply" THEN [received EXCEPT ![a] = Append(r, m)]
                       ELSE received
    BY DEF Dispatch
  <1>2. /\ received \in [Apps -> Seq(Message)] /\ channel \in [Apps -> Seq(Message)]
        /\ stopped \in [Apps -> BOOLEAN]
        /\ r \in Seq(Message) /\ c \in Seq(Message) /\ h \in Seq(Message) /\ b \in Seq(Message)
    BY TypeFacts DEF TypeOK
  <1>3. /\ c = <<m>> \o t /\ m \in Message /\ t \in Seq(Message)
        /\ <<m>> \in Seq(Message) /\ Range(c) = {m} \cup Range(t)
        /\ Range(<<m>>) = {m} /\ Range(<<>>) = {}
    BY <1>1, <1>2, SequenceFacts, RangeOfOne
  <1> HIDE DEF m, t
  <1>4. /\ stopped'[a] <=> m.carries = "short"
        /\ channel'[a] = IF m.carries = "short" THEN <<>> ELSE t
        /\ received'[a] = IF m.carries = "reply" THEN Append(r, m) ELSE r
        /\ \A d \in Apps \ {a} : /\ received'[d] = received[d] /\ channel'[d] = channel[d]
                                 /\ stopped'[d] = stopped[d]
    <2>1. stopped'[a] <=> m.carries = "short"
      BY <1>1, <1>2
    <2>2. channel'[a] = IF m.carries = "short" THEN <<>> ELSE t
      BY <1>1, <1>2
    <2>3. received'[a] = IF m.carries = "reply" THEN Append(r, m) ELSE r
      BY <1>1, <1>2
    <2>4. \A d \in Apps \ {a} : received'[d] = received[d] /\ channel'[d] = channel[d]
      BY <1>1, <1>2
    <2>5. \A d \in Apps \ {a} : stopped'[d] = stopped[d]
      BY <1>1, <1>2
    <2> QED
      BY <2>1, <2>2, <2>3, <2>4, <2>5
  <1>5. Pipe(a) = ((r \o c) \o h) \o b /\ Pipe(a)' = ((received'[a] \o channel'[a]) \o h) \o b
    BY <1>1 DEF Pipe
  <1>6. /\ InPipe(a) = Range(r) \cup Range(c) \cup Range(h) \cup Range(b)
        /\ InPipe(a)' = Range(received'[a]) \cup Range(channel'[a]) \cup Range(h) \cup Range(b)
    BY <1>1 DEF InPipe
  <1>7. m = Head(channel[a]) /\ Range(c) = Range(channel[a])
    BY DEF m
  <1> HIDE DEF r, c, h, b
  <1>8. Append(r, m) = r \o <<m>> /\ Range(Append(r, m)) = Range(r) \cup {m}
    <2>1. Append(r, m) = r \o <<m>>
      BY <1>2, <1>3, AppendIsConcat
    <2>2. Range(r \o <<m>>) = Range(r) \cup Range(<<m>>)
      BY <1>2, <1>3, RangeOfConcat
    <2> QED
      BY <1>3, <2>1, <2>2
  <1>9. InPipe(a)' \subseteq InPipe(a)
    <2>1. Range(received'[a]) \subseteq Range(r) \cup {m}
      BY <1>4, <1>8
    <2>2. Range(channel'[a]) \subseteq Range(c)
      BY <1>3, <1>4
    <2> QED
      BY <1>3, <1>6, <2>1, <2>2
  <1>10. ASSUME ~stopped'[a] PROVE Shifts(a)
    <2>1. channel'[a] = t
      BY <1>4, <1>10
    <2>2. CASE m.carries = "reply"
      <3>1. received'[a] \o t = r \o c
        <4>1. (r \o <<m>>) \o t = r \o (<<m>> \o t)
          BY <1>2, <1>3, Moves
        <4>2. received'[a] = r \o <<m>>
          BY <1>4, <1>8, <2>2
        <4> QED
          BY <1>3, <4>1, <4>2
      <3> QED
        BY <1>5, <2>1, <3>1 DEF Shifts
    <2>3. CASE m.carries # "reply"
      <3> DEFINE rm == r \o <<m>>
                 z == Rest(t, h, b)
      <3>1. received'[a] = r
        BY <1>4, <2>3
      <3>2. rm \o t = r \o c /\ rm \in Seq(Message)
        <4>1. (r \o <<m>>) \o t = r \o (<<m>> \o t)
          BY <1>2, <1>3, Moves
        <4> QED
          BY <1>2, <1>3, <4>1, ConcatProperties
      <3> HIDE DEF rm
      <3>3. r \in Seq(Message) /\ t \in Seq(Message) /\ h \in Seq(Message) /\ b \in Seq(Message)
        BY <1>2, <1>3
      <3>4. z \in Seq(Message) /\ Line(r, t, h, b) = r \o z
        BY <3>3, LineIs
      <3>5. Line(rm, t, h, b) = rm \o z
        BY <3>2, <3>3, LineIs
      <3>6. Pipe(a) = Line(rm, t, h, b)
        BY <1>5, <3>2 DEF Line
      <3>7. Pipe(a)' = Line(r, t, h, b)
        BY <1>5, <2>1, <3>1 DEF Line
      <3> HIDE DEF z
      <3>8. Pipe(a) = (r \o <<m>>) \o z /\ Pipe(a)' = r \o z
        BY <3>4, <3>5, <3>6, <3>7 DEF rm
      <3> QED
        BY <1>3, <2>3, <3>3, <3>4, <3>8 DEF Shifts
    <2> QED
      BY <2>2, <2>3
  <1>11. Range(channel[a]) \subseteq Range(channel'[a]) \cup {Head(channel[a])} \/ stopped'[a]
    BY <1>3, <1>4, <1>7
  <1> QED
    BY <1>1, <1>3, <1>4, <1>7, <1>9, <1>10, <1>11

\* RepliesArriveInOrder, app by app.
InOrder(a) == Ascending(Pipe(a)) /\ RepliesIn(Pipe(a)) = SentTo(a)
Whole(a)   == a \notin overrun /\ ~stopped[a] /\ pc[a] # "new"

LEMMA OrderByApp == RepliesArriveInOrder <=> \A a \in Apps : Whole(a) => InOrder(a)
  BY DEF RepliesArriveInOrder, Whole, InOrder, Ascending, RepliesIn, SentTo

LEMMA PipeType ==
    ASSUME TypeOK, NEW a \in Apps
    PROVE  Pipe(a) \in Seq(Message)
  <1>1. /\ received[a] \in Seq(Message) /\ channel[a] \in Seq(Message)
        /\ held[a] \in Seq(Message) /\ buffer[a] \in Seq(Message)
    BY TypeFacts
  <1> QED
    BY <1>1, ConcatProperties DEF Pipe

LEMMA ShiftsInOrder ==
    ASSUME TypeOK, NEW a \in Apps, Shifts(a), InOrder(a), UNCHANGED <<said, since>>
    PROVE  InOrder(a)'
  <1>1. SentTo(a)' = SentTo(a)
    BY DEF SentTo, Replies
  <1>2. CASE Pipe(a)' = Pipe(a)
    BY <1>1, <1>2 DEF InOrder, Ascending, RepliesIn, Replies
  <1>3. ASSUME NEW x \in Seq(Message), NEW z \in Seq(Message), NEW m \in Message,
               m.carries # "reply", Pipe(a) = (x \o <<m>>) \o z, Pipe(a)' = x \o z
        PROVE  InOrder(a)'
    <2>1. Ascending((x \o <<m>>) \o z) /\ RepliesIn((x \o <<m>>) \o z) = SentTo(a)
      BY <1>3 DEF InOrder
    <2>2. Ascending(x \o z) /\ RepliesIn(x \o z) = SentTo(a)
      BY <1>3, <2>1, Drops
    <2>3. Ascending(Pipe(a)') /\ RepliesIn(Pipe(a)') = SentTo(a)'
      BY <1>1, <1>3, <2>2
    <2> QED
      BY <2>3 DEF InOrder, Ascending, RepliesIn, Replies
  <1> QED
    BY <1>2, <1>3 DEF Shifts

LEMMA HandshakeInOrder ==
    ASSUME IInv, NEW a \in Apps,
           \/ Start(a) \/ Played(a) \/ WaitWelcome(a) \/ SendHello(a) \/ SendFails(a)
           \/ Welcomed(a) \/ Ignore(a)
    PROVE  RepliesArriveInOrder'
  <1>1. UNCHANGED <<buffer, held, channel, stopped, received, said, overrun>>
    BY DEF Start, Played, WaitWelcome, SendHello, SendFails, Welcomed, Ignore, pipeline,
           server, ghosts
  <1>2. \A b \in Apps : Pipe(b)' = Pipe(b)
    BY <1>1 DEF Pipe
  <1>3. ASSUME NEW b \in Apps, Whole(b)' PROVE InOrder(b)'
    <2>1. CASE Start(a) /\ b = a
      <3>1. received[a] = <<>> /\ channel[a] = <<>> /\ held[a] = <<>> /\ buffer[a] = <<>>
        BY <2>1 DEF Start, IInv, Sound
      <3>2. Pipe(a)' = <<>>
        <4>1. <<>> \o <<>> = <<>>
          OBVIOUS
        <4> QED
          BY <1>2, <3>1, <4>1 DEF Pipe
      <3>3. Replies(<<>>) = {}
        BY DEF Replies
      <3>4. SentTo(a)' = {}
        <4>1. since' = [since EXCEPT ![a] = Len(said)]
          BY <2>1 DEF Start
        <4>2. since'[a] = Len(said)
          BY <4>1 DEF IInv, TypeOK
        <4>3. \A n \in DOMAIN said : ~(n > Len(said))
          BY TypeFacts DEF IInv
        <4> QED
          BY <1>1, <4>2, <4>3 DEF SentTo, Replies
      <3> QED
        BY <2>1, <3>2, <3>3, <3>4 DEF InOrder, Ascending, RepliesIn, Replies
    <2>2. CASE ~(Start(a) /\ b = a)
      <3>1. since'[b] = since[b] /\ (pc[b] = "new" => pc'[b] = "new")
        BY <2>2 DEF Start, Played, WaitWelcome, SendHello, SendFails, Welcomed, Ignore, Goto,
                    ghosts, handshake, IInv, TypeOK
      <3>2. Whole(b)
        BY <1>1, <1>3, <3>1 DEF Whole
      <3>3. InOrder(b)
        BY <3>2, OrderByApp DEF IInv
      <3> QED
        BY <1>1, <1>2, <3>1, <3>3 DEF InOrder, Ascending, RepliesIn, Replies, SentTo
    <2> QED
      BY <2>1, <2>2
  <1>4. RepliesArriveInOrder' <=> \A b \in Apps : Whole(b)' => InOrder(b)'
    BY DEF RepliesArriveInOrder, Whole, InOrder, Ascending, RepliesIn, SentTo
  <1> QED
    BY <1>3, <1>4

LEMMA PipeInOrder ==
    ASSUME IInv, NEW a \in Apps, Forward(a) \/ Hand(a) \/ Dispatch(a)
    PROVE  RepliesArriveInOrder'
  <1>1. UNCHANGED <<pc, said, since, overrun>>
    BY DEF Forward, Hand, Dispatch, handshake, server, ghosts
  <1>2. /\ \A b \in Apps \ {a} : UNCHANGED <<received[b], channel[b], held[b], buffer[b]>>
        /\ \A b \in Apps \ {a} : stopped'[b] = stopped[b]
        /\ stopped[a] => stopped'[a]
        /\ ~stopped'[a] => Shifts(a)
    <2>1. TypeOK
      BY DEF IInv
    <2>2. CASE Forward(a)
      <3>1. stopped' = stopped
        BY <2>2 DEF Forward
      <3> QED
        BY <2>1, <2>2, <3>1, ForwardShifts
    <2>3. CASE Hand(a)
      <3>1. stopped' = stopped
        BY <2>3 DEF Hand
      <3> QED
        BY <2>1, <2>3, <3>1, HandShifts
    <2>4. CASE Dispatch(a)
      <3>1. ~stopped[a]
        BY <2>4 DEF Dispatch
      <3> QED
        BY <2>1, <2>4, <3>1, DispatchShifts
    <2> QED
      BY <2>2, <2>3, <2>4
  <1>3. ASSUME NEW b \in Apps, Whole(b)' PROVE InOrder(b)'
    <2>1. CASE b = a
      <3>1. Shifts(a) /\ Whole(a)
        BY <1>1, <1>2, <1>3, <2>1 DEF Whole
      <3> QED
        BY <1>1, <2>1, <3>1, OrderByApp, ShiftsInOrder DEF IInv
    <2>2. CASE b # a
      <3>1. Whole(b) /\ Shifts(b)
        BY <1>1, <1>2, <1>3, <2>2 DEF Whole, Shifts, Pipe
      <3> QED
        BY <1>1, <3>1, OrderByApp, ShiftsInOrder DEF IInv
    <2> QED
      BY <2>1, <2>2
  <1>4. RepliesArriveInOrder' <=> \A b \in Apps : Whole(b)' => InOrder(b)'
    BY DEF RepliesArriveInOrder, Whole, InOrder, Ascending, RepliesIn, SentTo
  <1> QED
    BY <1>3, <1>4

\* What the server says is newer than what it said before.
LEMMA SaidGrows ==
    ASSUME IInv, NEW m \in News, m.carries # "welcome", said' = Append(said, m)
    PROVE  /\ Len(said') = Len(said) + 1 /\ DOMAIN said' = DOMAIN said \cup {m.n}
           /\ \A n \in DOMAIN said : said'[n] = said[n]
           /\ said'[m.n] = m /\ m.n = Len(said) + 1 /\ m.n \notin DOMAIN said
  <1>1. said \in Seq(Message) /\ m \in Message /\ m.n = Len(said) + 1
    BY TypeFacts DEF IInv, News
  <1> QED
    BY <1>1

LEMMA PublishInOrder ==
    ASSUME IInv, NEW a \in Apps, Welcome(a) \/ \E what \in Carried : Say(a, what)
    PROVE  RepliesArriveInOrder'
  <1>1. TypeOK /\ UNCHANGED <<pc, held, channel, stopped, received, since>>
    BY PublishTypeOK DEF IInv
  <1>2. PICK m \in News :
               /\ Publish(m)
               /\ said' = IF m.carries = "welcome" THEN said ELSE Append(said, m)
    BY <1>1, PublishTypeOK
  <1>3. m \in Message
    BY <1>2 DEF News
  <1>4. ASSUME NEW b \in Apps, Whole(b)' PROVE InOrder(b)'
    <2>1. Whole(b)
      BY <1>1, <1>2, <1>3, <1>4, Published DEF Whole
    <2>2. InOrder(b)
      BY <2>1, OrderByApp DEF IInv
    <2>3. buffer'[b] = Append(buffer[b], m)
      BY <1>1, <1>2, <1>3, <1>4, <2>1, Published DEF Whole
    <2>4. Pipe(b)' = Append(Pipe(b), m) /\ Pipe(b) \in Seq(Message)
      <3> DEFINE p == received[b] \o channel[b] \o held[b]
                 q == buffer[b]
      <3>1. p \in Seq(Message) /\ q \in Seq(Message) /\ <<m>> \in Seq(Message)
        <4>1. /\ received[b] \in Seq(Message) /\ channel[b] \in Seq(Message)
              /\ held[b] \in Seq(Message) /\ buffer[b] \in Seq(Message)
          BY <1>1, TypeFacts
        <4> QED
          BY <1>3, <4>1, ConcatProperties
      <3>2. Pipe(b) = p \o q /\ Pipe(b)' = p \o Append(q, m)
        BY <1>1, <2>3 DEF Pipe
      <3> HIDE DEF p, q
      <3>3. (p \o q) \o <<m>> = p \o (q \o <<m>>) /\ p \o q \in Seq(Message)
        BY <3>1, Moves, ConcatProperties
      <3>4. Append(q, m) = q \o <<m>> /\ Append(p \o q, m) = (p \o q) \o <<m>>
        BY <1>3, <3>1, <3>3, AppendIsConcat
      <3> QED
        BY <3>2, <3>3, <3>4
    <2>5. CASE m.carries = "welcome"
      <3>1. said' = said
        BY <1>2, <2>5
      <3>2. Ascending(Pipe(b)') /\ RepliesIn(Pipe(b)') = RepliesIn(Pipe(b))
        <4> DEFINE p == Pipe(b)
        <4>1. /\ Len(p) \in Nat /\ DOMAIN p = 1..Len(p)
              /\ DOMAIN Append(p, m) = 1..(Len(p) + 1)
              /\ \A i \in 1..Len(p) : Append(p, m)[i] = p[i]
              /\ Append(p, m)[Len(p) + 1] = m
          BY <1>3, <2>4
        <4> HIDE DEF p
        <4>2. \A i \in 1..(Len(p) + 1) : i \in 1..Len(p) \/ i = Len(p) + 1
          BY <4>1
        <4>3. \A i \in 1..Len(p) : i \in 1..(Len(p) + 1)
          BY <4>1
        <4>4. Replies(Append(p, m)) = Replies(p) /\ Replies(p) \subseteq 1..Len(p)
          BY <2>5, <4>1, <4>2, <4>3 DEF Replies
        <4>5. Ascending(p)
          BY <2>2 DEF InOrder, p
        <4>6. Ascending(Append(p, m)) /\ RepliesIn(Append(p, m)) = RepliesIn(p)
          BY <4>1, <4>4, <4>5 DEF Ascending, RepliesIn
        <4> QED
          BY <2>4, <4>6 DEF p
      <3>3. SentTo(b)' = SentTo(b)
        BY <1>1, <3>1 DEF SentTo, Replies
      <3>4. Ascending(Pipe(b)') /\ RepliesIn(Pipe(b)') = SentTo(b)'
        BY <2>2, <3>2, <3>3 DEF InOrder
      <3> QED
        BY <3>4 DEF InOrder, Ascending, RepliesIn, Replies
    <2>6. CASE m.carries # "welcome"
      <3>1. said' = Append(said, m)
        BY <1>2, <2>6
      <3>2. /\ DOMAIN said' = DOMAIN said \cup {m.n} /\ m.n = Len(said) + 1
            /\ \A n \in DOMAIN said : said'[n] = said[n]
            /\ said'[m.n] = m /\ m.n \notin DOMAIN said
        BY <1>2, <2>6, <3>1, SaidGrows
      <3>3. \A r \in RepliesIn(Pipe(b)) : r.n < m.n
        <4>1. \A n \in DOMAIN said : said[n].n = n /\ n < Len(said) + 1
          BY TypeFacts DEF IInv, Sound
        <4> QED
          BY <2>2, <3>2, <4>1 DEF InOrder, SentTo, Replies
      <3>4. /\ Ascending(Append(Pipe(b), m))
            /\ RepliesIn(Append(Pipe(b), m))
                 = RepliesIn(Pipe(b)) \cup IF m.carries = "reply" THEN {m} ELSE {}
        BY <1>3, <2>2, <2>4, <3>3, Grows DEF InOrder
      <3>5. SentTo(b)' = SentTo(b) \cup IF m.carries = "reply" THEN {m} ELSE {}
        <4>1. m.n > since[b]
          <5>1. since[b] <= Len(said) /\ since[b] \in Nat /\ Len(said) \in Nat
            BY TypeFacts, CoordinatorAssumption DEF IInv, Sound, TypeOK
          <5> QED
            BY <3>2, <5>1
        <4>2. Replies(said') = Replies(said) \cup IF m.carries = "reply" THEN {m.n} ELSE {}
          BY <3>2 DEF Replies
        <4>3. Replies(said) \subseteq DOMAIN said
          BY DEF Replies
        <4>4. SentTo(b)' = {said'[n] : n \in {n \in Replies(said') : n > since[b]}}
          BY <1>1 DEF SentTo, Replies
        <4> DEFINE before == {n \in Replies(said) : n > since[b]}
        <4>5. \A n \in before : n \in DOMAIN said /\ said'[n] = said[n]
          BY <3>2, <4>3
        <4>6. {n \in Replies(said') : n > since[b]}
                = before \cup IF m.carries = "reply" THEN {m.n} ELSE {}
          BY <4>1, <4>2
        <4>7. SentTo(b) = {said[n] : n \in before}
          BY DEF SentTo
        <4> HIDE DEF before
        <4>8. {said'[n] : n \in before} = SentTo(b)
          BY <4>5, <4>7
        <4>9. CASE m.carries = "reply"
          <5>1. SentTo(b)' = {said'[n] : n \in before \cup {m.n}}
            BY <4>4, <4>6, <4>9
          <5> QED
            BY <3>2, <4>8, <4>9, <5>1
        <4>10. CASE m.carries # "reply"
          <5>1. SentTo(b)' = {said'[n] : n \in before}
            BY <4>4, <4>6, <4>10
          <5> QED
            BY <4>8, <4>10, <5>1
        <4> QED
          BY <4>9, <4>10
      <3>6. Ascending(Pipe(b)') /\ RepliesIn(Pipe(b)') = SentTo(b)'
        BY <2>2, <2>4, <3>4, <3>5 DEF InOrder
      <3> QED
        BY <3>6 DEF InOrder, Ascending, RepliesIn, Replies
    <2> QED
      BY <2>5, <2>6
  <1>5. RepliesArriveInOrder' <=> \A b \in Apps : Whole(b)' => InOrder(b)'
    BY DEF RepliesArriveInOrder, Whole, InOrder, Ascending, RepliesIn, SentTo
  <1> QED
    BY <1>4, <1>5

\* What is in a pipe was said, at the place it is numbered with.
LEMMA NextSound == IInv /\ TypeOK' /\ [Next]_vars => Sound'
  <1> SUFFICES ASSUME IInv, TypeOK', [Next]_vars PROVE Sound'
    OBVIOUS
  <1>0. TypeOK /\ Sound
    BY DEF IInv
  <1>1. ASSUME NEW a \in Apps, Forward(a) \/ Hand(a) \/ Dispatch(a) PROVE Sound'
    <2>1. UNCHANGED <<pc, said, since>>
      BY <1>1 DEF Forward, Hand, Dispatch, handshake, server, ghosts
    <2>2. /\ InPipe(a)' \subseteq InPipe(a)
          /\ \A b \in Apps \ {a} : UNCHANGED <<received[b], channel[b], held[b], buffer[b]>>
      BY <1>0, <1>1, ForwardShifts, HandShifts, DispatchShifts
    <2>3. \A b \in Apps : InPipe(b)' \subseteq InPipe(b)
      BY <2>2 DEF InPipe
    <2>4. ASSUME NEW b \in Apps, pc'[b] = "new"
          PROVE  received'[b] = <<>> /\ channel'[b] = <<>> /\ held'[b] = <<>> /\ buffer'[b] = <<>>
      <3>1. InPipe(b) = {}
        BY <1>0, <2>1, <2>4 DEF Sound, InPipe, Range
      <3>2. InPipe(b)' = {}
        BY <2>3, <3>1
      <3>3. \A s \in Seq(Message) : Range(s) = {} => s = <<>>
        <4>1. ASSUME NEW s \in Seq(Message), s # <<>> PROVE Head(s) \in Range(s)
          BY <4>1, SequenceFacts
        <4> QED
          BY <4>1
      <3>4. /\ received'[b] \in Seq(Message) /\ channel'[b] \in Seq(Message)
            /\ held'[b] \in Seq(Message) /\ buffer'[b] \in Seq(Message)
        BY DEF TypeOK
      <3> QED
        BY <3>2, <3>3, <3>4 DEF InPipe
    <2> QED
      BY <1>0, <2>1, <2>3, <2>4 DEF Sound
  <1>2. ASSUME NEW a \in Apps, Welcome(a) \/ \E what \in Carried : Say(a, what) PROVE Sound'
    <2>1. UNCHANGED <<pc, held, channel, received, since>>
      BY <1>0, <1>2, PublishTypeOK
    <2>2. PICK m \in News :
                 /\ Publish(m)
                 /\ said' = IF m.carries = "welcome" THEN said ELSE Append(said, m)
      BY <1>0, <1>2, PublishTypeOK
    <2>3. m \in Message
      BY <2>2 DEF News
    <2>4. /\ \A n \in DOMAIN said : n \in DOMAIN said' /\ said'[n] = said[n]
          /\ \A n \in DOMAIN said' : n \in DOMAIN said \/ (m.carries # "welcome" /\ n = m.n)
          /\ m.carries # "welcome" => m.n \in DOMAIN said' /\ said'[m.n] = m
          /\ Len(said) <= Len(said')
      <3>1. Len(said) \in Nat
        BY <1>0, TypeFacts
      <3>2. CASE m.carries = "welcome"
        <4>1. said' = said
          BY <2>2, <3>2
        <4> QED
          BY <3>1, <3>2, <4>1
      <3>3. CASE m.carries # "welcome"
        <4>1. said' = Append(said, m)
          BY <2>2, <3>3
        <4>2. /\ Len(said') = Len(said) + 1 /\ DOMAIN said' = DOMAIN said \cup {m.n}
              /\ \A n \in DOMAIN said : said'[n] = said[n]
              /\ said'[m.n] = m
          BY <2>2, <3>3, <4>1, SaidGrows
        <4>3. Len(said) <= Len(said')
          BY <3>1, <4>2
        <4> QED
          BY <3>3, <4>2, <4>3
      <3> QED
        BY <3>2, <3>3
    <2>5. \A n \in DOMAIN said' : said'[n].n = n /\ said'[n].carries # "welcome"
      BY <1>0, <2>4 DEF Sound
    <2>6. \A b \in Apps : InPipe(b)' \subseteq InPipe(b) \cup {m}
      <3>1. \A b \in Apps : Range(buffer'[b]) \subseteq Range(buffer[b]) \cup {m}
        BY <1>0, <2>2, <2>3, Published DEF Range
      <3> QED
        BY <2>1, <3>1 DEF InPipe
    <2>7. ASSUME NEW b \in Apps, NEW x \in InPipe(b)'
          PROVE  IF x.carries = "welcome" THEN x.n = 0
                 ELSE x.n \in DOMAIN said' /\ x = said'[x.n]
      <3>1. CASE x = m
        BY <2>2, <2>4, <3>1 DEF News
      <3>2. CASE x # m
        <4>1. x \in InPipe(b)
          BY <2>6, <3>2
        <4>2. IF x.carries = "welcome" THEN x.n = 0 ELSE x.n \in DOMAIN said /\ x = said[x.n]
          BY <1>0, <4>1 DEF Sound
        <4> QED
          BY <2>4, <4>2
      <3> QED
        BY <3>1, <3>2
    <2>8. \A b \in Apps : pc'[b] = "new" =>
            received'[b] = <<>> /\ channel'[b] = <<>> /\ held'[b] = <<>> /\ buffer'[b] = <<>>
      BY <1>0, <2>1, <2>2, <2>3, Published DEF Sound
    <2>9. \A b \in Apps : since'[b] <= Len(said')
      <3>1. /\ \A b \in Apps : since[b] \in Nat /\ since[b] <= Len(said)
            /\ Len(said) \in Nat /\ Len(said') \in Nat
        BY <1>0, CoordinatorAssumption DEF Sound, TypeOK
      <3> QED
        BY <2>1, <2>4, <3>1
    <2> QED
      BY <2>5, <2>7, <2>8, <2>9 DEF Sound
  <1>3. ASSUME NEW a \in Apps,
               \/ Start(a) \/ Played(a) \/ WaitWelcome(a) \/ SendHello(a) \/ SendFails(a)
               \/ Welcomed(a) \/ Ignore(a)
        PROVE  Sound'
    <2>1. UNCHANGED <<buffer, held, channel, received, said>>
      BY <1>3 DEF Start, Played, WaitWelcome, SendHello, SendFails, Welcomed, Ignore, pipeline,
                  server
    <2>2. \A b \in Apps : pc'[b] = "new" => pc[b] = "new"
      BY <1>0, <1>3 DEF Start, Played, WaitWelcome, SendHello, SendFails, Welcomed, Ignore, Goto,
                        handshake, TypeOK
    <2>3. \A b \in Apps : since'[b] <= Len(said)
      <3>1. \A b \in Apps : since'[b] = since[b] \/ since'[b] = Len(said)
        BY <1>0, <1>3 DEF Start, Played, WaitWelcome, SendHello, SendFails, Welcomed, Ignore,
                          ghosts, TypeOK
      <3>2. Len(said) \in Nat
        BY <1>0, TypeFacts
      <3> QED
        BY <1>0, <3>1, <3>2 DEF Sound
    <2> QED
      BY <1>0, <2>1, <2>2, <2>3 DEF Sound, InPipe
  <1>4. CASE UNCHANGED vars
    BY <1>0, <1>4 DEF Sound, InPipe, vars, handshake, pipeline, server, ghosts
  <1> QED
    BY <1>1, <1>2, <1>3, <1>4 DEF Next, Step

LEMMA InitIInv == Init => IInv
  <1> SUFFICES ASSUME Init PROVE IInv
    OBVIOUS
  <1>1. TypeOK
    BY InitTypeOK
  <1>2. Sound
    BY DEF Init, Sound, InPipe, Range
  <1>3. RepliesArriveInOrder
    BY DEF Init, RepliesArriveInOrder
  <1> QED
    BY <1>1, <1>2, <1>3 DEF IInv

LEMMA NextIInv == IInv /\ [Next]_vars => IInv'
  <1> SUFFICES ASSUME IInv, [Next]_vars PROVE IInv'
    OBVIOUS
  <1>1. TypeOK'
    BY NextTypeOK DEF IInv
  <1>2. Sound'
    BY <1>1, NextSound
  <1>3. RepliesArriveInOrder'
    <2>1. CASE UNCHANGED vars
      <3>1. UNCHANGED <<pc, received, channel, held, buffer, stopped, said, since, overrun>>
        BY <2>1 DEF vars, handshake, pipeline, server, ghosts
      <3>2. \A a \in Apps : Pipe(a)' = Pipe(a)
        BY <3>1 DEF Pipe
      <3> QED
        BY <3>1, <3>2 DEF IInv, RepliesArriveInOrder, Replies
    <2>2. ASSUME NEW a \in Apps, Step(a) \/ Dispatch(a) \/ \E what \in Carried : Say(a, what)
          PROVE  RepliesArriveInOrder'
      BY <2>2, HandshakeInOrder, PipeInOrder, PublishInOrder DEF Step
    <2> QED
      BY <2>1, <2>2 DEF Next
  <1> QED
    BY <1>1, <1>2, <1>3 DEF IInv

\* The inductive invariant of the pipe holds in every behaviour.
THEOREM InductiveCoordinator == Spec => []IInv
  BY InitIInv, NextIInv, PTL DEF Spec

\* On its way to the filter of a coordinator no message is lost, doubled or
\* overtaken, whatever is said to whom, and whenever the coordinator
\* subscribes, unless a buffer was overrun or the filter's task has ended
\* (mod.rs lines 94-105).
THEOREM RepliesArriveInOrderHolds == Spec => []RepliesArriveInOrder
  BY InductiveCoordinator, PTL DEF IInv
-----------------------------------------------------------------------------
(* The calls.  Every step of theirs is one of the coordinators, so what was *)
(* shown of those holds here.                                               *)

LEMMA CallsUseCoordinator == [CallsNext]_allVars => [Next]_vars
  <1> SUFFICES ASSUME [CallsNext]_allVars PROVE [Next]_vars
    OBVIOUS
  <1>1. CASE UNCHANGED allVars
    BY <1>1 DEF allVars
  <1>2. ASSUME NEW a \in Apps, Step(a) \/ DispatchJob(a) PROVE Next
    BY <1>2 DEF DispatchJob, Next
  <1>3. ASSUME NEW a \in Apps, Reply(a) \/ ReplyToOthers(a) \/ \E what \in Carried : Tell(a, what)
        PROVE  Next
    BY <1>3, JobsAssumption DEF Reply, ReplyToOthers, Tell, SayTo, Next
  <1>4. ASSUME OthersAsk \/ \E a \in Apps :
                 Ask(a) \/ SendRequest(a) \/ RequestFails(a) \/ Return(a) \/ GiveUp(a) \/ Cancel(a)
        PROVE  UNCHANGED vars
    BY <1>4 DEF OthersAsk, Ask, SendRequest, RequestFails, Return, GiveUp, Cancel, End
  <1> QED
    BY <1>1, <1>2, <1>3, <1>4 DEF CallsNext

LEMMA InitCallIInv == CallsInit => CallIInv
  <1> SUFFICES ASSUME CallsInit PROVE CallIInv
    OBVIOUS
  <1>1. IInv /\ Init
    BY InitIInv DEF CallsInit
  <1>2. /\ said = <<>> /\ target = <<>> /\ asked = {} /\ others = {} /\ next_job_id = 1
        /\ \A a \in Apps : /\ call[a] = "idle" /\ job[a] = NONE /\ entry[a] = FALSE
                           /\ answer[a] = <<>> /\ outcome[a] = "none"
    BY DEF CallsInit, Init
  <1>3. CallTypeOK
    BY <1>1, JobsAssumption DEF CallsInit, Init, CallTypeOK, IInv, NONE
  <1>4. Ids /\ Targets /\ Waiters /\ OwnAnswer /\ NoAnswerLost
    BY <1>2 DEF Ids, Targets, Waiters, OwnAnswer, NoAnswerLost
  <1> QED
    BY <1>1, <1>3, <1>4 DEF CallIInv

\* The facts about the variables of the calls that the steps need.
LEMMA CallFacts ==
    ASSUME CallIInv
    PROVE  /\ next_job_id \in Nat /\ next_job_id >= 1 /\ MaxJobs \in Nat
           /\ target \in Seq([job: 0..MaxJobs, whose: SUBSET Apps])
           /\ Len(target) = Len(said) /\ Len(said) \in Nat
           /\ DOMAIN target = 1..Len(said) /\ DOMAIN said = 1..Len(said)
           /\ call \in [Apps -> {"idle", "send", "wait", "done"}]
           /\ job \in [Apps -> 0..MaxJobs] /\ entry \in [Apps -> BOOLEAN]
           /\ answer \in [Apps -> Seq(Message)] /\ asked \subseteq Apps
           /\ outcome \in [Apps -> {"none", "ok", "error", "timeout", "cancelled"}]
           /\ others \subseteq 1..MaxJobs /\ next_job_id \in 1..(MaxJobs + 1)
           /\ TypeOK /\ Sound
  BY JobsAssumption, TypeFacts DEF CallIInv, CallTypeOK, IInv

\* Where the answer to a call may be, and what it takes for it to be there.
Transit(a) == Range(channel[a]) \cup Range(held[a]) \cup Range(buffer[a])
Due(a, i)  == call[a] = "wait" /\ target[i].whose = {a} /\ a \notin overrun /\ ~stopped[a]

LEMMA LostByApp ==
    NoAnswerLost <=> \A a \in Apps, i \in DOMAIN target :
        Due(a, i) => \E m \in Range(answer[a]) \cup Transit(a) : m.n = i
  <1>1. \A a : UNION {Range(q[a]) : q \in {answer, channel, held, buffer}}
                 = Range(answer[a]) \cup Transit(a)
    BY DEF Transit
  <1> QED
    BY <1>1 DEF NoAnswerLost, Due

LEMMA LostByAppPrimed ==
    NoAnswerLost' <=> \A a \in Apps, i \in DOMAIN target' :
        Due(a, i)' => \E m \in Range(answer'[a]) \cup Transit(a)' : m.n = i
  <1>1. \A a : UNION {Range(q[a]) : q \in {answer', channel', held', buffer'}}
                 = Range(answer'[a]) \cup Transit(a)'
    BY DEF Transit
  <1> QED
    BY <1>1 DEF NoAnswerLost, Due

\* The message a call waits for is a reply: the forwarding task hands it on.
LEMMA ForwardKeeps ==
    ASSUME TypeOK, NEW a \in Apps, Forward(a), NEW m \in Transit(a)
    PROVE  m \in Transit(a)' \/ m.carries = "garbled"
  <1>1. channel' = channel /\ held[a] = <<>>
    BY DEF Forward
  <1>2. CASE lagged[a]
    <2>1. UNCHANGED <<buffer, held>>
      BY <1>2 DEF Forward
    <2> QED
      BY <1>1, <2>1 DEF Transit
  <1>3. CASE ~lagged[a]
    <2> DEFINE h == Head(buffer[a])
    <2>1. /\ buffer[a] # <<>> /\ buffer' = [buffer EXCEPT ![a] = Tail(@)]
          /\ held' = IF h.carries = "garbled" THEN held ELSE [held EXCEPT ![a] = <<h>>]
      BY <1>3 DEF Forward
    <2>2. /\ buffer \in [Apps -> Seq(Message)] /\ held \in [Apps -> Seq(Message)]
      BY DEF TypeOK
    <2>3. /\ buffer'[a] = Tail(buffer[a])
          /\ h.carries = "garbled" \/ held'[a] = <<h>>
      BY <2>1, <2>2
    <2>4. Range(buffer[a]) = {h} \cup Range(Tail(buffer[a])) /\ Range(<<h>>) = {h}
      BY <2>1, <2>2, SequenceFacts, RangeOfOne
    <2>5. Range(held[a]) = {}
      BY <1>1 DEF Range
    <2> HIDE DEF h
    <2> QED
      BY <1>1, <2>3, <2>4, <2>5 DEF Transit
  <1> QED
    BY <1>2, <1>3

LEMMA HandKeeps ==
    ASSUME TypeOK, NEW a \in Apps, Hand(a), ~stopped[a]
    PROVE  Transit(a)' = Transit(a)
  <1>1. /\ buffer' = buffer /\ held' = [held EXCEPT ![a] = <<>>]
        /\ channel' = [channel EXCEPT ![a] = @ \o held[a]]
    BY DEF Hand
  <1>2. /\ held \in [Apps -> Seq(Message)] /\ channel \in [Apps -> Seq(Message)]
    BY DEF TypeOK
  <1>3. held'[a] = <<>> /\ channel'[a] = channel[a] \o held[a]
    BY <1>1, <1>2
  <1>4. Range(channel[a] \o held[a]) = Range(channel[a]) \cup Range(held[a])
    BY <1>2, RangeOfConcat
  <1>5. Range(<<>>) = {}
    BY DEF Range
  <1> QED
    BY <1>1, <1>3, <1>4, <1>5 DEF Transit

\* The answer to a call is the reply numbered as it is.
LEMMA AnswerFacts ==
    ASSUME CallIInv, NEW a \in Apps, NEW i \in DOMAIN target, target[i].whose = {a}
    PROVE  /\ a \in asked /\ call[a] \in {"wait", "done"} /\ target[i].job = job[a]
           /\ said[i].carries = "reply"
           /\ \A m \in InPipe(a) : m.n = i => m = said[i]
  <1>1. PICK d \in asked : /\ target[i].whose = {d} /\ target[i].job = job[d]
                           /\ said[i].carries = "reply"
    BY DEF CallIInv, Targets
  <1>2. d = a
    BY <1>1
  <1>3. i \in 1..Len(said) /\ Len(said) \in Nat
    BY CallFacts
  <1>4. \A m \in InPipe(a) : m.n = i => m = said[i]
    BY <1>3, CallFacts DEF Sound
  <1> QED
    BY <1>1, <1>2, <1>4 DEF CallIInv, Targets

\* A step of the coordinators, with no call involved.
LEMMA StepCallIInv ==
    ASSUME CallIInv, IInv', NEW a \in Apps, Step(a), UNCHANGED calls
    PROVE  CallIInv'
  <1>1. /\ UNCHANGED <<call, job, outcome, entry, answer, next_job_id, others, asked, target>>
        /\ TypeOK' /\ TypeOK /\ Sound
    BY DEF calls, client, waiter, counter, remote, IInv, CallIInv
  <1>2. said' = said /\ overrun \subseteq overrun' /\ stopped' = stopped
    <2>1. CASE Welcome(a)
      <3>1. said' = said /\ stopped' = stopped /\ \E m \in News : Publish(m)
        BY <1>1, <2>1, PublishTypeOK DEF Welcome
      <3> QED
        BY <3>1 DEF Publish
    <2>2. CASE ~Welcome(a)
      BY <2>2 DEF Step, Start, Played, WaitWelcome, SendHello, SendFails, Welcomed, Forward,
                  Hand, Ignore, server, ghosts, pipeline
    <2> QED
      BY <2>1, <2>2
  <1>3. \A b \in Apps : pc[b] = "ready" => pc'[b] = "ready"
    <2>1. CASE \/ Start(a) \/ Played(a) \/ WaitWelcome(a) \/ SendHello(a) \/ SendFails(a)
               \/ Welcomed(a)
      BY <1>1, <2>1 DEF Start, Played, WaitWelcome, SendHello, SendFails, Welcomed, Goto, TypeOK
    <2>2. CASE Forward(a) \/ Hand(a) \/ Welcome(a) \/ Ignore(a)
      BY <2>2 DEF Forward, Hand, Welcome, Ignore, handshake
    <2> QED
      BY <2>1, <2>2 DEF Step
  <1>4. CallTypeOK'
    BY <1>1, <1>2 DEF CallIInv, CallTypeOK
  <1>5. Ids'
    BY <1>1, <1>3 DEF CallIInv, Ids
  <1>6. Targets' /\ Waiters' /\ OwnAnswer'
    BY <1>1, <1>2 DEF CallIInv, Targets, Waiters, OwnAnswer
  <1>7. ASSUME NEW b \in Apps, NEW i \in DOMAIN target', Due(b, i)'
        PROVE  \E m \in Range(answer'[b]) \cup Transit(b)' : m.n = i
    <2>1. Due(b, i) /\ i \in DOMAIN target
      BY <1>1, <1>2, <1>7 DEF Due
    <2>2. PICK m \in Range(answer[b]) \cup Transit(b) : m.n = i
      BY <2>1, LostByApp DEF CallIInv
    <2>3. m \in Transit(b) => m \in Transit(b)' \/ m.carries = "garbled"
      <3>1. CASE Forward(a)
        <4>1. \A d \in Apps \ {a} : held'[d] = held[d] /\ buffer'[d] = buffer[d]
          BY <1>1, <3>1, ForwardShifts
        <4>2. channel' = channel
          BY <3>1 DEF Forward
        <4> QED
          BY <1>1, <3>1, <4>1, <4>2, ForwardKeeps DEF Transit
      <3>2. CASE Hand(a)
        <4>1. /\ \A d \in Apps \ {a} : held'[d] = held[d] /\ channel'[d] = channel[d]
              /\ buffer' = buffer
          BY <1>1, <3>2, HandShifts
        <4>2. ~stopped[b]
          BY <2>1 DEF Due
        <4> QED
          BY <1>1, <3>2, <4>1, <4>2, HandKeeps DEF Transit
      <3>3. CASE Welcome(a)
        <4>1. PICK w \in News : Publish(w)
          BY <1>1, <3>3, PublishTypeOK
        <4>2. w \in Message /\ UNCHANGED <<held, channel>>
          BY <1>1, <3>3, <4>1, PublishTypeOK DEF News
        <4>3. pc[b] # "new" /\ b \notin overrun'
          BY <1>1, <1>7, <2>1 DEF Due, CallIInv, Ids
        <4>4. buffer'[b] = Append(buffer[b], w) /\ buffer[b] \in Seq(Message)
          BY <1>1, <4>1, <4>2, <4>3, Published, TypeFacts
        <4>5. Append(buffer[b], w) = buffer[b] \o <<w>> /\ <<w>> \in Seq(Message)
          BY <4>2, <4>4, AppendIsConcat, RangeOfOne
        <4>6. Range(buffer[b] \o <<w>>) = Range(buffer[b]) \cup Range(<<w>>)
          BY <4>4, <4>5, RangeOfConcat
        <4> QED
          BY <4>2, <4>4, <4>5, <4>6 DEF Transit
      <3>4. CASE ~Forward(a) /\ ~Hand(a) /\ ~Welcome(a)
        BY <3>4 DEF Step, Start, Played, WaitWelcome, SendHello, SendFails, Welcomed,
                    Ignore, pipeline, Transit
      <3> QED
        BY <3>1, <3>2, <3>3, <3>4
    <2>4. m \in Transit(b) => m.carries # "garbled"
      <3>1. target[i].whose = {b} /\ (m \in Transit(b) => m \in InPipe(b))
        BY <2>1 DEF Due, Transit, InPipe
      <3> QED
        BY <2>1, <2>2, <3>1, AnswerFacts
    <2> QED
      BY <1>1, <2>2, <2>3, <2>4
  <1>8. NoAnswerLost'
    BY <1>7, LostByAppPrimed
  <1> QED
    BY <1>4, <1>5, <1>6, <1>8 DEF CallIInv

\* The filter of a coordinator takes a message: it is given to the call only
\* if it is the answer to that call.
LEMMA DispatchCallIInv ==
    ASSUME CallIInv, IInv', NEW a \in Apps, DispatchJob(a)
    PROVE  CallIInv'
  <1> DEFINE m == Head(channel[a])
             match == entry[a] /\ m.carries = "reply" /\ target[m.n].job = job[a]
  <1>1. /\ UNCHANGED <<call, job, outcome, next_job_id, others, asked, target>>
        /\ UNCHANGED <<pc, said, overrun, held, buffer>>
        /\ Dispatch(a) /\ TypeOK' /\ TypeOK
        /\ IF match
           THEN /\ entry' = [entry EXCEPT ![a] = FALSE]
                /\ answer' = IF call[a] = "done" THEN answer ELSE [answer EXCEPT ![a] = <<m>>]
           ELSE UNCHANGED <<entry, answer>>
    BY DEF DispatchJob, Dispatch, client, counter, remote, waiter, server, ghosts, IInv,
           CallIInv
  <1>2. /\ \A b \in Apps \ {a} : channel'[b] = channel[b] /\ stopped'[b] = stopped[b]
        /\ Range(channel[a]) \subseteq Range(channel'[a]) \cup {m} \/ stopped'[a]
        /\ m \in Range(channel[a]) /\ ~stopped[a]
    BY <1>1, DispatchShifts DEF Dispatch
  <1>3. m \in InPipe(a) /\ m \in Message
    <2>1. channel[a] \in Seq(Message)
      BY <1>1, TypeFacts
    <2> QED
      BY <1>2, <2>1 DEF InPipe, Range
  <1> HIDE DEF m
  <1>4. match => m.n \in DOMAIN target /\ target[m.n].whose = {a} /\ call[a] # "idle"
    <2>1. SUFFICES ASSUME match PROVE m.n \in DOMAIN target /\ target[m.n].whose = {a}
                                        /\ call[a] # "idle"
      OBVIOUS
    <2>2. m.n \in DOMAIN target
      BY <1>3, <2>1, CallFacts DEF Sound
    <2>3. call[a] # "idle" /\ job[a] # NONE /\ job[a] \notin others
      BY <2>1, CallFacts DEF CallIInv, Waiters, Ids, NONE
    <2>4. target[m.n].job = job[a]
      BY <2>1
    <2>5. PICK b \in asked : target[m.n].whose = {b} /\ target[m.n].job = job[b]
      BY <2>2, <2>3, <2>4 DEF CallIInv, Targets
    <2>6. b = a
      BY <2>3, <2>4, <2>5, CallFacts DEF CallIInv, Ids
    <2> QED
      BY <2>2, <2>3, <2>5, <2>6
  <1>5. /\ entry' \in [Apps -> BOOLEAN] /\ answer' \in [Apps -> Seq(Message)]
        /\ \A b \in Apps \ {a} : entry'[b] = entry[b] /\ answer'[b] = answer[b]
        /\ ~match => entry'[a] = entry[a] /\ answer'[a] = answer[a]
        /\ match => entry'[a] = FALSE
        /\ match /\ call[a] = "done" => answer'[a] = answer[a]
        /\ match /\ call[a] # "done" => answer'[a] = <<m>>
    <2>1. /\ entry \in [Apps -> BOOLEAN] /\ answer \in [Apps -> Seq(Message)]
          /\ <<m>> \in Seq(Message)
      BY <1>3, CallFacts, RangeOfOne
    <2>2. CASE match
      <3>1. entry' = [entry EXCEPT ![a] = FALSE]
        BY <1>1, <2>2
      <3>2. CASE call[a] = "done"
        BY <1>1, <2>1, <2>2, <3>1, <3>2
      <3>3. CASE call[a] # "done"
        BY <1>1, <2>1, <2>2, <3>1, <3>3
      <3> QED
        BY <3>2, <3>3
    <2>3. CASE ~match
      BY <1>1, <2>1, <2>3
    <2> QED
      BY <2>2, <2>3
  <1> HIDE DEF match
  <1>6. CallTypeOK'
    BY <1>1, <1>5 DEF CallIInv, CallTypeOK
  <1>7. Ids' /\ Targets'
    BY <1>1 DEF CallIInv, Ids, Targets
  <1>8. <<m>> # <<>> /\ 1 \in DOMAIN <<m>> /\ <<m>>[1] = m /\ Range(<<m>>) = {m}
    BY <1>3, RangeOfOne
  <1>9. Waiters' /\ OwnAnswer'
    <2>1. ASSUME NEW b \in Apps
          PROVE  /\ entry'[b] \/ answer'[b] # <<>> => call[b] # "idle"
                 /\ call[b] \in {"send", "wait"} => entry'[b] \/ answer'[b] # <<>>
                 /\ answer'[b] # <<>> => 1 \in DOMAIN answer'[b] /\ answer'[b][1].n \in DOMAIN target
                 /\ outcome[b] = "ok" => answer'[b] # <<>>
                 /\ answer'[b] # <<>> => target[answer'[b][1].n].whose = {b}
      <3>0. /\ entry[b] \/ answer[b] # <<>> => call[b] # "idle"
            /\ call[b] \in {"send", "wait"} => entry[b] \/ answer[b] # <<>>
            /\ answer[b] # <<>> => 1 \in DOMAIN answer[b] /\ answer[b][1].n \in DOMAIN target
            /\ outcome[b] = "none" <=> call[b] # "done"
            /\ outcome[b] = "ok" => answer[b] # <<>>
            /\ answer[b] # <<>> => target[answer[b][1].n].whose = {b}
        BY DEF CallIInv, Waiters, OwnAnswer
      <3>1. CASE b # a \/ ~match
        BY <1>5, <3>0, <3>1
      <3>2. CASE b = a /\ match /\ call[a] = "done"
        BY <1>4, <1>5, <3>0, <3>2
      <3>3. CASE b = a /\ match /\ call[a] # "done"
        <4>1. answer'[b] = <<m>>
          BY <1>5, <3>3
        <4> QED
          BY <1>4, <1>8, <3>0, <3>3, <4>1
      <3> QED
        BY <3>1, <3>2, <3>3
    <2> QED
      BY <1>1, <2>1 DEF CallIInv, Waiters, OwnAnswer
  <1>10. ASSUME NEW b \in Apps, NEW i \in DOMAIN target', Due(b, i)'
         PROVE  \E x \in Range(answer'[b]) \cup Transit(b)' : x.n = i
    <2>1. Due(b, i) /\ i \in DOMAIN target
      BY <1>1, <1>2, <1>10 DEF Due
    <2>2. PICK x \in Range(answer[b]) \cup Transit(b) : x.n = i
      BY <2>1, LostByApp DEF CallIInv
    <2>3. CASE b # a
      BY <1>1, <1>2, <1>5, <2>2, <2>3 DEF Transit
    <2>4. CASE b = a /\ x # m /\ x \in Transit(b)
      <3>1. ~stopped'[a]
        BY <1>10, <2>4 DEF Due
      <3> QED
        BY <1>1, <1>2, <2>2, <2>4, <3>1 DEF Transit
    <2>5. CASE b = a /\ x \in Range(answer[a])
      <3>1. ~match \/ call[a] = "done" => answer'[a] = answer[a]
        BY <1>5
      <3>2. call[a] = "wait" /\ target[i].whose = {a}
        BY <2>1, <2>5 DEF Due
      <3>3. match => m.n = i
        BY <1>4, <2>1, <3>2 DEF CallIInv, Targets
      <3>4. match => answer'[a] = <<m>>
        BY <1>5, <3>2
      <3> QED
        BY <1>8, <2>2, <2>5, <3>1, <3>3, <3>4
    <2>6. CASE b = a /\ x = m
      <3>1. call[a] = "wait" /\ target[i].whose = {a}
        BY <2>1, <2>6 DEF Due
      <3>2. m.carries = "reply" /\ target[m.n].job = job[a]
        BY <1>3, <2>1, <2>2, <2>6, <3>1, AnswerFacts
      <3>3. CASE entry[a]
        <4>1. answer'[a] = <<m>>
          BY <1>5, <3>1, <3>2, <3>3 DEF match
        <4> QED
          BY <1>8, <2>2, <2>6, <4>1
      <3>4. CASE ~entry[a]
        <4>1. answer'[a] = answer[a] /\ answer[a] # <<>>
          BY <1>5, <3>1, <3>4 DEF match, CallIInv, Waiters
        <4>2. /\ 1 \in DOMAIN answer[a] /\ answer[a][1].n \in DOMAIN target
              /\ target[answer[a][1].n].whose = {a}
          BY <4>1 DEF CallIInv, Waiters, OwnAnswer
        <4>3. answer[a][1].n = i
          BY <2>1, <3>1, <4>2 DEF CallIInv, Targets
        <4> QED
          BY <2>6, <4>1, <4>2, <4>3 DEF Range
      <3> QED
        BY <3>3, <3>4
    <2> QED
      BY <2>2, <2>3, <2>4, <2>5, <2>6
  <1>11. NoAnswerLost'
    BY <1>10, LostByAppPrimed
  <1> QED
    BY <1>6, <1>7, <1>9, <1>11 DEF CallIInv

\* The server says something: the answer to a call, or anything else.
LEMMA SayCallIInv ==
    ASSUME CallIInv, IInv', NEW a \in Apps,
           Reply(a) \/ ReplyToOthers(a) \/ \E what \in Carried : Tell(a, what)
    PROVE  CallIInv'
  <1>1. PICK what \in Carried, id \in 0..MaxJobs, whose \in SUBSET Apps :
           /\ SayTo(a, what, id, whose)
           /\ \/ whose = {} /\ id \in others \cup {NONE}
              \/ /\ whose = {a} /\ id = job[a] /\ a \in asked /\ what = "reply"
                 /\ \A i \in DOMAIN target : target[i].whose # {a}
    <2>1. ASSUME Reply(a)
          PROVE  /\ SayTo(a, "reply", job[a], {a}) /\ job[a] \in 0..MaxJobs /\ a \in asked
                 /\ \A i \in DOMAIN target : target[i].whose # {a}
                 /\ "reply" \in Carried
      <3>1. job[a] \in 0..MaxJobs
        BY CallFacts
      <3> QED
        BY <2>1, <3>1, JobsAssumption DEF Reply
    <2>2. ASSUME ReplyToOthers(a)
          PROVE  \E id \in others : /\ SayTo(a, "reply", id, {}) /\ id \in 0..MaxJobs
                                    /\ "reply" \in Carried
      <3>1. others \subseteq 0..MaxJobs
        BY CallFacts
      <3> QED
        BY <2>2, <3>1, JobsAssumption DEF ReplyToOthers
    <2>3. ASSUME NEW what \in Carried, Tell(a, what)
          PROVE  SayTo(a, what, NONE, {})
      BY <2>3 DEF Tell
    <2>4. NONE \in 0..MaxJobs /\ {} \in SUBSET Apps /\ {a} \in SUBSET Apps
      BY CallFacts DEF NONE
    <2> QED
      BY <2>1, <2>2, <2>3, <2>4
  <1> DEFINE n == Len(said) + 1
             m == [app |-> a, carries |-> what, n |-> n]
             t == [job |-> id, whose |-> whose]
  <1>2. /\ UNCHANGED <<call, job, outcome, entry, answer, next_job_id, others, asked>>
        /\ UNCHANGED <<pc, held, channel, stopped>>
        /\ Publish(m) /\ said' = Append(said, m) /\ target' = Append(target, t)
        /\ Len(said) < MaxMessages
        /\ TypeOK' /\ TypeOK
    BY <1>1 DEF SayTo, Say, client, waiter, counter, handshake, IInv, CallIInv
  <1>3. m \in Message /\ m.carries = what /\ m.n = n
    <2>1. n \in 0..MaxMessages
      BY <1>2, CallFacts, CoordinatorAssumption
    <2> QED
      BY <2>1 DEF Message
  <1>4. t \in [job: 0..MaxJobs, whose: SUBSET Apps] /\ t.job = id /\ t.whose = whose
    OBVIOUS
  <1> HIDE DEF m, t
  <1>5. /\ DOMAIN said = DOMAIN target /\ Len(target) = Len(said) /\ n \notin DOMAIN target
        /\ n = Len(said) + 1
        /\ target \in Seq([job: 0..MaxJobs, whose: SUBSET Apps]) /\ said \in Seq(Message)
    BY CallFacts DEF TypeOK
  <1>6. /\ DOMAIN said' = DOMAIN said \cup {n} /\ said'[n] = m
        /\ \A i \in DOMAIN said : said'[i] = said[i]
        /\ Len(said') = Len(said) + 1
    BY <1>2, <1>3, <1>5
  <1>7. /\ DOMAIN target' = DOMAIN target \cup {n} /\ target'[n] = t
        /\ \A i \in DOMAIN target : target'[i] = target[i]
        /\ Len(target') = Len(target) + 1
        /\ target' \in Seq([job: 0..MaxJobs, whose: SUBSET Apps])
    <2> DEFINE T == [job: 0..MaxJobs, whose: SUBSET Apps]
    <2>1. t \in T /\ target \in Seq(T)
      BY <1>4, <1>5
    <2> HIDE DEF T
    <2>2. /\ DOMAIN target' = DOMAIN target \cup {n} /\ target'[n] = t
          /\ \A i \in DOMAIN target : target'[i] = target[i]
          /\ Len(target') = Len(target) + 1
          /\ target' \in Seq(T)
      BY <1>2, <1>5, <2>1
    <2> QED
      BY <2>2 DEF T
  <1> HIDE DEF n
  <1>8. CallTypeOK'
    BY <1>2, <1>5, <1>6, <1>7 DEF CallIInv, CallTypeOK
  <1>9. Ids'
    BY <1>2 DEF CallIInv, Ids
  <1>10. Targets'
    <2>1. ASSUME NEW i \in DOMAIN target'
          PROVE  \/ target'[i].whose = {} /\ target'[i].job \in others \cup {NONE}
                 \/ \E d \in asked : /\ target'[i].whose = {d} /\ target'[i].job = job[d]
                                     /\ said'[i].carries = "reply"
      <3>1. CASE i = n
        BY <1>1, <1>3, <1>4, <1>6, <1>7, <3>1
      <3>2. CASE i \in DOMAIN target
        <4>1. target'[i] = target[i] /\ said'[i] = said[i]
          BY <1>5, <1>6, <1>7, <3>2
        <4> QED
          BY <3>2, <4>1 DEF CallIInv, Targets
      <3> QED
        BY <1>7, <3>1, <3>2
    <2>2. ASSUME NEW d \in Apps, NEW i \in DOMAIN target', NEW j \in DOMAIN target',
                 target'[i].whose = {d}, target'[j].whose = {d}
          PROVE  i = j
      <3>1. CASE i \in DOMAIN target /\ j \in DOMAIN target
        BY <1>7, <2>2, <3>1 DEF CallIInv, Targets
      <3>2. CASE i = n \/ j = n
        <4>1. whose = {d}
          BY <1>4, <1>7, <2>2, <3>2
        <4>2. d = a /\ \A k \in DOMAIN target : target[k].whose # {d}
          BY <1>1, <4>1
        <4> QED
          BY <1>7, <2>2, <3>2, <4>2
      <3> QED
        BY <1>7, <3>1, <3>2
    <2> QED
      BY <1>2, <2>1, <2>2 DEF CallIInv, Targets
  <1>11. Waiters' /\ OwnAnswer'
    BY <1>2, <1>7 DEF CallIInv, Waiters, OwnAnswer
  <1>12. ASSUME NEW b \in Apps, NEW i \in DOMAIN target', Due(b, i)'
         PROVE  \E x \in Range(answer'[b]) \cup Transit(b)' : x.n = i
    <2>1. pc[b] # "new" /\ b \notin overrun' /\ target'[i].whose = {b}
      BY <1>2, <1>12 DEF Due, CallIInv, Ids
    <2>2. buffer'[b] = Append(buffer[b], m) /\ buffer[b] \in Seq(Message)
      BY <1>2, <1>3, <2>1, Published, TypeFacts
    <2>3. Append(buffer[b], m) = buffer[b] \o <<m>> /\ <<m>> \in Seq(Message)
            /\ Range(<<m>>) = {m}
      BY <1>3, <2>2, AppendIsConcat, RangeOfOne
    <2>4. Range(buffer[b] \o <<m>>) = Range(buffer[b]) \cup Range(<<m>>)
      BY <2>2, <2>3, RangeOfConcat
    <2>5. Transit(b)' = Transit(b) \cup {m}
      BY <1>2, <2>2, <2>3, <2>4 DEF Transit
    <2>6. CASE i = n
      BY <1>3, <2>5, <2>6
    <2>7. CASE i \in DOMAIN target
      <3>1. b \notin overrun
        BY <1>2, <1>3, <2>1, Published
      <3>2. Due(b, i)
        BY <1>2, <1>7, <1>12, <2>7, <3>1 DEF Due
      <3>3. PICK x \in Range(answer[b]) \cup Transit(b) : x.n = i
        BY <2>7, <3>2, LostByApp DEF CallIInv
      <3> QED
        BY <1>2, <2>5, <3>3
    <2> QED
      BY <1>7, <2>6, <2>7
  <1>13. NoAnswerLost'
    BY <1>12, LostByAppPrimed
  <1> QED
    BY <1>8, <1>9, <1>10, <1>11, <1>13 DEF CallIInv

\* Others draw an id.
LEMMA OthersCallIInv ==
    ASSUME CallIInv, IInv', OthersAsk
    PROVE  CallIInv'
  <1>1. UNCHANGED <<pc, received, channel, held, buffer, stopped, said, overrun, target, answer>>
    BY DEF OthersAsk, vars, handshake, pipeline, server, ghosts, waiter, remote
  <1>2. TypeOK'
    BY DEF IInv
  <1>3. /\ next_job_id <= MaxJobs /\ next_job_id' = next_job_id + 1
        /\ others' = others \cup {next_job_id}
        /\ UNCHANGED <<call, job, outcome, entry, asked>>
    BY DEF OthersAsk, Draw, client, waiter, remote
  <1>4. CallTypeOK'
    BY <1>1, <1>2, <1>3, CallFacts DEF CallIInv, CallTypeOK
  <1>5. Ids'
    <2>1. others' \subseteq 1..(next_job_id' - 1)
      <3>1. others \subseteq 1..(next_job_id - 1)
        BY DEF CallIInv, Ids
      <3>2. next_job_id \in Nat /\ next_job_id >= 1 /\ next_job_id' = next_job_id + 1
        BY <1>3, CallFacts
      <3>3. \A x \in others' : x \in 1..(next_job_id - 1) \/ x = next_job_id
        BY <1>3, <3>1
      <3> QED
        BY <3>2, <3>3
    <2>2. ASSUME NEW b \in Apps, call[b] # "idle"
          PROVE  job[b] \in 1..(next_job_id' - 1) /\ job[b] \notin others'
      <3>1. job[b] \in 1..(next_job_id - 1) /\ job[b] \notin others
        BY <2>2 DEF CallIInv, Ids
      <3> QED
        BY <1>3, <3>1, CallFacts
    <2> QED
      BY <1>1, <1>3, <2>1, <2>2 DEF CallIInv, Ids
  <1>6. Targets' /\ Waiters' /\ OwnAnswer' /\ NoAnswerLost'
    BY <1>1, <1>3 DEF CallIInv, Targets, Waiters, OwnAnswer, NoAnswerLost
  <1> QED
    BY <1>4, <1>5, <1>6 DEF CallIInv

\* The call itself moves on.
LEMMA ClientCallIInv ==
    ASSUME CallIInv, IInv', NEW a \in Apps,
           \/ Ask(a) \/ SendRequest(a) \/ RequestFails(a) \/ Return(a) \/ GiveUp(a)
           \/ Cancel(a)
    PROVE  CallIInv'
  <1>1. UNCHANGED <<pc, received, channel, held, buffer, stopped, said, overrun, target, answer>>
    BY DEF Ask, SendRequest, RequestFails, Return, GiveUp, Cancel, End, vars,
           handshake, pipeline, server, ghosts, waiter, counter, remote
  <1>2. TypeOK'
    BY DEF IInv
  <1>3. CASE Ask(a)
    <2>1. /\ next_job_id <= MaxJobs /\ next_job_id' = next_job_id + 1 /\ pc[a] = "ready"
          /\ call[a] = "idle" /\ call' = [call EXCEPT ![a] = "send"]
          /\ job' = [job EXCEPT ![a] = next_job_id]
          /\ entry' = [entry EXCEPT ![a] = TRUE]
          /\ UNCHANGED <<others, outcome, asked>>
      BY <1>3 DEF Ask, Draw, remote
    <2>2. /\ call'[a] = "send" /\ job'[a] = next_job_id /\ entry'[a] = TRUE
          /\ \A b \in Apps \ {a} : /\ call'[b] = call[b] /\ job'[b] = job[b]
                                   /\ entry'[b] = entry[b]
      BY <2>1, CallFacts
    <2>3. CallTypeOK'
      <3>1. next_job_id \in 0..MaxJobs /\ next_job_id' \in 1..(MaxJobs + 1)
        BY <2>1, CallFacts
      <3> QED
        BY <1>1, <1>2, <2>1, <3>1 DEF CallIInv, CallTypeOK
    <2>4. Ids'
      <3>1. others \subseteq 1..(next_job_id' - 1) /\ next_job_id \notin others
        BY <2>1, CallFacts DEF CallIInv, Ids
      <3>2. ASSUME NEW b \in Apps
            PROVE  IF call'[b] = "idle" THEN job'[b] = NONE
                   ELSE /\ job'[b] \in 1..(next_job_id' - 1) /\ job'[b] \notin others
                        /\ pc[b] = "ready"
        <4>1. CASE b = a
          BY <2>1, <2>2, <3>1, <4>1, CallFacts
        <4>2. CASE b # a
          BY <2>1, <2>2, <4>2, CallFacts DEF CallIInv, Ids
        <4> QED
          BY <4>1, <4>2
      <3>3. ASSUME NEW b \in Apps PROVE job[b] # next_job_id
        <4>1. job[b] = 0 \/ job[b] \in 1..(next_job_id - 1)
          BY DEF CallIInv, Ids, NONE
        <4>2. next_job_id \in Nat /\ next_job_id >= 1
          BY CallFacts
        <4> QED
          BY <4>1, <4>2
      <3>4. \A b, c \in Apps : job'[b] = job'[c] /\ job'[b] # NONE => b = c
        BY <2>2, <3>3 DEF CallIInv, Ids
      <3> QED
        BY <1>1, <2>1, <3>1, <3>2, <3>4 DEF Ids
    <2>5. \A d \in asked : d # a
      BY <2>1 DEF CallIInv, Targets
    <2>6. Targets'
      <3>1. \A d \in asked : call'[d] \in {"wait", "done"} /\ job'[d] = job[d]
        BY <2>2, <2>5, CallFacts DEF CallIInv, Targets
      <3> QED
        BY <1>1, <2>1, <3>1 DEF CallIInv, Targets
    <2>7. Waiters' /\ OwnAnswer'
      BY <1>1, <2>1, <2>2 DEF CallIInv, Waiters, OwnAnswer
    <2>8. NoAnswerLost'
      BY <1>1, <2>2 DEF CallIInv, NoAnswerLost
    <2> QED
      BY <2>3, <2>4, <2>6, <2>7, <2>8 DEF CallIInv
  <1>4. CASE SendRequest(a)
    <2>1. /\ call[a] = "send" /\ call' = [call EXCEPT ![a] = "wait"]
          /\ asked' = asked \cup {a}
          /\ UNCHANGED <<job, outcome, entry, next_job_id, others>>
      BY <1>4 DEF SendRequest, waiter, counter
    <2>2. call'[a] = "wait" /\ \A b \in Apps \ {a} : call'[b] = call[b]
      BY <2>1, CallFacts
    <2>3. CallTypeOK' /\ Ids'
      BY <1>1, <1>2, <2>1, <2>2 DEF CallIInv, CallTypeOK, Ids
    <2>4. Targets'
      <3>1. \A d \in asked' : call'[d] \in {"wait", "done"}
        BY <2>1, <2>2 DEF CallIInv, CallTypeOK, Targets
      <3>2. ASSUME NEW i \in DOMAIN target
            PROVE  \/ target[i].whose = {} /\ target[i].job \in others \cup {NONE}
                   \/ \E d \in asked' : /\ target[i].whose = {d} /\ target[i].job = job[d]
                                        /\ said[i].carries = "reply"
        BY <2>1 DEF CallIInv, Targets
      <3>3. \A b \in Apps, i, j \in DOMAIN target :
              target[i].whose = {b} /\ target[j].whose = {b} => i = j
        BY DEF CallIInv, Targets
      <3> QED
        BY <1>1, <2>1, <3>1, <3>2, <3>3 DEF Targets
    <2>5. Waiters' /\ OwnAnswer'
      BY <1>1, <2>1, <2>2 DEF CallIInv, Waiters, OwnAnswer
    <2>6. \A i \in DOMAIN target : target[i].whose # {a}
      BY <2>1, AnswerFacts
    <2>7. NoAnswerLost'
      BY <1>1, <2>2, <2>6 DEF CallIInv, NoAnswerLost
    <2> QED
      BY <2>3, <2>4, <2>5, <2>7 DEF CallIInv
  <1>5. CASE RequestFails(a) \/ Return(a) \/ GiveUp(a) \/ Cancel(a)
    <2>1. PICK how \in {"ok", "error", "timeout", "cancelled"} :
                 End(a, how) /\ (how = "ok" => answer[a] # <<>>)
      BY <1>5 DEF RequestFails, Return, GiveUp, Cancel
    <2>2. /\ call[a] \in {"send", "wait"} /\ call' = [call EXCEPT ![a] = "done"]
          /\ outcome' = [outcome EXCEPT ![a] = how]
          /\ UNCHANGED <<job, entry, next_job_id, others, asked>>
      BY <1>5, <2>1 DEF RequestFails, Return, GiveUp, Cancel, End, waiter, counter, remote
    <2>3. /\ call'[a] = "done" /\ outcome'[a] = how
          /\ \A b \in Apps \ {a} : call'[b] = call[b] /\ outcome'[b] = outcome[b]
      BY <2>2, CallFacts
    <2>4. CallTypeOK'
      BY <1>1, <1>2, <2>2 DEF CallIInv, CallTypeOK
    <2>5. Ids' /\ Targets'
      <3>1. Ids'
        BY <1>1, <2>2, <2>3 DEF CallIInv, Ids
      <3>2. \A d \in asked : call'[d] \in {"wait", "done"}
        BY <2>2, <2>3, CallFacts DEF CallIInv, Targets
      <3>3. Targets'
        BY <1>1, <2>2, <3>2 DEF CallIInv, Targets
      <3> QED
        BY <3>1, <3>3
    <2>6. Waiters' /\ OwnAnswer'
      BY <1>1, <2>1, <2>2, <2>3 DEF CallIInv, Waiters, OwnAnswer
    <2>7. NoAnswerLost'
      BY <1>1, <2>3 DEF CallIInv, NoAnswerLost
    <2> QED
      BY <2>4, <2>5, <2>6, <2>7 DEF CallIInv
  <1> QED
    BY <1>3, <1>4, <1>5

LEMMA NextCallIInv == CallIInv /\ [CallsNext]_allVars => CallIInv'
  <1> SUFFICES ASSUME CallIInv, [CallsNext]_allVars PROVE CallIInv'
    OBVIOUS
  <1>1. IInv'
    BY CallsUseCoordinator, NextIInv DEF CallIInv
  <1>2. CASE UNCHANGED allVars
    <2>1. UNCHANGED <<pc, received, channel, held, buffer, stopped, said, overrun, calls>>
      BY <1>2 DEF allVars, vars, handshake, pipeline, server, ghosts
    <2>2. UNCHANGED <<call, job, outcome, entry, answer, next_job_id, others, asked, target>>
      BY <2>1 DEF calls, client, waiter, counter, remote
    <2>3. CallTypeOK'
      BY <1>1, <2>1, <2>2 DEF CallIInv, CallTypeOK, IInv
    <2>4. Ids' /\ Targets' /\ Waiters' /\ OwnAnswer' /\ NoAnswerLost'
      BY <2>1, <2>2 DEF CallIInv, Ids, Targets, Waiters, OwnAnswer, NoAnswerLost
    <2> QED
      BY <1>1, <2>3, <2>4 DEF CallIInv
  <1>3. ASSUME NEW a \in Apps, Step(a) /\ UNCHANGED calls PROVE CallIInv'
    BY <1>1, <1>3, StepCallIInv
  <1>4. ASSUME NEW a \in Apps, DispatchJob(a) PROVE CallIInv'
    BY <1>1, <1>4, DispatchCallIInv
  <1>5. ASSUME NEW a \in Apps, Reply(a) \/ ReplyToOthers(a) \/ \E what \in Carried : Tell(a, what)
        PROVE  CallIInv'
    BY <1>1, <1>5, SayCallIInv
  <1>6. ASSUME NEW a \in Apps,
               \/ Ask(a) \/ SendRequest(a) \/ RequestFails(a) \/ Return(a) \/ GiveUp(a)
               \/ Cancel(a)
        PROVE  CallIInv'
    BY <1>1, <1>6, ClientCallIInv
  <1>7. CASE OthersAsk
    BY <1>1, <1>7, OthersCallIInv
  <1> QED
    BY <1>2, <1>3, <1>4, <1>5, <1>6, <1>7 DEF CallsNext

\* So does the one of the calls, with the pipe under them.
THEOREM InductiveCalls == CallsSpec => []CallIInv
  BY InitCallIInv, NextCallIInv, PTL DEF CallsSpec
-----------------------------------------------------------------------------
(* What the calls are sure of. *)

\* Every variable of the coordinators and their calls has its type.
THEOREM CallsTypeCorrect == CallsSpec => []CallTypeOK
  BY InductiveCalls, PTL DEF CallIInv

\* The pipe keeps its promise under the calls as well: it does not depend on
\* what the messages are answers to.
THEOREM CallsKeepOrder == CallsSpec => []RepliesArriveInOrder
  BY InductiveCalls, PTL DEF CallIInv, IInv

\* Every coordinator is handed the answers to all of them, and a call is given
\* the answer to its own request and no other (session.rs lines 117-137,
\* game_coordinator/mod.rs line 111).
THEOREM OwnAnswerHolds == CallsSpec => []OwnAnswer
  BY InductiveCalls, PTL DEF CallIInv

\* The answer to a call that waits is under way or was given to it, unless a
\* buffer was overrun or the filter's task has ended.
THEOREM NoAnswerLostHolds == CallsSpec => []NoAnswerLost
  BY InductiveCalls, PTL DEF CallIInv
-----------------------------------------------------------------------------
(* The refinement: a call through a coordinator is one of RequestReply too. *)

Status      == [a \in Apps |-> IF call[a] \in {"idle", "done"} THEN call[a] ELSE "open"]
Answered(a) == {i \in DOMAIN target : target[i].whose = {a}}
AnswersTo   == [a \in Apps |-> {Numbered(i) : i \in Answered(a)}]
Taken       == [a \in Apps |-> IF outcome[a] = "ok" THEN <<Numbered(answer[a][1].n)>>
                               ELSE <<>>]

\* The steps of RequestReply, as those of a coordinator.
AnswersGoOut(a) ==
    /\ Status[a] # "idle"
    /\ \E x \in AnswersTo'[a] :
         /\ \A y \in AnswersTo[a] : y.n < x.n
         /\ AnswersTo' = [AnswersTo EXCEPT ![a] = @ \cup {x}]
    /\ UNCHANGED <<Status, Taken, outcome>>

Ends(a, how) ==
    /\ Status' = [Status EXCEPT ![a] = "done"]
    /\ outcome' = [outcome EXCEPT ![a] = how]

AnswerIsTaken(a) ==
    /\ Status[a] = "open"
    /\ \E x \in AnswersTo[a] \ Range(Taken[a]) :
         /\ \A y \in AnswersTo[a] : y.n < x.n => y \in Range(Taken[a])
         /\ Taken' = [Taken EXCEPT ![a] = Append(@, x)]
    /\ Ends(a, "ok") /\ UNCHANGED AnswersTo

LEMMA AbstractSteps ==
    /\ \A a \in Apps :
         /\ /\ Status[a] = "idle" /\ Status' = [Status EXCEPT ![a] = "open"]
            /\ UNCHANGED <<AnswersTo, Taken, outcome>>
            => Abstract!Next
         /\ AnswersGoOut(a) => Abstract!Next
         /\ AnswerIsTaken(a) => Abstract!Next
         /\ \A how \in {"error", "timeout", "cancelled"} :
              /\ Status[a] = "open" /\ Ends(a, how) /\ UNCHANGED <<AnswersTo, Taken>>
              => Abstract!Next
    /\ UNCHANGED <<Status, AnswersTo, Taken, outcome>> => UNCHANGED Abstract!vars
  <1>1. ASSUME NEW a \in Apps, Status[a] = "idle",
               Status' = [Status EXCEPT ![a] = "open"],
               UNCHANGED <<AnswersTo, Taken, outcome>>
        PROVE  Abstract!Ask(a)
    BY <1>1 DEF Abstract!Ask, Status, AnswersTo, Answered, Taken
  <1>2. ASSUME NEW a \in Apps, AnswersGoOut(a) PROVE Abstract!Answer(a)
    BY <1>2 DEF AnswersGoOut, Abstract!Answer, Status, AnswersTo, Answered, Taken
  <1>3. ASSUME NEW a \in Apps, AnswerIsTaken(a) PROVE Abstract!Take(a)
    BY <1>3 DEF AnswerIsTaken, Ends, Abstract!Take, Abstract!Finish, Abstract!Range, Range,
              Status, AnswersTo, Answered, Taken
  <1>4. ASSUME NEW a \in Apps, NEW how \in {"error", "timeout", "cancelled"},
               Status[a] = "open", Ends(a, how), UNCHANGED <<AnswersTo, Taken>>
        PROVE  Abstract!GiveUp(a)
    BY <1>4 DEF Ends, Abstract!GiveUp, Abstract!Finish, Status, AnswersTo, Answered, Taken
  <1>5. UNCHANGED <<Status, AnswersTo, Taken, outcome>> => UNCHANGED Abstract!vars
    BY DEF Abstract!vars, Status, AnswersTo, Answered, Taken
  <1> QED
    BY <1>1, <1>2, <1>3, <1>4, <1>5 DEF Abstract!Next

LEMMA InitRefines == CallsInit => Abstract!Init
  <1> SUFFICES ASSUME CallsInit PROVE Abstract!Init
    OBVIOUS
  <1>1. /\ call = [a \in Apps |-> "idle"] /\ outcome = [a \in Apps |-> "none"]
        /\ target = <<>>
    BY DEF CallsInit
  <1>2. \A a \in Apps : Answered(a) = {}
    BY <1>1 DEF Answered
  <1>3. Status = [a \in Apps |-> "idle"] /\ AnswersTo = [a \in Apps |-> {}]
    BY <1>1, <1>2 DEF Status, AnswersTo
  <1>4. Taken = [a \in Apps |-> <<>>]
    BY <1>1 DEF Taken
  <1> QED
    BY <1>1, <1>3, <1>4 DEF Abstract!Init, Status, AnswersTo, Answered, Taken

\* Nothing the caller sees: the world moves on, or the request is sent, or an
\* answer is put into the channel of a call that is not over.
LEMMA HiddenRefines ==
    ASSUME CallIInv, UNCHANGED <<outcome, target>>, UNCHANGED Status,
           \A a \in Apps : call[a] = "done" => answer'[a] = answer[a]
    PROVE  UNCHANGED Abstract!vars
  <1>1. UNCHANGED AnswersTo
    BY DEF AnswersTo, Answered, Numbered
  <1>2. \A a \in Apps : outcome[a] = "ok" => answer'[a] = answer[a]
    BY DEF CallIInv, Waiters
  <1>3. UNCHANGED Taken
    BY <1>2 DEF Taken, Numbered
  <1> QED
    BY <1>1, <1>3, AbstractSteps

LEMMA SayRefines ==
    ASSUME CallIInv, NEW a \in Apps,
           Reply(a) \/ ReplyToOthers(a) \/ \E what \in Carried : Tell(a, what)
    PROVE  Abstract!Next \/ UNCHANGED Abstract!vars
  <1> DEFINE n == Len(target) + 1
  <1>1. PICK t : /\ target' = Append(target, t)
                 /\ t.whose = {} \/ (Reply(a) /\ t.whose = {a})
    <2>1. ASSUME NEW what, NEW id, NEW whose, SayTo(a, what, id, whose)
          PROVE  \E t : /\ target' = Append(target, t) /\ t.whose = whose
      <3>1. target' = Append(target, [job |-> id, whose |-> whose])
        BY <2>1 DEF SayTo
      <3> QED
        BY <3>1
    <2>2. CASE Reply(a)
      <3>1. SayTo(a, "reply", job[a], {a})
        BY <2>2 DEF Reply
      <3> QED
        BY <2>1, <2>2, <3>1
    <2>3. CASE ReplyToOthers(a)
      <3>1. PICK id \in others : SayTo(a, "reply", id, {})
        BY <2>3 DEF ReplyToOthers
      <3> QED
        BY <2>1, <3>1
    <2>4. CASE \E what \in Carried : Tell(a, what)
      <3>1. PICK what \in Carried : SayTo(a, what, NONE, {})
        BY <2>4 DEF Tell
      <3> QED
        BY <2>1, <3>1
    <2> QED
      BY <2>2, <2>3, <2>4
  <1>2. UNCHANGED <<call, outcome, answer>>
    BY DEF Reply, ReplyToOthers, Tell, SayTo, client, waiter
  <1>3. UNCHANGED <<Status, Taken, outcome>>
    BY <1>2 DEF Status, Taken, Numbered
  <1>4. /\ DOMAIN target = 1..Len(target) /\ DOMAIN target' = DOMAIN target \cup {n}
        /\ target'[n] = t /\ \A i \in DOMAIN target : target'[i] = target[i]
        /\ n \notin DOMAIN target /\ Len(target) \in Nat /\ \A i \in DOMAIN target : i < n
    BY <1>1, CallFacts
  <1> HIDE DEF n
  <1>5. \A b \in Apps : Answered(b)' = Answered(b) \cup IF t.whose = {b} THEN {n} ELSE {}
    BY <1>4 DEF Answered
  <1>6. \A b \in Apps : /\ AnswersTo[b] = {Numbered(i) : i \in Answered(b)}
                        /\ AnswersTo'[b] = {Numbered(i) : i \in Answered(b)'}
    BY DEF AnswersTo, Numbered
  <1>7. CASE t.whose = {}
    <2>1. \A b \in Apps : Answered(b)' = Answered(b)
      BY <1>5, <1>7
    <2>2. UNCHANGED AnswersTo
      BY <2>1 DEF AnswersTo, Numbered
    <2> QED
      BY <1>3, <2>2, AbstractSteps
  <1>8. CASE Reply(a) /\ t.whose = {a}
    <2>1. /\ Answered(a)' = Answered(a) \cup {n}
          /\ \A b \in Apps \ {a} : Answered(b)' = Answered(b)
      BY <1>5, <1>8
    <2>2. /\ AnswersTo'[a] = AnswersTo[a] \cup {Numbered(n)}
          /\ \A b \in Apps \ {a} : AnswersTo'[b] = AnswersTo[b]
      <3> HIDE DEF Numbered
      <3> QED
        BY <1>6, <2>1
    <2>3. AnswersTo' = [AnswersTo EXCEPT ![a] = @ \cup {Numbered(n)}]
      <3>1. DOMAIN AnswersTo = Apps /\ DOMAIN AnswersTo' = Apps
        BY DEF AnswersTo
      <3>2. AnswersTo = [b \in Apps |-> AnswersTo[b]] /\ AnswersTo' = [b \in Apps |-> AnswersTo'[b]]
        BY DEF AnswersTo
      <3> QED
        BY <2>2, <3>1, <3>2
    <2>4. \A y \in AnswersTo[a] : y.n < Numbered(n).n
      <3>1. \A i \in Answered(a) : Numbered(i).n < n /\ Numbered(n).n = n
        BY <1>4 DEF Answered, Numbered
      <3> QED
        BY <1>6, <3>1 DEF Numbered
    <2>5. Status[a] # "idle"
      BY <1>8 DEF Reply, CallIInv, Targets, Status
    <2>6. AnswersGoOut(a)
      BY <1>3, <2>2, <2>3, <2>4, <2>5 DEF AnswersGoOut
    <2> QED
      BY <2>6, AbstractSteps
  <1> QED
    BY <1>1, <1>7, <1>8

\* The call returns with the answer it was given.
LEMMA ReturnRefines ==
    ASSUME CallIInv, NEW a \in Apps, call[a] = "wait", answer[a] # <<>>, End(a, "ok")
    PROVE  Abstract!Next
  <1> DEFINE i == answer[a][1].n
             x == Numbered(i)
  <1>1. /\ call' = [call EXCEPT ![a] = "done"] /\ outcome' = [outcome EXCEPT ![a] = "ok"]
        /\ UNCHANGED <<answer, target>>
    BY DEF End, waiter, remote
  <1>2. /\ call'[a] = "done" /\ outcome'[a] = "ok"
        /\ \A b \in Apps \ {a} : call'[b] = call[b] /\ outcome'[b] = outcome[b]
    BY <1>1, CallFacts
  <1>3. outcome[a] # "ok"
    BY DEF CallIInv, Waiters
  <1>4. Taken[a] = <<>>
    BY <1>3 DEF Taken
  <1>5. i \in Answered(a)
    BY DEF CallIInv, OwnAnswer, Waiters, Answered
  <1>6. \A j \in Answered(a) : j = i
    BY <1>5 DEF CallIInv, Targets, Answered
  <1> HIDE DEF i
  <1>7. AnswersTo[a] = {x}
    BY <1>5, <1>6 DEF AnswersTo
  <1>8. UNCHANGED AnswersTo
    BY <1>1 DEF AnswersTo, Answered, Numbered
  <1>9. Taken' = [Taken EXCEPT ![a] = Append(@, x)]
    <2>1. Taken'[a] = <<x>>
      BY <1>1, <1>2 DEF Taken, Numbered, i
    <2>2. \A b \in Apps \ {a} : Taken'[b] = Taken[b]
      BY <1>1, <1>2 DEF Taken, Numbered
    <2>3. Append(Taken[a], x) = <<x>>
      BY <1>4
    <2>4. /\ Taken = [b \in Apps |-> Taken[b]] /\ Taken' = [b \in Apps |-> Taken'[b]]
          /\ DOMAIN Taken = Apps
      BY DEF Taken
    <2> HIDE DEF x
    <2> QED
      BY <2>1, <2>2, <2>3, <2>4
  <1>10. Ends(a, "ok")
    <2>1. Status' = [Status EXCEPT ![a] = "done"]
      BY <1>2 DEF Status
    <2> QED
      BY <1>1, <2>1 DEF Ends
  <1>11. Range(Taken[a]) = {}
    BY <1>4 DEF Range
  <1>12. Status[a] = "open"
    BY DEF Status
  <1>13. x \in AnswersTo[a] \ Range(Taken[a])
    BY <1>7, <1>11
  <1>14. ~(x.n < x.n)
    <2>1. i \in Nat
      BY <1>5, CallFacts DEF Answered
    <2>2. x.n = i
      BY DEF Numbered
    <2> QED
      BY <2>1, <2>2
  <1>15. \A y \in AnswersTo[a] : y.n < x.n => y \in Range(Taken[a])
    <2> HIDE DEF x
    <2> QED
      BY <1>7, <1>14
  <1>16. AnswerIsTaken(a)
    <2> HIDE DEF x
    <2> QED
      BY <1>8, <1>9, <1>10, <1>12, <1>13, <1>15 DEF AnswerIsTaken
  <1> QED
    BY <1>16, AbstractSteps

\* The call ends in any other way.
LEMMA EndRefines ==
    ASSUME CallIInv, NEW a \in Apps, call[a] \in {"send", "wait"},
           NEW how \in {"error", "timeout", "cancelled"}, End(a, how)
    PROVE  Abstract!Next
  <1>1. /\ call' = [call EXCEPT ![a] = "done"] /\ outcome' = [outcome EXCEPT ![a] = how]
        /\ UNCHANGED <<answer, target>>
    BY DEF End, waiter, remote
  <1>2. /\ call'[a] = "done" /\ outcome'[a] = how
        /\ \A b \in Apps \ {a} : call'[b] = call[b] /\ outcome'[b] = outcome[b]
    BY <1>1, CallFacts
  <1>3. outcome[a] # "ok"
    BY DEF CallIInv, Waiters
  <1>4. UNCHANGED Taken
    BY <1>1, <1>2, <1>3 DEF Taken, Numbered
  <1>5. UNCHANGED AnswersTo
    BY <1>1 DEF AnswersTo, Answered, Numbered
  <1>6. Status' = [Status EXCEPT ![a] = "done"] /\ Status[a] = "open"
    BY <1>2 DEF Status
  <1> QED
    BY <1>1, <1>4, <1>5, <1>6, AbstractSteps DEF Ends

LEMMA AskRefines ==
    ASSUME CallIInv, NEW a \in Apps, Ask(a)
    PROVE  Abstract!Next
  <1>1. /\ call[a] = "idle" /\ call' = [call EXCEPT ![a] = "send"]
        /\ UNCHANGED <<outcome, answer, target>>
    BY DEF Ask, remote
  <1>2. call'[a] = "send" /\ \A b \in Apps \ {a} : call'[b] = call[b]
    BY <1>1, CallFacts
  <1>3. Status[a] = "idle" /\ Status' = [Status EXCEPT ![a] = "open"]
    BY <1>1, <1>2 DEF Status
  <1>4. UNCHANGED <<AnswersTo, Taken, outcome>>
    BY <1>1 DEF AnswersTo, Answered, Taken, Numbered
  <1> QED
    BY <1>3, <1>4, AbstractSteps

LEMMA NextRefines ==
    CallIInv /\ [CallsNext]_allVars => [Abstract!Next]_(Abstract!vars)
  <1> SUFFICES ASSUME CallIInv, [CallsNext]_allVars
               PROVE  Abstract!Next \/ UNCHANGED Abstract!vars
    OBVIOUS
  <1>1. CASE UNCHANGED <<client, waiter, remote>>
    <2>1. UNCHANGED <<call, outcome, answer, target>>
      BY <1>1 DEF client, waiter, remote
    <2>2. UNCHANGED Status
      BY <2>1 DEF Status
    <2> QED
      BY <2>1, <2>2, HiddenRefines
  <1>2. ASSUME NEW a \in Apps, DispatchJob(a) PROVE UNCHANGED Abstract!vars
    <2>1. UNCHANGED <<call, outcome, target>>
      BY <1>2 DEF DispatchJob, client, remote
    <2>2. \/ UNCHANGED answer
          \/ call[a] # "done" /\ \E m : answer' = [answer EXCEPT ![a] = <<m>>]
      BY <1>2 DEF DispatchJob, waiter
    <2>3. \A b \in Apps : call[b] = "done" => answer'[b] = answer[b]
      BY <2>2, CallFacts
    <2>4. UNCHANGED Status
      BY <2>1 DEF Status
    <2> QED
      BY <2>1, <2>3, <2>4, HiddenRefines
  <1>3. ASSUME NEW a \in Apps, SendRequest(a) PROVE UNCHANGED Abstract!vars
    <2>1. /\ call[a] = "send" /\ call' = [call EXCEPT ![a] = "wait"]
          /\ UNCHANGED <<outcome, answer, target>>
      BY <1>3 DEF SendRequest, waiter
    <2>2. call'[a] = "wait" /\ \A b \in Apps \ {a} : call'[b] = call[b]
      BY <2>1, CallFacts
    <2>3. UNCHANGED Status
      BY <2>1, <2>2 DEF Status
    <2> QED
      BY <2>1, <2>3, HiddenRefines
  <1>4. ASSUME NEW a \in Apps, Return(a) \/ GiveUp(a) \/ RequestFails(a) \/ Cancel(a)
        PROVE  Abstract!Next
    BY <1>4, ReturnRefines, EndRefines DEF Return, GiveUp, RequestFails, Cancel
  <1>5. ASSUME NEW a \in Apps, Step(a) /\ UNCHANGED calls
        PROVE  UNCHANGED <<client, waiter, remote>>
    BY <1>5 DEF calls
  <1>6. CASE OthersAsk
    BY <1>1, <1>6 DEF OthersAsk
  <1>7. CASE UNCHANGED allVars
    BY <1>1, <1>7 DEF allVars, calls
  <1> QED
    BY <1>1, <1>2, <1>3, <1>4, <1>5, <1>6, <1>7, AskRefines, SayRefines DEF CallsNext

\* A call through a coordinator is one of RequestReply: what job promises it
\* does not depend on whose filter the answer comes through (connection/mod.rs
\* lines 338-346, game_coordinator/mod.rs lines 170-212).
THEOREM ImplementsRequestReplyHolds == CallsSpec => ImplementsRequestReply
  BY InitRefines, NextRefines, InductiveCalls, PTL
     DEF CallsSpec, ImplementsRequestReply, Abstract!Spec
=============================================================================
