--------------------------- MODULE GameCoordinator ---------------------------
(***************************************************************************)
(* game_coordinator/mod.rs: one or more game coordinators over one         *)
(* connection.  The connection broadcasts every ClientFromGc message; the  *)
(* forwarding task of each coordinator unwraps them and hands them to its  *)
(* own MessageFilter through a channel, while init_raw repeats hello until *)
(* the welcome is there.                                                   *)
(*                                                                         *)
(* The dispatch task of a coordinator is a MessageFilter again, of which   *)
(* only the waiter for the welcome and what stops the task are kept.  What *)
(* a message carries is one of "welcome", "reply" (any other message),     *)
(* "garbled" (no ClientFromGc), "invalid" (RawNetMessage::read fails) or   *)
(* "short" (it fails with an IO error, the payload being cut off; a header *)
(* cut off may also panic in split_to, net.rs line 277, which ends the     *)
(* forwarding task and with it the channel: the filter stops as well).     *)
(***************************************************************************)
EXTENDS Integers, Sequences, FiniteSets

CONSTANTS
    Apps,              \* app ids, one coordinator each
    Carried,           \* what messages other than the welcome may carry
    BroadcastCapacity, \* 16: the broadcast channel of on()
    ChannelCapacity,   \* 10: the channel to the coordinator's filter
    MaxMessages        \* bound on messages other than welcomes

ASSUME CoordinatorAssumption ==
    /\ Carried \subseteq {"reply", "garbled", "invalid", "short"}
    /\ {BroadcastCapacity, ChannelCapacity} \subseteq Nat \ {0}
    /\ MaxMessages \in Nat

VARIABLES
    pc,       \* where init_raw of each app is
    waiting,  \* is its one_kind for the welcome registered?
    welcome,  \* the welcome it was given, a sequence of at most one message
    buffer,   \* what its forwarding task has not received yet
    lagged,   \* has the buffer been overrun since the task last received?
    held,     \* the message it is sending, a sequence of at most one
    channel,  \* the channel to its filter
    stopped,  \* has the dispatch task of its filter ended?
    received, \* the replies its filter dispatched
    hello,    \* has the server a hello of the app to answer?
    said,     \* all messages but welcomes, in the order they were sent
    since,    \* how many of them were sent before the app subscribed
    overrun   \* apps that lost a message to a full buffer, for the properties

handshake == <<pc, waiting, welcome>>
pipeline  == <<buffer, lagged, held, channel, stopped, received>>
server    == <<hello, said>>
ghosts    == <<since, overrun>>
vars      == <<handshake, pipeline, server, ghosts>>

Message == [app: Apps, carries: Carried \cup {"welcome"}, n: 0..MaxMessages]

Init ==
    /\ pc = [a \in Apps |-> "new"] /\ waiting = [a \in Apps |-> FALSE]
    /\ welcome = [a \in Apps |-> <<>>]
    /\ buffer = [a \in Apps |-> <<>>] /\ lagged = [a \in Apps |-> FALSE]
    /\ held = [a \in Apps |-> <<>>] /\ channel = [a \in Apps |-> <<>>]
    /\ stopped = [a \in Apps |-> FALSE] /\ received = [a \in Apps |-> <<>>]
    /\ hello = [a \in Apps |-> FALSE] /\ said = <<>>
    /\ since = [a \in Apps |-> 0] /\ overrun = {}

-----------------------------------------------------------------------------
(* init_raw *)

Goto(a, where) == pc' = [pc EXCEPT ![a] = where]

\* A new filter, connection.on(), and the forwarding task.
Start(a) ==
    /\ pc[a] = "new" /\ Goto(a, "play")
    /\ since' = [since EXCEPT ![a] = Len(said)]
    /\ UNCHANGED <<waiting, welcome, pipeline, server, overrun>>

\* CMsgClientGamesPlayed is sent; then the select polls wait_welcome first.
Played(a) ==
    /\ pc[a] = "play" /\ Goto(a, "select")
    /\ UNCHANGED <<waiting, welcome, pipeline, server, ghosts>>

WaitWelcome(a) ==
    /\ pc[a] = "select" /\ Goto(a, "hello")
    /\ waiting' = [waiting EXCEPT ![a] = TRUE]
    /\ UNCHANGED <<welcome, pipeline, server, ghosts>>

SendHelloOnce(a) ==                          \* for a mutant: no loop
    /\ pc[a] = "hello" /\ Goto(a, "sleep")
    /\ hello' = [hello EXCEPT ![a] = TRUE]
    /\ UNCHANGED <<waiting, welcome, pipeline, said, ghosts>>
\* The first hello, or the next one after five seconds.
SendHello(a) ==
    /\ pc[a] \in {"hello", "sleep"} /\ welcome[a] = <<>> /\ Goto(a, "sleep")
    /\ hello' = [hello EXCEPT ![a] = TRUE]
    /\ UNCHANGED <<waiting, welcome, pipeline, said, ghosts>>

SendFails(a) ==
    /\ pc[a] \in {"play", "hello", "sleep"} /\ welcome[a] = <<>> /\ Goto(a, "failed")
    /\ UNCHANGED <<waiting, welcome, pipeline, server, ghosts>>

Welcomed(a) ==
    /\ pc[a] \in {"hello", "sleep"} /\ welcome[a] # <<>> /\ Goto(a, "ready")
    /\ UNCHANGED <<waiting, welcome, pipeline, server, ghosts>>

-----------------------------------------------------------------------------
(* The forwarding task, which outlives its coordinator, and the filter. *)

\* Receiving the next message; an overrun receiver gets the lag error first,
\* and drops it like a message that is no ClientFromGc.
Forward(a) ==
    /\ held[a] = <<>> /\ lagged' = [lagged EXCEPT ![a] = FALSE]
    /\ IF lagged[a] THEN UNCHANGED <<buffer, held>>
       ELSE /\ buffer[a] # <<>> /\ buffer' = [buffer EXCEPT ![a] = Tail(@)]
            /\ held' = IF Head(buffer[a]).carries = "garbled" THEN held
                       ELSE [held EXCEPT ![a] = <<Head(buffer[a])>>]
    /\ UNCHANGED <<handshake, channel, stopped, received, server, ghosts>>

HandOrDrop(a) ==                             \* for a mutant: try_send
    /\ held[a] # <<>> /\ held' = [held EXCEPT ![a] = <<>>]
    /\ channel' = IF stopped[a] \/ Len(channel[a]) = ChannelCapacity THEN channel
                  ELSE [channel EXCEPT ![a] = @ \o held[a]]
    /\ UNCHANGED <<handshake, buffer, lagged, stopped, received, server, ghosts>>
\* tx.send().await.ok() waits for room; without a receiver it does nothing.
Hand(a) ==
    /\ held[a] # <<>> /\ held' = [held EXCEPT ![a] = <<>>]
    /\ stopped[a] \/ Len(channel[a]) < ChannelCapacity
    /\ channel' = IF stopped[a] THEN channel
                  ELSE [channel EXCEPT ![a] = @ \o held[a]]
    /\ UNCHANGED <<handshake, buffer, lagged, stopped, received, server, ghosts>>

\* One turn of the filter's task.  An IO error ends it, and the channel with
\* it; another error is skipped; a welcome nobody waits for is unhandled.
Dispatch(a) ==
    /\ ~stopped[a] /\ channel[a] # <<>>
    /\ LET m == Head(channel[a])
       IN  /\ stopped' = [stopped EXCEPT ![a] = m.carries = "short"]
           /\ channel' = [channel EXCEPT ![a] =
                            IF m.carries = "short" THEN <<>> ELSE Tail(@)]
           /\ received' = IF m.carries = "reply"
                          THEN [received EXCEPT ![a] = Append(@, m)] ELSE received
           /\ IF m.carries = "welcome" /\ waiting[a]
              THEN /\ waiting' = [waiting EXCEPT ![a] = FALSE]
                   /\ welcome' = [welcome EXCEPT ![a] = <<m>>]
              ELSE UNCHANGED <<waiting, welcome>>
    /\ UNCHANGED <<pc, buffer, lagged, held, server, ghosts>>

-----------------------------------------------------------------------------
(* The connection's filter publishes what the server sends, to every       *)
(* subscriber: nothing looks at the app id.                                *)

Subscribed == {a \in Apps : pc[a] # "new"}

PublishUnbounded(m) ==                       \* for a mutant: unbounded buffer
    /\ buffer' = [a \in Apps |-> IF a \in Subscribed THEN Append(buffer[a], m)
                                 ELSE buffer[a]]
    /\ UNCHANGED <<lagged, overrun>>
Publish(m) ==
    LET full == {a \in Subscribed : Len(buffer[a]) = BroadcastCapacity}
    IN  /\ buffer' = [a \in Apps |->
                        CASE a \in full -> Append(Tail(buffer[a]), m)
                          [] a \in Subscribed \ full -> Append(buffer[a], m)
                          [] OTHER -> buffer[a]]
        /\ lagged' = [a \in Apps |-> lagged[a] \/ a \in full]
        /\ overrun' = overrun \cup full

Welcome(a) ==
    /\ hello[a] /\ hello' = [hello EXCEPT ![a] = FALSE]
    /\ Publish([app |-> a, carries |-> "welcome", n |-> 0])
    /\ UNCHANGED <<handshake, held, channel, stopped, received, said, since>>

\* A coordinator that is not up yet.
Ignore(a) ==
    /\ hello[a] /\ hello' = [hello EXCEPT ![a] = FALSE]
    /\ UNCHANGED <<handshake, pipeline, said, ghosts>>

Say(a, what) ==
    /\ pc[a] \notin {"new", "play"} /\ Len(said) < MaxMessages
    /\ LET m == [app |-> a, carries |-> what, n |-> Len(said) + 1]
       IN  Publish(m) /\ said' = Append(said, m)
    /\ UNCHANGED <<handshake, held, channel, stopped, received, hello, since>>

\* Every step but Dispatch and Say.
Step(a) ==
    \/ Start(a)
    \/ Played(a)
    \/ WaitWelcome(a)
    \/ SendHello(a)
    \/ SendFails(a)
    \/ Welcomed(a)
    \/ Forward(a)
    \/ Hand(a)
    \/ Welcome(a)
    \/ Ignore(a)

Next == \E a \in Apps :
    \/ Step(a)
    \/ Dispatch(a)
    \/ \E what \in Carried : Say(a, what)

\* The runtime polls init_raw, its timer and both tasks; the forwarding task
\* receives again after a lag error long before hellos five seconds apart can
\* overrun its buffer again, and again.  A server may leave a hello
\* unanswered, but not every one for ever.
Fairness == \A a \in Apps :
    /\ WF_vars(WaitWelcome(a) \/ Welcomed(a)) /\ WF_vars(SendHello(a))
    /\ WF_vars(Forward(a)) /\ WF_vars(Hand(a)) /\ WF_vars(Dispatch(a))
    /\ SF_vars(~lagged[a] /\ Forward(a)) /\ SF_vars(Welcome(a))

Spec == Init /\ [][Next]_vars /\ Fairness

-----------------------------------------------------------------------------
(* Properties. *)

\* Every variable has its type.
TypeOK ==
    /\ pc \in [Apps -> {"new", "play", "select", "hello", "sleep", "ready", "failed"}]
    /\ waiting \in [Apps -> BOOLEAN] /\ hello \in [Apps -> BOOLEAN]
    /\ lagged \in [Apps -> BOOLEAN] /\ stopped \in [Apps -> BOOLEAN]
    /\ {welcome, buffer, held, channel, received} \subseteq [Apps -> Seq(Message)]
    /\ said \in Seq(Message) /\ Len(said) <= MaxMessages
    /\ since \in [Apps -> 0..MaxMessages] /\ overrun \subseteq Apps
    /\ \A a \in Apps :
         /\ Len(buffer[a]) <= BroadcastCapacity
         /\ Len(channel[a]) <= ChannelCapacity
         /\ Len(held[a]) <= 1 /\ Len(welcome[a]) <= 1

\* What is between the connection and the filter of a, oldest first, behind
\* what the filter has dispatched; and where in a sequence the replies are.
Pipe(a) == received[a] \o channel[a] \o held[a] \o buffer[a]
Replies(messages) == {i \in DOMAIN messages : messages[i].carries = "reply"}

\* Between the connection and the filter of a coordinator no message is lost,
\* doubled or overtaken, unless a buffer was overrun or the filter's task has
\* ended: a full channel holds the forwarding task up (mod.rs lines 94-105).
RepliesArriveInOrder ==
    \A a \in Apps : a \notin overrun /\ ~stopped[a] /\ pc[a] # "new" =>
        /\ \A i, j \in Replies(Pipe(a)) : i < j => Pipe(a)[i].n < Pipe(a)[j].n
        /\ {Pipe(a)[i] : i \in Replies(Pipe(a))}
             = {said[n] : n \in {n \in Replies(said) : n > since[a]}}

\* Once hello is being sent init_raw ends, although the coordinator may leave
\* any number of hellos unanswered and messages may overrun the welcome, unless
\* the dispatch task it waits for has ended (mod.rs lines 128-143).
HandshakeEnds ==
    \A a \in Apps : pc[a] = "select" ~> pc[a] \in {"ready", "failed"} \/ stopped[a]

\* handshake.rs line 34: "The welcome message a game-coordinator sends after
\* a successful handshake".
OwnWelcome ==
    \A a \in Apps : pc[a] = "ready" => welcome[a][1].app = a
=============================================================================
