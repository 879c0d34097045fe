--------------------------- MODULE MessageFilter ---------------------------
(***************************************************************************)
(* connection/filter.rs: the task that reads the transport and hands each  *)
(* message to the first filter that wants it, and the operations by which  *)
(* the calls of a connection register and drop those filters.              *)
(*                                                                         *)
(* A message is its number in the incoming stream and what the dispatch    *)
(* looks at: the target job id, the kind, and the name a ServiceMethod     *)
(* message decodes to (Unreadable when into_message fails).                *)
(***************************************************************************)
EXTENDS Integers, Sequences, Functions

CONSTANTS
    JobIds, NONE,              \* job ids, and the "no job" value of a header
    Kinds, KEMsgServiceMethod, \* message kinds, one of them special
    JobNames, Unreadable,      \* notification names
    Receivers,                 \* receiving halves a client may hold
    MultiCapacity,             \* 16: mpsc::channel of on_job_id_multi
    BroadcastCapacity,         \* 16: broadcast::channel of on_kind
    RestCapacity,              \* 32: RingBuffer of unhandled messages
    Shard,                     \* the DashMap shard a job id hashes to
    MaxMessages                \* bound on the stream, for TLC

ASSUME FilterAssumption ==
    /\ NONE \notin JobIds
    /\ KEMsgServiceMethod \in Kinds
    /\ Unreadable \notin JobNames
    /\ {MultiCapacity, BroadcastCapacity, RestCapacity} \subseteq Nat \ {0}
    /\ MaxMessages \in Nat
    /\ DOMAIN Shard = JobIds

Message ==
    {m \in [seq: 1..MaxMessages, target: JobIds \cup {NONE}, kind: Kinds,
            job_name: JobNames \cup {Unreadable}] :
        m.kind # KEMsgServiceMethod => m.job_name = Unreadable}

NoMessage == [seq |-> 0, target |-> NONE, kind |-> KEMsgServiceMethod,
              job_name |-> Unreadable]

VARIABLES
    read,      \* items taken from the transport
    stage,     \* the lookup the task is at; "sending": in tx.send().await
    message,   \* the message being dispatched
    job_id_filters, job_id_multi_filters, oneshot_kind_filters,
               \* DashMaps from a key to the receiver of the sender it holds
    notification_filters, kind_filters,
               \* DashMaps from a key to the subscribers of its channel
    rest,      \* the RingBuffer
    handle,    \* what each receiver is
    inbox,     \* sent to a receiver, not yet received
    lagged     \* broadcast receivers that were overrun

task    == <<read, stage, message>>
oneshot == <<job_id_filters, oneshot_kind_filters>>
topics  == <<notification_filters, kind_filters>>
clients == <<handle, inbox, lagged>>
filterVars == <<task, oneshot, job_id_multi_filters, topics, rest, clients>>

\* DashMap::insert and DashMap::remove
Insert(map, key, value) ==
    [k \in DOMAIN map \cup {key} |-> IF k = key THEN value ELSE map[k]]
Remove(map, key) == Restrict(map, DOMAIN map \ {key})

\* A bounded queue that forgets its oldest item: RingBuffer::push, and the
\* buffer of a broadcast channel as each of its receivers sees it.
RingPushFront(queue, capacity, item) ==      \* for a mutant
    <<item>> \o (IF Len(queue) = capacity THEN Tail(queue) ELSE queue)
RingDropNew(queue, capacity, item) ==        \* for a mutant
    IF Len(queue) = capacity THEN queue ELSE Append(queue, item)
RingPush(queue, capacity, item) ==
    Append(IF Len(queue) = capacity THEN Tail(queue) ELSE queue, item)

FilterInit ==
    /\ read = 0 /\ stage = "next" /\ message = NoMessage
    /\ job_id_filters = <<>> /\ job_id_multi_filters = <<>>
    /\ oneshot_kind_filters = <<>>
    /\ notification_filters = <<>> /\ kind_filters = <<>>
    /\ rest = <<>>
    /\ handle = [r \in Receivers |-> "unused"]
    /\ inbox = [r \in Receivers |-> <<>>] /\ lagged = {}

-----------------------------------------------------------------------------
(* The task. *)

EndDispatchKeep ==                           \* for a mutant: message kept
    stage' = "next" /\ UNCHANGED <<read, message>>
EndDispatch == stage' = "next" /\ message' = NoMessage /\ UNCHANGED read
Consult(next) == stage' = next /\ UNCHANGED <<read, message>>

\* tx.send(message).ok(): a dropped receiver makes it a no-op
Give(r) ==
    inbox' = IF handle[r] = "dropped" THEN inbox
             ELSE [inbox EXCEPT ![r] = Append(@, message)]

Publish(subscribers) ==
    LET live == {r \in subscribers : handle[r] # "dropped"}
    IN  /\ inbox' = [r \in Receivers |->
                       IF r \in live
                       THEN RingPush(inbox[r], BroadcastCapacity, message)
                       ELSE inbox[r]]
        /\ lagged' = lagged \cup
                       {r \in live : Len(inbox[r]) = BroadcastCapacity}
        /\ UNCHANGED handle

\* source.next() yields a message, an undecodable one (logged and skipped),
\* or the end: end of stream or an error of class Ws, IO or EOF.
Read(m) ==
    /\ stage = "next" /\ m.seq = read + 1
    /\ read' = m.seq /\ message' = m /\ stage' = "job_id"
    /\ UNCHANGED <<oneshot, job_id_multi_filters, topics, rest, clients>>

Skip ==
    /\ stage = "next" /\ read < MaxMessages /\ read' = read + 1
    /\ UNCHANGED <<stage, message, oneshot, job_id_multi_filters, topics, rest,
                   clients>>

\* The stream ends, or yields an error that stands for its end; or reading an
\* item panics, which ends the task likewise.
Stop ==
    /\ stage = "next" /\ stage' = "stopped"
    /\ UNCHANGED <<read, message, oneshot, job_id_multi_filters, topics, rest,
                   clients>>

ByJobIdKeep ==                               \* for a mutant: get, not remove
    /\ stage = "job_id"
    /\ IF message.target \in DOMAIN job_id_filters
       THEN Give(job_id_filters[message.target]) /\ EndDispatch
       ELSE Consult("job_id_multi") /\ UNCHANGED inbox
    /\ UNCHANGED <<oneshot, job_id_multi_filters, topics, rest, handle, lagged>>

ByJobId ==
    /\ stage = "job_id"
    /\ IF message.target \in DOMAIN job_id_filters
       THEN /\ job_id_filters' = Remove(job_id_filters, message.target)
            /\ Give(job_id_filters[message.target])
            /\ EndDispatch
       ELSE /\ Consult("job_id_multi")
            /\ UNCHANGED <<job_id_filters, inbox>>
    /\ UNCHANGED <<job_id_multi_filters, oneshot_kind_filters, topics, rest,
                   handle, lagged>>

\* Found: the task keeps the read guard of the shard until the send is over.
ByJobIdMulti ==
    /\ stage = "job_id_multi"
    /\ Consult(IF message.target \in DOMAIN job_id_multi_filters
               THEN "sending" ELSE "oneshot_kind")
    /\ UNCHANGED <<oneshot, job_id_multi_filters, topics, rest, clients>>

Guarded(id) == stage = "sending" /\ Shard[id] = Shard[message.target]

SendMultiIgnoringDrop ==                     \* for a mutant
    LET r == job_id_multi_filters[message.target]
    IN  /\ stage = "sending" /\ Len(inbox[r]) < MultiCapacity
        /\ handle[r] # "dropped"
        /\ Give(r) /\ EndDispatch
        /\ UNCHANGED <<oneshot, job_id_multi_filters, topics, rest, handle,
                       lagged>>
SendMultiTry ==                              \* for a mutant: try_send
    LET r == job_id_multi_filters[message.target]
    IN  /\ stage = "sending" /\ EndDispatch
        /\ IF Len(inbox[r]) < MultiCapacity THEN Give(r) ELSE UNCHANGED inbox
        /\ UNCHANGED <<oneshot, job_id_multi_filters, topics, rest, handle,
                       lagged>>
SendMultiOnce ==                             \* for a mutant: remove, not get
    LET r == job_id_multi_filters[message.target]
    IN  /\ stage = "sending" /\ Len(inbox[r]) < MultiCapacity
        /\ Give(r) /\ EndDispatch
        /\ job_id_multi_filters' = Remove(job_id_multi_filters, message.target)
        /\ UNCHANGED <<oneshot, topics, rest, handle, lagged>>
\* The await ends when the channel has room, or its receiver is dropped.
SendMulti ==
    LET r == job_id_multi_filters[message.target]
    IN  /\ stage = "sending"
        /\ handle[r] = "dropped" \/ Len(inbox[r]) < MultiCapacity
        /\ Give(r) /\ EndDispatch
        /\ UNCHANGED <<oneshot, job_id_multi_filters, topics, rest, handle,
                       lagged>>

ByOneshotKindFallThrough ==                  \* for a mutant
    /\ stage = "oneshot_kind" /\ Consult("broadcast")
    /\ IF message.kind \in DOMAIN oneshot_kind_filters
       THEN /\ oneshot_kind_filters' = Remove(oneshot_kind_filters, message.kind)
            /\ Give(oneshot_kind_filters[message.kind])
       ELSE UNCHANGED <<oneshot_kind_filters, inbox>>
    /\ UNCHANGED <<job_id_filters, job_id_multi_filters, topics, rest, handle,
                   lagged>>

ByOneshotKind ==
    /\ stage = "oneshot_kind"
    /\ IF message.kind \in DOMAIN oneshot_kind_filters
       THEN /\ oneshot_kind_filters' = Remove(oneshot_kind_filters, message.kind)
            /\ Give(oneshot_kind_filters[message.kind])
            /\ EndDispatch
       ELSE /\ Consult("broadcast")
            /\ UNCHANGED <<oneshot_kind_filters, inbox>>
    /\ UNCHANGED <<job_id_filters, job_id_multi_filters, topics, rest, handle,
                   lagged>>

\* A ServiceMethod message ends here, wanted or not.
ByNotification ==
    /\ stage = "broadcast" /\ message.kind = KEMsgServiceMethod
    /\ IF message.job_name \in DOMAIN notification_filters
       THEN Publish(notification_filters[message.job_name])
       ELSE UNCHANGED clients
    /\ EndDispatch
    /\ UNCHANGED <<oneshot, job_id_multi_filters, topics, rest>>

ByKind ==
    /\ stage = "broadcast" /\ message.kind # KEMsgServiceMethod
    /\ IF message.kind \in DOMAIN kind_filters
       THEN Publish(kind_filters[message.kind]) /\ EndDispatch
       ELSE Consult("rest") /\ UNCHANGED clients
    /\ UNCHANGED <<oneshot, job_id_multi_filters, topics, rest>>

KeepRest ==
    /\ stage = "rest" /\ rest' = RingPush(rest, RestCapacity, message)
    /\ EndDispatch
    /\ UNCHANGED <<oneshot, job_id_multi_filters, topics, clients>>

Dispatch == \/ ByJobId \/ ByJobIdMulti \/ SendMulti \/ ByOneshotKind
            \/ ByNotification \/ ByKind \/ KeepRest

-----------------------------------------------------------------------------
(* The clients.  An insert drops the sender it replaces.  Writing to the    *)
(* shard of job_id_multi_filters the task has guarded waits for the task.   *)

Open(r, flavour) ==
    /\ handle[r] = "unused"
    /\ handle' = [handle EXCEPT ![r] = flavour] /\ UNCHANGED <<inbox, lagged>>

OnJobId(r, id) ==
    /\ Open(r, "oneshot")
    /\ job_id_filters' = Insert(job_id_filters, id, r)
    /\ UNCHANGED <<task, job_id_multi_filters, oneshot_kind_filters, topics, rest>>

OnJobIdMulti(r, id) ==
    /\ ~Guarded(id) /\ Open(r, "mpsc")
    /\ job_id_multi_filters' = Insert(job_id_multi_filters, id, r)
    /\ UNCHANGED <<task, oneshot, topics, rest>>

CompleteUnguarded(id) ==                     \* for a mutant
    /\ job_id_multi_filters' = Remove(job_id_multi_filters, id)
    /\ UNCHANGED <<task, oneshot, topics, rest, clients>>
CompleteJobIdMulti(id) ==
    /\ ~Guarded(id)
    /\ job_id_multi_filters' = Remove(job_id_multi_filters, id)
    /\ UNCHANGED <<task, oneshot, topics, rest, clients>>

\* entry(key).or_insert_with(channel) and subscribe()
Subscribe(map, key, r) ==
    Insert(map, key, {r} \cup (IF key \in DOMAIN map THEN map[key] ELSE {}))

OnNotification(r, name) ==
    /\ Open(r, "broadcast")
    /\ notification_filters' = Subscribe(notification_filters, name, r)
    /\ UNCHANGED <<task, oneshot, job_id_multi_filters, kind_filters, rest>>

OnKind(r, kind) ==
    /\ Open(r, "broadcast")
    /\ kind_filters' = Subscribe(kind_filters, kind, r)
    /\ UNCHANGED <<task, oneshot, job_id_multi_filters, notification_filters, rest>>

OneKind(r, kind) ==
    /\ Open(r, "oneshot")
    /\ oneshot_kind_filters' = Insert(oneshot_kind_filters, kind, r)
    /\ UNCHANGED <<task, job_id_filters, job_id_multi_filters, topics, rest>>

Unprocessed ==
    /\ rest # <<>> /\ rest' = <<>>
    /\ UNCHANGED <<task, oneshot, job_id_multi_filters, topics, clients>>

Live(r) == handle[r] \notin {"unused", "dropped"}

\* The sender of a point-to-point channel is gone without a message left.
Closed(r) ==
    /\ handle[r] \in {"oneshot", "mpsc"} /\ inbox[r] = <<>>
    /\ r \notin Range(job_id_filters) \cup Range(oneshot_kind_filters)
                  \cup Range(job_id_multi_filters)

Drop(r) ==
    /\ Live(r)
    /\ handle' = [handle EXCEPT ![r] = "dropped"]
    /\ inbox' = [inbox EXCEPT ![r] = <<>>]
    /\ lagged' = lagged \ {r}
    /\ UNCHANGED <<task, oneshot, job_id_multi_filters, topics, rest>>

\* One recv(): the next message, or first the lag error of a broadcast
\* receiver that was overrun.  A oneshot ends with its message.
Recv(r) ==
    /\ Live(r) /\ inbox[r] # <<>>
    /\ IF r \in lagged
       THEN lagged' = lagged \ {r} /\ UNCHANGED <<handle, inbox>>
       ELSE /\ inbox' = [inbox EXCEPT ![r] = Tail(@)]
            /\ handle' = IF handle[r] = "oneshot"
                         THEN [handle EXCEPT ![r] = "dropped"] ELSE handle
            /\ UNCHANGED lagged
    /\ UNCHANGED <<task, oneshot, job_id_multi_filters, topics, rest>>

-----------------------------------------------------------------------------
\* Every registration draws a new job id; relogin restarts the counter, when
\* no older job is left.
Unregistered == JobIds \ (DOMAIN job_id_filters \cup DOMAIN job_id_multi_filters)

FilterNext ==
    \/ \E m \in Message : Read(m)
    \/ Skip
    \/ Stop
    \/ ByJobId
    \/ ByJobIdMulti
    \/ SendMulti
    \/ ByOneshotKind
    \/ ByNotification
    \/ ByKind
    \/ KeepRest
    \/ Unprocessed
    \/ \E r \in Receivers :
         \/ \E id \in Unregistered : OnJobId(r, id)
         \/ \E id \in Unregistered : OnJobIdMulti(r, id)
         \/ \E name \in JobNames : OnNotification(r, name)
         \/ \E kind \in Kinds : OnKind(r, kind)
         \/ \E kind \in Kinds : OneKind(r, kind)
         \/ Drop(r)
         \/ Recv(r)
    \/ \E id \in JobIds : CompleteJobIdMulti(id)

FilterSpec == FilterInit /\ [][FilterNext]_filterVars

\* The runtime polls the task; a client that holds a receiver goes on
\* polling it, or drops it.
FilterFairness ==
    /\ WF_filterVars(Dispatch)
    /\ \A r \in Receivers : WF_filterVars(Recv(r))

FairFilterSpec == FilterSpec /\ FilterFairness

-----------------------------------------------------------------------------
(* Properties. *)

Queue == Seq(Message)
Flavour == {"unused", "oneshot", "mpsc", "broadcast", "dropped"}
IsMap(map, K, V) == DOMAIN map \subseteq K /\ map \in [DOMAIN map -> V]

\* Every variable has its type.
TypeOK ==
    /\ read \in 0..MaxMessages
    /\ stage \in {"next", "job_id", "job_id_multi", "sending", "oneshot_kind",
                  "broadcast", "rest", "stopped"}
    /\ message \in Message \cup {NoMessage}
    /\ message = NoMessage <=> stage \in {"next", "stopped"}
    /\ IsMap(job_id_filters, JobIds, Receivers)
    /\ IsMap(job_id_multi_filters, JobIds, Receivers)
    /\ IsMap(oneshot_kind_filters, Kinds, Receivers)
    /\ IsMap(notification_filters, JobNames, SUBSET Receivers)
    /\ IsMap(kind_filters, Kinds, SUBSET Receivers)
    /\ rest \in Queue
    /\ handle \in [Receivers -> Flavour]
    /\ inbox \in [Receivers -> Queue]
    /\ lagged \in SUBSET Receivers

\* No buffer outgrows its capacity: an mpsc send waits for a permit, the
\* broadcast buffers and the ring of unhandled messages forget (filter.rs
\* lines 25-36, 92).
Bounded ==
    /\ Len(rest) <= RestCapacity
    /\ \A r \in Receivers :
         Len(inbox[r]) <= CASE handle[r] = "mpsc" -> MultiCapacity
                            [] handle[r] = "broadcast" -> BroadcastCapacity
                            [] OTHER -> 1

\* A oneshot sender that is still in a map was never used, and a waiter gets
\* one message at most, whatever the order of dispatch and registrations
\* (filter.rs lines 84-87 and 93-96 remove the entry they use).
OneAnswer ==
    \A r \in Range(job_id_filters) \cup Range(oneshot_kind_filters) :
        inbox[r] = <<>>

Increasing(queue) == \A i, j \in DOMAIN queue : i < j => queue[i].seq < queue[j].seq

\* Every receiver, and the buffer of unhandled messages, sees messages in the
\* order the transport delivered them: the single task never reorders.
InOrder ==
    /\ Increasing(rest) /\ \A r \in Receivers : Increasing(inbox[r])
    /\ message # NoMessage =>
         \A queue \in {rest} \cup {inbox[r] : r \in Receivers} :
             \A i \in DOMAIN queue : queue[i].seq <= message.seq

\* A message has one consumer: it is shared by two receivers only if both
\* listen to a broadcast, and it is never both handled and "unprocessed"
\* (the else-if chain of filter.rs lines 84-116).
Exclusive ==
    \A r \in Receivers :
        /\ Range(inbox[r]) \cap Range(rest) = {}
        /\ \A s \in Receivers \ {r} :
             Range(inbox[r]) \cap Range(inbox[s]) # {} =>
                 handle[r] = "broadcast" /\ handle[s] = "broadcast"

\* While the task waits for room in a job_multi channel, the entry it borrowed
\* stays in the map (the guard of filter.rs lines 88-92): it never sends
\* through an entry that complete_job_id_multi took away.
BorrowedEntryStays ==
    stage = "sending" => message.target \in DOMAIN job_id_multi_filters

\* The receivers of the entries that match m.
Matching(m) ==
    {r \in Receivers :
       \/ <<m.target, r>> \in {<<k, job_id_filters[k]>> : k \in DOMAIN job_id_filters}
       \/ <<m.target, r>> \in {<<k, job_id_multi_filters[k]>> :
                                  k \in DOMAIN job_id_multi_filters}
       \/ <<m.kind, r>> \in {<<k, oneshot_kind_filters[k]>> :
                                k \in DOMAIN oneshot_kind_filters}
       \/ m.kind \in DOMAIN kind_filters /\ r \in kind_filters[m.kind]}

Listens(r, name) ==
    /\ name \in DOMAIN notification_filters /\ r \in notification_filters[name]
    /\ handle[r] = "broadcast"

DispatchEnds == message # NoMessage /\ message' = NoMessage

\* What became of a message whose dispatch ends.
Accounted ==
    DispatchEnds =>
      \/ \E r \in Receivers : message \in Range(inbox'[r])
      \/ message \in Range(rest')
      \/ /\ stage = "broadcast" /\ message.kind = KEMsgServiceMethod
         /\ \A r \in Receivers : ~Listens(r, message.job_name)
      \/ \E r \in Matching(message) : handle[r] = "dropped"

\* No message vanishes: when its dispatch ends, a receiver or the buffer of
\* unhandled messages has it, or a filter wanted it whose receiver had been
\* dropped, or no call wanted it and it was a ServiceMethod message nobody
\* listens for (filter.rs lines 84-116).
NoMessageVanishes == [][Accounted]_filterVars

\* The task gets through every message: no client that goes on polling its
\* receivers, or drops them, stops it (filter.rs lines 80-129).
DispatchCompletes == (message # NoMessage) ~> (message = NoMessage)
=============================================================================
