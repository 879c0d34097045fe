------------------------ MODULE MessageFilterProofs ------------------------
(* Theorems about MessageFilter, for every value of its constants. *)
EXTENDS MessageFilter, SequenceTheorems, TLAPS

\* DashMap::insert adds or replaces one entry.
LEMMA InsertMap ==
    ASSUME NEW K, NEW V, NEW map, IsMap(map, K, V), NEW key \in K, NEW value \in V
    PROVE  IsMap(Insert(map, key, value), K, V)
  BY DEF IsMap, Insert

\* DashMap::remove takes one entry away.
LEMMA RemoveMap ==
    ASSUME NEW K, NEW V, NEW map, IsMap(map, K, V), NEW key
    PROVE  IsMap(Remove(map, key), K, V)
  BY DEF IsMap, Remove, Restrict

\* What a map holds.
LEMMA LookupMap ==
    ASSUME NEW K, NEW V, NEW map, IsMap(map, K, V)
    PROVE  \A k \in DOMAIN map : k \in K /\ map[k] \in V
  BY DEF IsMap

\* What the dispatch looks at in a message; no message is NoMessage.
LEMMA MessageFacts ==
    /\ NoMessage \notin Message
    /\ \A m \in Message : /\ m.seq \in 1..MaxMessages /\ m.kind \in Kinds
                          /\ m.target \in JobIds \cup {NONE}
                          /\ m.job_name \in JobNames \cup {Unreadable}
  BY DEF Message, NoMessage

\* A queue is empty when its length is 0.
LEMMA EmptyQueue == \A queue \in Queue : /\ Len(queue) \in Nat
                                          /\ queue = <<>> <=> Len(queue) = 0
  BY EmptySeq DEF Queue

\* A ring never outgrows its capacity, nor holds anything but messages.
LEMMA RingPushFacts ==
    ASSUME NEW queue \in Queue, NEW capacity \in Nat \ {0}, NEW m \in Message,
           Len(queue) <= capacity
    PROVE  /\ RingPush(queue, capacity, m) \in Queue
           /\ Len(RingPush(queue, capacity, m)) <= capacity
  <1>1. CASE Len(queue) = capacity
    <2>1. queue # <<>>
      BY <1>1
    <2>2. Tail(queue) \in Queue /\ Len(Tail(queue)) = capacity - 1
      BY <1>1, <2>1 DEF Queue
    <2> QED
      BY <1>1, <2>2 DEF RingPush, Queue
  <1>2. CASE Len(queue) # capacity
    BY <1>2 DEF RingPush, Queue
  <1> QED
    BY <1>1, <1>2
-----------------------------------------------------------------------------
(* The inductive invariant. *)

Bounds ==
    /\ Len(rest) <= RestCapacity
    /\ \A r \in Receivers :
         /\ handle[r] \in {"unused", "dropped"} => inbox[r] = <<>>
         /\ handle[r] = "oneshot" => Len(inbox[r]) <= 1
         /\ handle[r] = "mpsc" => Len(inbox[r]) <= MultiCapacity
         /\ handle[r] = "broadcast" => Len(inbox[r]) <= BroadcastCapacity

\* A map holds receivers of its own flavour, or what is left of them.
Flavours ==
    /\ \A k \in DOMAIN job_id_filters :
         handle[job_id_filters[k]] \in {"oneshot", "dropped"}
    /\ \A k \in DOMAIN oneshot_kind_filters :
         handle[oneshot_kind_filters[k]] \in {"oneshot", "dropped"}
    /\ \A k \in DOMAIN job_id_multi_filters :
         handle[job_id_multi_filters[k]] \in {"mpsc", "dropped"}
    /\ \A k \in DOMAIN notification_filters :
         \A r \in notification_filters[k] : handle[r] \in {"broadcast", "dropped"}
    /\ \A k \in DOMAIN kind_filters :
         \A r \in kind_filters[k] : handle[r] \in {"broadcast", "dropped"}

\* A oneshot sender is held under one key of one map, and was never used.
Unused ==
    /\ \A j, k \in DOMAIN job_id_filters :
         job_id_filters[j] = job_id_filters[k] => j = k
    /\ \A j, k \in DOMAIN oneshot_kind_filters :
         oneshot_kind_filters[j] = oneshot_kind_filters[k] => j = k
    /\ \A j \in DOMAIN job_id_filters, k \in DOMAIN oneshot_kind_filters :
         job_id_filters[j] # oneshot_kind_filters[k]
    /\ \A k \in DOMAIN job_id_filters : inbox[job_id_filters[k]] = <<>>
    /\ \A k \in DOMAIN oneshot_kind_filters :
         inbox[oneshot_kind_filters[k]] = <<>>

IInv == TypeOK /\ Bounds /\ Flavours /\ Unused /\ BorrowedEntryStays
-----------------------------------------------------------------------------
\* The initial state satisfies the inductive invariant.
LEMMA InitIInv == FilterInit => IInv
  <1> SUFFICES ASSUME FilterInit PROVE IInv
    OBVIOUS
  <1>1. \A K, V : IsMap(<<>>, K, V)
    BY DEF IsMap
  <1>2. TypeOK
    BY <1>1, FilterAssumption
       DEF FilterInit, TypeOK, Queue, Flavour, Message, NoMessage
  <1>3. Bounds /\ Flavours /\ Unused /\ BorrowedEntryStays
    BY FilterAssumption
       DEF FilterInit, Bounds, Flavours, Unused, BorrowedEntryStays
  <1> QED
    BY <1>2, <1>3 DEF IInv

\* source.next() touches no filter.
LEMMA SourceIInv == IInv /\ ((\E m \in Message : Read(m)) \/ Skip \/ Stop) => IInv'
  <1> SUFFICES ASSUME IInv, (\E m \in Message : Read(m)) \/ Skip \/ Stop
               PROVE  IInv'
    OBVIOUS
  <1> USE DEF IInv
  <1>1. UNCHANGED <<oneshot, job_id_multi_filters, topics, rest, clients>>
    BY DEF Read, Skip, Stop
  <1>2. /\ read' \in 0..MaxMessages
        /\ message' \in Message \cup {NoMessage}
        /\ message' = NoMessage <=> stage' \in {"next", "stopped"}
        /\ stage' \in {"next", "job_id", "stopped"}
    BY MessageFacts, FilterAssumption DEF TypeOK, Read, Skip, Stop
  <1>3. TypeOK'
    BY <1>1, <1>2 DEF TypeOK, oneshot, topics, clients
  <1>4. (Bounds /\ Flavours /\ Unused)'
    BY <1>1 DEF Bounds, Flavours, Unused, oneshot, topics, clients
  <1>5. BorrowedEntryStays'
    BY <1>2 DEF BorrowedEntryStays
  <1> QED
    BY <1>3, <1>4, <1>5

\* A dispatch that moves on to the next map leaves everything else alone.
LEMMA ConsultIInv ==
    ASSUME IInv, message # NoMessage,
           NEW next \in {"job_id", "job_id_multi", "oneshot_kind", "broadcast", "rest"},
           Consult(next),
           UNCHANGED <<oneshot, job_id_multi_filters, topics, rest, clients>>
    PROVE  IInv'
  <1> USE DEF IInv
  <1>1. TypeOK'
    BY DEF TypeOK, Consult, oneshot, topics, clients
  <1>2. (Bounds /\ Flavours /\ Unused)'
    BY DEF Bounds, Flavours, Unused, oneshot, topics, clients
  <1>3. BorrowedEntryStays'
    BY DEF Consult, BorrowedEntryStays
  <1> QED
    BY <1>1, <1>2, <1>3

\* A oneshot sender is taken out of its map and used.
LEMMA ByJobIdIInv == IInv /\ ByJobId => IInv'
  <1> SUFFICES ASSUME IInv, ByJobId PROVE IInv'
    OBVIOUS
  <1> USE DEF IInv
  <1>1. message \in Message /\ message # NoMessage
    BY MessageFacts DEF TypeOK, ByJobId
  <1>2. CASE message.target \notin DOMAIN job_id_filters
    BY <1>1, <1>2, ConsultIInv DEF ByJobId, oneshot, clients
  <1>3. CASE message.target \in DOMAIN job_id_filters
    <2> DEFINE r == job_id_filters[message.target]
    <2>1. /\ job_id_filters' = Remove(job_id_filters, message.target)
          /\ Give(r) /\ EndDispatch
          /\ UNCHANGED <<job_id_multi_filters, oneshot_kind_filters, topics, rest,
                         handle, lagged>>
      BY <1>3 DEF ByJobId
    <2>2. /\ IsMap(job_id_filters', JobIds, Receivers)
          /\ DOMAIN job_id_filters' = DOMAIN job_id_filters \ {message.target}
          /\ \A k \in DOMAIN job_id_filters' : job_id_filters'[k] = job_id_filters[k]
      BY <2>1, RemoveMap DEF TypeOK, Remove, Restrict
    <2>3. r \in Receivers /\ inbox[r] = <<>> /\ handle[r] \in {"oneshot", "dropped"}
      BY <1>3, LookupMap DEF TypeOK, Unused, Flavours
    <2>4. /\ inbox' \in [Receivers -> Queue]
          /\ \A s \in Receivers \ {r} : inbox'[s] = inbox[s]
          /\ handle[r] = "dropped" => inbox'[r] = <<>>
          /\ Len(inbox'[r]) <= 1
      BY <1>1, <2>1, <2>3 DEF Give, TypeOK, Queue
    <2>5. TypeOK'
      BY <2>1, <2>2, <2>4 DEF TypeOK, EndDispatch, topics
    <2>6. Bounds'
      BY <2>1, <2>3, <2>4 DEF Bounds
    <2>7. Flavours'
      BY <2>1, <2>2 DEF Flavours, topics
    <2>8. Unused'
      <3>1. \A k \in DOMAIN job_id_filters' :
              job_id_filters[k] # r /\ job_id_filters[k] \in Receivers
        BY <1>3, <2>2, LookupMap DEF Unused, TypeOK
      <3>2. \A k \in DOMAIN oneshot_kind_filters :
              oneshot_kind_filters[k] # r /\ oneshot_kind_filters[k] \in Receivers
        BY <1>3, LookupMap DEF Unused, TypeOK
      <3> QED
        BY <2>1, <2>2, <2>4, <3>1, <3>2 DEF Unused
    <2>9. BorrowedEntryStays'
      BY <2>1 DEF EndDispatch, BorrowedEntryStays
    <2> QED
      BY <2>5, <2>6, <2>7, <2>8, <2>9
  <1> QED
    BY <1>2, <1>3

\* The same, for the waiters of a kind.
LEMMA ByOneshotKindIInv == IInv /\ ByOneshotKind => IInv'
  <1> SUFFICES ASSUME IInv, ByOneshotKind PROVE IInv'
    OBVIOUS
  <1> USE DEF IInv
  <1>1. message \in Message /\ message # NoMessage
    BY MessageFacts DEF TypeOK, ByOneshotKind
  <1>2. CASE message.kind \notin DOMAIN oneshot_kind_filters
    BY <1>1, <1>2, ConsultIInv DEF ByOneshotKind, oneshot, clients
  <1>3. CASE message.kind \in DOMAIN oneshot_kind_filters
    <2> DEFINE r == oneshot_kind_filters[message.kind]
    <2>1. /\ oneshot_kind_filters' = Remove(oneshot_kind_filters, message.kind)
          /\ Give(r) /\ EndDispatch
          /\ UNCHANGED <<job_id_multi_filters, job_id_filters, topics, rest,
                         handle, lagged>>
      BY <1>3 DEF ByOneshotKind
    <2>2. /\ IsMap(oneshot_kind_filters', Kinds, Receivers)
          /\ DOMAIN oneshot_kind_filters'
               = DOMAIN oneshot_kind_filters \ {message.kind}
          /\ \A k \in DOMAIN oneshot_kind_filters' :
               oneshot_kind_filters'[k] = oneshot_kind_filters[k]
      BY <2>1, RemoveMap DEF TypeOK, Remove, Restrict
    <2>3. r \in Receivers /\ inbox[r] = <<>> /\ handle[r] \in {"oneshot", "dropped"}
      BY <1>3, LookupMap DEF TypeOK, Unused, Flavours
    <2>4. /\ inbox' \in [Receivers -> Queue]
          /\ \A s \in Receivers \ {r} : inbox'[s] = inbox[s]
          /\ handle[r] = "dropped" => inbox'[r] = <<>>
          /\ Len(inbox'[r]) <= 1
      BY <1>1, <2>1, <2>3 DEF Give, TypeOK, Queue
    <2>5. TypeOK'
      BY <2>1, <2>2, <2>4 DEF TypeOK, EndDispatch, topics
    <2>6. Bounds'
      BY <2>1, <2>3, <2>4 DEF Bounds
    <2>7. Flavours'
      BY <2>1, <2>2 DEF Flavours, topics
    <2>8. Unused'
      <3>1. \A k \in DOMAIN oneshot_kind_filters' :
              /\ oneshot_kind_filters[k] # r
              /\ oneshot_kind_filters[k] \in Receivers
        BY <1>3, <2>2, LookupMap DEF Unused, TypeOK
      <3>2. \A k \in DOMAIN job_id_filters :
              job_id_filters[k] # r /\ job_id_filters[k] \in Receivers
        BY <1>3, LookupMap DEF Unused, TypeOK
      <3> QED
        BY <2>1, <2>2, <2>4, <3>1, <3>2 DEF Unused
    <2>9. BorrowedEntryStays'
      BY <2>1 DEF EndDispatch, BorrowedEntryStays
    <2> QED
      BY <2>5, <2>6, <2>7, <2>8, <2>9
  <1> QED
    BY <1>2, <1>3

\* The entry found is still there when the send begins.
LEMMA ByJobIdMultiIInv == IInv /\ ByJobIdMulti => IInv'
  <1> SUFFICES ASSUME IInv, ByJobIdMulti PROVE IInv'
    OBVIOUS
  <1> USE DEF IInv
  <1>1. message # NoMessage
    BY DEF TypeOK, ByJobIdMulti
  <1>2. CASE message.target \notin DOMAIN job_id_multi_filters
    BY <1>1, <1>2, ConsultIInv DEF ByJobIdMulti
  <1>3. CASE message.target \in DOMAIN job_id_multi_filters
    <2>1. /\ stage' = "sending"
          /\ UNCHANGED <<read, message, oneshot, job_id_multi_filters, topics, rest,
                         clients>>
      BY <1>3 DEF ByJobIdMulti, Consult
    <2>2. TypeOK'
      BY <1>1, <2>1 DEF TypeOK, oneshot, topics, clients
    <2>3. (Bounds /\ Flavours /\ Unused)'
      BY <2>1 DEF Bounds, Flavours, Unused, oneshot, topics, clients
    <2>4. BorrowedEntryStays'
      BY <1>3, <2>1 DEF BorrowedEntryStays
    <2> QED
      BY <2>2, <2>3, <2>4
  <1> QED
    BY <1>2, <1>3

\* The send waits for room, so the channel keeps within its capacity.
LEMMA SendMultiIInv == IInv /\ SendMulti => IInv'
  <1> SUFFICES ASSUME IInv, SendMulti PROVE IInv'
    OBVIOUS
  <1> USE DEF IInv
  <1> DEFINE r == job_id_multi_filters[message.target]
  <1>1. message \in Message
    BY DEF TypeOK, SendMulti
  <1>2. /\ handle[r] = "dropped" \/ Len(inbox[r]) < MultiCapacity
        /\ Give(r) /\ EndDispatch
        /\ UNCHANGED <<oneshot, job_id_multi_filters, topics, rest, handle, lagged>>
    BY DEF SendMulti
  <1>3. r \in Receivers /\ handle[r] \in {"mpsc", "dropped"}
    BY LookupMap DEF SendMulti, BorrowedEntryStays, TypeOK, Flavours
  <1>4. /\ inbox' \in [Receivers -> Queue]
        /\ \A s \in Receivers \ {r} : inbox'[s] = inbox[s]
        /\ handle[r] = "dropped" => inbox'[r] = inbox[r]
        /\ handle[r] = "mpsc" => Len(inbox'[r]) <= MultiCapacity
    <2>1. CASE handle[r] = "dropped"
      BY <1>2, <1>3, <2>1 DEF Give, TypeOK
    <2>2. CASE handle[r] = "mpsc"
      <3>1. inbox[r] \in Queue /\ Len(inbox[r]) < MultiCapacity
        BY <1>2, <1>3, <2>2 DEF TypeOK
      <3>2. inbox' = [inbox EXCEPT ![r] = Append(@, message)]
        BY <1>2, <2>2 DEF Give
      <3>3. /\ Append(inbox[r], message) \in Queue
            /\ Len(Append(inbox[r], message)) <= MultiCapacity
        BY <1>1, <3>1, FilterAssumption DEF Queue
      <3> QED
        BY <1>3, <2>2, <3>2, <3>3 DEF TypeOK
    <2> QED
      BY <1>3, <2>1, <2>2
  <1>5. TypeOK'
    BY <1>2, <1>4 DEF TypeOK, EndDispatch, oneshot, topics
  <1>6. Bounds'
    BY <1>2, <1>3, <1>4 DEF Bounds
  <1>7. Flavours'
    BY <1>2 DEF Flavours, oneshot, topics
  <1>8. Unused'
    <2>1. \A k \in DOMAIN job_id_filters : inbox'[job_id_filters[k]] = <<>>
      BY <1>2, <1>3, <1>4, LookupMap DEF Unused, Flavours, TypeOK
    <2>2. \A k \in DOMAIN oneshot_kind_filters :
            inbox'[oneshot_kind_filters[k]] = <<>>
      BY <1>2, <1>3, <1>4, LookupMap DEF Unused, Flavours, TypeOK
    <2> QED
      BY <1>2, <2>1, <2>2 DEF Unused, oneshot
  <1>9. BorrowedEntryStays'
    BY <1>2 DEF EndDispatch, BorrowedEntryStays
  <1> QED
    BY <1>5, <1>6, <1>7, <1>8, <1>9

\* A broadcast reaches broadcast receivers only, and overruns no buffer.
LEMMA PublishIInv ==
    ASSUME IInv, message \in Message, NEW subscribers \in SUBSET Receivers,
           \A r \in subscribers : handle[r] \in {"broadcast", "dropped"},
           Publish(subscribers), EndDispatch,
           UNCHANGED <<oneshot, job_id_multi_filters, topics, rest>>
    PROVE  IInv'
  <1> USE DEF IInv
  <1>1. \A r \in Receivers :
          /\ inbox'[r] \in Queue
          /\ handle[r] # "broadcast" => inbox'[r] = inbox[r]
          /\ handle[r] = "broadcast" => Len(inbox'[r]) <= BroadcastCapacity
    <2> SUFFICES ASSUME NEW r \in Receivers
                 PROVE  /\ inbox'[r] \in Queue
                        /\ handle[r] # "broadcast" => inbox'[r] = inbox[r]
                        /\ handle[r] = "broadcast" =>
                             Len(inbox'[r]) <= BroadcastCapacity
      OBVIOUS
    <2>1. CASE r \in subscribers /\ handle[r] # "dropped"
      <3>1. inbox'[r] = RingPush(inbox[r], BroadcastCapacity, message)
        BY <2>1 DEF Publish
      <3>2. handle[r] = "broadcast"
        BY <2>1
      <3>3. inbox[r] \in Queue /\ Len(inbox[r]) <= BroadcastCapacity
        BY <3>2 DEF TypeOK, Bounds
      <3> QED
        BY <3>1, <3>2, <3>3, RingPushFacts, FilterAssumption
    <2>2. CASE ~(r \in subscribers /\ handle[r] # "dropped")
      BY <2>2 DEF Publish, TypeOK, Bounds
    <2> QED
      BY <2>1, <2>2
  <1>2. inbox' \in [Receivers -> Queue]
    BY <1>1 DEF Publish
  <1>3. lagged' \in SUBSET Receivers /\ handle' = handle
    BY DEF Publish, TypeOK
  <1>4. TypeOK'
    BY <1>2, <1>3 DEF TypeOK, EndDispatch, oneshot, topics
  <1>5. Bounds'
    BY <1>1, <1>3 DEF Bounds
  <1>6. Flavours'
    BY <1>3 DEF Flavours, oneshot, topics
  <1>7. Unused'
    <2>1. \A k \in DOMAIN job_id_filters : inbox'[job_id_filters[k]] = <<>>
      BY <1>1, LookupMap DEF Unused, Flavours, TypeOK
    <2>2. \A k \in DOMAIN oneshot_kind_filters :
            inbox'[oneshot_kind_filters[k]] = <<>>
      BY <1>1, LookupMap DEF Unused, Flavours, TypeOK
    <2> QED
      BY <2>1, <2>2 DEF Unused, oneshot
  <1>8. BorrowedEntryStays'
    BY DEF EndDispatch, BorrowedEntryStays
  <1> QED
    BY <1>4, <1>5, <1>6, <1>7, <1>8

\* The last lookups of a dispatch: broadcasts and the ring of the rest.
LEMMA BroadcastIInv == IInv /\ (ByNotification \/ ByKind \/ KeepRest) => IInv'
  <1> SUFFICES ASSUME IInv, ByNotification \/ ByKind \/ KeepRest PROVE IInv'
    OBVIOUS
  <1>1. message \in Message /\ message # NoMessage
    BY MessageFacts DEF IInv, TypeOK, ByNotification, ByKind, KeepRest
  <1>2. ASSUME EndDispatch,
               UNCHANGED <<oneshot, job_id_multi_filters, topics, rest, clients>>
        PROVE  IInv'
    <2>1. TypeOK'
      BY <1>2 DEF IInv, TypeOK, EndDispatch, oneshot, topics, clients
    <2>2. (Bounds /\ Flavours /\ Unused /\ BorrowedEntryStays)'
      BY <1>2 DEF IInv, Bounds, Flavours, Unused, BorrowedEntryStays, EndDispatch,
                  oneshot, topics, clients
    <2> QED
      BY <2>1, <2>2 DEF IInv
  <1>3. CASE ByNotification
    <2>1. CASE message.job_name \in DOMAIN notification_filters
      <3> DEFINE subscribers == notification_filters[message.job_name]
      <3>1. subscribers \in SUBSET Receivers
        BY <2>1, LookupMap DEF IInv, TypeOK
      <3>2. \A r \in subscribers : handle[r] \in {"broadcast", "dropped"}
        BY <2>1 DEF IInv, Flavours
      <3>3. /\ Publish(subscribers) /\ EndDispatch
            /\ UNCHANGED <<oneshot, job_id_multi_filters, topics, rest>>
        BY <1>3, <2>1 DEF ByNotification
      <3> HIDE DEF subscribers
      <3> QED
        BY <1>1, <3>1, <3>2, <3>3, PublishIInv
    <2>2. CASE message.job_name \notin DOMAIN notification_filters
      BY <1>2, <1>3, <2>2 DEF ByNotification
    <2> QED
      BY <2>1, <2>2
  <1>4. CASE ByKind
    <2>1. CASE message.kind \in DOMAIN kind_filters
      <3> DEFINE subscribers == kind_filters[message.kind]
      <3>1. subscribers \in SUBSET Receivers
        BY <2>1, LookupMap DEF IInv, TypeOK
      <3>2. \A r \in subscribers : handle[r] \in {"broadcast", "dropped"}
        BY <2>1 DEF IInv, Flavours
      <3>3. /\ Publish(subscribers) /\ EndDispatch
            /\ UNCHANGED <<oneshot, job_id_multi_filters, topics, rest>>
        BY <1>4, <2>1 DEF ByKind
      <3> HIDE DEF subscribers
      <3> QED
        BY <1>1, <3>1, <3>2, <3>3, PublishIInv
    <2>2. CASE message.kind \notin DOMAIN kind_filters
      BY <1>1, <1>4, <2>2, ConsultIInv DEF ByKind
    <2> QED
      BY <2>1, <2>2
  <1>5. CASE KeepRest
    <2>1. rest' \in Queue /\ Len(rest') <= RestCapacity
      BY <1>1, <1>5, RingPushFacts, FilterAssumption
         DEF KeepRest, IInv, TypeOK, Bounds
    <2>2. TypeOK'
      BY <1>5, <2>1 DEF KeepRest, EndDispatch, IInv, TypeOK, oneshot, topics, clients
    <2>3. (Bounds /\ Flavours /\ Unused /\ BorrowedEntryStays)'
      BY <1>5, <2>1 DEF KeepRest, EndDispatch, IInv, Bounds, Flavours, Unused,
                        BorrowedEntryStays, oneshot, topics, clients
    <2> QED
      BY <2>2, <2>3 DEF IInv
  <1> QED
    BY <1>3, <1>4, <1>5
-----------------------------------------------------------------------------
\* A receiver that is opened is in no map yet: a map holds no unused receiver.
LEMMA FreshReceiver ==
    ASSUME IInv, NEW r \in Receivers, NEW flavour \in Flavour \ {"unused", "dropped"},
           Open(r, flavour)
    PROVE  /\ inbox[r] = <<>> /\ inbox' = inbox /\ lagged' = lagged
           /\ handle' \in [Receivers -> Flavour] /\ handle'[r] = flavour
           /\ \A s \in Receivers \ {r} : handle'[s] = handle[s]
           /\ \A k \in DOMAIN job_id_filters :
                job_id_filters[k] \in Receivers \ {r}
           /\ \A k \in DOMAIN job_id_multi_filters :
                job_id_multi_filters[k] \in Receivers \ {r}
           /\ \A k \in DOMAIN oneshot_kind_filters :
                oneshot_kind_filters[k] \in Receivers \ {r}
           /\ \A k \in DOMAIN notification_filters :
                notification_filters[k] \subseteq Receivers \ {r}
           /\ \A k \in DOMAIN kind_filters :
                kind_filters[k] \subseteq Receivers \ {r}
           /\ UNCHANGED rest => Bounds'
  <1>1. handle[r] = "unused" /\ handle' = [handle EXCEPT ![r] = flavour]
        /\ inbox' = inbox /\ lagged' = lagged
    BY DEF Open
  <1>2. inbox[r] = <<>>
    BY <1>1 DEF IInv, Bounds
  <1>3. /\ handle' \in [Receivers -> Flavour] /\ handle'[r] = flavour
        /\ \A s \in Receivers \ {r} : handle'[s] = handle[s]
    BY <1>1 DEF IInv, TypeOK, Flavour
  <1>4. UNCHANGED rest => Bounds'
    BY <1>1, <1>2, <1>3, FilterAssumption DEF IInv, Bounds
  <1>5. /\ \A k \in DOMAIN job_id_filters :
            job_id_filters[k] \in Receivers \ {r}
        /\ \A k \in DOMAIN job_id_multi_filters :
            job_id_multi_filters[k] \in Receivers \ {r}
        /\ \A k \in DOMAIN oneshot_kind_filters :
            oneshot_kind_filters[k] \in Receivers \ {r}
    BY <1>1, LookupMap DEF IInv, TypeOK, Flavours
  <1>6. /\ \A k \in DOMAIN notification_filters :
            notification_filters[k] \subseteq Receivers \ {r}
        /\ \A k \in DOMAIN kind_filters :
            kind_filters[k] \subseteq Receivers \ {r}
    BY <1>1, LookupMap DEF IInv, TypeOK, Flavours
  <1> QED
    BY <1>1, <1>2, <1>3, <1>4, <1>5, <1>6

\* Registrations of one waiter.
LEMMA WaiterIInv ==
    ASSUME IInv, NEW r \in Receivers
    PROVE  /\ \A id \in JobIds : OnJobId(r, id) => IInv'
           /\ \A id \in JobIds : OnJobIdMulti(r, id) => IInv'
           /\ \A kind \in Kinds : OneKind(r, kind) => IInv'
  <1>1. ASSUME NEW id \in JobIds, OnJobId(r, id) PROVE IInv'
    <2>1. Open(r, "oneshot") /\ job_id_filters' = Insert(job_id_filters, id, r)
          /\ UNCHANGED <<task, job_id_multi_filters, oneshot_kind_filters, topics,
                         rest>>
      BY <1>1 DEF OnJobId
    <2>2. IsMap(job_id_filters', JobIds, Receivers)
      BY <2>1, InsertMap DEF IInv, TypeOK
    <2>3. TypeOK'
      BY <2>1, <2>2, FreshReceiver DEF IInv, TypeOK, Flavour, task, topics
    <2>4. Bounds'
      BY <2>1, FreshReceiver DEF Flavour
    <2>5. Flavours'
      BY <2>1, FreshReceiver DEF IInv, Flavours, Flavour, Insert, topics
    <2>6. Unused'
      BY <2>1, FreshReceiver DEF IInv, Unused, Flavour, Insert
    <2>7. BorrowedEntryStays'
      BY <2>1 DEF IInv, BorrowedEntryStays, task
    <2> QED
      BY <2>3, <2>4, <2>5, <2>6, <2>7 DEF IInv
  <1>2. ASSUME NEW id \in JobIds, OnJobIdMulti(r, id) PROVE IInv'
    <2>1. Open(r, "mpsc")
          /\ job_id_multi_filters' = Insert(job_id_multi_filters, id, r)
          /\ UNCHANGED <<task, oneshot, topics, rest>>
      BY <1>2 DEF OnJobIdMulti
    <2>2. IsMap(job_id_multi_filters', JobIds, Receivers)
      BY <2>1, InsertMap DEF IInv, TypeOK
    <2>3. TypeOK'
      BY <2>1, <2>2, FreshReceiver DEF IInv, TypeOK, Flavour, task, oneshot, topics
    <2>4. Bounds'
      BY <2>1, FreshReceiver DEF Flavour
    <2>5. Flavours'
      BY <2>1, FreshReceiver DEF IInv, Flavours, Flavour, Insert, oneshot, topics
    <2>6. Unused'
      BY <2>1, FreshReceiver DEF IInv, Unused, Flavour, oneshot
    <2>7. BorrowedEntryStays'
      BY <2>1 DEF IInv, BorrowedEntryStays, task, Insert
    <2> QED
      BY <2>3, <2>4, <2>5, <2>6, <2>7 DEF IInv
  <1>3. ASSUME NEW kind \in Kinds, OneKind(r, kind) PROVE IInv'
    <2>1. Open(r, "oneshot")
          /\ oneshot_kind_filters' = Insert(oneshot_kind_filters, kind, r)
          /\ UNCHANGED <<task, job_id_filters, job_id_multi_filters, topics, rest>>
      BY <1>3 DEF OneKind
    <2>2. IsMap(oneshot_kind_filters', Kinds, Receivers)
      BY <2>1, InsertMap DEF IInv, TypeOK
    <2>3. TypeOK'
      BY <2>1, <2>2, FreshReceiver DEF IInv, TypeOK, Flavour, task, topics
    <2>4. Bounds'
      BY <2>1, FreshReceiver DEF Flavour
    <2>5. Flavours'
      BY <2>1, FreshReceiver DEF IInv, Flavours, Flavour, Insert, topics
    <2>6. Unused'
      BY <2>1, FreshReceiver DEF IInv, Unused, Flavour, Insert
    <2>7. BorrowedEntryStays'
      BY <2>1 DEF IInv, BorrowedEntryStays, task
    <2> QED
      BY <2>3, <2>4, <2>5, <2>6, <2>7 DEF IInv
  <1> QED
    BY <1>1, <1>2, <1>3

\* A subscription adds its receiver to one channel.
LEMMA SubscribeMap ==
    ASSUME NEW K, NEW map, IsMap(map, K, SUBSET Receivers), NEW key \in K,
           NEW r \in Receivers
    PROVE  /\ IsMap(Subscribe(map, key, r), K, SUBSET Receivers)
           /\ \A k \in DOMAIN Subscribe(map, key, r) :
                \A s \in Subscribe(map, key, r)[k] :
                    s = r \/ (k \in DOMAIN map /\ s \in map[k])
  BY DEF IsMap, Subscribe, Insert

\* Registrations of a listener.
LEMMA ListenerIInv ==
    ASSUME IInv, NEW r \in Receivers
    PROVE  /\ \A name \in JobNames : OnNotification(r, name) => IInv'
           /\ \A kind \in Kinds : OnKind(r, kind) => IInv'
  <1>1. ASSUME NEW name \in JobNames, OnNotification(r, name) PROVE IInv'
    <2>1. /\ Open(r, "broadcast")
          /\ notification_filters' = Subscribe(notification_filters, name, r)
          /\ UNCHANGED <<task, oneshot, job_id_multi_filters, kind_filters, rest>>
      BY <1>1 DEF OnNotification
    <2>2. /\ IsMap(notification_filters', JobNames, SUBSET Receivers)
          /\ \A k \in DOMAIN notification_filters' :
               \A s \in notification_filters'[k] :
                 s = r \/ (k \in DOMAIN notification_filters
                             /\ s \in notification_filters[k])
      BY <2>1, SubscribeMap DEF IInv, TypeOK
    <2>3. TypeOK'
      BY <2>1, <2>2, FreshReceiver DEF IInv, TypeOK, Flavour, task, oneshot
    <2>4. Bounds'
      BY <2>1, FreshReceiver DEF Flavour
    <2>5. Flavours'
      BY <2>1, <2>2, FreshReceiver DEF IInv, Flavours, Flavour, oneshot
    <2>6. Unused'
      BY <2>1, FreshReceiver DEF IInv, Unused, Flavour, oneshot
    <2>7. BorrowedEntryStays'
      BY <2>1 DEF IInv, BorrowedEntryStays, task
    <2> QED
      BY <2>3, <2>4, <2>5, <2>6, <2>7 DEF IInv
  <1>2. ASSUME NEW kind \in Kinds, OnKind(r, kind) PROVE IInv'
    <2>1. /\ Open(r, "broadcast")
          /\ kind_filters' = Subscribe(kind_filters, kind, r)
          /\ UNCHANGED <<task, oneshot, job_id_multi_filters, notification_filters,
                         rest>>
      BY <1>2 DEF OnKind
    <2>2. /\ IsMap(kind_filters', Kinds, SUBSET Receivers)
          /\ \A k \in DOMAIN kind_filters' : \A s \in kind_filters'[k] :
               s = r \/ (k \in DOMAIN kind_filters /\ s \in kind_filters[k])
      BY <2>1, SubscribeMap DEF IInv, TypeOK
    <2>3. TypeOK'
      BY <2>1, <2>2, FreshReceiver DEF IInv, TypeOK, Flavour, task, oneshot
    <2>4. Bounds'
      BY <2>1, FreshReceiver DEF Flavour
    <2>5. Flavours'
      BY <2>1, <2>2, FreshReceiver DEF IInv, Flavours, Flavour, oneshot
    <2>6. Unused'
      BY <2>1, FreshReceiver DEF IInv, Unused, Flavour, oneshot
    <2>7. BorrowedEntryStays'
      BY <2>1 DEF IInv, BorrowedEntryStays, task
    <2> QED
      BY <2>3, <2>4, <2>5, <2>6, <2>7 DEF IInv
  <1> QED
    BY <1>1, <1>2

\* The entry the task borrows is in a guarded shard, so another one is removed.
LEMMA CompleteIInv ==
    ASSUME IInv, NEW id \in JobIds, CompleteJobIdMulti(id)
    PROVE  IInv'
  <1>1. IsMap(job_id_multi_filters', JobIds, Receivers)
    BY RemoveMap DEF IInv, TypeOK, CompleteJobIdMulti
  <1>2. TypeOK'
    BY <1>1 DEF CompleteJobIdMulti, IInv, TypeOK, task, oneshot, topics, clients
  <1>3. (Bounds /\ Flavours /\ Unused)'
    BY DEF CompleteJobIdMulti, Remove, Restrict, IInv, Bounds, Flavours, Unused,
           oneshot, topics, clients
  <1>4. BorrowedEntryStays'
    BY DEF CompleteJobIdMulti, Guarded, Remove, Restrict, IInv, BorrowedEntryStays,
           task
  <1> QED
    BY <1>2, <1>3, <1>4 DEF IInv

\* Receiving and dropping only empties channels; a dropped receiver is empty.
LEMMA ConsumerIInv ==
    ASSUME IInv, NEW r \in Receivers, Drop(r) \/ Recv(r)
    PROVE  IInv'
  <1>1. /\ UNCHANGED <<task, oneshot, job_id_multi_filters, topics, rest>>
        /\ lagged' \in SUBSET Receivers
    BY DEF Drop, Recv, IInv, TypeOK
  <1>2. handle' = handle \/ handle' = [handle EXCEPT ![r] = "dropped"]
    BY DEF Drop, Recv
  <1>3. /\ handle' \in [Receivers -> Flavour]
        /\ handle'[r] \in {handle[r], "dropped"}
        /\ \A s \in Receivers \ {r} : handle'[s] = handle[s]
    BY <1>2 DEF IInv, TypeOK, Flavour
  <1>4. /\ inbox' \in [Receivers -> Queue]
        /\ \A s \in Receivers \ {r} : inbox'[s] = inbox[s]
        /\ handle'[r] \in {"unused", "dropped"} => inbox'[r] = <<>>
        /\ Len(inbox'[r]) <= Len(inbox[r])
        /\ inbox[r] = <<>> => inbox'[r] = <<>>
    <2>1. inbox[r] \in Queue
      BY DEF IInv, TypeOK
    <2>2. CASE Drop(r)
      BY <2>1, <2>2 DEF Drop, IInv, TypeOK, Queue
    <2>3. CASE Recv(r) /\ r \in lagged
      BY <2>1, <2>3 DEF Recv, Live, IInv, TypeOK, Bounds, Queue
    <2>4. CASE Recv(r) /\ r \notin lagged
      <3>1. inbox' = [inbox EXCEPT ![r] = Tail(@)] /\ inbox[r] # <<>>
        BY <2>4 DEF Recv
      <3>2. Tail(inbox[r]) \in Queue /\ Len(Tail(inbox[r])) = Len(inbox[r]) - 1
        BY <2>1, <3>1 DEF Queue
      <3>3. Len(inbox[r]) \in Nat /\ Len(inbox[r]) # 0
        BY <2>1, <3>1, EmptyQueue
      <3>4. handle'[r] # "unused"
        BY <1>3, <2>4 DEF Recv, Live
      <3>5. ASSUME handle'[r] = "dropped" PROVE Tail(inbox[r]) = <<>>
        <4>1. handle[r] = "oneshot"
          BY <1>2, <2>4, <3>5 DEF Recv, Live
        <4>2. Len(inbox[r]) <= 1
          BY <4>1 DEF IInv, Bounds
        <4> DEFINE n == Len(inbox[r])
        <4>3. n \in Nat /\ n # 0 /\ n <= 1 /\ Len(Tail(inbox[r])) = n - 1
          BY <3>2, <3>3, <4>2
        <4> HIDE DEF n
        <4>4. n = 1
          BY <4>3
        <4>5. Len(Tail(inbox[r])) = 0
          BY <4>3, <4>4
        <4> QED
          BY <3>2, <4>5, EmptyQueue
      <3>6. inbox' \in [Receivers -> Queue] /\ inbox'[r] = Tail(inbox[r])
        BY <3>1, <3>2 DEF IInv, TypeOK
      <3> QED
        BY <2>1, <3>1, <3>2, <3>4, <3>5, <3>6 DEF IInv, TypeOK
    <2> QED
      BY <2>2, <2>3, <2>4
  <1>5. TypeOK'
    BY <1>1, <1>3, <1>4 DEF IInv, TypeOK, task, oneshot, topics
  <1>6. Bounds'
    <2>1. inbox[r] \in Queue /\ inbox'[r] \in Queue
      BY <1>4 DEF IInv, TypeOK
    <2> QED
      BY <1>1, <1>3, <1>4, <2>1, FilterAssumption DEF IInv, Bounds, Queue
  <1>7. Flavours'
    BY <1>1, <1>3, LookupMap DEF IInv, TypeOK, Flavours, oneshot, topics
  <1>8. Unused'
    BY <1>1, <1>4, LookupMap DEF IInv, TypeOK, Unused, oneshot
  <1>9. BorrowedEntryStays'
    BY <1>1 DEF IInv, BorrowedEntryStays, task
  <1> QED
    BY <1>5, <1>6, <1>7, <1>8, <1>9 DEF IInv
-----------------------------------------------------------------------------
\* Every step of the filter keeps the inductive invariant.
LEMMA NextIInv == IInv /\ [FilterNext]_filterVars => IInv'
  <1> SUFFICES ASSUME IInv, [FilterNext]_filterVars PROVE IInv'
    OBVIOUS
  <1>1. CASE (\E m \in Message : Read(m)) \/ Skip \/ Stop
    BY <1>1, SourceIInv
  <1>2. CASE ByJobId
    BY <1>2, ByJobIdIInv
  <1>3. CASE ByJobIdMulti
    BY <1>3, ByJobIdMultiIInv
  <1>4. CASE SendMulti
    BY <1>4, SendMultiIInv
  <1>5. CASE ByOneshotKind
    BY <1>5, ByOneshotKindIInv
  <1>6. CASE ByNotification \/ ByKind \/ KeepRest
    BY <1>6, BroadcastIInv
  <1>7. CASE Unprocessed
    <2>1. TypeOK'
      BY <1>7 DEF Unprocessed, IInv, TypeOK, Queue, task, oneshot, topics, clients
    <2>2. (Bounds /\ Flavours /\ Unused /\ BorrowedEntryStays)'
      BY <1>7, FilterAssumption
         DEF Unprocessed, IInv, Bounds, Flavours, Unused, BorrowedEntryStays, task,
             oneshot, topics, clients
    <2> QED
      BY <2>1, <2>2 DEF IInv
  <1>8. CASE \E r \in Receivers, id \in Unregistered :
               OnJobId(r, id) \/ OnJobIdMulti(r, id)
    BY <1>8, WaiterIInv DEF Unregistered
  <1>9. CASE \E r \in Receivers, kind \in Kinds : OneKind(r, kind)
    BY <1>9, WaiterIInv
  <1>10. CASE \E r \in Receivers :
               \/ \E name \in JobNames : OnNotification(r, name)
               \/ \E kind \in Kinds : OnKind(r, kind)
    BY <1>10, ListenerIInv
  <1>11. CASE \E r \in Receivers : Drop(r) \/ Recv(r)
    BY <1>11, ConsumerIInv
  <1>12. CASE \E id \in JobIds : CompleteJobIdMulti(id)
    BY <1>12, CompleteIInv
  <1>13. CASE UNCHANGED filterVars
    <2>1. TypeOK'
      BY <1>13 DEF filterVars, IInv, TypeOK, task, oneshot, topics, clients
    <2>2. (Bounds /\ Flavours /\ Unused /\ BorrowedEntryStays)'
      BY <1>13 DEF filterVars, IInv, Bounds, Flavours, Unused, BorrowedEntryStays,
                   task, oneshot, topics, clients
    <2> QED
      BY <2>1, <2>2 DEF IInv
  <1> QED
    BY <1>1, <1>2, <1>3, <1>4, <1>5, <1>6, <1>7, <1>8, <1>9, <1>10, <1>11, <1>12,
       <1>13 DEF FilterNext

\* The inductive invariant holds in every behaviour of the filter.
THEOREM Inductive == FilterSpec => []IInv
  BY InitIInv, NextIInv, PTL DEF FilterSpec

\* The type invariant, for any number of job ids, kinds and receivers.
THEOREM TypeCorrect == FilterSpec => []TypeOK
  <1>1. IInv => TypeOK
    BY DEF IInv
  <1> QED
    BY <1>1, Inductive, PTL

\* filter.rs lines 84-87 and 93-96: a oneshot sender left in a map was never
\* used, whatever the order of registrations and messages.
THEOREM OneAnswerHolds == FilterSpec => []OneAnswer
  <1>1. IInv => OneAnswer
    BY DEF IInv, Unused, OneAnswer, Range
  <1> QED
    BY <1>1, Inductive, PTL

\* filter.rs lines 88-92: the entry the task is sending through is never
\* removed under it.
THEOREM BorrowedEntryIsSafe == FilterSpec => []BorrowedEntryStays
  <1>1. IInv => BorrowedEntryStays
    BY DEF IInv
  <1> QED
    BY <1>1, Inductive, PTL

\* No buffer outgrows its capacity, whatever the capacities are.
THEOREM BoundedHolds == FilterSpec => []Bounded
  <1>1. IInv => Bounded
    <2> SUFFICES ASSUME IInv, NEW r \in Receivers
                 PROVE  /\ Len(rest) <= RestCapacity
                        /\ Len(inbox[r]) <=
                             CASE handle[r] = "mpsc" -> MultiCapacity
                               [] handle[r] = "broadcast" -> BroadcastCapacity
                               [] OTHER -> 1
      BY DEF Bounded, IInv, Bounds
    <2>1. handle[r] \in Flavour
      BY DEF IInv, TypeOK
    <2>2. CASE handle[r] = "mpsc"
      BY <2>2 DEF IInv, Bounds
    <2>3. CASE handle[r] = "broadcast"
      BY <2>3 DEF IInv, Bounds
    <2>4. CASE handle[r] \in {"unused", "oneshot", "dropped"}
      BY <2>4 DEF IInv, Bounds
    <2> QED
      BY <2>1, <2>2, <2>3, <2>4 DEF Flavour
  <1> QED
    BY <1>1, Inductive, PTL
-----------------------------------------------------------------------------
(* The order of messages, and who gets them.  A step takes messages from the *)
(* front of queues, or ends a dispatch by pushing the message to its takers. *)

Kept(new, old) == new = old \/ new = <<>> \/ (old # <<>> /\ new = Tail(old))
Pushed(new, old) == \E base : Kept(base, old) /\ new = Append(base, message)

Before(queue, n) == \A i \in DOMAIN queue : queue[i].seq < n

\* What is left of a queue is in order and was there before.
LEMMA KeptFacts ==
    ASSUME NEW old \in Queue, NEW new, Kept(new, old)
    PROVE  /\ new \in Queue /\ Range(new) \subseteq Range(old)
           /\ Increasing(old) => Increasing(new)
           /\ \A n : Before(old, n) => Before(new, n)
  <1>1. CASE new = old
    BY <1>1
  <1>2. CASE new = <<>>
    BY <1>2 DEF Queue, Range, Increasing, Before
  <1>3. CASE old # <<>> /\ new = Tail(old)
    <2>1. /\ Len(old) \in Nat \ {0} /\ DOMAIN old = 1..Len(old)
          /\ new \in Queue /\ DOMAIN new = 1..Len(old) - 1
          /\ \A i \in DOMAIN new : new[i] = old[i + 1]
      BY <1>3 DEF Queue
    <2>2. \A i \in DOMAIN new : i + 1 \in DOMAIN old
      BY <2>1
    <2> QED
      BY <2>1, <2>2 DEF Range, Increasing, Before
  <1> QED
    BY <1>1, <1>2, <1>3 DEF Kept

\* A queue that is given a newer message stays in order.
LEMMA PushedFacts ==
    ASSUME NEW old \in Queue, NEW new, Pushed(new, old), message \in Message
    PROVE  /\ new \in Queue
           /\ Range(new) \subseteq Range(old) \cup {message}
           /\ message \in Range(new)
           /\ Increasing(old) /\ Before(old, message.seq) => Increasing(new)
           /\ \A n \in Int : Before(old, n) /\ message.seq < n => Before(new, n)
  <1>1. PICK base : Kept(base, old) /\ new = Append(base, message)
    BY DEF Pushed
  <1>2. /\ base \in Queue /\ Range(base) \subseteq Range(old)
        /\ Increasing(old) => Increasing(base)
        /\ \A n : Before(old, n) => Before(base, n)
    BY <1>1, KeptFacts
  <1>3. /\ Len(base) \in Nat /\ DOMAIN base = 1..Len(base)
        /\ new \in Queue /\ DOMAIN new = 1..Len(base) + 1
        /\ \A i \in DOMAIN base : new[i] = base[i]
        /\ new[Len(base) + 1] = message
    BY <1>1, <1>2 DEF Queue
  <1>4. \A i \in DOMAIN new : i \in DOMAIN base \/ i = Len(base) + 1
    BY <1>3
  <1>5. Range(new) \subseteq Range(base) \cup {message} /\ message \in Range(new)
    BY <1>3, <1>4 DEF Range
  <1>6. Increasing(base) /\ Before(base, message.seq) => Increasing(new)
    BY <1>3, <1>4 DEF Increasing, Before
  <1>7. \A n : Before(base, n) /\ message.seq < n => Before(new, n)
    BY <1>3, <1>4 DEF Before
  <1> QED
    BY <1>2, <1>3, <1>5, <1>6, <1>7

\* A push to a ring is a push to a queue.
LEMMA RingPushed ==
    ASSUME NEW queue \in Queue, NEW capacity \in Nat \ {0}
    PROVE  Pushed(RingPush(queue, capacity, message), queue)
  <1>1. CASE Len(queue) = capacity
    <2>1. queue # <<>>
      BY <1>1 DEF Queue
    <2> QED
      BY <1>1, <2>1 DEF RingPush, Pushed, Kept
  <1>2. CASE Len(queue) # capacity
    BY <1>2 DEF RingPush, Pushed, Kept
  <1> QED
    BY <1>1, <1>2
-----------------------------------------------------------------------------
\* The message under dispatch is the last one read, all others are older.
Newest == IF message = NoMessage THEN read + 1 ELSE read

Ordered ==
    /\ message # NoMessage => message.seq = read
    /\ \A queue \in {rest} \cup {inbox[r] : r \in Receivers} :
         Increasing(queue) /\ Before(queue, Newest)

\* A channel of kind_filters was made for somebody.
Subscribed == \A k \in DOMAIN kind_filters : kind_filters[k] # {}

IInvOrder == IInv /\ Ordered /\ Exclusive /\ Subscribed

\* A step that pushes nothing: it leaves queues as they are or takes from the
\* front of them, and the message under dispatch is the same or a newer one.
Takes ==
    /\ Kept(rest', rest) /\ \A r \in Receivers : Kept(inbox'[r], inbox[r])
    /\ \A r \in Receivers :
         inbox'[r] # <<>> => (handle[r] = "broadcast" <=> handle'[r] = "broadcast")
    /\ \/ message' = message /\ read' = read
       \/ message' = NoMessage /\ read' \in {read, read + 1}
       \/ message = NoMessage /\ message' # NoMessage
            /\ message'.seq = read' /\ read' = read + 1

\* The end of a dispatch: the message goes to the rest, or to one receiver, or
\* to listeners of a broadcast, or to nobody.
Gives(takers, keep) ==
    /\ message \in Message /\ message' = NoMessage /\ read' = read
    /\ handle' = handle
    /\ \A r \in takers : Pushed(inbox'[r], inbox[r])
    /\ \A r \in Receivers \ takers : inbox'[r] = inbox[r]
    /\ IF keep THEN takers = {} /\ Pushed(rest', rest) ELSE rest' = rest
    /\ \/ \E r \in Receivers : takers \subseteq {r}
       \/ \A r \in takers : handle[r] = "broadcast"

\* Such steps keep the order, and every message its one consumer.
LEMMA TakesOrder ==
    ASSUME IInv, Ordered, Exclusive, Takes, TypeOK'
    PROVE  Ordered' /\ Exclusive'
  <1>1. rest \in Queue /\ \A r \in Receivers : inbox[r] \in Queue
    BY DEF IInv, TypeOK
  <1>2. read \in Int /\ read' \in Int
    BY FilterAssumption DEF IInv, TypeOK
  <1>3. message' # NoMessage => message'.seq = read'
    BY DEF Takes, Ordered
  <1>4. Newest <= Newest' /\ Newest \in Int /\ Newest' \in Int
    <2>1. CASE message' = message /\ read' = read
      BY <1>2, <2>1 DEF Newest
    <2>2. CASE message' = NoMessage /\ read' \in {read, read + 1}
      <3>1. Newest' = read' + 1 /\ (Newest = read \/ Newest = read + 1)
        BY <2>2 DEF Newest
      <3>2. read' = read \/ read' = read + 1
        BY <2>2
      <3> QED
        BY <1>2, <3>1, <3>2
    <2>3. CASE message = NoMessage /\ message' # NoMessage /\ read' = read + 1
      BY <1>2, <2>3 DEF Newest
    <2> QED
      BY <2>1, <2>2, <2>3 DEF Takes
  <1>5. ASSUME NEW old \in Queue, NEW new, Kept(new, old),
               Increasing(old), Before(old, Newest)
        PROVE  Increasing(new) /\ Before(new, Newest')
    <2>1. new \in Queue /\ Increasing(new) /\ Before(new, Newest)
      BY <1>5, KeptFacts
    <2>2. \A i \in DOMAIN new : new[i].seq \in Int
      BY <2>1, MessageFacts, FilterAssumption DEF Queue
    <2> QED
      BY <1>4, <2>1, <2>2 DEF Before
  <1>6. Ordered'
    BY <1>1, <1>3, <1>5 DEF Ordered, Takes
  <1>7. /\ Range(rest') \subseteq Range(rest)
        /\ \A r \in Receivers : Range(inbox'[r]) \subseteq Range(inbox[r])
    BY <1>1, KeptFacts DEF Takes
  <1>8. \A r \in Receivers : inbox'[r] = <<>> => Range(inbox'[r]) = {}
    BY DEF Range
  <1>9. Exclusive'
    BY <1>7, <1>8 DEF Exclusive, Takes
  <1> QED
    BY <1>6, <1>9

LEMMA GivesOrder ==
    ASSUME IInv, Ordered, Exclusive, NEW takers \in SUBSET Receivers,
           NEW keep \in BOOLEAN, Gives(takers, keep)
    PROVE  Ordered' /\ Exclusive'
  <1>1. rest \in Queue /\ \A r \in Receivers : inbox[r] \in Queue
    BY DEF IInv, TypeOK
  <1>2. message \in Message /\ message # NoMessage /\ message.seq \in Int
    BY MessageFacts, FilterAssumption DEF Gives
  <1>3. message.seq = read /\ Newest = read /\ Newest' = read + 1
    BY <1>2 DEF Ordered, Newest, Gives
  <1>4. ASSUME NEW old \in Queue, NEW new, new = old \/ Pushed(new, old),
               Increasing(old), Before(old, Newest)
        PROVE  Increasing(new) /\ Before(new, Newest')
    <2>1. \A i \in DOMAIN old : old[i].seq \in Int
      BY MessageFacts, FilterAssumption DEF Queue
    <2>2. Before(old, message.seq) /\ Before(old, read + 1)
      BY <1>2, <1>3, <1>4, <2>1 DEF Before
    <2>3. CASE new = old
      BY <1>3, <1>4, <2>2, <2>3
    <2>4. CASE Pushed(new, old)
      BY <1>2, <1>3, <1>4, <2>2, <2>4, PushedFacts
    <2> QED
      BY <1>4, <2>3, <2>4
  <1>5. rest' = rest \/ Pushed(rest', rest)
    BY DEF Gives
  <1>6. \A r \in Receivers : inbox'[r] = inbox[r] \/ Pushed(inbox'[r], inbox[r])
    BY DEF Gives
  <1>7. Ordered'
    BY <1>1, <1>4, <1>5, <1>6 DEF Ordered, Gives
  \* Nobody has the message before.
  <1>8. ASSUME NEW queue \in Queue, Before(queue, Newest)
        PROVE  message \notin Range(queue)
    BY <1>2, <1>3, <1>8 DEF Before, Range
  <1>9. message \notin Range(rest) /\ \A r \in Receivers : message \notin Range(inbox[r])
    BY <1>1, <1>8 DEF Ordered
  <1>10. /\ Range(rest') \subseteq Range(rest) \cup (IF keep THEN {message} ELSE {})
         /\ \A r \in takers : Range(inbox'[r]) \subseteq Range(inbox[r]) \cup {message}
         /\ \A r \in Receivers \ takers : inbox'[r] = inbox[r]
         /\ keep => takers = {}
    BY <1>1, <1>2, PushedFacts DEF Gives
  <1>11. handle' = handle
    BY DEF Gives
  <1>12. \A r, s \in takers : r # s => handle[r] = "broadcast" /\ handle[s] = "broadcast"
    BY DEF Gives
  <1>13. ASSUME NEW r \in Receivers PROVE Range(inbox'[r]) \cap Range(rest') = {}
    BY <1>9, <1>10 DEF Exclusive
  <1>14. ASSUME NEW r \in Receivers, NEW s \in Receivers \ {r},
                Range(inbox'[r]) \cap Range(inbox'[s]) # {}
         PROVE  handle[r] = "broadcast" /\ handle[s] = "broadcast"
    <2>1. CASE Range(inbox[r]) \cap Range(inbox[s]) # {}
      BY <2>1 DEF Exclusive
    <2>2. CASE Range(inbox[r]) \cap Range(inbox[s]) = {}
      <3>1. r \in takers /\ s \in takers
        BY <1>9, <1>10, <1>14, <2>2
      <3> QED
        BY <1>12, <3>1
    <2> QED
      BY <2>1, <2>2
  <1>15. Exclusive'
    BY <1>11, <1>13, <1>14 DEF Exclusive
  <1> QED
    BY <1>7, <1>15

\* What a step of the task or of a client does to the queues.
LEMMA GiveGives ==
    ASSUME IInv, message \in Message, NEW r \in Receivers, Give(r), EndDispatch,
           UNCHANGED <<rest, handle>>
    PROVE  \E takers \in SUBSET Receivers : Gives(takers, FALSE)
  <1>1. CASE handle[r] = "dropped"
    <2>1. Gives({}, FALSE)
      BY <1>1 DEF Give, EndDispatch, Gives
    <2> QED
      BY <2>1
  <1>2. CASE handle[r] # "dropped"
    <2>1. inbox' = [inbox EXCEPT ![r] = Append(@, message)]
      BY <1>2 DEF Give
    <2>2. Pushed(inbox'[r], inbox[r]) /\ \A s \in Receivers \ {r} : inbox'[s] = inbox[s]
      BY <2>1 DEF IInv, TypeOK, Pushed, Kept
    <2>3. Gives({r}, FALSE)
      BY <2>2 DEF EndDispatch, Gives
    <2> QED
      BY <2>3
  <1> QED
    BY <1>1, <1>2

LEMMA PublishGives ==
    ASSUME IInv, message \in Message, NEW subscribers \in SUBSET Receivers,
           \A r \in subscribers : handle[r] \in {"broadcast", "dropped"},
           Publish(subscribers), EndDispatch, UNCHANGED rest
    PROVE  \E takers \in SUBSET Receivers : Gives(takers, FALSE)
  <1> DEFINE live == {r \in subscribers : handle[r] # "dropped"}
  <1>1. ASSUME NEW r \in live PROVE Pushed(inbox'[r], inbox[r])
    <2>1. inbox'[r] = RingPush(inbox[r], BroadcastCapacity, message)
      BY DEF Publish
    <2>2. inbox[r] \in Queue
      BY DEF IInv, TypeOK
    <2> QED
      BY <2>1, <2>2, RingPushed, FilterAssumption
  <1>2. \A r \in Receivers \ live : inbox'[r] = inbox[r]
    BY DEF Publish
  <1>3. handle' = handle /\ \A r \in live : handle[r] = "broadcast"
    BY DEF Publish
  <1>4. live \in SUBSET Receivers
    OBVIOUS
  <1> HIDE DEF live
  <1>5. Gives(live, FALSE)
    BY <1>1, <1>2, <1>3 DEF EndDispatch, Gives
  <1> QED
    BY <1>4, <1>5

\* A dispatch that goes on, or ends without a taker.
LEMMA QuietTakes ==
    ASSUME UNCHANGED <<rest, clients>>,
           Read(message') \/ Skip \/ Stop \/ UNCHANGED <<read, message>> \/ EndDispatch,
           IInv
    PROVE  Takes
  <1>1. rest' = rest /\ inbox' = inbox /\ handle' = handle
    BY DEF clients
  <1>2. Read(message') => message = NoMessage
    BY DEF Read, IInv, TypeOK
  <1>3. Read(message') => message'.seq = read' /\ read' = read + 1
    BY DEF Read
  <1>4. Skip \/ Stop => message' = message
    BY DEF Skip, Stop
  <1>5. Skip => message = NoMessage
    BY DEF Skip, IInv, TypeOK
  <1> QED
    BY <1>1, <1>2, <1>3, <1>4, <1>5 DEF Takes, Kept, Skip, Stop, EndDispatch

\* Every step takes or gives.
LEMMA NextTakesOrGives ==
    ASSUME IInv, [FilterNext]_filterVars
    PROVE  Takes \/ \E takers \in SUBSET Receivers, keep \in BOOLEAN : Gives(takers, keep)
  <1>0. /\ message \in Message <=> message # NoMessage
        /\ message = NoMessage <=> stage \in {"next", "stopped"}
    BY MessageFacts DEF IInv, TypeOK
  <1>1. CASE (\E m \in Message : Read(m)) \/ Skip \/ Stop
    <2>1. Read(message') \/ Skip \/ Stop
      BY <1>1 DEF Read
    <2>2. UNCHANGED <<rest, clients>>
      BY <1>1 DEF Read, Skip, Stop
    <2> QED
      BY <2>1, <2>2, QuietTakes
  <1>2. CASE ByJobId
    <2>1. CASE message.target \in DOMAIN job_id_filters
      <3>1. job_id_filters[message.target] \in Receivers
        BY <2>1, LookupMap DEF IInv, TypeOK
      <3> QED
        BY <1>0, <1>2, <2>1, <3>1, GiveGives DEF ByJobId
    <2>2. CASE message.target \notin DOMAIN job_id_filters
      BY <1>2, <2>2, QuietTakes DEF ByJobId, Consult, clients
    <2> QED
      BY <2>1, <2>2
  <1>3. CASE ByJobIdMulti
    BY <1>3, QuietTakes DEF ByJobIdMulti, Consult
  <1>4. CASE SendMulti
    <2>1. job_id_multi_filters[message.target] \in Receivers
      BY <1>4, LookupMap DEF SendMulti, IInv, TypeOK, BorrowedEntryStays
    <2> QED
      BY <1>0, <1>4, <2>1, GiveGives DEF SendMulti
  <1>5. CASE ByOneshotKind
    <2>1. CASE message.kind \in DOMAIN oneshot_kind_filters
      <3>1. oneshot_kind_filters[message.kind] \in Receivers
        BY <2>1, LookupMap DEF IInv, TypeOK
      <3> QED
        BY <1>0, <1>5, <2>1, <3>1, GiveGives DEF ByOneshotKind
    <2>2. CASE message.kind \notin DOMAIN oneshot_kind_filters
      BY <1>5, <2>2, QuietTakes DEF ByOneshotKind, Consult, clients
    <2> QED
      BY <2>1, <2>2
  <1>6. CASE ByNotification
    <2>1. CASE message.job_name \in DOMAIN notification_filters
      <3> DEFINE subscribers == notification_filters[message.job_name]
      <3>1. /\ subscribers \in SUBSET Receivers
            /\ \A r \in subscribers : handle[r] \in {"broadcast", "dropped"}
        BY <2>1, LookupMap DEF IInv, TypeOK, Flavours
      <3>2. Publish(subscribers) /\ EndDispatch /\ UNCHANGED rest /\ message \in Message
        BY <1>0, <1>6, <2>1 DEF ByNotification
      <3> HIDE DEF subscribers
      <3> QED
        BY <3>1, <3>2, PublishGives
    <2>2. CASE message.job_name \notin DOMAIN notification_filters
      BY <1>6, <2>2, QuietTakes DEF ByNotification
    <2> QED
      BY <2>1, <2>2
  <1>7. CASE ByKind
    <2>1. CASE message.kind \in DOMAIN kind_filters
      <3> DEFINE subscribers == kind_filters[message.kind]
      <3>1. /\ subscribers \in SUBSET Receivers
            /\ \A r \in subscribers : handle[r] \in {"broadcast", "dropped"}
        BY <2>1, LookupMap DEF IInv, TypeOK, Flavours
      <3>2. Publish(subscribers) /\ EndDispatch /\ UNCHANGED rest /\ message \in Message
        BY <1>0, <1>7, <2>1 DEF ByKind
      <3> HIDE DEF subscribers
      <3> QED
        BY <3>1, <3>2, PublishGives
    <2>2. CASE message.kind \notin DOMAIN kind_filters
      BY <1>7, <2>2, QuietTakes DEF ByKind, Consult
    <2> QED
      BY <2>1, <2>2
  <1>8. CASE KeepRest
    <2>1. Pushed(rest', rest)
      BY <1>8, RingPushed, FilterAssumption DEF KeepRest, IInv, TypeOK
    <2>2. EndDispatch /\ UNCHANGED clients /\ message \in Message
      BY <1>0, <1>8 DEF KeepRest
    <2>3. Gives({}, TRUE)
      BY <2>1, <2>2 DEF Gives, EndDispatch, clients
    <2> QED
      BY <2>3
  <1>9. CASE Unprocessed
    BY <1>9 DEF Unprocessed, Takes, Kept, task, clients
  <1>10. ASSUME NEW r \in Receivers, NEW flavour, Open(r, flavour), UNCHANGED <<task, rest>>
         PROVE  Takes
    <2>1. inbox' = inbox /\ inbox[r] = <<>>
      BY <1>10 DEF Open, IInv, Bounds
    <2>2. \A s \in Receivers \ {r} : handle'[s] = handle[s]
      BY <1>10 DEF Open, IInv, TypeOK
    <2> QED
      BY <1>10, <2>1, <2>2 DEF Takes, Kept, task
  <1>11. CASE \E r \in Receivers, id \in Unregistered :
               OnJobId(r, id) \/ OnJobIdMulti(r, id)
    BY <1>10, <1>11 DEF OnJobId, OnJobIdMulti
  <1>12. CASE \E r \in Receivers, kind \in Kinds : OneKind(r, kind)
    BY <1>10, <1>12 DEF OneKind
  <1>13. CASE \E r \in Receivers :
               \/ \E name \in JobNames : OnNotification(r, name)
               \/ \E kind \in Kinds : OnKind(r, kind)
    BY <1>10, <1>13 DEF OnNotification, OnKind
  <1>14. ASSUME NEW r \in Receivers, Drop(r) \/ Recv(r) PROVE Takes
    <2>1. UNCHANGED <<task, rest>>
      BY <1>14 DEF Drop, Recv
    <2>2. \A s \in Receivers \ {r} : inbox'[s] = inbox[s] /\ handle'[s] = handle[s]
      BY <1>14 DEF Drop, Recv, IInv, TypeOK
    <2>3. CASE Drop(r)
      <3>1. inbox'[r] = <<>>
        BY <2>3 DEF Drop, IInv, TypeOK
      <3> QED
        BY <2>1, <2>2, <3>1 DEF Takes, Kept, task
    <2>4. CASE Recv(r) /\ r \in lagged
      BY <2>1, <2>4 DEF Recv, Takes, Kept, task
    <2>5. CASE Recv(r) /\ r \notin lagged
      <3>1. inbox[r] # <<>> /\ inbox'[r] = Tail(inbox[r])
        BY <2>5 DEF Recv, IInv, TypeOK
      <3>2. handle[r] = "broadcast" <=> handle'[r] = "broadcast"
        BY <2>5 DEF Recv, IInv, TypeOK
      <3> QED
        BY <2>1, <2>2, <3>1, <3>2 DEF Takes, Kept, task
    <2> QED
      BY <1>14, <2>3, <2>4, <2>5
  <1>15. CASE \E id \in JobIds : CompleteJobIdMulti(id)
    BY <1>15 DEF CompleteJobIdMulti, Takes, Kept, task, clients
  <1>16. CASE UNCHANGED filterVars
    BY <1>16 DEF filterVars, Takes, Kept, task, clients
  <1> QED
    BY <1>1, <1>2, <1>3, <1>4, <1>5, <1>6, <1>7, <1>8, <1>9, <1>11, <1>12, <1>13,
       <1>14, <1>15, <1>16 DEF FilterNext

\* Only a subscription adds to kind_filters.
LEMMA NextSubscribed ==
    ASSUME IInv, Subscribed, [FilterNext]_filterVars
    PROVE  Subscribed'
  <1>1. CASE kind_filters' = kind_filters
    BY <1>1 DEF Subscribed
  <1>2. ASSUME NEW r \in Receivers, NEW kind \in Kinds, OnKind(r, kind)
        PROVE  Subscribed'
    <2>1. kind_filters' = Subscribe(kind_filters, kind, r)
      BY <1>2 DEF OnKind
    <2> QED
      BY <2>1 DEF Subscribe, Insert, Subscribed
  <1> QED
    BY <1>1, <1>2
       DEF FilterNext, Read, Skip, Stop, ByJobId, ByJobIdMulti, SendMulti,
           ByOneshotKind, ByNotification, ByKind, KeepRest, Unprocessed, OnJobId,
           OnJobIdMulti, OneKind, OnNotification, Drop, Recv, CompleteJobIdMulti,
           topics, filterVars

LEMMA InitIInvOrder == FilterInit => IInvOrder
  <1> SUFFICES ASSUME FilterInit PROVE IInvOrder
    OBVIOUS
  <1>1. /\ rest = <<>> /\ \A r \in Receivers : inbox[r] = <<>>
        /\ message = NoMessage /\ kind_filters = <<>>
    BY DEF FilterInit
  <1>2. Increasing(<<>>) /\ Before(<<>>, Newest) /\ Range(<<>>) = {}
    BY DEF Increasing, Before, Range
  <1>3. Ordered /\ Exclusive /\ Subscribed
    BY <1>1, <1>2 DEF Ordered, Exclusive, Subscribed
  <1> QED
    BY <1>3, InitIInv DEF IInvOrder

LEMMA NextIInvOrder == IInvOrder /\ [FilterNext]_filterVars => IInvOrder'
  <1> SUFFICES ASSUME IInvOrder, [FilterNext]_filterVars PROVE IInvOrder'
    OBVIOUS
  <1>1. IInv' /\ TypeOK'
    BY NextIInv DEF IInvOrder, IInv
  <1>2. Subscribed'
    BY NextSubscribed DEF IInvOrder
  <1>3. Ordered' /\ Exclusive'
    BY <1>1, NextTakesOrGives, TakesOrder, GivesOrder DEF IInvOrder
  <1> QED
    BY <1>1, <1>2, <1>3 DEF IInvOrder

\* The invariant with what is known of the order holds in every behaviour.
THEOREM InductiveOrder == FilterSpec => []IInvOrder
  BY InitIInvOrder, NextIInvOrder, PTL DEF FilterSpec

\* filter.rs lines 80-116: no receiver ever sees messages out of the order in
\* which the transport delivered them.
THEOREM InOrderHolds == FilterSpec => []InOrder
  <1>1. IInvOrder => InOrder
    <2> SUFFICES ASSUME IInvOrder PROVE InOrder
      OBVIOUS
    <2>1. \A queue \in {rest} \cup {inbox[r] : r \in Receivers} :
            Increasing(queue) /\ Before(queue, Newest) /\ queue \in Queue
      BY DEF IInvOrder, IInv, TypeOK, Ordered
    <2>2. ASSUME message # NoMessage, NEW queue \in Queue, Before(queue, Newest),
                 NEW i \in DOMAIN queue
          PROVE  queue[i].seq <= message.seq
      <3>1. Newest = message.seq /\ queue[i].seq < message.seq
        BY <2>2 DEF Newest, Before, IInvOrder, Ordered
      <3>2. queue[i].seq \in Int /\ message.seq \in Int
        BY <2>2, MessageFacts, FilterAssumption DEF Queue, IInvOrder, IInv, TypeOK
      <3> QED
        BY <3>1, <3>2
    <2> QED
      BY <2>1, <2>2 DEF InOrder
  <1> QED
    BY <1>1, InductiveOrder, PTL

\* filter.rs lines 84-116: a message has one consumer, listeners of a broadcast
\* excepted.
THEOREM ExclusiveHolds == FilterSpec => []Exclusive
  <1>1. IInvOrder => Exclusive
    BY DEF IInvOrder
  <1> QED
    BY <1>1, InductiveOrder, PTL
-----------------------------------------------------------------------------
(* No message vanishes. *)

\* A message given to a receiver that was not dropped is in its inbox.
LEMMA Given ==
    ASSUME IInv, message \in Message, NEW r \in Receivers, Give(r),
           handle[r] # "dropped"
    PROVE  message \in Range(inbox'[r])
  <1>1. inbox[r] \in Queue /\ inbox'[r] = Append(inbox[r], message)
    BY DEF Give, IInv, TypeOK
  <1>2. Pushed(inbox'[r], inbox[r])
    BY <1>1 DEF Pushed, Kept
  <1> QED
    BY <1>1, <1>2, PushedFacts

\* A message that is published is in the buffer of every listener.
LEMMA Published ==
    ASSUME IInv, message \in Message, NEW subscribers \in SUBSET Receivers,
           Publish(subscribers), NEW r \in subscribers, handle[r] # "dropped"
    PROVE  message \in Range(inbox'[r])
  <1>1. inbox'[r] = RingPush(inbox[r], BroadcastCapacity, message)
    BY DEF Publish
  <1>2. inbox[r] \in Queue
    BY DEF IInv, TypeOK
  <1> QED
    BY <1>1, <1>2, RingPushed, PushedFacts, FilterAssumption

\* Whatever ends a dispatch accounts for its message.
LEMMA NextAccounted ==
    ASSUME IInv, Subscribed, [FilterNext]_filterVars
    PROVE  Accounted
  <1> SUFFICES ASSUME DispatchEnds PROVE Accounted
    BY DEF Accounted
  <1>1. message \in Message /\ message # NoMessage /\ message' = NoMessage
    BY DEF DispatchEnds, IInv, TypeOK
  <1>2. ASSUME NEW r \in Matching(message), r \in Receivers, Give(r) PROVE Accounted
    BY <1>1, <1>2, Given DEF Accounted
  <1>3. CASE ByJobId
    <2>1. message.target \in DOMAIN job_id_filters
      BY <1>1, <1>3 DEF ByJobId, Consult
    <2> DEFINE r == job_id_filters[message.target]
    <2>2. r \in Receivers /\ r \in Matching(message)
      BY <2>1, LookupMap DEF Matching, IInv, TypeOK
    <2> QED
      BY <1>2, <1>3, <2>1, <2>2 DEF ByJobId
  <1>4. CASE SendMulti
    <2> DEFINE r == job_id_multi_filters[message.target]
    <2>1. message.target \in DOMAIN job_id_multi_filters
      BY <1>4 DEF SendMulti, IInv, BorrowedEntryStays
    <2>2. r \in Receivers /\ r \in Matching(message)
      BY <2>1, LookupMap DEF Matching, IInv, TypeOK
    <2> QED
      BY <1>2, <1>4, <2>2 DEF SendMulti
  <1>5. CASE ByOneshotKind
    <2>1. message.kind \in DOMAIN oneshot_kind_filters
      BY <1>1, <1>5 DEF ByOneshotKind, Consult
    <2> DEFINE r == oneshot_kind_filters[message.kind]
    <2>2. r \in Receivers /\ r \in Matching(message)
      BY <2>1, LookupMap DEF Matching, IInv, TypeOK
    <2> QED
      BY <1>2, <1>5, <2>1, <2>2 DEF ByOneshotKind
  <1>6. CASE ByNotification
    <2>1. CASE \E r \in Receivers : Listens(r, message.job_name)
      <3>1. PICK r \in Receivers : Listens(r, message.job_name)
        BY <2>1
      <3>2. /\ notification_filters[message.job_name] \in SUBSET Receivers
            /\ Publish(notification_filters[message.job_name])
            /\ r \in notification_filters[message.job_name] /\ handle[r] # "dropped"
        BY <1>6, <3>1, LookupMap DEF ByNotification, Listens, IInv, TypeOK
      <3>3. message \in Range(inbox'[r])
        BY <1>1, <3>2, Published
      <3> QED
        BY <3>3 DEF Accounted
    <2>2. CASE \A r \in Receivers : ~Listens(r, message.job_name)
      BY <1>6, <2>2 DEF ByNotification, Accounted
    <2> QED
      BY <2>1, <2>2
  <1>7. CASE ByKind
    <2> DEFINE subscribers == kind_filters[message.kind]
    <2>1. message.kind \in DOMAIN kind_filters
      BY <1>1, <1>7 DEF ByKind, Consult
    <2>2. subscribers \in SUBSET Receivers /\ subscribers # {}
      BY <2>1, LookupMap DEF IInv, TypeOK, Subscribed
    <2>3. Publish(subscribers)
      BY <1>7, <2>1 DEF ByKind
    <2>4. \A r \in subscribers : r \in Matching(message)
      BY <2>1, <2>2 DEF Matching
    <2> HIDE DEF subscribers
    <2>5. PICK r \in subscribers : TRUE
      BY <2>2
    <2>6. CASE handle[r] = "dropped"
      BY <2>4, <2>6 DEF Accounted
    <2>7. CASE handle[r] # "dropped"
      BY <1>1, <2>2, <2>3, <2>7, Published DEF Accounted
    <2> QED
      BY <2>6, <2>7
  <1>8. CASE KeepRest
    BY <1>1, <1>8, RingPushed, PushedFacts, FilterAssumption
       DEF KeepRest, IInv, TypeOK, Accounted
  <1>9. CASE Read(message') \/ Skip \/ Stop
    BY <1>1, <1>9 DEF Read, Skip, Stop, IInv, TypeOK
  <1>10. CASE message' = message
    BY <1>1, <1>10
  <1> QED
    BY <1>3, <1>4, <1>5, <1>6, <1>7, <1>8, <1>9, <1>10
       DEF FilterNext, Read, ByJobIdMulti, Consult, Unprocessed, OnJobId, OnJobIdMulti,
           OneKind, OnNotification, OnKind, Drop, Recv, CompleteJobIdMulti, task,
           filterVars

\* filter.rs lines 84-116: every message that was dispatched went somewhere, or
\* to a receiver that had been dropped, or was a notification nobody listens for.
THEOREM NoMessageVanishesHolds == FilterSpec => NoMessageVanishes
  <1>1. IInvOrder /\ [FilterNext]_filterVars => [Accounted]_filterVars
    BY NextAccounted DEF IInvOrder
  <1> QED
    BY <1>1, InductiveOrder, PTL DEF FilterSpec, NoMessageVanishes
=============================================================================
