# steam-wire in TLA+

steam-wire is an asynchronous Rust client of the Steam network. One task reads
the transport and hands each message to whoever waits for it; calls register
what they wait for, send their request and await the answer; logging in is a
conversation made of such calls. This directory models that behaviour, checks
it with TLC and proves its safety, refinements included, with TLAPS.

Paths below are relative to `crates/steam-wire/src/` unless they say otherwise.

## The system

| component | state | operations | interacts with |
|---|---|---|---|
| **Message filter** `connection/filter.rs` | three maps of one-consumer channels (job id -> oneshot, job id -> mpsc(16), kind -> oneshot), two maps of broadcast(16) channels (notification name, kind), a ring of 32 unhandled messages | the task's loop; `on_job_id`, `on_job_id_multi`, `complete_job_id_multi`, `on_notification`, `on_kind`, `one_kind`, `unprocessed` | reads the flattened transport; shared by all clones of a connection |
| **Calls** `connection/mod.rs` | the future or stream of each call, the job id counter of the session | `service_method`, `job`, `job_multi`, `one`, `on`, `on_notification`, `send` | register with the filter, send through the shared sink under a lock |
| **Raw connection** `connection/raw.rs` | sink, filter, session, cancellation token | connect, `hello`, `setup_heartbeat`, `raw_send_with_kind` | the timer task sends through the same sink |
| **Session and logon** `session.rs`, `connection/unauthenticated.rs` | session id, steam id, job id counter, tokens | `anonymous`, `login`, `access`, `send_logon` | authentication calls, then `one_kind(LogonResponse)` |
| **Authentication** `auth/mod.rs` | client id, request id, poll interval | begin, submit a code, poll until tokens | `service_method_un_authenticated` |
| **Confirmation handlers** `auth/confirmation.rs` | none | console, shared secret, device, `or` | raced against polling by `login` |
| **Guard data store** `auth/guard_data.rs` | a JSON file | `load`, `store` | called by `login` |
| **Game coordinator** `game_coordinator/` | a second filter, a forwarding task, a hello loop; the session of the connection with its job id counter | `init_raw`, `wait_welcome`, sending, calls | wraps messages of the connection |
| **Server list** `serverlist.rs` | two rotating lists behind mutexes | `discover`, `pick`, `pick_ws` | used by `connect` |
| **Transport** `transport/` | codec buffers | framing, handshake, websocket | yields items to `flatten_multi` |
| **Wire format** `net.rs`, `message.rs`, `service_method.rs`, `eresult.rs` | none | headers, bodies, `flatten_multi` | between transport and filter |

Outside this crate: `steam-wire-crypto` (pure functions over bytes),
`steam-wire-proto-*` (generated messages and their generator), examples.

What is hard about it:

* the dispatch task awaits room in a bounded channel while it holds the lock of
  a map shard, and the code that should make room may want that lock;
* registrations, drops, timeouts and cancellations interleave with the lookups
  of one dispatch, and late answers meet newer calls;
* a transport that ends stops the task but leaves every registration in place;
* one damaged item may end the task, and with it every other conversation of the
  connection, or must not;
* all coordinators of a connection are handed each other's answers;
* login races a person, a poll loop and the server, and replaces the session
  (with its job id counter) under the same filter.

What makes each part correct:

* **filter**: it neither loses, doubles nor reorders a message, gives a message
  to one consumer, keeps its buffers bounded, and finishes with every message
  as long as clients poll or drop what they registered;
* **calls**: unique ids; answers go to their own call, in order, none is lost
  on the way; a stream ends with its completed part; every call ends;
* **logon and authentication**: a session only after the server granted it; no
  call left when the job id counter is replaced; a machine token that comes with
  the tokens is offered to the store before anything that may fail; a login ends;
* **confirmation handlers**: a race of handlers never hides one that could give a
  code (a handler for device confirmations, which sends nothing, can be hidden);
* **guard data store**: what was stored is what is loaded, and nothing else;
* **game coordinator**: its pipeline delivers in order; the handshake ends, with
  the welcome of its own app; its calls get their own answers, although they
  see those of everybody, and end;
* **transport and wire format**: what is read is what was written, in order,
  whatever the chunks it comes in, and damage harms nothing but what it hit;
* **server list**: a rotation offers every server, in turn;
* **heartbeat**: it lasts as long as the connection is held, and no longer.

## Modules

| module | models | state and actions |
|---|---|---|
| `MessageFilter` | `connection/filter.rs` | A message is its position in the stream, its target job id, kind and notification name. `stage` is the position of the task in the else-if chain, one action per lookup (`ByJobId`, `ByJobIdMulti`, `SendMulti`, `ByOneshotKind`, `ByNotification`, `ByKind`, `KeepRest`), so registrations interleave between two lookups as they do between two map operations. `SendMulti` is the await on a full channel; while `stage = "sending"` the shard of the entry is `Guarded` and the two operations that write-lock it wait. Maps hold the receiver at the other end of the sender; `inbox` is the content of a channel; dropping a receiver leaves its sender in the map, as in the code. |
| `JobCalls` | `connection/mod.rs` 325-371, the counter of `session.rs`, a server | Extends `MessageFilter`. One process per call with a program counter per await; the server answers with any target it was sent, any number of parts, errors, or nothing; items may be garbled; the transport may end. A call may be made by the consumer of a stream (`Parent`). |
| `RequestReply` | what the three calls promise | No filters, ids or channels: the numbered answers of a request, and those of them that the call returned. `JobCalls` and `CoordinatorCalls` implement it (`ImplementsRequestReply`). |
| `Confirmation` | `auth/confirmation.rs` | Pure operators: what each handler answers to a list of allowed confirmations (`Handle`), and one poll of a chain built with `or` (`PollEither`, and `PollChain` as a recursive function over the chain, which remembers for each node the futures it still waits for). |
| `Login` | `connection/unauthenticated.rs`, `auth/mod.rs`, `send_logon` of `session.rs` | Extends `Confirmation`. `pc` is the await of the one login future; in `"select"` the handlers are polled before `wait_for_tokens`, whose own position is `poll`. Each call is `"sent"` until the server answers or refuses; it may fail at any time, except the logon, which has no timeout. Around it a person (`Type`, `Confirm`), the authentication server (`auth`) and the transport. |
| `GuardDataStore` | `auth/guard_data.rs` | One process per store, one action per system call: `Store` (reads the file), `Truncate`, `Write`, and `Fail` between them. The file is absent, a map, empty or garbled. |
| `GameCoordinator` | `game_coordinator/`, the handshake and the pipeline | Per app: `pc` of `init_raw`, the broadcast buffer (`Publish` overruns it), the forwarding task (`Forward`, `Hand`), the bounded channel and a filter reduced to the waiter for the welcome and what ends its task (`Dispatch`). The server may leave hellos unanswered and say other things at any time. |
| `CoordinatorCalls` | `job` as a coordinator makes it: `connection/mod.rs` 338-346 over `game_coordinator/mod.rs` 170-212, the counter of `session.rs` | Extends `GameCoordinator`. Each coordinator makes one call (`Ask`, `SendRequest`, `Return`, `GiveUp`, `Cancel`) through its own filter, with an id from the shared counter; `OthersAsk` stands for every other call of the session, and `ReplyToOthers` for their answers, which reach this coordinator too. `DispatchJob` adds the waiter for a job id to the `Dispatch` of `GameCoordinator`. It implements `RequestReply` as well. |
| `Wire` | the header formats of `net.rs` | Pure operators: `Written` (a message as bytes that remember the field they belong to) and `Read` of any bytes, with every way in which it fails. |
| `Flatten` | `flatten_multi` and `MultiBodyIter` of `message.rs`, what the loop of `connection/filter.rs` makes of an error | Extends `Wire`. An item is pulled when nothing is left of the last one (`Pull`), its results are taken one by one (`Dispatch`); a Multi has children, each cut off somewhere, and a body that may break off. |
| `Transport` | `transport/tcp.rs`, `transport/websocket.rs` | Extends `Flatten`; each of its actions is one of `Flatten` or leaves its variables alone. The websocket yields items. The socket of TCP delivers what the server sends, frame by frame (`Send`), as bytes in chunks of any size (`Chunk`), from which `Decode` and `Split` take frames, first for the handshake, then for `Pull`; it may close anywhere (`CloseTcp`). |
| `ServerList` | `serverlist.rs` | A cycle behind a mutex; `Begin` takes the lock, `Pick` and `Take` advance the cycle. |
| `Heartbeat` | `connection/raw.rs` | Stages of a connection up to the drop of its last clone, the timer task (`Elapse`, `Beat`, `Stop`, `Lock`, `Sent`), and calls that use the same sink. |
| `MC*` | | the constants of the instances TLC checks |
| `MessageFilterProofs`, `JobCallsProofs`, `LoginProofs`, `GuardDataStoreProofs`, `CoordinatorProofs`, `TransportProofs`, `ServerListProofs`, `HeartbeatProofs` | | the theorems, each about the module it is named after: `CoordinatorProofs` about `GameCoordinator` and `CoordinatorCalls`, `LoginProofs` about `Confirmation` too, `TransportProofs` about `Wire` and `Flatten` too |

A definition whose comment says *for a mutant* is not part of a specification:
it is the variant of its neighbour, as a plausible mistake would have it, that
shows a property to depend on that line of code.

## What TLC checks

| run | instance | shows |
|---|---|---|
| `filter` | 2 job ids in one shard, 2 kinds, 1 notification name, 2 receivers, capacities 1, 2 and 2, 3 messages; 999,215 states | `OneAnswer`, `InOrder`, `Exclusive`, `BorrowedEntryStays`, `NoMessageVanishes`, and `DispatchCompletes` under fairness |
| `calls` | stream `a`, job `b` made by its consumer; capacity 1, 4 replies, up to 3 parts to an answer, a server that may talk on after the completed part; 592,154 states | `OwnAnswersInOrder`, `NoAnswerLost`, `LeftOnlyAfterGivingUp`, `NeverEOF`, `WholeStream`, `EndsUnlessBlocked`, and the refinement `ImplementsRequestReply` |
| `gc` | 1 app with its call, 2 job ids, buffer 2, channel 1, 2 messages and any number of welcomes; 258,118 states | `RepliesArriveInOrder`, `OwnAnswer`, `NoAnswerLost`, `HandshakeEnds`, `CallsEnd`, and the refinement `ImplementsRequestReply` |
| `heartbeat` | up to 4 clones; 266 states | `BeatsWhileHeld`, `AtMostOneLate`, `HeartbeatEnds` |
| `login` | three entry points, every chain of two handlers and two of three, every list of up to two confirmations; 554,996 states | `LogonMeansGranted`, `NoHandlerOverlooked`, `CleanSession`, `GuardDataOffered`, `EndsUnlessCutOff` |
| `servers` | 3 servers, 3 threads, 4 rounds; 298 states up to symmetry | `RoundRobin`, `ListsEveryServer` |
| `transport` | websocket: each of 512 messages cut off at every byte, or two items of 69 kinds, Multis of up to two children with every damage among them; TCP: four frames of two lengths, bad headers, every chunking; 531,700 states | `InOrder`, `DamageContained`, `HeaderIntact`, and `FramesAsSent`: frames arrive whole and in order, and item n is what frame n behind the handshake carried |
| `store` | 2 stores, 2 accounts, 2 tokens, 4 calls, failures; 7,947 states up to symmetry | `Retrievable`, `NothingInvented` |

`filter`, `calls`, `gc`, `login` and `store` check a type invariant besides; those
of `Heartbeat` and `ServerList` are part of the proofs. `EndsUnlessBlocked` says
that a call which has registered ends, unless the dispatch task and the consumer
of a stream wait for each other for ever (`Blocked`); `calls_nested` shows that
this exception is needed. Like `CallsEnd` of a coordinator it assumes that the
sink takes or refuses a request, since no timeout guards the send.
`GuardDataOffered` says that a machine token which came with the tokens was offered
to the store before the logon, and that the only one a login with a session did
not offer came in news ahead of the tokens.

Four more runs end in a counterexample:

| run | violated | what the code does |
|---|---|---|
| `calls_nested` | `CallsEnd` | A consumer of a `job_multi` stream starts another `job_multi`. If the outer channel is full, the dispatch task awaits room in it with the shard read-locked (`filter.rs:92`); the registration blocks its thread on that shard, outside any timeout, and nothing moves again. |
| `login_lost` | `LoginEnds` | The transport ends while the logon response is awaited. The dispatch task stops, the maps keep the sender, the logon has no timeout (`session.rs:241`): `login` never returns. |
| `gc_two_apps` | `OwnWelcome` | The forwarding task never looks at the app id (`game_coordinator/mod.rs:97`): with two coordinators on one connection, one takes the welcome of the other. |
| `store_lost` | `Stored` | Two stores over one file: the second to write had read the file before the first wrote (`guard_data.rs:98`). Both return `Ok`; one token is gone. |

Noted while modelling, without a run of their own:

* `connection/mod.rs:134` says of `take_unprocessed` "Get all messages that
  haven't been filtered by any of the filters"; a `ServiceMethod` message nobody
  listens for is dropped at `filter.rs` 97-111 and never reaches the ring.
  `NoMessageVanishes` excepts exactly these messages.
* A second `one_kind` for a kind drops the first sender (`filter.rs:166`): the
  first waiter is told `EOF` although the connection is alive.
* A response to a poll that holds nothing but `new_guard_data` counts as news
  (`auth/mod.rs:222`), and `wait_for_tokens` drops a response without
  `access_token` whole (174): a machine token sent ahead of the tokens never
  reaches the store, and the login ends well without it. `Login` has these steps
  (`PollAgain`); `GuardDataOffered` excepts exactly this loss.
* `confirmation.rs` 146-150 says a handler that supports an allowed confirmation
  returns an action, and that the login fails if none supports any. In
  `device.or(user)` the left handler's "nothing to send" is taken for no answer
  (319-326), and the chain returns what `user` does: if only the device may
  confirm, "unsupported", and the login fails. `NoHandlerOverlooked` is about
  codes and lets a handler with nothing to send give up.
* `message.rs:178` says `flatten_multi` flattens "any" Multi; one inside a Multi
  goes to the filter as it is (`Flatten`: a child that reads `"multi"`).
* The size of a child that cannot be read ends a Multi without an error
  (`message.rs:221`), be it the end of the body or a damaged gzip stream: the
  children behind it are gone, and nobody is told.
* Every message of the websocket is read as one of Steam, a Ping or Close
  included (`websocket.rs:38`). One whose payload is shorter than a header gives
  the `IO` error that ends the dispatch task.
* A protobuf header of which some is missing is decoded all the same; if that
  succeeds, `split_to` panics in the dispatch task (`net.rs:277`). `HeaderIntact`
  shows that nothing is ever dispatched with half a header.
* `encode_size` of an extended header is 40 (`net.rs:236`), of which `write`
  writes 36: harmless, as only a capacity is computed from it.
* The TCP encoder replaces the write buffer (`tcp.rs:124`) where another append
  was commented out: a message encoded before the last one was flushed would
  tear the stream. The module is private and unused.
* A server that goes on after the completed part of a stream can lock the
  dispatch task out of `complete_job_id_multi` (`connection/mod.rs:369`), without
  any nested call. `EndsUnlessBlocked` excepts that deadlock.
* A payload that is cut off fails with an `IO` error, which the filter of a
  coordinator takes for the end of its transport (`filter.rs:121`):
  `HandshakeEnds` and `RepliesArriveInOrder` except a filter that has stopped.
* A crash or a full disk after `std::fs::write` has truncated the file loses all
  tokens, and no later store repairs the file (`guard_data.rs:87`):
  `Retrievable` excepts calls that failed.

### Bounds, and why they are enough

Capacities of 16, 32 and 10 become 1 and 2: what can go wrong happens when a
buffer is full, and one or two messages more than its capacity reach the full
buffer, the overrun and what follows. A dispatch looks at one key of each map,
so one or two ids, two kinds (`ServiceMethod` and another) and one name give
every combination of hit and miss; all ids share a shard, the worst case for
the lock. One machine token per login: the store replaces the one it has. Two
receivers are enough for two consumers of a message, two calls for
a stream and a job that its consumer makes while parts arrive; calls that know
nothing of each other are the coordinator's call and `others` in `gc`.
`HeaderLength` 2 stands for 8: what matters is that a chunk may end within a
header. Two items, of which the first may be a Multi of two, are enough for an
error before, between and after messages. `MaxMessages`, `MaxParts`, `MaxJobs`,
`MaxItems`, `MaxChildren`, `MaxLength`, `MaxRounds`, `MaxCalls` and `MaxClones`
bound counters and lengths that grow without bound in the code; each is the
least that lets a buffer overflow, a stream outlive its channel, a cycle wrap
around, or two stores overlap after a third.

Symmetry is used in `servers` and `store` runs only, which check no liveness.

`CHECK_DEADLOCK FALSE` in every configuration: the models stop when the
transport has ended, the bounded stream is used up and every call has returned.

### Fairness, and why the code justifies it

* `MessageFilter`: weak fairness of `Dispatch`, a spawned task the runtime polls
  whenever it can go on, and of `Recv` of every receiver: the property is about
  clients that go on polling what they hold.
* `JobCalls`: the dispatch task, and every `Step` of a call. `GiveUp` is one of
  them: the timer of `tokio::time::timeout` fires. So is the send, which is an
  assumption about the transport: `raw_send` (`connection/mod.rs` 328, 340, 356)
  is outside the timeout, and a sink that neither takes nor refuses a request
  keeps its call for ever. No fairness of the server,
  of the transport, of new calls or of cancellation.
* `Login`: the login task and its timers. While connected the server answers a
  logon, and it drops an authentication session nobody confirms
  (`ServerForgets`). Nothing is assumed of the person.
* `GameCoordinator`: `init_raw`, its five-second timer, both tasks. Strong
  fairness of receiving after a lag error: hellos five seconds apart do not
  overrun the buffer again between any two polls. Strong fairness of `Welcome`:
  the coordinator does not ignore every one of infinitely many hellos.
* `CoordinatorCalls`: besides, the future of the call: it sends, returns with an
  answer, or its timer fires, with the same assumption about the sink. Nothing of the server that should answer.
* `Heartbeat`: the task and whoever sends. The mutex of tokio is fair, hence
  strong fairness of `Lock`; `select!` picks at random among ready branches,
  hence strong fairness of `Stop`.

## What is proved

Every invariant that a run checks, every step property and every refinement is
a theorem of its specification: TLC shows it on the instance above, TLAPS for
every value of the constants. The assumptions are the named ones of the modules
(`FilterAssumption`, `CallsAssumption`, `LoginAssumption`, `StoreAssumption`,
`CoordinatorAssumption`, `JobsAssumption`, `TransportAssumption`,
`ListAssumption`, `HeartbeatAssumption`). They say that capacities and counts
are naturals (positive where the code allocates a channel of that size), that
key sets do not overlap, and which type of value a constant has.

* **`MessageFilterProofs`**: `TypeCorrect`, `BoundedHolds`, `OneAnswerHolds`,
  `BorrowedEntryIsSafe`. The invariant is `TypeOK`, the buffer bounds and three
  strengthenings: which flavour of receiver each map may name (`Flavours`), that
  an unused oneshot sender is in one entry of one map and its channel is empty
  (`Unused`), and that the borrowed entry stays. `OneAnswer` is not inductive
  without them: a sender in two entries could be used twice. `InOrderHolds` and
  `ExclusiveHolds` need more (`Ordered`): whatever is in a queue is older than
  the message under dispatch. Every step either takes from the front of queues
  (`Takes`) or ends a dispatch by pushing the message to its takers (`Gives`),
  and the invariant is shown of these two instead of thirteen actions.
  `NoMessageVanishesHolds` is about steps.
* **`JobCallsProofs`**: `CallsImplementFilter` shows that calls are clients of the
  filter as `MessageFilter` allows any, so that its invariant holds under
  them. On top of it `CallIInv` says that every call that began has an id of its
  own (`Jobs`), that an entry belongs to the call that drew its id and stays as
  long as the call may be answered (`Entries`), that a map consulted in vain has
  no entry since (`Consulted`), and which answers the server sent and the calls
  have taken (`Answered`, `Returned`). `Consulted` is what makes
  `NoAnswerLostHolds` inductive: a call registers before it sends, so no answer
  of its own can be past the map already. `OwnAnswersInOrderHolds`,
  `LeftOnlyAfterGivingUpHolds`, `NeverEOFHolds` and `WholeStreamHolds` follow.
  `ImplementsRequestReplyHolds` maps every step to one of `RequestReply` or a
  stutter.
* **`LoginProofs`**: `LogonMeansGrantedHolds` (tokens come only from a session
  that was granted, `TokensOfGranted`), `CleanSessionHolds` (a call is under way
  only where it is awaited, `CallsInPlace`), `GuardDataOfferedHolds`
  (a machine token waits in an answer that is not read yet, or for the store,
  `GuardInPlace`) and `NoHandlerOverlookedHolds`, for chains of any length: a
  node of the chain that no longer waits for its left side has seen every
  handler there yield (`YieldedBefore`). The recursion over the chain is dealt
  with by a least counterexample (`LeastElement`).
* **`GuardDataStoreProofs`**: `NothingInventedHolds` needs that the maps about to
  be saved hold only tokens that were stored for their account (`AllGiven`), not
  only the file. `RetrievableHolds` needs what is true in the middle of a call
  (`OneAtATime`): before the truncation the file is what was stored, after it
  the map about to be written is what will have been.
* **`CoordinatorProofs`**: the pipe of a coordinator, from the broadcast buffer to
  its filter, is treated as one sequence: a step publishes at its end, shifts a
  message from one station to the next, or drops one that is no reply
  (`Shifts`); `RepliesArriveInOrderHolds` follows with `Sound`, that whatever is
  in the pipe was said. For calls, `Ids`, `Targets` and `Waiters`: an id belongs
  to one call of all those over the connection, an answer bears the id of the
  call it answers, and the waiter is there until it is given the answer. They
  give `OwnAnswerHolds`, `NoAnswerLostHolds` and `ImplementsRequestReplyHolds`,
  for any number of coordinators, calls of others and messages.
* **`TransportProofs`**: `ImplementsFlatten` shows that a transport only feeds
  `Flatten` with items. `HeaderIntactHolds` rests on lemmas about the formats:
  what is written of a message is laid out field after field
  (`ExtendedHeaderFields`, `ProtoHeaderEncodes`), and `ReadUndoesWrite`: from the
  first bytes of a message, however many, reading gives the header that was
  written and the part of the body that is there, or fails if the header is not
  whole. For the loop, the results of an item are a line
  (`Line`), of which a part has passed (`Passed`): what waits is the rest of it
  (`Rest`), what was dispatched is what was good of what passed (`Faithful`),
  and the loop stops at the first fatal result (`Stops`). `InOrderHolds` and
  `DamageContainedHolds` follow. For `FramesAsSentHolds`, the bytes buffered and
  on the wire are one `Stream`: after a byte of a frame comes the rest of the
  frame, and then the next frame, whole; where a chunk ends does not matter
  (`Delivered`), and the decoder takes exactly the first frame (`StreamFront`).
  Which frame an item comes from depends on how many frames each phase of
  connecting has taken (`Phases`), and on an error of the transport being the
  last item (`Ending`: the loop is about to stop, or the codec is broken).
  `EndToEndHolds` puts the parts together, from the bytes of the server to the
  dispatch: what is dispatched at `<<n, k>>` is what child `k` of frame `n` behind
  the handshake carried, header and all of the body that was sent. No run
  checks `EndToEnd`, as it follows from `HeaderIntact` and `FramesAsSent`, which
  `transport` checks.
* **`ServerListProofs`**: `RoundRobinHolds` and `ListsEveryServerHolds`, for any
  number of servers and threads. A server was offered once more than another
  exactly if the cycle has passed it in this round (`Even`); an unfinished
  listing is the last stretch of the cycle (`Listings`), hence without repeats.
* **`HeartbeatProofs`**: `BeatsWhileHeldHolds` (the token is cancelled exactly
  when no clone is left, `Guarded`) and `AtMostOneLateHolds` (after a late
  heartbeat the task has stopped, `LateStops`).

Only model-checked: liveness (`DispatchCompletes`, `EndsUnlessBlocked`,
`HandshakeEnds`, `CallsEnd`, `EndsUnlessCutOff`, `HeartbeatEnds`), whose proofs
need fairness and ENABLED, which this prover does not support; and the four
counterexamples, which are behaviours of an instance. `Bounded` of the filter is
proved and not checked by a run, as are the type invariants of `Heartbeat` and
`ServerList`, which are part of their inductive invariants.

## Not modelled

* The sending half of `transport/tcp.rs`, which is private and unused, and that of
  the websocket, which maps a library sink.
* Bodies of messages: they are opaque, as only generated code looks into them.
  The `eresult` of a header is an outcome of a call. Optional fields of a
  protobuf header are two bytes each, as their encoding belongs to prost.
* The cryptography: pure functions that call libraries. What does not decrypt is
  an item that fails (`Transport`).
* The pace of polling (`auth/mod.rs:166` asks again at once after news without
  tokens): there is no time in the models.
* A code that is typed after the login was confirmed on a device is submitted all
  the same, and an error answer fails the login (`unauthenticated.rs:126`).
  `Login` has these steps; no property forbids them, as nothing in the
  repository promises otherwise.
* The tasks of a coordinator that is dropped: they end with the connection.
* The generator of the protobuf crates, which runs at build time; its output, some
  89,000 of the 94,650 lines of the repository, tables without behaviour, hence
  the small share of lines that any model could stand for; the examples.
* Time: a timeout may fire whenever the call it guards has no answer.

## Plan

Done: `MessageFilter` first, as everything passes through it; then `JobCalls`
over it with its abstract specification; the parts with state of their own;
the way of bytes to the filter (`Wire`, `Flatten`, `Transport`); calls of a
coordinator, which implement the same abstract specification.

The safety of all of them is proved. Two steps would bring the parts closer
together:

1. `Login` over `JobCalls`: the replaced counter under the same filter, which
   `CleanSession` makes safe, with a theorem of the composition.
2. A common module for the dispatch of a `GameCoordinator` and `MessageFilter`, of
   which it is the instance with one kind. Its steps are translated from the same
   lines, but one step of the coordinator's dispatch stands for several of
   `MessageFilter`, so that a refinement would need auxiliary variables.
