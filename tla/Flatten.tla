------------------------------ MODULE Flatten ------------------------------
(***************************************************************************)
(* From an item of the transport to the dispatch of the messages in it:    *)
(* RawNetMessage::read (net.rs), flatten_multi and MultiBodyIter           *)
(* (message.rs), and what the loop of connection/filter.rs makes of an     *)
(* error.  A dispatch itself is in MessageFilter.                          *)
(*                                                                         *)
(* A packet is a message of which only the first bytes arrived.  Reading   *)
(* it (Wire) gives                                                         *)
(*   "message"  any message but a Multi;                                   *)
(*   "multi"    a Multi, whose children are what is dispatched.  A Multi   *)
(*              among them is dispatched itself: flatten_multi does not    *)
(*              look at what it yields;                                    *)
(*   "invalid"  an error the loop logs and skips: fewer than four bytes, a *)
(*              protobuf header that does not decode;                      *)
(*   "fatal"    an error that ends the loop: an IO error, as the bytes end *)
(*              within the header.  Also a protobuf header of which some   *)
(*              is missing and the rest decodes: split_to panics (net.rs   *)
(*              line 277), which ends the task.                            *)
(* The transport itself may fail in the two ways: a frame with a bad magic *)
(* number, an error of the websocket.                                      *)
(***************************************************************************)
EXTENDS Wire, Functions

Packet == {p \in [message: Message, arrives: Nat] : p.arrives <= Len(Written(p.message))}

\* The body of a Multi may be no CMsgMulti at all, or break off after some
\* children: inside of a child, or where the size of one is expected.
Item == [fails: {"no", "invalid", "fatal"}, packet: Packet, children: Seq(Packet),
         body: {"whole", "garbled", "cut_in_size", "cut_in_child"}]

ReadPacket(p) == Read(SubSeq(Written(p.message), 1, p.arrives))
ReadItem(item) == IF item.fails = "no" THEN ReadPacket(item.packet) ELSE Fails(item.fails)

VARIABLES
    items,     \* the items pulled from the transport so far
    current,   \* the results the last of them still has to yield
    stage,     \* of the loop: "next", or how it ended, "end" or "error"
    dispatched \* what was dispatched, and its place, <<item, child>>

flattenVars == <<items, current, stage, dispatched>>

FlattenInit ==
    items = <<>> /\ current = <<>> /\ stage = "next" /\ dispatched = <<>>

\* MultiBodyIter: what one item yields.  A size that cannot be read ends it
\* without an error, at the end of the body and anywhere else.
ChildrenCollected(item) ==                   \* for a mutant: collect()?
    LET all == [k \in DOMAIN item.children |-> ReadPacket(item.children[k])]
    IN  IF \E k \in DOMAIN all : all[k].is = "invalid" THEN <<Fails("invalid")>> ELSE all
Children(item) ==
    [k \in DOMAIN item.children |-> ReadPacket(item.children[k])]
    \o (IF item.body = "cut_in_child" THEN <<Fails("fatal")>> ELSE <<>>)

\* The closure given to flat_map.
Flattened(item) ==
    IF ReadItem(item).is # "multi" THEN <<ReadItem(item)>>
    ELSE IF item.body = "garbled" THEN <<Fails("invalid")>>
    ELSE Children(item)

Results(item, n) ==
    [k \in DOMAIN Flattened(item) |-> [at |-> <<n, k>>, read |-> Flattened(item)[k]]]

\* flat_map polls its source when the current iterator has ended.
PullEagerly(item) ==                         \* for a mutant: flatten_unordered
    /\ stage = "next" /\ items' = Append(items, item)
    /\ current' = Results(item, Len(items) + 1) \o current
    /\ UNCHANGED <<stage, dispatched>>
Pull(item) ==
    /\ stage = "next" /\ current = <<>> /\ items' = Append(items, item)
    /\ current' = Results(item, Len(items) + 1)
    /\ UNCHANGED <<stage, dispatched>>

\* The loop takes the next result.
Dispatch ==
    /\ stage = "next" /\ current # <<>> /\ current' = Tail(current)
    /\ dispatched' = IF Head(current).read.is \in {"message", "multi"}
                     THEN Append(dispatched, Head(current)) ELSE dispatched
    /\ stage' = IF Head(current).read.is = "fatal" THEN "error" ELSE stage
    /\ UNCHANGED items

SourceEnds ==
    /\ stage = "next" /\ current = <<>> /\ stage' = "end"
    /\ UNCHANGED <<items, current, dispatched>>

FlattenNext == (\E item \in Item : Pull(item)) \/ Dispatch \/ SourceEnds

FlattenSpec == FlattenInit /\ [][FlattenNext]_flattenVars

-----------------------------------------------------------------------------
(* Properties. *)

Before(p, q) == p[1] < q[1] \/ (p[1] = q[1] /\ p[2] < q[2])

\* Messages are dispatched in the order in which the server put them into
\* items and Multis, and none twice (message.rs lines 183-192).
InOrder ==
    \A i, j \in DOMAIN dispatched : i < j => Before(dispatched[i].at, dispatched[j].at)

\* Where the items have a readable message, and damage that ends the loop.
Multis == {n \in DOMAIN items : ReadItem(items[n]).is = "multi" /\ items[n].body # "garbled"}
At(results) ==
    {<<n, 1>> : n \in {n \in DOMAIN items \ Multis : ReadItem(items[n]).is \in results}}
    \cup {p \in UNION {{n} \X DOMAIN items[n].children : n \in Multis} :
             ReadPacket(items[p[1]].children[p[2]]).is \in results}

Readable == At({"message"}) \cup {p \in At({"multi"}) : p[1] \in Multis}
Fatal == At({"fatal"}) \cup {<<n, Len(items[n].children) + 1>> :
                            n \in {n \in Multis : items[n].body = "cut_in_child"}}

Waiting == {current[i].at : i \in DOMAIN current}
Dispatched == {dispatched[i].at : i \in DOMAIN dispatched}

\* Damage harms nobody but the damaged: a message that could be read is
\* dispatched in its turn, unless fatal damage came before it, whatever
\* errors the items and children before it and after it gave; and nothing
\* else is dispatched (message.rs lines 183-239, filter.rs lines 118-127).
DamageContained ==
    /\ Dispatched \subseteq Readable
    /\ \A p \in Readable : stage = "error" \/ p \notin Waiting =>
           (p \in Dispatched <=> ~\E q \in Fatal : Before(q, p))

\* A message is dispatched with the header it was sent with, job ids and all,
\* and with all of its body that arrived: what was cut off within its header
\* is never dispatched with the half of it, and where the header ends is never
\* mistaken (net.rs lines 101-227, 259-288).
HeaderIntact ==
    \A i \in DOMAIN dispatched :
        LET d == dispatched[i]
            item == items[d.at[1]]
            p == IF d.at[1] \in Multis THEN item.children[d.at[2]] ELSE item.packet
            header == Len(HeaderBytes(p.message))
        IN  /\ header <= p.arrives
            /\ d.read = Succeeds(p.message.kind, Carried(p.message),
                           SubSeq(BodyBytes(p.message), 1, p.arrives - header))
=============================================================================
