---------------------------- MODULE MCTransport ----------------------------
(* Small instances of Transport for TLC. *)
EXTENDS Transport, SequencesExt

CONSTANTS MaxItems, MaxChildren, MaxLength

\* Every set of fields that are set, each to a value of its own.
Code == [source_job_id |-> 1, target_job_id |-> 2, steam_id |-> 3, session_id |-> 4,
         target_job_name |-> 5, source_app_id |-> 6]
Headers == {[f \in HeaderFields |-> IF f \in set THEN Code[f] ELSE 0] :
              set \in SUBSET HeaderFields}
Messages == [kind: Kinds, is_protobuf: BOOLEAN, header: Headers, body: {1}]

\* Every message, cut off at every byte.
Packets == UNION {[message: {m}, arrives: 0..Len(Written(m))] : m \in Messages}

\* One packet for each result of reading, and each way to fail.
Sample(kind, is_protobuf) ==
    [kind |-> kind, is_protobuf |-> is_protobuf, header |-> Code, body |-> 1]
Whole(m) == [message |-> m, arrives |-> Len(Written(m))]
Cut(m, n) == [message |-> m, arrives |-> n]
Samples == {Whole(Sample("other", FALSE)), Whole(Sample("Multi", TRUE)),
            Cut(Sample("other", TRUE), 3), Cut(Sample("other", TRUE), 12)}

Plain(p) == [fails |-> "no", packet |-> p, children |-> <<>>, body |-> "whole"]
OwnItems == {Plain(p) : p \in Samples} \cup {Failed("invalid"), Failed("fatal")}
MultiItems ==
    [fails: {"no"}, packet: {Whole(Sample("Multi", TRUE))},
     children: BoundedSeq(Samples, MaxChildren),
     body: {"whole", "cut_in_size", "cut_in_child"}]
    \cup {[Plain(Whole(Sample("Multi", TRUE))) EXCEPT !.body = "garbled"]}

\* Over the websocket a single packet of any kind, or any items; over TCP
\* frames of different lengths, the first two for the handshake, some with a
\* bad magic number.
Over(transport, n, lengths, magic, its) ==
    [transport: {transport},
     frames: [1..n -> [length: lengths, magic: magic, item: its]]]
SmallConnections ==
    Over("websocket", 1, {1}, {TRUE}, {Plain(p) : p \in Packets})
    \cup Over("websocket", MaxItems, {1}, {TRUE}, OwnItems \cup MultiItems)
    \cup Over("tcp", 2 + MaxItems, 1..MaxLength, BOOLEAN,
              {Plain(Whole(Sample("other", b))) : b \in BOOLEAN})
=============================================================================
