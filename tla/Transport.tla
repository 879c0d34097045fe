----------------------------- MODULE Transport -----------------------------
(***************************************************************************)
(* The transports below Flatten.  A websocket (transport/websocket.rs)     *)
(* delivers items whole.  TCP (transport/tcp.rs) delivers bytes in chunks  *)
(* of any size, which FrameCodec cuts into frames again; its first two     *)
(* frames are the channel encryption handshake, read by the same           *)
(* FramedRead as what follows them.                                        *)
(*                                                                         *)
(* The server sends frames, a byte of which is <<frame, index>>.  What     *)
(* decrypts to nonsense is an item that fails, fatally if it has fewer     *)
(* than the sixteen bytes split_off wants.                                 *)
(***************************************************************************)
EXTENDS Flatten

CONSTANTS
    Connections,  \* what the server may send, over which transport
    HeaderLength  \* 8

Frame == [length: Nat, magic: BOOLEAN, item: Item]

ASSUME TransportAssumption ==
    /\ HeaderLength \in Nat \ {0}
    /\ Connections \subseteq [transport: {"websocket", "tcp"}, frames: Seq(Frame)]

VARIABLES
    connection, \* one of Connections
    sent,       \* of TCP: how many of the frames the server has sent
    wire,       \* bytes of them the socket has not delivered yet
    buffer,     \* bytes in the FramedRead that are not decoded yet
    decoded,    \* the frames, or items of the websocket, taken so far
    phase       \* of connect: "request", "result", then "connected" or
                \* "failed"; "broken" after an error of decode

tcp  == <<sent, wire, buffer>>
vars == <<flattenVars, connection, tcp, decoded, phase>>

frames == connection.frames
Bytes(n) == [k \in 1..HeaderLength + frames[n].length |-> <<n, k>>]
Body(n) == [k \in 1..frames[n].length |-> <<n, HeaderLength + k>>]

Init ==
    /\ FlattenInit /\ connection \in Connections
    /\ sent = 0 /\ wire = <<>> /\ buffer = <<>> /\ decoded = <<>>
    /\ phase = IF connection.transport = "tcp" THEN "request" ELSE "connected"

-----------------------------------------------------------------------------
(* The websocket. *)

PullItem ==
    /\ connection.transport = "websocket" /\ Len(items) < Len(frames)
    /\ Pull(frames[Len(items) + 1].item)
    /\ decoded' = Append(decoded, Body(Len(items) + 1))
    /\ UNCHANGED <<connection, tcp, phase>>

CloseWebsocket ==
    /\ connection.transport = "websocket" /\ SourceEnds
    /\ UNCHANGED <<connection, tcp, decoded, phase>>

-----------------------------------------------------------------------------
(* TCP. *)

\* FrameCodec::decode: what the first bytes of the buffer are.
FirstBytes == SubSeq(buffer, 1, HeaderLength)
IsHeader(n) == FirstBytes = SubSeq(Bytes(n), 1, HeaderLength) /\ frames[n].magic
Decode ==
    IF Len(buffer) < HeaderLength THEN "more"
    ELSE IF \A n \in DOMAIN frames : ~IsHeader(n) THEN "invalid"
    ELSE IF Len(buffer) < HeaderLength + frames[buffer[1][1]].length THEN "more"
    ELSE "frame"

\* With a frame at hand: its bytes are split off.
SplitClearing ==                             \* for a mutant: the rest is lost
    LET length == frames[buffer[1][1]].length
    IN  /\ decoded' = Append(decoded, SubSeq(buffer, HeaderLength + 1, HeaderLength + length))
        /\ buffer' = <<>>
Split ==
    LET length == frames[buffer[1][1]].length
    IN  /\ decoded' = Append(decoded, SubSeq(buffer, HeaderLength + 1, HeaderLength + length))
        /\ buffer' = SubSeq(buffer, HeaderLength + length + 1, Len(buffer))

\* The FramedRead is polled: by connect, or when flat_map wants an item.
Polled ==
    /\ connection.transport = "tcp" /\ stage = "next" /\ phase # "failed"
    /\ current = <<>>

Send ==
    /\ connection.transport = "tcp" /\ sent < Len(frames) /\ sent' = sent + 1
    /\ wire' = wire \o Bytes(sent + 1)
    /\ UNCHANGED <<flattenVars, connection, buffer, decoded, phase>>

\* It reads from the socket when decode wants more.
Chunk(n) ==
    /\ Polled /\ Decode = "more" /\ n \in 1..Len(wire)
    /\ buffer' = buffer \o SubSeq(wire, 1, n)
    /\ wire' = SubSeq(wire, n + 1, Len(wire))
    /\ UNCHANGED <<flattenVars, connection, sent, decoded, phase>>

\* One of the two messages of the handshake.  It may not be the one expected,
\* or deny the encryption.
Handshake ==
    /\ Polled /\ phase \in {"request", "result"} /\ Decode = "frame"
    /\ Split
    /\ phase' \in {IF phase = "request" THEN "result" ELSE "connected", "failed"}
    /\ UNCHANGED <<flattenVars, connection, sent, wire>>

NoPacket == [message |-> [kind |-> "other", is_protobuf |-> FALSE,
                          header |-> NoHeader, body |-> 0], arrives |-> 0]
Failed(how) ==
    [fails |-> how, packet |-> NoPacket, children |-> <<>>, body |-> "whole"]

PullFrame ==
    /\ Polled /\ phase = "connected" /\ Decode = "frame"
    /\ Split /\ Pull(frames[buffer[1][1]].item)
    /\ UNCHANGED <<connection, sent, wire, phase>>

\* After an error of decode, the FramedRead yields nothing more.
BadHeader ==
    /\ Polled /\ phase # "broken" /\ Decode = "invalid"
    /\ IF phase = "connected" THEN phase' = "broken" /\ Pull(Failed("invalid"))
       ELSE phase' = "failed" /\ UNCHANGED flattenVars
    /\ UNCHANGED <<connection, tcp, decoded>>

\* The peer closes, whatever is still on its way: in the middle of a frame
\* that is an IO error (decode_eof).
CloseTcp ==
    /\ Polled /\ (phase = "broken" \/ Decode = "more")
    /\ CASE phase \in {"request", "result"} -> phase' = "failed" /\ UNCHANGED flattenVars
         [] phase = "connected" /\ buffer # <<>> -> Pull(Failed("fatal")) /\ UNCHANGED phase
         [] OTHER -> SourceEnds /\ UNCHANGED phase
    /\ UNCHANGED <<connection, tcp, decoded>>

Loop == phase \in {"connected", "broken"} /\ Dispatch
        /\ UNCHANGED <<connection, tcp, decoded, phase>>

Next ==
    \/ PullItem
    \/ CloseWebsocket
    \/ Send
    \/ \E n \in DOMAIN wire : Chunk(n)
    \/ Handshake
    \/ PullFrame
    \/ BadHeader
    \/ CloseTcp
    \/ Loop

Spec == Init /\ [][Next]_vars

-----------------------------------------------------------------------------
(* Properties. *)

\* The frames read by connect, and the items no frame carried.
HandshakeFrames == IF connection.transport = "tcp" THEN 2 ELSE 0
Errors == IF connection.transport = "tcp" THEN {Failed("invalid"), Failed("fatal")}
          ELSE {}

\* Whatever the chunks in which the socket delivers the bytes, the frames
\* decoded are the ones sent: each of them, whole, in order.  Item n is what
\* frame n behind the handshake carried, and nothing is taken after an error:
\* connect neither leaves a frame to the stream of items nor takes one of its
\* (tcp.rs lines 40-60, 158-197).
FramesAsSent ==
    /\ \A i \in DOMAIN decoded : i \in DOMAIN frames /\ decoded[i] = Body(i)
    /\ \A i \in DOMAIN items :
         LET n == i + HandshakeFrames
         IN  \/ n \in DOMAIN decoded /\ items[i] = frames[n].item
             \/ i = Len(items) /\ n = Len(decoded) + 1 /\ items[i] \in Errors
=============================================================================
