-------------------------------- MODULE Wire --------------------------------
(***************************************************************************)
(* Headers on the wire: NetMessageHeader::write with from_message_with_kind*)
(* and into_bytes, and RawNetMessage::read with NetMessageHeader::read     *)
(* (net.rs).  The server writes what the client writes and reads what it   *)
(* reads; the three messages of the TCP handshake, whose headers differ,   *)
(* are in Transport.                                                       *)
(*                                                                         *)
(* A byte is <<field, value, k>>: byte k of the value of a field.  What is *)
(* read over the bytes of another field is the value of that one.          *)
(***************************************************************************)
EXTENDS Integers, Sequences

\* EMsg, as far as net.rs and flatten_multi look at it.
Kinds == {"Multi", "ServiceMethodCallFromClientNonAuthed",
          "ServiceMethodCallFromClient", "other"}
ServiceCalls == Kinds \ {"Multi", "other"}

\* 0 is the default of a field: JobId::NONE, the nil steam id, None.
HeaderFields == {"source_job_id", "target_job_id", "steam_id", "session_id",
                 "target_job_name", "source_app_id"}
NoHeader == [f \in HeaderFields |-> 0]

Header == [HeaderFields -> Nat]
Message == [kind: Kinds, is_protobuf: BOOLEAN, header: Header, body: Nat]

Word(field, value, width) == [k \in 1..width |-> <<field, value, k>>]

-----------------------------------------------------------------------------
(* NetMessageHeader::proto_header, as prost encodes it: the fields that are *)
(* there, in the order of their tags, each of two or more bytes.            *)

IsSet(m, f) == IF f = "realm" THEN m.kind \in ServiceCalls ELSE m.header[f] # 0
Value(m, f) ==
    CASE f = "realm" -> 1
      [] f = "steam_id" /\ m.kind = "ServiceMethodCallFromClientNonAuthed" -> 0
      [] OTHER -> m.header[f]

Field(m, f) == IF IsSet(m, f) THEN Word(f, Value(m, f), 2) ELSE <<>>
ProtoHeader(m) ==
    Field(m, "steam_id") \o Field(m, "session_id") \o Field(m, "source_app_id")
    \o Field(m, "source_job_id") \o Field(m, "target_job_id")
    \o Field(m, "target_job_name") \o Field(m, "realm")

\* A prefix of it decodes if it does not end within a field.
Decodes(bytes) == Len(bytes) % 2 = 0
FromProto(bytes) ==
    [f \in HeaderFields |->
        IF \E k \in DOMAIN bytes : bytes[k][1] = f
        THEN bytes[CHOOSE k \in DOMAIN bytes : bytes[k][1] = f][2] ELSE 0]

-----------------------------------------------------------------------------
(* Writing. *)

HeaderBytes(m) ==
    LET h == m.header
    IN  Word("kind", <<m.kind, m.is_protobuf>>, 4) \o
        IF m.is_protobuf
        THEN Word("length", Len(ProtoHeader(m)), 4) \o ProtoHeader(m)
        ELSE Word("size", 32, 1) \o Word("version", 2, 2)
             \o Word("target_job_id", h.target_job_id, 8)
             \o Word("source_job_id", h.source_job_id, 8) \o Word("canary", 239, 1)
             \o Word("steam_id", h.steam_id, 8) \o Word("session_id", h.session_id, 4)

BodyBytes(m) == Word("body", 0, m.body)
Written(m) == HeaderBytes(m) \o BodyBytes(m)

-----------------------------------------------------------------------------
(* Reading. *)

Fails(how) == [is |-> how, header |-> NoHeader, body |-> <<>>]
Succeeds(kind, header, body) ==
    [is |-> IF kind = "Multi" THEN "multi" ELSE "message",
     header |-> header, body |-> body]

ReadExtended(kind, bytes) ==
    IF Len(bytes) < 36 THEN Fails("fatal")
    ELSE Succeeds(kind,
           [NoHeader EXCEPT !.target_job_id = bytes[4 + 3 + 1][2],
                            !.source_job_id = bytes[4 + 3 + 8 + 1][2],
                            !.steam_id      = bytes[4 + 3 + 8 + 8 + 1 + 1][2],
                            !.session_id    = bytes[4 + 3 + 8 + 8 + 1 + 8 + 1][2]],
           SubSeq(bytes, 4 + 3 + 8 + 8 + 1 + 8 + 4 + 1, Len(bytes)))

\* The header is decoded from what there is of it, before split_to finds
\* that some is missing.
Upto(bytes, end) == IF end < Len(bytes) THEN end ELSE Len(bytes)

ReadProtoClamped(kind, bytes) ==             \* for a mutant: split what is there
    IF Len(bytes) < 8 THEN Fails("fatal")
    ELSE LET end    == Upto(bytes, 8 + bytes[5][2])
             header == SubSeq(bytes, 9, end)
         IN  IF Decodes(header)
             THEN Succeeds(kind, FromProto(header), SubSeq(bytes, end + 1, Len(bytes)))
             ELSE Fails("invalid")
ReadProto(kind, bytes) ==
    IF Len(bytes) < 8 THEN Fails("fatal")
    ELSE LET end    == 8 + bytes[5][2]
             header == SubSeq(bytes, 9, Upto(bytes, end))
         IN  CASE ~Decodes(header)    -> Fails("invalid")
               [] Decodes(header) /\ Len(bytes) < end -> Fails("fatal")
               [] OTHER -> Succeeds(kind, FromProto(header),
                                    SubSeq(bytes, end + 1, Len(bytes)))

Read(bytes) ==
    IF Len(bytes) < 4 THEN Fails("invalid")
    ELSE LET kind == bytes[1][2]
         IN  IF kind[2] THEN ReadProto(kind[1], bytes)
             ELSE ReadExtended(kind[1], bytes)

\* What of a header reaches the other side.
Carried(m) ==
    IF m.is_protobuf
    THEN [f \in HeaderFields |-> Value(m, f)]
    ELSE [m.header EXCEPT !.target_job_name = 0, !.source_app_id = 0]
=============================================================================
