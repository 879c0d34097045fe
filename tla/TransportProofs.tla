-------------------------- MODULE TransportProofs --------------------------
(***************************************************************************)
(* Proofs about Wire, Flatten and Transport: for any messages, cut off     *)
(* anywhere, any items and any frames, in any chunks.                      *)
(***************************************************************************)
EXTENDS Transport, TLAPS

-----------------------------------------------------------------------------
(* Sequences. *)

IsSeq(s) == \E S : s \in Seq(S)

LEMMA SeqFacts ==
    ASSUME NEW s, IsSeq(s) PROVE Len(s) \in Nat /\ DOMAIN s = 1..Len(s)
  BY DEF IsSeq

LEMMA FunctionIsSeq ==
    ASSUME NEW n \in Nat, NEW s, DOMAIN s = 1..n, s = [k \in 1..n |-> s[k]]
    PROVE  IsSeq(s) /\ Len(s) = n
  <1> DEFINE S == {s[k] : k \in 1..n}
  <1>1. s \in [1..n -> S]
    OBVIOUS
  <1>2. s \in Seq(S)
    <2> HIDE DEF S
    <2> QED
      BY <1>1
  <1>3. Len(s) = n
    <2> HIDE DEF S
    <2> QED
      BY <1>1, <1>2
  <1> HIDE DEF S
  <1> QED
    BY <1>2, <1>3 DEF IsSeq

LEMMA Join ==
    ASSUME NEW s, NEW t, IsSeq(s), IsSeq(t)
    PROVE  /\ IsSeq(s \o t) /\ Len(s \o t) = Len(s) + Len(t)
           /\ Len(s) \in Nat /\ Len(t) \in Nat
           /\ \A k \in 1..Len(s) : (s \o t)[k] = s[k]
           /\ \A k \in 1..Len(t) : (s \o t)[Len(s) + k] = t[k]
  <1>1. PICK S : s \in Seq(S)
    BY DEF IsSeq
  <1>2. PICK T : t \in Seq(T)
    BY DEF IsSeq
  <1> DEFINE U == S \cup T
  <1>3. s \in Seq(U) /\ t \in Seq(U)
    BY <1>1, <1>2
  <1> HIDE DEF U
  <1>4. s \o t \in Seq(U)
    BY <1>3
  <1> QED
    BY <1>3, <1>4 DEF IsSeq

LEMMA Part ==
    ASSUME NEW s, IsSeq(s), NEW a \in Nat, NEW b \in Nat, b <= Len(s), a <= b
    PROVE  /\ IsSeq(SubSeq(s, a + 1, b)) /\ Len(SubSeq(s, a + 1, b)) = b - a
           /\ \A k \in 1..(b - a) : SubSeq(s, a + 1, b)[k] = s[a + k]
  <1>1. PICK S : s \in Seq(S)
    BY DEF IsSeq
  <1>2. SubSeq(s, a + 1, b) \in Seq(S)
    BY <1>1
  <1>3. Len(SubSeq(s, a + 1, b)) = b - a
    BY <1>1
  <1>4. ASSUME NEW k \in 1..(b - a) PROVE SubSeq(s, a + 1, b)[k] = s[a + k]
    BY <1>1
  <1> QED
    BY <1>2, <1>3, <1>4 DEF IsSeq

LEMMA SeqEqual ==
    ASSUME NEW s, NEW t, IsSeq(s), IsSeq(t), Len(s) = Len(t),
           \A k \in 1..Len(s) : s[k] = t[k]
    PROVE  s = t
  BY DEF IsSeq

LEMMA WordIsSeq ==
    ASSUME NEW field, NEW value, NEW width \in Nat
    PROVE  /\ IsSeq(Word(field, value, width)) /\ Len(Word(field, value, width)) = width
           /\ \A k \in 1..width : Word(field, value, width)[k] = <<field, value, k>>
  <1> DEFINE w == Word(field, value, width)
  <1>1. w = [k \in 1..width |-> <<field, value, k>>]
    BY DEF Word
  <1>2. DOMAIN w = 1..width /\ w = [k \in 1..width |-> w[k]]
    BY <1>1
  <1> HIDE DEF w
  <1>3. IsSeq(w) /\ Len(w) = width
    BY <1>2, FunctionIsSeq
  <1> QED
    BY <1>1, <1>3 DEF w
-----------------------------------------------------------------------------
(* The protobuf header: what of it reaches the other side. *)

AllFields == HeaderFields \cup {"realm"}

\* The fields of fs that are set, and nothing else.
Encodes(bytes, m, fs) ==
    /\ IsSeq(bytes) /\ \E n \in Nat : Len(bytes) = 2 * n
    /\ \A k \in DOMAIN bytes : /\ bytes[k][1] \in fs
                               /\ bytes[k][2] = Value(m, bytes[k][1])
    /\ \A f \in fs : IsSet(m, f) => \E k \in DOMAIN bytes : bytes[k][1] = f

LEMMA FieldEncodes ==
    ASSUME NEW m, NEW f PROVE Encodes(Field(m, f), m, {f})
  <1>1. CASE IsSet(m, f)
    <2> DEFINE w == Word(f, Value(m, f), 2)
    <2>1. Field(m, f) = w
      BY <1>1 DEF Field
    <2>2. IsSeq(w) /\ Len(w) = 2 /\ \A k \in 1..2 : w[k] = <<f, Value(m, f), k>>
      BY WordIsSeq
    <2> HIDE DEF w
    <2>3. DOMAIN w = 1..2
      BY <2>2, SeqFacts
    <2>4. \A k \in DOMAIN w : w[k][1] = f /\ w[k][2] = Value(m, f)
      BY <2>2, <2>3
    <2>5. \E n \in Nat : Len(w) = 2 * n
      BY <2>2
    <2>6. 1 \in DOMAIN w
      BY <2>3
    <2> QED
      BY <2>1, <2>2, <2>4, <2>5, <2>6 DEF Encodes
  <1>2. CASE ~IsSet(m, f)
    <2>1. Field(m, f) = <<>> /\ IsSeq(<<>>)
      <3>1. <<>> \in Seq({})
        OBVIOUS
      <3> QED
        BY <1>2, <3>1 DEF Field, IsSeq
    <2>2. Len(<<>>) = 2 * 0
      OBVIOUS
    <2> QED
      BY <1>2, <2>1, <2>2 DEF Encodes
  <1> QED
    BY <1>1, <1>2

LEMMA JoinEncodes ==
    ASSUME NEW m, NEW b, NEW c, NEW fs, NEW gs, Encodes(b, m, fs), Encodes(c, m, gs)
    PROVE  Encodes(b \o c, m, fs \cup gs)
  <1>0. IsSeq(b) /\ IsSeq(c)
    BY DEF Encodes
  <1>1. /\ IsSeq(b \o c) /\ Len(b \o c) = Len(b) + Len(c)
        /\ Len(b) \in Nat /\ Len(c) \in Nat
        /\ \A k \in 1..Len(b) : (b \o c)[k] = b[k]
        /\ \A k \in 1..Len(c) : (b \o c)[Len(b) + k] = c[k]
    BY <1>0, Join
  <1>2. DOMAIN b = 1..Len(b) /\ DOMAIN c = 1..Len(c) /\ DOMAIN (b \o c) = 1..Len(b \o c)
    BY <1>1, SeqFacts
  <1> DEFINE d == b \o c
  <1> HIDE DEF d
  <1>3. \E n \in Nat : Len(d) = 2 * n
    <2>1. PICK i \in Nat : Len(b) = 2 * i
      BY DEF Encodes
    <2>2. PICK j \in Nat : Len(c) = 2 * j
      BY DEF Encodes
    <2>3. Len(d) = 2 * (i + j)
      BY <1>1, <2>1, <2>2 DEF d
    <2> QED
      BY <2>3
  <1>4. ASSUME NEW k \in DOMAIN d
        PROVE  d[k][1] \in fs \cup gs /\ d[k][2] = Value(m, d[k][1])
    <2>1. CASE k \in 1..Len(b)
      BY <1>1, <1>2, <2>1 DEF d, Encodes
    <2>2. CASE k \notin 1..Len(b)
      <3>1. k - Len(b) \in 1..Len(c) /\ Len(b) + (k - Len(b)) = k
        BY <1>1, <1>2, <2>2 DEF d
      <3>2. d[k] = c[k - Len(b)]
        BY <1>1, <3>1 DEF d
      <3> QED
        BY <1>2, <3>1, <3>2 DEF Encodes
    <2> QED
      BY <2>1, <2>2
  <1>5. ASSUME NEW f \in fs \cup gs, IsSet(m, f)
        PROVE  \E k \in DOMAIN d : d[k][1] = f
    <2>1. CASE f \in fs
      <3>1. PICK k \in DOMAIN b : b[k][1] = f
        BY <1>5, <2>1 DEF Encodes
      <3>2. k \in DOMAIN d /\ d[k] = b[k]
        BY <1>1, <1>2 DEF d
      <3> QED
        BY <3>1, <3>2
    <2>2. CASE f \in gs
      <3>1. PICK k \in DOMAIN c : c[k][1] = f
        BY <1>5, <2>2 DEF Encodes
      <3>2. Len(b) + k \in DOMAIN d /\ d[Len(b) + k] = c[k]
        BY <1>1, <1>2 DEF d
      <3> QED
        BY <3>1, <3>2
    <2> QED
      BY <2>1, <2>2
  <1> QED
    BY <1>1, <1>3, <1>4, <1>5 DEF d, Encodes

LEMMA ProtoHeaderEncodes ==
    ASSUME NEW m PROVE Encodes(ProtoHeader(m), m, AllFields)
  <1> DEFINE e == Field(m, "steam_id")         e1 == {"steam_id"}
             f == e \o Field(m, "session_id")  f1 == e1 \cup {"session_id"}
             g == f \o Field(m, "source_app_id") g1 == f1 \cup {"source_app_id"}
             h == g \o Field(m, "source_job_id") h1 == g1 \cup {"source_job_id"}
             i == h \o Field(m, "target_job_id") i1 == h1 \cup {"target_job_id"}
             j == i \o Field(m, "target_job_name") j1 == i1 \cup {"target_job_name"}
             l == j \o Field(m, "realm")       l1 == j1 \cup {"realm"}
  <1>1. ProtoHeader(m) = l
    BY DEF ProtoHeader
  <1>2. l1 = AllFields
    BY DEF AllFields, HeaderFields
  <1>3. Encodes(e, m, e1)
    BY FieldEncodes
  <1> HIDE DEF e, e1
  <1>4. Encodes(f, m, f1)
    BY <1>3, FieldEncodes, JoinEncodes
  <1> HIDE DEF f, f1
  <1>5. Encodes(g, m, g1)
    BY <1>4, FieldEncodes, JoinEncodes
  <1> HIDE DEF g, g1
  <1>6. Encodes(h, m, h1)
    BY <1>5, FieldEncodes, JoinEncodes
  <1> HIDE DEF h, h1
  <1>7. Encodes(i, m, i1)
    BY <1>6, FieldEncodes, JoinEncodes
  <1> HIDE DEF i, i1
  <1>8. Encodes(j, m, j1)
    BY <1>7, FieldEncodes, JoinEncodes
  <1> HIDE DEF j, j1
  <1>9. Encodes(l, m, l1)
    BY <1>8, FieldEncodes, JoinEncodes
  <1> HIDE DEF l, l1
  <1> QED
    BY <1>1, <1>2, <1>9

\* What is decoded from the whole header is what of it is to reach the other
\* side: prost and NetMessageHeader::from undo proto_header.
LEMMA HeaderDecodes ==
    ASSUME NEW m \in Message, m.is_protobuf
    PROVE  FromProto(ProtoHeader(m)) = Carried(m)
  <1> DEFINE b == ProtoHeader(m)
  <1>1. Encodes(b, m, AllFields)
    BY ProtoHeaderEncodes
  <1> HIDE DEF b
  <1>2. ASSUME NEW f \in HeaderFields
        PROVE  (IF \E k \in DOMAIN b : b[k][1] = f
                THEN b[CHOOSE k \in DOMAIN b : b[k][1] = f][2] ELSE 0) = Value(m, f)
    <2>1. CASE \E k \in DOMAIN b : b[k][1] = f
      <3> DEFINE k == CHOOSE k \in DOMAIN b : b[k][1] = f
      <3>1. k \in DOMAIN b /\ b[k][1] = f
        BY <2>1
      <3> QED
        BY <1>1, <2>1, <3>1 DEF Encodes
    <2>2. CASE ~\E k \in DOMAIN b : b[k][1] = f
      <3>1. ~IsSet(m, f)
        BY <1>1, <2>2 DEF Encodes, AllFields
      <3>2. f # "realm"
        BY DEF HeaderFields
      <3>3. Value(m, f) = 0
        BY <3>1, <3>2, Zenon DEF IsSet, Value
      <3> QED
        BY <2>2, <3>3
    <2> QED
      BY <2>1, <2>2
  <1>3. FromProto(b) = [f \in HeaderFields |->
                          IF \E k \in DOMAIN b : b[k][1] = f
                          THEN b[CHOOSE k \in DOMAIN b : b[k][1] = f][2] ELSE 0]
    BY DEF FromProto
  <1>4. Carried(m) = [f \in HeaderFields |-> Value(m, f)]
    BY DEF Carried
  <1> QED
    BY <1>2, <1>3, <1>4 DEF b
-----------------------------------------------------------------------------
(* What is read of a message that was cut off. *)

\* s stands in t from place n + 1 on.
StandsIn(s, t, n) == n + Len(s) <= Len(t) /\ \A k \in 1..Len(s) : t[n + k] = s[k]

\* Concatenation, opaque to the provers.
Then(s, t) == s \o t

LEMMA JoinStands ==
    ASSUME NEW s, NEW t, IsSeq(s), IsSeq(t)
    PROVE  /\ IsSeq(Then(s, t)) /\ Len(s) \in Nat /\ Len(t) \in Nat
           /\ Len(Then(s, t)) = Len(s) + Len(t)
           /\ \A k \in 1..Len(s) : Then(s, t)[k] = s[k]
           /\ \A k \in 1..Len(t) : Then(s, t)[Len(s) + k] = t[k]
           /\ StandsIn(s, Then(s, t), 0) /\ StandsIn(t, Then(s, t), Len(s))
  <1> DEFINE u == Then(s, t)
  <1>1. /\ IsSeq(u) /\ Len(u) = Len(s) + Len(t)
        /\ Len(s) \in Nat /\ Len(t) \in Nat
        /\ \A k \in 1..Len(s) : u[k] = s[k]
        /\ \A k \in 1..Len(t) : u[Len(s) + k] = t[k]
    BY Join DEF Then
  <1> HIDE DEF u
  <1>2. \A k \in 1..Len(s) : 0 + k = k
    BY <1>1
  <1>3. StandsIn(s, u, 0) /\ StandsIn(t, u, Len(s))
    BY <1>1, <1>2 DEF StandsIn
  <1> QED
    BY <1>1, <1>3 DEF u

LEMMA StandsDeeper ==
    ASSUME NEW s, NEW t, NEW u, NEW i \in Nat, NEW j \in Nat, IsSeq(s), IsSeq(t), IsSeq(u),
           StandsIn(s, t, i), StandsIn(t, u, j)
    PROVE  StandsIn(s, u, j + i)
  <1>1. Len(s) \in Nat /\ Len(t) \in Nat /\ Len(u) \in Nat
    BY SeqFacts
  <1>2. ASSUME NEW k \in 1..Len(s) PROVE u[j + i + k] = s[k]
    <2>1. i + k \in 1..Len(t) /\ t[i + k] = s[k]
      BY <1>1 DEF StandsIn
    <2>2. u[j + (i + k)] = t[i + k]
      BY <2>1 DEF StandsIn
    <2>3. j + (i + k) = j + i + k
      BY <1>1
    <2> QED
      BY <2>1, <2>2, <2>3
  <1>3. j + i + Len(s) <= Len(u)
    BY <1>1 DEF StandsIn
  <1> QED
    BY <1>2, <1>3 DEF StandsIn

\* A whole message: kind, header and body one after the other.
LEMMA Layout ==
    ASSUME NEW kb, NEW hd, NEW bb, IsSeq(kb), IsSeq(hd), IsSeq(bb), Len(kb) = 4,
           NEW w, w = Then(Then(kb, hd), bb)
    PROVE  /\ IsSeq(w) /\ Len(hd) \in Nat /\ Len(bb) \in Nat
           /\ Len(w) = 4 + Len(hd) + Len(bb)
           /\ StandsIn(kb, w, 0) /\ StandsIn(hd, w, 4) /\ StandsIn(bb, w, 4 + Len(hd))
  <1> DEFINE v == Then(kb, hd)
  <1>1. /\ IsSeq(v) /\ Len(hd) \in Nat /\ Len(v) = 4 + Len(hd)
        /\ StandsIn(kb, v, 0) /\ StandsIn(hd, v, 4)
    <2>1. /\ IsSeq(v) /\ Len(hd) \in Nat /\ Len(v) = Len(kb) + Len(hd)
          /\ StandsIn(kb, v, 0) /\ StandsIn(hd, v, Len(kb))
      BY JoinStands, Zenon
    <2> QED
      BY <2>1
  <1>4. w = Then(v, bb)
    OBVIOUS
  <1> HIDE DEF v
  <1>2. /\ IsSeq(w) /\ Len(bb) \in Nat /\ Len(w) = 4 + Len(hd) + Len(bb)
        /\ StandsIn(v, w, 0) /\ StandsIn(bb, w, 4 + Len(hd))
    BY <1>1, <1>4, JoinStands
  <1>3. StandsIn(kb, w, 0 + 0) /\ StandsIn(hd, w, 0 + 4)
    BY <1>1, <1>2, StandsDeeper
  <1> QED
    BY <1>1, <1>2, <1>3

\* The first bytes of it.
LEMMA Arrived ==
    ASSUME NEW w, IsSeq(w), NEW a \in Nat, a <= Len(w)
    PROVE  LET r == SubSeq(w, 1, a)
           IN  IsSeq(r) /\ Len(r) = a /\ \A k \in 1..a : r[k] = w[k]
  <1>1. 0 \in Nat /\ 0 <= a /\ 0 + 1 = 1 /\ a - 0 = a /\ \A k \in 1..a : 0 + k = k
    OBVIOUS
  <1>2. /\ IsSeq(SubSeq(w, 0 + 1, a)) /\ Len(SubSeq(w, 0 + 1, a)) = a - 0
        /\ \A k \in 1..(a - 0) : SubSeq(w, 0 + 1, a)[k] = w[0 + k]
    <2> DEFINE z == 0
    <2>1. z \in Nat /\ z <= a
      OBVIOUS
    <2> HIDE DEF z
    <2>2. /\ IsSeq(SubSeq(w, z + 1, a)) /\ Len(SubSeq(w, z + 1, a)) = a - z
          /\ \A k \in 1..(a - z) : SubSeq(w, z + 1, a)[k] = w[z + k]
      BY <2>1, Part
    <2> QED
      BY <2>2 DEF z
  <1> QED
    BY <1>1, <1>2

\* p is what is behind the e bytes of the header in r, the first a bytes of w,
\* which ends with the body b.
ReadOf(p, r, w, a, e, b) ==
    /\ IsSeq(b) /\ IsSeq(w) /\ e \in Nat /\ StandsIn(b, w, e) /\ Len(w) = e + Len(b)
    /\ a \in Nat /\ e <= a /\ a <= Len(w)
    /\ r = SubSeq(w, 1, a) /\ p = SubSeq(r, e + 1, Len(r))

\* What of the body arrived.
LEMMA BodyIsPrefix ==
    ASSUME NEW p, NEW r, NEW w, NEW a, NEW e, NEW b, ReadOf(p, r, w, a, e, b)
    PROVE  p = SubSeq(b, 1, a - e) /\ Len(p) = a - e /\ a - e \in Nat
  <1> USE DEF ReadOf
  <1> DEFINE q == SubSeq(b, 1, Len(p))
  <1>1. Len(b) \in Nat /\ Len(w) \in Nat
    BY SeqFacts
  <1>2. IsSeq(r) /\ Len(r) = a /\ \A k \in 1..a : r[k] = w[k]
    BY Arrived
  <1>3. IsSeq(p) /\ Len(p) = a - e /\ \A k \in 1..(a - e) : p[k] = r[e + k]
    <2>1. p = SubSeq(r, e + 1, a) /\ a <= Len(r) /\ IsSeq(r)
      BY <1>2
    <2> DEFINE u == SubSeq(r, e + 1, a)
    <2>2. IsSeq(u) /\ Len(u) = a - e /\ \A k \in 1..(a - e) : u[k] = r[e + k]
      BY <2>1, Part, Zenon
    <2> HIDE DEF u
    <2>3. p = u
      BY <2>1 DEF u
    <2> QED
      BY <2>2, <2>3
  <1>4. IsSeq(q) /\ Len(q) = a - e /\ \A k \in 1..(a - e) : q[k] = b[k]
    <2>1. a - e \in Nat /\ a - e <= Len(b)
      BY <1>1
    <2> QED
      BY <1>3, <2>1, Arrived
  <1> HIDE DEF q
  <1>5. ASSUME NEW k \in 1..(a - e) PROVE p[k] = q[k]
    <2>1. e + k \in 1..a /\ k \in 1..Len(b)
      BY <1>1
    <2>2. w[e + k] = b[k]
      BY <2>1 DEF StandsIn
    <2> QED
      BY <1>2, <1>3, <1>4, <2>1, <2>2
  <1>6. p = q
    BY <1>3, <1>4, <1>5, SeqEqual
  <1>7. a - e \in Nat
    OBVIOUS
  <1> QED
    BY <1>3, <1>6, <1>7 DEF q

\* Seven of them, as in an extended header: where some of them begin.
LEMMA ThenOne ==
    ASSUME NEW s, NEW t, IsSeq(s), IsSeq(t), Len(t) > 0
    PROVE  /\ IsSeq(Then(s, t)) /\ Len(s) \in Nat /\ Len(t) \in Nat
           /\ Len(Then(s, t)) = Len(s) + Len(t) /\ Then(s, t)[Len(s) + 1] = t[1]
           /\ \A k \in 1..Len(s) : Then(s, t)[k] = s[k]
  <1>1. /\ IsSeq(Then(s, t)) /\ Len(s) \in Nat /\ Len(t) \in Nat
        /\ Len(Then(s, t)) = Len(s) + Len(t)
        /\ \A k \in 1..Len(t) : Then(s, t)[Len(s) + k] = t[k]
        /\ StandsIn(s, Then(s, t), 0)
    BY JoinStands
  <1>2. \A k \in 1..Len(s) : Then(s, t)[0 + k] = s[k] /\ 0 + k = k
    BY <1>1 DEF StandsIn
  <1>3. 1 \in 1..Len(t)
    BY <1>1
  <1> QED
    BY <1>1, <1>2, <1>3

LEMMA SevenStand ==
    ASSUME NEW w1, NEW w2, NEW w3, NEW w4, NEW w5, NEW w6, NEW w7,
           IsSeq(w1), IsSeq(w2), IsSeq(w3), IsSeq(w4), IsSeq(w5), IsSeq(w6), IsSeq(w7),
           Len(w2) > 0, Len(w3) > 0, Len(w4) > 0, Len(w5) > 0, Len(w6) > 0, Len(w7) > 0
    PROVE  LET b == Then(Then(Then(Then(Then(Then(w1, w2), w3), w4), w5), w6), w7)
           IN  /\ IsSeq(b) /\ Len(b) = Len(w1) + Len(w2) + Len(w3) + Len(w4) + Len(w5)
                                       + Len(w6) + Len(w7)
               /\ b[Len(w1) + Len(w2) + 1] = w3[1]
               /\ b[Len(w1) + Len(w2) + Len(w3) + 1] = w4[1]
               /\ b[Len(w1) + Len(w2) + Len(w3) + Len(w4) + Len(w5) + 1] = w6[1]
               /\ b[Len(w1) + Len(w2) + Len(w3) + Len(w4) + Len(w5) + Len(w6) + 1] = w7[1]
  <1> DEFINE b2 == Then(w1, w2)
             b3 == Then(b2, w3)
             b4 == Then(b3, w4)
             b5 == Then(b4, w5)
             b6 == Then(b5, w6)
             b7 == Then(b6, w7)
  <1>1. /\ IsSeq(b2) /\ Len(b2) = Len(w1) + Len(w2) /\ Len(w1) \in Nat /\ Len(w2) \in Nat
    BY ThenOne
  <1> HIDE DEF b2
  <1>2. /\ IsSeq(b3) /\ Len(b3) = Len(b2) + Len(w3) /\ Len(b2) \in Nat /\ Len(w3) \in Nat
        /\ b3[Len(b2) + 1] = w3[1]
    BY <1>1, ThenOne
  <1> HIDE DEF b3
  <1>3. /\ IsSeq(b4) /\ Len(b4) = Len(b3) + Len(w4) /\ Len(b3) \in Nat /\ Len(w4) \in Nat
        /\ b4[Len(b3) + 1] = w4[1] /\ \A k \in 1..Len(b3) : b4[k] = b3[k]
    BY <1>2, ThenOne
  <1> HIDE DEF b4
  <1>4. /\ IsSeq(b5) /\ Len(b5) = Len(b4) + Len(w5) /\ Len(b4) \in Nat /\ Len(w5) \in Nat
        /\ \A k \in 1..Len(b4) : b5[k] = b4[k]
    BY <1>3, ThenOne
  <1> HIDE DEF b5
  <1>5. /\ IsSeq(b6) /\ Len(b6) = Len(b5) + Len(w6) /\ Len(b5) \in Nat /\ Len(w6) \in Nat
        /\ b6[Len(b5) + 1] = w6[1] /\ \A k \in 1..Len(b5) : b6[k] = b5[k]
    <2>1. IsSeq(b5) /\ IsSeq(w6) /\ Len(w6) > 0
      BY <1>4
    <2> QED
      BY <2>1, ThenOne
  <1> HIDE DEF b6
  <1>6. /\ IsSeq(b7) /\ Len(b7) = Len(b6) + Len(w7) /\ Len(b6) \in Nat /\ Len(w7) \in Nat
        /\ b7[Len(b6) + 1] = w7[1] /\ \A k \in 1..Len(b6) : b7[k] = b6[k]
    <2>1. IsSeq(b6) /\ IsSeq(w7) /\ Len(w7) > 0
      BY <1>5
    <2> QED
      BY <2>1, ThenOne
  <1>7. Then(Then(Then(Then(Then(Then(w1, w2), w3), w4), w5), w6), w7) = b7
    BY DEF b2, b3, b4, b5, b6
  <1> HIDE DEF b7
  <1>8. /\ Len(b2) + 1 \in 1..Len(b3) /\ Len(b2) + 1 \in 1..Len(b4)
        /\ Len(b2) + 1 \in 1..Len(b5) /\ Len(b2) + 1 \in 1..Len(b6)
    BY <1>2, <1>3, <1>4, <1>5, <1>6
  <1>9. /\ Len(b3) + 1 \in 1..Len(b4) /\ Len(b3) + 1 \in 1..Len(b5)
        /\ Len(b3) + 1 \in 1..Len(b6) /\ Len(b5) + 1 \in 1..Len(b6)
    BY <1>2, <1>3, <1>4, <1>5, <1>6
  <1>10. b7[Len(b2) + 1] = w3[1]
    BY <1>2, <1>3, <1>4, <1>5, <1>6, <1>8
  <1>11. b7[Len(b3) + 1] = w4[1] /\ b7[Len(b5) + 1] = w6[1]
    BY <1>3, <1>4, <1>5, <1>6, <1>9
  <1>12. /\ Len(b3) = Len(w1) + Len(w2) + Len(w3)
         /\ Len(b5) = Len(w1) + Len(w2) + Len(w3) + Len(w4) + Len(w5)
         /\ Len(b6) = Len(w1) + Len(w2) + Len(w3) + Len(w4) + Len(w5) + Len(w6)
    BY <1>1, <1>2, <1>3, <1>4, <1>5
  <1> QED
    BY <1>1, <1>6, <1>7, <1>10, <1>11, <1>12

ExtendedHeader(h) ==
    Then(Then(Then(Then(Then(Then(Word("size", 32, 1), Word("version", 2, 2)),
                             Word("target_job_id", h.target_job_id, 8)),
                        Word("source_job_id", h.source_job_id, 8)),
                   Word("canary", 239, 1)),
              Word("steam_id", h.steam_id, 8)),
         Word("session_id", h.session_id, 4))

LEMMA ExtendedHeaderFields ==
    ASSUME NEW h
    PROVE  LET b == ExtendedHeader(h)
           IN  /\ IsSeq(b) /\ Len(b) = 32
               /\ b[4] = <<"target_job_id", h.target_job_id, 1>>
               /\ b[12] = <<"source_job_id", h.source_job_id, 1>>
               /\ b[21] = <<"steam_id", h.steam_id, 1>>
               /\ b[29] = <<"session_id", h.session_id, 1>>
  <1> DEFINE w1 == Word("size", 32, 1)
             w2 == Word("version", 2, 2)
             w3 == Word("target_job_id", h.target_job_id, 8)
             w4 == Word("source_job_id", h.source_job_id, 8)
             w5 == Word("canary", 239, 1)
             w6 == Word("steam_id", h.steam_id, 8)
             w7 == Word("session_id", h.session_id, 4)
             b  == Then(Then(Then(Then(Then(Then(w1, w2), w3), w4), w5), w6), w7)
  <1>1. /\ IsSeq(w1) /\ IsSeq(w2) /\ IsSeq(w3) /\ IsSeq(w4) /\ IsSeq(w5) /\ IsSeq(w6)
        /\ IsSeq(w7) /\ Len(w1) = 1 /\ Len(w2) = 2 /\ Len(w3) = 8 /\ Len(w4) = 8
        /\ Len(w5) = 1 /\ Len(w6) = 8 /\ Len(w7) = 4
    <2>1. 1 \in Nat /\ 2 \in Nat /\ 4 \in Nat /\ 8 \in Nat
      OBVIOUS
    <2>2. IsSeq(w1) /\ Len(w1) = 1
      BY <2>1, WordIsSeq, Zenon
    <2>3. IsSeq(w2) /\ Len(w2) = 2
      BY <2>1, WordIsSeq, Zenon
    <2>4. IsSeq(w3) /\ Len(w3) = 8
      BY <2>1, WordIsSeq, Zenon
    <2>5. IsSeq(w4) /\ Len(w4) = 8
      BY <2>1, WordIsSeq, Zenon
    <2>6. IsSeq(w5) /\ Len(w5) = 1
      <3>1. \A v : IsSeq(Word("canary", v, 1)) /\ Len(Word("canary", v, 1)) = 1
        BY <2>1, WordIsSeq, Zenon
      <3> QED
        BY <3>1
    <2>7. IsSeq(w6) /\ Len(w6) = 8
      BY <2>1, WordIsSeq, Zenon
    <2>8. IsSeq(w7) /\ Len(w7) = 4
      BY <2>1, WordIsSeq, Zenon
    <2> QED
      BY <2>2, <2>3, <2>4, <2>5, <2>6, <2>7, <2>8, Zenon
  <1>2. /\ w3[1] = <<"target_job_id", h.target_job_id, 1>>
        /\ w4[1] = <<"source_job_id", h.source_job_id, 1>>
        /\ w6[1] = <<"steam_id", h.steam_id, 1>> /\ w7[1] = <<"session_id", h.session_id, 1>>
    BY DEF Word
  <1>3. ExtendedHeader(h) = b
    BY DEF ExtendedHeader
  <1> HIDE DEF w1, w2, w3, w4, w5, w6, w7
  <1>a. /\ IsSeq(w1) /\ IsSeq(w2) /\ IsSeq(w3) /\ IsSeq(w4) /\ IsSeq(w5) /\ IsSeq(w6)
        /\ IsSeq(w7)
    BY <1>1
  <1>4. /\ Len(w2) > 0 /\ Len(w3) > 0 /\ Len(w4) > 0 /\ Len(w5) > 0 /\ Len(w6) > 0
        /\ Len(w7) > 0
    BY <1>1
  <1>5. /\ IsSeq(b) /\ Len(b) = Len(w1) + Len(w2) + Len(w3) + Len(w4) + Len(w5) + Len(w6)
                                   + Len(w7)
        /\ b[Len(w1) + Len(w2) + 1] = w3[1] /\ b[Len(w1) + Len(w2) + Len(w3) + 1] = w4[1]
        /\ b[Len(w1) + Len(w2) + Len(w3) + Len(w4) + Len(w5) + 1] = w6[1]
        /\ b[Len(w1) + Len(w2) + Len(w3) + Len(w4) + Len(w5) + Len(w6) + 1] = w7[1]
    BY <1>a, <1>4, SevenStand
  <1> HIDE DEF b
  <1>6. /\ Len(w1) + Len(w2) + 1 = 4 /\ Len(w1) + Len(w2) + Len(w3) + 1 = 12
        /\ Len(w1) + Len(w2) + Len(w3) + Len(w4) + Len(w5) + 1 = 21
        /\ Len(w1) + Len(w2) + Len(w3) + Len(w4) + Len(w5) + Len(w6) + 1 = 29
        /\ Len(w1) + Len(w2) + Len(w3) + Len(w4) + Len(w5) + Len(w6) + Len(w7) = 32
    BY <1>1
  <1> QED
    BY <1>2, <1>3, <1>5, <1>6, Zenon

\* Both kinds of header: what follows the kind, and the body behind it.
HeaderAfterKind(m) ==
    IF m.is_protobuf
    THEN Then(Word("length", Len(ProtoHeader(m)), 4), ProtoHeader(m))
    ELSE ExtendedHeader(m.header)

LEMMA WrittenIs ==
    ASSUME NEW m
    PROVE  Written(m) = Then(Then(Word("kind", <<m.kind, m.is_protobuf>>, 4),
                                  HeaderAfterKind(m)), BodyBytes(m))
  BY DEF Written, HeaderBytes, HeaderAfterKind, ExtendedHeader, Then

\* What is the same for both of them.
LEMMA FrontFacts ==
    ASSUME NEW m \in Message, IsSeq(HeaderAfterKind(m)), NEW a \in Nat, a <= Len(Written(m))
    PROVE  LET hd == HeaderAfterKind(m)
               w  == Written(m)
               r  == SubSeq(w, 1, a)
           IN  /\ Len(hd) \in Nat /\ IsSeq(w) /\ IsSeq(BodyBytes(m))
               /\ Len(w) = 4 + Len(hd) + Len(BodyBytes(m)) /\ Len(BodyBytes(m)) \in Nat
               /\ StandsIn(BodyBytes(m), w, 4 + Len(hd))
               /\ IsSeq(r) /\ Len(r) = a
               /\ \A k \in 1..Len(hd) : 4 + k <= a => r[4 + k] = hd[k]
               /\ 1 <= a => r[1] = <<"kind", <<m.kind, m.is_protobuf>>, 1>>
  <1> DEFINE kind == <<m.kind, m.is_protobuf>>
             kb == Word("kind", kind, 4)
             hd == HeaderAfterKind(m)
             bb == BodyBytes(m)
             w  == Written(m)
             r  == SubSeq(w, 1, a)
  <1>1. IsSeq(kb) /\ Len(kb) = 4 /\ \A k \in 1..4 : kb[k] = <<"kind", kind, k>>
    <2>1. 4 \in Nat
      OBVIOUS
    <2> QED
      BY <2>1, WordIsSeq, Zenon
  <1>2. IsSeq(bb)
    <2>1. m.body \in Nat
      BY DEF Message
    <2> QED
      BY <2>1, WordIsSeq DEF BodyBytes
  <1>3. w = Then(Then(kb, hd), bb)
    BY WrittenIs
  <1>4. IsSeq(hd) /\ a <= Len(w)
    OBVIOUS
  <1> HIDE DEF kb, hd, bb, w
  <1>5. /\ IsSeq(w) /\ Len(hd) \in Nat /\ Len(bb) \in Nat
        /\ Len(w) = 4 + Len(hd) + Len(bb)
        /\ StandsIn(kb, w, 0) /\ StandsIn(hd, w, 4) /\ StandsIn(bb, w, 4 + Len(hd))
    BY <1>1, <1>2, <1>3, <1>4, Layout
  <1>6. IsSeq(r) /\ Len(r) = a /\ \A k \in 1..a : r[k] = w[k]
    BY <1>4, <1>5, Arrived, Zenon
  <1> HIDE DEF r
  <1>7. ASSUME NEW k \in 1..Len(hd), 4 + k <= a PROVE r[4 + k] = hd[k]
    BY <1>5, <1>6, <1>7 DEF StandsIn
  <1>8. ASSUME 1 <= a PROVE r[1] = <<"kind", kind, 1>>
    <2>1. 1 \in 1..4 /\ 1 \in 1..a /\ 0 + 1 = 1
      BY <1>8
    <2>2. w[0 + 1] = kb[1]
      BY <1>1, <1>5, <2>1 DEF StandsIn
    <2>3. r[1] = w[1]
      BY <1>6, <2>1
    <2>4. kb[1] = <<"kind", kind, 1>>
      BY <1>1, <2>1
    <2> QED
      BY <2>1, <2>2, <2>3, <2>4, Zenon
  <1> QED
    BY <1>2, <1>5, <1>6, <1>7, <1>8, Zenon DEF hd, bb, w, r

\* A packet that was not cut off within its header is read with the header
\* that was written, and with what there is of its body.
Reads(d, p) ==
    LET m == p.message
        e == Len(HeaderBytes(m))
    IN  /\ e <= p.arrives
        /\ d = Succeeds(m.kind, Carried(m), SubSeq(BodyBytes(m), 1, p.arrives - e))

\* What the first a bytes of a message are read as, e of which are its header.
Gives(d, m, a, e) ==
    IF e <= a
    THEN d = Succeeds(m.kind, Carried(m), SubSeq(BodyBytes(m), 1, a - e))
         /\ Len(SubSeq(BodyBytes(m), 1, a - e)) = a - e
    ELSE d \in {Fails("invalid"), Fails("fatal")}

LEMMA ReadExtendedGives ==
    ASSUME NEW m \in Message, ~m.is_protobuf, NEW a \in Nat, a <= Len(Written(m)),
           NEW d, d = ReadExtended(m.kind, SubSeq(Written(m), 1, a))
    PROVE  Gives(d, m, a, 4 + Len(HeaderAfterKind(m)))
  <1> DEFINE h  == m.header
             w  == Written(m)
             r  == SubSeq(w, 1, a)
             hd == HeaderAfterKind(m)
             bb == BodyBytes(m)
  <1>1. /\ IsSeq(hd) /\ Len(hd) = 32
        /\ hd[4] = <<"target_job_id", h.target_job_id, 1>>
        /\ hd[12] = <<"source_job_id", h.source_job_id, 1>>
        /\ hd[21] = <<"steam_id", h.steam_id, 1>>
        /\ hd[29] = <<"session_id", h.session_id, 1>>
    BY ExtendedHeaderFields DEF HeaderAfterKind
  <1>2. /\ Len(hd) \in Nat /\ IsSeq(w) /\ IsSeq(bb)
        /\ Len(w) = 4 + Len(hd) + Len(bb) /\ Len(bb) \in Nat
        /\ StandsIn(bb, w, 4 + Len(hd))
        /\ IsSeq(r) /\ Len(r) = a
        /\ \A k \in 1..Len(hd) : 4 + k <= a => r[4 + k] = hd[k]
    BY <1>1, FrontFacts
  <1>3. d = ReadExtended(m.kind, r) /\ a <= Len(w) /\ r = SubSeq(w, 1, a)
    OBVIOUS
  <1> HIDE DEF w, r, hd, bb
  <1> DEFINE e == 36
  <1>0. e = 4 + Len(hd) /\ e \in Nat
    BY <1>1
  <1>4. SUFFICES ASSUME a >= 36
                 PROVE  /\ d = Succeeds(m.kind, Carried(m), SubSeq(bb, 1, a - e))
                        /\ Len(SubSeq(bb, 1, a - e)) = a - e
    <2>1. CASE a >= 36
      <3>1. e <= a
        BY <2>1
      <3> HIDE DEF e
      <3> QED
        BY <1>0, <1>4, <2>1, <3>1 DEF Gives, hd, bb
    <2>2. CASE ~(a >= 36)
      <3>1. ~(e <= a) /\ Len(r) < 36
        BY <1>2, <2>2
      <3>2. d = Fails("fatal")
        BY <1>3, <3>1 DEF ReadExtended
      <3> HIDE DEF e
      <3> QED
        BY <1>0, <3>1, <3>2 DEF Gives, hd
    <2> QED
      BY <2>1, <2>2
  <1>5. /\ r[8] = <<"target_job_id", h.target_job_id, 1>>
        /\ r[16] = <<"source_job_id", h.source_job_id, 1>>
        /\ r[25] = <<"steam_id", h.steam_id, 1>>
        /\ r[33] = <<"session_id", h.session_id, 1>>
    <2>0. /\ 4 \in 1..Len(hd) /\ 12 \in 1..Len(hd) /\ 21 \in 1..Len(hd) /\ 29 \in 1..Len(hd)
          /\ 4 + 4 <= a /\ 4 + 12 <= a /\ 4 + 21 <= a /\ 4 + 29 <= a
      BY <1>1, <1>4
    <2>1. r[4 + 4] = hd[4] /\ r[4 + 12] = hd[12] /\ r[4 + 21] = hd[21] /\ r[4 + 29] = hd[29]
      BY <1>2, <2>0, Zenon
    <2>2. 4 + 4 = 8 /\ 4 + 12 = 16 /\ 4 + 21 = 25 /\ 4 + 29 = 33
      OBVIOUS
    <2> QED
      BY <1>1, <2>1, <2>2, Zenon
  <1>6. d = Succeeds(m.kind,
              [NoHeader EXCEPT !.target_job_id = r[8][2], !.source_job_id = r[16][2],
                               !.steam_id = r[25][2], !.session_id = r[33][2]],
              SubSeq(r, 37, Len(r)))
    <2>1. /\ 4 + 3 + 1 = 8 /\ 4 + 3 + 8 + 1 = 16 /\ 4 + 3 + 8 + 8 + 1 + 1 = 25
          /\ 4 + 3 + 8 + 8 + 1 + 8 + 1 = 33 /\ 4 + 3 + 8 + 8 + 1 + 8 + 4 + 1 = 37
      OBVIOUS
    <2>2. ~(Len(r) < 36)
      BY <1>2, <1>4
    <2>3. d = Succeeds(m.kind,
              [NoHeader EXCEPT !.target_job_id = r[4 + 3 + 1][2],
                               !.source_job_id = r[4 + 3 + 8 + 1][2],
                               !.steam_id      = r[4 + 3 + 8 + 8 + 1 + 1][2],
                               !.session_id    = r[4 + 3 + 8 + 8 + 1 + 8 + 1][2]],
              SubSeq(r, 4 + 3 + 8 + 8 + 1 + 8 + 4 + 1, Len(r)))
      BY <1>3, <2>2, Zenon DEF ReadExtended
    <2> QED
      BY <2>1, <2>3
  <1> DEFINE x == [NoHeader EXCEPT !.target_job_id = h.target_job_id,
                                   !.source_job_id = h.source_job_id,
                                   !.steam_id      = h.steam_id,
                                   !.session_id    = h.session_id]
             y == SubSeq(r, e + 1, Len(r))
  <1>7. x = Carried(m)
    <2>1. h \in [HeaderFields -> Nat]
      BY DEF Message, Header
    <2>2. Carried(m) = [h EXCEPT !.target_job_name = 0, !.source_app_id = 0]
      BY DEF Carried
    <2> HIDE DEF h
    <2> QED
      BY <2>1, <2>2 DEF NoHeader, HeaderFields
  <1>8. d = Succeeds(m.kind, x, y)
    <2>1. 36 + 1 = 37
      OBVIOUS
    <2>2. x = [NoHeader EXCEPT !.target_job_id = r[8][2], !.source_job_id = r[16][2],
                               !.steam_id = r[25][2], !.session_id = r[33][2]]
      BY <1>5
    <2> HIDE DEF x
    <2> QED
      BY <1>6, <2>1, <2>2
  <1>9. y = SubSeq(bb, 1, a - e) /\ Len(y) = a - e
    <2>1. e \in Nat /\ e <= a /\ StandsIn(bb, w, e) /\ Len(w) = e + Len(bb)
      <3>1. 4 + Len(hd) = e
        BY <1>1
      <3> QED
        BY <1>2, <1>4, <3>1
    <2>2. y = SubSeq(r, e + 1, Len(r))
      OBVIOUS
    <2> HIDE DEF e, y
    <2>3. IsSeq(bb) /\ IsSeq(w)
      BY <1>2
    <2>4. a <= Len(w) /\ r = SubSeq(w, 1, a)
      BY <1>3
    <2>5. ReadOf(y, r, w, a, e, bb)
      BY <2>1, <2>2, <2>3, <2>4 DEF ReadOf
    <2>6. y = SubSeq(bb, 1, a - e) /\ Len(y) = a - e /\ a - e \in Nat
      BY <2>5, BodyIsPrefix
    <2> QED
      BY <2>6
  <1> HIDE DEF e, x, y
  <1> QED
    BY <1>7, <1>8, <1>9

LEMMA ReadProtoGives ==
    ASSUME NEW m \in Message, m.is_protobuf, NEW a \in Nat, a <= Len(Written(m)),
           NEW d, d = ReadProto(m.kind, SubSeq(Written(m), 1, a))
    PROVE  Gives(d, m, a, 4 + Len(HeaderAfterKind(m)))
  <1> DEFINE w  == Written(m)
             r  == SubSeq(w, 1, a)
             hd == HeaderAfterKind(m)
             bb == BodyBytes(m)
             ph == ProtoHeader(m)
             lb == Word("length", Len(ph), 4)
             n  == Len(ph)
             e  == 8 + n
  <1>1. /\ IsSeq(lb) /\ Len(lb) = 4 /\ lb[1] = <<"length", n, 1>>
    <2>1. 4 \in Nat /\ 1 \in 1..4
      OBVIOUS
    <2>2. IsSeq(lb) /\ Len(lb) = 4 /\ \A k \in 1..4 : lb[k] = <<"length", n, k>>
      BY <2>1, WordIsSeq, Zenon
    <2> QED
      BY <2>1, <2>2, Zenon
  <1>2. IsSeq(ph)
    BY ProtoHeaderEncodes DEF Encodes
  <1>3. hd = Then(lb, ph)
    BY DEF HeaderAfterKind
  <1>4. FromProto(ph) = Carried(m) /\ Decodes(ph)
    <2>1. PICK k \in Nat : Len(ph) = 2 * k
      BY ProtoHeaderEncodes DEF Encodes
    <2> QED
      BY <2>1, HeaderDecodes DEF Decodes
  <1> HIDE DEF lb, ph
  <1>5. /\ IsSeq(hd) /\ n \in Nat /\ Len(hd) = 4 + n
        /\ hd[1] = <<"length", n, 1>> /\ \A k \in 1..n : hd[4 + k] = ph[k]
    <2>1. /\ IsSeq(Then(lb, ph)) /\ Len(lb) \in Nat /\ Len(ph) \in Nat
          /\ Len(Then(lb, ph)) = Len(lb) + Len(ph)
          /\ \A k \in 1..Len(ph) : Then(lb, ph)[Len(lb) + k] = ph[k]
          /\ StandsIn(lb, Then(lb, ph), 0)
      <3>1. IsSeq(lb)
        BY <1>1
      <3> QED
        BY <1>2, <3>1, JoinStands
    <2>2. 1 \in 1..Len(lb) /\ 0 + 1 = 1
      BY <1>1
    <2>3. Then(lb, ph)[1] = lb[1]
      BY <2>1, <2>2 DEF StandsIn
    <2> QED
      BY <1>1, <1>3, <2>1, <2>3
  <1>6. /\ Len(hd) \in Nat /\ IsSeq(w) /\ IsSeq(bb)
        /\ Len(w) = 4 + Len(hd) + Len(bb) /\ Len(bb) \in Nat
        /\ StandsIn(bb, w, 4 + Len(hd))
        /\ IsSeq(r) /\ Len(r) = a
        /\ \A k \in 1..Len(hd) : 4 + k <= a => r[4 + k] = hd[k]
    BY <1>5, FrontFacts
  <1>7. d = ReadProto(m.kind, r) /\ a <= Len(w) /\ r = SubSeq(w, 1, a)
    OBVIOUS
  <1> HIDE DEF w, r, hd, bb, n
  <1>11. e \in Nat /\ e = 4 + Len(hd) /\ e >= 8
    <2>1. n \in Nat /\ Len(hd) = 4 + n
      BY <1>5
    <2> HIDE DEF hd
    <2> QED
      BY <2>1
  <1> HIDE DEF e
  <1>0. SUFFICES Gives(d, m, a, e)
    BY <1>11 DEF hd
  <1>8. SUFFICES ASSUME a >= 8 PROVE Gives(d, m, a, e)
    <2>1. CASE a >= 8
      BY <1>8, <2>1
    <2>2. CASE ~(a >= 8)
      <3>1. ~(e <= a) /\ Len(r) < 8
        BY <1>6, <1>11, <2>2
      <3>2. d = Fails("fatal")
        BY <1>7, <3>1 DEF ReadProto
      <3> QED
        BY <3>1, <3>2 DEF Gives
    <2> QED
      BY <2>1, <2>2
  <1>9. r[5][2] = n
    <2>1. r[4 + 1] = hd[1]
      BY <1>5, <1>6, <1>8
    <2>2. 4 + 1 = 5 /\ <<"length", n, 1>>[2] = n
      OBVIOUS
    <2> QED
      BY <1>5, <2>1, <2>2, Zenon
  <1>10. d = LET header == SubSeq(r, 9, Upto(r, e))
             IN  CASE ~Decodes(header)               -> Fails("invalid")
                   [] Decodes(header) /\ Len(r) < e  -> Fails("fatal")
                   [] OTHER -> Succeeds(m.kind, FromProto(header), SubSeq(r, e + 1, Len(r)))
    <2>1. ~(Len(r) < 8)
      BY <1>6, <1>8
    <2>2. 8 + r[5][2] = e
      BY <1>9 DEF e
    <2> QED
      BY <1>7, <2>1, <2>2, Zenon DEF ReadProto
  <1>12. SUFFICES ASSUME ~(Len(r) < e)
                  PROVE  /\ d = Succeeds(m.kind, Carried(m), SubSeq(bb, 1, a - e))
                         /\ Len(SubSeq(bb, 1, a - e)) = a - e
    <2>1. CASE ~(Len(r) < e)
      <3>1. e <= a
        BY <1>6, <1>11, <2>1
      <3> QED
        BY <1>12, <2>1, <3>1 DEF Gives, bb
    <2>2. CASE Len(r) < e
      <3>1. ~(e <= a)
        BY <1>6, <1>11, <2>2
      <3>2. d = Fails("invalid") \/ d = Fails("fatal")
        BY <1>10, <2>2, Zenon
      <3> QED
        BY <3>1, <3>2 DEF Gives
    <2> QED
      BY <2>1, <2>2
  <1>13. SubSeq(r, 9, Upto(r, e)) = ph
    <2> DEFINE z == 8
    <2>1. Upto(r, e) = e
      BY <1>6, <1>11, <1>12 DEF Upto
    <2>2. z \in Nat /\ z <= e /\ e <= Len(r) /\ e - z = n /\ z + 1 = 9 /\ n \in Nat
      BY <1>5, <1>6, <1>11, <1>12
    <2>3. \A k \in 1..n : r[z + k] = ph[k]
      <3> SUFFICES ASSUME NEW k \in 1..n PROVE r[z + k] = ph[k]
        OBVIOUS
      <3>1. 4 + k \in 1..Len(hd) /\ 4 + (4 + k) <= a /\ 4 + (4 + k) = z + k
        BY <1>5, <1>6, <1>11, <1>12
      <3>2. r[4 + (4 + k)] = hd[4 + k]
        BY <1>6, <3>1
      <3> QED
        BY <1>5, <3>1, <3>2
    <2> HIDE DEF z
    <2> DEFINE p == SubSeq(r, z + 1, e)
    <2>4. IsSeq(p) /\ Len(p) = e - z /\ \A k \in 1..(e - z) : p[k] = r[z + k]
      <3>1. IsSeq(r) /\ e \in Nat
        BY <1>6, <1>11
      <3>2. z \in Nat /\ z <= e /\ e <= Len(r)
        BY <2>2
      <3> QED
        BY <3>1, <3>2, Part, Zenon
    <2> HIDE DEF p
    <2>5. Len(p) = Len(ph) /\ \A k \in 1..Len(p) : p[k] = ph[k]
      BY <2>2, <2>3, <2>4 DEF n
    <2>6. p = ph
      BY <1>2, <2>4, <2>5, SeqEqual
    <2> QED
      BY <2>1, <2>2, <2>6 DEF p
  <1> DEFINE y == SubSeq(r, e + 1, Len(r))
  <1>14. d = Succeeds(m.kind, Carried(m), y)
    <2>1. d = Succeeds(m.kind, FromProto(ph), SubSeq(r, e + 1, Len(r)))
      BY <1>4, <1>10, <1>12, <1>13, Zenon
    <2> QED
      BY <1>4, <2>1
  <1>15. y = SubSeq(bb, 1, a - e) /\ Len(y) = a - e
    <2>1. StandsIn(bb, w, e) /\ Len(w) = e + Len(bb) /\ e <= a
      BY <1>6, <1>11, <1>12
    <2>2. IsSeq(bb) /\ IsSeq(w) /\ e \in Nat
      BY <1>6, <1>11
    <2>4. a <= Len(w) /\ r = SubSeq(w, 1, a)
      BY <1>7
    <2>5. y = SubSeq(r, e + 1, Len(r))
      OBVIOUS
    <2> HIDE DEF y
    <2>6. ReadOf(y, r, w, a, e, bb)
      BY <2>1, <2>2, <2>4, <2>5 DEF ReadOf
    <2>7. y = SubSeq(bb, 1, a - e) /\ Len(y) = a - e /\ a - e \in Nat
      BY <2>6, BodyIsPrefix
    <2> QED
      BY <2>7
  <1> HIDE DEF y
  <1> QED
    BY <1>14, <1>15

\* Reading undoes writing: of a message of which the first bytes arrived, the
\* whole header among them, the reader makes a message of that kind with that
\* header and the part of the body that arrived, byte for byte; of one that was
\* cut off within its header it makes an error and nothing else, wherever it
\* was cut (net.rs lines 101-227, 259-288).
THEOREM ReadUndoesWrite ==
    ASSUME NEW p \in Packet
    PROVE  Gives(ReadPacket(p), p.message, p.arrives, Len(HeaderBytes(p.message)))
  <1> DEFINE m == p.message
             a == p.arrives
             r == SubSeq(Written(m), 1, a)
             d == ReadPacket(p)
  <1>1. m \in Message /\ a \in Nat /\ a <= Len(Written(m))
    BY DEF Packet
  <1>2. d = Read(r)
    BY DEF ReadPacket
  <1>3. IsSeq(HeaderAfterKind(m))
    <2>1. CASE m.is_protobuf
      <3>1. 4 \in Nat
        OBVIOUS
      <3>2. IsSeq(Word("length", Len(ProtoHeader(m)), 4))
        BY <3>1, WordIsSeq, Zenon
      <3>3. IsSeq(ProtoHeader(m))
        BY ProtoHeaderEncodes DEF Encodes
      <3>4. HeaderAfterKind(m) = Then(Word("length", Len(ProtoHeader(m)), 4), ProtoHeader(m))
        BY <2>1 DEF HeaderAfterKind
      <3> QED
        BY <3>2, <3>3, <3>4, JoinStands, Zenon
    <2>2. CASE ~m.is_protobuf
      <3>1. HeaderAfterKind(m) = ExtendedHeader(m.header)
        BY <2>2 DEF HeaderAfterKind
      <3> QED
        BY <3>1, ExtendedHeaderFields, Zenon
    <2> QED
      BY <2>1, <2>2
  <1> HIDE DEF m, a
  <1>4. Len(r) = a /\ (1 <= a => r[1] = <<"kind", <<m.kind, m.is_protobuf>>, 1>>)
    BY <1>1, <1>3, FrontFacts
  <1>0. /\ Len(HeaderBytes(m)) = 4 + Len(HeaderAfterKind(m))
        /\ Len(HeaderAfterKind(m)) \in Nat
    <2> DEFINE kb == Word("kind", <<m.kind, m.is_protobuf>>, 4)
               hd == HeaderAfterKind(m)
    <2>1. HeaderBytes(m) = Then(kb, hd)
      BY DEF HeaderBytes, HeaderAfterKind, ExtendedHeader, Then
    <2>2. IsSeq(kb) /\ Len(kb) = 4
      <3>1. 4 \in Nat
        OBVIOUS
      <3> QED
        BY <3>1, WordIsSeq, Zenon
    <2> HIDE DEF kb, hd
    <2>3. IsSeq(hd)
      BY <1>3 DEF hd
    <2>4. Len(Then(kb, hd)) = Len(kb) + Len(hd) /\ Len(hd) \in Nat
      BY <2>2, <2>3, JoinStands
    <2> QED
      BY <2>1, <2>2, <2>4 DEF hd
  <1> DEFINE e == 4 + Len(HeaderAfterKind(m))
  <1>10. e = Len(HeaderBytes(m)) /\ e \in Nat /\ e >= 4
    BY <1>0
  <1> HIDE DEF r, d, e
  <1>11. SUFFICES Gives(d, m, a, e)
    BY <1>10 DEF d, m, a
  <1>5. SUFFICES ASSUME a >= 4 PROVE Gives(d, m, a, e)
    <2>1. CASE a >= 4
      BY <1>5, <2>1
    <2>2. CASE ~(a >= 4)
      <3>1. ~(e <= a) /\ Len(r) < 4
        BY <1>1, <1>4, <1>10, <2>2
      <3>2. d = Fails("invalid")
        BY <1>2, <3>1 DEF Read
      <3> QED
        BY <3>1, <3>2 DEF Gives
    <2> QED
      BY <2>1, <2>2
  <1>6. r[1][2][1] = m.kind /\ r[1][2][2] = m.is_protobuf
    BY <1>1, <1>4, <1>5
  <1>7. d = IF m.is_protobuf THEN ReadProto(m.kind, r) ELSE ReadExtended(m.kind, r)
    <2>1. ~(Len(r) < 4)
      BY <1>1, <1>4, <1>5
    <2> QED
      BY <1>2, <1>6, <2>1, Zenon DEF Read
  <1>8. CASE m.is_protobuf
    BY <1>1, <1>7, <1>8, ReadProtoGives DEF r, e
  <1>9. CASE ~m.is_protobuf
    BY <1>1, <1>7, <1>9, ReadExtendedGives DEF r, e
  <1> QED
    BY <1>8, <1>9

LEMMA ReadPacketGives ==
    ASSUME NEW p \in Packet, ReadPacket(p).is \in {"message", "multi"}
    PROVE  Reads(ReadPacket(p), p)
  <1> DEFINE d == ReadPacket(p)
             m == p.message
             e == Len(HeaderBytes(m))
  <1>1. Gives(d, m, p.arrives, e)
    BY ReadUndoesWrite
  <1>2. d \notin {Fails("invalid"), Fails("fatal")}
    BY DEF Fails
  <1> HIDE DEF d, e, m
  <1>3. e <= p.arrives /\ d = Succeeds(m.kind, Carried(m), SubSeq(BodyBytes(m), 1, p.arrives - e))
    BY <1>1, <1>2, Zenon DEF Gives
  <1> QED
    BY <1>3 DEF Reads, d, e, m
-----------------------------------------------------------------------------
(* What an item yields. *)

IsMulti(item) == ReadItem(item).is = "multi" /\ item.body # "garbled"

LEMMA OneIsSeq == ASSUME NEW x PROVE IsSeq(<<x>>) /\ Len(<<x>>) = 1 /\ <<x>>[1] = x
  <1>1. <<x>> \in Seq({x})
    OBVIOUS
  <1> QED
    BY <1>1 DEF IsSeq

LEMMA ItemFacts ==
    ASSUME NEW item \in Item
    PROVE  /\ item.children \in Seq(Packet) /\ Len(item.children) \in Nat
           /\ DOMAIN item.children = 1..Len(item.children)
           /\ item.packet \in Packet /\ item.fails \in {"no", "invalid", "fatal"}
  BY DEF Item

LEMMA ChildrenFacts ==
    ASSUME NEW item \in Item
    PROVE  /\ IsSeq(Children(item))
           /\ Len(Children(item)) = IF item.body = "cut_in_child"
                                    THEN Len(item.children) + 1 ELSE Len(item.children)
           /\ \A k \in 1..Len(item.children) :
                 Children(item)[k] = ReadPacket(item.children[k])
           /\ item.body = "cut_in_child" =>
                 Children(item)[Len(item.children) + 1] = Fails("fatal")
  <1> DEFINE read == [k \in DOMAIN item.children |-> ReadPacket(item.children[k])]
             end  == IF item.body = "cut_in_child" THEN <<Fails("fatal")>> ELSE <<>>
             n    == Len(item.children)
             c    == Children(item)
  <1>1. n \in Nat /\ DOMAIN item.children = 1..n
    BY ItemFacts
  <1>2. c = Then(read, end)
    BY DEF Children, Then
  <1> HIDE DEF n, c
  <1>3. DOMAIN read = 1..n /\ read = [k \in 1..n |-> read[k]]
        /\ \A k \in 1..n : read[k] = ReadPacket(item.children[k])
    BY <1>1
  <1> HIDE DEF read
  <1>4. IsSeq(read) /\ Len(read) = n
    BY <1>1, <1>3, FunctionIsSeq, Zenon
  <1>5. CASE item.body = "cut_in_child"
    <2> DEFINE f == Fails("fatal")
    <2>1. end = <<f>>
      BY <1>5
    <2> HIDE DEF end, f
    <2>2. IsSeq(end) /\ Len(end) = 1 /\ end[1] = f
      BY <2>1, OneIsSeq, Zenon
    <2>3. /\ IsSeq(c) /\ Len(c) = Len(read) + Len(end)
          /\ \A k \in 1..Len(read) : c[k] = read[k]
          /\ \A k \in 1..Len(end) : c[Len(read) + k] = end[k]
      <3>1. IsSeq(read) /\ IsSeq(end)
        BY <1>4, <2>2
      <3> QED
        BY <1>2, <3>1, JoinStands
    <2>4. c[n + 1] = f
      BY <1>4, <2>2, <2>3
    <2> QED
      BY <1>3, <1>4, <1>5, <2>2, <2>3, <2>4 DEF n, c, f
  <1>6. CASE item.body # "cut_in_child"
    <2>1. end = <<>>
      BY <1>6
    <2> HIDE DEF end
    <2>2. IsSeq(end) /\ Len(end) = 0
      <3>1. <<>> \in Seq({})
        OBVIOUS
      <3> QED
        BY <2>1, <3>1 DEF IsSeq
    <2>3. /\ IsSeq(c) /\ Len(c) = Len(read) + Len(end)
          /\ \A k \in 1..Len(read) : c[k] = read[k]
      BY <1>2, <1>4, <2>2, JoinStands
    <2>4. Len(c) = n
      BY <1>1, <1>4, <2>2, <2>3
    <2> QED
      BY <1>3, <1>4, <1>6, <2>3, <2>4, Zenon DEF n, c
  <1> QED
    BY <1>5, <1>6

LEMMA FlattenedFacts ==
    ASSUME NEW item \in Item
    PROVE  /\ IsSeq(Flattened(item))
           /\ IsMulti(item) => Flattened(item) = Children(item)
           /\ ~IsMulti(item) =>
                 /\ Len(Flattened(item)) = 1
                 /\ \/ ReadItem(item).is = "multi" /\ Flattened(item)[1] = Fails("invalid")
                    \/ ReadItem(item).is # "multi" /\ Flattened(item)[1] = ReadItem(item)
  <1>1. CASE ReadItem(item).is # "multi"
    <2>1. Flattened(item) = <<ReadItem(item)>>
      BY <1>1 DEF Flattened
    <2> QED
      BY <1>1, <2>1, OneIsSeq, Zenon DEF IsMulti
  <1>2. CASE ReadItem(item).is = "multi" /\ item.body = "garbled"
    <2>1. Flattened(item) = <<Fails("invalid")>>
      BY <1>2, Zenon DEF Flattened
    <2> QED
      BY <1>2, <2>1, OneIsSeq, Zenon DEF IsMulti
  <1>3. CASE IsMulti(item)
    <2>1. Flattened(item) = Children(item)
      BY <1>3, Zenon DEF Flattened, IsMulti
    <2> QED
      BY <1>3, <2>1, ChildrenFacts, Zenon
  <1> QED
    BY <1>1, <1>2, <1>3 DEF IsMulti

\* Results numbers them.
LEMMA ResultsFacts ==
    ASSUME NEW item \in Item, NEW n
    PROVE  /\ IsSeq(Results(item, n)) /\ Len(Results(item, n)) = Len(Flattened(item))
           /\ Len(Flattened(item)) \in Nat
           /\ \A k \in 1..Len(Flattened(item)) :
                 Results(item, n)[k] = [at |-> <<n, k>>, read |-> Flattened(item)[k]]
  <1> DEFINE f == Flattened(item)
             r == Results(item, n)
  <1>1. IsSeq(f)
    BY FlattenedFacts
  <1>2. r = [k \in DOMAIN f |-> [at |-> <<n, k>>, read |-> f[k]]]
    BY DEF Results
  <1> HIDE DEF f, r
  <1>3. Len(f) \in Nat /\ DOMAIN f = 1..Len(f)
    BY <1>1, SeqFacts
  <1>4. DOMAIN r = 1..Len(f) /\ r = [k \in 1..Len(f) |-> r[k]]
    BY <1>2, <1>3
  <1>5. IsSeq(r) /\ Len(r) = Len(f)
    BY <1>3, <1>4, FunctionIsSeq, Zenon
  <1> QED
    BY <1>2, <1>3, <1>5 DEF f, r
-----------------------------------------------------------------------------
(* The stream of results: what was taken from it, and what waits.          *)

Line(n)   == Flattened(items[n])
Result(p) == Line(p[1])[p[2]]
Good(p)   == Result(p).is \in {"message", "multi"}

\* How many results of the last item were taken, and the places of all that
\* were.
Here   == Len(Line(Len(items))) - Len(current)
Places == {p \in (DOMAIN items) \X Nat : p[2] \in DOMAIN Line(p[1])}
Passed == {p \in Places : p[1] = Len(items) => p[2] <= Here}

Shapes == items \in Seq(Item) /\ IsSeq(current) /\ IsSeq(dispatched)

\* What waits is the rest of the last item.
Rest ==
    /\ items = <<>> => current = <<>>
    /\ items # <<>> =>
         /\ Len(current) <= Len(Line(Len(items)))
         /\ \A j \in DOMAIN current :
               current[j] = [at   |-> <<Len(items), Here + j>>,
                             read |-> Line(Len(items))[Here + j]]

\* What was dispatched is what was good of what was taken.
Faithful ==
    /\ \A i \in DOMAIN dispatched :
         /\ dispatched[i].at \in Passed /\ Good(dispatched[i].at)
         /\ dispatched[i].read = Result(dispatched[i].at)
    /\ \A p \in Passed : Good(p) => \E i \in DOMAIN dispatched : dispatched[i].at = p

\* The loop stops at the first fatal result.
Stops ==
    /\ \A p \in Passed : Result(p).is = "fatal" =>
          stage = "error" /\ p = <<Len(items), Here>>
    /\ stage = "error" => /\ <<Len(items), Here>> \in Passed
                          /\ Result(<<Len(items), Here>>).is = "fatal"

IInv == Shapes /\ Rest /\ Faithful /\ Stops /\ InOrder

LEMMA InitHolds == FlattenInit => IInv
  <1> SUFFICES ASSUME FlattenInit PROVE IInv
    OBVIOUS
  <1>1. items = <<>> /\ current = <<>> /\ stage = "next" /\ dispatched = <<>>
    BY DEF FlattenInit
  <1>2. IsSeq(<<>>)
    <2>1. <<>> \in Seq({})
      OBVIOUS
    <2> QED
      BY <2>1 DEF IsSeq
  <1>3. Passed = {}
    <2>1. DOMAIN items = {}
      BY <1>1
    <2> QED
      BY <2>1 DEF Passed, Places
  <1>4. Shapes /\ Rest
    BY <1>1, <1>2 DEF Shapes, Rest
  <1>5. Faithful /\ Stops /\ InOrder
    BY <1>1, <1>3 DEF Faithful, Stops, InOrder
  <1> QED
    BY <1>4, <1>5 DEF IInv

LEMMA PlaceFacts ==
    ASSUME Shapes
    PROVE  /\ Len(items) \in Nat /\ DOMAIN items = 1..Len(items)
           /\ Len(current) \in Nat /\ DOMAIN current = 1..Len(current)
           /\ Len(dispatched) \in Nat /\ DOMAIN dispatched = 1..Len(dispatched)
           /\ \A n \in DOMAIN items : /\ items[n] \in Item /\ IsSeq(Line(n))
                                      /\ Len(Line(n)) \in Nat
                                      /\ DOMAIN Line(n) = 1..Len(Line(n))
           /\ \A p \in Places : p[1] \in DOMAIN items /\ p[2] \in 1..Len(Line(p[1]))
                                /\ p = <<p[1], p[2]>>
  <1>1. items \in Seq(Item) /\ IsSeq(current) /\ IsSeq(dispatched)
    BY DEF Shapes
  <1>2. Len(items) \in Nat /\ DOMAIN items = 1..Len(items)
    BY <1>1
  <1>3. /\ Len(current) \in Nat /\ DOMAIN current = 1..Len(current)
        /\ Len(dispatched) \in Nat /\ DOMAIN dispatched = 1..Len(dispatched)
    BY <1>1, SeqFacts
  <1>4. ASSUME NEW n \in DOMAIN items
        PROVE  /\ items[n] \in Item /\ IsSeq(Line(n)) /\ Len(Line(n)) \in Nat
               /\ DOMAIN Line(n) = 1..Len(Line(n))
    <2>1. items[n] \in Item
      BY <1>1
    <2>2. IsSeq(Line(n))
      BY <2>1, FlattenedFacts DEF Line
    <2> QED
      BY <2>1, <2>2, SeqFacts
  <1>5. ASSUME NEW p \in Places
        PROVE  p[1] \in DOMAIN items /\ p[2] \in 1..Len(Line(p[1])) /\ p = <<p[1], p[2]>>
    <2>1. p \in (DOMAIN items) \X Nat /\ p[2] \in DOMAIN Line(p[1])
      BY DEF Places
    <2>2. p[1] \in DOMAIN items /\ p = <<p[1], p[2]>>
      BY <2>1
    <2> QED
      BY <1>4, <2>1, <2>2
  <1> QED
    BY <1>2, <1>3, <1>4, <1>5

LEMMA PullKeeps ==
    ASSUME IInv, NEW item \in Item, Pull(item) PROVE IInv'
  <1> DEFINE n == Len(items) + 1
  <1>1. /\ stage = "next" /\ current = <<>> /\ items' = Append(items, item)
        /\ current' = Results(item, n) /\ UNCHANGED <<stage, dispatched>>
    BY DEF Pull
  <1>2. Shapes
    BY DEF IInv
  <1>3. items' \in Seq(Item) /\ Len(items') = n /\ n \in Nat /\ items' # <<>>
        /\ items'[n] = item /\ DOMAIN items' = DOMAIN items \cup {n}
        /\ \A i \in DOMAIN items : items'[i] = items[i] /\ i < n
    <2>1. items \in Seq(Item)
      BY <1>2 DEF Shapes
    <2> QED
      BY <1>1, <2>1
  <1> HIDE DEF n
  <1>4. /\ IsSeq(current') /\ Len(current') = Len(Flattened(item)) /\ Len(Flattened(item)) \in Nat
        /\ DOMAIN current' = 1..Len(Flattened(item))
        /\ \A k \in 1..Len(Flattened(item)) :
              current'[k] = [at |-> <<n, k>>, read |-> Flattened(item)[k]]
    BY <1>1, ResultsFacts, SeqFacts
  <1>5. Shapes'
    BY <1>1, <1>2, <1>3, <1>4 DEF Shapes
  <1>6. Flattened(items'[n]) = Flattened(item) /\ \A i \in DOMAIN items : Line(i)' = Line(i)
    BY <1>3 DEF Line
  <1>7. Here' = 0
    BY <1>3, <1>4, <1>6 DEF Here, Line
  <1>8. Rest'
    <2>1. \A k \in 1..Len(Flattened(item)) : 0 + k = k
      BY <1>4
    <2>2. Len(items)' = n
      BY <1>3
    <2>3. Line(Len(items))' = Flattened(item)
      BY <1>3 DEF Line
    <2> QED
      BY <1>3, <1>4, <1>7, <2>1, <2>2, <2>3 DEF Rest
  <1>9. Passed' = Passed
    <2>1. ASSUME NEW p PROVE p \in Passed' <=> p \in Passed
      <3>1. p \in Passed <=> /\ p \in (DOMAIN items) \X Nat /\ p[2] \in DOMAIN Line(p[1])
                             /\ p[1] = Len(items) => p[2] <= Here
        BY DEF Passed, Places
      <3>2. p \in Passed' <=> /\ p \in (DOMAIN items') \X Nat /\ p[2] \in DOMAIN Line(p[1])'
                              /\ p[1] = n => p[2] <= 0
        BY <1>3, <1>7 DEF Passed, Places
      <3>3. CASE p \in (DOMAIN items) \X Nat
        <4>1. p[1] \in DOMAIN items /\ p \in (DOMAIN items') \X Nat /\ p[1] # n
          BY <1>3, <3>3
        <4>2. Line(p[1])' = Line(p[1])
          BY <1>3, <4>1 DEF Line
        <4>3. p[1] = Len(items) /\ p[2] \in DOMAIN Line(p[1]) => p[2] <= Here
          BY <1>1, <1>2, <4>1, PlaceFacts DEF Here
        <4> QED
          BY <3>1, <3>2, <3>3, <4>1, <4>2, <4>3
      <3>4. CASE p \notin (DOMAIN items) \X Nat /\ p \in (DOMAIN items') \X Nat
        <4>1. p[1] = n
          BY <1>3, <3>4
        <4>2. DOMAIN Flattened(item) = 1..Len(Flattened(item))
          BY FlattenedFacts, SeqFacts
        <4>3. Line(p[1])' = Flattened(item)
          BY <1>3, <4>1 DEF Line
        <4>4. p[2] \in DOMAIN Line(p[1])' => ~(p[2] <= 0)
          BY <1>4, <4>2, <4>3
        <4> QED
          BY <3>1, <3>2, <3>4, <4>1, <4>4
      <3> QED
        BY <3>1, <3>2, <3>3, <3>4
    <2> QED
      BY <2>1
  <1>10. \A p \in Passed : Result(p)' = Result(p) /\ Good(p)' = Good(p)
    <2>1. \A p \in Passed : Line(p[1])' = Line(p[1])
      BY <1>2, <1>3, PlaceFacts DEF Passed, Line
    <2> QED
      BY <2>1 DEF Result, Good, Line
  <1>11. Faithful'
    BY <1>1, <1>9, <1>10 DEF IInv, Faithful
  <1>12. Stops'
    <2>1. stage # "error"
      BY <1>1
    <2> QED
      BY <1>1, <1>9, <1>10, <2>1 DEF IInv, Stops
  <1>13. InOrder'
    BY <1>1 DEF IInv, InOrder
  <1> QED
    BY <1>5, <1>8, <1>11, <1>12, <1>13 DEF IInv

LEMMA DispatchKeeps == ASSUME IInv, Dispatch PROVE IInv'
  <1> DEFINE m == current[1]
             n == Len(items)
             h == Here + 1
             q == <<n, h>>
  <1>1. Shapes /\ Rest
    BY DEF IInv
  <1>2. /\ stage = "next" /\ current # <<>> /\ items' = items /\ current' = Tail(current)
        /\ Head(current) = m
    BY <1>1 DEF Dispatch, Shapes, IsSeq
  <1>3. items # <<>> /\ n \in DOMAIN items /\ n \in Nat
    BY <1>1, <1>2, PlaceFacts DEF Rest, Shapes
  <1>4. /\ IsSeq(current') /\ Len(current') = Len(current) - 1 /\ Len(current) \in Nat
        /\ DOMAIN current = 1..Len(current) /\ DOMAIN current' = 1..(Len(current) - 1)
        /\ 1 \in DOMAIN current
        /\ \A k \in 1..(Len(current) - 1) : current'[k] = current[k + 1]
    <2>1. PICK S : current \in Seq(S)
      BY <1>1 DEF Shapes, IsSeq
    <2>2. current' \in Seq(S)
      BY <1>2, <2>1
    <2> QED
      BY <1>2, <2>1, <2>2 DEF IsSeq
  <1>5. /\ Len(Line(n)) \in Nat /\ DOMAIN Line(n) = 1..Len(Line(n))
        /\ Len(current) <= Len(Line(n)) /\ Here \in Nat
        /\ Here = Len(Line(n)) - Len(current)
    BY <1>1, <1>3, <1>4, PlaceFacts DEF Rest, Here
  <1>6. m.at = q /\ m.read = Result(q) /\ q \in Places /\ q \notin Passed
    <2>1. m = [at |-> q, read |-> Line(n)[h]]
      BY <1>1, <1>3, <1>4 DEF Rest
    <2>2. h \in DOMAIN Line(n) /\ h \in Nat /\ ~(h <= Here)
      BY <1>4, <1>5
    <2> HIDE DEF n, h
    <2>3. m.at = q /\ m.read = Line(n)[h] /\ q[1] = n /\ q[2] = h
      BY <2>1
    <2>4. Result(q) = Line(n)[h]
      BY <2>3 DEF Result
    <2>5. q \in (DOMAIN items) \X Nat
      BY <1>3, <2>2
    <2>6. q \in Places
      BY <2>2, <2>3, <2>5 DEF Places
    <2>7. q \notin Passed
      BY <2>2, <2>3 DEF Passed, n
    <2> QED
      BY <2>3, <2>4, <2>6, <2>7
  <1>7. Here' = h /\ UNCHANGED Places
        /\ \A p : Line(p)' = Line(p)
    BY <1>2, <1>4, <1>5 DEF Here, Line, Places
  <1>8. \A p : Result(p)' = Result(p) /\ Good(p)' = Good(p)
    BY <1>2 DEF Result, Good, Line
  <1>9. Passed' = Passed \cup {q}
    <2>1. ASSUME NEW p \in Places
          PROVE  (p[1] = n => p[2] <= h) <=> ((p[1] = n => p[2] <= Here) \/ p = q)
      <3>1. p[1] \in DOMAIN items /\ p[2] \in Nat /\ p = <<p[1], p[2]>>
        BY <1>1, <1>5, PlaceFacts DEF Places
      <3>2. p[1] = n /\ p[2] = h <=> p = q
        BY <3>1
      <3> QED
        BY <1>5, <3>1, <3>2
    <2>2. Passed' = {p \in Places : p[1] = n => p[2] <= h}
      BY <1>2, <1>7 DEF Passed
    <2>3. Passed = {p \in Places : p[1] = n => p[2] <= Here}
      BY DEF Passed
    <2> HIDE DEF n, h, q
    <2> QED
      BY <1>6, <2>1, <2>2, <2>3
  <1>10. Shapes'
    <2>1. dispatched' = Append(dispatched, m) \/ dispatched' = dispatched
      BY <1>2 DEF Dispatch
    <2>2. PICK T : dispatched \in Seq(T)
      BY <1>1 DEF Shapes, IsSeq
    <2> HIDE DEF m
    <2>3. dispatched' \in Seq(T \cup {m})
      BY <2>1, <2>2
    <2> QED
      BY <1>1, <1>2, <1>4, <2>3 DEF Shapes, IsSeq
  <1>11. Rest'
    <2>1. ASSUME NEW j \in DOMAIN current'
          PROVE  current'[j] = [at |-> <<n, h + j>>, read |-> Line(n)[h + j]]
      <3>1. j + 1 \in DOMAIN current /\ current'[j] = current[j + 1] /\ j \in Nat
        BY <1>4
      <3>2. current[j + 1] = [at |-> <<n, Here + (j + 1)>>, read |-> Line(n)[Here + (j + 1)]]
        BY <1>1, <1>3, <3>1 DEF Rest
      <3>3. Here + (j + 1) = h + j
        BY <1>5, <3>1
      <3> QED
        BY <3>1, <3>2, <3>3
    <2>2. Len(current') <= Len(Line(n))
      BY <1>4, <1>5
    <2> QED
      BY <1>2, <1>3, <1>7, <2>1, <2>2 DEF Rest
  <1> HIDE DEF m, q, h, n
  <1>12. /\ Good(q) => dispatched' = Append(dispatched, m)
         /\ ~Good(q) => dispatched' = dispatched
    BY <1>2, <1>6 DEF Dispatch, Good
  <1>13. \A i \in DOMAIN dispatched' :
            \/ i \in DOMAIN dispatched /\ dispatched'[i] = dispatched[i]
            \/ Good(q) /\ i = Len(dispatched) + 1 /\ dispatched'[i] = m
    <2>1. PICK T : dispatched \in Seq(T)
      BY <1>1 DEF Shapes, IsSeq
    <2> QED
      BY <1>12, <2>1
  <1>14. /\ \A i \in DOMAIN dispatched : i \in DOMAIN dispatched' /\ dispatched'[i] = dispatched[i]
         /\ Good(q) => \E i \in DOMAIN dispatched' : dispatched'[i] = m
    <2>1. PICK T : dispatched \in Seq(T)
      BY <1>1 DEF Shapes, IsSeq
    <2> QED
      BY <1>12, <2>1
  <1>15. Faithful'
    <2>1. \A i \in DOMAIN dispatched' :
             /\ dispatched'[i].at \in Passed' /\ Good(dispatched'[i].at)
             /\ dispatched'[i].read = Result(dispatched'[i].at)
      BY <1>6, <1>9, <1>13 DEF IInv, Faithful
    <2>2. \A p \in Passed' : Good(p) => \E i \in DOMAIN dispatched' : dispatched'[i].at = p
      BY <1>6, <1>9, <1>14 DEF IInv, Faithful
    <2> QED
      BY <1>8, <2>1, <2>2 DEF Faithful
  <1>16. Stops'
    <2>1. stage' = IF Result(q).is = "fatal" THEN "error" ELSE stage
      BY <1>2, <1>6 DEF Dispatch
    <2>2. \A p \in Passed : Result(p).is # "fatal"
      BY <1>2 DEF IInv, Stops
    <2>3. <<Len(items), Here>>' = q
      BY <1>2, <1>7 DEF q, n
    <2> QED
      BY <1>2, <1>8, <1>9, <2>1, <2>2, <2>3 DEF Stops
  <1>17. InOrder'
    <2> SUFFICES ASSUME NEW i \in DOMAIN dispatched', NEW j \in DOMAIN dispatched', i < j
                 PROVE  Before(dispatched'[i].at, dispatched'[j].at)
      BY DEF InOrder
    <2>1. DOMAIN dispatched = 1..Len(dispatched) /\ Len(dispatched) \in Nat
      BY <1>1, PlaceFacts
    <2>2. i \in DOMAIN dispatched /\ dispatched'[i] = dispatched[i]
      BY <1>13, <2>1
    <2>3. CASE j \in DOMAIN dispatched /\ dispatched'[j] = dispatched[j]
      BY <2>2, <2>3 DEF IInv, InOrder
    <2>4. CASE dispatched'[j] = m
      <3> DEFINE p == dispatched[i].at
      <3>1. p \in Passed
        BY <2>2 DEF IInv, Faithful
      <3>2. p[1] \in DOMAIN items /\ p[2] \in Nat /\ (p[1] = n => p[2] <= Here)
        BY <1>1, <3>1, PlaceFacts DEF Passed, Places, n
      <3>3. q[1] = n /\ q[2] = Here + 1 /\ DOMAIN items = 1..n
        BY <1>1, PlaceFacts DEF q, h, n
      <3> HIDE DEF p
      <3>4. Before(p, q)
        BY <1>3, <1>5, <3>2, <3>3 DEF Before
      <3> QED
        BY <1>6, <2>2, <2>4, <3>4 DEF p
    <2> QED
      BY <1>13, <2>3, <2>4
  <1> QED
    BY <1>10, <1>11, <1>15, <1>16, <1>17 DEF IInv

LEMMA SameFlatten == ASSUME IInv, UNCHANGED <<items, current, dispatched>>,
                            stage' = stage \/ (stage = "next" /\ stage' = "end")
                     PROVE  IInv'
  <1>1. Shapes' /\ Rest' /\ Faithful' /\ InOrder'
    BY DEF IInv, Shapes, Rest, Faithful, InOrder, Here, Line, Passed, Places, Result, Good
  <1>2. Stops'
    <2>1. Passed' = Passed /\ Here' = Here /\ \A p : Result(p)' = Result(p)
      BY DEF Here, Line, Passed, Places, Result
    <2> QED
      BY <2>1 DEF IInv, Stops
  <1> QED
    BY <1>1, <1>2 DEF IInv

LEMMA StepKeeps == IInv /\ [FlattenNext]_flattenVars => IInv'
  <1> SUFFICES ASSUME IInv, [FlattenNext]_flattenVars PROVE IInv'
    OBVIOUS
  <1>1. ASSUME NEW item \in Item, Pull(item) PROVE IInv'
    BY <1>1, PullKeeps
  <1>2. CASE Dispatch
    BY <1>2, DispatchKeeps
  <1>3. CASE SourceEnds \/ UNCHANGED flattenVars
    BY <1>3, SameFlatten DEF SourceEnds, flattenVars
  <1> QED
    BY <1>1, <1>2, <1>3 DEF FlattenNext

LEMMA FailsAsSaid == \A how : Fails(how).is = how
  BY DEF Fails

\* The invariant holds in every behaviour of Flatten, whatever the items are.
THEOREM InductiveFlatten == FlattenSpec => []IInv
  <1>1. FlattenInit => IInv
    BY InitHolds
  <1>2. IInv /\ [FlattenNext]_flattenVars => IInv'
    BY StepKeeps
  <1> QED
    BY <1>1, <1>2, PTL DEF FlattenSpec
-----------------------------------------------------------------------------
(* Damage harms nobody but the damaged: the places that the property names *)
(* are the ones the stream has.                                            *)

LEMMA MultisAre == \A n : n \in Multis <=> n \in DOMAIN items /\ IsMulti(items[n])
  BY DEF Multis, IsMulti

LEMMA AtFacts ==
    ASSUME NEW R, NEW p
    PROVE  p \in At(R) <=>
              \/ \E n \in DOMAIN items \ Multis : ReadItem(items[n]).is \in R /\ p = <<n, 1>>
              \/ \E n \in Multis : \E k \in DOMAIN items[n].children :
                    ReadPacket(items[n].children[k]).is \in R /\ p = <<n, k>>
  <1>1. p \in UNION {{n} \X DOMAIN items[n].children : n \in Multis} <=>
           \E n \in Multis : \E k \in DOMAIN items[n].children : p = <<n, k>>
    OBVIOUS
  <1>2. \A n, k : <<n, k>>[1] = n /\ <<n, k>>[2] = k
    OBVIOUS
  <1> QED
    BY <1>1, <1>2 DEF At

\* What the result at a place is.
LEMMA PlaceKinds ==
    ASSUME Shapes, NEW p \in Places
    PROVE  \/ /\ p[1] \in DOMAIN items \ Multis /\ p = <<p[1], 1>>
              /\ \/ Result(p) = Fails("invalid") /\ ReadItem(items[p[1]]).is = "multi"
                 \/ Result(p) = ReadItem(items[p[1]]) /\ ReadItem(items[p[1]]).is # "multi"
           \/ /\ p[1] \in Multis /\ p[2] \in DOMAIN items[p[1]].children
              /\ p = <<p[1], p[2]>>
              /\ Result(p) = ReadPacket(items[p[1]].children[p[2]])
           \/ /\ p[1] \in Multis /\ items[p[1]].body = "cut_in_child"
              /\ p = <<p[1], Len(items[p[1]].children) + 1>>
              /\ Result(p) = Fails("fatal")
  <1> DEFINE n == p[1]
             k == p[2]
             item == items[n]
  <1>1. /\ n \in DOMAIN items /\ item \in Item /\ k \in 1..Len(Line(n)) /\ p = <<n, k>>
        /\ Len(Line(n)) \in Nat
    BY PlaceFacts
  <1>2. Line(n) = Flattened(item) /\ Result(p) = Line(n)[k]
    BY DEF Line, Result
  <1>3. n \in Multis <=> IsMulti(item)
    BY <1>1, MultisAre
  <1>4. /\ item.children \in Seq(Packet) /\ Len(item.children) \in Nat
        /\ DOMAIN item.children = 1..Len(item.children)
    BY <1>1, ItemFacts
  <1> HIDE DEF n, k, item
  <1>5. CASE IsMulti(item)
    <2>1. Line(n) = Children(item)
      BY <1>1, <1>2, <1>5, FlattenedFacts
    <2>2. /\ Len(Line(n)) = IF item.body = "cut_in_child"
                            THEN Len(item.children) + 1 ELSE Len(item.children)
          /\ \A i \in 1..Len(item.children) : Line(n)[i] = ReadPacket(item.children[i])
          /\ item.body = "cut_in_child" => Line(n)[Len(item.children) + 1] = Fails("fatal")
      BY <1>1, <2>1, ChildrenFacts, Zenon
    <2>3. CASE k \in 1..Len(item.children)
      BY <1>1, <1>2, <1>3, <1>4, <1>5, <2>2, <2>3 DEF n, k, item
    <2>4. CASE k \notin 1..Len(item.children)
      <3>1. item.body = "cut_in_child" /\ k = Len(item.children) + 1
        BY <1>1, <1>4, <2>2, <2>4
      <3> QED
        BY <1>1, <1>2, <1>3, <1>5, <2>2, <3>1 DEF n, k, item
    <2> QED
      BY <2>3, <2>4
  <1>6. CASE ~IsMulti(item)
    <2>1. /\ Len(Line(n)) = 1
          /\ \/ ReadItem(item).is = "multi" /\ Line(n)[1] = Fails("invalid")
             \/ ReadItem(item).is # "multi" /\ Line(n)[1] = ReadItem(item)
      BY <1>1, <1>2, <1>6, FlattenedFacts
    <2>2. k = 1
      BY <1>1, <2>1
    <2> QED
      BY <1>1, <1>2, <1>3, <1>6, <2>1, <2>2 DEF n, k, item
  <1> QED
    BY <1>5, <1>6

\* A place of At has a result of the kind.
LEMMA AtIsPlace ==
    ASSUME Shapes, NEW R, NEW p \in At(R), "multi" \in R => p[1] \in Multis
    PROVE  p \in Places /\ Result(p).is \in R
  <1>1. CASE \E n \in DOMAIN items \ Multis : ReadItem(items[n]).is \in R /\ p = <<n, 1>>
    <2>1. PICK n \in DOMAIN items \ Multis : ReadItem(items[n]).is \in R /\ p = <<n, 1>>
      BY <1>1
    <2>2. p[1] = n /\ p[2] = 1 /\ ReadItem(items[n]).is # "multi"
      BY <2>1
    <2>3. n \in DOMAIN items /\ items[n] \in Item /\ ~IsMulti(items[n])
      BY <2>1, PlaceFacts, MultisAre
    <2>4. Len(Line(n)) = 1 /\ Line(n)[1] = ReadItem(items[n]) /\ DOMAIN Line(n) = 1..1
      BY <2>2, <2>3, FlattenedFacts, PlaceFacts DEF Line
    <2>5. p \in Places
      BY <2>1, <2>2, <2>3, <2>4 DEF Places
    <2> QED
      BY <2>1, <2>2, <2>4, <2>5 DEF Result
  <1>2. CASE \E n \in Multis : \E k \in DOMAIN items[n].children :
                ReadPacket(items[n].children[k]).is \in R /\ p = <<n, k>>
    <2>1. PICK n \in Multis : \E k \in DOMAIN items[n].children :
                ReadPacket(items[n].children[k]).is \in R /\ p = <<n, k>>
      BY <1>2
    <2>2. PICK k \in DOMAIN items[n].children :
                ReadPacket(items[n].children[k]).is \in R /\ p = <<n, k>>
      BY <2>1
    <2>3. p[1] = n /\ p[2] = k
      BY <2>2
    <2>4. n \in DOMAIN items /\ items[n] \in Item /\ IsMulti(items[n])
      BY <2>1, PlaceFacts, MultisAre
    <2>5. Line(n) = Children(items[n])
      BY <2>4, FlattenedFacts DEF Line
    <2>6. k \in 1..Len(items[n].children) /\ Len(items[n].children) \in Nat
      BY <2>2, <2>4, ItemFacts
    <2>7. /\ Line(n)[k] = ReadPacket(items[n].children[k])
          /\ Len(items[n].children) <= Len(Line(n))
      BY <2>4, <2>5, <2>6, ChildrenFacts
    <2>8. k \in DOMAIN Line(n) /\ k \in Nat
      BY <2>4, <2>6, <2>7, PlaceFacts
    <2>9. p \in Places
      BY <2>2, <2>3, <2>4, <2>8 DEF Places
    <2> QED
      BY <2>2, <2>3, <2>7, <2>9 DEF Result
  <1> QED
    BY <1>1, <1>2, AtFacts

LEMMA ReadableAre == ASSUME Shapes PROVE \A p : p \in Readable <=> p \in Places /\ Good(p)
  <1>1. ASSUME NEW p \in Places, Good(p) PROVE p \in Readable
    <2>1. Result(p).is \in {"message", "multi"} /\ Result(p).is \notin {"invalid", "fatal"}
      BY <1>1 DEF Good
    <2>2. CASE /\ p[1] \in DOMAIN items \ Multis /\ p = <<p[1], 1>>
               /\ Result(p) = ReadItem(items[p[1]]) /\ ReadItem(items[p[1]]).is # "multi"
      <3>1. ReadItem(items[p[1]]).is \in {"message"}
        BY <2>1, <2>2
      <3> QED
        BY <2>2, <3>1, AtFacts DEF Readable
    <2>3. CASE /\ p[1] \in Multis /\ p[2] \in DOMAIN items[p[1]].children
               /\ p = <<p[1], p[2]>>
               /\ Result(p) = ReadPacket(items[p[1]].children[p[2]])
      <3>1. p \in At({"message"}) \/ p \in At({"multi"})
        BY <2>1, <2>3, AtFacts
      <3> QED
        BY <2>3, <3>1 DEF Readable
    <2> QED
      BY <2>1, <2>2, <2>3, PlaceKinds, FailsAsSaid
  <1>2. ASSUME NEW p \in At({"message"}) PROVE p \in Places /\ Good(p)
    BY AtIsPlace DEF Good
  <1>3. ASSUME NEW p \in At({"multi"}), p[1] \in Multis PROVE p \in Places /\ Good(p)
    BY <1>3, AtIsPlace DEF Good
  <1> QED
    BY <1>1, <1>2, <1>3 DEF Readable

LEMMA FatalAre ==
    ASSUME Shapes PROVE \A p : p \in Fatal <=> p \in Places /\ Result(p).is = "fatal"
  <1>1. ASSUME NEW p \in Places, Result(p).is = "fatal" PROVE p \in Fatal
    <2>1. CASE /\ p[1] \in DOMAIN items \ Multis /\ p = <<p[1], 1>>
               /\ Result(p) = ReadItem(items[p[1]]) /\ ReadItem(items[p[1]]).is # "multi"
      <3>1. ReadItem(items[p[1]]).is \in {"fatal"}
        BY <1>1, <2>1
      <3> QED
        BY <2>1, <3>1, AtFacts DEF Fatal
    <2>2. CASE /\ p[1] \in Multis /\ p[2] \in DOMAIN items[p[1]].children
               /\ p = <<p[1], p[2]>>
               /\ Result(p) = ReadPacket(items[p[1]].children[p[2]])
      <3>1. ReadPacket(items[p[1]].children[p[2]]).is \in {"fatal"}
        BY <1>1, <2>2
      <3> QED
        BY <2>2, <3>1, AtFacts DEF Fatal
    <2>3. CASE /\ p[1] \in Multis /\ items[p[1]].body = "cut_in_child"
               /\ p = <<p[1], Len(items[p[1]].children) + 1>>
      BY <2>3 DEF Fatal
    <2> QED
      BY <1>1, <2>1, <2>2, <2>3, PlaceKinds, FailsAsSaid
  <1>2. ASSUME NEW p \in At({"fatal"}) PROVE p \in Places /\ Result(p).is = "fatal"
    BY AtIsPlace
  <1>3. ASSUME NEW n \in Multis, items[n].body = "cut_in_child"
        PROVE  LET p == <<n, Len(items[n].children) + 1>>
               IN  p \in Places /\ Result(p).is = "fatal"
    <2> DEFINE k == Len(items[n].children) + 1
               p == <<n, k>>
    <2>1. n \in DOMAIN items /\ items[n] \in Item /\ IsMulti(items[n])
      BY PlaceFacts, MultisAre
    <2>2. Line(n) = Children(items[n])
      BY <2>1, FlattenedFacts DEF Line
    <2>3. k \in Nat /\ k >= 1 /\ Len(Line(n)) = k /\ Line(n)[k] = Fails("fatal")
      BY <1>3, <2>1, <2>2, ItemFacts, ChildrenFacts
    <2> HIDE DEF k
    <2>4. k \in DOMAIN Line(n)
      BY <2>1, <2>3, PlaceFacts
    <2>5. p[1] = n /\ p[2] = k
      OBVIOUS
    <2>6. p \in Places
      BY <2>1, <2>3, <2>4, <2>5 DEF Places
    <2>7. Result(p).is = "fatal"
      BY <2>3, <2>5, FailsAsSaid DEF Result
    <2> QED
      BY <2>6, <2>7 DEF k
  <1> QED
    BY <1>1, <1>2, <1>3 DEF Fatal

\* Passed is what is before the first that waits.
LEMMA Waits ==
    ASSUME Shapes, Rest, NEW p \in Places, p \notin Passed
    PROVE  p \in Waiting /\ p[1] = Len(items) /\ p[2] > Here
  <1>1. /\ p[1] = Len(items) /\ ~(p[2] <= Here) /\ p[1] \in DOMAIN items
        /\ p[2] \in 1..Len(Line(p[1])) /\ p = <<p[1], p[2]>> /\ items # <<>>
    BY PlaceFacts DEF Passed
  <1>2. /\ Len(Line(p[1])) \in Nat /\ Len(current) \in Nat /\ DOMAIN current = 1..Len(current)
        /\ Len(current) <= Len(Line(p[1])) /\ Here = Len(Line(p[1])) - Len(current)
    BY <1>1, PlaceFacts DEF Rest, Here
  <1> DEFINE j == p[2] - Here
  <1>3. j \in DOMAIN current /\ Here + j = p[2] /\ p[2] > Here
    BY <1>1, <1>2
  <1> HIDE DEF j
  <1>4. current[j].at = <<Len(items), Here + j>>
    BY <1>1, <1>3 DEF Rest
  <1> QED
    BY <1>1, <1>3, <1>4 DEF Waiting

LEMMA DamageFromIInv == IInv => DamageContained
  <1> SUFFICES ASSUME IInv PROVE DamageContained
    OBVIOUS
  <1>1. Shapes /\ Rest /\ Faithful /\ Stops
    BY DEF IInv
  <1>2. \A p : p \in Dispatched <=> p \in Passed /\ Good(p)
    BY <1>1 DEF Faithful, Dispatched
  <1>3. Passed \subseteq Places
    BY DEF Passed
  <1>4. Dispatched \subseteq Readable
    BY <1>1, <1>2, <1>3, ReadableAre
  <1>5. ASSUME NEW p \in Readable, stage = "error" \/ p \notin Waiting
        PROVE  p \in Dispatched <=> ~\E q \in Fatal : Before(q, p)
    <2>1. p \in Places /\ Good(p)
      BY <1>1, ReadableAre
    <2>2. CASE p \in Passed
      <3>1. p \in Dispatched
        BY <1>2, <2>1, <2>2
      <3>2. ASSUME NEW q \in Fatal, Before(q, p) PROVE FALSE
        <4>1. q \in Places /\ Result(q).is = "fatal"
          BY <1>1, FatalAre
        <4>2. /\ p[1] \in 1..Len(items) /\ q[1] \in 1..Len(items) /\ Len(items) \in Nat
              /\ p[1] = Len(items) => p[2] <= Here
          BY <1>1, <2>1, <2>2, <4>1, PlaceFacts DEF Passed
        <4>3. /\ Len(Line(p[1])) \in Nat /\ p[2] \in Nat /\ q[2] \in Nat
          BY <1>1, <2>1, <4>1, PlaceFacts DEF Places
        <4>4. p[1] = Len(items) => Here \in Int
          BY <1>1, <2>1, PlaceFacts DEF Here
        <4>5. q[1] = Len(items) => q[2] <= Here
          BY <3>2, <4>2, <4>3, <4>4 DEF Before
        <4>6. q \in Passed
          BY <4>1, <4>5 DEF Passed
        <4>7. q[1] = Len(items) /\ q[2] = Here
          BY <1>1, <4>1, <4>6 DEF Stops
        <4> QED
          BY <3>2, <4>2, <4>3, <4>4, <4>7 DEF Before
      <3> QED
        BY <3>1, <3>2
    <2>3. CASE p \notin Passed
      <3>1. p \in Waiting /\ p[1] = Len(items) /\ p[2] > Here
        BY <1>1, <2>1, <2>3, Waits
      <3>2. stage = "error"
        BY <1>5, <3>1
      <3>3. <<Len(items), Here>> \in Passed /\ Result(<<Len(items), Here>>).is = "fatal"
        BY <1>1, <3>2 DEF Stops
      <3>4. <<Len(items), Here>> \in Fatal
        BY <1>1, <1>3, <3>3, FatalAre
      <3>5. Before(<<Len(items), Here>>, p)
        BY <3>1 DEF Before
      <3>6. p \notin Dispatched
        BY <1>2, <2>3
      <3> QED
        BY <3>4, <3>5, <3>6
    <2> QED
      BY <2>2, <2>3
  <1> QED
    BY <1>4, <1>5 DEF DamageContained

LEMMA HeaderFromIInv == IInv => HeaderIntact
  <1> SUFFICES ASSUME IInv, NEW i \in DOMAIN dispatched
               PROVE  LET d == dispatched[i]
                          item == items[d.at[1]]
                          s == IF d.at[1] \in Multis THEN item.children[d.at[2]]
                               ELSE item.packet
                      IN  Reads(d.read, s)
    BY DEF HeaderIntact, Reads
  <1> DEFINE d == dispatched[i]
             p == d.at
             item == items[p[1]]
  <1>1. Shapes /\ p \in Places /\ Good(p) /\ d.read = Result(p)
    BY DEF IInv, Faithful, Passed
  <1> HIDE DEF d, p
  <1>2. item \in Item /\ Result(p).is \in {"message", "multi"}
    BY <1>1, PlaceFacts DEF Good
  <1>3. /\ item.children \in Seq(Packet) /\ item.packet \in Packet
        /\ item.fails \in {"no", "invalid", "fatal"}
    BY <1>2, ItemFacts
  <1>4. CASE p[1] \in DOMAIN items \ Multis /\ Result(p) = ReadItem(item)
    <2>1. item.fails = "no"
      <3>1. ReadItem(item).is \in {"message", "multi"}
        BY <1>2, <1>4
      <3> QED
        BY <1>3, <3>1, FailsAsSaid DEF ReadItem
    <2>2. ReadItem(item) = ReadPacket(item.packet)
      BY <2>1 DEF ReadItem
    <2> HIDE DEF item
    <2>3. Reads(ReadPacket(item.packet), item.packet)
      BY <1>2, <1>3, <1>4, <2>2, ReadPacketGives
    <2>4. Reads(d.read, item.packet)
      BY <1>1, <1>4, <2>2, <2>3
    <2> QED
      BY <1>4, <2>4 DEF d, p, item
  <1>5. CASE /\ p[1] \in Multis /\ p[2] \in DOMAIN item.children
             /\ Result(p) = ReadPacket(item.children[p[2]])
    <2> HIDE DEF item
    <2>1. item.children[p[2]] \in Packet
      BY <1>3, <1>5
    <2>2. Reads(ReadPacket(item.children[p[2]]), item.children[p[2]])
      BY <1>2, <1>5, <2>1, ReadPacketGives
    <2>3. Reads(d.read, item.children[p[2]])
      BY <1>1, <1>5, <2>2
    <2> QED
      BY <1>5, <2>3 DEF d, p, item
  <1> QED
    BY <1>1, <1>2, <1>4, <1>5, PlaceKinds, FailsAsSaid
-----------------------------------------------------------------------------
(* The bytes on their way over TCP: S holds what is left of m frames of    *)
(* the sizes z, the first d of which were taken.  After a byte of a frame  *)
(* comes the rest of it, and after that the next frame.                    *)

Stream(z, S, d, m) ==
    /\ d \in 0..m
    /\ S = <<>> => d = m
    /\ S # <<>> => S[1] = <<d + 1, 1>>
    /\ \A k \in DOMAIN S :
         LET n == S[k][1]
             j == S[k][2]
         IN  /\ n \in 1..m /\ j \in 1..z[n]
             /\ \A i \in 0..z[n] - j : k + i \in DOMAIN S /\ S[k + i] = <<n, j + i>>
             /\ j = z[n] /\ n < m => k + 1 \in DOMAIN S /\ S[k + 1] = <<n + 1, 1>>
             /\ j = z[n] /\ n = m => k = Len(S)

\* F is the whole of frame n, and T what comes after the first L of S.
Whole(F, n, L) == Len(F) = L /\ \A j \in 1..L : F[j] = <<n, j>>
After(T, S, L) == Len(T) = Len(S) - L /\ \A k \in 1..Len(T) : T[k] = S[L + k]

Begins(S, n, L) == \A j \in 1..L : S[j] = <<n, j>>

\* After the first L of S, the last bytes of frame n, comes the next frame.
GoesOn(S, L, n, m) == \/ n < m /\ L < Len(S) /\ S[L + 1] = <<n + 1, 1>>
                      \/ n = m /\ L = Len(S)

LEMMA StreamSends ==
    ASSUME NEW N \in Nat, NEW z \in [1..N -> Nat \ {0}], NEW d, NEW m \in 0..N - 1,
           NEW S, IsSeq(S), NEW F, IsSeq(F), Stream(z, S, d, m),
           Whole(F, m + 1, z[m + 1])
    PROVE  IsSeq(S \o F) /\ Stream(z, S \o F, d, m + 1)
  <1> DEFINE R == Then(S, F)
             l == Len(S)
             L == Len(F)
  <1>1. /\ IsSeq(R) /\ Len(R) = l + L /\ l \in Nat /\ L \in Nat /\ DOMAIN R = 1..(l + L)
        /\ \A k \in 1..l : R[k] = S[k]
        /\ \A k \in 1..L : R[l + k] = F[k]
    <2>1. /\ IsSeq(R) /\ Len(R) = l + L /\ l \in Nat /\ L \in Nat
          /\ \A k \in 1..l : R[k] = S[k]
          /\ \A k \in 1..L : R[l + k] = F[k]
      <3> HIDE DEF R, l, L
      <3>1. IsSeq(S) /\ IsSeq(F)
        OBVIOUS
      <3> QED
        BY <3>1, JoinStands DEF R, l, L
    <2> HIDE DEF R, l, L
    <2> QED
      BY <2>1, SeqFacts
  <1>2. DOMAIN S = 1..l /\ (S = <<>> <=> l = 0)
    BY SeqFacts DEF IsSeq
  <1>3. L = z[m + 1] /\ L >= 1 /\ m \in Nat /\ m + 1 \in 1..N
        /\ \A k \in 1..L : R[l + k] = <<m + 1, k>>
    <2>1. m \in Nat /\ m + 1 \in 1..N
      OBVIOUS
    <2>2. z[m + 1] \in Nat \ {0}
      BY <2>1
    <2> QED
      BY <1>1, <2>1, <2>2 DEF Whole
  <1> HIDE DEF R, l, L
  <1>4. d \in 0..m + 1 /\ R # <<>>
    <2>1. R # <<>>
      BY <1>1, <1>3
    <2>2. d \in 0..m
      BY DEF Stream
    <2> QED
      BY <1>3, <2>1, <2>2
  <1>5. R[1] = <<d + 1, 1>>
    <2>1. CASE l = 0
      <3>1. d = m
        BY <1>2, <2>1 DEF Stream
      <3>2. R[0 + 1] = <<m + 1, 1>>
        BY <1>3, <2>1
      <3> QED
        BY <3>1, <3>2
    <2>2. CASE l # 0
      <3>1. R[1] = S[1] /\ S # <<>>
        BY <1>1, <1>2, <2>2
      <3> QED
        BY <3>1 DEF Stream
    <2> QED
      BY <2>1, <2>2
  <1>6. ASSUME NEW k \in DOMAIN R
        PROVE  LET n == R[k][1]
                   j == R[k][2]
               IN  /\ n \in 1..(m + 1) /\ j \in 1..z[n]
                   /\ \A i \in 0..z[n] - j : k + i \in DOMAIN R /\ R[k + i] = <<n, j + i>>
                   /\ j = z[n] /\ n < m + 1 => k + 1 \in DOMAIN R /\ R[k + 1] = <<n + 1, 1>>
                   /\ j = z[n] /\ n = m + 1 => k = Len(R)
    <2> DEFINE n == R[k][1]
               j == R[k][2]
    <2>1. CASE k \in 1..l
      <3>1. R[k] = S[k]
        BY <1>1, <2>1
      <3>2. /\ n \in 1..m /\ j \in 1..z[n]
            /\ \A i \in 0..z[n] - j : k + i \in 1..l /\ S[k + i] = <<n, j + i>>
            /\ j = z[n] /\ n < m => k + 1 \in 1..l /\ S[k + 1] = <<n + 1, 1>>
            /\ j = z[n] /\ n = m => k = l
        BY <1>2, <2>1, <3>1 DEF Stream, l
      <3> HIDE DEF n, j
      <3>3. n \in 1..(m + 1) /\ n # m + 1
        BY <1>3, <3>2
      <3>4. ASSUME NEW i \in 0..z[n] - j PROVE k + i \in DOMAIN R /\ R[k + i] = <<n, j + i>>
        <4>1. k + i \in 1..l /\ S[k + i] = <<n, j + i>>
          BY <3>2
        <4> QED
          BY <1>1, <4>1
      <3>5. ASSUME j = z[n] PROVE k + 1 \in DOMAIN R /\ R[k + 1] = <<n + 1, 1>>
        <4>1. CASE n < m
          <5>1. k + 1 \in 1..l /\ S[k + 1] = <<n + 1, 1>>
            BY <3>2, <3>5, <4>1
          <5> QED
            BY <1>1, <5>1
        <4>2. CASE n = m
          <5>1. k = l
            BY <3>2, <3>5, <4>2
          <5>2. R[l + 1] = <<m + 1, 1>>
            BY <1>3
          <5> QED
            BY <1>1, <1>3, <4>2, <5>1, <5>2
        <4> QED
          BY <1>3, <3>2, <4>1, <4>2
      <3> QED
        BY <3>2, <3>3, <3>4, <3>5 DEF n, j
    <2>2. CASE k \notin 1..l
      <3> DEFINE a == k - l
      <3>1. a \in 1..L /\ k = l + a
        BY <1>1, <2>2
      <3> HIDE DEF a
      <3>2. n = m + 1 /\ j = a /\ z[n] = L
        <4>1. R[k] = <<m + 1, a>>
          BY <1>3, <3>1
        <4> QED
          BY <1>3, <4>1
      <3> HIDE DEF n, j
      <3>3. ASSUME NEW i \in 0..L - a PROVE k + i \in DOMAIN R /\ R[k + i] = <<n, j + i>>
        <4>1. a + i \in 1..L /\ k + i = l + (a + i)
          BY <1>1, <3>1
        <4>2. R[l + (a + i)] = <<m + 1, a + i>>
          BY <1>3, <4>1
        <4>3. k + i \in DOMAIN R
          BY <1>1, <4>1
        <4> QED
          BY <3>2, <4>1, <4>2, <4>3
      <3>4. n \in 1..(m + 1) /\ j \in 1..z[n] /\ ~(n < m + 1)
        BY <1>3, <3>1, <3>2
      <3>5. j = z[n] => k = Len(R)
        BY <1>1, <3>1, <3>2
      <3> QED
        BY <3>2, <3>3, <3>4, <3>5 DEF n, j
    <2> QED
      BY <2>1, <2>2
  <1>7. IsSeq(R) /\ Stream(z, R, d, m + 1)
    BY <1>1, <1>4, <1>5, <1>6 DEF Stream
  <1> QED
    BY <1>7 DEF R, Then

\* The front of the stream, and the stream without its first frame.
LEMMA StreamFront ==
    ASSUME NEW z, NEW d, NEW m \in Nat, NEW S, IsSeq(S), S # <<>>, Stream(z, S, d, m),
           \A n \in 1..m : z[n] \in Nat \ {0}
    PROVE  /\ d + 1 \in 1..m /\ z[d + 1] \in Nat /\ z[d + 1] <= Len(S) /\ Len(S) \in Nat
           /\ Begins(S, d + 1, z[d + 1])
           /\ GoesOn(S, z[d + 1], d + 1, m)
  <1> DEFINE L == z[d + 1]
  <1>1. Len(S) \in Nat /\ DOMAIN S = 1..Len(S) /\ 1 \in DOMAIN S
    BY SeqFacts DEF IsSeq
  <1>2. d \in Nat /\ S[1] = <<d + 1, 1>>
    BY DEF Stream
  <1>3. /\ d + 1 \in 1..m /\ 1 \in 1..L
        /\ \A i \in 0..L - 1 : 1 + i \in DOMAIN S /\ S[1 + i] = <<d + 1, 1 + i>>
    <2> DEFINE n == S[1][1]
               j == S[1][2]
    <2>1. /\ n \in 1..m /\ j \in 1..z[n]
          /\ \A i \in 0..z[n] - j : 1 + i \in DOMAIN S /\ S[1 + i] = <<n, j + i>>
      BY <1>1 DEF Stream
    <2>2. n = d + 1 /\ j = 1
      BY <1>2
    <2> HIDE DEF n, j
    <2> QED
      BY <2>1, <2>2
  <1>4. L \in Nat \ {0}
    BY <1>3
  <1> HIDE DEF L
  <1>5. ASSUME NEW j \in 1..L PROVE j \in DOMAIN S /\ S[j] = <<d + 1, j>>
    <2>1. j - 1 \in 0..L - 1 /\ 1 + (j - 1) = j
      BY <1>4
    <2> QED
      BY <1>3, <2>1
  <1>6. L \in DOMAIN S /\ S[L] = <<d + 1, L>>
    BY <1>4, <1>5
  <1>7. /\ d + 1 < m => L + 1 \in DOMAIN S /\ S[L + 1] = <<(d + 1) + 1, 1>>
        /\ d + 1 = m => L = Len(S)
    BY <1>2, <1>6 DEF Stream, L
  <1> QED
    BY <1>1, <1>3, <1>4, <1>5, <1>6, <1>7 DEF L, GoesOn, Begins

LEMMA StreamSplits ==
    ASSUME NEW z, NEW d, NEW m \in Nat, NEW S, IsSeq(S), S # <<>>, Stream(z, S, d, m),
           \A n \in 1..m : z[n] \in Nat \ {0},
           NEW T, IsSeq(T), After(T, S, z[d + 1])
    PROVE  Stream(z, T, d + 1, m)
  <1> DEFINE L == z[d + 1]
             l == Len(S)
             t == Len(T)
  <1>1. /\ d + 1 \in 1..m /\ L \in Nat /\ L <= l /\ l \in Nat
        /\ \/ d + 1 < m /\ L < l /\ S[L + 1] = <<(d + 1) + 1, 1>>
           \/ d + 1 = m /\ L = l
    <2>1. /\ d + 1 \in 1..m /\ L \in Nat /\ L <= l /\ l \in Nat
          /\ GoesOn(S, L, d + 1, m)
      BY StreamFront
    <2> QED
      BY <2>1 DEF GoesOn
  <1>2. L >= 1
    BY <1>1
  <1>3. /\ DOMAIN S = 1..l /\ DOMAIN T = 1..t /\ t \in Nat /\ (T = <<>> <=> t = 0)
        /\ t = l - L /\ \A k \in 1..t : T[k] = S[L + k]
    BY SeqFacts DEF IsSeq, After
  <1> HIDE DEF L, l, t
  <1>4. d + 1 \in 0..m /\ (T = <<>> => d + 1 = m)
    <2>1. CASE d + 1 = m
      BY <1>1, <2>1
    <2>2. CASE d + 1 # m
      BY <1>1, <1>2, <1>3, <2>2
    <2> QED
      BY <2>1, <2>2
  <1>5. T # <<>> => T[1] = <<(d + 1) + 1, 1>>
    <2> SUFFICES ASSUME T # <<>> PROVE T[1] = <<(d + 1) + 1, 1>>
      OBVIOUS
    <2>1. L # l /\ 1 \in 1..t
      BY <1>1, <1>2, <1>3
    <2>2. d + 1 < m
      BY <1>1, <2>1
    <2> QED
      BY <1>1, <1>3, <2>1, <2>2
  <1>6. ASSUME NEW k \in DOMAIN T
        PROVE  LET n == T[k][1]
                   j == T[k][2]
               IN  /\ n \in 1..m /\ j \in 1..z[n]
                   /\ \A i \in 0..z[n] - j : k + i \in DOMAIN T /\ T[k + i] = <<n, j + i>>
                   /\ j = z[n] /\ n < m => k + 1 \in DOMAIN T /\ T[k + 1] = <<n + 1, 1>>
                   /\ j = z[n] /\ n = m => k = Len(T)
    <2> DEFINE n == T[k][1]
               j == T[k][2]
               a == L + k
    <2>1. a \in DOMAIN S /\ T[k] = S[a] /\ k \in 1..t /\ a \in Nat
      BY <1>1, <1>2, <1>3
    <2>2. /\ n \in 1..m /\ j \in 1..z[n]
          /\ \A i \in 0..z[n] - j : a + i \in DOMAIN S /\ S[a + i] = <<n, j + i>>
          /\ j = z[n] /\ n < m => a + 1 \in DOMAIN S /\ S[a + 1] = <<n + 1, 1>>
          /\ j = z[n] /\ n = m => a = l
      BY <2>1 DEF Stream, l
    <2>3. ASSUME NEW i \in Nat, a + i \in DOMAIN S
          PROVE  k + i \in DOMAIN T /\ T[k + i] = S[a + i]
      <3>1. k + i \in 1..t /\ L + (k + i) = a + i
        <4>1. L \in Nat /\ l \in Nat /\ t = l - L /\ k \in Nat /\ k >= 1 /\ L + k + i <= l
          BY <1>1, <1>3, <2>1, <2>3
        <4> QED
          BY <4>1
      <3> QED
        BY <1>2, <1>3, <3>1
    <2>4. a = l => k = t
      BY <1>1, <1>2, <1>3, <2>1
    <2> HIDE DEF n, j, a
    <2>5. ASSUME NEW i \in 0..z[n] - j PROVE k + i \in DOMAIN T /\ T[k + i] = <<n, j + i>>
      <3>1. i \in Nat /\ a + i \in DOMAIN S /\ S[a + i] = <<n, j + i>>
        BY <2>2
      <3> QED
        BY <2>3, <3>1
    <2>6. ASSUME j = z[n], n < m PROVE k + 1 \in DOMAIN T /\ T[k + 1] = <<n + 1, 1>>
      <3>1. 1 \in Nat /\ a + 1 \in DOMAIN S /\ S[a + 1] = <<n + 1, 1>>
        BY <2>2, <2>6
      <3> QED
        BY <2>3, <3>1
    <2> QED
      BY <2>2, <2>4, <2>5, <2>6 DEF n, j, t
  <1> QED
    BY <1>4, <1>5, <1>6 DEF Stream

\* Bytes that the socket delivers stay where they are in the stream.
LEMMA Delivered ==
    ASSUME NEW b, NEW w, IsSeq(b), IsSeq(w), NEW n \in 1..Len(w)
    PROVE  LET c == b \o SubSeq(w, 1, n)
               v == SubSeq(w, n + 1, Len(w))
           IN  IsSeq(c) /\ IsSeq(v) /\ c \o v = b \o w
  <1> DEFINE u == SubSeq(w, 1, n)
             v == SubSeq(w, n + 1, Len(w))
             c == Then(b, u)
  <1>1. Len(w) \in Nat /\ n \in Nat /\ n <= Len(w) /\ Len(b) \in Nat
    BY SeqFacts
  <1>2. IsSeq(u) /\ Len(u) = n /\ \A k \in 1..n : u[k] = w[k]
    <2> DEFINE z == 0
    <2>1. z \in Nat /\ z <= n /\ \A k \in 1..n : z + k = k
      BY <1>1
    <2>2. u = SubSeq(w, z + 1, n) /\ n - z = n
      BY <1>1
    <2> HIDE DEF z, u
    <2>3. /\ IsSeq(SubSeq(w, z + 1, n)) /\ Len(SubSeq(w, z + 1, n)) = n - z
          /\ \A k \in 1..(n - z) : SubSeq(w, z + 1, n)[k] = w[z + k]
      BY <1>1, <2>1, Part, Zenon
    <2> QED
      BY <2>1, <2>2, <2>3
  <1>3. IsSeq(v) /\ Len(v) = Len(w) - n /\ \A k \in 1..(Len(w) - n) : v[k] = w[n + k]
    <2>1. Len(w) <= Len(w)
      BY <1>1
    <2> QED
      BY <1>1, <2>1, Part, Zenon
  <1> HIDE DEF u, v
  <1>4. /\ IsSeq(c) /\ Len(c) = Len(b) + n
        /\ \A k \in 1..Len(b) : c[k] = b[k]
        /\ \A k \in 1..n : c[Len(b) + k] = u[k]
    <2>1. IsSeq(b) /\ IsSeq(u)
      BY <1>2
    <2>2. /\ IsSeq(c) /\ Len(c) = Len(b) + Len(u)
          /\ \A k \in 1..Len(b) : c[k] = b[k]
          /\ \A k \in 1..Len(u) : c[Len(b) + k] = u[k]
      BY <2>1, JoinStands
    <2> QED
      BY <1>2, <2>2
  <1> HIDE DEF c
  <1> DEFINE x == Then(c, v)
             y == Then(b, w)
  <1>5. /\ IsSeq(x) /\ Len(x) = Len(c) + Len(v)
        /\ \A k \in 1..Len(c) : x[k] = c[k]
        /\ \A k \in 1..Len(v) : x[Len(c) + k] = v[k]
    <2>1. IsSeq(c) /\ IsSeq(v)
      BY <1>3, <1>4
    <2> QED
      BY <2>1, JoinStands
  <1>6. /\ IsSeq(y) /\ Len(y) = Len(b) + Len(w)
        /\ \A k \in 1..Len(b) : y[k] = b[k]
        /\ \A k \in 1..Len(w) : y[Len(b) + k] = w[k]
    BY JoinStands
  <1> HIDE DEF x, y
  <1>7. Len(x) = Len(y) /\ Len(x) = Len(b) + Len(w)
    BY <1>1, <1>3, <1>4, <1>5, <1>6
  <1>8. ASSUME NEW k \in 1..Len(x) PROVE x[k] = y[k]
    <2>1. CASE k <= Len(b)
      <3>1. k \in 1..Len(b) /\ k \in 1..Len(c)
        BY <1>1, <1>4, <2>1
      <3> QED
        BY <1>4, <1>5, <1>6, <3>1
    <2>2. CASE k > Len(b) /\ k <= Len(b) + n
      <3> DEFINE j == k - Len(b)
      <3>1. j \in 1..n /\ j \in 1..Len(w) /\ k = Len(b) + j /\ k \in 1..Len(c)
        BY <1>1, <1>4, <2>2
      <3> HIDE DEF j
      <3> QED
        BY <1>2, <1>4, <1>5, <1>6, <3>1
    <2>3. CASE k > Len(b) + n
      <3> DEFINE j == k - (Len(b) + n)
      <3>1. /\ j \in 1..(Len(w) - n) /\ n + j \in 1..Len(w)
            /\ k = Len(c) + j /\ k = Len(b) + (n + j)
        BY <1>1, <1>4, <1>7, <2>3
      <3> HIDE DEF j
      <3>2. x[k] = v[j] /\ y[k] = w[n + j]
        BY <1>3, <1>5, <1>6, <3>1
      <3> QED
        BY <1>3, <3>1, <3>2
    <2> QED
      BY <1>1, <1>7, <2>1, <2>2, <2>3
  <1>9. x = y
    BY <1>5, <1>6, <1>7, <1>8, SeqEqual
  <1> QED
    BY <1>3, <1>4, <1>9 DEF x, y, c, u, v, Then
-----------------------------------------------------------------------------
(* The invariant of the transports. *)

Sizes == [n \in DOMAIN frames |-> HeaderLength + frames[n].length]
Wires ==
    /\ connection \in Connections
    /\ IsSeq(buffer) /\ IsSeq(wire) /\ IsSeq(decoded)
    /\ sent \in 0..Len(frames)
    /\ connection.transport = "websocket" => Len(decoded) = Len(items)
    /\ connection.transport = "tcp" =>
          Stream(Sizes, buffer \o wire, Len(decoded), sent)

DecodedAsSent == \A i \in DOMAIN decoded : i \in DOMAIN frames /\ decoded[i] = Body(i)

\* The loop is over, or the next result ends it.
Ending == stage # "next" \/ (current # <<>> /\ current[1].read.is = "fatal")

\* Over TCP: how many frames each phase has taken.  After an error of the
\* transport, the last item is the error and no frame is taken any more; in
\* "connected" nothing says so but the loop, which is about to end.
Phases ==
    /\ phase \in {"request", "result", "connected", "broken", "failed"}
    /\ phase \in {"request", "result", "failed"} => items = <<>>
    /\ phase = "request" => Len(decoded) = 0
    /\ phase = "result" => Len(decoded) = 1
    /\ phase \in {"connected", "broken"} =>
         \/ phase = "connected" /\ Len(decoded) = Len(items) + 2
         \/ /\ phase = "broken" \/ Ending
            /\ Len(items) >= 1 /\ Len(decoded) = Len(items) + 1
            /\ items[Len(items)] \in Errors

\* The items are those of the frames behind the handshake.
Pulled ==
    /\ connection.transport = "tcp" => Phases
    /\ \A i \in DOMAIN items :
         i + HandshakeFrames <= Len(decoded) => items[i] = frames[i + HandshakeFrames].item

TInv == Wires /\ DecodedAsSent /\ Pulled /\ IInv

LEMMA FrameFacts ==
    ASSUME connection \in Connections
    PROVE  /\ connection.transport \in {"websocket", "tcp"}
           /\ frames \in Seq(Frame) /\ Len(frames) \in Nat
           /\ DOMAIN frames = 1..Len(frames)
           /\ HeaderLength \in Nat /\ HeaderLength >= 1
           /\ Sizes \in [1..Len(frames) -> Nat \ {0}]
           /\ \A n \in 1..Len(frames) :
                 /\ frames[n].item \in Item /\ frames[n].length \in Nat
                 /\ Sizes[n] = HeaderLength + frames[n].length
  <1>1. connection \in [transport: {"websocket", "tcp"}, frames: Seq(Frame)]
        /\ HeaderLength \in Nat \ {0}
    BY TransportAssumption
  <1>2. frames \in Seq(Frame) /\ connection.transport \in {"websocket", "tcp"}
    BY <1>1 DEF frames
  <1> HIDE DEF frames
  <1>3. \A n \in 1..Len(frames) : frames[n].item \in Item /\ frames[n].length \in Nat
    <2>1. \A n \in 1..Len(frames) : frames[n] \in Frame
      BY <1>2
    <2> QED
      BY <2>1 DEF Frame
  <1>4. Len(frames) \in Nat /\ DOMAIN frames = 1..Len(frames)
    BY <1>2
  <1>5. \A n \in 1..Len(frames) : Sizes[n] = HeaderLength + frames[n].length
    BY <1>4 DEF Sizes
  <1>6. Sizes \in [1..Len(frames) -> Nat \ {0}]
    BY <1>1, <1>3, <1>4 DEF Sizes
  <1> QED
    BY <1>1, <1>2, <1>3, <1>4, <1>5, <1>6

LEMMA BytesFacts ==
    ASSUME connection \in Connections, NEW n \in 1..Len(frames)
    PROVE  /\ IsSeq(Bytes(n)) /\ Whole(Bytes(n), n, Sizes[n]) /\ Bytes(n)[1] = <<n, 1>>
           /\ IsSeq(Body(n)) /\ Len(Body(n)) = frames[n].length
           /\ \A k \in 1..frames[n].length : Body(n)[k] = <<n, HeaderLength + k>>
  <1>1. /\ HeaderLength + frames[n].length \in Nat /\ frames[n].length \in Nat
        /\ Sizes[n] = HeaderLength + frames[n].length /\ HeaderLength + frames[n].length >= 1
    BY FrameFacts
  <1> DEFINE B == Bytes(n)
             D == Body(n)
             L == HeaderLength + frames[n].length
             l == frames[n].length
  <1>2. DOMAIN B = 1..L /\ B = [k \in 1..L |-> B[k]] /\ \A k \in 1..L : B[k] = <<n, k>>
    BY DEF Bytes
  <1>3. /\ DOMAIN D = 1..l /\ D = [k \in 1..l |-> D[k]]
        /\ \A k \in 1..l : D[k] = <<n, HeaderLength + k>>
    BY DEF Body
  <1> HIDE DEF B, D, L, l
  <1>4. L \in Nat /\ l \in Nat /\ L >= 1
    BY <1>1 DEF L, l
  <1>5. IsSeq(B) /\ Len(B) = L
    BY <1>2, <1>4, FunctionIsSeq, Zenon
  <1>6. IsSeq(D) /\ Len(D) = l
    BY <1>3, <1>4, FunctionIsSeq, Zenon
  <1>7. B[1] = <<n, 1>>
    BY <1>2, <1>4
  <1>8. Whole(B, n, L)
    BY <1>2, <1>5 DEF Whole
  <1> QED
    BY <1>1, <1>3, <1>5, <1>6, <1>7, <1>8 DEF B, D, L, l

LEMMA Dropped ==
    ASSUME NEW b, NEW w, IsSeq(b), IsSeq(w), NEW L \in Nat, L <= Len(b)
    PROVE  LET c == SubSeq(b, L + 1, Len(b))
           IN  IsSeq(c) /\ IsSeq(c \o w) /\ After(c \o w, b \o w, L)
  <1> DEFINE c == SubSeq(b, L + 1, Len(b))
             x == Then(b, w)
             y == Then(c, w)
  <1>1. Len(b) \in Nat /\ Len(b) <= Len(b) /\ Len(w) \in Nat
    BY SeqFacts
  <1>2. /\ IsSeq(c) /\ Len(c) = Len(b) - L
        /\ \A k \in 1..(Len(b) - L) : c[k] = b[L + k]
    BY <1>1, Part, Zenon
  <1> HIDE DEF c
  <1>3. /\ IsSeq(x) /\ Len(x) = Len(b) + Len(w)
        /\ \A k \in 1..Len(b) : x[k] = b[k]
        /\ \A k \in 1..Len(w) : x[Len(b) + k] = w[k]
    BY JoinStands
  <1>4. /\ IsSeq(y) /\ Len(y) = Len(c) + Len(w)
        /\ \A k \in 1..Len(c) : y[k] = c[k]
        /\ \A k \in 1..Len(w) : y[Len(c) + k] = w[k]
    <2>1. IsSeq(c) /\ IsSeq(w)
      BY <1>2
    <2> QED
      BY <2>1, JoinStands
  <1> HIDE DEF x, y
  <1>5. Len(y) = Len(x) - L /\ Len(y) = (Len(b) - L) + Len(w)
    BY <1>1, <1>2, <1>3, <1>4
  <1>6. ASSUME NEW k \in 1..Len(y) PROVE y[k] = x[L + k]
    <2>1. CASE k <= Len(b) - L
      <3>1. k \in 1..(Len(b) - L) /\ k \in 1..Len(c) /\ L + k \in 1..Len(b)
        BY <1>1, <1>2, <2>1
      <3> QED
        BY <1>2, <1>3, <1>4, <3>1
    <2>2. CASE k > Len(b) - L
      <3> DEFINE j == k - (Len(b) - L)
      <3>1. j \in 1..Len(w) /\ k = Len(c) + j /\ L + k = Len(b) + j
        BY <1>1, <1>2, <1>5, <2>2
      <3> HIDE DEF j
      <3> QED
        BY <1>3, <1>4, <3>1
    <2> QED
      BY <1>1, <1>5, <2>1, <2>2
  <1>7. After(y, x, L)
    BY <1>5, <1>6 DEF After
  <1> QED
    BY <1>2, <1>4, <1>7 DEF c, x, y, Then

\* When a frame is at hand, it is the next one, and all of it.
LEMMA DecodeFrame ==
    ASSUME Wires, connection.transport = "tcp", Decode = "frame", NEW n, n = Len(decoded) + 1
    PROVE  /\ n \in 1..sent /\ n \in 1..Len(frames) /\ Len(decoded) \in Nat
           /\ buffer[1][1] = n /\ Sizes[n] \in Nat /\ Sizes[n] <= Len(buffer)
           /\ \A j \in 1..Sizes[n] : buffer[j] = <<n, j>>
           /\ buffer \o wire # <<>>
  <1> DEFINE S == Then(buffer, wire)
             d == Len(decoded)
             l == Len(buffer)
  <1>1. /\ connection \in Connections /\ IsSeq(buffer) /\ IsSeq(wire) /\ IsSeq(decoded)
        /\ sent \in 0..Len(frames) /\ Stream(Sizes, S, d, sent)
    BY DEF Wires, Then
  <1>2. l \in Nat /\ d \in Nat
    BY <1>1, SeqFacts
  <1>3. ~(l < HeaderLength) /\ ~(l < HeaderLength + frames[buffer[1][1]].length)
    BY DEF Decode
  <1>4. HeaderLength \in Nat /\ HeaderLength >= 1 /\ Len(frames) \in Nat
        /\ Sizes \in [1..Len(frames) -> Nat \ {0}]
    BY <1>1, FrameFacts
  <1>5. /\ IsSeq(S) /\ Len(S) = l + Len(wire) /\ Len(wire) \in Nat
        /\ \A k \in 1..l : S[k] = buffer[k]
    BY <1>1, JoinStands
  <1>6. S # <<>>
    <2> HIDE DEF S, l
    <2>1. l >= 1
      BY <1>2, <1>3, <1>4
    <2>2. Len(S) # 0
      BY <1>2, <1>5, <2>1
    <2> QED
      BY <2>2
  <1> HIDE DEF S, l, d
  <1>7. sent \in Nat /\ \A k \in 1..sent : k \in 1..Len(frames) /\ Sizes[k] \in Nat \ {0}
    BY <1>1, <1>4
  <1>8. d + 1 \in 1..sent /\ Sizes[d + 1] \in Nat /\ Begins(S, d + 1, Sizes[d + 1])
    <2>1. /\ sent \in Nat /\ IsSeq(S) /\ S # <<>> /\ Stream(Sizes, S, d, sent)
          /\ \A k \in 1..sent : Sizes[k] \in Nat \ {0}
      BY <1>1, <1>5, <1>6, <1>7
    <2> HIDE DEF Sizes
    <2> QED
      BY <2>1, StreamFront
  <1>9. n = d + 1
    BY DEF d
  <1>10. n \in 1..sent /\ n \in 1..Len(frames) /\ Sizes[n] \in Nat \ {0}
         /\ \A j \in 1..Sizes[n] : S[j] = <<n, j>>
    BY <1>7, <1>8, <1>9 DEF Begins
  <1>11. buffer[1][1] = n
    <2>1. 1 \in 1..Sizes[n] /\ 1 \in 1..l
      BY <1>2, <1>3, <1>4, <1>10
    <2>2. S[1] = <<n, 1>> /\ S[1] = buffer[1]
      BY <1>5, <1>10, <2>1
    <2> QED
      BY <2>2
  <1>12. Sizes[n] <= l
    <2>1. Sizes[n] = HeaderLength + frames[n].length
      BY <1>1, <1>10, FrameFacts
    <2> QED
      BY <1>2, <1>3, <1>10, <1>11, <2>1
  <1>13. \A j \in 1..Sizes[n] : buffer[j] = <<n, j>>
    <2>1. \A j \in 1..Sizes[n] : j \in 1..l
      BY <1>2, <1>10, <1>12
    <2> QED
      BY <1>5, <1>10, <2>1
  <1> QED
    BY <1>2, <1>6, <1>10, <1>11, <1>12, <1>13 DEF S, l, d, Then

\* What the decoder takes off the stream is the next frame.
LEMMA SplitKeeps ==
    ASSUME Wires, DecodedAsSent, connection.transport = "tcp", Decode = "frame",
           Split, UNCHANGED <<connection, sent, wire>>
    PROVE  Wires' /\ DecodedAsSent'
  <1> DEFINE d == Len(decoded)
             n == d + 1
             L == Sizes[n]
             body == SubSeq(buffer, HeaderLength + 1, L)
             rest == SubSeq(buffer, L + 1, Len(buffer))
  <1>1. /\ n \in 1..sent /\ n \in 1..Len(frames) /\ d \in Nat /\ L \in Nat
        /\ buffer[1][1] = n /\ L <= Len(buffer) /\ buffer \o wire # <<>>
        /\ \A j \in 1..L : buffer[j] = <<n, j>>
    BY DecodeFrame
  <1>2. /\ connection \in Connections /\ IsSeq(buffer) /\ IsSeq(wire) /\ IsSeq(decoded)
        /\ sent \in 0..Len(frames) /\ Stream(Sizes, buffer \o wire, d, sent)
    BY DEF Wires
  <1>3. /\ L = HeaderLength + frames[n].length /\ HeaderLength \in Nat
        /\ frames[n].length \in Nat /\ HeaderLength <= L /\ L - HeaderLength = frames[n].length
        /\ Len(buffer) \in Nat /\ Len(frames) \in Nat /\ DOMAIN frames = 1..Len(frames)
        /\ \A k \in 1..Len(frames) : Sizes[k] \in Nat \ {0}
    <2>1. /\ L = HeaderLength + frames[n].length /\ HeaderLength \in Nat
          /\ frames[n].length \in Nat /\ Len(frames) \in Nat /\ DOMAIN frames = 1..Len(frames)
      BY <1>1, <1>2, FrameFacts
    <2>2. Len(buffer) \in Nat
      BY <1>2, SeqFacts
    <2>3. \A k \in 1..Len(frames) : Sizes[k] \in Nat \ {0}
      BY <1>2, FrameFacts
    <2> QED
      BY <2>1, <2>2, <2>3
  <1>4. /\ decoded' = Append(decoded, body) /\ buffer' = rest
        /\ UNCHANGED <<connection, sent, wire, frames, Sizes>>
    BY <1>1, <1>3 DEF Split, frames, Sizes
  <1>5. IsSeq(rest) /\ IsSeq(rest \o wire) /\ After(rest \o wire, buffer \o wire, L)
    BY <1>1, <1>2, Dropped
  <1>6. body = Body(n)
    <2>1. /\ IsSeq(body) /\ Len(body) = L - HeaderLength
          /\ \A k \in 1..(L - HeaderLength) : body[k] = buffer[HeaderLength + k]
      <3> HIDE DEF d, n, L
      <3>1. IsSeq(buffer) /\ HeaderLength \in Nat /\ L \in Nat /\ L <= Len(buffer) /\ HeaderLength <= L
        BY <1>1, <1>2, <1>3
      <3> QED
        BY <3>1, Part
    <2>2. /\ IsSeq(Body(n)) /\ Len(Body(n)) = frames[n].length
          /\ \A k \in 1..frames[n].length : Body(n)[k] = <<n, HeaderLength + k>>
      BY <1>1, <1>2, BytesFacts
    <2> HIDE DEF d, n, L, body
    <2>3. \A k \in 1..frames[n].length : HeaderLength + k \in 1..L
      BY <1>1, <1>3
    <2>4. ASSUME NEW k \in 1..Len(body) PROVE body[k] = Body(n)[k]
      <3>1. k \in 1..frames[n].length /\ k \in 1..(L - HeaderLength)
        BY <1>3, <2>1
      <3>2. body[k] = buffer[HeaderLength + k]
        BY <2>1, <3>1
      <3>3. buffer[HeaderLength + k] = <<n, HeaderLength + k>>
        BY <1>1, <2>3, <3>1
      <3>4. Body(n)[k] = <<n, HeaderLength + k>>
        BY <2>2, <3>1
      <3> QED
        BY <3>2, <3>3, <3>4
    <2> QED
      BY <1>3, <2>1, <2>2, <2>4, SeqEqual
  <1>7. /\ IsSeq(decoded') /\ Len(decoded') = n /\ DOMAIN decoded' = 1..n
        /\ \A i \in 1..d : decoded'[i] = decoded[i]
        /\ decoded'[n] = body /\ DOMAIN decoded = 1..d
    <2>1. PICK U : decoded \in Seq(U)
      BY <1>2 DEF IsSeq
    <2> HIDE DEF body
    <2>2. decoded \in Seq(U \cup {body})
      BY <2>1
    <2>3. decoded' \in Seq(U \cup {body})
      BY <1>4, <2>2
    <2> QED
      BY <1>4, <2>2, <2>3 DEF IsSeq
  <1>8. DecodedAsSent'
    <2> SUFFICES ASSUME NEW i \in DOMAIN decoded'
                 PROVE  i \in DOMAIN frames /\ decoded'[i] = Body(i)
      BY <1>4 DEF DecodedAsSent, Body
    <2>1. CASE i = n
      BY <1>1, <1>3, <1>6, <1>7, <2>1
    <2>2. CASE i # n
      <3>1. i \in 1..d
        BY <1>1, <1>7, <2>2
      <3> QED
        BY <1>7, <3>1 DEF DecodedAsSent
    <2> QED
      BY <2>1, <2>2
  <1>9. Stream(Sizes, rest \o wire, n, sent)
    <2> DEFINE S == buffer \o wire
               T == rest \o wire
    <2>1. IsSeq(S)
      BY <1>2, Join
    <2>2. sent \in Nat /\ \A k \in 1..sent : Sizes[k] \in Nat \ {0}
      BY <1>1, <1>2, <1>3
    <2>3. S # <<>> /\ Stream(Sizes, S, d, sent) /\ IsSeq(T) /\ After(T, S, Sizes[d + 1])
      BY <1>1, <1>2, <1>5
    <2> HIDE DEF S, T, d, Sizes
    <2>4. Stream(Sizes, T, d + 1, sent)
      BY <2>1, <2>2, <2>3, StreamSplits
    <2> QED
      BY <2>4 DEF T
  <1>10. Wires'
    BY <1>2, <1>4, <1>5, <1>7, <1>9 DEF Wires
  <1> QED
    BY <1>8, <1>10

LEMMA SameWires ==
    ASSUME Wires, DecodedAsSent, UNCHANGED <<connection, tcp, decoded>>,
           items' = items \/ connection.transport = "tcp"
    PROVE  Wires' /\ DecodedAsSent'
  <1>1. UNCHANGED <<connection, sent, wire, buffer, decoded, frames, Sizes>>
    BY DEF tcp, frames, Sizes
  <1>2. DecodedAsSent'
    BY <1>1 DEF DecodedAsSent, Body
  <1>3. connection.transport = "tcp" => connection.transport # "websocket"
    OBVIOUS
  <1>4. Wires'
    BY <1>1, <1>3 DEF Wires
  <1> QED
    BY <1>2, <1>4

\* An item of the websocket is the next one.
LEMMA PullItemKeeps ==
    ASSUME Wires, DecodedAsSent, Shapes, PullItem PROVE Wires' /\ DecodedAsSent'
  <1> DEFINE n == Len(items) + 1
             B == Body(n)
  <1>1. /\ connection.transport = "websocket" /\ Len(items) < Len(frames)
        /\ decoded' = Append(decoded, B) /\ items' = Append(items, frames[n].item)
        /\ UNCHANGED <<connection, sent, wire, buffer, frames, Sizes>>
    BY DEF PullItem, Pull, tcp, frames, Sizes
  <1>2. /\ connection \in Connections /\ IsSeq(decoded) /\ Len(decoded) = Len(items)
        /\ Len(items) \in Nat /\ Len(frames) \in Nat /\ DOMAIN frames = 1..Len(frames)
    BY <1>1, FrameFacts, PlaceFacts DEF Wires
  <1>3. n \in 1..Len(frames) /\ DOMAIN decoded = 1..Len(items)
    BY <1>1, <1>2, SeqFacts
  <1>4. Len(items') = n
    BY <1>1 DEF Shapes
  <1>5. /\ IsSeq(decoded') /\ Len(decoded') = n /\ DOMAIN decoded' = 1..n
        /\ \A i \in 1..Len(items) : decoded'[i] = decoded[i]
        /\ decoded'[n] = B
    <2>1. PICK U : decoded \in Seq(U)
      BY <1>2 DEF IsSeq
    <2> HIDE DEF B
    <2>2. decoded \in Seq(U \cup {B})
      BY <2>1
    <2>3. decoded' \in Seq(U \cup {B})
      BY <1>1, <2>2
    <2> QED
      BY <1>1, <1>2, <2>2, <2>3 DEF IsSeq
  <1>6. DecodedAsSent'
    <2> SUFFICES ASSUME NEW i \in DOMAIN decoded'
                 PROVE  i \in DOMAIN frames /\ decoded'[i] = Body(i)
      BY <1>1 DEF DecodedAsSent, Body
    <2>1. CASE i = n
      BY <1>2, <1>3, <1>5, <2>1
    <2>2. CASE i # n
      <3>1. i \in 1..Len(items)
        BY <1>2, <1>5, <2>2
      <3> QED
        BY <1>3, <1>5, <3>1 DEF DecodedAsSent
    <2> QED
      BY <2>1, <2>2
  <1>7. Wires'
    BY <1>1, <1>4, <1>5 DEF Wires
  <1> QED
    BY <1>6, <1>7

LEMMA SendKeeps ==
    ASSUME Wires, DecodedAsSent, Send PROVE Wires' /\ DecodedAsSent'
  <1> DEFINE n == sent + 1
             F == Bytes(n)
             N == Len(frames)
             d == Len(decoded)
             S == Then(buffer, wire)
  <1>1. /\ connection.transport = "tcp" /\ sent < N /\ sent' = n
        /\ wire' = Then(wire, F)
        /\ UNCHANGED <<connection, buffer, decoded, frames, Sizes>>
    BY DEF Send, frames, Sizes, Then
  <1>2. /\ connection \in Connections /\ IsSeq(buffer) /\ IsSeq(wire) /\ IsSeq(decoded)
        /\ sent \in 0..N /\ Stream(Sizes, S, d, sent)
    BY <1>1 DEF Wires, Then
  <1>3. N \in Nat /\ Sizes \in [1..N -> Nat \ {0}]
    BY <1>2, FrameFacts
  <1> HIDE DEF N
  <1>4. n \in 1..N /\ sent \in 0..N - 1
    BY <1>1, <1>2, <1>3
  <1>5. IsSeq(F) /\ Whole(F, n, Sizes[n])
    BY <1>2, <1>4, BytesFacts DEF N
  <1> HIDE DEF F, d
  <1>6. IsSeq(S) /\ IsSeq(wire')
    <2>1. IsSeq(wire') <=> IsSeq(Then(wire, F))
      BY <1>1
    <2> QED
      BY <1>2, <1>5, <2>1, JoinStands
  <1> HIDE DEF S
  <1>7. Stream(Sizes, S \o F, d, n)
    <2> HIDE DEF Sizes
    <2> QED
      BY <1>2, <1>3, <1>4, <1>5, <1>6, StreamSends
  <1>8. S \o F = buffer \o wire'
    <2>1. S \o F = (buffer \o wire) \o F
      BY DEF S, Then
    <2>2. wire' = wire \o F
      BY <1>1 DEF Then
    <2>3. PICK U, V, W : buffer \in Seq(U) /\ wire \in Seq(V) /\ F \in Seq(W)
      BY <1>2, <1>5 DEF IsSeq
    <2> DEFINE X == U \cup V \cup W
    <2>4. buffer \in Seq(X) /\ wire \in Seq(X) /\ F \in Seq(X)
      BY <2>3
    <2> HIDE DEF X
    <2>5. (buffer \o wire) \o F = buffer \o (wire \o F)
      BY <2>4
    <2> QED
      BY <2>1, <2>2, <2>5
  <1>9. Wires'
    <2>1. Stream(Sizes, buffer \o wire', d, n)
      BY <1>7, <1>8
    <2>2. n \in 0..N
      BY <1>3, <1>4
    <2> QED
      BY <1>1, <1>2, <1>6, <2>1, <2>2 DEF Wires, d, N
  <1>10. DecodedAsSent'
    BY <1>1 DEF DecodedAsSent, Body
  <1> QED
    BY <1>9, <1>10

LEMMA ChunkKeeps ==
    ASSUME Wires, DecodedAsSent, NEW n \in DOMAIN wire, Chunk(n)
    PROVE  Wires' /\ DecodedAsSent'
  <1>1. /\ connection.transport = "tcp" /\ n \in 1..Len(wire)
        /\ buffer' = buffer \o SubSeq(wire, 1, n)
        /\ wire' = SubSeq(wire, n + 1, Len(wire))
        /\ UNCHANGED <<connection, sent, decoded, frames, Sizes>>
    BY DEF Chunk, Polled, frames, Sizes
  <1>2. IsSeq(buffer) /\ IsSeq(wire)
    BY DEF Wires
  <1>3. IsSeq(buffer') /\ IsSeq(wire') /\ buffer' \o wire' = buffer \o wire
    BY <1>1, <1>2, Delivered
  <1>4. Wires'
    BY <1>1, <1>3 DEF Wires
  <1>5. DecodedAsSent'
    BY <1>1 DEF DecodedAsSent, Body
  <1> QED
    BY <1>4, <1>5

LEMMA WiresKeep ==
    ASSUME Wires, DecodedAsSent, Shapes, [Next]_vars PROVE Wires' /\ DecodedAsSent'
  <1>1. CASE PullItem
    BY <1>1, PullItemKeeps
  <1>2. CASE CloseWebsocket
    BY <1>2, SameWires DEF CloseWebsocket, SourceEnds
  <1>3. CASE Send
    BY <1>3, SendKeeps
  <1>4. CASE \E n \in DOMAIN wire : Chunk(n)
    BY <1>4, ChunkKeeps
  <1>5. CASE Handshake
    BY <1>5, SplitKeeps DEF Handshake, Polled
  <1>6. CASE PullFrame
    BY <1>6, SplitKeeps DEF PullFrame, Polled
  <1>7. CASE BadHeader \/ CloseTcp
    BY <1>7, SameWires DEF BadHeader, CloseTcp, Polled
  <1>8. CASE Loop
    BY <1>8, SameWires DEF Loop, Dispatch
  <1>9. CASE UNCHANGED vars
    BY <1>9, SameWires DEF vars, flattenVars
  <1> QED
    BY <1>1, <1>2, <1>3, <1>4, <1>5, <1>6, <1>7, <1>8, <1>9 DEF Next
-----------------------------------------------------------------------------
(* Whatever the transport, Flatten sees items, and errors of the transport *)
(* that are items.                                                         *)

LEMMA FailedIsItem ==
    ASSUME NEW how \in {"invalid", "fatal"} PROVE Failed(how) \in Item
  <1> DEFINE m == NoPacket.message
  <1>1. m = [kind |-> "other", is_protobuf |-> FALSE, header |-> NoHeader, body |-> 0]
        /\ NoPacket = [message |-> m, arrives |-> 0]
    BY DEF NoPacket
  <1>2. NoHeader \in Header
    BY DEF NoHeader, Header
  <1>3. "other" \in Kinds
    BY DEF Kinds
  <1>4. m \in Message /\ ~m.is_protobuf
    BY <1>1, <1>2, <1>3 DEF Message
  <1> HIDE DEF m
  <1>5. IsSeq(HeaderAfterKind(m))
    <2>1. HeaderAfterKind(m) = ExtendedHeader(m.header)
      BY <1>4 DEF HeaderAfterKind
    <2>2. IsSeq(ExtendedHeader(m.header))
      BY <1>4, ExtendedHeaderFields, Zenon
    <2> QED
      BY <2>1, <2>2
  <1>6. Len(Written(m)) \in Nat
    <2> DEFINE kb == Word("kind", <<m.kind, m.is_protobuf>>, 4)
               hd == HeaderAfterKind(m)
               bb == BodyBytes(m)
               front == Then(kb, hd)
    <2>1. m.body \in Nat /\ 4 \in Nat
      BY <1>4 DEF Message
    <2>2. IsSeq(kb) /\ IsSeq(bb)
      BY <2>1, WordIsSeq DEF BodyBytes
    <2>3. Written(m) = Then(front, bb)
      BY WrittenIs
    <2> HIDE DEF kb, hd, bb
    <2>4. IsSeq(front)
      BY <1>5, <2>2, JoinStands DEF hd
    <2> HIDE DEF front
    <2>5. IsSeq(Then(front, bb))
      BY <2>2, <2>4, JoinStands
    <2> QED
      BY <2>3, <2>5, SeqFacts
  <1>7. NoPacket \in Packet
    BY <1>1, <1>4, <1>6 DEF Packet
  <1> QED
    BY <1>7 DEF Failed, Item

LEMMA FlattenSteps == ASSUME Wires, [Next]_vars PROVE [FlattenNext]_flattenVars
  <1>1. CASE PullItem
    <2> DEFINE n == Len(items) + 1
    <2>1. Pull(frames[n].item) /\ Len(items) < Len(frames) /\ connection.transport = "websocket"
      BY <1>1 DEF PullItem
    <2>2. connection \in Connections /\ IsSeq(decoded) /\ Len(items) = Len(decoded)
      BY <2>1 DEF Wires
    <2>3. n \in 1..Len(frames)
      <3>1. Len(items) \in Nat /\ Len(frames) \in Nat
        BY <2>2, SeqFacts, FrameFacts
      <3> QED
        BY <2>1, <3>1
    <2>4. frames[n].item \in Item
      BY <2>2, <2>3, FrameFacts
    <2> QED
      BY <2>1, <2>4 DEF FlattenNext
  <1>2. CASE CloseWebsocket
    BY <1>2 DEF CloseWebsocket, FlattenNext
  <1>3. CASE Send \/ (\E n \in DOMAIN wire : Chunk(n)) \/ Handshake \/ UNCHANGED vars
    BY <1>3 DEF Send, Chunk, Handshake, vars
  <1>4. CASE PullFrame
    <2> DEFINE n == Len(decoded) + 1
    <2>1. connection.transport = "tcp" /\ Decode = "frame" /\ Pull(frames[buffer[1][1]].item)
      BY <1>4 DEF PullFrame, Polled
    <2>2. n \in 1..Len(frames) /\ buffer[1][1] = n
      BY <2>1, DecodeFrame
    <2>3. connection \in Connections
      BY DEF Wires
    <2> HIDE DEF n
    <2>4. frames[n].item \in Item
      BY <2>2, <2>3, FrameFacts
    <2> QED
      BY <2>1, <2>2, <2>4 DEF FlattenNext
  <1>5. CASE BadHeader
    <2>1. Failed("invalid") \in Item
      BY FailedIsItem
    <2>2. Pull(Failed("invalid")) \/ UNCHANGED flattenVars
      BY <1>5 DEF BadHeader
    <2> QED
      BY <2>1, <2>2 DEF FlattenNext
  <1>6. CASE CloseTcp
    <2>1. Failed("fatal") \in Item
      BY FailedIsItem
    <2>2. Pull(Failed("fatal")) \/ SourceEnds \/ UNCHANGED flattenVars
      BY <1>6 DEF CloseTcp
    <2> QED
      BY <2>1, <2>2 DEF FlattenNext
  <1>7. CASE Loop
    BY <1>7 DEF Loop, FlattenNext
  <1> QED
    BY <1>1, <1>2, <1>3, <1>4, <1>5, <1>6, <1>7 DEF Next

\* Splitting a frame off takes one frame.
LEMMA SplitTakes ==
    ASSUME IsSeq(decoded), Split
    PROVE  Len(decoded) \in Nat /\ Len(decoded') = Len(decoded) + 1
  <1> DEFINE body == SubSeq(buffer, HeaderLength + 1,
                            HeaderLength + frames[buffer[1][1]].length)
  <1>1. decoded' = Append(decoded, body)
    BY DEF Split
  <1>2. PICK U : decoded \in Seq(U)
    BY DEF IsSeq
  <1> HIDE DEF body
  <1>3. decoded \in Seq(U \cup {body})
    BY <1>2
  <1> QED
    BY <1>1, <1>3

\* An error of the transport has one result, itself.
LEMMA ErrorEnds ==
    ASSUME Pull(Failed("fatal")) PROVE current' # <<>> /\ current'[1].read.is = "fatal"
  <1> DEFINE f == Failed("fatal")
  <1>1. ReadItem(f) = Fails("fatal") /\ Fails("fatal").is = "fatal"
    BY DEF Failed, ReadItem, Fails
  <1> HIDE DEF f
  <1>2. Flattened(f) = <<Fails("fatal")>>
    BY <1>1 DEF Flattened
  <1>3. current' = Results(f, Len(items) + 1)
    BY DEF Pull, f
  <1>4. DOMAIN Results(f, Len(items) + 1) = {1} /\ Results(f, Len(items) + 1)[1].read = Fails("fatal")
    BY <1>2 DEF Results
  <1>5. current' # <<>>
    <2>1. DOMAIN current' = {1} /\ 1 \in {1}
      BY <1>3, <1>4
    <2>2. DOMAIN <<>> = {}
      OBVIOUS
    <2> QED
      BY <2>1, <2>2
  <1> QED
    BY <1>1, <1>3, <1>4, <1>5

LEMMA PulledKeeps ==
    ASSUME Wires, Pulled, Shapes, [Next]_vars PROVE Pulled'
  <1> DEFINE own == HandshakeFrames
  <1>1. /\ connection' = connection /\ frames' = frames /\ HandshakeFrames' = HandshakeFrames
        /\ Errors' = Errors
    BY DEF Next, vars, frames, HandshakeFrames, Errors, PullItem, CloseWebsocket, Send, Chunk,
           Handshake, PullFrame, BadHeader, CloseTcp, Loop
  <1>2. /\ IsSeq(decoded) /\ Len(decoded) \in Nat /\ items \in Seq(Item) /\ Len(items) \in Nat
        /\ DOMAIN items = 1..Len(items)
    BY SeqFacts DEF Wires, Shapes
  <1>3. connection.transport = "tcp" => HandshakeFrames = 2
    BY DEF HandshakeFrames
  <1>4. ASSUME UNCHANGED <<items, decoded, phase>>, Ending => Ending'
        PROVE  Pulled'
    BY <1>1, <1>4 DEF Pulled, Phases
  <1>5. ASSUME UNCHANGED <<stage, current>> PROVE Ending => Ending'
    BY <1>5 DEF Ending
  <1>6. CASE PullItem
    <2> DEFINE n == Len(items) + 1
    <2>1. /\ connection.transport = "websocket" /\ HandshakeFrames = 0
          /\ items' = Append(items, frames[n].item) /\ Len(decoded) = Len(items)
      BY <1>6 DEF PullItem, Pull, HandshakeFrames, Wires
    <2>2. /\ DOMAIN items' = 1..n /\ items'[n] = frames[n].item
          /\ \A i \in 1..Len(items) : items'[i] = items[i]
      BY <1>2, <2>1
    <2>3. ASSUME NEW i \in 1..n PROVE items'[i] = frames[i].item
      <3>1. CASE i = n
        BY <2>2, <3>1
      <3>2. CASE i # n
        <4>1. i \in DOMAIN items /\ i + 0 = i /\ i <= Len(decoded)
          BY <1>2, <2>1, <3>2
        <4>2. items[i] = frames[i].item
          BY <2>1, <4>1 DEF Pulled
        <4> QED
          BY <1>2, <2>2, <4>1, <4>2
      <3> QED
        BY <3>1, <3>2
    <2>4. \A i \in 1..n : i + 0 = i
      BY <1>2
    <2> HIDE DEF n
    <2> QED
      BY <1>1, <2>1, <2>2, <2>3, <2>4 DEF Pulled
  <1>7. CASE CloseWebsocket
    <2>1. connection.transport # "tcp" /\ UNCHANGED <<items, decoded>>
      BY <1>7 DEF CloseWebsocket, SourceEnds
    <2> QED
      BY <1>1, <2>1 DEF Pulled
  <1>8. CASE Send \/ (\E n \in DOMAIN wire : Chunk(n)) \/ UNCHANGED vars
    BY <1>4, <1>5, <1>8 DEF Send, Chunk, vars, flattenVars
  <1>9. CASE Handshake
    <2>1. /\ connection.transport = "tcp" /\ phase \in {"request", "result"}
          /\ phase' \in {IF phase = "request" THEN "result" ELSE "connected", "failed"}
          /\ items' = items /\ Split
      BY <1>9 DEF Handshake, Polled, flattenVars
    <2>2. items = <<>> /\ Len(items) = 0 /\ (phase = "request" => Len(decoded) = 0)
          /\ (phase = "result" => Len(decoded) = 1)
      BY <2>1 DEF Pulled, Phases
    <2>3. Len(decoded') = Len(decoded) + 1
      BY <1>2, <2>1, SplitTakes
    <2>4. Phases'
      <3>1. items' = <<>> /\ Len(items') = 0
        BY <2>1, <2>2
      <3>2. CASE phase = "request"
        <4>1. Len(decoded') = 1 /\ phase' \in {"result", "failed"}
          BY <2>1, <2>2, <2>3, <3>2
        <4> QED
          BY <3>1, <4>1 DEF Phases
      <3>3. CASE phase = "result"
        <4>1. Len(decoded') = 2
          <5>1. Len(decoded) = 1
            BY <2>2, <3>3
          <5> QED
            BY <2>3, <5>1
        <4>2. phase' \in {"connected", "failed"}
          BY <2>1, <3>3
        <4> QED
          BY <3>1, <4>1, <4>2 DEF Phases
      <3> QED
        BY <2>1, <3>2, <3>3
    <2>5. DOMAIN items' = {}
      BY <1>2, <2>1, <2>2
    <2> QED
      BY <2>4, <2>5 DEF Pulled
  <1>10. CASE PullFrame
    <2> DEFINE n == Len(items) + 1
               m == Len(decoded) + 1
    <2>1. /\ connection.transport = "tcp" /\ phase = "connected" /\ phase' = phase
          /\ stage = "next" /\ current = <<>> /\ Decode = "frame" /\ Split
          /\ items' = Append(items, frames[buffer[1][1]].item)
      BY <1>10 DEF PullFrame, Polled, Pull
    <2>2. buffer[1][1] = m
      BY <2>1, DecodeFrame
    <2>3. Len(decoded) = Len(items) + 2
      BY <2>1 DEF Pulled, Phases, Ending
    <2>4. Len(decoded') = Len(decoded) + 1
      BY <1>2, <2>1, SplitTakes
    <2>5. /\ Len(items') = n /\ DOMAIN items' = 1..n /\ items'[n] = frames[m].item
          /\ \A i \in 1..Len(items) : items'[i] = items[i]
      <3> HIDE DEF m
      <3> QED
        BY <1>2, <2>1, <2>2
    <2>6. Phases'
      BY <2>1, <2>3, <2>4, <2>5 DEF Phases
    <2>7. ASSUME NEW i \in 1..n PROVE items'[i] = frames[i + 2].item
      <3>1. CASE i = n
        <4>1. i + 2 = m
          BY <1>2, <2>3, <3>1
        <4> QED
          BY <2>5, <3>1, <4>1
      <3>2. CASE i # n
        <4>1. i \in DOMAIN items /\ i + 2 <= Len(decoded)
          BY <1>2, <2>3, <3>2
        <4>2. items[i] = frames[i + 2].item
          BY <1>3, <2>1, <4>1 DEF Pulled
        <4> QED
          BY <1>2, <2>5, <4>1, <4>2
      <3> QED
        BY <3>1, <3>2
    <2> HIDE DEF n, m
    <2> QED
      BY <1>1, <1>3, <2>1, <2>5, <2>6, <2>7 DEF Pulled
  <1>11. ASSUME NEW e \in {Failed("invalid"), Failed("fatal")}, Pull(e), decoded' = decoded,
                connection.transport = "tcp", phase = "connected",
                phase' = "broken" \/ (phase' = "connected" /\ Ending')
         PROVE  Pulled'
    <2> DEFINE n == Len(items) + 1
    <2>1. stage = "next" /\ current = <<>> /\ items' = Append(items, e)
      BY <1>11 DEF Pull
    <2>2. Len(decoded) = Len(items) + 2
      BY <1>11, <2>1 DEF Pulled, Phases, Ending
    <2>3. /\ Len(items') = n /\ DOMAIN items' = 1..n /\ items'[n] = e
          /\ \A i \in 1..Len(items) : items'[i] = items[i]
      BY <1>2, <2>1
    <2>4. e \in Errors
      BY <1>11 DEF Errors
    <2>5. Phases'
      BY <1>1, <1>2, <1>11, <2>2, <2>3, <2>4 DEF Phases
    <2>6. ASSUME NEW i \in 1..n, i + 2 <= Len(decoded) PROVE items'[i] = frames[i + 2].item
      <3>1. i \in DOMAIN items
        BY <1>2, <2>2, <2>6
      <3>2. items[i] = frames[i + 2].item
        BY <1>3, <1>11, <2>6, <3>1 DEF Pulled
      <3> QED
        BY <1>2, <2>3, <3>1, <3>2
    <2> HIDE DEF n
    <2> QED
      BY <1>1, <1>3, <1>11, <2>3, <2>5, <2>6 DEF Pulled
  <1>12. CASE BadHeader
    <2>1. connection.transport = "tcp" /\ decoded' = decoded /\ phase \notin {"failed", "broken"}
      BY <1>12 DEF BadHeader, Polled
    <2>2. CASE phase = "connected"
      <3> DEFINE e == Failed("invalid")
      <3>1. phase' = "broken"
        BY <1>12, <2>2 DEF BadHeader
      <3>2. Pull(e)
        BY <1>12, <2>2 DEF BadHeader
      <3>3. e \in {Failed("invalid"), Failed("fatal")}
        OBVIOUS
      <3> HIDE DEF e
      <3> QED
        BY <1>11, <2>1, <2>2, <3>1, <3>2, <3>3
    <2>3. CASE phase # "connected"
      <3>1. phase' = "failed" /\ items' = items /\ phase \in {"request", "result"}
        BY <1>12, <2>1, <2>3 DEF BadHeader, flattenVars, Pulled, Phases
      <3>2. items = <<>> /\ DOMAIN items = {}
        BY <1>2, <2>1, <3>1 DEF Pulled, Phases
      <3>3. Phases'
        BY <3>1, <3>2 DEF Phases
      <3> QED
        BY <3>1, <3>2, <3>3 DEF Pulled
    <2> QED
      BY <2>2, <2>3
  <1>13. CASE CloseTcp
    <2>1. connection.transport = "tcp" /\ decoded' = decoded /\ stage = "next" /\ current = <<>>
          /\ phase # "failed"
      BY <1>13 DEF CloseTcp, Polled
    <2>2. CASE phase \in {"request", "result"}
      <3>1. phase' = "failed" /\ items' = items
        BY <1>13, <2>2 DEF CloseTcp, flattenVars
      <3>2. items = <<>> /\ DOMAIN items = {}
        BY <1>2, <2>1, <2>2 DEF Pulled, Phases
      <3>3. Phases'
        BY <3>1, <3>2 DEF Phases
      <3> QED
        BY <3>1, <3>2, <3>3 DEF Pulled
    <2>3. CASE phase = "connected" /\ buffer # <<>>
      <3>1. Pull(Failed("fatal")) /\ phase' = "connected"
        BY <1>13, <2>3 DEF CloseTcp
      <3>2. Ending'
        BY <3>1, ErrorEnds DEF Ending
      <3> QED
        BY <1>11, <2>1, <2>3, <3>1, <3>2
    <2>4. CASE phase \notin {"request", "result"} /\ ~(phase = "connected" /\ buffer # <<>>)
      <3>1. SourceEnds /\ UNCHANGED phase
        BY <1>13, <2>4 DEF CloseTcp
      <3>2. UNCHANGED <<items, decoded, phase>> /\ Ending'
        BY <2>1, <3>1 DEF SourceEnds, Ending
      <3> QED
        BY <1>4, <3>2
    <2> QED
      BY <2>2, <2>3, <2>4
  <1>14. CASE Loop
    <2>1. UNCHANGED <<items, decoded, phase>> /\ stage = "next" /\ current # <<>>
          /\ stage' = IF Head(current).read.is = "fatal" THEN "error" ELSE stage
      BY <1>14 DEF Loop, Dispatch
    <2>2. Head(current) = current[1]
      <3>1. PICK U : current \in Seq(U)
        BY DEF Shapes, IsSeq
      <3> QED
        BY <2>1, <3>1
    <2>3. Ending => Ending'
      BY <2>1, <2>2 DEF Ending
    <2> QED
      BY <1>4, <2>1, <2>3
  <1> QED
    BY <1>6, <1>7, <1>8, <1>9, <1>10, <1>12, <1>13, <1>14 DEF Next

\* With the frames decoded as sent, the items are.
LEMMA AsSent == Wires /\ Shapes /\ DecodedAsSent /\ Pulled => FramesAsSent
  <1> SUFFICES ASSUME Wires, Shapes, DecodedAsSent, Pulled PROVE FramesAsSent
    OBVIOUS
  <1>1. /\ Len(decoded) \in Nat /\ DOMAIN decoded = 1..Len(decoded)
        /\ Len(items) \in Nat /\ DOMAIN items = 1..Len(items)
    BY SeqFacts DEF Wires, Shapes
  <1>2. CASE connection.transport = "tcp"
    <2>1. HandshakeFrames = 2
      BY <1>2 DEF HandshakeFrames
    <2>2. ASSUME NEW i \in DOMAIN items
          PROVE  \/ i + 2 \in DOMAIN decoded /\ items[i] = frames[i + 2].item
                 \/ i = Len(items) /\ i + 2 = Len(decoded) + 1 /\ items[i] \in Errors
      <3>1. CASE i + 2 <= Len(decoded)
        <4>1. items[i] = frames[i + 2].item
          BY <2>1, <3>1 DEF Pulled
        <4> QED
          BY <1>1, <3>1, <4>1
      <3>2. CASE ~(i + 2 <= Len(decoded))
        <4>1. Phases /\ items # <<>>
          BY <1>1, <1>2 DEF Pulled
        <4>2. i \in 1..Len(items)
          BY <1>1, <2>2
        <4> HIDE DEF Errors
        <4>5. i <= Len(items) /\ ~(Len(decoded) = Len(items) + 2)
          <5>1. ASSUME NEW k \in Nat, NEW l \in Nat, i \in 1..k, ~(i + 2 <= l)
                PROVE  i <= k /\ ~(l = k + 2)
            BY <5>1
          <5> QED
            BY <1>1, <3>2, <4>2, <5>1
        <4>3. phase \in {"connected", "broken"}
          BY <4>1 DEF Phases
        <4>4. /\ Len(decoded) = Len(items) + 1 /\ items[Len(items)] \in Errors
          BY <4>1, <4>3, <4>5 DEF Phases
        <4> QED
          BY <1>1, <3>2, <4>4, <4>5
      <3> QED
        BY <3>1, <3>2
    <2> QED
      BY <2>1, <2>2 DEF FramesAsSent, DecodedAsSent
  <1>3. CASE connection.transport # "tcp"
    <2>1. HandshakeFrames = 0 /\ connection.transport = "websocket"
      BY <1>3, FrameFacts DEF HandshakeFrames, Wires
    <2>2. ASSUME NEW i \in DOMAIN items
          PROVE  i + 0 \in DOMAIN decoded /\ items[i] = frames[i + 0].item
      <3>1. i + 0 <= Len(decoded) /\ i \in 1..Len(decoded) /\ i + 0 = i
        BY <1>1, <2>1 DEF Wires
      <3> QED
        BY <1>1, <2>1, <3>1 DEF Pulled
    <2> QED
      BY <2>1, <2>2 DEF FramesAsSent, DecodedAsSent
  <1> QED
    BY <1>2, <1>3

LEMMA WiresInit == Init => Wires /\ DecodedAsSent
  <1> SUFFICES ASSUME Init PROVE Wires /\ DecodedAsSent
    OBVIOUS
  <1>1. /\ connection \in Connections /\ sent = 0 /\ wire = <<>> /\ buffer = <<>>
        /\ decoded = <<>> /\ items = <<>>
    BY DEF Init, FlattenInit
  <1>2. <<>> \in Seq({}) /\ Len(decoded) = 0 /\ Len(items) = 0 /\ DOMAIN decoded = {}
    BY <1>1
  <1>3. IsSeq(<<>>)
    BY <1>2 DEF IsSeq
  <1>4. Len(frames) \in Nat
    BY <1>1, FrameFacts
  <1>5. Stream(Sizes, buffer \o wire, 0, 0)
    <2>1. buffer \o wire = <<>>
      BY <1>1
    <2> HIDE DEF Sizes
    <2>2. DOMAIN (buffer \o wire) = {}
      BY <2>1
    <2> QED
      BY <2>1, <2>2 DEF Stream
  <1>6. Wires
    BY <1>1, <1>2, <1>3, <1>4, <1>5 DEF Wires
  <1>7. DecodedAsSent
    BY <1>2 DEF DecodedAsSent
  <1> QED
    BY <1>6, <1>7

\* The invariant of the transports holds in every state.
THEOREM InductiveTransport == Spec => []TInv
  <1>1. Init => TInv
    <2> SUFFICES ASSUME Init PROVE TInv
      OBVIOUS
    <2>1. Wires /\ DecodedAsSent /\ IInv
      BY WiresInit, InitHolds DEF Init
    <2>2. /\ items = <<>> /\ DOMAIN items = {} /\ Len(decoded) = 0
          /\ connection.transport = "tcp" => phase = "request"
      BY DEF Init, FlattenInit
    <2>3. Pulled
      BY <2>2 DEF Pulled, Phases
    <2> QED
      BY <2>1, <2>3 DEF TInv
  <1>2. TInv /\ [Next]_vars => TInv'
    <2> SUFFICES ASSUME TInv, [Next]_vars PROVE TInv'
      OBVIOUS
    <2>1. Wires' /\ DecodedAsSent'
      BY WiresKeep DEF TInv, IInv
    <2>2. IInv'
      BY FlattenSteps, StepKeeps DEF TInv
    <2>3. Pulled'
      BY PulledKeeps DEF TInv, IInv
    <2> QED
      BY <2>1, <2>2, <2>3 DEF TInv
  <1> QED
    BY <1>1, <1>2, PTL DEF Spec

\* A transport feeds Flatten with items and nothing else: the loop over a
\* websocket or over TCP is the loop of Flatten (filter.rs lines 82-129).
THEOREM ImplementsFlatten == Spec => FlattenSpec
  <1>1. Init => FlattenInit
    BY DEF Init
  <1>2. TInv /\ [Next]_vars => [FlattenNext]_flattenVars
    BY FlattenSteps DEF TInv
  <1> QED
    BY <1>1, <1>2, InductiveTransport, PTL DEF Spec, FlattenSpec

\* Messages are dispatched in the order of the items and of the children in
\* them, each at most once, whatever the items and however long the stream.
THEOREM InOrderHolds == Spec => []InOrder
  <1>1. TInv => InOrder
    BY DEF TInv, IInv
  <1> QED
    BY <1>1, InductiveTransport, PTL

\* Every readable message is dispatched in its turn unless fatal damage came
\* before it, whatever else is damaged, and nothing else is dispatched.
THEOREM DamageContainedHolds == Spec => []DamageContained
  <1>1. TInv => DamageContained
    BY DamageFromIInv DEF TInv
  <1> QED
    BY <1>1, InductiveTransport, PTL

\* Messages cut off anywhere are dispatched with the header they were sent
\* with and all of the body that arrived, or not at all.
THEOREM HeaderIntactHolds == Spec => []HeaderIntact
  <1>1. TInv => HeaderIntact
    BY HeaderFromIInv DEF TInv
  <1> QED
    BY <1>1, InductiveTransport, PTL

\* The decoder gives back the frames that were sent, whole and in order,
\* whatever the lengths of the frames and the chunks in which they arrive, and
\* the items are what the frames behind the handshake carried, one for each.
THEOREM FramesAsSentHolds == Spec => []FramesAsSent
  <1>1. TInv => FramesAsSent
    BY AsSent DEF TInv, IInv
  <1> QED
    BY <1>1, InductiveTransport, PTL
-----------------------------------------------------------------------------
(* From the bytes of the server to the dispatch. *)

\* The packet that is to be dispatched at a place, as the server sent it.
SentAt(p) == LET item == frames[p[1] + HandshakeFrames].item
             IN  IF IsMulti(item) THEN item.children[p[2]] ELSE item.packet

\* End to end: what is dispatched at <<n, k>> is what frame n behind the
\* handshake carried, or child k of it, read from all of its bytes that were
\* sent; never part of another frame, an error, or a message whose header was
\* cut off.  The codec, flatten_multi, read and the loop must all do their part
\* (tcp.rs lines 40-60, message.rs lines 183-239, net.rs lines 259-288,
\* filter.rs lines 82-129).
EndToEnd ==
    \A i \in DOMAIN dispatched :
        LET d == dispatched[i]
            n == d.at[1] + HandshakeFrames
            p == SentAt(d.at)
        IN  /\ n \in DOMAIN decoded /\ n \in DOMAIN frames /\ decoded[n] = Body(n)
            /\ p \in Packet /\ Reads(d.read, p)

LEMMA EndToEndFromTInv == TInv => EndToEnd
  <1> SUFFICES ASSUME TInv, NEW i \in DOMAIN dispatched
               PROVE  LET d == dispatched[i]
                          n == d.at[1] + HandshakeFrames
                          p == SentAt(d.at)
                      IN  /\ n \in DOMAIN decoded /\ n \in DOMAIN frames /\ decoded[n] = Body(n)
                          /\ p \in Packet /\ Reads(d.read, p)
    BY DEF EndToEnd
  <1> DEFINE d == dispatched[i]
             q == d.at
             item == items[q[1]]
             n == q[1] + HandshakeFrames
             p == SentAt(q)
  <1>1. Shapes /\ q \in Places /\ Good(q) /\ d.read = Result(q)
    BY DEF TInv, IInv, Faithful, Passed
  <1>2. FramesAsSent
    BY <1>1, AsSent DEF TInv
  <1> HIDE DEF d, q
  <1>3. q[1] \in DOMAIN items /\ item \in Item /\ Result(q).is \in {"message", "multi"}
    BY <1>1, PlaceFacts DEF Good
  <1>4. \/ q[1] \notin Multis /\ Result(q) = ReadItem(item) /\ ReadItem(item).is # "multi"
        \/ /\ q[1] \in Multis /\ q[2] \in DOMAIN item.children
           /\ Result(q) = ReadPacket(item.children[q[2]])
    BY <1>1, <1>3, PlaceKinds, FailsAsSaid
  <1>5. ReadItem(item).is \in {"message", "multi"}
    <2>1. q[1] \in Multis => ReadItem(item).is = "multi"
      BY DEF Multis
    <2> QED
      BY <1>3, <1>4, <2>1
  <1>6. item.fails = "no" /\ ReadItem(item) = ReadPacket(item.packet)
    <2> HIDE DEF item
    <2>1. item.fails = "no"
      <3>1. item.fails \in {"no", "invalid", "fatal"}
        BY <1>3, ItemFacts
      <3>2. item.fails # "no" => ReadItem(item).is = item.fails
        BY FailsAsSaid DEF ReadItem
      <3> QED
        BY <1>5, <3>1, <3>2
    <2> QED
      BY <2>1 DEF ReadItem
  <1>7. item \notin Errors
    <2>1. Failed("invalid").fails = "invalid" /\ Failed("fatal").fails = "fatal"
      BY DEF Failed
    <2> HIDE DEF item
    <2> QED
      BY <1>6, <2>1 DEF Errors
  <1>8. n \in DOMAIN decoded /\ item = frames[n].item
    BY <1>2, <1>3, <1>7 DEF FramesAsSent
  <1>9. n \in DOMAIN frames /\ decoded[n] = Body(n)
    BY <1>2, <1>8 DEF FramesAsSent
  <1>10. /\ item.children \in Seq(Packet) /\ item.packet \in Packet
    BY <1>3, ItemFacts
  <1>11. p = IF IsMulti(item) THEN item.children[q[2]] ELSE item.packet
    BY <1>8 DEF SentAt
  <1>12. q[1] \in Multis <=> IsMulti(item)
    BY <1>3, MultisAre
  <1> HIDE DEF item, n, p
  <1>13. p \in Packet /\ d.read = ReadPacket(p)
    <2>1. CASE q[1] \in Multis
      BY <1>1, <1>4, <1>10, <1>11, <1>12, <2>1
    <2>2. CASE q[1] \notin Multis
      BY <1>1, <1>4, <1>6, <1>10, <1>11, <1>12, <2>2
    <2> QED
      BY <2>1, <2>2
  <1>14. d.read.is \in {"message", "multi"}
    BY <1>1, <1>3
  <1>15. Reads(d.read, p)
    BY <1>13, <1>14, ReadPacketGives
  <1>16. /\ n \in DOMAIN decoded /\ n \in DOMAIN frames /\ decoded[n] = Body(n)
         /\ p \in Packet /\ Reads(d.read, p)
    BY <1>8, <1>9, <1>13, <1>15
  <1> QED
    BY <1>16 DEF d, q, n, p

\* What is dispatched is what the server sent, end to end: for every list of
\* frames, every way to cut them into chunks, every damage to their items.
THEOREM EndToEndHolds == Spec => []EndToEnd
  <1>1. TInv => EndToEnd
    BY EndToEndFromTInv
  <1> QED
    BY <1>1, InductiveTransport, PTL
=============================================================================
