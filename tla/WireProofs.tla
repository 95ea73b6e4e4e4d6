----------------------------- MODULE WireProofs -----------------------------
(***************************************************************************)
(* The framing of a connection implements Channel, for payloads of any     *)
(* size, any cut of the stream and any damage Wire allows.                 *)
(*                                                                         *)
(* The argument is about positions in the stream.  Marks says where each   *)
(* frame sent begins; Placed says that a sound digest stands at the end of *)
(* its own frame only.  A digest that agrees with what was read is sound,  *)
(* so it gives the length of its frame; counting back from its end, the    *)
(* frame read began where a frame was sent, and two frames do not begin at *)
(* the same place.  It is therefore the next frame, whole.                 *)
(***************************************************************************)
EXTENDS Wire, SequenceTheorems, TLAPS

Headers == [magic : Nat, version : Nat, type : Nat, flags : Nat, len : Nat]
Pieces  == [of : MessageType, at : Nat]

FrameDigest(type) == Covered(Header(type, Size[type]), Payload(type))

\* What travels: damaged or not.
Units ==
  [kind : {"head"}, v : Headers] \cup [kind : {"body"}, v : Pieces]
  \cup [kind : {"digest"}, v : {<<>>} \cup {FrameDigest(type) : type \in MessageType}]

\* Frame k of those sent begins after the first base[k] units of the stream.
Marks(base) ==
  /\ base \in [1..(Len(sent) + 1) -> Nat]
  /\ \A k \in 1..Len(sent) : base[k + 1] = base[k] + Size[sent[k][1]] + 2
  /\ \A j, k \in 1..(Len(sent) + 1) : j < k => base[j] < base[k]

\* A digest that is not damaged, at x, ends its frame there.
Placed(base, x, u) ==
  u.kind = "digest" /\ u.v # <<>> =>
    \E j \in 1..Len(sent) : x = base[j + 1] /\ u.v = FrameDigest(sent[j][1])

\* How many units of the frame it reads recv_frame has consumed, and how many
\* of the stream.
Consumed ==
  CASE part = "head"   -> 0
    [] part = "body"   -> 1
    [] part = "digest" -> 1 + head.len

Position(base) == base[Len(handled) + 1] + Consumed

Layout(base) ==
  /\ Marks(base)
  /\ \A i \in 1..Len(got) : Placed(base, Position(base) + i, got[i])
  /\ \A i \in 1..Len(stream) : Placed(base, Position(base) + Len(got) + i, stream[i])
  /\ \A i \in 1..Len(out) : Placed(base, base[Len(sent) + 1] - Len(out) + i, out[i])
  /\ sender = "up" =>
       Position(base) + Len(got) + Len(stream) + Len(out) = base[Len(sent) + 1]

Buffers ==
  /\ sent \in Seq(Messages) /\ handled \in Seq(Messages)
  /\ Len(handled) <= Len(sent)
  /\ out \in Seq(Units) /\ stream \in Seq(Units) /\ got \in Seq(Units)
  /\ head \in Headers /\ head.len <= MaxFramePayload
  /\ part # "body" => need = 1
  /\ part = "body" => need = head.len

WireIInv == WireTypeOK /\ Buffers /\ \E base : Layout(base)

-----------------------------------------------------------------------------
\* A function on 1..n is a sequence of length n.
LEMMA FunctionIsSeq ==
  ASSUME NEW S, NEW n \in Nat, NEW f \in [1..n -> S]
  PROVE  f \in Seq(S) /\ Len(f) = n
OBVIOUS

\* The elements of a concatenation.
Joined(S, s, t) ==
  /\ s \o t \in Seq(S) /\ Len(s \o t) = Len(s) + Len(t)
  /\ Len(s) \in Nat /\ Len(t) \in Nat
  /\ \A i \in 1..Len(s) : (s \o t)[i] = s[i]
  /\ \A i \in (Len(s) + 1)..(Len(s) + Len(t)) : (s \o t)[i] = t[i - Len(s)]

\* A concatenation has the elements of both parts at their places.
LEMMA ConcatElements ==
  ASSUME NEW S, NEW s \in Seq(S), NEW t \in Seq(S)
  PROVE  Joined(S, s, t)
<1>1. Len(s) \in Nat /\ Len(t) \in Nat
  BY LenProperties
<1>2. /\ s \o t \in Seq(S) /\ Len(s \o t) = Len(s) + Len(t)
      /\ \A i \in 1..(Len(s) + Len(t)) :
           (s \o t)[i] = IF i <= Len(s) THEN s[i] ELSE t[i - Len(s)]
  BY ConcatProperties
<1> QED  BY <1>1, <1>2 DEF Joined

\* A sequence of one element, of n, and of one.
LEMMA ThreeParts ==
  ASSUME NEW S, NEW a \in Seq(S), NEW b \in Seq(S), NEW c \in Seq(S),
         Len(a) = 1, Len(c) = 1
  PROVE  /\ (a \o b) \o c \in Seq(S) /\ Len((a \o b) \o c) = Len(b) + 2
         /\ ((a \o b) \o c)[1] = a[1]
         /\ \A i \in 2..(Len(b) + 1) : ((a \o b) \o c)[i] = b[i - 1]
         /\ ((a \o b) \o c)[Len(b) + 2] = c[1]
<1> DEFINE n == Len(b)
<1>0. n \in Nat
  BY LenProperties
<1> HIDE DEF n
<1> DEFINE ab == a \o b
<1>1. /\ ab \in Seq(S) /\ Len(ab) = n + 1
      /\ ab[1] = a[1] /\ \A i \in 2..(n + 1) : ab[i] = b[i - 1]
  <2>1. /\ ab \in Seq(S) /\ Len(ab) = Len(a) + Len(b)
        /\ \A i \in 1..Len(a) : ab[i] = a[i]
        /\ \A i \in (Len(a) + 1)..(Len(a) + Len(b)) : ab[i] = b[i - Len(a)]
    <3>1. Joined(S, a, b)
      BY ConcatElements
    <3> QED  BY <3>1 DEF Joined
  <2> QED  BY <1>0, <2>1 DEF n
<1> HIDE DEF ab
<1>2. /\ ab \o c \in Seq(S) /\ Len(ab \o c) = Len(ab) + Len(c)
      /\ \A i \in 1..Len(ab) : (ab \o c)[i] = ab[i]
      /\ \A i \in (Len(ab) + 1)..(Len(ab) + Len(c)) : (ab \o c)[i] = c[i - Len(ab)]
  <2>1. Joined(S, ab, c)
    BY <1>1, ConcatElements
  <2> QED  BY <2>1 DEF Joined
<1>3. (ab \o c)[n + 2] = c[1]
  <2>1. n + 2 \in (Len(ab) + 1)..(Len(ab) + Len(c)) /\ (n + 2) - Len(ab) = 1
    BY <1>0, <1>1
  <2> QED  BY <1>2, <2>1
<1>4. /\ (ab \o c)[1] = a[1]
      /\ \A i \in 2..(n + 1) : (ab \o c)[i] = b[i - 1]
  BY <1>0, <1>1, <1>2
<1>5. ab \o c \in Seq(S) /\ Len(ab \o c) = n + 2
  BY <1>0, <1>1, <1>2
<1> QED  BY <1>3, <1>4, <1>5 DEF ab, n

\* What encode_frame builds: a digest stands at its end and nowhere else.
LEMMA EncodeFacts ==
  ASSUME NEW type \in MessageType
  PROVE  /\ encode_frame(type) \in Seq(Units)
         /\ Len(encode_frame(type)) = Size[type] + 2
         /\ \A i \in 1..(Size[type] + 2) :
              IF i = Size[type] + 2
              THEN encode_frame(type)[i] = Unit("digest", FrameDigest(type))
              ELSE encode_frame(type)[i].kind # "digest"
<1> DEFINE h == Header(type, Size[type])
           p == Payload(type)
           a == <<Unit("head", h)>>
           b == [i \in DOMAIN p |-> Unit("body", p[i])]
           c == <<Unit("digest", Covered(h, p))>>
<1>1. Size[type] \in Nat /\ type \in Nat
  BY WireAssumption DEF MessageType
<1>2. Unit("head", h) \in Units
  BY <1>1 DEF Unit, Units, Headers, Header, Magic, Version
<1>3. Unit("digest", Covered(h, p)) \in Units
  BY DEF Unit, Units, FrameDigest
<1>4. a \in Seq(Units) /\ Len(a) = 1 /\ a[1] = Unit("head", h)
  BY <1>2
<1>5. c \in Seq(Units) /\ Len(c) = 1 /\ c[1] = Unit("digest", FrameDigest(type))
  BY <1>3 DEF FrameDigest
<1>6. DOMAIN p = 1..Size[type] /\ \A i \in 1..Size[type] : p[i] \in Pieces
  BY <1>1 DEF Payload, Pieces
<1>7. \A i \in 1..Size[type] : b[i].kind = "body" /\ b[i] \in Units
  BY <1>6 DEF Unit, Units
<1>8. b \in Seq(Units) /\ Len(b) = Size[type]
  <2>1. b \in [1..Size[type] -> Units]
    BY <1>6, <1>7
  <2> QED  BY <1>1, <2>1, FunctionIsSeq
<1> HIDE DEF a, b, c, h, p
<1>9. /\ encode_frame(type) \in Seq(Units) /\ Len(encode_frame(type)) = Size[type] + 2
      /\ encode_frame(type)[1] = a[1]
      /\ \A i \in 2..(Size[type] + 1) : encode_frame(type)[i] = b[i - 1]
      /\ encode_frame(type)[Size[type] + 2] = c[1]
  <2>1. encode_frame(type) = (a \o b) \o c
    BY DEF encode_frame, a, b, c, h, p
  <2>2. /\ (a \o b) \o c \in Seq(Units) /\ Len((a \o b) \o c) = Len(b) + 2
        /\ ((a \o b) \o c)[1] = a[1]
        /\ \A i \in 2..(Len(b) + 1) : ((a \o b) \o c)[i] = b[i - 1]
        /\ ((a \o b) \o c)[Len(b) + 2] = c[1]
    BY <1>4, <1>5, <1>8, ThreeParts, SMTT(30)
  <2> QED  BY <1>8, <2>1, <2>2
<1>10. a[1].kind # "digest"
  BY <1>4 DEF Unit
<1>11. ASSUME NEW i \in 2..(Size[type] + 1)
       PROVE  encode_frame(type)[i].kind # "digest"
  <2>1. i - 1 \in 1..Size[type]
    BY <1>1
  <2>2. b[i - 1].kind = "body"
    BY <1>7, <2>1
  <2> QED  BY <1>9, <2>2
<1> QED  BY <1>1, <1>5, <1>9, <1>10, <1>11

\* The first n elements of a sequence, and the others.
Parted(S, s, n) ==
  /\ SubSeq(s, 1, n) \in Seq(S) /\ Len(SubSeq(s, 1, n)) = n
  /\ \A i \in 1..n : SubSeq(s, 1, n)[i] = s[i]
  /\ SubSeq(s, n + 1, Len(s)) \in Seq(S)
  /\ Len(SubSeq(s, n + 1, Len(s))) = Len(s) - n
  /\ \A i \in 1..(Len(s) - n) : SubSeq(s, n + 1, Len(s))[i] = s[n + i]

\* A sequence cut in two has its elements in both parts.
LEMMA SplitElements ==
  ASSUME NEW S, NEW s \in Seq(S), NEW n \in 0..Len(s)
  PROVE  Parted(S, s, n)
<1>1. Len(s) \in Nat /\ n \in Nat /\ n <= Len(s)
  BY LenProperties
<1>2. \A i \in 1..n : s[i] \in S
  BY <1>1, ElementOfSeq
<1>3. \A i \in (n + 1)..Len(s) : s[i] \in S
  BY <1>1, ElementOfSeq
<1>4. /\ SubSeq(s, 1, n) \in Seq(S)
      /\ Len(SubSeq(s, 1, n)) = IF 1 <= n THEN n - 1 + 1 ELSE 0
      /\ \A i \in 1..(n - 1 + 1) : SubSeq(s, 1, n)[i] = s[1 + i - 1]
  BY <1>1, <1>2, SubSeqProperties, SMTT(30)
<1>5. /\ SubSeq(s, n + 1, Len(s)) \in Seq(S)
      /\ Len(SubSeq(s, n + 1, Len(s))) = IF n + 1 <= Len(s) THEN Len(s) - (n + 1) + 1 ELSE 0
      /\ \A i \in 1..(Len(s) - (n + 1) + 1) :
           SubSeq(s, n + 1, Len(s))[i] = s[(n + 1) + i - 1]
  BY <1>1, <1>3, SubSeqProperties, SMTT(30)
<1> QED  BY <1>1, <1>4, <1>5 DEF Parted

\* The lengths and positions are numbers.
LEMMA Numbers ==
  ASSUME WireIInv
  PROVE  /\ Len(sent) \in Nat /\ Len(handled) \in Nat /\ Len(out) \in Nat
         /\ Len(stream) \in Nat /\ Len(got) \in Nat /\ head.len \in Nat
         /\ Consumed \in Nat
         /\ \A k \in 1..Len(sent) : sent[k][1] \in MessageType
<1>1. /\ Len(sent) \in Nat /\ Len(handled) \in Nat /\ Len(out) \in Nat
      /\ Len(stream) \in Nat /\ Len(got) \in Nat
  BY LenProperties DEF WireIInv, Buffers
<1>2. head.len \in Nat
  BY DEF WireIInv, Buffers, Headers
<1>3. Consumed \in Nat
  BY <1>2 DEF WireIInv, WireTypeOK, Consumed
<1>4. ASSUME NEW k \in 1..Len(sent)
      PROVE  sent[k][1] \in MessageType
  <2>1. sent[k] \in Messages
    BY ElementOfSeq DEF WireIInv, Buffers
  <2> QED  BY <2>1 DEF Messages, Message
<1> QED  BY <1>1, <1>2, <1>3, <1>4

\* A step that moves units only along, and leaves the frame read as it is.
Along == UNCHANGED <<sent, handled, part, need, head>>

\* Bytes that go from the sender's buffer to the stream keep their positions.
LEMMA SendChunkInv ==
  ASSUME WireIInv, SendChunk
  PROVE  WireIInv'
<1>1. PICK base : Layout(base)
  BY DEF WireIInv
<1>2. PICK n \in 1..Len(out) : /\ stream' = stream \o SubSeq(out, 1, n)
                               /\ out' = SubSeq(out, n + 1, Len(out))
  BY DEF SendChunk
<1>3. sender = "up" /\ Along /\ UNCHANGED <<sender, damaged, got, body, ended>>
  BY DEF SendChunk, Along, recvVars
<1> DEFINE end == base[Len(sent) + 1]
           pos == Position(base)
<1>4. /\ Len(stream) \in Nat /\ Len(got) \in Nat /\ Len(out) \in Nat
      /\ n \in 0..Len(out) /\ pos + Len(got) + Len(stream) + Len(out) = end
      /\ end \in Nat /\ pos \in Nat
  <2>1. Len(sent) + 1 \in 1..(Len(sent) + 1) /\ Len(handled) + 1 \in 1..(Len(sent) + 1)
    BY Numbers DEF WireIInv, Buffers
  <2>2. end \in Nat /\ base[Len(handled) + 1] \in Nat
    BY <1>1, <2>1 DEF Layout, Marks
  <2>3. /\ Len(stream) \in Nat /\ Len(got) \in Nat /\ Len(out) \in Nat /\ Consumed \in Nat
        /\ pos = base[Len(handled) + 1] + Consumed
    BY Numbers DEF Position
  <2>4. pos + Len(got) + Len(stream) + Len(out) = end
    BY <1>1, <1>3 DEF Layout
  <2>5. n \in 0..Len(out)
    BY <2>3
  <2> HIDE DEF pos, end
  <2>6. pos \in Nat
    BY <2>2, <2>3
  <2> QED  BY <2>2, <2>3, <2>4, <2>5, <2>6 DEF end
<1>5. /\ SubSeq(out, 1, n) \in Seq(Units) /\ Len(SubSeq(out, 1, n)) = n
      /\ \A i \in 1..n : SubSeq(out, 1, n)[i] = out[i]
      /\ out' \in Seq(Units) /\ Len(out') = Len(out) - n
      /\ \A i \in 1..(Len(out) - n) : out'[i] = out[n + i]
  <2>1. Parted(Units, out, n)
    BY <1>4, SplitElements DEF WireIInv, Buffers
  <2> QED  BY <1>2, <2>1 DEF Parted
<1>6. /\ stream' \in Seq(Units) /\ Len(stream') = Len(stream) + n
      /\ \A i \in 1..Len(stream) : stream'[i] = stream[i]
      /\ \A i \in (Len(stream) + 1)..(Len(stream) + n) : stream'[i] = out[i - Len(stream)]
  <2> DEFINE a == SubSeq(out, 1, n)
  <2> HIDE DEF a
  <2>1. /\ stream \in Seq(Units) /\ a \in Seq(Units) /\ Len(a) = n
        /\ \A i \in 1..n : a[i] = out[i]
    BY <1>5 DEF a, WireIInv, Buffers
  <2>2. stream' = stream \o a
    BY <1>2 DEF a
  <2>3. /\ stream \o a \in Seq(Units) /\ Len(stream \o a) = Len(stream) + Len(a)
        /\ \A i \in 1..Len(stream) : (stream \o a)[i] = stream[i]
        /\ \A i \in (Len(stream) + 1)..(Len(stream) + Len(a)) :
             (stream \o a)[i] = a[i - Len(stream)]
    <3>1. Joined(Units, stream, a)
      BY <2>1, ConcatElements
    <3> QED  BY <3>1 DEF Joined
  <2>4. \A i \in (Len(stream) + 1)..(Len(stream) + n) : i - Len(stream) \in 1..n
    BY <1>4
  <2> QED  BY <2>1, <2>2, <2>3, <2>4
<1>7. /\ Position(base)' = pos /\ base[Len(sent) + 1]' = end
      /\ \A x, u : Placed(base, x, u)' <=> Placed(base, x, u)
  BY <1>3 DEF Along, Position, Consumed, Placed
<1>8. ASSUME NEW i \in 1..(Len(stream) + n)
      PROVE  Placed(base, pos + Len(got) + i, stream'[i])
  <2>1. CASE i <= Len(stream)
    BY <1>1, <1>4, <1>6, <2>1 DEF Layout
  <2>2. CASE i > Len(stream)
    <3>1. /\ i - Len(stream) \in 1..Len(out) /\ i \in (Len(stream) + 1)..(Len(stream) + n)
          /\ pos + Len(got) + i = end - Len(out) + (i - Len(stream))
      BY <1>4, <2>2
    <3>2. Placed(base, end - Len(out) + (i - Len(stream)), out[i - Len(stream)])
      BY <1>1, <3>1 DEF Layout
    <3> QED  BY <1>6, <3>1, <3>2
  <2> QED  BY <1>4, <2>1, <2>2
<1>9. ASSUME NEW i \in 1..(Len(out) - n)
      PROVE  Placed(base, end - Len(out') + i, out'[i])
  <2>1. /\ n + i \in 1..Len(out)
        /\ end - Len(out') + i = end - Len(out) + (n + i)
    BY <1>4, <1>5
  <2>2. Placed(base, end - Len(out) + (n + i), out[n + i])
    BY <1>1, <2>1 DEF Layout
  <2> QED  BY <1>5, <2>1, <2>2
<1>10. pos + Len(got) + Len(stream') + Len(out') = end
  BY <1>4, <1>5, <1>6
<1>11. Layout(base)'
  <2>1. Marks(base)'
    BY <1>1, <1>3 DEF Layout, Marks, Along
  <2>2. \A i \in 1..Len(got) : Placed(base, pos + i, got[i])
    BY <1>1 DEF Layout
  <2> HIDE DEF pos, end
  <2> QED  BY <1>3, <1>5, <1>6, <1>7, <1>8, <1>9, <1>10, <2>1, <2>2 DEF Layout
<1>12. WireTypeOK' /\ Buffers'
  BY <1>3, <1>5, <1>6 DEF WireIInv, WireTypeOK, Buffers, Along
<1> QED  BY <1>11, <1>12 DEF WireIInv

\* recv_exact takes some of what is under way.
LEMMA RecvChunkInv ==
  ASSUME WireIInv, RecvChunk
  PROVE  WireIInv'
<1>1. PICK base : Layout(base)
  BY DEF WireIInv
<1>2. PICK n \in 1..Len(stream) : /\ n <= need - Len(got)
                                  /\ got' = got \o SubSeq(stream, 1, n)
                                  /\ stream' = SubSeq(stream, n + 1, Len(stream))
  BY DEF RecvChunk
<1>3. Along /\ UNCHANGED <<sender, out, damaged, body, ended>>
  BY DEF RecvChunk, Along, sendVars
<1> DEFINE end == base[Len(sent) + 1]
           pos == Position(base)
<1>4. /\ Len(stream) \in Nat /\ Len(got) \in Nat /\ Len(out) \in Nat
      /\ n \in 0..Len(stream) /\ need \in Nat
      /\ pos \in Nat
  <2>1. Len(handled) + 1 \in 1..(Len(sent) + 1)
    BY Numbers DEF WireIInv, Buffers
  <2>2. base[Len(handled) + 1] \in Nat
    BY <1>1, <2>1 DEF Layout, Marks
  <2>3. Len(stream) \in Nat /\ Len(got) \in Nat /\ Len(out) \in Nat /\ Consumed \in Nat
    BY Numbers
  <2>4. need \in Nat
    BY WireAssumption DEF WireIInv, WireTypeOK
  <2>5. n \in 0..Len(stream)
    BY <2>3
  <2> QED  BY <2>2, <2>3, <2>4, <2>5 DEF Position
<1>5. /\ SubSeq(stream, 1, n) \in Seq(Units) /\ Len(SubSeq(stream, 1, n)) = n
      /\ \A i \in 1..n : SubSeq(stream, 1, n)[i] = stream[i]
      /\ stream' \in Seq(Units) /\ Len(stream') = Len(stream) - n
      /\ \A i \in 1..(Len(stream) - n) : stream'[i] = stream[n + i]
  <2>1. Parted(Units, stream, n)
    BY <1>4, SplitElements DEF WireIInv, Buffers
  <2> QED  BY <1>2, <2>1 DEF Parted
<1>6. /\ got' \in Seq(Units) /\ Len(got') = Len(got) + n
      /\ \A i \in 1..Len(got) : got'[i] = got[i]
      /\ \A i \in (Len(got) + 1)..(Len(got) + n) : got'[i] = stream[i - Len(got)]
  <2> DEFINE a == SubSeq(stream, 1, n)
  <2> HIDE DEF a
  <2>1. /\ got \in Seq(Units) /\ a \in Seq(Units) /\ Len(a) = n
        /\ \A i \in 1..n : a[i] = stream[i]
    BY <1>5 DEF a, WireIInv, Buffers
  <2>2. got' = got \o a
    BY <1>2 DEF a
  <2>3. /\ got \o a \in Seq(Units) /\ Len(got \o a) = Len(got) + Len(a)
        /\ \A i \in 1..Len(got) : (got \o a)[i] = got[i]
        /\ \A i \in (Len(got) + 1)..(Len(got) + Len(a)) : (got \o a)[i] = a[i - Len(got)]
    <3>1. Joined(Units, got, a)
      BY <2>1, ConcatElements
    <3> QED  BY <3>1 DEF Joined
  <2>4. \A i \in (Len(got) + 1)..(Len(got) + n) : i - Len(got) \in 1..n
    BY <1>4
  <2> QED  BY <2>1, <2>2, <2>3, <2>4
<1>7. /\ Position(base)' = pos /\ base[Len(sent) + 1]' = end
      /\ \A x, u : Placed(base, x, u)' <=> Placed(base, x, u)
  BY <1>3 DEF Along, Position, Consumed, Placed
<1>8. ASSUME NEW i \in 1..(Len(got) + n)
      PROVE  Placed(base, pos + i, got'[i])
  <2>1. CASE i <= Len(got)
    BY <1>1, <1>4, <1>6, <2>1 DEF Layout
  <2>2. CASE i > Len(got)
    <3>1. /\ i - Len(got) \in 1..Len(stream) /\ i \in (Len(got) + 1)..(Len(got) + n)
          /\ pos + i = pos + Len(got) + (i - Len(got))
      BY <1>4, <2>2
    <3>2. Placed(base, pos + Len(got) + (i - Len(got)), stream[i - Len(got)])
      BY <1>1, <3>1 DEF Layout
    <3> QED  BY <1>6, <3>1, <3>2
  <2> QED  BY <1>4, <2>1, <2>2
<1>9. ASSUME NEW i \in 1..(Len(stream) - n)
      PROVE  Placed(base, pos + Len(got') + i, stream'[i])
  <2>1. /\ n + i \in 1..Len(stream)
        /\ pos + Len(got') + i = pos + Len(got) + (n + i)
    BY <1>4, <1>6
  <2>2. Placed(base, pos + Len(got) + (n + i), stream[n + i])
    BY <1>1, <2>1 DEF Layout
  <2> QED  BY <1>5, <2>1, <2>2
<1>10. Layout(base)'
  <2>1. Marks(base)'
    BY <1>1, <1>3 DEF Layout, Marks, Along
  <2>2. \A i \in 1..Len(out) : Placed(base, end - Len(out) + i, out[i])
    BY <1>1 DEF Layout
  <2>3. sender = "up" => pos + Len(got') + Len(stream') + Len(out) = end
    <3>1. sender = "up" => pos + Len(got) + Len(stream) + Len(out) = end
      BY <1>1 DEF Layout
    <3> HIDE DEF pos, end
    <3>2. pos + Len(got') + Len(stream') + Len(out) = pos + Len(got) + Len(stream) + Len(out)
      BY <1>4, <1>5, <1>6
    <3> QED  BY <3>1, <3>2
  <2> HIDE DEF pos, end
  <2> QED  BY <1>3, <1>5, <1>6, <1>7, <1>8, <1>9, <2>1, <2>2, <2>3 DEF Layout
<1>11. WireTypeOK' /\ Buffers'
  <2>1. Len(got') <= need
    BY <1>2, <1>4, <1>6
  <2> QED  BY <1>3, <1>5, <1>6, <2>1 DEF WireIInv, WireTypeOK, Buffers, Along
<1> QED  BY <1>10, <1>11 DEF WireIInv

\* An element more.
Appended(S, s, e) ==
  /\ Append(s, e) \in Seq(S) /\ Len(Append(s, e)) = Len(s) + 1
  /\ \A i \in 1..Len(s) : Append(s, e)[i] = s[i]
  /\ Append(s, e)[Len(s) + 1] = e

\* A longer sequence keeps its elements.
LEMMA AppendElements ==
  ASSUME NEW S, NEW s \in Seq(S), NEW e \in S
  PROVE  Appended(S, s, e)
BY AppendProperties DEF Appended

\* A frame is given to send_all: it begins where the last one ended.
LEMMA SendFrameInv ==
  ASSUME WireIInv, NEW type \in MessageType, SendFrame(type)
  PROVE  WireIInv'
<1> DEFINE m == Message(type, Payload(type))
<1>0. PICK n \in Nat : n = Len(sent)
  BY Numbers
<1>1. PICK base : Layout(base)
  BY DEF WireIInv
<1>2. /\ out = <<>> /\ sender = "up" /\ out' = encode_frame(type)
      /\ sent' = Append(sent, m)
      /\ UNCHANGED <<stream, sender, damaged, part, need, got, head, body, handled, ended>>
  BY DEF SendFrame, recvVars
<1>3. /\ n = Len(sent) /\ Size[type] \in Nat
      /\ Len(handled) \in Nat /\ Len(handled) <= n
      /\ Len(got) \in Nat /\ Len(stream) \in Nat /\ Consumed \in Nat
  BY <1>0, Numbers, WireAssumption DEF WireIInv, Buffers
<1>4. /\ sent' \in Seq(Messages) /\ Len(sent') = n + 1
      /\ \A k \in 1..n : sent'[k] = sent[k]
      /\ sent'[n + 1][1] = type
  <2>1. m \in Messages
    BY DEF Messages
  <2>2. Appended(Messages, sent, m)
    BY <2>1, AppendElements DEF WireIInv, Buffers
  <2> QED  BY <1>2, <1>3, <2>2 DEF Appended, Message
<1>5. /\ base \in [1..(n + 1) -> Nat]
      /\ \A k \in 1..n : base[k + 1] = base[k] + Size[sent[k][1]] + 2
      /\ \A j, k \in 1..(n + 1) : j < k => base[j] < base[k]
  BY <1>1, <1>3 DEF Layout, Marks
<1>6. PICK end \in Nat, base2 \in [1..(n + 2) -> Nat] :
        /\ end = base[n + 1]
        /\ \A k \in 1..(n + 1) : base2[k] = base[k]
        /\ base2[n + 2] = end + Size[type] + 2
  <2> DEFINE b2 == [k \in 1..(n + 2) |->
                     IF k <= n + 1 THEN base[k] ELSE base[n + 1] + Size[type] + 2]
  <2>1. base[n + 1] \in Nat /\ \A k \in 1..(n + 1) : base[k] \in Nat
    BY <1>5
  <2>2. b2 \in [1..(n + 2) -> Nat]
    BY <1>3, <2>1
  <2>3. \A k \in 1..(n + 1) : b2[k] = base[k]
    OBVIOUS
  <2>4. b2[n + 2] = base[n + 1] + Size[type] + 2
    OBVIOUS
  <2> QED  BY <2>1, <2>2, <2>3, <2>4
<1>7. Marks(base2)'
  <2>1. Len(sent') + 1 = n + 2 /\ Len(sent') = n + 1
    BY <1>3, <1>4
  <2>2. ASSUME NEW k \in 1..(n + 1)
        PROVE  base2[k + 1] = base2[k] + Size[sent'[k][1]] + 2
    <3>1. CASE k = n + 1
      BY <1>3, <1>4, <1>6, <3>1
    <3>2. CASE k # n + 1
      <4>1. k \in 1..n /\ k + 1 \in 1..(n + 1) /\ k \in 1..(n + 1)
        BY <1>3, <3>2
      <4> QED  BY <1>4, <1>5, <1>6, <4>1
    <3> QED  BY <3>1, <3>2
  <2>3. ASSUME NEW j \in 1..(n + 2), NEW k \in 1..(n + 2), j < k
        PROVE  base2[j] < base2[k]
    <3>1. CASE k = n + 2
      <4>1. j \in 1..(n + 1)
        BY <1>3, <2>3, <3>1
      <4>2. base[j] \in Nat /\ base2[j] = base[j]
        BY <1>5, <1>6, <4>1
      <4>3. base[j] <= end
        <5>1. j = n + 1 \/ j < n + 1
          BY <1>3, <4>1
        <5> QED  BY <1>3, <1>5, <1>6, <4>1, <4>2, <5>1
      <4> QED  BY <1>3, <1>6, <3>1, <4>2, <4>3
    <3>2. CASE k # n + 2
      <4>1. j \in 1..(n + 1) /\ k \in 1..(n + 1)
        BY <1>3, <2>3, <3>2
      <4> QED  BY <1>5, <1>6, <2>3, <4>1
    <3> QED  BY <3>1, <3>2
  <2> QED  BY <1>6, <2>1, <2>2, <2>3 DEF Marks
<1>8. ASSUME NEW x, NEW u, Placed(base, x, u)
      PROVE  Placed(base2, x, u)'
  <2> SUFFICES ASSUME u.kind = "digest", u.v # <<>>
               PROVE  \E j \in 1..Len(sent') : x = base2[j + 1] /\ u.v = FrameDigest(sent'[j][1])
    BY DEF Placed
  <2>1. PICK j \in 1..n : x = base[j + 1] /\ u.v = FrameDigest(sent[j][1])
    BY <1>3, <1>8 DEF Placed
  <2>2. j \in 1..Len(sent') /\ j + 1 \in 1..(n + 1) /\ sent'[j] = sent[j]
    BY <1>3, <1>4
  <2> QED  BY <1>6, <2>1, <2>2
<1>9. /\ out' \in Seq(Units) /\ Len(out') = Size[type] + 2
      /\ \A i \in 1..(Size[type] + 2) :
           IF i = Size[type] + 2
           THEN out'[i] = Unit("digest", FrameDigest(type))
           ELSE out'[i].kind # "digest"
  BY <1>2, EncodeFacts
<1>10. ASSUME NEW i \in 1..Len(out')
       PROVE  Placed(base2, base2[Len(sent) + 1] - Len(out) + i, out[i])'
  <2> SUFFICES ASSUME out'[i].kind = "digest"
               PROVE  \E j \in 1..Len(sent') :
                        /\ base2[Len(sent') + 1] - Len(out') + i = base2[j + 1]
                        /\ out'[i].v = FrameDigest(sent'[j][1])
    BY DEF Placed
  <2>1. i = Size[type] + 2 /\ out'[i].v = FrameDigest(type)
    BY <1>9 DEF Unit
  <2>2. /\ n + 1 \in 1..Len(sent') /\ Len(sent') + 1 = n + 2 /\ (n + 1) + 1 = n + 2
        /\ base2[n + 2] \in Nat /\ Len(out') = i /\ i \in Nat
    BY <1>3, <1>4, <1>6, <1>9, <2>1
  <2>3. base2[n + 2] - i + i = base2[n + 2]
    BY <2>2
  <2>4. base2[Len(sent') + 1] - Len(out') + i = base2[(n + 1) + 1]
    BY <2>2, <2>3
  <2> QED  BY <1>4, <2>1, <2>2, <2>4
<1>11. PICK pos \in Nat : pos = Position(base) /\ Position(base2)' = pos
  <2>1. Len(handled) + 1 \in 1..(n + 1)
    BY <1>3
  <2>2. Position(base) \in Nat
    BY <1>3, <1>5, <2>1 DEF Position
  <2>3. Position(base2)' = Position(base)
    BY <1>2, <1>6, <2>1 DEF Position, Consumed
  <2> QED  BY <2>2, <2>3
<1>12. Layout(base2)'
  <2>1. pos + Len(got) + Len(stream) + Len(out') = base2[Len(sent') + 1]
    <3>1. pos + Len(got) + Len(stream) + 0 = end
      BY <1>1, <1>2, <1>3, <1>6, <1>11 DEF Layout
    <3>2. base2[Len(sent') + 1] = base2[n + 2]
      BY <1>4
    <3>3. Len(out') = Size[type] + 2
      BY <1>9
    <3> QED  BY <1>3, <1>6, <1>11, <3>1, <3>2, <3>3
  <2>2. /\ \A i \in 1..Len(got) : Placed(base, pos + i, got[i])
        /\ \A i \in 1..Len(stream) : Placed(base, pos + Len(got) + i, stream[i])
    BY <1>1, <1>11 DEF Layout
  <2>3. /\ \A i \in 1..Len(got) : Placed(base2, pos + i, got[i])'
        /\ \A i \in 1..Len(stream) : Placed(base2, pos + Len(got) + i, stream[i])'
    BY <1>2, <1>8, <2>2
  <2> QED  BY <1>2, <1>7, <1>10, <1>11, <2>1, <2>3 DEF Layout
<1>13. WireTypeOK' /\ Buffers'
  BY <1>2, <1>3, <1>4, <1>9 DEF WireIInv, WireTypeOK, Buffers
<1> QED  BY <1>12, <1>13 DEF WireIInv

\* The sender dies: the frame it was sending and the end of what is under way
\* are lost.
LEMMA SenderGoneInv ==
  ASSUME WireIInv, SenderGone
  PROVE  WireIInv'
<1>1. PICK base : Layout(base)
  BY DEF WireIInv
<1>2. PICK n \in 0..Len(stream) : stream' = SubSeq(stream, 1, n)
  BY DEF SenderGone
<1>3. /\ sender' = "gone" /\ out' = <<>>
      /\ UNCHANGED <<sent, damaged, part, need, got, head, body, handled, ended>>
  BY DEF SenderGone, recvVars
<1>4. /\ stream' \in Seq(Units) /\ Len(stream') = n
      /\ \A i \in 1..n : i \in 1..Len(stream) /\ stream'[i] = stream[i]
  <2>1. Parted(Units, stream, n)
    BY SplitElements DEF WireIInv, Buffers
  <2>2. \A i \in 1..n : i \in 1..Len(stream)
    BY Numbers
  <2> QED  BY <1>2, <2>1, <2>2 DEF Parted
<1>5. /\ Position(base)' = Position(base)
      /\ \A x, u : Placed(base, x, u)' <=> Placed(base, x, u)
  BY <1>3 DEF Position, Consumed, Placed
<1>6. Layout(base)'
  <2>1. Marks(base)'
    BY <1>1, <1>3 DEF Layout, Marks
  <2>2. /\ \A i \in 1..Len(got) : Placed(base, Position(base) + i, got[i])
        /\ \A i \in 1..n : Placed(base, Position(base) + Len(got) + i, stream'[i])
    BY <1>1, <1>4 DEF Layout
  <2> QED  BY <1>3, <1>4, <1>5, <2>1, <2>2 DEF Layout
<1>7. WireTypeOK' /\ Buffers'
  BY <1>3, <1>4 DEF WireIInv, WireTypeOK, Buffers
<1> QED  BY <1>6, <1>7 DEF WireIInv

\* Damage leaves a unit of the same kind, and no sound digest.
LEMMA DamageFacts ==
  ASSUME NEW u \in Units, NEW w \in Damages(u)
  PROVE  w \in Units /\ (w.kind = "digest" => w.v = <<>>)
<1>1. CASE u \in [kind : {"head"}, v : Headers]
  BY <1>1, WireAssumption DEF Damages, Units, Headers
<1>2. CASE u \in [kind : {"body"}, v : Pieces]
  BY <1>2 DEF Damages, Units, Pieces
<1>3. CASE u.kind = "digest" /\ u = [kind |-> u.kind, v |-> u.v]
  BY <1>3 DEF Damages, Units
<1> QED  BY <1>1, <1>2, <1>3 DEF Units

\* A damaged digest is none, and other damage moves nothing.
LEMMA DamageInv ==
  ASSUME WireIInv, Damage
  PROVE  WireIInv'
<1>1. PICK base : Layout(base)
  BY DEF WireIInv
<1>2. PICK k \in DOMAIN stream : \E u \in Damages(stream[k]) : stream' = [stream EXCEPT ![k] = u]
  BY DEF Damage
<1>9. PICK w \in Damages(stream[k]) : stream' = [stream EXCEPT ![k] = w]
  BY <1>2
<1>3. /\ damaged < MaxDamage /\ damaged' = damaged + 1
      /\ UNCHANGED <<sent, out, sender, part, need, got, head, body, handled, ended>>
  BY DEF Damage, sendVars, recvVars
<1>4. w \in Units /\ (w.kind = "digest" => w.v = <<>>)
  <2>1. stream[k] \in Units
    BY ElementOfSeq DEF WireIInv, Buffers
  <2> QED  BY <2>1, DamageFacts
<1>5. /\ stream' \in Seq(Units) /\ Len(stream') = Len(stream)
      /\ \A i \in 1..Len(stream) : stream'[i] = IF i = k THEN w ELSE stream[i]
  BY <1>9, <1>4 DEF WireIInv, Buffers
<1>6. /\ Position(base)' = Position(base)
      /\ \A x, u : Placed(base, x, u)' <=> Placed(base, x, u)
  BY <1>3 DEF Position, Consumed, Placed
<1>7. Layout(base)'
  <2>1. Marks(base)'
    BY <1>1, <1>3 DEF Layout, Marks
  <2>2. /\ \A i \in 1..Len(got) : Placed(base, Position(base) + i, got[i])
        /\ \A i \in 1..Len(out) : Placed(base, base[Len(sent) + 1] - Len(out) + i, out[i])
    BY <1>1 DEF Layout
  <2>3. ASSUME NEW i \in 1..Len(stream)
        PROVE  Placed(base, Position(base) + Len(got) + i, stream'[i])
    <3>1. CASE i = k
      BY <1>4, <1>5, <3>1 DEF Placed
    <3>2. CASE i # k
      BY <1>1, <1>5, <3>2 DEF Layout
    <3> QED  BY <3>1, <3>2
  <2>4. sender = "up" => Position(base) + Len(got) + Len(stream) + Len(out) = base[Len(sent) + 1]
    BY <1>1 DEF Layout
  <2> QED  BY <1>3, <1>5, <1>6, <2>1, <2>2, <2>3, <2>4 DEF Layout
<1>8. WireTypeOK' /\ Buffers'
  BY <1>3, <1>5, WireAssumption DEF WireIInv, WireTypeOK, Buffers
<1> QED  BY <1>7, <1>8 DEF WireIInv

\* recv_frame throws: nothing it holds changes any more.
LEMMA GiveUpInv ==
  ASSUME WireIInv, ended' = TRUE,
         UNCHANGED <<sent, out, sender, stream, damaged, part, need, got, head, body, handled>>
  PROVE  WireIInv'
<1>1. PICK base : Layout(base)
  BY DEF WireIInv
<1>2. Layout(base)'
  BY <1>1 DEF Layout, Marks, Placed, Position, Consumed
<1>3. WireTypeOK' /\ Buffers'
  BY DEF WireIInv, WireTypeOK, Buffers
<1> QED  BY <1>2, <1>3 DEF WireIInv

\* What recv_frame holds when a part of a frame is complete.
LEMMA PartComplete ==
  ASSUME WireIInv, NEW base, Layout(base), Len(got) = need
  PROVE  /\ need \in Nat \ {0} /\ got[1] \in Units
         /\ Len(handled) + 1 \in 1..(Len(sent) + 1)
         /\ base[Len(handled) + 1] \in Nat
         /\ Position(base) = base[Len(handled) + 1] + Consumed
<1>1. need \in Nat \ {0}
  BY WireAssumption DEF WireIInv, WireTypeOK
<1>2. got[1] \in Units
  BY <1>1, ElementOfSeq DEF WireIInv, Buffers
<1>3. Len(handled) + 1 \in 1..(Len(sent) + 1)
  BY Numbers DEF WireIInv, Buffers
<1> QED  BY <1>1, <1>2, <1>3 DEF Layout, Marks, Position

\* The part of the frame read last is consumed; the frame read stays the same.
LEMMA NextPart ==
  ASSUME WireIInv, NEW base, Layout(base), Len(got) = need,
         UNCHANGED <<sent, out, sender, stream, handled>>, got' = <<>>,
         Consumed' = Consumed + Len(got)
  PROVE  Layout(base)'
<1>1. PICK pos \in Nat : /\ pos = Position(base)
                         /\ Position(base)' = pos + Len(got)
  <2>1. Position(base) \in Nat /\ Consumed \in Nat /\ base[Len(handled) + 1] \in Nat
    BY PartComplete, Numbers
  <2>2. Position(base)' = base[Len(handled) + 1] + (Consumed + Len(got))
    BY DEF Position
  <2>3. Position(base)' = Position(base) + Len(got)
    BY <2>1, <2>2, Numbers, PartComplete
  <2> QED  BY <2>1, <2>3
<1>2. /\ Len(got) \in Nat /\ Len(stream) \in Nat /\ Len(got') = 0
  BY Numbers
<1>3. \A x, u : Placed(base, x, u)' <=> Placed(base, x, u)
  BY DEF Placed
<1>4. /\ \A i \in 1..Len(stream) : Placed(base, pos + Len(got) + i, stream[i])
      /\ \A i \in 1..Len(out) : Placed(base, base[Len(sent) + 1] - Len(out) + i, out[i])
      /\ sender = "up" => pos + Len(got) + Len(stream) + Len(out) = base[Len(sent) + 1]
      /\ Marks(base)
  BY <1>1 DEF Layout
<1>5. Marks(base)'
  BY <1>4 DEF Marks
<1>6. ASSUME NEW i \in 1..Len(stream)
      PROVE  Placed(base, Position(base) + Len(got) + i, stream[i])'
  <2>1. Position(base)' + Len(got') + i = pos + Len(got) + i
    BY <1>1, <1>2
  <2>2. Placed(base, pos + Len(got) + i, stream[i])
    BY <1>4
  <2>3. Placed(base, Position(base)' + Len(got') + i, stream'[i])
    BY <2>1, <2>2
  <2> QED  BY <2>3 DEF Placed
<1>7. sender = "up" => Position(base)' + Len(got') + Len(stream') + Len(out') = base[Len(sent') + 1]
  BY <1>1, <1>2, <1>4
<1>8. \A i \in 1..Len(out) : Placed(base, base[Len(sent) + 1] - Len(out) + i, out[i])'
  BY <1>4 DEF Placed
<1>9. \A i \in 1..Len(got') : Placed(base, Position(base) + i, got[i])'
  BY <1>2
<1> QED  BY <1>5, <1>6, <1>7, <1>8, <1>9 DEF Layout

\* The header is read: a length that parse_header accepts is at most the
\* largest, so is what recv_exact waits for next.
LEMMA GotHeaderInv ==
  ASSUME WireIInv, GotHeader
  PROVE  WireIInv'
<1>1. CASE GiveUp
  BY <1>1, GiveUpInv DEF GotHeader, GiveUp, sendVars
<1>2. CASE ~GiveUp
  <2>1. PICK base : Layout(base)
    BY DEF WireIInv
  <2>2. /\ part = "head" /\ Len(got) = need /\ parse_header(got[1])
        /\ head' = got[1].v
        /\ \/ got[1].v.len > 0 /\ part' = "body" /\ need' = got[1].v.len
           \/ ~(got[1].v.len > 0) /\ part' = "digest" /\ need' = 1
        /\ got' = <<>>
        /\ UNCHANGED <<sent, out, sender, stream, damaged, handled, ended>>
    BY <1>2 DEF GotHeader, sendVars, Want
  <2>3. head' \in Headers /\ head'.len <= MaxFramePayload /\ head'.len \in Nat
    <3>1. got[1] \in Units /\ got[1].kind = "head"
      BY <2>1, <2>2, PartComplete DEF parse_header
    <3>2. got[1] \in [kind : {"head"}, v : Headers]
      BY <3>1 DEF Units
    <3> QED  BY <2>2, <3>2 DEF parse_header, check_payload_length, Headers
  <2>4. Len(got) = 1
    BY <2>2 DEF WireIInv, Buffers
  <2>5. Consumed' = Consumed + Len(got)
    BY <2>2, <2>3, <2>4 DEF Consumed
  <2>6. Layout(base)'
    BY <2>1, <2>2, <2>5, NextPart
  <2>7. WireTypeOK'
    BY <2>2, <2>3, WireAssumption DEF WireIInv, WireTypeOK
  <2>8. Buffers'
    BY <2>2, <2>3 DEF WireIInv, Buffers
  <2> QED  BY <2>6, <2>7, <2>8 DEF WireIInv
<1> QED  BY <1>1, <1>2

\* The payload is read.
LEMMA GotBodyInv ==
  ASSUME WireIInv, GotBody
  PROVE  WireIInv'
<1>1. PICK base : Layout(base)
  BY DEF WireIInv
<1>2. /\ part = "body" /\ Len(got) = need /\ part' = "digest" /\ need' = 1 /\ got' = <<>>
      /\ UNCHANGED <<sent, out, sender, stream, damaged, head, handled, ended>>
  BY DEF GotBody, sendVars, Want
<1>3. Len(got) = head.len /\ head.len \in Nat
  BY <1>2, Numbers DEF WireIInv, Buffers
<1>4. Consumed' = Consumed + Len(got)
  BY <1>2, <1>3 DEF Consumed
<1>5. Layout(base)'
  BY <1>1, <1>2, <1>4, NextPart
<1>6. WireTypeOK' /\ Buffers'
  BY <1>2, WireAssumption DEF WireIInv, WireTypeOK, Buffers
<1> QED  BY <1>5, <1>6 DEF WireIInv

\* A digest that agrees with the header and the payload read is the digest of
\* the next frame: it gives the length of its frame, so the frame read began
\* where its own frame began.
LEMMA SoundFrame ==
  ASSUME WireIInv, NEW base, Layout(base), part = "digest", Len(got) = need,
         check_digest(head, body, got[1])
  PROVE  /\ Len(handled) < Len(sent)
         /\ sent[Len(handled) + 1] = Message(head.type, body)
         /\ base[Len(handled) + 2] = Position(base) + 1
<1> DEFINE next == Len(handled) + 1
<1>1. /\ Len(got) = 1 /\ head.len \in Nat /\ Len(sent) \in Nat /\ Len(handled) \in Nat
      /\ Position(base) = base[next] + (1 + head.len)
      /\ next \in 1..(Len(sent) + 1) /\ base[next] \in Nat
  BY Numbers, PartComplete DEF WireIInv, Buffers, Consumed
<1>2. got[1].kind = "digest" /\ got[1].v = Covered(head, body) /\ got[1].v # <<>>
  BY DEF check_digest, Covered
<1>3. PICK j \in 1..Len(sent) :
        Position(base) + 1 = base[j + 1] /\ got[1].v = FrameDigest(sent[j][1])
  BY <1>1, <1>2 DEF Layout, Placed
<1> DEFINE type == sent[j][1]
<1>4. head.type = type /\ head.len = Size[type] /\ body = Payload(type)
  BY <1>2, <1>3 DEF FrameDigest, Covered, Header
<1>5. base[j + 1] = base[j] + Size[type] + 2 /\ base[j] \in Nat
  BY <1>1, <1>3 DEF Layout, Marks
<1>6. base[j] = base[next]
  <2>1. PICK m \in Nat : m = head.len
    BY <1>1
  <2>2. PICK p, q \in Nat : p = base[j] /\ q = base[next]
    BY <1>1, <1>5
  <2>3. base[j + 1] = p + m + 2
    BY <1>4, <1>5, <2>1, <2>2
  <2>4. Position(base) = q + (1 + m)
    BY <1>1, <2>1, <2>2
  <2>5. p = q
    <3> HIDE DEF next, type
    <3>1. (q + (1 + m)) + 1 = p + m + 2
      BY <1>3, <2>3, <2>4
    <3> QED  BY <3>1
  <2> QED  BY <2>2, <2>5
<1>7. j = next
  <2>1. j \in 1..(Len(sent) + 1) /\ next \in 1..(Len(sent) + 1)
    BY <1>1
  <2>2. ~(j < next) /\ ~(next < j)
    <3>1. \A k, m \in 1..(Len(sent) + 1) : k < m => base[k] < base[m]
      BY DEF Layout, Marks
    <3> HIDE DEF next
    <3> QED  BY <1>1, <1>5, <1>6, <2>1, <3>1
  <2> HIDE DEF next
  <2> QED  BY <2>1, <2>2
<1>8. sent[j] = Message(type, Payload(type))
  <2>1. sent[j] \in Messages
    BY ElementOfSeq DEF WireIInv, Buffers
  <2> QED  BY <2>1 DEF Messages, Message
<1>9. Len(handled) < Len(sent) /\ base[Len(handled) + 2] = Position(base) + 1
  BY <1>1, <1>3, <1>7
<1> QED  BY <1>4, <1>7, <1>8, <1>9

\* The digest is read: the frame is handled, or recv_frame throws.
LEMMA GotDigestInv ==
  ASSUME WireIInv, GotDigest
  PROVE  WireIInv'
<1>1. CASE GiveUp
  BY <1>1, GiveUpInv DEF GotDigest, GiveUp, sendVars
<1>2. CASE ~GiveUp
  <2>1. PICK base : Layout(base)
    BY DEF WireIInv
  <2>2. /\ part = "digest" /\ Len(got) = need /\ check_digest(head, body, got[1])
        /\ handled' = Append(handled, Message(head.type, body))
        /\ part' = "head" /\ need' = 1 /\ got' = <<>>
        /\ UNCHANGED <<sent, out, sender, stream, damaged, head, body, ended>>
    BY <1>2 DEF GotDigest, sendVars, Want
  <2>3. /\ Len(handled) < Len(sent)
        /\ sent[Len(handled) + 1] = Message(head.type, body)
        /\ base[Len(handled) + 2] = Position(base) + 1
    BY <2>1, <2>2, SoundFrame
  <2>4. handled' \in Seq(Messages) /\ Len(handled') = Len(handled) + 1
    <3>1. sent[Len(handled) + 1] \in Messages
      <4>1. Len(handled) + 1 \in 1..Len(sent)
        BY <2>3, Numbers
      <4> QED  BY <4>1, ElementOfSeq DEF WireIInv, Buffers
    <3>2. Appended(Messages, handled, Message(head.type, body))
      BY <2>3, <3>1, AppendElements DEF WireIInv, Buffers
    <3> QED  BY <2>2, <3>2 DEF Appended
  <2>5. PICK pos \in Nat : pos = Position(base) /\ Position(base)' = pos + 1
    <3>1. Position(base) \in Nat
      BY <2>1, <2>2, PartComplete, Numbers
    <3>2. Position(base)' = base[Len(handled) + 2] + 0
      <4>1. Len(handled') + 1 = Len(handled) + 2
        BY <2>4, Numbers
      <4> QED  BY <2>2, <4>1 DEF Position, Consumed
    <3> QED  BY <2>3, <3>1, <3>2
  <2>6. Len(got) = 1 /\ Len(got') = 0 /\ Len(stream) \in Nat
    BY <2>2, Numbers DEF WireIInv, Buffers
  <2>7. Layout(base)'
    <3>1. ASSUME NEW i \in 1..Len(stream)
          PROVE  Placed(base, Position(base) + Len(got) + i, stream[i])'
      <4>1. Placed(base, pos + Len(got) + i, stream[i])
        BY <2>1, <2>5 DEF Layout
      <4>2. Position(base)' + Len(got') + i = pos + Len(got) + i
        BY <2>5, <2>6
      <4>3. Placed(base, Position(base)' + Len(got') + i, stream'[i])
        BY <2>2, <4>1, <4>2
      <4> QED  BY <2>2, <4>3 DEF Placed
    <3>2. sender = "up" => Position(base)' + Len(got') + Len(stream') + Len(out') = base[Len(sent') + 1]
      <4>1. sender = "up" => pos + Len(got) + Len(stream) + Len(out) = base[Len(sent) + 1]
        BY <2>1, <2>5 DEF Layout
      <4> QED  BY <2>2, <2>5, <2>6, <4>1
    <3>3. \A i \in 1..Len(out) : Placed(base, base[Len(sent) + 1] - Len(out) + i, out[i])'
      BY <2>1, <2>2 DEF Layout, Placed
    <3>4. \A i \in 1..Len(got') : Placed(base, Position(base) + i, got[i])'
      BY <2>6
    <3>5. Marks(base)'
      BY <2>1, <2>2 DEF Layout, Marks
    <3> QED  BY <2>2, <3>1, <3>2, <3>3, <3>4, <3>5 DEF Layout
  <2>8. WireTypeOK'
    BY <2>2, WireAssumption DEF WireIInv, WireTypeOK
  <2>9. Buffers'
    BY <2>2, <2>3, <2>4, Numbers DEF WireIInv, Buffers
  <2> QED  BY <2>7, <2>8, <2>9 DEF WireIInv
<1> QED  BY <1>1, <1>2

-----------------------------------------------------------------------------
\* At the start no frame is on its way.
LEMMA WireInit == Init => WireIInv
<1> SUFFICES ASSUME Init PROVE WireIInv
  OBVIOUS
<1>1. /\ Len(sent) = 0 /\ Len(handled) = 0 /\ Len(got) = 0 /\ Len(stream) = 0 /\ Len(out) = 0
      /\ part = "head" /\ need = 1
  BY DEF Init
<1>2. WireTypeOK
  <2>1. sender \in {"up", "gone"} /\ ended \in BOOLEAN /\ part \in {"head", "body", "digest"}
    BY DEF Init
  <2>2. damaged \in 0..MaxDamage
    BY WireAssumption DEF Init
  <2>3. need \in 1..(IF MaxFramePayload > 1 THEN MaxFramePayload ELSE 1)
    BY <1>1, WireAssumption
  <2>4. Len(got) <= need
    BY <1>1
  <2> QED  BY <2>1, <2>2, <2>3, <2>4 DEF WireTypeOK
<1>3. Buffers
  BY <1>1, WireAssumption DEF Init, Buffers, Headers, Header, Magic, Version
<1>4. Layout([k \in {1} |-> 0])
  BY <1>1 DEF Layout, Marks, Position, Consumed
<1> QED  BY <1>2, <1>3, <1>4 DEF WireIInv

\* Every step of sender, stream and receiver keeps the invariant.
LEMMA WireStep == WireIInv /\ [Next]_wireVars => WireIInv'
<1> SUFFICES ASSUME WireIInv, [Next]_wireVars PROVE WireIInv'
  OBVIOUS
<1>1. CASE UNCHANGED wireVars
  <2>1. UNCHANGED <<sent, out, sender, stream, damaged, part, need, got, head, body, handled, ended>>
    BY <1>1 DEF wireVars, sendVars, recvVars
  <2>2. PICK base : Layout(base)
    BY DEF WireIInv
  <2>3. Layout(base)'
    BY <2>1, <2>2 DEF Layout, Marks, Placed, Position, Consumed
  <2>4. WireTypeOK' /\ Buffers'
    BY <2>1 DEF WireIInv, WireTypeOK, Buffers
  <2> QED  BY <2>3, <2>4 DEF WireIInv
<1>2. CASE RecvEnd
  BY <1>2, GiveUpInv DEF RecvEnd, GiveUp, sendVars
<1> QED  BY <1>1, <1>2, SendFrameInv, SendChunkInv, SenderGoneInv, DamageInv, RecvChunkInv,
            GotHeaderInv, GotBodyInv, GotDigestInv DEF Next

\* The receiver never makes room for more than the largest payload, for any
\* sizes of payload and any damage (recv_exact of net.cpp).
THEOREM WireTypeCorrect == Spec => []WireTypeOK
<1>1. WireIInv => WireTypeOK
  BY DEF WireIInv
<1>2. QED
  BY <1>1, WireInit, WireStep, PTL DEF Spec

\* One step of the framing is one step of the channel, or none.
LEMMA ChannelStep ==
  ASSUME WireIInv, [Next]_wireVars
  PROVE  [Abstract!Next]_<<sent, handled, ended>>
<1>1. ASSUME NEW type \in MessageType, SendFrame(type)
      PROVE  Abstract!Send
  BY <1>1 DEF SendFrame, recvVars, Abstract!Send, Messages
<1>2. CASE GiveUp /\ ~ended /\ UNCHANGED sendVars
  BY <1>2 DEF GiveUp, sendVars, Abstract!End, Abstract!Next
<1>3. CASE GotDigest /\ ~GiveUp
  <2>1. PICK base : Layout(base)
    BY DEF WireIInv
  <2>2. /\ ~ended /\ part = "digest" /\ Len(got) = need /\ check_digest(head, body, got[1])
        /\ handled' = Append(handled, Message(head.type, body))
        /\ UNCHANGED <<sent, ended>>
    BY <1>3 DEF GotDigest, sendVars
  <2>3. /\ Len(handled) < Len(sent)
        /\ sent[Len(handled) + 1] = Message(head.type, body)
    BY <2>1, <2>2, SoundFrame
  <2>4. Abstract!Handle
    BY <2>2, <2>3 DEF Abstract!Handle
  <2> QED  BY <2>4 DEF Abstract!Next
<1>4. CASE UNCHANGED <<sent, handled, ended>>
  BY <1>4
<1>5. CASE GotHeader \/ RecvEnd
  BY <1>2, <1>4, <1>5 DEF GotHeader, RecvEnd, sendVars
<1>6. CASE GotDigest /\ GiveUp
  BY <1>2, <1>6 DEF GotDigest
<1> QED  BY <1>1, <1>3, <1>4, <1>5, <1>6 DEF Next, SendChunk, SenderGone, Damage, RecvChunk,
            GotBody, sendVars, recvVars, wireVars, Abstract!Next

\* Whatever the cut of the stream, the damage and the moment the sender dies,
\* recv_frame returns the first of the messages send_frame was given, whole,
\* in order and once, and nothing after it has thrown.
THEOREM FramingIsChannel == Spec => ImplementsChannel
<1>1. Init => Abstract!Init
  BY DEF Init, Abstract!Init
<1>2. WireIInv /\ [Next]_wireVars => [Abstract!Next]_<<sent, handled, ended>>
  BY ChannelStep
<1>3. QED
  BY <1>1, <1>2, WireInit, WireStep, PTL
     DEF Spec, ImplementsChannel, Abstract!Spec, Abstract!chanVars

=============================================================================
