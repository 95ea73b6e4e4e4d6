-------------------------------- MODULE Wire --------------------------------
(***************************************************************************)
(* One direction of a connection, as bytes: send_frame and recv_frame of   *)
(* net.cpp over the frames of protocol.cpp.  A frame is a header (magic,   *)
(* version, type, flags, payload length), the payload and a digest of all  *)
(* but the magic.  The stream keeps no frame boundaries: send and recv     *)
(* move any number of bytes, the sender may die in the middle of a frame,  *)
(* and what is under way may be damaged.                                   *)
(*                                                                         *)
(* A unit of the stream is a header, a piece of a payload or a digest.  A  *)
(* digest is what it was computed from: that two different inputs have the *)
(* same fnv1a64 is left out.                                               *)
(***************************************************************************)
EXTENDS Naturals, Sequences

CONSTANTS
  LastType,         \* the highest MessageType, EXECUTE
  Size,             \* the length of the payload of each, in units
  MaxFramePayload,  \* kMaxFramePayload
  MaxFrames,        \* bound: frames sent
  MaxDamage         \* bound: units damaged

MessageType == 0..LastType

ASSUME WireAssumption ==
  /\ {LastType, MaxFramePayload, MaxFrames, MaxDamage} \subseteq Nat
  /\ Size \in [MessageType -> Nat]

VARIABLES
  sent,      \* the messages send_frame was called with
  out,       \* send_all: the units of the frame not yet given to send
  stream,    \* the units under way
  sender,    \* up or gone
  damaged,   \* how many units were damaged
  part,      \* what recv_frame is reading: head, body, digest
  need,      \* recv_exact: how many units it wants ...
  got,       \* ... and those it has
  head,      \* the header it has read
  body,      \* the payload it has read
  handled,   \* the messages recv_frame returned
  ended      \* recv_frame has thrown: the connection is given up

sendVars == <<sent, out, sender>>
recvVars == <<part, need, got, head, body, handled, ended>>
wireVars == <<sendVars, stream, damaged, recvVars>>

-----------------------------------------------------------------------------
(* Frames.                                                                 *)

Magic   == 1   \* kFrameMagic
Version == 1   \* kFrameVersion

Header(type, len) ==
  [magic |-> Magic, version |-> Version, type |-> type, flags |-> 0, len |-> len]

\* The payload a message of the type has.
Payload(type) == [i \in 1..Size[type] |-> [of |-> type, at |-> i]]

\* What the digest of a frame covers.
Covered(h, p) == <<h.version, h.type, h.flags, h.len, p>>

Unit(kind, v) == [kind |-> kind, v |-> v]

encode_frame(type) ==
  LET h == Header(type, Size[type])
      p == Payload(type)
  IN <<Unit("head", h)>> \o [i \in DOMAIN p |-> Unit("body", p[i])]
     \o <<Unit("digest", Covered(h, p))>>

\* Defect: any length is believed.
check_any_length(len) == TRUE

check_payload_length(len) == len <= MaxFramePayload

\* The header is one this version may have written.
parse_header(u) ==
  /\ u.kind = "head" /\ u.v.magic = Magic
  /\ u.v.version = Version
  /\ u.v.type <= LastType
  /\ check_payload_length(u.v.len)

\* Defect: the digest is read and not compared.
check_no_digest(h, p, u) == TRUE

check_digest(h, p, u) == u.kind = "digest" /\ u.v = Covered(h, p)

\* What can become of a unit: another value in one of the header's fields, or
\* a piece of payload or a digest nobody wrote.
Damages(u) ==
  CASE u.kind = "head" ->
         {[u EXCEPT !.v.magic = 0], [u EXCEPT !.v.version = 2], [u EXCEPT !.v.flags = 1]}
         \cup {[u EXCEPT !.v.type = t] : t \in (0..(LastType + 1)) \ {u.v.type}}
         \cup {[u EXCEPT !.v.len = n] : n \in (0..(MaxFramePayload + 1)) \ {u.v.len}}
    [] u.kind = "body" -> {[u EXCEPT !.v.at = 0]}
    [] u.kind = "digest" -> {[u EXCEPT !.v = <<>>]}

-----------------------------------------------------------------------------
Init ==
  /\ sent = <<>> /\ out = <<>> /\ stream = <<>> /\ sender = "up" /\ damaged = 0
  /\ part = "head" /\ need = 1 /\ got = <<>>
  /\ head = Header(0, 0) /\ body = <<>>
  /\ handled = <<>> /\ ended = FALSE

\* A message as the caller knows it.
Message(type, payload) == <<type, payload>>
Messages == {Message(type, Payload(type)) : type \in MessageType}

\* Defect: a payload of any length is sent.
SendAnyFrame(type) ==
  /\ sender = "up" /\ out = <<>> /\ Len(sent) < MaxFrames
  /\ out' = encode_frame(type)
  /\ sent' = Append(sent, Message(type, Payload(type)))
  /\ UNCHANGED <<stream, sender, damaged, recvVars>>

\* send_frame; encode_frame throws on a payload that is too long, before
\* anything is sent.
SendFrame(type) ==
  /\ sender = "up" /\ out = <<>> /\ Len(sent) < MaxFrames
  /\ Size[type] <= MaxFramePayload
  /\ out' = encode_frame(type)
  /\ sent' = Append(sent, Message(type, Payload(type)))
  /\ UNCHANGED <<stream, sender, damaged, recvVars>>

\* send_all: send takes what it likes, and the rest is sent next.
SendChunk ==
  /\ sender = "up"
  /\ \E n \in 1..Len(out) : /\ stream' = stream \o SubSeq(out, 1, n)
                            /\ out' = SubSeq(out, n + 1, Len(out))
  /\ UNCHANGED <<sent, sender, damaged, recvVars>>

\* The sender's process ends, by itself or killed; what it had not sent is
\* lost and, when the connection is reset, so is some of what is under way.
SenderGone ==
  /\ sender = "up"
  /\ sender' = "gone" /\ out' = <<>>
  /\ \E n \in 0..Len(stream) : stream' = SubSeq(stream, 1, n)
  /\ UNCHANGED <<sent, damaged, recvVars>>

Damage ==
  /\ damaged < MaxDamage
  /\ \E i \in DOMAIN stream : \E u \in Damages(stream[i]) :
       stream' = [stream EXCEPT ![i] = u]
  /\ damaged' = damaged + 1
  /\ UNCHANGED <<sendVars, recvVars>>

-----------------------------------------------------------------------------
(* recv_frame.                                                             *)

Want(what, n) == part' = what /\ need' = n /\ got' = <<>>
GiveUp        == ended' = TRUE /\ UNCHANGED <<part, need, got, head, body, handled>>

\* recv_exact: recv returns some of what is there.
RecvChunk ==
  /\ ~ended /\ Len(got) < need
  /\ \E n \in 1..Len(stream) :
       /\ n <= need - Len(got)
       /\ got' = got \o SubSeq(stream, 1, n)
       /\ stream' = SubSeq(stream, n + 1, Len(stream))
  /\ UNCHANGED <<sendVars, damaged, part, need, head, body, handled, ended>>

\* Defect: the end of the stream is taken for a recv that had nothing yet.
RecvEndIgnored ==
  /\ ~ended /\ Len(got) < need /\ stream = <<>> /\ sender = "gone"
  /\ UNCHANGED wireVars

\* recv_exact: the stream has ended, before or within a frame.
RecvEnd ==
  /\ ~ended /\ Len(got) < need /\ stream = <<>> /\ sender = "gone"
  /\ GiveUp
  /\ UNCHANGED <<sendVars, stream, damaged>>

GotHeader ==
  /\ ~ended /\ part = "head" /\ Len(got) = need
  /\ IF parse_header(got[1])
     THEN /\ head' = got[1].v /\ body' = <<>>
          /\ IF got[1].v.len > 0 THEN Want("body", got[1].v.len) ELSE Want("digest", 1)
          /\ UNCHANGED <<handled, ended>>
     ELSE GiveUp
  /\ UNCHANGED <<sendVars, stream, damaged>>

GotBody ==
  /\ ~ended /\ part = "body" /\ Len(got) = need
  /\ body' = [i \in DOMAIN got |-> got[i].v]
  /\ Want("digest", 1)
  /\ UNCHANGED <<head, handled, ended, sendVars, stream, damaged>>

GotDigest ==
  /\ ~ended /\ part = "digest" /\ Len(got) = need
  /\ IF check_digest(head, body, got[1])
     THEN /\ handled' = Append(handled, Message(head.type, body))
          /\ Want("head", 1)
          /\ UNCHANGED <<head, body, ended>>
     ELSE GiveUp
  /\ UNCHANGED <<sendVars, stream, damaged>>

Next == \/ \E type \in MessageType : SendFrame(type)
        \/ SendChunk \/ SenderGone \/ Damage
        \/ RecvChunk \/ RecvEnd \/ GotHeader \/ GotBody \/ GotDigest

Spec == Init /\ [][Next]_wireVars

\* send_all goes on, what is under way arrives, the receiving thread runs.
\* There is no timeout on either side.
FairSpec ==
  /\ Spec
  /\ WF_wireVars(SendChunk)
  /\ WF_wireVars(RecvChunk \/ RecvEnd \/ GotHeader \/ GotBody \/ GotDigest)

-----------------------------------------------------------------------------
(* What the framing guarantees.                                            *)

\* Types; recv_frame never makes room for more than the largest payload,
\* whatever length a damaged header gives.
WireTypeOK ==
  /\ sender \in {"up", "gone"} /\ damaged \in 0..MaxDamage
  /\ part \in {"head", "body", "digest"}
  /\ need \in 1..(IF MaxFramePayload > 1 THEN MaxFramePayload ELSE 1)
  /\ Len(got) <= need
  /\ ended \in BOOLEAN

\* However the stream is cut into pieces, wherever the sender dies and
\* whatever is damaged, the frames handled are the first of those sent, whole
\* and unchanged; a frame that is not whole ends the connection, and nothing
\* is read from what follows it.
Abstract == INSTANCE Channel
ImplementsChannel == Abstract!Spec

\* A sender that is gone is noticed: recv_frame throws, and serve_connection
\* fences the worker, wherever in a frame the stream ended.
EndIsNoticed == sender = "gone" ~> ended

\* A frame sent over a sound connection is handled: no cut of the stream makes
\* the two sides lose step.
SoundFrameHandled ==
  \A n \in 1..MaxFrames :
    Len(sent) >= n ~> Len(handled) >= n \/ damaged > 0 \/ sender = "gone"

=============================================================================
