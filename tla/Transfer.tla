------------------------------ MODULE Transfer ------------------------------
(***************************************************************************)
(* One record on its way from a writer to a reader: a request, a candidate *)
(* or a plan in the payload of a frame, or the whole state in the file     *)
(* persist_save writes.  The bytes may be cut short, as by a process that  *)
(* dies while it writes, and those of a file may be altered on the disk.   *)
(***************************************************************************)
EXTENDS Codec

Kinds == {"request", "candidate", "plan", "file"}

CONSTANTS
  MaxNumber,  \* the greatest number a cell holds, 2^64 - 1 in the code
  Records,    \* the records of each kind that may be sent
  Disturbed,  \* those of them whose bytes may be cut short or altered
  Radix,      \* the values a byte has, 256 in the code
  Basis,      \* fnv1a64_digest: the digest of no bytes
  Fnv         \* fnv1a64_digest: the digest after one more cell

Numbers == 0..MaxNumber

\* The structs of request.hpp and the others, to the depth they have.
IsItem(struct, rec)   == Holds(LAMBDA s, r : FALSE, Numbers, struct, rec)
IsRecord(struct, rec) == Holds(IsItem, Numbers, struct, rec)
IsOfKind(k, rec)      == Holds(IsRecord, Numbers, k, rec)

\* What is in memory is a record of its type, no list of it longer than a
\* number can say.
ASSUME RecordsAssumption ==
  /\ MaxNumber \in Nat /\ Radix \in Nat \ {0, 1}
  /\ \A k \in Kinds : \A rec \in Records[k] : IsOfKind(k, rec)

\* The numbers that differ from n in one of their eight bytes.
OneByteOff(n) ==
  {m \in Numbers \ {n} : \E k \in 0..7 :
     LET low == Radix^k  high == low * Radix
     IN m % low = n % low /\ m \div high = n \div high}

\* A step of the digest is one to one, as an exclusive or with each byte and a
\* multiplication by an odd number modulo 2^64 are: two digests stay different
\* over the same cell, and one byte changed makes a different digest.
ASSUME DigestAssumption ==
  /\ Basis \in DOMAIN Fnv /\ Basis \in Nat
  /\ \A n \in Numbers : \A m \in OneByteOff(n) : \A h \in DOMAIN Fnv : Fnv[h][n] # Fnv[h][m]
  /\ \A h \in DOMAIN Fnv :
       /\ h \in Nat
       /\ \A n \in Numbers : /\ Fnv[h][n] \in DOMAIN Fnv
                             /\ \A k \in DOMAIN Fnv : Fnv[h][n] = Fnv[k][n] => h = k

VARIABLES
  kind,    \* what is sent
  sent,    \* the record in the writer's memory
  bytes,   \* the cells on their way
  fault,   \* what has happened to them
  got,     \* what the reader makes of them
  phase

vars == <<kind, sent, bytes, fault, got, phase>>

-----------------------------------------------------------------------------
(* The state file.                                                         *)

\* fnv1a64_digest: a step for each cell, the first to the last.  A stretch of
\* cells is digested by halves, the second from where the first has led.
Digest(cells) ==
  LET over[stretch \in (1..(Len(cells) + 1)) \X (0..Len(cells)) \X DOMAIN Fnv] ==
        LET first == stretch[1]  last == stretch[2]  h == stretch[3]
            middle == (first + last) \div 2
        IN IF last < first THEN h
           ELSE IF first = last THEN Fnv[h][cells[first].n]
           ELSE over[<<middle + 1, last, over[<<first, middle, h>>]>>]
  IN over[<<1, Len(cells), Basis>>]

Magic         == 70   \* kPersistenceMagic
FormatVersion == 1    \* kPersistenceFormatVersion

persist_save(state) ==
  LET payload == Write("file", state)
  IN <<Cell(4, "magic", Magic), Cell(4, "version", FormatVersion), Cell(1, "flags", 0),
       Cell(8, "length", Len(payload))>>
     \o payload \o <<Cell(8, "sum", Digest(payload))>>

\* Defect: the checksum is not looked at.
ChecksumUnread(payload, foot) == TRUE

ChecksumOk(payload, foot) == foot.width = 8 /\ foot.n = Digest(payload)

\* The ids of a list are all different.
Distinct(list, field) ==
  \A i, j \in DOMAIN list : list[i][field].n = list[j][field].n => i = j

\* The checks persist_load makes across records.
Consistent(st) ==
  /\ st["epoch"].n # 0
  /\ Distinct(st["requests"], "requestId") /\ Distinct(st["plans"], "planId")
  /\ Distinct(st["candidateIdentities"], "candidateId")
  /\ st["plans"] = <<>> => st["nextPlanId"].n > 0
  /\ \A i \in DOMAIN st["plans"] :
       LET p == st["plans"][i]
       IN /\ p["planId"].n < st["nextPlanId"].n
          /\ \E j \in DOMAIN st["candidateIdentities"] :
               st["candidateIdentities"][j]["candidateId"].n = p["selectedCandidate"].n
          /\ PlacementLifecycleState[p["state"].n + 1] \in
               {"COMMITTED", "AWAITING_EXECUTION", "ACTIVE"}
             => p["hasCommitmentEvidence"].n # 0

\* The header, the payload and the checksum are there and fit; then the
\* payload is read to its end.  The flags, and what follows the checksum,
\* are ignored.
persist_load(cells) ==
  LET length  == cells[4].n
      payload == SubSeq(cells, 5, 4 + length)
      read    == Read("file", payload, 1)
  IN IF /\ Len(cells) >= 4
        /\ cells[1].n = Magic /\ cells[2].n \in 1..FormatVersion
        /\ length <= MaxPayload
        /\ Len(cells) >= 5 + length
        /\ ChecksumOk(payload, cells[5 + length])
        /\ read.ok /\ Consistent(read.value) /\ read.pos = Len(payload) + 1
     THEN read ELSE Refused

-----------------------------------------------------------------------------
BytesOf(k, rec) == IF k = "file" THEN persist_save(rec) ELSE Write(k, rec)

RecordOf(k, cells) == IF k = "file" THEN persist_load(cells) ELSE Read(k, cells, 1)

Init ==
  /\ kind \in Kinds /\ sent \in Records[kind]
  /\ bytes = <<>> /\ fault = "none" /\ got = Refused
  /\ phase = "made"

Send ==
  /\ phase = "made"
  /\ bytes' = BytesOf(kind, sent)
  /\ phase' = "sent"
  /\ UNCHANGED <<kind, sent, fault, got>>

\* The writer is gone before the end.
Cut ==
  /\ phase = "sent" /\ fault = "none" /\ sent \in Disturbed
  /\ \E n \in 0..(Len(bytes) - 1) : bytes' = SubSeq(bytes, 1, n)
  /\ fault' = "cut"
  /\ UNCHANGED <<kind, sent, got, phase>>

\* A byte of the file, its head and foot included, is not what was written, or
\* there is a cell more.
Alter ==
  /\ phase = "sent" /\ fault = "none" /\ sent \in Disturbed /\ kind = "file"
  /\ \/ \E i \in DOMAIN bytes : \E n \in OneByteOff(bytes[i].n) :
          bytes' = [bytes EXCEPT ![i].n = n]
     \/ bytes' = Append(bytes, Head(bytes))
  /\ fault' = "altered"
  /\ UNCHANGED <<kind, sent, got, phase>>

Receive ==
  /\ phase = "sent"
  /\ got' = RecordOf(kind, bytes)
  /\ phase' = "received"
  /\ UNCHANGED <<kind, sent, bytes, fault>>

Next == Send \/ Cut \/ Alter \/ Receive

Spec == Init /\ [][Next]_vars

-----------------------------------------------------------------------------
(* What the codec guarantees.                                              *)

\* Types, and that a reader that refuses has nothing to show for it.
TransferTypeOK ==
  /\ kind \in Kinds /\ phase \in {"made", "sent", "received"}
  /\ fault \in {"none", "cut", "altered"}
  /\ IsOfKind(kind, sent)
  /\ ~got.ok => got = Refused
  /\ phase # "received" => got = Refused

\* The one field the codec does not carry, as the reader leaves it.
Forgotten(request) == [request EXCEPT !["requiredTopologyGeneration"].n = 0]

Delivered(k, rec) ==
  CASE k = "request" -> Forgotten(rec)
    [] k = "file" -> [rec EXCEPT !["requests"] =
                        [i \in DOMAIN @ |-> Forgotten(@[i])]]
    [] OTHER -> rec

\* Whatever a reader accepts, from bytes that arrived whole, cut or altered,
\* is the record that was written, each value in the field it was set in: no
\* fault of the disk or of the peer's process makes another record of it.
NothingElseArrives ==
  phase = "received" /\ got.ok => got.value = Delivered(kind, sent)

\* No beginning of a record or of a file can be taken for all of it, wherever
\* the writer stopped: a save that a crash cuts short does not load.
CutIsRefused == phase = "received" /\ fault = "cut" => ~got.ok

\* No string or list is longer than a reader takes, every enumerator exists.
Bounded(Item(_, _), struct, rec) ==
  \A field \in Struct[struct] :
    LET v == rec[field.name]
    IN CASE field.type.t = "list" -> /\ Len(v) <= MaxRecords
                                     /\ \A i \in DOMAIN v : Item(field.type.item, v[i])
         [] field.type.t = "text" -> v.n <= MaxString
         [] field.type.t = "enum" -> v.n <= field.type.top
         [] OTHER                 -> TRUE

ItemInBounds(struct, rec)   == Bounded(LAMBDA s, r : TRUE, struct, rec)
RecordInBounds(struct, rec) == Bounded(ItemInBounds, struct, rec)
InBounds(k, rec)            == Bounded(RecordInBounds, k, rec)

FactorsFinite(plan) ==
  \A i \in DOMAIN plan["selectedFactors"] :
    plan["selectedFactors"][i]["value"].n # NotFinite

\* What the scheduler would do with a record makes sense, and a file is not
\* longer than a reader takes.
Sensible(k, rec) ==
  CASE k = "request" -> ValidDemand(rec)
    [] k = "plan"    -> FactorsFinite(rec)
    [] k = "file"    -> /\ \A i \in DOMAIN rec["requests"] : ValidDemand(rec["requests"][i])
                        /\ \A i \in DOMAIN rec["plans"] : FactorsFinite(rec["plans"][i])
                        /\ Consistent(rec) /\ Len(Write("file", rec)) <= MaxPayload
    [] OTHER         -> TRUE

\* A record that arrives whole is accepted exactly when it is within the
\* bounds and sensible: up to and at each limit what was written can be read
\* back, and a step beyond it nothing enters the process or its state.
LimitsAreTheDocumented ==
  phase = "received" /\ fault = "none" =>
    (got.ok <=> InBounds(kind, sent) /\ Sensible(kind, sent))

-----------------------------------------------------------------------------
(* What the documentation says and the code does not do.                   *)

\* "Sends SUBMIT_WORKLOAD (encode a SchedulingRequest: ...
\* requiredTopologyGeneration 1 ...)" (tests/MULTIPROCESS_SPEC.md): the hard
\* topology requirement of a request reaches the coordinator.  No put call
\* writes it, so the filter never sees one that came over the wire.
RequirementArrives ==
  phase = "received" /\ kind = "request" /\ got.ok =>
    got.value["requiredTopologyGeneration"] = sent["requiredTopologyGeneration"]

=============================================================================
