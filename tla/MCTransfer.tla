----------------------------- MODULE MCTransfer -----------------------------
(***************************************************************************)
(* Transfer for TLC: every record with each of its fields in turn at and   *)
(* beyond its limits, cut at every point and, for the file, altered at     *)
(* every point.                                                            *)
(***************************************************************************)
EXTENDS Transfer

RECURSIVE Ordinary(_, _), Limits(_, _)

\* The k-th of several: its identities and generations are all k.
Ordinary(struct, k) ==
  [f \in Names(struct) |->
     LET type == (CHOOSE field \in Struct[struct] : field.name = f).type
     IN IF type.t = "list" THEN <<Ordinary(type.item, 1)>>
        ELSE Val(f, IF type.t = "word" THEN k ELSE 1)]

MCNumbers(type) ==
  CASE type.t = "word"  -> {0, MaxBytes, MaxBytes + 1}
    [] type.t = "count" -> {0, MaxCount, MaxCount + 1}
    [] type.t = "enum"  -> {0, type.top, type.top + 1}
    [] type.t = "real"  -> {0, NotFinite}
    [] type.t = "text"  -> {0, MaxString, MaxString + 1}
    [] OTHER            -> {0}

\* The records that differ from base in one place.
Limits(base, struct) ==
  UNION {
    LET f == field.name  item == field.type.item
    IN {[base EXCEPT ![f] = v] : v \in
          IF field.type.t # "list" THEN {Val(f, n) : n \in MCNumbers(field.type)}
          ELSE {[i \in 1..n |-> Ordinary(item, i)] : n \in 0..(MaxRecords + 1)}
               \cup {<<one>> : one \in Limits(Ordinary(item, 1), item)}}
    : field \in Struct[struct] }

\* The file holds plan 1, and ids up to 8 have been given out.
Base(k) ==
  IF k # "file" THEN Ordinary(k, 1)
  ELSE [Ordinary("file", 1) EXCEPT !["nextPlanId"].n = MaxBytes + 1]

\* A plan somebody works on without evidence of its commitment.
Unbacked ==
  {[Base("file") EXCEPT !["plans"][1]["state"].n = s,
                        !["plans"][1]["hasCommitmentEvidence"].n = 0] :
     s \in 0..(Len(PlacementLifecycleState) - 1)}

MCRecords ==
  [k \in Kinds |-> {Base(k)} \cup Limits(Base(k), k)
                   \cup (IF k = "file" THEN Unbacked ELSE {})]

MCDisturbed == {Base(k) : k \in Kinds}

\* fnv1a64_digest cut down to five bits and bytes of two: for each of the four
\* bytes of a number an exclusive or and a multiplication.
MCXor == <<<<0, 1, 2, 3>>, <<1, 0, 3, 2>>, <<2, 3, 0, 1>>, <<3, 2, 1, 0>>>>

MCByte(h, b) == ((4 * (h \div 4) + MCXor[(h % 4) + 1][(b % 4) + 1]) * 19) % 32

MCSteps ==
  [h \in 0..31 |-> [n \in 0..MaxNumber |->
     MCByte(MCByte(MCByte(MCByte(h, n), n \div 4), n \div 16), n \div 64)]]

\* The same as a table, which TLC computes once and not at every step.
MCFnv == [MCSteps EXCEPT ![0] = @]

=============================================================================
