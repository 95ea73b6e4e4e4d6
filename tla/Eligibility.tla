---------------------------- MODULE Eligibility -----------------------------
(***************************************************************************)
(* What a demand may ask for (DemandProfile::validate, request.cpp) and    *)
(* which candidates can serve it (HardFilter::evaluate, eligibility.cpp):  *)
(* both are functions of their arguments.                                  *)
(*                                                                         *)
(* A demand and a candidate are records of what is looked at here or in    *)
(* Ranking.  demand.wellFormed stands for validate's checks of the fields  *)
(* nothing else reads (duration, throughput, fallback localities,          *)
(* identities); demand.dependenciesReady is the answer of the              *)
(* DependencyView, candidate.allowed that of the PolicyVeto.               *)
(*                                                                         *)
(* Bytes are 64-bit words.  The widths are constants because the code's,   *)
(* 16 TiB, 2^20 and 2^64, are in the proportion that matters here: the     *)
(* largest product a valid demand can ask for is exactly one word.         *)
(***************************************************************************)
EXTENDS Integers, Sequences, FiniteSetsExt

CONSTANTS
  MaxBytes,   \* kMaxBytes
  MaxCount,   \* kMaxCpuCount
  Word        \* the first byte count a word cannot hold

ASSUME WidthAssumption ==
  MaxBytes \in Nat /\ MaxCount \in Nat /\ Word = MaxBytes * MaxCount

-----------------------------------------------------------------------------
\* ByteCount times CoreCount, as a word.
WrappingMul(a, b) == (a * b) % Word

\* saturating_mul: the largest word instead of a wrapped product.
SaturatingMul(a, b) == IF a * b >= Word THEN Word - 1 ELSE a * b

CountsInRange(d) ==
  /\ d.maxCount > 0 => d.minCount <= d.maxCount
  /\ d.targetCount > 0 => /\ d.minCount <= d.targetCount
                          /\ d.maxCount > 0 => d.targetCount <= d.maxCount
  /\ {d.minCount, d.maxCount, d.targetCount} \subseteq 0..MaxCount

Bytes(d) == {d.vramPerDevice, d.aggregateVram, d.hostMemory, d.pinnedMemory,
             d.storage, d.bandwidth, d.maximumMovement}

\* validate returns; otherwise it throws and schedule does nothing.
Valid(d) ==
  /\ CountsInRange(d)
  /\ d.minCount > 0 => d.capability # "None"
  /\ Bytes(d) \subseteq 0..MaxBytes
  /\ d.minCount > 0 /\ d.aggregateVram > 0 =>
       d.aggregateVram >= WrappingMul(d.vramPerDevice, d.minCount)
  /\ d.wellFormed

-----------------------------------------------------------------------------
\* The filter's required VRAM.
RequiredVram(d) ==
  IF d.aggregateVram > 0 THEN d.aggregateVram
  ELSE SaturatingMul(d.vramPerDevice, d.minCount)

\* Defect: a capability that is not current any more counts.
CapableOnce(d, c) ==
  \E i \in DOMAIN c.bindings : c.bindings[i].capability = d.capability

Capable(d, c) ==
  \E i \in DOMAIN c.bindings :
    c.bindings[i].capability = d.capability /\ c.bindings[i].current

Networked(c) == \E i \in DOMAIN c.bindings : c.bindings[i].nic

\* What rules a candidate out, in the order in which it is looked at.
Objections(d, c) ==
  LET gpu == d.minCount > 0
      cap == c.capacity
  IN <<
    [status |-> "INSUFFICIENT_EVIDENCE",
     holds  |-> \/ gpu /\ (c.bindings = <<>> \/ cap.provenance = "Unknown")
                \/ c.health.provenance = "Unknown"],
    [status |-> "REJECT_CAPABILITY",  holds |-> gpu /\ ~Capable(d, c)],
    [status |-> "REJECT_CAPACITY",
     holds  |-> \/ gpu /\ cap.vram < RequiredVram(d)
                \/ cap.cpu < d.cpu \/ cap.hostMemory < d.hostMemory],
    [status |-> "REJECT_MEMORY",      holds |-> cap.pinnedMemory < d.pinnedMemory],
    [status |-> "REJECT_CONTIGUITY",  holds |-> d.contiguous /\ ~cap.contiguous],
    [status |-> "REJECT_HEALTH",      holds |-> ~c.health.ready],
    [status |-> "REJECT_NETWORK",
     holds  |-> d.requireNic /\ (~Networked(c) \/ cap.bandwidth < d.bandwidth)],
    [status |-> "REJECT_STORAGE",
     holds  |-> \/ cap.storage < d.storage
                \/ d.requireLocal /\ ~c.residency.stateLocal],
    [status |-> "REJECT_RESERVATION", holds |-> c.reservation.protected],
    [status |-> "REJECT_TOPOLOGY",
     holds  |-> d.topology # 0 /\ c.locality.topology # d.topology],
    [status |-> "REJECT_DEPENDENCY",  holds |-> ~d.dependenciesReady],
    [status |-> "REJECT_POLICY",      holds |-> ~c.allowed] >>

\* HardFilter::evaluate: the first objection is the answer.
HardFilter(d, c) ==
  LET objections == Objections(d, c)
      holding    == {i \in DOMAIN objections : objections[i].holds}
  IN IF holding = {} THEN "ELIGIBLE" ELSE objections[Min(holding)].status

Eligible(d, c) == HardFilter(d, c) = "ELIGIBLE"

=============================================================================
