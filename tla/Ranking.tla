------------------------------ MODULE Ranking -------------------------------
(***************************************************************************)
(* The ranking of ranking.cpp: 27 weighted factors per candidate, and a    *)
(* comparator that breaks ties.                                            *)
(*                                                                         *)
(* A double between 0 and 1 is a multiple of 1/One here, rounded down, as  *)
(* a double is rounded too; weights are doubled to make them whole.        *)
(***************************************************************************)
EXTENDS Eligibility

CONSTANT MoveNormalizer   \* kMoveNormalizer, 8 GiB

ASSUME MoveNormalizerAssumption == MoveNormalizer \in Nat \ {0}

One == 40

ProvenanceStrength ==
  [Measured |-> 6, Reported |-> 5, Derived |-> 4, Estimated |-> 3,
   Forecast |-> 2, Synthetic |-> 1, Unknown |-> 0]

Provenance == DOMAIN ProvenanceStrength

Words == 0..(Word - 1)

\* What is looked at of a candidate.  A double is any number, but a number; the
\* sum of the two distances that are added fits its 32 bits.
CandidateRecords ==
  [ id            : Nat,
    bindings      : Seq([capability : STRING, current : BOOLEAN, nic : BOOLEAN,
                         memoryDomain : BOOLEAN]),
    capacity      : [vram : Words, vramTotal : Words, cpu : Words, hostMemory : Words,
                     pinnedMemory : Words, storage : Words, bandwidth : Words,
                     contiguous : BOOLEAN, provenance : Provenance],
    health        : [ready : BOOLEAN, score : Int, provenance : Provenance],
    reservation   : [protected : BOOLEAN, reserved : Words, provenance : Provenance],
    congestion    : [level : Int, residual : Int, provenance : Provenance],
    locality      : [topology : Nat, numa : Nat, pcie : Nat, nic : Nat, storage : Nat,
                     sharesRoot : BOOLEAN, provenance : Provenance],
    communication : [cost : Int, provenance : Provenance],
    residency     : [model : BOOLEAN, adapter : BOOLEAN, stateLocal : BOOLEAN,
                     moveBytes : Words, provenance : Provenance],
    allowed       : BOOLEAN ]

Clamp01(v) == IF v < 0 THEN 0 ELSE IF v > One THEN One ELSE v

\* Defect: the share that is left instead of the share that is taken.
RatioLeft(need, avail) ==
  IF avail = 0 THEN One ELSE Clamp01(((avail - need) * One) \div avail)

RatioOrOne(need, avail) ==
  IF avail = 0 THEN One ELSE Clamp01((need * One) \div avail)

DistanceNorm(distance, divisor) == Clamp01((distance * One) \div divisor)

\* The ranker's required VRAM; the product is an ordinary one here.
NeededVram(d) ==
  IF d.aggregateVram > 0 THEN d.aggregateVram
  ELSE WrappingMul(d.vramPerDevice, d.minCount)

\* RankingWeights, doubled.
Weight ==
  [ AcceleratorFit |-> 0, ResourceHeadroom |-> 2, VramHeadroom |-> 2,
    CpuHeadroom |-> 2, PinnedMemoryHeadroom |-> 2, TopologyLocality |-> 4,
    NumaLocality |-> 4, PcieLocality |-> 4, NicLocality |-> 3,
    StorageLocality |-> 3, CommunicationCost |-> 6, CongestionPenalty |-> 5,
    ResidualBandwidth |-> 2, ModelResidency |-> 6, AdapterResidency |-> 4,
    ReusableStateLocality |-> 4, CheckpointMovement |-> 4, StartupCost |-> 2,
    ReservationFit |-> 4, FailureDomains |-> 3, HealthMargin |-> 4,
    EnergyPower |-> 1, FragmentationImpact |-> 2, ExternalPriority |-> 2,
    MigrationRecompute |-> 2, EstimatedQueueing |-> 2, PolicyPreference |-> 2 ]

Factor(value, provenance) == [value |-> value, provenance |-> provenance]

\* compute_factor.
Factors(d, c) ==
  LET cap   == c.capacity
      loc   == c.locality
      res   == c.residency
      cong  == c.congestion
      vram  == RatioOrOne(NeededVram(d), cap.vram)
      cpu   == RatioOrOne(d.cpu, cap.cpu)
      moves == res.moveBytes > 0
      load  == IF moves THEN One ELSE One \div 2
      Moved(normalizer) == Clamp01((res.moveBytes * One) \div normalizer)
      Root(penalty)     == IF loc.sharesRoot THEN penalty ELSE 0
  IN [ AcceleratorFit        |-> Factor(vram, cap.provenance),
       ResourceHeadroom      |-> Factor(Max({cpu, RatioOrOne(d.hostMemory, cap.hostMemory)}),
                                        cap.provenance),
       VramHeadroom          |-> Factor(vram, cap.provenance),
       CpuHeadroom           |-> Factor(cpu, cap.provenance),
       PinnedMemoryHeadroom  |-> Factor(RatioOrOne(d.pinnedMemory, cap.pinnedMemory),
                                        cap.provenance),
       TopologyLocality      |-> Factor(Clamp01(DistanceNorm(loc.numa + loc.pcie, 8)
                                                   + Root(One \div 4)), loc.provenance),
       NumaLocality          |-> Factor(DistanceNorm(loc.numa, 4), loc.provenance),
       PcieLocality          |-> Factor(Clamp01(DistanceNorm(loc.pcie, 8) + Root(One \div 2)),
                                        loc.provenance),
       NicLocality           |-> Factor(DistanceNorm(loc.nic, 4), loc.provenance),
       StorageLocality       |-> Factor(DistanceNorm(loc.storage, 4), loc.provenance),
       CommunicationCost     |-> Factor(Clamp01(c.communication.cost),
                                        c.communication.provenance),
       CongestionPenalty     |-> Factor(Clamp01(cong.level), cong.provenance),
       ResidualBandwidth     |-> Factor(Clamp01(One - cong.residual), cong.provenance),
       ModelResidency        |-> Factor(IF res.model THEN 0 ELSE load, res.provenance),
       AdapterResidency      |-> Factor(IF res.adapter THEN 0 ELSE load, res.provenance),
       ReusableStateLocality |-> Factor(IF res.stateLocal THEN 0 ELSE One, res.provenance),
       CheckpointMovement    |-> Factor(Moved(IF d.maximumMovement > 0
                                                 THEN d.maximumMovement ELSE MoveNormalizer),
                                        res.provenance),
       StartupCost           |-> Factor(IF moves THEN One \div 10 ELSE 0, res.provenance),
       ReservationFit        |-> Factor(Clamp01((c.reservation.reserved * One)
                                                   \div Max({1, cap.vramTotal})),
                                        c.reservation.provenance),
       FailureDomains        |-> Factor(0, "Synthetic"),
       HealthMargin          |-> Factor(Clamp01(One - c.health.score), c.health.provenance),
       EnergyPower           |-> Factor(0, "Unknown"),
       FragmentationImpact   |-> Factor(0, "Synthetic"),
       ExternalPriority      |-> Factor(0, "Reported"),
       MigrationRecompute    |-> Factor(Moved(MoveNormalizer), res.provenance),
       EstimatedQueueing     |-> Factor(Clamp01(cong.level \div 2), cong.provenance),
       PolicyPreference      |-> Factor(0, "Reported") ]

\* The total of evaluate: what the factors weigh.
Score(f) ==
  LET Weighed(k) == Weight[k] * f[k].value
      Resources ==
        Weighed("AcceleratorFit") + Weighed("ResourceHeadroom") + Weighed("VramHeadroom")
        + Weighed("CpuHeadroom") + Weighed("PinnedMemoryHeadroom")
      Distances ==
        Weighed("TopologyLocality") + Weighed("NumaLocality") + Weighed("PcieLocality")
        + Weighed("NicLocality") + Weighed("StorageLocality")
      Traffic ==
        Weighed("CommunicationCost") + Weighed("CongestionPenalty")
        + Weighed("ResidualBandwidth") + Weighed("EstimatedQueueing")
      Residency ==
        Weighed("ModelResidency") + Weighed("AdapterResidency")
        + Weighed("ReusableStateLocality") + Weighed("CheckpointMovement")
        + Weighed("StartupCost") + Weighed("MigrationRecompute")
      Others ==
        Weighed("ReservationFit") + Weighed("FailureDomains") + Weighed("HealthMargin")
        + Weighed("EnergyPower") + Weighed("FragmentationImpact")
        + Weighed("ExternalPriority") + Weighed("PolicyPreference")
  IN Resources + Distances + Traffic + Residency + Others

\* Ranker::evaluate.
Rank(d, c) ==
  LET f == Factors(d, c)
  IN [ id         |-> c.id,
       score      |-> Score(f),
       unknowns   |-> Cardinality({k \in DOMAIN f : f[k].provenance = "Unknown"}),
       strength   |-> Min({ProvenanceStrength[f[k].provenance] : k \in DOMAIN f}),
       movement   |-> f.CheckpointMovement.value,
       headroom   |-> f.ResourceHeadroom.value + f.VramHeadroom.value
                      + f.CpuHeadroom.value + f.PinnedMemoryHeadroom.value,
       congestion |-> Clamp01(c.congestion.level),
       local      |-> Cardinality({i \in DOMAIN c.bindings :
                                     c.locality.numa = 0 /\ c.bindings[i].memoryDomain}) ]

-----------------------------------------------------------------------------
\* The comparator's chain; smaller is better.
Key(r) == <<r.score, r.unknowns, -r.strength, r.movement, r.headroom,
            r.congestion, -r.local, r.id>>

\* The same without the id.
CostKey(r) == SubSeq(Key(r), 1, 7)

\* Defect: candidates that tie stay unordered.
BeforeByCost(q, r) ==
  \E i \in DOMAIN CostKey(q) :
    /\ CostKey(q)[i] < CostKey(r)[i]
    /\ \A j \in 1..(i - 1) : CostKey(q)[j] = CostKey(r)[j]

\* RankComparator: q goes before r.
Before(q, r) ==
  \E i \in DOMAIN Key(q) :
    /\ Key(q)[i] < Key(r)[i]
    /\ \A j \in 1..(i - 1) : Key(q)[j] = Key(r)[j]

=============================================================================
