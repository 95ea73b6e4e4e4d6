-------------------------- MODULE SelectionProofs ---------------------------
(***************************************************************************)
(* The ranking and what schedule decides, for all widths, candidates and   *)
(* demands:                                                                *)
(*                                                                         *)
(*   the comparator orders any candidates with different ids totally and   *)
(*   strictly, which std::sort requires and which makes its result unique; *)
(*   every factor is a number and none counts an advantage against the     *)
(*   candidate that has it;                                                *)
(*   the filter's saturating product never lets a candidate through that   *)
(*   the exact product would not, and the winner and its fallbacks serve   *)
(*   the demand;                                                           *)
(*   every candidate is accounted for exactly once;                        *)
(*   the winner is before every other eligible candidate, each fallback    *)
(*   before all that follow, and no advantage makes a candidate lose.      *)
(*                                                                         *)
(* The invariant says that the ids filtered so far are the able ones among *)
(* them, each once in the vector, and the others among the rejections; and *)
(* that after the sort none precedes a better one.  A vector with each     *)
(* element once is as long as its set; an arrangement in which none        *)
(* precedes a better one puts the better first, because the comparator     *)
(* orders any two different candidates.                                    *)
(***************************************************************************)
EXTENDS Selection, FiniteSetTheorems, SequenceTheorems, WellFoundedInduction, TLAPS

-----------------------------------------------------------------------------
(* Arithmetic.                                                             *)

\* The quotient is a number, and bounds the dividend.
LEMMA Quotient ==
  ASSUME NEW x \in Int, NEW a \in Nat \ {0}
  PROVE  /\ x \div a \in Int
         /\ a * (x \div a) <= x /\ x < a * (x \div a) + a
OBVIOUS

\* A product of numbers that are not negative grows with them.
LEMMA ProductMonotone ==
  ASSUME NEW a \in Nat, NEW b \in Nat, NEW x \in Nat, NEW y \in Nat, a <= b, x <= y
  PROVE  a * x <= b * y
OBVIOUS

\* More is available: no larger a share is taken.
LEMMA LargerDivisor ==
  ASSUME NEW x \in Nat, NEW a \in Nat \ {0}, NEW b \in Nat \ {0}, a <= b
  PROVE  x \div b <= x \div a
OBVIOUS

\* More is asked for.
LEMMA LargerDividend ==
  ASSUME NEW x \in Int, NEW y \in Int, NEW a \in Nat \ {0}, x <= y
  PROVE  x \div a <= y \div a
OBVIOUS

\* The larger of two numbers.
LEMMA MaxOfTwo ==
  ASSUME NEW a \in Int, NEW b \in Int
  PROVE  Max({a, b}) = IF a >= b THEN a ELSE b
<1>1. \A x \in {a, b} : (\A y \in {a, b} : x >= y) => x = IF a >= b THEN a ELSE b
  OBVIOUS
<1>2. \E x \in {a, b} : \A y \in {a, b} : x >= y
  OBVIOUS
<1> QED  BY <1>1, <1>2 DEF Max

\* The smaller.
LEMMA MinOfTwo ==
  ASSUME NEW a \in Int, NEW b \in Int
  PROVE  Min({a, b}) = IF a <= b THEN a ELSE b
<1>1. \A x \in {a, b} : (\A y \in {a, b} : x <= y) => x = IF a <= b THEN a ELSE b
  OBVIOUS
<1>2. \E x \in {a, b} : \A y \in {a, b} : x <= y
  OBVIOUS
<1> QED  BY <1>1, <1>2 DEF Min

\* clamp01 returns a share, whatever it is given.
LEMMA ClampBounds ==
  ASSUME NEW v \in Int
  PROVE  Clamp01(v) \in 0..One
BY DEF Clamp01, One

\* ... and the greater share for the greater number.
LEMMA ClampMonotone ==
  ASSUME NEW v \in Int, NEW w \in Int, v <= w
  PROVE  Clamp01(v) <= Clamp01(w)
BY DEF Clamp01, One

\* The share of what is available that is needed is a share.
LEMMA RatioBounds ==
  ASSUME NEW need \in Nat, NEW avail \in Nat
  PROVE  RatioOrOne(need, avail) \in 0..One
<1>1. CASE avail = 0
  BY <1>1 DEF RatioOrOne, One
<1>2. CASE avail # 0
  <2>1. (need * One) \div avail \in Int
    BY <1>2, Quotient DEF One
  <2> QED  BY <1>2, <2>1, ClampBounds DEF RatioOrOne
<1> QED  BY <1>1, <1>2

\* The share taken of what is available falls as more is available.
LEMMA RatioMonotone ==
  ASSUME NEW need \in Nat, NEW a \in Nat, NEW b \in Nat, a <= b
  PROVE  RatioOrOne(need, b) <= RatioOrOne(need, a)
<1>1. CASE a = 0
  <2>1. RatioOrOne(need, b) \in 0..One
    BY RatioBounds
  <2> QED  BY <1>1, <2>1 DEF RatioOrOne, One
<1>2. CASE a # 0
  <2>1. need * One \in Nat
    BY DEF One
  <2>2. /\ (need * One) \div b <= (need * One) \div a
        /\ (need * One) \div b \in Int /\ (need * One) \div a \in Int
    BY <1>2, <2>1, LargerDivisor, Quotient
  <2> QED  BY <1>2, <2>2, ClampMonotone DEF RatioOrOne
<1> QED  BY <1>1, <1>2

\* A normalized distance is a share.
LEMMA DistanceBounds ==
  ASSUME NEW n \in Nat, NEW divisor \in Nat \ {0}
  PROVE  DistanceNorm(n, divisor) \in 0..One
<1>1. (n * One) \div divisor \in Int
  BY Quotient DEF One
<1> QED  BY <1>1, ClampBounds DEF DistanceNorm

\* ... that grows with the distance.
LEMMA DistanceMonotone ==
  ASSUME NEW m \in Nat, NEW n \in Nat, NEW divisor \in Nat \ {0}, m <= n
  PROVE  DistanceNorm(m, divisor) <= DistanceNorm(n, divisor)
<1>1. m * One \in Int /\ n * One \in Int /\ m * One <= n * One
  BY DEF One
<1>2. /\ (m * One) \div divisor <= (n * One) \div divisor
      /\ (m * One) \div divisor \in Int /\ (n * One) \div divisor \in Int
  BY <1>1, LargerDividend, Quotient
<1> QED  BY <1>2, ClampMonotone DEF DistanceNorm

-----------------------------------------------------------------------------
(* The factors.                                                            *)

FactorNames == DOMAIN Weight

\* A demand's quantities, and what the ranker makes of them.
LEMMA DemandNumbers ==
  ASSUME NEW d \in Demands, Word \in Nat \ {0}
  PROVE  /\ {d.cpu, d.hostMemory, d.pinnedMemory, d.maximumMovement} \subseteq Nat
         /\ NeededVram(d) \in Nat
<1>1. {d.minCount, d.vramPerDevice, d.aggregateVram, d.cpu, d.hostMemory,
       d.pinnedMemory, d.storage, d.bandwidth, d.maximumMovement} \subseteq Nat
  BY DemandsAssumption
<1>2. WrappingMul(d.vramPerDevice, d.minCount) \in Nat
  <2>1. d.vramPerDevice * d.minCount \in Nat
    BY <1>1
  <2> QED  BY <2>1 DEF WrappingMul
<1> QED  BY <1>1, <1>2 DEF NeededVram

\* What is read of a candidate.
LEMMA CandidateNumbers ==
  ASSUME NEW c \in CandidateRecords
  PROVE  /\ Word \in Nat \ {0}
         /\ {c.capacity.vram, c.capacity.vramTotal, c.capacity.cpu, c.capacity.hostMemory,
             c.capacity.pinnedMemory, c.reservation.reserved, c.residency.moveBytes,
             c.locality.numa, c.locality.pcie, c.locality.nic, c.locality.storage,
             c.id} \subseteq Nat
         /\ {c.health.score, c.congestion.level, c.congestion.residual,
             c.communication.cost} \subseteq Int
         /\ {c.residency.model, c.residency.adapter, c.residency.stateLocal,
             c.locality.sharesRoot} \subseteq BOOLEAN
         /\ {c.capacity.provenance, c.health.provenance, c.reservation.provenance,
             c.congestion.provenance, c.locality.provenance, c.communication.provenance,
             c.residency.provenance} \subseteq Provenance
<1>1. Word \in Nat
  BY WidthAssumption
<1>2. Words \subseteq Nat
  BY <1>1 DEF Words
<1>3. c.capacity.vram \in 0..(Word - 1)
  BY DEF CandidateRecords, Words
<1>4. Word \in Nat \ {0}
  BY <1>1, <1>3
<1> QED  BY ZenonT(40), <1>2, <1>4 DEF CandidateRecords

\* Every factor is a number between 0 and 1 with a provenance.
LEMMA FactorNumbers ==
  ASSUME NEW d \in Demands, NEW c \in CandidateRecords
  PROVE  /\ DOMAIN Factors(d, c) = FactorNames
         /\ \A k \in FactorNames : /\ Factors(d, c)[k].value \in 0..One
                                   /\ Factors(d, c)[k].provenance \in Provenance
<1> DEFINE F == Factors(d, c)
<1>1. /\ F.AcceleratorFit.value \in 0..One /\ F.VramHeadroom.value \in 0..One
      /\ F.ResourceHeadroom.value \in 0..One /\ F.CpuHeadroom.value \in 0..One
      /\ F.PinnedMemoryHeadroom.value \in 0..One
  <2>1. /\ RatioOrOne(NeededVram(d), c.capacity.vram) \in 0..One
        /\ RatioOrOne(d.cpu, c.capacity.cpu) \in 0..One
        /\ RatioOrOne(d.hostMemory, c.capacity.hostMemory) \in 0..One
        /\ RatioOrOne(d.pinnedMemory, c.capacity.pinnedMemory) \in 0..One
    BY DemandNumbers, CandidateNumbers, RatioBounds
  <2>2. Max({RatioOrOne(d.cpu, c.capacity.cpu), RatioOrOne(d.hostMemory, c.capacity.hostMemory)})
          \in 0..One
    <3>1. \A a, b \in 0..One : a \in Int /\ b \in Int
      BY DEF One
    <3>2. \A a, b \in 0..One : Max({a, b}) \in 0..One
      BY <3>1, MaxOfTwo
    <3> QED  BY <2>1, <3>2
  <2> QED  BY <2>1, <2>2 DEF Factors, Factor
<1>2. /\ F.TopologyLocality.value \in 0..One /\ F.NumaLocality.value \in 0..One
      /\ F.PcieLocality.value \in 0..One /\ F.NicLocality.value \in 0..One
      /\ F.StorageLocality.value \in 0..One
  <2>1. /\ DistanceNorm(c.locality.numa + c.locality.pcie, 8) \in 0..One
        /\ DistanceNorm(c.locality.numa, 4) \in 0..One
        /\ DistanceNorm(c.locality.pcie, 8) \in 0..One
        /\ DistanceNorm(c.locality.nic, 4) \in 0..One
        /\ DistanceNorm(c.locality.storage, 4) \in 0..One
    BY CandidateNumbers, DistanceBounds
  <2>2. \A n \in {0, One \div 2, One \div 4} : n \in Int
    BY DEF One
  <2>3. /\ Clamp01(DistanceNorm(c.locality.numa + c.locality.pcie, 8)
                     + (IF c.locality.sharesRoot THEN One \div 4 ELSE 0)) \in 0..One
        /\ Clamp01(DistanceNorm(c.locality.pcie, 8)
                     + (IF c.locality.sharesRoot THEN One \div 2 ELSE 0)) \in 0..One
    BY <2>1, <2>2, ClampBounds
  <2> QED  BY <2>1, <2>3 DEF Factors, Factor
<1>3. /\ F.CommunicationCost.value \in 0..One /\ F.CongestionPenalty.value \in 0..One
      /\ F.ResidualBandwidth.value \in 0..One /\ F.HealthMargin.value \in 0..One
      /\ F.EstimatedQueueing.value \in 0..One
  <2>1. /\ c.communication.cost \in Int /\ c.congestion.level \in Int
        /\ One - c.congestion.residual \in Int /\ One - c.health.score \in Int
        /\ c.congestion.level \div 2 \in Int
    BY CandidateNumbers DEF One
  <2> QED  BY <2>1, ClampBounds DEF Factors, Factor
<1>4. /\ F.CheckpointMovement.value \in 0..One /\ F.MigrationRecompute.value \in 0..One
      /\ F.ReservationFit.value \in 0..One
  <2>1. /\ c.residency.moveBytes * One \in Int /\ c.reservation.reserved * One \in Int
    BY CandidateNumbers DEF One
  <2>2. /\ Max({1, c.capacity.vramTotal}) \in Nat \ {0}
        /\ (IF d.maximumMovement > 0 THEN d.maximumMovement ELSE MoveNormalizer) \in Nat \ {0}
        /\ MoveNormalizer \in Nat \ {0}
    BY DemandNumbers, CandidateNumbers, MaxOfTwo, MoveNormalizerAssumption
  <2>3. \A x \in Int : \A n \in Nat \ {0} : Clamp01(x \div n) \in 0..One
    BY Quotient, ClampBounds
  <2> QED  BY <2>1, <2>2, <2>3 DEF Factors, Factor
<1>5. /\ F.ModelResidency.value \in 0..One /\ F.AdapterResidency.value \in 0..One
      /\ F.ReusableStateLocality.value \in 0..One /\ F.StartupCost.value \in 0..One
      /\ F.FailureDomains.value \in 0..One /\ F.EnergyPower.value \in 0..One
      /\ F.FragmentationImpact.value \in 0..One /\ F.ExternalPriority.value \in 0..One
      /\ F.PolicyPreference.value \in 0..One
  BY SMTT(30) DEF Factors, Factor, One
<1>6. DOMAIN F = FactorNames /\ \A k \in FactorNames : F[k].provenance \in Provenance
  <2>1. {"Synthetic", "Unknown", "Reported"} \subseteq Provenance
    BY DEF Provenance, ProvenanceStrength
  <2> QED  BY <2>1, CandidateNumbers DEF Factors, Factor, FactorNames, Weight
<1> HIDE DEF F
<1>7. \A k \in FactorNames : F[k].value \in 0..One
  BY <1>1, <1>2, <1>3, <1>4, <1>5 DEF FactorNames, Weight
<1> QED  BY <1>6, <1>7 DEF F

\* No factor counts an advantage against the candidate that has it, and none
\* is known better for one candidate than for another like it.
LEMMA FactorsMonotone ==
  ASSUME NEW d \in Demands, NEW b \in CandidateRecords, NEW w \in CandidateRecords,
         AtLeastAsGood(b, w)
  PROVE  \A k \in FactorNames :
           /\ Factors(d, b)[k].value <= Factors(d, w)[k].value
           /\ Factors(d, b)[k].provenance = Factors(d, w)[k].provenance
<1> DEFINE B == Factors(d, b)
           W == Factors(d, w)
<1>1. /\ B.AcceleratorFit.value <= W.AcceleratorFit.value
      /\ B.VramHeadroom.value <= W.VramHeadroom.value
      /\ B.ResourceHeadroom.value <= W.ResourceHeadroom.value
      /\ B.CpuHeadroom.value <= W.CpuHeadroom.value
      /\ B.PinnedMemoryHeadroom.value <= W.PinnedMemoryHeadroom.value
  <2>1. \A x \in {"vram", "cpu", "hostMemory", "pinnedMemory"} :
          /\ w.capacity[x] \in Nat /\ b.capacity[x] \in Nat
          /\ w.capacity[x] <= b.capacity[x]
    BY CandidateNumbers DEF AtLeastAsGood
  <2>2. \A need \in Nat : \A x \in {"vram", "cpu", "hostMemory", "pinnedMemory"} :
          /\ RatioOrOne(need, b.capacity[x]) <= RatioOrOne(need, w.capacity[x])
          /\ RatioOrOne(need, b.capacity[x]) \in Int /\ RatioOrOne(need, w.capacity[x]) \in Int
    <3>1. \A p \in 0..One : p \in Int
      BY DEF One
    <3>2. \A need, m, n \in Nat : m <= n =>
            /\ RatioOrOne(need, n) <= RatioOrOne(need, m)
            /\ RatioOrOne(need, n) \in Int /\ RatioOrOne(need, m) \in Int
      BY <3>1, RatioMonotone, RatioBounds
    <3> QED  BY <2>1, <3>2
  <2>3. /\ NeededVram(d) \in Nat /\ d.cpu \in Nat /\ d.hostMemory \in Nat
        /\ d.pinnedMemory \in Nat
    BY DemandNumbers, CandidateNumbers
  <2>4. \A p, q, r, s \in Int : p <= r /\ q <= s => Max({p, q}) <= Max({r, s})
    BY MaxOfTwo
  <2>5. Max({RatioOrOne(d.cpu, b.capacity.cpu), RatioOrOne(d.hostMemory, b.capacity.hostMemory)})
          <= Max({RatioOrOne(d.cpu, w.capacity.cpu), RatioOrOne(d.hostMemory, w.capacity.hostMemory)})
    BY <2>2, <2>3, <2>4
  <2> QED  BY <2>2, <2>3, <2>5 DEF Factors, Factor
<1>2. /\ B.TopologyLocality.value <= W.TopologyLocality.value
      /\ B.NumaLocality.value <= W.NumaLocality.value
      /\ B.PcieLocality.value <= W.PcieLocality.value
      /\ B.NicLocality.value <= W.NicLocality.value
      /\ B.StorageLocality.value <= W.StorageLocality.value
  <2>1. /\ \A x \in {"numa", "pcie", "nic", "storage"} :
             /\ b.locality[x] \in Nat /\ w.locality[x] \in Nat
             /\ b.locality[x] <= w.locality[x]
        /\ b.locality.sharesRoot => w.locality.sharesRoot
    BY CandidateNumbers DEF AtLeastAsGood
  <2>2. \A divisor \in {4, 8} : \A m, n \in Nat : m <= n =>
          /\ DistanceNorm(m, divisor) <= DistanceNorm(n, divisor)
          /\ DistanceNorm(m, divisor) \in Int /\ DistanceNorm(n, divisor) \in Int
    BY DistanceMonotone, DistanceBounds DEF One
  <2>3. b.locality.numa + b.locality.pcie <= w.locality.numa + w.locality.pcie
    BY <2>1
  <2>4. \A u, v, p \in Int : u <= v /\ p >= 0 =>
          Clamp01(u + (IF b.locality.sharesRoot THEN p ELSE 0))
            <= Clamp01(v + (IF w.locality.sharesRoot THEN p ELSE 0))
    BY <2>1, ClampMonotone
  <2>5. \A p \in {One \div 2, One \div 4} : p \in Int /\ p >= 0
    BY DEF One
  <2>6. Clamp01(DistanceNorm(b.locality.numa + b.locality.pcie, 8)
                  + (IF b.locality.sharesRoot THEN One \div 4 ELSE 0))
          <= Clamp01(DistanceNorm(w.locality.numa + w.locality.pcie, 8)
                  + (IF w.locality.sharesRoot THEN One \div 4 ELSE 0))
    <3>1. b.locality.numa + b.locality.pcie \in Nat /\ w.locality.numa + w.locality.pcie \in Nat
      BY <2>1
    <3>2. /\ DistanceNorm(b.locality.numa + b.locality.pcie, 8)
               <= DistanceNorm(w.locality.numa + w.locality.pcie, 8)
          /\ DistanceNorm(b.locality.numa + b.locality.pcie, 8) \in Int
          /\ DistanceNorm(w.locality.numa + w.locality.pcie, 8) \in Int
      BY <2>2, <2>3, <3>1
    <3> QED  BY <2>4, <2>5, <3>2
  <2>7. Clamp01(DistanceNorm(b.locality.pcie, 8)
                  + (IF b.locality.sharesRoot THEN One \div 2 ELSE 0))
          <= Clamp01(DistanceNorm(w.locality.pcie, 8)
                  + (IF w.locality.sharesRoot THEN One \div 2 ELSE 0))
    BY <2>1, <2>2, <2>4, <2>5
  <2>8. /\ DistanceNorm(b.locality.numa, 4) <= DistanceNorm(w.locality.numa, 4)
        /\ DistanceNorm(b.locality.nic, 4) <= DistanceNorm(w.locality.nic, 4)
        /\ DistanceNorm(b.locality.storage, 4) <= DistanceNorm(w.locality.storage, 4)
    BY <2>1, <2>2
  <2> QED  BY <2>6, <2>7, <2>8 DEF Factors, Factor
<1>3. /\ B.CommunicationCost.value <= W.CommunicationCost.value
      /\ B.CongestionPenalty.value <= W.CongestionPenalty.value
      /\ B.ResidualBandwidth.value <= W.ResidualBandwidth.value
      /\ B.HealthMargin.value <= W.HealthMargin.value
      /\ B.EstimatedQueueing.value <= W.EstimatedQueueing.value
  <2>1. /\ b.communication.cost \in Int /\ w.communication.cost \in Int
        /\ b.communication.cost <= w.communication.cost
        /\ b.congestion.level \in Int /\ w.congestion.level \in Int
        /\ b.congestion.level <= w.congestion.level
    BY CandidateNumbers DEF AtLeastAsGood
  <2>2. /\ One - b.congestion.residual \in Int /\ One - w.congestion.residual \in Int
        /\ One - b.congestion.residual <= One - w.congestion.residual
        /\ One - b.health.score \in Int /\ One - w.health.score \in Int
        /\ One - b.health.score <= One - w.health.score
    BY CandidateNumbers DEF AtLeastAsGood, One
  <2>3. /\ b.congestion.level \div 2 \in Int /\ w.congestion.level \div 2 \in Int
        /\ b.congestion.level \div 2 <= w.congestion.level \div 2
    BY <2>1
  <2> QED  BY <2>1, <2>2, <2>3, ClampMonotone DEF Factors, Factor
<1>4. /\ B.CheckpointMovement.value <= W.CheckpointMovement.value
      /\ B.MigrationRecompute.value <= W.MigrationRecompute.value
      /\ B.ReservationFit.value <= W.ReservationFit.value
  <2>1. /\ b.residency.moveBytes * One \in Nat /\ w.residency.moveBytes * One \in Nat
        /\ b.residency.moveBytes * One <= w.residency.moveBytes * One
        /\ b.reservation.reserved * One \in Nat /\ w.reservation.reserved * One \in Nat
        /\ b.reservation.reserved * One <= w.reservation.reserved * One
    BY CandidateNumbers DEF AtLeastAsGood, One
  <2>2. /\ Max({1, b.capacity.vramTotal}) \in Nat \ {0}
        /\ Max({1, w.capacity.vramTotal}) \in Nat \ {0}
        /\ Max({1, w.capacity.vramTotal}) <= Max({1, b.capacity.vramTotal})
        /\ (IF d.maximumMovement > 0 THEN d.maximumMovement ELSE MoveNormalizer) \in Nat \ {0}
        /\ MoveNormalizer \in Nat \ {0}
    <3>1. /\ b.capacity.vramTotal \in Nat /\ w.capacity.vramTotal \in Nat
          /\ w.capacity.vramTotal <= b.capacity.vramTotal
      BY CandidateNumbers DEF AtLeastAsGood
    <3>2. d.maximumMovement \in Nat
      BY DemandNumbers, CandidateNumbers
    <3> QED  BY <3>1, <3>2, MaxOfTwo, MoveNormalizerAssumption
  <2>3. \A x, y \in Nat : \A m, n \in Nat \ {0} :
          x <= y /\ m <= n => Clamp01(x \div n) <= Clamp01(y \div m)
    <3> TAKE x, y \in Nat
    <3> TAKE m, n \in Nat \ {0}
    <3> HAVE x <= y /\ m <= n
    <3>1. x \in Int /\ y \in Int
      OBVIOUS
    <3>3. x \div n <= y \div n
      BY <3>1, LargerDividend
    <3>4. y \div n <= y \div m
      BY LargerDivisor
    <3>2. x \div n \in Int /\ y \div n \in Int /\ y \div m \in Int
      BY Quotient
    <3>5. x \div n <= y \div m
      BY <3>2, <3>3, <3>4
    <3> QED  BY <3>2, <3>5, ClampMonotone
  <2>4. /\ Clamp01((b.residency.moveBytes * One)
                     \div (IF d.maximumMovement > 0 THEN d.maximumMovement ELSE MoveNormalizer))
             <= Clamp01((w.residency.moveBytes * One)
                     \div (IF d.maximumMovement > 0 THEN d.maximumMovement ELSE MoveNormalizer))
        /\ Clamp01((b.residency.moveBytes * One) \div MoveNormalizer)
             <= Clamp01((w.residency.moveBytes * One) \div MoveNormalizer)
    <3>1. \A n \in Nat \ {0} : Clamp01((b.residency.moveBytes * One) \div n)
                                <= Clamp01((w.residency.moveBytes * One) \div n)
      BY <2>1, <2>3
    <3> QED  BY <2>2, <3>1
  <2>5. Clamp01((b.reservation.reserved * One) \div Max({1, b.capacity.vramTotal}))
          <= Clamp01((w.reservation.reserved * One) \div Max({1, w.capacity.vramTotal}))
    BY <2>1, <2>2, <2>3
  <2> QED  BY <2>4, <2>5 DEF Factors, Factor
<1>5. /\ B.ModelResidency.value <= W.ModelResidency.value
      /\ B.AdapterResidency.value <= W.AdapterResidency.value
      /\ B.ReusableStateLocality.value <= W.ReusableStateLocality.value
      /\ B.StartupCost.value <= W.StartupCost.value
  <2>1. /\ b.residency.moveBytes \in Nat /\ w.residency.moveBytes \in Nat
        /\ b.residency.moveBytes <= w.residency.moveBytes
        /\ w.residency.model => b.residency.model
        /\ w.residency.adapter => b.residency.adapter
        /\ w.residency.stateLocal => b.residency.stateLocal
    BY CandidateNumbers DEF AtLeastAsGood
  <2> QED  BY <2>1 DEF Factors, Factor, One
<1>6. /\ B.FailureDomains.value <= W.FailureDomains.value
      /\ B.EnergyPower.value <= W.EnergyPower.value
      /\ B.FragmentationImpact.value <= W.FragmentationImpact.value
      /\ B.ExternalPriority.value <= W.ExternalPriority.value
      /\ B.PolicyPreference.value <= W.PolicyPreference.value
  BY SMTT(30) DEF Factors, Factor
<1>7. \A k \in FactorNames : B[k].provenance = W[k].provenance
  <2>1. \A field \in {"capacity", "health", "reservation", "congestion",
                      "locality", "communication", "residency"} :
          b[field].provenance = w[field].provenance
    BY DEF AtLeastAsGood
  <2>2. \A k \in {"AcceleratorFit", "ResourceHeadroom", "VramHeadroom", "CpuHeadroom",
                 "PinnedMemoryHeadroom", "TopologyLocality", "NumaLocality", "PcieLocality",
                 "NicLocality", "StorageLocality"} : B[k].provenance = W[k].provenance
    BY <2>1 DEF Factors, Factor
  <2>3. \A k \in {"CommunicationCost", "CongestionPenalty", "ResidualBandwidth",
                 "EstimatedQueueing", "HealthMargin", "ReservationFit", "ModelResidency",
                 "AdapterResidency", "ReusableStateLocality", "CheckpointMovement",
                 "MigrationRecompute", "StartupCost"} : B[k].provenance = W[k].provenance
    BY <2>1 DEF Factors, Factor
  <2>4. \A k \in {"FailureDomains", "EnergyPower", "FragmentationImpact", "ExternalPriority",
                 "PolicyPreference"} : B[k].provenance = W[k].provenance
    BY DEF Factors, Factor
  <2> HIDE DEF B, W
  <2> QED  BY ZenonT(40), <2>2, <2>3, <2>4 DEF FactorNames, Weight
<1> HIDE DEF B, W
<1>8. \A k \in FactorNames : B[k].value <= W[k].value
  BY <1>1, <1>2, <1>3, <1>4, <1>5, <1>6 DEF FactorNames, Weight
<1> QED  BY <1>7, <1>8 DEF B, W

-----------------------------------------------------------------------------
(* The rank.                                                               *)

\* There are 27 factors.
LEMMA FactorNamesFinite == IsFiniteSet(FactorNames)
<1> DEFINE names ==
      <<"AcceleratorFit", "ResourceHeadroom", "VramHeadroom", "CpuHeadroom",
        "PinnedMemoryHeadroom", "TopologyLocality", "NumaLocality", "PcieLocality",
        "NicLocality", "StorageLocality", "CommunicationCost", "CongestionPenalty",
        "ResidualBandwidth", "ModelResidency", "AdapterResidency",
        "ReusableStateLocality", "CheckpointMovement", "StartupCost", "ReservationFit",
        "FailureDomains", "HealthMargin", "EnergyPower", "FragmentationImpact",
        "ExternalPriority", "MigrationRecompute", "EstimatedQueueing",
        "PolicyPreference">>
<1>1. DOMAIN names = 1..27 /\ \A i \in 1..27 : names[i] \in FactorNames
  BY DEF FactorNames, Weight
<1>2. \A k \in FactorNames : \E i \in 1..27 : names[i] = k
  BY DEF FactorNames, Weight
<1>3. names = [i \in 1..27 |-> names[i]]
  OBVIOUS
<1> HIDE DEF names
<1>4. names \in Surjection(1..27, FactorNames)
  BY <1>1, <1>2, <1>3 DEF Surjection
<1>5. \E n \in Nat : ExistsSurjection(1..n, FactorNames)
  <2>1. ExistsSurjection(1..27, FactorNames)
    BY <1>4 DEF ExistsSurjection
  <2>2. 27 \in Nat
    OBVIOUS
  <2> QED  BY <2>1, <2>2
<1> QED  BY <1>5, FS_NatSurjection

\* A set of natural numbers with an element has a least one.
LEMMA LeastElement ==
  ASSUME NEW S, S \subseteq Nat, S # {}
  PROVE  Min(S) \in S
<1> SUFFICES \E x \in S : \A y \in S : x <= y
  BY DEF Min
<1>1. PICK x \in S : \A y \in S : ~(<<y, x>> \in OpToRel(<, Nat))
  BY NatLessThanWellFounded, WFMin
<1>2. ASSUME NEW y \in S
      PROVE  x <= y
  <2>1. ~(<<y, x>> \in OpToRel(<, Nat))
    BY <1>1
  <2> QED  BY <2>1 DEF OpToRel
<1> QED  BY <1>2

RankRecords ==
  [id : Int, score : Int, unknowns : Int, strength : Int, movement : Int,
   headroom : Int, congestion : Int, local : Int]

-----------------------------------------------------------------------------
\* The chain of the comparator written out: what is compared, in which order.
LEMMA BeforeChain ==
  ASSUME NEW q \in RankRecords, NEW r \in RankRecords
  PROVE  Before(q, r) <=>
    \/ q.score < r.score
    \/ /\ q.score = r.score
       /\ \/ q.unknowns < r.unknowns
          \/ /\ q.unknowns = r.unknowns
             /\ \/ q.strength > r.strength
                \/ /\ q.strength = r.strength
                   /\ \/ q.movement < r.movement
                      \/ /\ q.movement = r.movement
                         /\ \/ q.headroom < r.headroom
                            \/ /\ q.headroom = r.headroom
                               /\ \/ q.congestion < r.congestion
                                  \/ /\ q.congestion = r.congestion
                                     /\ \/ q.local > r.local
                                        \/ q.local = r.local /\ q.id < r.id
<1> DEFINE k == Key(q)
           l == Key(r)
<1>1. /\ k = <<q.score, q.unknowns, -q.strength, q.movement, q.headroom,
               q.congestion, -q.local, q.id>>
      /\ l = <<r.score, r.unknowns, -r.strength, r.movement, r.headroom,
               r.congestion, -r.local, r.id>>
  BY DEF Key
<1>2. /\ \A i \in 1..8 : k[i] \in Int /\ l[i] \in Int
      /\ DOMAIN k = 1..8
  BY <1>1 DEF RankRecords
<1> HIDE DEF k, l
<1>3. Before(q, r) <=> \E i \in 1..8 : k[i] < l[i] /\ \A j \in 1..(i - 1) : k[j] = l[j]
  BY <1>2 DEF Before, k, l
<1>4. Before(q, r) <=>
        \/ k[1] < l[1]
        \/ k[2] < l[2] /\ k[1] = l[1]
        \/ k[3] < l[3] /\ k[1] = l[1] /\ k[2] = l[2]
        \/ k[4] < l[4] /\ k[1] = l[1] /\ k[2] = l[2] /\ k[3] = l[3]
        \/ k[5] < l[5] /\ k[1] = l[1] /\ k[2] = l[2] /\ k[3] = l[3]
             /\ k[4] = l[4]
        \/ k[6] < l[6] /\ k[1] = l[1] /\ k[2] = l[2] /\ k[3] = l[3]
             /\ k[4] = l[4] /\ k[5] = l[5]
        \/ k[7] < l[7] /\ k[1] = l[1] /\ k[2] = l[2] /\ k[3] = l[3]
             /\ k[4] = l[4] /\ k[5] = l[5] /\ k[6] = l[6]
        \/ k[8] < l[8] /\ k[1] = l[1] /\ k[2] = l[2] /\ k[3] = l[3]
             /\ k[4] = l[4] /\ k[5] = l[5] /\ k[6] = l[6] /\ k[7] = l[7]
  <2>1. ASSUME NEW i \in 1..8
        PROVE  (\A j \in 1..(i - 1) : k[j] = l[j]) <=>
                 \A j \in 1..7 : j < i => k[j] = l[j]
    BY <2>1
  <2> QED  BY <1>3, <2>1
<1> QED  BY <1>1, <1>4 DEF RankRecords

\* RankComparator is a strict total order: irreflexive, transitive, and any
\* two candidates with different ids are ordered.  std::sort relies on the
\* first two, the uniqueness of its result on the third.
THEOREM ComparatorOrders ==
  ASSUME NEW q \in RankRecords, NEW r \in RankRecords, NEW s \in RankRecords
  PROVE  /\ ~Before(q, q)
         /\ Before(q, r) /\ Before(r, s) => Before(q, s)
         /\ q.id # r.id => Before(q, r) \/ Before(r, q)
<1>1. ~Before(q, q)
  BY BeforeChain DEF RankRecords
<1>2. Before(q, r) /\ Before(r, s) => Before(q, s)
  BY BeforeChain DEF RankRecords
<1>3. q.id # r.id => Before(q, r) \/ Before(r, q)
  BY BeforeChain DEF RankRecords
<1> QED  BY <1>1, <1>2, <1>3

-----------------------------------------------------------------------------
\* The total of bounded numbers is a number, and grows with each.
LEMMA ScoreMonotone ==
  ASSUME NEW f, NEW g, \A k \in FactorNames : f[k].value \in Nat /\ g[k].value \in Nat,
         \A k \in FactorNames : f[k].value <= g[k].value
  PROVE  Score(f) \in Int /\ Score(g) \in Int /\ Score(f) <= Score(g)
<1>1. \A k \in FactorNames : Weight[k] \in Nat
  BY DEF FactorNames, Weight
<1>2. \A k \in FactorNames :
        /\ Weight[k] * f[k].value \in Nat /\ Weight[k] * g[k].value \in Nat
        /\ Weight[k] * f[k].value <= Weight[k] * g[k].value
  BY <1>1, ProductMonotone
<1>3. FactorNames =
        {"AcceleratorFit", "ResourceHeadroom", "VramHeadroom", "CpuHeadroom",
         "PinnedMemoryHeadroom", "TopologyLocality", "NumaLocality", "PcieLocality",
         "NicLocality", "StorageLocality", "CommunicationCost", "CongestionPenalty",
         "ResidualBandwidth", "ModelResidency", "AdapterResidency",
         "ReusableStateLocality", "CheckpointMovement", "StartupCost", "ReservationFit",
         "FailureDomains", "HealthMargin", "EnergyPower", "FragmentationImpact",
         "ExternalPriority", "MigrationRecompute", "EstimatedQueueing",
         "PolicyPreference"}
  BY DEF FactorNames, Weight
<1> HIDE DEF FactorNames
<1> DEFINE p == [k \in FactorNames |-> Weight[k] * f[k].value]
           q == [k \in FactorNames |-> Weight[k] * g[k].value]
           Resources(r) ==
             r["AcceleratorFit"] + r["ResourceHeadroom"] + r["VramHeadroom"]
             + r["CpuHeadroom"] + r["PinnedMemoryHeadroom"]
           Distances(r) ==
             r["TopologyLocality"] + r["NumaLocality"] + r["PcieLocality"]
             + r["NicLocality"] + r["StorageLocality"]
           Traffic(r) ==
             r["CommunicationCost"] + r["CongestionPenalty"]
             + r["ResidualBandwidth"] + r["EstimatedQueueing"]
           Residency(r) ==
             r["ModelResidency"] + r["AdapterResidency"]
             + r["ReusableStateLocality"] + r["CheckpointMovement"]
             + r["StartupCost"] + r["MigrationRecompute"]
           Others(r) ==
             r["ReservationFit"] + r["FailureDomains"] + r["HealthMargin"]
             + r["EnergyPower"] + r["FragmentationImpact"]
             + r["ExternalPriority"] + r["PolicyPreference"]
           Total(r) == Resources(r) + Distances(r) + Traffic(r) + Residency(r) + Others(r)
<1>4. \A k \in FactorNames : p[k] \in Nat /\ q[k] \in Nat /\ p[k] <= q[k]
  BY <1>2
<1>5. \A k \in FactorNames : p[k] = Weight[k] * f[k].value /\ q[k] = Weight[k] * g[k].value
  OBVIOUS
<1> HIDE DEF p, q
<1>6. Resources(p) \in Nat /\ Resources(q) \in Nat /\ Resources(p) <= Resources(q)
  BY <1>3, <1>4
<1>7. Distances(p) \in Nat /\ Distances(q) \in Nat /\ Distances(p) <= Distances(q)
  BY <1>3, <1>4
<1>8. Traffic(p) \in Nat /\ Traffic(q) \in Nat /\ Traffic(p) <= Traffic(q)
  BY <1>3, <1>4
<1>9. Residency(p) \in Nat /\ Residency(q) \in Nat /\ Residency(p) <= Residency(q)
  BY <1>3, <1>4
<1>10. Others(p) \in Nat /\ Others(q) \in Nat /\ Others(p) <= Others(q)
  BY <1>3, <1>4
<1>11. Score(f) = Total(p) /\ Score(g) = Total(q)
  BY <1>3, <1>5 DEF Score
<1> HIDE DEF Resources, Distances, Traffic, Residency, Others
<1> QED  BY <1>6, <1>7, <1>8, <1>9, <1>10, <1>11

\* Memory domains are counted, and there are finitely many.
LEMMA DomainsFinite ==
  ASSUME NEW c \in CandidateRecords, NEW T, T \subseteq DOMAIN c.bindings
  PROVE  IsFiniteSet(T) /\ Cardinality(T) \in Nat
<1>1. PICK n \in Nat : DOMAIN c.bindings = 1..n
  BY DEF CandidateRecords
<1>2. IsFiniteSet(1..n)
  <2>1. 1 \in Int /\ n \in Int
    OBVIOUS
  <2> QED  BY <2>1, FS_Interval
<1>3. IsFiniteSet(T)
  BY <1>1, <1>2, FS_Subset
<1> QED  BY <1>3, FS_CardinalityType

\* What the comparator compares are numbers.
LEMMA RankNumbers ==
  ASSUME NEW d \in Demands, NEW c \in CandidateRecords
  PROVE  Rank(d, c) \in RankRecords /\ Rank(d, c).id = c.id
<1> DEFINE F == Factors(d, c)
           unknown == {k \in DOMAIN F : F[k].provenance = "Unknown"}
           strengths == {ProvenanceStrength[F[k].provenance] : k \in DOMAIN F}
           local == {i \in DOMAIN c.bindings : c.locality.numa = 0 /\ c.bindings[i].memoryDomain}
<1>1. /\ DOMAIN F = FactorNames
      /\ \A k \in FactorNames : F[k].value \in 0..One /\ F[k].provenance \in Provenance
  BY FactorNumbers
<1>2. \A x \in 0..One : x \in Nat
  BY DEF One
<1>3. Score(F) \in Int
  BY <1>1, <1>2, ScoreMonotone
<1> HIDE DEF F
<1>4. Cardinality(unknown) \in Int
  <2>1. IsFiniteSet(unknown)
    BY <1>1, FactorNamesFinite, FS_Subset
  <2> QED  BY <2>1, FS_CardinalityType
<1>5. Min(strengths) \in Int
  <2>1. strengths \subseteq Nat
    BY <1>1 DEF Provenance, ProvenanceStrength
  <2>2. strengths # {}
    BY <1>1 DEF FactorNames, Weight
  <2> HIDE DEF strengths
  <2>3. Min(strengths) \in strengths
    BY <2>1, <2>2, LeastElement
  <2>4. Min(strengths) \in Nat
    BY <2>1, <2>3
  <2> QED  BY <2>4
<1>6. Cardinality(local) \in Int
  BY DomainsFinite
<1>7. /\ F.CheckpointMovement.value \in Int
      /\ F.ResourceHeadroom.value + F.VramHeadroom.value
           + F.CpuHeadroom.value + F.PinnedMemoryHeadroom.value \in Int
  <2>1. {"CheckpointMovement", "ResourceHeadroom", "VramHeadroom", "CpuHeadroom",
         "PinnedMemoryHeadroom"} \subseteq FactorNames
    BY DEF FactorNames, Weight
  <2> HIDE DEF FactorNames
  <2>2. \A k \in {"CheckpointMovement", "ResourceHeadroom", "VramHeadroom", "CpuHeadroom",
                  "PinnedMemoryHeadroom"} : F[k].value \in Nat
    BY <1>1, <1>2, <2>1
  <2> QED  BY <2>2
<1>8. Clamp01(c.congestion.level) \in Int /\ c.id \in Int
  BY <1>2, CandidateNumbers, ClampBounds
<1> HIDE DEF unknown, strengths, local
<1>9. Rank(d, c) =
        [ id |-> c.id, score |-> Score(F), unknowns |-> Cardinality(unknown),
          strength |-> Min(strengths), movement |-> F.CheckpointMovement.value,
          headroom |-> F.ResourceHeadroom.value + F.VramHeadroom.value
                         + F.CpuHeadroom.value + F.PinnedMemoryHeadroom.value,
          congestion |-> Clamp01(c.congestion.level), local |-> Cardinality(local) ]
  BY Zenon DEF Rank, F, unknown, strengths, local
<1> QED  BY <1>3, <1>4, <1>5, <1>6, <1>7, <1>8, <1>9 DEF RankRecords

\* A candidate at least as good in every respect ranks no worse in any.
LEMMA RankMonotone ==
  ASSUME NEW d \in Demands, NEW b \in CandidateRecords, NEW w \in CandidateRecords,
         AtLeastAsGood(b, w)
  PROVE  /\ Rank(d, b).score <= Rank(d, w).score
         /\ Rank(d, b).unknowns = Rank(d, w).unknowns
         /\ Rank(d, b).strength = Rank(d, w).strength
         /\ Rank(d, b).movement <= Rank(d, w).movement
         /\ Rank(d, b).headroom <= Rank(d, w).headroom
         /\ Rank(d, b).congestion <= Rank(d, w).congestion
         /\ Rank(d, b).local >= Rank(d, w).local
<1> DEFINE B == Factors(d, b)
           W == Factors(d, w)
<1>1. /\ DOMAIN B = FactorNames /\ DOMAIN W = FactorNames
      /\ \A k \in FactorNames : B[k].value \in 0..One /\ W[k].value \in 0..One
      /\ \A k \in FactorNames : B[k].value <= W[k].value
      /\ \A k \in FactorNames : B[k].provenance = W[k].provenance
  BY FactorNumbers, FactorsMonotone
<1>2. \A k \in FactorNames : B[k].value \in Nat /\ W[k].value \in Nat
  BY <1>1 DEF One
<1> HIDE DEF B, W
<1>3. Score(B) <= Score(W)
  BY <1>1, <1>2, ScoreMonotone
<1>4. {k \in DOMAIN B : B[k].provenance = "Unknown"} = {k \in DOMAIN W : W[k].provenance = "Unknown"}
  BY <1>1
<1>5. {ProvenanceStrength[B[k].provenance] : k \in DOMAIN B}
        = {ProvenanceStrength[W[k].provenance] : k \in DOMAIN W}
  BY <1>1
<1>6. /\ B.CheckpointMovement.value <= W.CheckpointMovement.value
      /\ B.ResourceHeadroom.value + B.VramHeadroom.value
           + B.CpuHeadroom.value + B.PinnedMemoryHeadroom.value
         <= W.ResourceHeadroom.value + W.VramHeadroom.value
           + W.CpuHeadroom.value + W.PinnedMemoryHeadroom.value
  <2>1. {"CheckpointMovement", "ResourceHeadroom", "VramHeadroom", "CpuHeadroom",
         "PinnedMemoryHeadroom"} \subseteq FactorNames
    BY DEF FactorNames, Weight
  <2> HIDE DEF FactorNames
  <2>2. \A k \in {"CheckpointMovement", "ResourceHeadroom", "VramHeadroom", "CpuHeadroom",
                  "PinnedMemoryHeadroom"} :
          B[k].value \in Nat /\ W[k].value \in Nat /\ B[k].value <= W[k].value
    BY <1>1, <1>2, <2>1
  <2> QED  BY <2>2
<1>7. Clamp01(b.congestion.level) <= Clamp01(w.congestion.level)
  <2>1. /\ b.congestion.level \in Int /\ w.congestion.level \in Int
        /\ b.congestion.level <= w.congestion.level
    BY CandidateNumbers DEF AtLeastAsGood
  <2> QED  BY <2>1, ClampMonotone
<1> DEFINE Domains(c) == {i \in DOMAIN c.bindings : c.bindings[i].memoryDomain}
           local(c)   == {i \in DOMAIN c.bindings : c.locality.numa = 0
                                                    /\ c.bindings[i].memoryDomain}
<1>8. Cardinality(local(b)) >= Cardinality(local(w))
  <2>1. /\ Cardinality(Domains(b)) >= Cardinality(Domains(w))
        /\ b.locality.numa \in Nat /\ w.locality.numa \in Nat
        /\ b.locality.numa <= w.locality.numa
    BY CandidateNumbers DEF AtLeastAsGood
  <2>2. CASE w.locality.numa = 0
    <3>1. local(b) = Domains(b) /\ local(w) = Domains(w)
      BY <2>1, <2>2
    <3> QED  BY <2>1, <3>1
  <2>3. CASE w.locality.numa # 0
    <3>1. local(w) = {}
      BY <2>3
    <3>2. Cardinality(local(b)) \in Nat
      BY DomainsFinite
    <3> QED  BY <3>1, <3>2, FS_EmptySet
  <2> QED  BY <2>2, <2>3
<1> HIDE DEF Domains
<1> QED  BY <1>3, <1>4, <1>5, <1>6, <1>7, <1>8 DEF Rank, B, W

-----------------------------------------------------------------------------
(* The decision.                                                           *)

\* An eligible candidate is one that nothing speaks against.
LEMMA NoObjection ==
  ASSUME NEW d, NEW c, Eligible(d, c)
  PROVE  \A i \in 1..12 : ~Objections(d, c)[i].holds
<1> DEFINE objections == Objections(d, c)
           holding    == {i \in DOMAIN objections : objections[i].holds}
<1>1. /\ DOMAIN objections = 1..12
      /\ \A i \in 1..12 : objections[i].status # "ELIGIBLE"
  BY DEF Objections
<1>2. (IF holding = {} THEN "ELIGIBLE" ELSE objections[Min(holding)].status) = "ELIGIBLE"
  BY DEF Eligible, HardFilter
<1> HIDE DEF objections
<1>3. ASSUME holding # {}
      PROVE  FALSE
  BY <1>1, <1>2, <1>3, LeastElement
<1> QED  BY <1>1, <1>3 DEF objections

\* The saturating product is never below the exact one, except for the one
\* byte count that a word cannot hold.
LEMMA SaturatingSuffices ==
  ASSUME NEW a \in Nat, NEW b \in Nat, NEW v \in 0..(Word - 1), SaturatingMul(a, b) <= v
  PROVE  a * b <= v \/ v = Word - 1
<1>1. Word \in Nat /\ a * b \in Nat
  BY WidthAssumption
<1> QED  BY <1>1 DEF SaturatingMul

\* A candidate without objections can serve the demand.
LEMMA EligibleServes ==
  ASSUME NEW d \in Demands, NEW held \in Copies, NEW id \in DOMAIN held,
         Eligible(d, held[id])
  PROVE  Serves(held[id], d)
<1> DEFINE c   == held[id]
           cap == c.capacity
<1>1. \A i \in 1..12 : ~Objections(d, c)[i].holds
  BY NoObjection
<1>2. {d.minCount, d.vramPerDevice, d.aggregateVram, d.cpu, d.hostMemory,
       d.pinnedMemory, d.storage, d.bandwidth} \subseteq Nat
  BY DemandsAssumption
<1>3. /\ cap.vram \in 0..(Word - 1) /\ cap.cpu \in Nat /\ cap.hostMemory \in Nat
      /\ cap.pinnedMemory \in Nat /\ cap.storage \in Nat /\ cap.bandwidth \in Nat
  <2>1. c \in CandidateRecords
    BY CopiesAssumption
  <2>2. Words \subseteq Nat
    BY WidthAssumption DEF Words
  <2> HIDE DEF c
  <2>3. cap.vram \in Words
    BY <2>1 DEF CandidateRecords
  <2> QED  BY <2>1, <2>2, <2>3 DEF CandidateRecords, Words
<1> HIDE DEF c
<1>4. /\ ~Objections(d, c)[1].holds /\ ~Objections(d, c)[2].holds
      /\ ~Objections(d, c)[3].holds /\ ~Objections(d, c)[4].holds
      /\ ~Objections(d, c)[5].holds /\ ~Objections(d, c)[6].holds
      /\ ~Objections(d, c)[7].holds /\ ~Objections(d, c)[8].holds
      /\ ~Objections(d, c)[9].holds /\ ~Objections(d, c)[10].holds
      /\ ~Objections(d, c)[11].holds /\ ~Objections(d, c)[12].holds
  BY <1>1
<1>5. /\ d.minCount > 0 => /\ cap.provenance # "Unknown" /\ Capable(d, c)
                           /\ ~(cap.vram < RequiredVram(d))
      /\ c.health.provenance # "Unknown"
      /\ ~(cap.cpu < d.cpu) /\ ~(cap.hostMemory < d.hostMemory)
      /\ ~(cap.pinnedMemory < d.pinnedMemory) /\ ~(cap.storage < d.storage)
      /\ d.contiguous => cap.contiguous
      /\ d.requireNic => Networked(c) /\ ~(cap.bandwidth < d.bandwidth)
      /\ d.requireLocal => c.residency.stateLocal
      /\ d.topology # 0 => c.locality.topology = d.topology
      /\ c.health.ready /\ ~c.reservation.protected
      /\ d.dependenciesReady /\ c.allowed
  BY <1>4 DEF Objections
<1>6. AskedVram(d) <= cap.vram \/ cap.vram = Word - 1
  <2>1. CASE d.minCount = 0
    BY <2>1, <1>3 DEF AskedVram
  <2>2. CASE d.minCount > 0 /\ d.aggregateVram > 0
    BY <2>2, <1>2, <1>3, <1>5 DEF AskedVram, RequiredVram
  <2>3. CASE d.minCount > 0 /\ d.aggregateVram = 0
    <3>1. SaturatingMul(d.vramPerDevice, d.minCount) <= cap.vram
      <4>1. SaturatingMul(d.vramPerDevice, d.minCount) \in Int
        BY <1>2, WidthAssumption DEF SaturatingMul
      <4> QED  BY <4>1, <2>3, <1>2, <1>3, <1>5 DEF RequiredVram
    <3> QED  BY <3>1, <2>3, <1>2, <1>3, SaturatingSuffices DEF AskedVram
  <2> QED  BY <2>1, <2>2, <2>3, <1>2
<1>7. \A i \in DOMAIN c.bindings : c.bindings[i] \in ToSet(c.bindings)
  BY DEF ToSet
<1> QED  BY <1>2, <1>3, <1>5, <1>6, <1>7 DEF Serves, Capable, Networked, c

-----------------------------------------------------------------------------
(* Vectors.                                                                *)

\* A vector with each element once is as long as the set of its elements.
LEMMA CountedOnce ==
  ASSUME NEW n \in Nat, NEW f, NEW T, T = {f[i] : i \in 1..n},
         \A i, j \in 1..n : f[i] = f[j] => i = j
  PROVE  IsFiniteSet(T) /\ Cardinality(T) = n
<1> DEFINE g == [i \in 1..n |-> f[i]]
<1>1. g \in [1..n -> T] /\ \A t \in T : \E i \in 1..n : g[i] = t
  OBVIOUS
<1>2. \A i, j \in 1..n : g[i] = g[j] => i = j
  OBVIOUS
<1> HIDE DEF g
<1>3. g \in Bijection(1..n, T)
  BY <1>1, <1>2 DEF Bijection, Injection, Surjection, IsInjective
<1>4. ExistsBijection(1..n, T)
  BY <1>3 DEF ExistsBijection
<1> QED  BY <1>4, FS_NatBijection, FS_CountingElements

\* How many of n eligible candidates are in the plan.
Kept(n) == IF MaxFallback > 0 /\ MaxFallback < n - 1 THEN MaxFallback + 1 ELSE n

\* The plan is a beginning of the vector.
LEMMA ShortlistFacts ==
  ASSUME NEW S, NEW s \in Seq(S)
  PROVE  /\ Shortlist(s) \in Seq(S)
         /\ Len(Shortlist(s)) = Kept(Len(s))
         /\ Kept(Len(s)) \in 0..Len(s)
         /\ \A i \in 1..Kept(Len(s)) : Shortlist(s)[i] = s[i]
         /\ IsPrefix(Shortlist(s), s)
<1>1. PICK n \in Nat : n = Len(s)
  BY LenProperties
<1>2. PICK m \in 0..n : m = Kept(n)
  BY MaxFallbackAssumption DEF Kept
<1>3. Shortlist(s) = SubSeq(s, 1, m)
  BY <1>1, <1>2 DEF Shortlist, Kept
<1>4. \A i \in 1..m : s[i] \in S
  BY <1>1
<1>5. /\ SubSeq(s, 1, m) \in Seq(S) /\ Len(SubSeq(s, 1, m)) = m
      /\ \A i \in 1..m : SubSeq(s, 1, m)[i] = s[i]
  BY <1>4, SubSeqProperties
<1> DEFINE p == SubSeq(s, 1, m)
<1>6. SubSeq(p, 1, m) = p
  BY <1>5
<1>7. IsPrefix(p, s)
  BY <1>1, <1>5, <1>6 DEF IsPrefix
<1> QED  BY <1>1, <1>2, <1>3, <1>5, <1>7

-----------------------------------------------------------------------------
(* The inductive invariant.                                                *)

\* The ids that may stand in the plan.
Able == {id \in DOMAIN copy : Eligible(demand, copy[id])}

\* What the vector of rejections may hold.
Refusals == {[id |-> id, status |-> HardFilter(demand, copy[id])] : id \in DOMAIN copy}

SelTypes ==
  /\ copy \in Copies /\ demand \in Demands \cup {NoDemand}
  /\ phase \in {"idle", "filter", "sorted"}
  /\ todo \subseteq DOMAIN copy
  /\ eligible \in Seq(Able) /\ plan \in Seq(Able) /\ rejections \in Seq(Refusals)

\* Every id filtered is in one vector, once.
Filtered ==
  /\ demand # NoDemand => ToSet(eligible) = Able \ todo
                          /\ Rejected = (DOMAIN copy \ todo) \ Able
  /\ \A i, j \in 1..Len(eligible) : eligible[i] = eligible[j] => i = j
  /\ \A i, j \in 1..Len(rejections) : rejections[i].id = rejections[j].id => i = j

\* None precedes a better one.
Sorted(s) == \A i, j \in 1..Len(s) : i < j => ~Before(Ranked(s[j]), Ranked(s[i]))

Phases ==
  /\ phase # "filter" => todo = {} /\ Sorted(eligible)
  /\ phase # "idle" => plan = <<>> /\ demand # NoDemand
  /\ phase = "idle" => plan = Shortlist(eligible)
  /\ demand = NoDemand => eligible = <<>>

SelIInv == SelTypes /\ Filtered /\ Phases

\* Before the first call nothing is filtered, ranked or decided.
LEMMA SelInit == Init => SelIInv
<1> SUFFICES ASSUME Init PROVE SelIInv
  OBVIOUS
<1>1. /\ copy \in Copies /\ demand = NoDemand /\ todo = {} /\ eligible = <<>>
      /\ rejections = <<>> /\ plan = <<>> /\ phase = "idle"
  BY DEF Init
<1>2. Shortlist(<<>>) = <<>>
  <2>1. <<>> \in Seq({}) /\ Len(<<>>) = 0
    OBVIOUS
  <2>2. /\ Shortlist(<<>>) \in Seq({}) /\ Len(Shortlist(<<>>)) = Kept(0)
        /\ Kept(0) \in 0..0
    BY <2>1, ShortlistFacts
  <2>3. Len(Shortlist(<<>>)) = 0
    BY <2>2
  <2> QED  BY <2>2, <2>3
<1>3. SelTypes
  BY <1>1 DEF SelTypes
<1>4. Filtered
  BY <1>1 DEF Filtered
<1>5. Phases
  BY <1>1, <1>2 DEF Phases, Sorted
<1> QED  BY <1>3, <1>4, <1>5 DEF SelIInv

\* schedule begins: the vectors are empty and every id is still to be filtered.
LEMMA CallInv ==
  ASSUME SelIInv, NEW d \in Demands, Call(d)
  PROVE  SelIInv'
<1>1. /\ demand' = d /\ d # NoDemand /\ todo' = DOMAIN copy' /\ eligible' = <<>>
      /\ rejections' = <<>> /\ plan' = <<>> /\ phase' = "filter" /\ copy' = copy
  BY DemandsAssumption DEF Call
<1>2. SelTypes'
  BY <1>1 DEF SelIInv, SelTypes
<1>3. Filtered'
  <2>1. ToSet(eligible)' = {} /\ Rejected' = {}
    BY <1>1 DEF ToSet, Rejected
  <2>2. Able' \subseteq DOMAIN copy'
    BY DEF Able
  <2> QED  BY <1>1, <2>1, <2>2 DEF Filtered
<1>4. Phases'
  BY <1>1 DEF Phases
<1> QED  BY <1>2, <1>3, <1>4 DEF SelIInv

\* One candidate more is filtered.
LEMMA FilterInv ==
  ASSUME SelIInv, Filter
  PROVE  SelIInv'
<1>1. PICK id \in todo :
        /\ todo' = todo \ {id}
        /\ IF Eligible(demand, copy[id])
           THEN eligible' = Append(eligible, id) /\ UNCHANGED rejections
           ELSE /\ rejections' = Append(rejections,
                                 [id |-> id, status |-> HardFilter(demand, copy[id])])
                /\ UNCHANGED eligible
  BY DEF Filter
<1>2. phase = "filter" /\ UNCHANGED <<copy, demand, plan, phase>>
  BY DEF Filter
<1>3. UNCHANGED <<Able, Refusals>>
  BY <1>2 DEF Able, Refusals
<1>4. /\ demand # NoDemand /\ id \in DOMAIN copy
      /\ ToSet(eligible) = Able \ todo /\ Rejected = (DOMAIN copy \ todo) \ Able
  BY <1>2 DEF SelIInv, SelTypes, Filtered, Phases
<1>5. Phases'
  BY <1>2, <1>4 DEF SelIInv, Phases
<1>6. CASE Eligible(demand, copy[id])
  <2>1. id \in Able /\ eligible' = Append(eligible, id) /\ UNCHANGED <<rejections, Rejected>>
    BY <1>1, <1>4, <1>6 DEF Able, Rejected
  <2>2. /\ eligible' \in Seq(Able) /\ Len(eligible') = Len(eligible) + 1 /\ Len(eligible) \in Nat
        /\ \A i \in 1..Len(eligible) : eligible'[i] = eligible[i]
        /\ eligible'[Len(eligible) + 1] = id
    BY <2>1, AppendProperties DEF SelIInv, SelTypes
  <2>3. SelTypes'
    BY <1>1, <1>2, <1>3, <2>1, <2>2 DEF SelIInv, SelTypes
  <2>4. DOMAIN eligible = 1..Len(eligible) /\ DOMAIN eligible' = 1..Len(eligible')
    BY <2>2 DEF SelIInv, SelTypes
  <2>5. ToSet(eligible)' = ToSet(eligible) \cup {id}
    BY <2>2, <2>4 DEF ToSet
  <2>6. \A i \in 1..Len(eligible) : eligible[i] # id
    BY <1>4, <2>4 DEF ToSet
  <2>7. \A i, j \in 1..Len(eligible') : eligible'[i] = eligible'[j] => i = j
    <3>1. \A i \in 1..Len(eligible') : i \in 1..Len(eligible) \/ i = Len(eligible) + 1
      BY <2>2
    <3> QED  BY <2>2, <2>6, <3>1 DEF SelIInv, Filtered
  <2>8. Able \ todo' = (Able \ todo) \cup {id} /\ (DOMAIN copy \ todo') \ Able = (DOMAIN copy \ todo) \ Able
    BY <1>1, <1>4, <2>1
  <2>9. Filtered'
    BY <1>2, <1>3, <1>4, <2>1, <2>5, <2>7, <2>8 DEF SelIInv, Filtered
  <2> QED  BY <1>5, <2>3, <2>9 DEF SelIInv
<1>7. CASE ~Eligible(demand, copy[id])
  <2> DEFINE r == [id |-> id, status |-> HardFilter(demand, copy[id])]
  <2>1. /\ id \notin Able /\ rejections' = Append(rejections, r)
        /\ r \in Refusals /\ r.id = id /\ UNCHANGED <<eligible, ToSet(eligible)>>
    BY <1>1, <1>4, <1>7 DEF Able, Refusals
  <2> HIDE DEF r
  <2>2. /\ rejections' \in Seq(Refusals) /\ Len(rejections') = Len(rejections) + 1
        /\ Len(rejections) \in Nat
        /\ \A i \in 1..Len(rejections) : rejections'[i] = rejections[i]
        /\ rejections'[Len(rejections) + 1] = r
    BY <2>1, AppendProperties DEF SelIInv, SelTypes
  <2>3. SelTypes'
    BY <1>1, <1>2, <1>3, <2>1, <2>2 DEF SelIInv, SelTypes
  <2>4. DOMAIN rejections = 1..Len(rejections) /\ DOMAIN rejections' = 1..Len(rejections')
    BY <2>2 DEF SelIInv, SelTypes
  <2>5. Rejected' = Rejected \cup {id}
    BY <2>1, <2>2, <2>4 DEF Rejected
  <2>6. \A i \in 1..Len(rejections) : rejections[i].id # id
    BY <1>4, <2>4 DEF Rejected
  <2>7. \A i, j \in 1..Len(rejections') : rejections'[i].id = rejections'[j].id => i = j
    <3>1. \A i \in 1..Len(rejections') : i \in 1..Len(rejections) \/ i = Len(rejections) + 1
      BY <2>2
    <3> QED  BY <2>1, <2>2, <2>6, <3>1 DEF SelIInv, Filtered
  <2>8. Able \ todo' = Able \ todo
        /\ (DOMAIN copy \ todo') \ Able = ((DOMAIN copy \ todo) \ Able) \cup {id}
    BY <1>1, <1>4, <2>1
  <2>9. Filtered'
    BY <1>2, <1>3, <1>4, <2>1, <2>5, <2>7, <2>8 DEF SelIInv, Filtered
  <2> QED  BY <1>5, <2>3, <2>9 DEF SelIInv
<1> QED  BY <1>6, <1>7

\* std::sort: the same elements, each once.
LEMMA SortInv ==
  ASSUME SelIInv, Sort
  PROVE  SelIInv'
<1>1. /\ phase = "filter" /\ todo = {} /\ phase' = "sorted"
      /\ UNCHANGED <<copy, demand, todo, rejections, plan>>
      /\ eligible' \in Bijection(DOMAIN eligible, ToSet(eligible))
      /\ \A i, j \in DOMAIN eligible' :
           i < j => ~Before(Ranked(eligible'[j]), Ranked(eligible'[i]))
  BY DEF Sort
<1>2. UNCHANGED <<Able, Refusals, Rejected>>
  BY <1>1 DEF Able, Refusals, Rejected
<1>3. PICK n \in Nat : n = Len(eligible) /\ DOMAIN eligible = 1..n
  BY LenProperties DEF SelIInv, SelTypes
<1>4. /\ eligible' \in [1..n -> ToSet(eligible)]
      /\ \A t \in ToSet(eligible) : \E i \in 1..n : eligible'[i] = t
      /\ \A i, j \in 1..n : eligible'[i] = eligible'[j] => i = j
  BY <1>1, <1>3 DEF Bijection, Injection, Surjection, IsInjective
<1>5. ToSet(eligible) \subseteq Able
  BY <1>3 DEF SelIInv, SelTypes, ToSet
<1>6. eligible' \in Seq(Able) /\ Len(eligible') = n
  BY <1>4, <1>5
<1>7. ToSet(eligible)' = ToSet(eligible)
  BY <1>4 DEF ToSet
<1>8. SelTypes'
  BY <1>1, <1>2, <1>6 DEF SelIInv, SelTypes
<1>9. Filtered'
  BY <1>1, <1>2, <1>4, <1>6, <1>7 DEF SelIInv, Filtered
<1>10. Phases'
  <2>1. Sorted(eligible)'
    <3>1. DOMAIN eligible' = 1..n
      BY <1>4
    <3> QED  BY <1>1, <1>6, <3>1 DEF Sorted, Ranked
  <2> QED  BY <1>1, <2>1 DEF SelIInv, Phases
<1> QED  BY <1>8, <1>9, <1>10 DEF SelIInv

\* The plan is issued.
LEMMA IssueInv ==
  ASSUME SelIInv, Issue
  PROVE  SelIInv'
<1>1. /\ phase = "sorted" /\ phase' = "idle" /\ plan' = Shortlist(eligible)
      /\ UNCHANGED <<copy, demand, todo, eligible, rejections>>
  BY DEF Issue
<1>2. plan' \in Seq(Able)
  BY <1>1, ShortlistFacts DEF SelIInv, SelTypes
<1>3. SelTypes'
  BY <1>1, <1>2 DEF SelIInv, SelTypes, Able, Refusals
<1>4. Filtered'
  BY <1>1 DEF SelIInv, Filtered, Able, Rejected, ToSet
<1>5. Phases'
  BY <1>1 DEF SelIInv, Phases, Sorted, Ranked, Shortlist
<1> QED  BY <1>3, <1>4, <1>5 DEF SelIInv

\* Every section of a call keeps the invariant.
LEMMA SelStep == SelIInv /\ [Next]_vars => SelIInv'
<1> SUFFICES ASSUME SelIInv, [Next]_vars
             PROVE  SelIInv'
  OBVIOUS
<1>1. CASE UNCHANGED vars
  BY <1>1 DEF SelIInv, SelTypes, Filtered, Phases, Able, Refusals, Rejected, ToSet, Sorted,
     Ranked, Shortlist, vars
<1> QED  BY <1>1, CallInv, FilterInv, SortInv, IssueInv DEF Next

-----------------------------------------------------------------------------
(* What follows from it.                                                   *)

\* A decided plan serves the demand.
LEMMA SelSafe == SelIInv => WinnerServesDemand
<1> SUFFICES ASSUME SelIInv, Decided, NEW i \in DOMAIN plan
             PROVE  Serves(copy[plan[i]], demand)
  BY DEF WinnerServesDemand
<1>1. plan[i] \in Able /\ demand \in Demands
  BY DEF SelIInv, SelTypes, Decided
<1> QED  BY <1>1, EligibleServes DEF SelIInv, SelTypes, Able

\* How many ids are in each vector.
LEMMA Counts ==
  ASSUME SelIInv
  PROVE  /\ IsFiniteSet(ToSet(eligible)) /\ Cardinality(ToSet(eligible)) = Len(eligible)
         /\ IsFiniteSet(Rejected) /\ Cardinality(Rejected) = Len(rejections)
         /\ IsFiniteSet(DOMAIN copy) /\ IsFiniteSet(todo)
<1>1. PICK n \in Nat : n = Len(eligible) /\ DOMAIN eligible = 1..n
  BY LenProperties DEF SelIInv, SelTypes
<1>2. ToSet(eligible) = {eligible[i] : i \in 1..n}
  BY <1>1 DEF ToSet
<1>3. IsFiniteSet(ToSet(eligible)) /\ Cardinality(ToSet(eligible)) = Len(eligible)
  BY <1>1, <1>2, CountedOnce DEF SelIInv, Filtered
<1>4. PICK m \in Nat : m = Len(rejections) /\ DOMAIN rejections = 1..m
  BY LenProperties DEF SelIInv, SelTypes
<1> DEFINE ids == [i \in 1..m |-> rejections[i].id]
<1>5. Rejected = {ids[i] : i \in 1..m} /\ \A i, j \in 1..m : ids[i] = ids[j] => i = j
  BY <1>4 DEF Rejected, SelIInv, Filtered
<1> HIDE DEF ids
<1>6. IsFiniteSet(Rejected) /\ Cardinality(Rejected) = Len(rejections)
  BY <1>4, <1>5, CountedOnce
<1>7. IsFiniteSet(DOMAIN copy) /\ IsFiniteSet(todo)
  BY CopiesAssumption, FS_Subset DEF SelIInv, SelTypes
<1> QED  BY <1>3, <1>6, <1>7

\* Whatever left the loop was accepted or rejected, and was so once.
LEMMA SelAccounts == SelIInv => SelTypeOK
<1> SUFFICES ASSUME SelIInv PROVE SelTypeOK
  OBVIOUS
<1>1. /\ copy \in Copies /\ demand \in Demands \cup {NoDemand}
      /\ phase \in {"idle", "filter", "sorted"}
  BY DEF SelIInv, SelTypes
<1>2. /\ todo \subseteq DOMAIN copy /\ ToSet(eligible) \subseteq Able
      /\ ToSet(plan) \subseteq Able /\ Rejected \subseteq DOMAIN copy
      /\ Able \subseteq DOMAIN copy
  BY DEF SelIInv, SelTypes, ToSet, Rejected, Able, Refusals
<1>3. IsPrefix(plan, eligible)
  <2>1. CASE phase = "idle"
    BY <2>1, ShortlistFacts DEF SelIInv, SelTypes, Phases
  <2>2. CASE phase # "idle"
    <3>1. plan = <<>> /\ Len(eligible) \in Nat
      BY <2>2, LenProperties DEF SelIInv, SelTypes, Phases
    <3>2. SubSeq(<<>>, 1, 0) = SubSeq(eligible, 1, 0) /\ Len(<<>>) = 0
      OBVIOUS
    <3> QED  BY <3>1, <3>2 DEF IsPrefix
  <2> QED  BY <2>1, <2>2
<1>4. ASSUME demand # NoDemand
      PROVE  /\ todo \cup ToSet(eligible) \cup Rejected = DOMAIN copy
             /\ Cardinality(todo) + Len(eligible) + Len(rejections) = Cardinality(DOMAIN copy)
  <2>1. ToSet(eligible) = Able \ todo /\ Rejected = (DOMAIN copy \ todo) \ Able
    BY <1>4 DEF SelIInv, Filtered
  <2>2. todo \cup ToSet(eligible) \cup Rejected = DOMAIN copy
    BY <1>2, <2>1
  <2>3. todo \cap ToSet(eligible) = {} /\ (todo \cup ToSet(eligible)) \cap Rejected = {}
    BY <2>1
  <2>4. /\ IsFiniteSet(todo \cup ToSet(eligible))
        /\ Cardinality(todo \cup ToSet(eligible)) =
             Cardinality(todo) + Cardinality(ToSet(eligible)) - Cardinality({})
    BY <2>3, Counts, FS_Union
  <2>5. Cardinality((todo \cup ToSet(eligible)) \cup Rejected) =
          Cardinality(todo \cup ToSet(eligible)) + Cardinality(Rejected) - Cardinality({})
    BY <2>3, <2>4, Counts, FS_Union
  <2>6. /\ Cardinality({}) = 0 /\ Cardinality(todo) \in Nat
        /\ Cardinality(ToSet(eligible)) \in Nat /\ Cardinality(Rejected) \in Nat
    BY Counts, FS_EmptySet, FS_CardinalityType
  <2>7. /\ Cardinality(ToSet(eligible)) = Len(eligible)
        /\ Cardinality(Rejected) = Len(rejections)
    BY Counts
  <2> HIDE DEF Able
  <2> QED  BY <2>2, <2>4, <2>5, <2>6, <2>7
<1> QED  BY <1>1, <1>2, <1>3, <1>4 DEF SelTypeOK

\* The ranks of two candidates of the copy: comparable, and different.
LEMMA RankedNumbers ==
  ASSUME SelIInv, demand # NoDemand, NEW id \in DOMAIN copy
  PROVE  Ranked(id) \in RankRecords /\ Ranked(id).id = id
         /\ copy[id] \in CandidateRecords /\ demand \in Demands
<1>1. copy[id] \in CandidateRecords /\ copy[id].id = id /\ demand \in Demands
  BY CopiesAssumption DEF SelIInv, SelTypes
<1> QED  BY <1>1, RankNumbers DEF Ranked

\* The order and the cut that Sort and Issue leave put the best first.
LEMMA SelBest == SelIInv => BestFirst
<1> SUFFICES ASSUME SelIInv, Decided PROVE BestFirst
  BY DEF BestFirst
<1>1. /\ demand # NoDemand /\ todo = {} /\ Sorted(eligible) /\ plan = Shortlist(eligible)
      /\ ToSet(eligible) = Able
  BY DEF Decided, SelIInv, Filtered, Phases
<1>2. PICK n \in Nat : n = Len(eligible) /\ DOMAIN eligible = 1..n
  BY LenProperties DEF SelIInv, SelTypes
<1>3. PICK m \in 0..n : m = Kept(n) /\ Len(plan) = m /\ \A i \in 1..m : plan[i] = eligible[i]
  BY <1>1, <1>2, ShortlistFacts DEF SelIInv, SelTypes
<1>4. DOMAIN plan = 1..m
  BY <1>3 DEF SelIInv, SelTypes
<1>5. \A i \in 1..m : plan[i] \in Able
  BY <1>4 DEF SelIInv, SelTypes
<1>6. ASSUME NEW i \in 1..m, NEW id \in Able, id \notin {plan[j] : j \in 1..i}
      PROVE  Before(Ranked(plan[i]), Ranked(id))
  <2>1. PICK k \in 1..n : id = eligible[k]
    BY <1>1, <1>2 DEF ToSet
  <2>2. i < k
    <3>1. ~(k <= i)
      <4> SUFFICES ASSUME k <= i PROVE FALSE
        OBVIOUS
      <4>1. k \in 1..i /\ k \in 1..m
        OBVIOUS
      <4>2. plan[k] = id
        BY <1>3, <2>1, <4>1
      <4> QED  BY <1>6, <4>1, <4>2
    <3> QED  BY <3>1
  <2>3. i \in 1..n /\ plan[i] = eligible[i]
    BY <1>3
  <2>4. ~Before(Ranked(id), Ranked(plan[i]))
    BY <1>1, <1>2, <2>1, <2>2, <2>3 DEF Sorted
  <2>5. plan[i] # id
    BY <1>2, <2>1, <2>2, <2>3 DEF SelIInv, Filtered
  <2>6. plan[i] \in DOMAIN copy /\ id \in DOMAIN copy
    BY <1>5 DEF Able
  <2> QED  BY <1>1, <2>4, <2>5, <2>6, RankedNumbers, ComparatorOrders
<1>7. Len(plan) = IF MaxFallback > 0 THEN Min({Cardinality(Able), MaxFallback + 1})
                  ELSE Cardinality(Able)
  <2>1. Cardinality(Able) = n
    BY <1>1, <1>2, Counts
  <2>2. MaxFallback + 1 \in Int
    BY MaxFallbackAssumption
  <2>3. Min({n, MaxFallback + 1}) = IF n <= MaxFallback + 1 THEN n ELSE MaxFallback + 1
    BY <2>2, MinOfTwo
  <2> QED  BY <1>3, <2>1, <2>3, MaxFallbackAssumption DEF Kept
<1> QED  BY <1>4, <1>5, <1>6, <1>7 DEF BestFirst, Able

\* A candidate that is nowhere worse costs no more, so it sorts first.
LEMMA SelFair == SelIInv => AdvantageNeverLoses
<1> SUFFICES ASSUME SelIInv, Decided, NEW i \in DOMAIN eligible, NEW j \in DOMAIN eligible,
                    i < j, AtLeastAsGood(copy[eligible[j]], copy[eligible[i]])
             PROVE  /\ CostKey(Ranked(eligible[i])) = CostKey(Ranked(eligible[j]))
                    /\ eligible[i] < eligible[j]
  BY DEF AdvantageNeverLoses
<1> DEFINE w == eligible[i]
           b == eligible[j]
<1>1. demand # NoDemand /\ Sorted(eligible)
  BY DEF Decided, SelIInv, Phases
<1>2. i \in 1..Len(eligible) /\ j \in 1..Len(eligible) /\ w \in DOMAIN copy /\ b \in DOMAIN copy
  BY DEF SelIInv, SelTypes, Able
<1>3. w # b
  BY <1>2 DEF SelIInv, Filtered
<1>4. ~Before(Ranked(b), Ranked(w))
  BY <1>1, <1>2 DEF Sorted
<1> HIDE DEF w, b
<1>5. /\ Ranked(b) \in RankRecords /\ Ranked(w) \in RankRecords
      /\ Ranked(b).id = b /\ Ranked(w).id = w
  BY <1>1, <1>2, RankedNumbers
<1>6. /\ Ranked(b).score <= Ranked(w).score
      /\ Ranked(b).unknowns = Ranked(w).unknowns
      /\ Ranked(b).strength = Ranked(w).strength
      /\ Ranked(b).movement <= Ranked(w).movement
      /\ Ranked(b).headroom <= Ranked(w).headroom
      /\ Ranked(b).congestion <= Ranked(w).congestion
      /\ Ranked(b).local >= Ranked(w).local
  <2>1. copy[b] \in CandidateRecords /\ copy[w] \in CandidateRecords /\ demand \in Demands
    BY <1>1, <1>2, RankedNumbers
  <2>2. AtLeastAsGood(copy[b], copy[w])
    BY DEF b, w
  <2> QED  BY <2>1, <2>2, RankMonotone DEF Ranked
<1> DEFINE q == Ranked(b)
           r == Ranked(w)
<1> HIDE DEF q, r
<1>7. q \in RankRecords /\ r \in RankRecords /\ ~Before(q, r) /\ q.id = b /\ r.id = w
  BY <1>4, <1>5 DEF q, r
<1>8. /\ q.score = r.score /\ q.unknowns = r.unknowns /\ q.strength = r.strength
      /\ q.movement = r.movement /\ q.headroom = r.headroom
      /\ q.congestion = r.congestion /\ q.local = r.local /\ ~(q.id < r.id)
  <2>1. /\ q.score <= r.score /\ q.unknowns = r.unknowns /\ q.strength = r.strength
        /\ q.movement <= r.movement /\ q.headroom <= r.headroom
        /\ q.congestion <= r.congestion /\ q.local >= r.local
    BY <1>6 DEF q, r
  <2> QED  BY <1>7, <2>1, BeforeChain DEF RankRecords
<1>9. CostKey(q) = CostKey(r)
  BY <1>8 DEF CostKey, Key
<1>10. w < b
  BY <1>3, <1>7, <1>8 DEF RankRecords
<1> QED  BY <1>9, <1>10 DEF q, r, w, b

-----------------------------------------------------------------------------
(* Results.                                                                *)

\* schedule never selects, nor lists as a fallback, a candidate that lacks
\* what the demand asks for or whose evidence is unknown, for every set of
\* candidates, every demand and every word width.
THEOREM WinnerServes == Spec => []WinnerServesDemand
<1> QED  BY SelInit, SelStep, SelSafe, PTL DEF Spec

\* Every candidate schedule held is still to be filtered, eligible or rejected,
\* one of these and once, and the plan is the beginning of the eligible ones.
THEOREM EveryCandidateAccounted == Spec => []SelTypeOK
<1> QED  BY SelInit, SelStep, SelAccounts, PTL DEF Spec

\* The winner is strictly before every other eligible candidate and each
\* fallback before all that follow, whatever std::sort does with the order of
\* its input; the plan has as many as the policy allows.
THEOREM WinnerIsBest == Spec => []BestFirst
<1> QED  BY SelInit, SelStep, SelBest, PTL DEF Spec

\* No factor, weight or tie-break makes a candidate lose to one that is no
\* better in any respect (ranking.cpp).
THEOREM AdvantageKept == Spec => []AdvantageNeverLoses
<1> QED  BY SelInit, SelStep, SelFair, PTL DEF Spec

=============================================================================
