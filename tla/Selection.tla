----------------------------- MODULE Selection ------------------------------
(***************************************************************************)
(* How schedule decides (scheduler.cpp): every candidate of the copy is    *)
(* filtered in the order of the ids, the eligible ones are sorted, the     *)
(* first wins and the next ones are the plan's fallbacks.  The interleaving*)
(* of calls, and what becomes of a plan, is in Scheduler; there the winner *)
(* is any candidate, here it is the one the code picks.                    *)
(***************************************************************************)
EXTENDS Ranking, SequencesExt

CONSTANTS
  Copies,        \* the copies of the candidates: functions from ids
  Demands,       \* demands that callers submit
  NoDemand,
  MaxFallback    \* maxFallbackCandidates; 0 means no limit

ASSUME MaxFallbackAssumption == MaxFallback \in Nat

\* A copy is a map from ids to the candidates that bear them.
ASSUME CopiesAssumption ==
  \A held \in Copies :
    /\ IsFiniteSet(DOMAIN held)
    /\ \A id \in DOMAIN held : held[id] \in CandidateRecords /\ held[id].id = id

\* The quantities of a demand are unsigned.
ASSUME DemandsAssumption ==
  /\ NoDemand \notin Demands
  /\ \A d \in Demands :
       {d.minCount, d.vramPerDevice, d.aggregateVram, d.cpu, d.hostMemory,
        d.pinnedMemory, d.storage, d.bandwidth, d.maximumMovement} \subseteq Nat

VARIABLES
  copy,          \* the candidates held under the mutex at the call
  demand,        \* the demand being served
  todo,          \* ids not yet filtered
  eligible,      \* the vector of eligible candidates
  rejections,    \* the vector of rejected ones, with the status of each
  plan,          \* the winner, then its fallbacks
  phase

vars == <<copy, demand, todo, eligible, rejections, plan, phase>>

Ranked(id) == Rank(demand, copy[id])

Init ==
  /\ copy \in Copies
  /\ demand = NoDemand
  /\ todo = {}
  /\ eligible = <<>> /\ rejections = <<>> /\ plan = <<>>
  /\ phase = "idle"

\* schedule is called; a demand that is not valid throws.
Call(d) ==
  /\ phase = "idle"
  /\ Valid(d)
  /\ demand' = d
  /\ todo' = DOMAIN copy
  /\ eligible' = <<>> /\ rejections' = <<>> /\ plan' = <<>>
  /\ phase' = "filter"
  /\ UNCHANGED copy

\* Defect: a rejected candidate is not reported.
FilterUnreported ==
  /\ phase = "filter"
  /\ \E id \in todo :
       /\ \A other \in todo : id <= other
       /\ todo' = todo \ {id}
       /\ eligible' = IF Eligible(demand, copy[id]) THEN Append(eligible, id) ELSE eligible
  /\ UNCHANGED <<copy, demand, rejections, plan, phase>>

\* The next candidate of the copy, which is a map ordered by id.
Filter ==
  /\ phase = "filter"
  /\ \E id \in todo :
       /\ \A other \in todo : id <= other
       /\ todo' = todo \ {id}
       /\ IF Eligible(demand, copy[id])
          THEN eligible' = Append(eligible, id) /\ UNCHANGED rejections
          ELSE /\ rejections' = Append(rejections,
                                [id |-> id, status |-> HardFilter(demand, copy[id])])
               /\ UNCHANGED eligible
  /\ UNCHANGED <<copy, demand, plan, phase>>

\* std::sort: some arrangement in which none precedes a better one.
Sort ==
  /\ phase = "filter"
  /\ todo = {}
  /\ \E s \in Bijection(DOMAIN eligible, ToSet(eligible)) :
       /\ \A i, j \in DOMAIN s : i < j => ~Before(Ranked(s[j]), Ranked(s[i]))
       /\ eligible' = s
  /\ phase' = "sorted"
  /\ UNCHANGED <<copy, demand, todo, rejections, plan>>

\* The winner and at most MaxFallback fallbacks.
Shortlist(s) == SubSeq(s, 1, IF MaxFallback > 0 /\ MaxFallback < Len(s) - 1
                             THEN MaxFallback + 1 ELSE Len(s))

\* A plan, unless nothing is eligible.
Issue ==
  /\ phase = "sorted"
  /\ plan' = Shortlist(eligible)
  /\ phase' = "idle"
  /\ UNCHANGED <<copy, demand, todo, eligible, rejections>>

Next == (\E d \in Demands : Call(d)) \/ Filter \/ Sort \/ Issue

Spec == Init /\ [][Next]_vars

-----------------------------------------------------------------------------
Decided == phase = "idle" /\ demand # NoDemand

Rejected == {rejections[i].id : i \in DOMAIN rejections}

\* Types, and the bookkeeping a caller relies on to explain a decision: every
\* candidate is still to be filtered, eligible or rejected, exactly one of
\* these and exactly once.
SelTypeOK ==
  /\ copy \in Copies
  /\ demand \in Demands \cup {NoDemand}
  /\ phase \in {"idle", "filter", "sorted"}
  /\ {todo, ToSet(eligible), Rejected, ToSet(plan)} \subseteq SUBSET DOMAIN copy
  /\ IsPrefix(plan, eligible)
  /\ demand # NoDemand =>
       /\ todo \cup ToSet(eligible) \cup Rejected = DOMAIN copy
       /\ Cardinality(todo) + Len(eligible) + Len(rejections) = Cardinality(DOMAIN copy)

\* The VRAM a demand asks for, in numbers of any size.
AskedVram(d) ==
  IF d.minCount = 0 THEN 0
  ELSE IF d.aggregateVram > 0 THEN d.aggregateVram ELSE d.vramPerDevice * d.minCount

\* c has what d asks for, by arithmetic that does not overflow: a device of the
\* class whose capability is current, and the VRAM of all devices; processors,
\* memory and storage; contiguous memory; a network card with the bandwidth;
\* the state at hand; the topology.  It is fit, known to be, and nobody
\* protects or vetoes it.  (One such device is enough, whatever number is
\* wanted: the code does not count bindings.  And a candidate with every byte a
\* word can count passes for the one demand that asks for a byte more.)
Serves(c, d) ==
  LET cap   == c.capacity
      Bound == ToSet(c.bindings)
  IN /\ d.minCount > 0 =>
          /\ \E b \in Bound : b.capability = d.capability /\ b.current
          /\ AskedVram(d) <= cap.vram \/ cap.vram = Word - 1
          /\ cap.provenance # "Unknown"
     /\ d.cpu <= cap.cpu /\ d.hostMemory <= cap.hostMemory
     /\ d.pinnedMemory <= cap.pinnedMemory /\ d.storage <= cap.storage
     /\ d.contiguous => cap.contiguous
     /\ d.requireNic => (\E b \in Bound : b.nic) /\ d.bandwidth <= cap.bandwidth
     /\ d.requireLocal => c.residency.stateLocal
     /\ d.topology # 0 => c.locality.topology = d.topology
     /\ c.health.ready /\ c.health.provenance # "Unknown"
     /\ c.allowed /\ ~c.reservation.protected /\ d.dependenciesReady

\* The winner and every fallback serve the demand in each respect: a good score
\* never makes up for a hard constraint.  Whether the capacity is known is
\* asked only for demands with devices, UnknownCapacityNeverServes.
WinnerServesDemand ==
  Decided => \A i \in DOMAIN plan : Serves(copy[plan[i]], demand)

\* "a candidate with unknown capacity/health evidence is INSUFFICIENT_EVIDENCE"
\* (README.md), hence in no plan.  The code asks this of the capacity only when
\* the demand wants devices: processors, memory and storage are taken from
\* evidence of which nothing is known.
UnknownCapacityNeverServes ==
  Decided => \A i \in DOMAIN plan : copy[plan[i]].capacity.provenance # "Unknown"

\* The winner is strictly before every other eligible candidate, each fallback
\* before everything after it, whatever the sorting algorithm does with
\* elements it finds equal; and there is a winner exactly when something is
\* eligible, with the fallbacks the policy allows and no more.
BestFirst ==
  Decided =>
    LET able == {id \in DOMAIN copy : Eligible(demand, copy[id])}
        Earlier(i) == {plan[j] : j \in 1..i}
    IN /\ \A i \in DOMAIN plan :
            /\ plan[i] \in able
            /\ \A id \in able \ Earlier(i) : Before(Ranked(plan[i]), Ranked(id))
       /\ Len(plan) = IF MaxFallback > 0 THEN Min({Cardinality(able), MaxFallback + 1})
                      ELSE Cardinality(able)

\* b is at least as good as w in each item of evidence, known equally well.
AtLeastAsGood(b, w) ==
  LET Same(field) == b[field].provenance = w[field].provenance
  IN /\ \A field \in {"capacity", "health", "reservation", "congestion",
                      "locality", "communication", "residency"} : Same(field)
     /\ \A x \in {"vram", "vramTotal", "cpu", "hostMemory", "pinnedMemory"} :
          b.capacity[x] >= w.capacity[x]
     /\ \A x \in {"numa", "pcie", "nic", "storage"} : b.locality[x] <= w.locality[x]
     /\ b.locality.sharesRoot => w.locality.sharesRoot
     /\ b.health.score >= w.health.score
     /\ b.reservation.reserved <= w.reservation.reserved
     /\ b.congestion.level <= w.congestion.level
     /\ b.congestion.residual >= w.congestion.residual
     /\ b.communication.cost <= w.communication.cost
     /\ \A x \in {"model", "adapter", "stateLocal"} : w.residency[x] => b.residency[x]
     /\ b.residency.moveBytes <= w.residency.moveBytes
     /\ Cardinality({i \in DOMAIN b.bindings : b.bindings[i].memoryDomain})
          >= Cardinality({i \in DOMAIN w.bindings : w.bindings[i].memoryDomain})

\* A candidate never loses to one that is no better in any respect, unless the
\* two tie to the end and its id is larger: no factor, weight or tie-break
\* counts an advantage against the candidate that has it.
AdvantageNeverLoses ==
  Decided => \A i, j \in DOMAIN eligible :
    /\ i < j
    /\ AtLeastAsGood(copy[eligible[j]], copy[eligible[i]])
    => /\ CostKey(Ranked(eligible[i])) = CostKey(Ranked(eligible[j]))
       /\ eligible[i] < eligible[j]

=============================================================================
