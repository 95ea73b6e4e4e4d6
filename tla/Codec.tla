------------------------------- MODULE Codec --------------------------------
(***************************************************************************)
(* The codec of persistence.cpp over the ByteWriter and ByteReader of      *)
(* coding.hpp: what is written of each record, what is read of it, and     *)
(* what the reader refuses.                                                *)
(*                                                                         *)
(* Writing and reading are separate code that must agree on the order, the *)
(* width and the meaning of some two hundred fields, and only the reader   *)
(* checks anything.  The writer of a record is here the sequence of its    *)
(* put calls, the reader the sequence of its get calls with the check that *)
(* follows each.  A value remembers the field it was set in, so that a     *)
(* record that comes back with two fields exchanged is not the one written.*)
(*                                                                         *)
(* A cell is what one put call appends: its width in bytes and its value.  *)
(* A buffer is cut between cells; a cut inside one fails the same check.   *)
(***************************************************************************)
EXTENDS Records, Eligibility

CONSTANTS
  MaxRecords,  \* kMaxRecords, the longest list a reader takes
  MaxString,   \* kMaxString, the longest string a reader takes
  MaxPayload,  \* kMaxPayload, the longest payload of a file, in cells
  MaxHorizon,  \* kMaxHorizon, the longest duration a demand may ask for
  NotFinite    \* a double that is an infinity or not a number

ASSUME CodecBoundsAssumption ==
  /\ {MaxRecords, MaxString, MaxPayload, MaxHorizon} \subseteq Nat \ {0}
  /\ NotFinite \in Nat \ {0, 1}

-----------------------------------------------------------------------------
(* Calls of ByteWriter and ByteReader.  A call names the field it is for.  *)

Unchecked == 100   \* more than the highest ordinal of any enumeration

Op(name, call, width, top, items) ==
  [name |-> name, call |-> call, width |-> width, top |-> top, items |-> items]

Each(call, width, names) ==
  [i \in DOMAIN names |-> Op(names[i], call, width, Unchecked, "none")]

U8(names)     == Each("fixed", 1, names)
Bool(names)   == Each("fixed", 1, names)
U16(names)    == Each("fixed", 2, names)
U32(names)    == Each("fixed", 4, names)
I32(names)    == Each("fixed", 4, names)
U64(names)    == Each("fixed", 8, names)
Id(names)     == Each("fixed", 8, names)
Double(names) == Each("fixed", 8, names)

\* A string's length and then its bytes; a list's length and then its items.
String(names)     == Each("string", 4, names)
List(name, items) == <<Op(name, "list", 4, Unchecked, items)>>

\* get_u8 (get_u16) followed by the check that the enumerator exists.
Enum(width, name, top) == <<Op(name, "fixed", width, top, "none")>>

-----------------------------------------------------------------------------
(* What is written; long records in stretches.                            *)

enc_accelerator ==
  Id(<<"demandId", "demandGeneration", "workloadId", "workloadGeneration",
       "accelerator.capabilityGeneration">>)
  \o U32(<<"accelerator.minimumCount", "accelerator.targetCount",
           "accelerator.maximumCount">>)
  \o U64(<<"accelerator.vramPerDevice", "accelerator.aggregateVram">>)
  \o Bool(<<"accelerator.requiresContiguousMemory">>) \o U8(<<"accelerator.capability">>)

enc_supply ==
  U32(<<"cpuRequired">>)
  \o U64(<<"memory.hostMemory", "memory.pinnedMemory", "storage.capacity">>)
  \o Bool(<<"storage.requireLocal">>) \o U64(<<"network.bandwidth">>)
  \o Bool(<<"network.requireNic">>) \o U8(<<"communication">>)
  \o U64(<<"communicationBytes">>)

enc_locality ==
  Bool(<<"residency.requireModelResident", "residency.requireAdapterResident",
            "residency.requireStateLocal">>)
  \o String(<<"residency.modelPath", "residency.adapterPath", "residency.statePath">>)
  \o U32(<<"failureDomains.minimumDistinctDomains">>)
  \o Bool(<<"failureDomains.avoidColocation", "failureDomains.avoidSingleRoot">>)

enc_terms ==
  U64(<<"expectedExecutionDuration">>) \o U8(<<"latencySensitivity">>)
  \o Double(<<"throughputObjective">>) \o I32(<<"externalPriority">>)
  \o U64(<<"externalPriorityOrdinal">>)
  \o Id(<<"sloGeneration", "policyGeneration", "priorityGeneration">>)
  \o U64(<<"maximumMovementCost">>)
  \o List("fallbackLocalities", "locality") \o U8(<<"provenance">>)

enc_demand == enc_accelerator \o enc_supply \o enc_locality \o enc_terms

enc_request ==
  Id(<<"requestId", "generation", "coordinatorEpoch", "sourceId", "sourceBootId">>)
  \o U64(<<"submitOrdinal">>) \o enc_demand

enc_binding ==
  Id(<<"deviceId", "deviceGeneration", "resourceId", "resourceGeneration", "nodeId",
       "nodeGeneration", "memoryDomainId", "memoryDomainGeneration", "nicId",
       "nicGeneration", "storageId", "storageGeneration", "cpuDomainId",
       "cpuDomainGeneration">>)
  \o String(<<"pcieRoot">>) \o Bool(<<"sharesPcieRoot">>) \o U8(<<"capability">>)
  \o I32(<<"cudaCompatibility">>) \o Bool(<<"capabilityCurrent">>)
  \o Id(<<"capabilityGeneration">>)

enc_factor ==
  U16(<<"kind">>) \o Double(<<"value", "weight">>) \o U8(<<"provenance">>)
  \o String(<<"description">>)

enc_rejected ==
  Id(<<"candidateId", "candidateGeneration">>) \o U8(<<"status">>) \o String(<<"reason">>)

enc_claim ==
  Id(<<"resourceId", "resourceGeneration">>) \o U8(<<"kind">>) \o U64(<<"amount">>)
  \o Bool(<<"provisional">>)

enc_fingerprint ==
  Id(<<"generations.topology", "generations.capacity", "generations.reservation",
       "generations.congestion", "generations.capability", "generations.health",
       "generations.residency", "generations.communicationPlan", "generations.policy",
       "generations.resource", "generations.dependency", "generations.coordinatorEpoch">>)

enc_choice ==
  Id(<<"planId", "planGeneration", "requestId", "requestGeneration",
       "selectedCandidate", "selectedCandidateGeneration">>)
  \o List("fallbackCandidates", "id")
  \o List("bindings", "binding") \o List("claims", "claim")

enc_movement ==
  Id(<<"communicationPlan">>) \o String(<<"communicationPlanId">>)
  \o U64(<<"movementBytes">>) \o String(<<"movementSource">>)
  \o Bool(<<"residencyPrerequisite">>)
  \o List("selectedFactors", "factor")
  \o List("rejectedAlternatives", "rejected")

enc_standing ==
  enc_fingerprint \o Id(<<"policyGeneration", "authorityGeneration">>)
  \o U8(<<"state">>)
  \o List("stateHistory", "transition")
  \o Id(<<"coordinatorEpoch", "supersededBy">>) \o String(<<"supersessionReason">>)
  \o Bool(<<"hasCommitmentEvidence">>)

enc_plan == enc_choice \o enc_movement \o enc_standing

enc_candidate_id ==
  Id(<<"candidateId", "candidateGeneration", "sourceId", "sourceBootId", "workerId",
       "workerBootId">>)

enc_origin ==
  Id(<<"candidateId", "candidateGeneration", "sourceId", "sourceBootId", "workerId",
       "workerBootId">>)
  \o U8(<<"provenance">>) \o List("bindings", "binding")

enc_capacity ==
  Id(<<"capacity.generation">>)
  \o U64(<<"capacity.vramTotal", "capacity.vramUsed", "capacity.vramAvailable",
           "capacity.hostMemoryAvailable", "capacity.pinnedMemoryAvailable">>)
  \o U32(<<"capacity.cpuAvailable">>)
  \o U64(<<"capacity.storageAvailable", "capacity.nicBandwidthAvailable">>)
  \o Bool(<<"capacity.contiguousMemory">>) \o U8(<<"capacity.provenance">>)

enc_health ==
  Id(<<"health.generation">>) \o Bool(<<"health.ready">>)
  \o Double(<<"health.healthScore">>) \o String(<<"health.degradationReason">>)
  \o U8(<<"health.provenance">>)

enc_reservation ==
  Id(<<"reservation.generation">>) \o Bool(<<"reservation.protectedResource">>)
  \o U64(<<"reservation.reservedBytes">>) \o String(<<"reservation.reservationId">>)
  \o U8(<<"reservation.provenance">>)

enc_congestion ==
  Id(<<"congestion.generation">>)
  \o Double(<<"congestion.congestion", "congestion.residualBandwidth">>)
  \o U64(<<"congestion.bandwidthNominal">>) \o String(<<"congestion.bottleneck">>)
  \o U8(<<"congestion.provenance">>)

enc_paths ==
  Id(<<"locality.topologyGeneration">>)
  \o U32(<<"locality.numaDistance", "locality.pcieHops">>)
  \o Bool(<<"locality.sharesPcieRoot">>)
  \o U32(<<"locality.nicDistance", "locality.storageDistance">>)
  \o String(<<"locality.topologyGroup">>) \o U8(<<"locality.provenance">>)

enc_communication ==
  Id(<<"communication.planGeneration">>)
  \o Double(<<"communication.estimatedCost", "communication.derivedPathCost",
              "communication.collectiveCost">>)
  \o Bool(<<"communication.pathFeasible">>) \o String(<<"communication.planId">>)
  \o U8(<<"communication.provenance">>)

enc_residency ==
  Id(<<"residency.residencyGeneration">>)
  \o Bool(<<"residency.modelResident", "residency.adapterResident",
            "residency.stateLocal">>)
  \o U64(<<"residency.moveBytes">>) \o String(<<"residency.moveSource">>)
  \o U8(<<"residency.provenance">>)

enc_policy ==
  Id(<<"policyGeneration">>) \o Double(<<"memoryMovementCost">>)

encode_candidate_record ==
  enc_origin \o enc_capacity \o enc_health \o enc_reservation \o enc_congestion
  \o enc_paths \o enc_communication \o enc_residency \o enc_policy

\* The payload of the state file.
enc_payload ==
  Id(<<"epoch", "authority">>)
  \o U64(<<"nextPlanId", "nextSubmitOrdinal", "nextEventOrdinal", "ingestWatermark">>)
  \o List("requests", "request") \o List("plans", "plan")
  \o List("candidateIdentities", "identity")
  \o List("supersessionHistory", "reason")
  \o List("cancelledRequests", "id")

-----------------------------------------------------------------------------
(* What is read, with the bound each enumerator is checked against.        *)

dec_provenance(name) == Enum(1, name, Ordinal(Provenance, "Unknown"))

dec_accelerator ==
  Id(<<"demandId", "demandGeneration", "workloadId", "workloadGeneration",
       "accelerator.capabilityGeneration">>)
  \o U32(<<"accelerator.minimumCount", "accelerator.targetCount",
           "accelerator.maximumCount">>)
  \o U64(<<"accelerator.vramPerDevice", "accelerator.aggregateVram">>)
  \o Bool(<<"accelerator.requiresContiguousMemory">>)
  \o Enum(1, "accelerator.capability", Ordinal(AcceleratorClass, "NoneRequired"))

dec_supply ==
  U32(<<"cpuRequired">>)
  \o U64(<<"memory.hostMemory", "memory.pinnedMemory", "storage.capacity">>)
  \o Bool(<<"storage.requireLocal">>) \o U64(<<"network.bandwidth">>)
  \o Bool(<<"network.requireNic">>)
  \o Enum(1, "communication", Ordinal(CommunicationPattern, "Scatter"))
  \o U64(<<"communicationBytes">>)

dec_locality ==
  Bool(<<"residency.requireModelResident", "residency.requireAdapterResident",
            "residency.requireStateLocal">>)
  \o String(<<"residency.modelPath", "residency.adapterPath", "residency.statePath">>)
  \o U32(<<"failureDomains.minimumDistinctDomains">>)
  \o Bool(<<"failureDomains.avoidColocation", "failureDomains.avoidSingleRoot">>)

dec_terms ==
  U64(<<"expectedExecutionDuration">>)
  \o Enum(1, "latencySensitivity", Ordinal(LatencySensitivity, "Critical"))
  \o Double(<<"throughputObjective">>) \o I32(<<"externalPriority">>)
  \o U64(<<"externalPriorityOrdinal">>)
  \o Id(<<"sloGeneration", "policyGeneration", "priorityGeneration">>)
  \o U64(<<"maximumMovementCost">>)
  \o List("fallbackLocalities", "locality")
  \o dec_provenance("provenance")

dec_demand == dec_accelerator \o dec_supply \o dec_locality \o dec_terms

dec_request ==
  Id(<<"requestId", "generation", "coordinatorEpoch", "sourceId", "sourceBootId">>)
  \o U64(<<"submitOrdinal">>) \o dec_demand

dec_binding ==
  Id(<<"deviceId", "deviceGeneration", "resourceId", "resourceGeneration", "nodeId",
       "nodeGeneration", "memoryDomainId", "memoryDomainGeneration", "nicId",
       "nicGeneration", "storageId", "storageGeneration", "cpuDomainId",
       "cpuDomainGeneration">>)
  \o String(<<"pcieRoot">>) \o Bool(<<"sharesPcieRoot">>)
  \o Enum(1, "capability", Ordinal(AcceleratorClass, "NoneRequired"))
  \o I32(<<"cudaCompatibility">>) \o Bool(<<"capabilityCurrent">>)
  \o Id(<<"capabilityGeneration">>)

\* is_valid_factor: the kind has a place among the RankFactorCount of them.
dec_factor ==
  Enum(2, "kind", RankFactorCount - 1) \o Double(<<"value", "weight">>)
  \o dec_provenance("provenance") \o String(<<"description">>)

dec_rejected ==
  Id(<<"candidateId", "candidateGeneration">>)
  \o Enum(1, "status", Ordinal(EligibilityStatus, "UNKNOWN")) \o String(<<"reason">>)

dec_claim ==
  Id(<<"resourceId", "resourceGeneration">>)
  \o Enum(1, "kind", Ordinal(ResourceKind, "ModelResidency")) \o U64(<<"amount">>)
  \o Bool(<<"provisional">>)

\* Defect: two generations exchanged.
dec_fingerprint_exchanged ==
  Id(<<"generations.topology", "generations.capacity", "generations.reservation",
       "generations.congestion", "generations.health", "generations.capability",
       "generations.residency", "generations.communicationPlan", "generations.policy",
       "generations.resource", "generations.dependency", "generations.coordinatorEpoch">>)

dec_fingerprint ==
  Id(<<"generations.topology", "generations.capacity", "generations.reservation",
       "generations.congestion", "generations.capability", "generations.health",
       "generations.residency", "generations.communicationPlan", "generations.policy",
       "generations.resource", "generations.dependency", "generations.coordinatorEpoch">>)

dec_state == Enum(1, "state", Ordinal(PlacementLifecycleState, "RETIRED"))

dec_choice ==
  Id(<<"planId", "planGeneration", "requestId", "requestGeneration",
       "selectedCandidate", "selectedCandidateGeneration">>)
  \o List("fallbackCandidates", "id")
  \o List("bindings", "binding") \o List("claims", "claim")

dec_movement ==
  Id(<<"communicationPlan">>) \o String(<<"communicationPlanId">>)
  \o U64(<<"movementBytes">>) \o String(<<"movementSource">>)
  \o Bool(<<"residencyPrerequisite">>)
  \o List("selectedFactors", "factor")
  \o List("rejectedAlternatives", "rejected")

dec_standing ==
  dec_fingerprint \o Id(<<"policyGeneration", "authorityGeneration">>)
  \o dec_state \o List("stateHistory", "transition")
  \o Id(<<"coordinatorEpoch", "supersededBy">>) \o String(<<"supersessionReason">>)
  \o Bool(<<"hasCommitmentEvidence">>)

dec_plan == dec_choice \o dec_movement \o dec_standing

dec_candidate_id ==
  Id(<<"candidateId", "candidateGeneration", "sourceId", "sourceBootId", "workerId",
       "workerBootId">>)

dec_origin ==
  Id(<<"candidateId", "candidateGeneration", "sourceId", "sourceBootId", "workerId",
       "workerBootId">>)
  \o dec_provenance("provenance") \o List("bindings", "binding")

dec_capacity ==
  Id(<<"capacity.generation">>)
  \o U64(<<"capacity.vramTotal", "capacity.vramUsed", "capacity.vramAvailable",
           "capacity.hostMemoryAvailable", "capacity.pinnedMemoryAvailable">>)
  \o U32(<<"capacity.cpuAvailable">>)
  \o U64(<<"capacity.storageAvailable", "capacity.nicBandwidthAvailable">>)
  \o Bool(<<"capacity.contiguousMemory">>) \o dec_provenance("capacity.provenance")

dec_health ==
  Id(<<"health.generation">>) \o Bool(<<"health.ready">>)
  \o Double(<<"health.healthScore">>) \o String(<<"health.degradationReason">>)
  \o dec_provenance("health.provenance")

dec_reservation ==
  Id(<<"reservation.generation">>) \o Bool(<<"reservation.protectedResource">>)
  \o U64(<<"reservation.reservedBytes">>) \o String(<<"reservation.reservationId">>)
  \o dec_provenance("reservation.provenance")

dec_congestion ==
  Id(<<"congestion.generation">>)
  \o Double(<<"congestion.congestion", "congestion.residualBandwidth">>)
  \o U64(<<"congestion.bandwidthNominal">>) \o String(<<"congestion.bottleneck">>)
  \o dec_provenance("congestion.provenance")

dec_paths ==
  Id(<<"locality.topologyGeneration">>)
  \o U32(<<"locality.numaDistance", "locality.pcieHops">>)
  \o Bool(<<"locality.sharesPcieRoot">>)
  \o U32(<<"locality.nicDistance", "locality.storageDistance">>)
  \o String(<<"locality.topologyGroup">>) \o dec_provenance("locality.provenance")

dec_communication ==
  Id(<<"communication.planGeneration">>)
  \o Double(<<"communication.estimatedCost", "communication.derivedPathCost",
              "communication.collectiveCost">>)
  \o Bool(<<"communication.pathFeasible">>) \o String(<<"communication.planId">>)
  \o dec_provenance("communication.provenance")

dec_residency ==
  Id(<<"residency.residencyGeneration">>)
  \o Bool(<<"residency.modelResident", "residency.adapterResident",
            "residency.stateLocal">>)
  \o U64(<<"residency.moveBytes">>) \o String(<<"residency.moveSource">>)
  \o dec_provenance("residency.provenance")

dec_policy ==
  Id(<<"policyGeneration">>) \o Double(<<"memoryMovementCost">>)

decode_candidate_record ==
  dec_origin \o dec_capacity \o dec_health \o dec_reservation \o dec_congestion
  \o dec_paths \o dec_communication \o dec_residency \o dec_policy

dec_payload ==
  Id(<<"epoch", "authority">>)
  \o U64(<<"nextPlanId", "nextSubmitOrdinal", "nextEventOrdinal", "ingestWatermark">>)
  \o List("requests", "request") \o List("plans", "plan")
  \o List("candidateIdentities", "identity")
  \o List("supersessionHistory", "reason")
  \o List("cancelledRequests", "id")

-----------------------------------------------------------------------------
(* The two sides, by the name of the struct.                               *)

Enc == [
  locality   |-> U8(<<"kind">>),
  id         |-> Id(<<"id">>),
  transition |-> U8(<<"state">>) \o U64(<<"at">>),
  reason     |-> String(<<"text">>),
  binding    |-> enc_binding,
  factor     |-> enc_factor,
  rejected   |-> enc_rejected,
  claim      |-> enc_claim,
  identity   |-> enc_candidate_id,
  request    |-> enc_request,
  candidate  |-> encode_candidate_record,
  plan       |-> enc_plan,
  file       |-> enc_payload ]

Dec == [
  locality   |-> Enum(1, "kind", Ordinal(LocalityKind, "Topology")),
  id         |-> Id(<<"id">>),
  transition |-> dec_state \o U64(<<"at">>),
  reason     |-> String(<<"text">>),
  binding    |-> dec_binding,
  factor     |-> dec_factor,
  rejected   |-> dec_rejected,
  claim      |-> dec_claim,
  identity   |-> dec_candidate_id,
  request    |-> dec_request,
  candidate  |-> decode_candidate_record,
  plan       |-> dec_plan,
  file       |-> dec_payload ]

-----------------------------------------------------------------------------
(* Writing.                                                                *)

Cell(width, of, n) == [width |-> width, of |-> of, n |-> n]

\* A string is as long as its value says; there is no bound on this side.
WriteField(Item(_, _), op, v) ==
  CASE op.call = "list"   -> <<Cell(4, op.name, Len(v))>>
                             \o FlattenSeq([i \in DOMAIN v |-> Item(op.items, v[i])])
    [] op.call = "string" -> <<Cell(4, v.of, v.n), Cell(v.n, v.of, v.n)>>
    [] op.call = "fixed"  -> <<Cell(op.width, v.of, v.n)>>

WriteWith(Item(_, _), struct, rec) ==
  FlattenSeq([i \in DOMAIN Enc[struct] |->
                WriteField(Item, Enc[struct][i], rec[Enc[struct][i].name])])

\* Records nest three deep: a file, its plans, their bindings.
WriteItem(struct, rec)   == WriteWith(LAMBDA s, r : <<>>, struct, rec)
WriteRecord(struct, rec) == WriteWith(WriteItem, struct, rec)
Write(struct, rec)       == WriteWith(WriteRecord, struct, rec)

-----------------------------------------------------------------------------
(* Reading: what a call makes of the cells from a position on.             *)

Refused == [ok |-> FALSE, value |-> <<>>, pos |-> 0]

Got(value, pos) == [ok |-> TRUE, value |-> value, pos |-> pos]

\* require: the bytes are there.  (The writer's cell has the width asked for,
\* or writer and reader have lost each other.)
Require(cells, pos, width) == pos \in DOMAIN cells /\ cells[pos].width = width

Value(cell) == Val(cell.of, cell.n)

GetString(cells, pos) ==
  IF /\ Require(cells, pos, 4) /\ cells[pos].n <= MaxString
     /\ Require(cells, pos + 1, cells[pos].n)
  THEN Got(Value(cells[pos]), pos + 2) ELSE Refused

\* Defect: what is missing reads as zero.
GetFixedOrZero(op, cells, pos) ==
  IF pos \notin DOMAIN cells THEN Got(Val(op.name, 0), pos)
  ELSE IF Require(cells, pos, op.width) /\ (op.top # Unchecked => cells[pos].n <= op.top)
  THEN Got(Value(cells[pos]), pos + 1) ELSE Refused

GetFixed(op, cells, pos) ==
  IF Require(cells, pos, op.width) /\ (op.top # Unchecked => cells[pos].n <= op.top)
  THEN Got(Value(cells[pos]), pos + 1) ELSE Refused

\* Defect: the count is taken as it is.
AnyLength(cells, pos) == Require(cells, pos, 4)

\* read_checked_len.
LengthOk(cells, pos) == Require(cells, pos, 4) /\ cells[pos].n <= MaxRecords

\* Calls one after the other, each from where the one before it stopped; the
\* first that throws ends the reading.
InOrder(calls, pos) ==
  LET done[i \in 0..Len(calls)] ==
        IF i = 0 THEN Got(<<>>, pos)
        ELSE LET before == done[i - 1]
                 one    == calls[i][before.pos]
             IN IF before.ok /\ one.ok THEN Got(Append(before.value, one.value), one.pos)
                ELSE Refused
  IN done[Len(calls)]

\* DemandProfile::validate over the record as it was read.
ValidDemand(d) ==
  Valid([ minCount        |-> d["accelerator.minimumCount"].n,
          maxCount        |-> d["accelerator.maximumCount"].n,
          targetCount     |-> d["accelerator.targetCount"].n,
          capability      |-> AcceleratorClass[d["accelerator.capability"].n + 1],
          vramPerDevice   |-> d["accelerator.vramPerDevice"].n,
          aggregateVram   |-> d["accelerator.aggregateVram"].n,
          hostMemory      |-> d["memory.hostMemory"].n,
          pinnedMemory    |-> d["memory.pinnedMemory"].n,
          storage         |-> d["storage.capacity"].n,
          bandwidth       |-> d["network.bandwidth"].n,
          maximumMovement |-> d["maximumMovementCost"].n,
          wellFormed      |->
            /\ d["communicationBytes"].n <= MaxBytes
            /\ d["expectedExecutionDuration"].n <= MaxHorizon
            /\ d["throughputObjective"].n # NotFinite
            /\ IsInjective(d["fallbackLocalities"])
            /\ \A f \in {"workloadId", "demandId", "workloadGeneration",
                         "demandGeneration"} : d[f].n # 0 ])

\* The check that ends the reading of a record.
Passes(struct, rec) ==
  CASE struct = "request" -> ValidDemand(rec)
    [] struct = "factor"  -> rec["value"].n # NotFinite
    [] OTHER              -> TRUE

\* items is what reads each struct a list may hold, from each position.
ReadField(items, op, cells, pos) ==
  CASE op.call = "list"   -> IF LengthOk(cells, pos)
                             THEN InOrder([i \in 1..cells[pos].n |-> items[op.items]], pos + 1)
                             ELSE Refused
    [] op.call = "string" -> GetString(cells, pos)
    [] op.call = "fixed"  -> GetFixed(op, cells, pos)

\* A new record with the values read, in the order of the calls, set in it;
\* a field no call reads keeps its initial value.
Assigned(struct, values) ==
  LET setBy(f) == {i \in DOMAIN Dec[struct] : Dec[struct][i].name = f}
  IN [f \in Names(struct) |-> IF setBy(f) = {} THEN Val(f, 0)
                              ELSE values[CHOOSE i \in setBy(f) : TRUE]]

\* Defect: a record that fails its check is left with the caller.
ReadKeepsRefused(items, struct, cells, pos) ==
  LET all == InOrder([i \in DOMAIN Dec[struct] |->
                        [p \in Nat |-> ReadField(items, Dec[struct][i], cells, p)]], pos)
  IN IF ~all.ok THEN Refused
     ELSE LET rec == Assigned(struct, all.value)
          IN IF Passes(struct, rec) THEN Got(rec, all.pos)
             ELSE [ok |-> FALSE, value |-> rec, pos |-> 0]

ReadWith(items, struct, cells, pos) ==
  LET all == InOrder([i \in DOMAIN Dec[struct] |->
                        [p \in Nat |-> ReadField(items, Dec[struct][i], cells, p)]], pos)
      rec == Assigned(struct, all.value)
  IN IF all.ok /\ Passes(struct, rec) THEN Got(rec, all.pos) ELSE Refused

Reader(items, cells) ==
  [struct \in DOMAIN Dec |-> [pos \in Nat |-> ReadWith(items, struct, cells, pos)]]

ItemReader(cells)   == Reader(<<>>, cells)
RecordReader(cells) == Reader(ItemReader(cells), cells)

Read(struct, cells, pos) == ReadWith(RecordReader(cells), struct, cells, pos)

=============================================================================
