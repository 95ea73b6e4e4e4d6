------------------------------ MODULE Records -------------------------------
(***************************************************************************)
(* The records that cross the wire and the state file: the structs of      *)
(* request.hpp, candidate.hpp, ranking.hpp, placement.hpp, persistence.hpp *)
(* and their enumerations.  A struct is the set of its fields, each with   *)
(* what it may hold; the fields of a struct inside it are its own,         *)
(* prefixed.  A list names the struct of its items.                        *)
(***************************************************************************)
EXTENDS Naturals, SequencesExt

-----------------------------------------------------------------------------
(* Enumerations, in the order that numbers them.                           *)

AcceleratorClass == <<"None", "Cuda", "Rocm", "Metal", "Vulkan", "NoneRequired">>

CommunicationPattern == <<"None", "PointToPoint", "AllReduce", "AllGather",
  "ReduceScatter", "AllToAll", "Broadcast", "Gather", "Scatter">>

LatencySensitivity == <<"Low", "Medium", "High", "Critical">>

LocalityKind == <<"Numa", "Pcie", "Nic", "Storage", "Topology">>

Provenance == <<"Measured", "Reported", "Derived", "Estimated", "Forecast",
  "Synthetic", "Unknown">>

ResourceKind == <<"Accelerator", "CpuCore", "HostMemory", "PinnedMemory", "Nic",
  "Storage", "LinkBandwidth", "ModelResidency">>

EligibilityStatus == <<"ELIGIBLE", "REJECT_CAPACITY", "REJECT_MEMORY",
  "REJECT_CONTIGUITY", "REJECT_CAPABILITY", "REJECT_HEALTH", "REJECT_TOPOLOGY",
  "REJECT_NUMA", "REJECT_PCIE", "REJECT_NETWORK", "REJECT_STORAGE",
  "REJECT_RESERVATION", "REJECT_DEPENDENCY", "REJECT_COMPATIBILITY",
  "REJECT_FAILURE_DOMAIN", "REJECT_POLICY", "REVALIDATION_REQUIRED",
  "INSUFFICIENT_EVIDENCE", "UNKNOWN">>

PlacementLifecycleState == <<"REQUESTED", "DISCOVERING", "FILTERING", "RANKING",
  "PLAN_READY", "AWAITING_RESOURCE_COMMIT", "COMMITTED", "AWAITING_EXECUTION",
  "ACTIVE", "REVALIDATION_REQUIRED", "SUPERSEDED", "CANCELLED", "FAILED", "RETIRED">>

\* kRankFactorOrder: all the kinds there are, numbered from 0.
RankFactorCount == 27

\* The number an enumerator has.
Ordinal(enum, name) == (CHOOSE i \in DOMAIN enum : enum[i] = name) - 1

-----------------------------------------------------------------------------
(* The structs: what each field may hold.                                  *)

Type(t, top, item) == [t |-> t, top |-> top, item |-> item]

IdT         == Type("word", 0, "none")    \* identities, generations, u64, bytes
CountT      == Type("count", 0, "none")   \* u32
IntT        == Type("int", 0, "none")
FlagT       == Type("flag", 0, "none")
RealT       == Type("real", 0, "none")
TextT       == Type("text", 0, "none")
EnumT(enum) == Type("enum", Len(enum) - 1, "none")
ListT(item) == Type("list", 0, item)

All(type, names) == {[name |-> x, type |-> type] : x \in names}

AcceleratorRequirement ==
  All(EnumT(AcceleratorClass), {"accelerator.capability"})
  \cup All(CountT, {"accelerator.minimumCount", "accelerator.targetCount",
                  "accelerator.maximumCount"})
  \cup All(IdT, {"accelerator.vramPerDevice", "accelerator.aggregateVram",
               "accelerator.capabilityGeneration"})
  \cup All(FlagT, {"accelerator.requiresContiguousMemory"})

MemoryStorageNetwork ==
  All(IdT, {"memory.hostMemory", "memory.pinnedMemory", "storage.capacity",
            "network.bandwidth"})
  \cup All(FlagT, {"storage.requireLocal", "network.requireNic"})

ResidencyRequirement ==
  All(FlagT, {"residency.requireModelResident", "residency.requireAdapterResident",
              "residency.requireStateLocal"})
  \cup All(TextT, {"residency.modelPath", "residency.adapterPath", "residency.statePath"})

FailureDomainConstraint ==
  All(CountT, {"failureDomains.minimumDistinctDomains"})
  \cup All(FlagT, {"failureDomains.avoidColocation", "failureDomains.avoidSingleRoot"})

DemandProfile ==
  All(IdT, {"demandId", "demandGeneration", "workloadId", "workloadGeneration",
            "requiredTopologyGeneration", "communicationBytes",
            "expectedExecutionDuration", "externalPriorityOrdinal", "sloGeneration",
            "policyGeneration", "priorityGeneration", "maximumMovementCost"})
  \cup AcceleratorRequirement \cup MemoryStorageNetwork \cup ResidencyRequirement
  \cup FailureDomainConstraint
  \cup All(CountT, {"cpuRequired"}) \cup All(IntT, {"externalPriority"})
  \cup All(EnumT(CommunicationPattern), {"communication"})
  \cup All(EnumT(LatencySensitivity), {"latencySensitivity"})
  \cup All(RealT, {"throughputObjective"})
  \cup All(ListT("locality"), {"fallbackLocalities"})
  \cup All(EnumT(Provenance), {"provenance"})

SchedulingRequest ==
  All(IdT, {"requestId", "generation", "coordinatorEpoch", "sourceId", "sourceBootId",
            "submitOrdinal"})
  \cup DemandProfile

DeviceBinding ==
  All(IdT, {"deviceId", "deviceGeneration", "resourceId", "resourceGeneration",
            "nodeId", "nodeGeneration", "memoryDomainId", "memoryDomainGeneration",
            "nicId", "nicGeneration", "storageId", "storageGeneration",
            "cpuDomainId", "cpuDomainGeneration", "capabilityGeneration"})
  \cup All(TextT, {"pcieRoot"}) \cup All(FlagT, {"sharesPcieRoot", "capabilityCurrent"})
  \cup All(EnumT(AcceleratorClass), {"capability"}) \cup All(IntT, {"cudaCompatibility"})

CapacityEvidence ==
  All(IdT, {"capacity.generation", "capacity.vramTotal", "capacity.vramUsed",
            "capacity.vramAvailable", "capacity.hostMemoryAvailable",
            "capacity.pinnedMemoryAvailable", "capacity.storageAvailable",
            "capacity.nicBandwidthAvailable"})
  \cup All(CountT, {"capacity.cpuAvailable"}) \cup All(FlagT, {"capacity.contiguousMemory"})
  \cup All(EnumT(Provenance), {"capacity.provenance"})

HealthEvidence ==
  All(IdT, {"health.generation"}) \cup All(FlagT, {"health.ready"})
  \cup All(RealT, {"health.healthScore"}) \cup All(TextT, {"health.degradationReason"})
  \cup All(EnumT(Provenance), {"health.provenance"})

ReservationEvidence ==
  All(IdT, {"reservation.generation", "reservation.reservedBytes"})
  \cup All(FlagT, {"reservation.protectedResource"})
  \cup All(TextT, {"reservation.reservationId"})
  \cup All(EnumT(Provenance), {"reservation.provenance"})

CongestionEvidence ==
  All(IdT, {"congestion.generation", "congestion.bandwidthNominal"})
  \cup All(RealT, {"congestion.congestion", "congestion.residualBandwidth"})
  \cup All(TextT, {"congestion.bottleneck"})
  \cup All(EnumT(Provenance), {"congestion.provenance"})

LocalityEvidence ==
  All(IdT, {"locality.topologyGeneration"})
  \cup All(CountT, {"locality.numaDistance", "locality.pcieHops", "locality.nicDistance",
                  "locality.storageDistance"})
  \cup All(FlagT, {"locality.sharesPcieRoot"}) \cup All(TextT, {"locality.topologyGroup"})
  \cup All(EnumT(Provenance), {"locality.provenance"})

CommunicationEvidence ==
  All(IdT, {"communication.planGeneration"})
  \cup All(RealT, {"communication.estimatedCost", "communication.derivedPathCost",
                 "communication.collectiveCost"})
  \cup All(FlagT, {"communication.pathFeasible"}) \cup All(TextT, {"communication.planId"})
  \cup All(EnumT(Provenance), {"communication.provenance"})

ResidencyEvidence ==
  All(IdT, {"residency.residencyGeneration", "residency.moveBytes"})
  \cup All(FlagT, {"residency.modelResident", "residency.adapterResident",
                 "residency.stateLocal"})
  \cup All(TextT, {"residency.moveSource"})
  \cup All(EnumT(Provenance), {"residency.provenance"})

CandidateIdentity ==
  All(IdT, {"candidateId", "candidateGeneration", "sourceId", "sourceBootId",
            "workerId", "workerBootId"})

Candidate ==
  CandidateIdentity \cup All(EnumT(Provenance), {"provenance"})
  \cup All(ListT("binding"), {"bindings"})
  \cup CapacityEvidence \cup HealthEvidence \cup ReservationEvidence \cup CongestionEvidence
  \cup LocalityEvidence \cup CommunicationEvidence \cup ResidencyEvidence
  \cup All(IdT, {"policyGeneration"}) \cup All(RealT, {"memoryMovementCost"})

ResourceClaim ==
  All(IdT, {"resourceId", "resourceGeneration", "amount"})
  \cup All(EnumT(ResourceKind), {"kind"}) \cup All(FlagT, {"provisional"})

RejectedAlternative ==
  All(IdT, {"candidateId", "candidateGeneration"})
  \cup All(EnumT(EligibilityStatus), {"status"}) \cup All(TextT, {"reason"})

RankFactor ==
  All(Type("enum", RankFactorCount - 1, "none"), {"kind"}) \cup All(RealT, {"value", "weight"})
  \cup All(EnumT(Provenance), {"provenance"}) \cup All(TextT, {"description"})

GenerationFingerprint ==
  All(IdT, {"generations.topology", "generations.capacity", "generations.reservation",
            "generations.congestion", "generations.capability", "generations.health",
            "generations.residency", "generations.communicationPlan",
            "generations.policy", "generations.resource", "generations.dependency",
            "generations.coordinatorEpoch"})

PlacementPlan ==
  All(IdT, {"planId", "planGeneration", "requestId", "requestGeneration",
            "selectedCandidate", "selectedCandidateGeneration", "communicationPlan",
            "movementBytes", "policyGeneration", "authorityGeneration",
            "coordinatorEpoch", "supersededBy"})
  \cup All(TextT, {"communicationPlanId", "movementSource", "supersessionReason"})
  \cup All(FlagT, {"residencyPrerequisite", "hasCommitmentEvidence"})
  \cup All(EnumT(PlacementLifecycleState), {"state"})
  \cup GenerationFingerprint
  \cup All(ListT("id"), {"fallbackCandidates"})
  \cup All(ListT("binding"), {"bindings"}) \cup All(ListT("claim"), {"claims"})
  \cup All(ListT("factor"), {"selectedFactors"})
  \cup All(ListT("rejected"), {"rejectedAlternatives"})
  \cup All(ListT("transition"), {"stateHistory"})

Persisted ==
  All(IdT, {"epoch", "authority", "nextPlanId", "nextSubmitOrdinal",
            "nextEventOrdinal", "ingestWatermark"})
  \cup All(ListT("request"), {"requests"}) \cup All(ListT("plan"), {"plans"})
  \cup All(ListT("identity"), {"candidateIdentities"})
  \cup All(ListT("reason"), {"supersessionHistory"})
  \cup All(ListT("id"), {"cancelledRequests"})

\* Every struct under the name the lists and the codec call it by.  The first
\* nine hold no list, the next three hold lists of these, the file of any.
Struct == [
  locality   |-> All(EnumT(LocalityKind), {"kind"}),
  id         |-> All(IdT, {"id"}),
  transition |-> All(EnumT(PlacementLifecycleState), {"state"}) \cup All(IdT, {"at"}),
  reason     |-> All(TextT, {"text"}),
  binding    |-> DeviceBinding,
  factor     |-> RankFactor,
  rejected   |-> RejectedAlternative,
  claim      |-> ResourceClaim,
  identity   |-> CandidateIdentity,
  request    |-> SchedulingRequest,
  candidate  |-> Candidate,
  plan       |-> PlacementPlan,
  file       |-> Persisted ]

Names(struct) == {field.name : field \in Struct[struct]}

-----------------------------------------------------------------------------
(* A value in memory remembers the field it was set in.  (An operator that *)
(* follows the nesting of records takes what holds of the items of a list  *)
(* as its parameter, and is used once for each level.)                     *)

Val(of, n) == [of |-> of, n |-> n]

IsSeq(s) == s \in Seq(Range(s))

Holds(Item(_, _), numbers, struct, rec) ==
  /\ rec = [f \in Names(struct) |-> rec[f]]
  /\ \A field \in Struct[struct] :
       IF field.type.t = "list"
       THEN /\ IsSeq(rec[field.name]) /\ Len(rec[field.name]) \in numbers
            /\ \A i \in DOMAIN rec[field.name] : Item(field.type.item, rec[field.name][i])
       ELSE rec[field.name] \in [of : {field.name}, n : numbers]

=============================================================================
