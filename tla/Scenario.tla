------------------------------ MODULE Scenario ------------------------------
(***************************************************************************)
(* The machines the reference workers describe (worker_main.cpp and        *)
(* cuda_worker_main.cpp) and the demand of the worker-death driver, as     *)
(* the records Eligibility and Ranking look at.  Bytes are in units of     *)
(* 64 MiB, doubles in units of 1/One.                                      *)
(***************************************************************************)
EXTENDS Ranking

MiB(n) == n \div 64
GiB(n) == n * 16

\* The device's memory and what is free of it, which the probe reports.
CudaTotal == GiB(32)
CudaFree  == GiB(30)

Binding == [capability |-> "CUDA", current |-> TRUE, nic |-> TRUE, memoryDomain |-> TRUE]

\* Fields both workers leave alike.
Machine(id, capacity, health, locality, cost, congestion, residency) ==
  [ id            |-> id,
    bindings      |-> <<Binding>>,
    capacity      |-> capacity,
    health        |-> health,
    reservation   |-> [protected |-> FALSE, reserved |-> 0, provenance |-> "Reported"],
    congestion    |-> congestion,
    locality      |-> locality,
    communication |-> [cost |-> cost, provenance |-> "Derived"],
    residency     |-> residency,
    allowed       |-> TRUE ]

\* worker_main: A is near, B is far, A2 is near and congested.
make_scenario_candidate(id, mode) ==
  LET Far(far, near) == IF mode = "B" THEN far ELSE near
  IN Machine(id,
       [vram |-> Far(GiB(8), GiB(16)), vramTotal |-> GiB(16), cpu |-> 8,
        hostMemory |-> GiB(16), pinnedMemory |-> GiB(4), storage |-> GiB(128),
        bandwidth |-> GiB(400), contiguous |-> TRUE, provenance |-> "Measured"],
       [ready |-> TRUE, score |-> One, provenance |-> "Reported"],
       [topology |-> 1, numa |-> Far(2, 0), pcie |-> Far(3, 1), nic |-> Far(2, 0),
        storage |-> Far(2, 0), sharesRoot |-> FALSE, provenance |-> "Reported"],
       Far(20, 0),
       [level |-> IF mode = "A2" THEN 38 ELSE 0, residual |-> IF mode = "A2" THEN 4 ELSE One,
        provenance |-> "Measured"],
       [model |-> TRUE, adapter |-> FALSE, stateLocal |-> mode # "B",
        moveBytes |-> Far(MiB(512), 0), provenance |-> "Reported"])

\* cuda_worker_main: the same device seen from near (A) or from far (B).
cuda_candidate(id, mode) ==
  LET Far(far, near) == IF mode = "B" THEN far ELSE near
  IN Machine(id,
       [vram |-> Far(Min({CudaFree, GiB(8)}), CudaFree), vramTotal |-> CudaTotal, cpu |-> 16,
        hostMemory |-> GiB(32), pinnedMemory |-> GiB(1), storage |-> GiB(64),
        bandwidth |-> GiB(4), contiguous |-> TRUE, provenance |-> "Measured"],
       [ready |-> TRUE, score |-> One, provenance |-> "Measured"],
       [topology |-> 1, numa |-> Far(2, 0), pcie |-> Far(3, 1), nic |-> 0, storage |-> 0,
        sharesRoot |-> FALSE, provenance |-> "Derived"],
       0,
       [level |-> 0, residual |-> One, provenance |-> "Measured"],
       [model |-> TRUE, adapter |-> FALSE, stateLocal |-> mode # "B",
        moveBytes |-> Far(MiB(512), 0), provenance |-> "Reported"])

\* make_request; the topology generation it sets does not survive the codec.
make_request ==
  [ minCount |-> 1, maxCount |-> 1, targetCount |-> 1, capability |-> "CUDA",
    vramPerDevice |-> MiB(512), aggregateVram |-> 0, contiguous |-> FALSE, cpu |-> 2,
    hostMemory |-> GiB(1), pinnedMemory |-> MiB(64), storage |-> GiB(1),
    requireLocal |-> FALSE, requireNic |-> FALSE, bandwidth |-> 0, topology |-> 0,
    maximumMovement |-> 0, dependenciesReady |-> TRUE, wellFormed |-> TRUE ]

=============================================================================
