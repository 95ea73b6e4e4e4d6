---------------------------- MODULE MCSelection -----------------------------
(***************************************************************************)
(* Selection for TLC: copies of three candidates, the third a middling one *)
(* and the other two each like it or different in one item of evidence;    *)
(* demands from one that nearly anything serves to the widest there is.    *)
(***************************************************************************)
EXTENDS Selection

Gpu == [capability |-> "CUDA", current |-> TRUE, nic |-> TRUE, memoryDomain |-> TRUE]

Middling ==
  [ id            |-> 3,
    bindings      |-> <<Gpu>>,
    capacity      |-> [vram |-> 4, vramTotal |-> 8, cpu |-> 4, hostMemory |-> 4,
                       pinnedMemory |-> 4, storage |-> 4, bandwidth |-> 4,
                       contiguous |-> TRUE, provenance |-> "Measured"],
    health        |-> [ready |-> TRUE, score |-> 30, provenance |-> "Measured"],
    reservation   |-> [protected |-> FALSE, reserved |-> 2, provenance |-> "Measured"],
    congestion    |-> [level |-> 10, residual |-> 30, provenance |-> "Measured"],
    locality      |-> [topology |-> 1, numa |-> 1, pcie |-> 1, nic |-> 1, storage |-> 1,
                       sharesRoot |-> FALSE, provenance |-> "Measured"],
    communication |-> [cost |-> 10, provenance |-> "Measured"],
    residency     |-> [model |-> FALSE, adapter |-> FALSE, stateLocal |-> TRUE,
                       moveBytes |-> 1, provenance |-> "Measured"],
    allowed       |-> TRUE ]

M == Middling

\* The same machine, known less well in one respect.
KnownAs(field, provenance) == [M EXCEPT ![field].provenance = provenance]

\* A near and idle machine with everything at hand, and its values unmeasured.
Near == [M EXCEPT !.locality.numa = 0, !.locality.pcie = 0, !.residency.moveBytes = 0]

Variants ==
  { M, Near,
    [M EXCEPT !.bindings = <<>>], [M EXCEPT !.bindings = <<Gpu, Gpu>>],
    [Near EXCEPT !.bindings = <<Gpu, [Gpu EXCEPT !.current = FALSE]>>],
    [M EXCEPT !.bindings[1].current = FALSE], [M EXCEPT !.bindings[1].capability = "ROCM"],
    [M EXCEPT !.bindings[1].nic = FALSE],
    [M EXCEPT !.capacity.vram = 1], [M EXCEPT !.capacity.vram = 30],
    [M EXCEPT !.capacity.vram = 31], [M EXCEPT !.capacity.vramTotal = 0],
    [M EXCEPT !.capacity.cpu = 1], [M EXCEPT !.capacity.cpu = 8],
    [M EXCEPT !.capacity.hostMemory = 0], [M EXCEPT !.capacity.hostMemory = 8],
    [M EXCEPT !.capacity.pinnedMemory = 0], [M EXCEPT !.capacity.pinnedMemory = 8],
    [M EXCEPT !.capacity.storage = 0], [M EXCEPT !.capacity.bandwidth = 0],
    [M EXCEPT !.capacity.contiguous = FALSE],
    [M EXCEPT !.health.ready = FALSE], [M EXCEPT !.health.score = 40],
    [M EXCEPT !.reservation.protected = TRUE], [M EXCEPT !.reservation.reserved = 12],
    [M EXCEPT !.congestion.level = 60], [M EXCEPT !.congestion.residual = 40],
    [M EXCEPT !.locality.topology = 2], [M EXCEPT !.locality.nic = 3],
    [M EXCEPT !.locality.storage = 0], [M EXCEPT !.locality.sharesRoot = TRUE],
    [M EXCEPT !.communication.cost = 50], [M EXCEPT !.residency.model = TRUE],
    [M EXCEPT !.residency.adapter = TRUE], [M EXCEPT !.residency.stateLocal = FALSE],
    [M EXCEPT !.residency.moveBytes = 6], [M EXCEPT !.allowed = FALSE],
    KnownAs("capacity", "Unknown"), KnownAs("health", "Unknown"),
    KnownAs("residency", "Estimated"), KnownAs("congestion", "Unknown") }

AllCopies ==
  { <<[v EXCEPT !.id = 1], [w EXCEPT !.id = 2], M>> : v, w \in Variants }

Modest ==
  [ minCount |-> 1, maxCount |-> 2, targetCount |-> 0, capability |-> "CUDA",
    vramPerDevice |-> 2, aggregateVram |-> 0, contiguous |-> FALSE, cpu |-> 1,
    hostMemory |-> 1, pinnedMemory |-> 1, storage |-> 1, requireLocal |-> FALSE,
    requireNic |-> FALSE, bandwidth |-> 1, topology |-> 0, maximumMovement |-> 0,
    dependenciesReady |-> TRUE, wellFormed |-> TRUE ]

AllDemands ==
  { Modest,
    [Modest EXCEPT !.minCount = 0, !.capability = "None"],
    [Modest EXCEPT !.aggregateVram = 3, !.cpu = 2, !.contiguous = TRUE,
                   !.requireLocal = TRUE, !.requireNic = TRUE, !.topology = 1, !.maximumMovement = 2],
    [Modest EXCEPT !.minCount = 4, !.maxCount = 4, !.vramPerDevice = 8],
    [Modest EXCEPT !.dependenciesReady = FALSE],
    [Modest EXCEPT !.minCount = 2, !.aggregateVram = 3],
    [Modest EXCEPT !.minCount = 3] }

=============================================================================
