# Fabric Scheduler: a TLA+ verification project

TLA+ models of the placement scheduler, of the coordinator process around it,
of the records and frames it exchanges and stores, and of the processes of its
reference deployment; the TLC runs that check them on small instances, and
TLAPS proofs, for every instance, of the safety of the scheduler, of recovery,
of the coordinator, of selection and ranking, of the framing and of the
deployment. `PROJECT.json` records, for every definition, the source lines it
models; this file explains the whole.

## 1. The system

Fabric Scheduler decides *where* a workload may run and never owns resources or
execution itself. Candidates (devices with evidence about them) are published
by workers; a request is matched with a candidate and becomes a *placement
plan*; the plan is committed with an external Resource Broker, then handed to
an external Execution Fabric. A plan is bound to the coordinator epoch and the
authority generation under which it was made.

| component | state it keeps | operations | what makes it correct |
|---|---|---|---|
| Placement lifecycle (`placement.cpp/.hpp`) | a plan's state | transition table, `placement_advance` | only listed transitions; terminal states absorb |
| Scheduler (`scheduler.cpp`) | epoch, authority, candidates, requests, plans, cancelled requests, fenced boots; one mutex | `schedule`, `commit`, `handoff`, `revalidate`, `cancel`, `supersede`, `set_epoch`, `ingest_candidate`, `fence_*`, `snapshot`, `restore` | a stale, cancelled or superseded plan never works; commitments are neither lost nor doubled |
| Revalidation (`revalidation.cpp`) | none | `revalidate_plan` | any changed generation is noticed |
| Coordinator process (`coordinator_main.cpp`) | connections, registered boots, fenced boots (`LiveState`) | one handler per frame, `fence_worker_and_bump` | a dropped worker loses its plans and future placements |
| Persistence (`persistence.cpp`) | the state file | `persist_save`, `persist_load`, record codecs | a restart launches nothing old and loses nothing durable |
| Hard filter (`eligibility.cpp`) | none | `HardFilter::evaluate` | an ineligible candidate is never ranked |
| Ranking (`ranking.cpp`) | none | factors, comparator | a total order that does not depend on the input order |
| Demand validation (`request.cpp`) | none | `validate` | bounds, no overflow |
| Record codec (`persistence.cpp`, `coding.hpp`) | a buffer and a position | one `enc_*` and one `dec_*` per record | what is read is what was written; nothing else is accepted |
| Protocol and sockets (`protocol.cpp`, `net.cpp`) | a byte stream, a frame in the making | `send_frame`, `recv_frame` | a connection is a FIFO channel of whole messages that may end, and its end is noticed |
| Workers and drivers (`worker_main.cpp`, `cuda_worker_main.cpp`, `cuda_worker_death_proof.cpp`) | a connection, a script | register, publish, be killed; submit, commit, hand off, poll | the driver's checks hold in every interleaving, nobody waits for ever |
| Inspection tool, CUDA kernels, benchmarks | | I/O, hardware | |

Interaction. Any number of threads call the scheduler; in the coordinator each
connection has one. `schedule`, `commit` and `handoff` give up the mutex in the
middle of a call (to filter and rank, to call the broker, to call the execution
fabric), so everything else can happen in between. Those windows are where this
code is hard to test, and what the models are about. Further hard parts: the
drop of a worker is handled in four separately locked steps; two drops race for
the epoch; exceptions are swallowed there; the coordinator, the workers and
the driver wait for each other's frames without timeouts; some two hundred
fields are written and read by separate code; a late answer of an external owner
meets a plan that was cancelled, superseded, revalidated or made stale
meanwhile; a restart forgets evidence. `PROJECT.json` lists the hazards with
their lines and the properties that cover them.

## 2. Modules

| module | models | contents |
|---|---|---|
| `Lifecycle` | states and transition table | pure definitions |
| `PlacementAuthority` | *abstract* | what the scheduler promises about plans, without threads, candidates or a mutex |
| `Scheduler` | `scheduler.cpp`, `revalidation.cpp` | one action per critical section or external call |
| `Coordinator` | `coordinator_main.cpp`; extends `Scheduler` | connections, frames, veto, drops |
| `Recovery` | `snapshot`, `restore`, `persistence.cpp`, SAVE; extends `Scheduler` | saving, process death, loading, restoring |
| `Eligibility` | `eligibility.cpp`, `request.cpp` | which demands are valid, what rules a candidate out |
| `Ranking` | `ranking.cpp`, `RankingWeights`; extends `Eligibility` | 27 factors, score, comparator |
| `Selection` | `schedule`'s decision; extends `Ranking` | filter loop, sort, winner and fallbacks |
| `Records` | `request.hpp`, `candidate.hpp`, `placement.hpp`, `persistence.hpp`, enumerations | the structs: which fields, and what each may hold |
| `Codec` | `enc_*`, `dec_*`, `ByteWriter`, `ByteReader`; extends `Records`, `Eligibility` | each writer and each reader as the sequence of its calls |
| `Transfer` | `persist_save`, `persist_load`, the record codecs at work; extends `Codec` | one record on its way, cut or altered |
| `Channel` | *abstract* | a FIFO channel that may end |
| `Wire` | `protocol.cpp`, `net.cpp` | frames, partial sends and receives, damage |
| `Scenario` | the candidates of both workers, the driver's demand; extends `Ranking` | pure definitions |
| `Deployment` | accept loop, SHUTDOWN, workers, driver; extends `Coordinator`, `Scenario` | the processes and the frames between them |
| `SchedulerProofs` | | theorems about `Scheduler`, the refinement last |
| `RecoveryProofs` | | theorems about `Recovery` |
| `CoordinatorProofs` | | theorems about `Coordinator` |
| `SelectionProofs` | | arithmetic, factors, score and comparator of `Ranking`; theorems about `Selection` |
| `CodecProofs` | | that each writer and its reader agree, for every record |
| `TransferProofs` | | the checksum, the file, and theorems about `Transfer` |
| `WireProofs` | | theorems about `Wire` |
| `DeploymentProofs` | | theorems about `Deployment`; its second half is about the driver's checks |
| `MCScheduler`, `MCCoordinator`, `MCRecovery`, `MCSelection`, `MCTransfer`, `MCWire`, `MCDeployment` | | constants for TLC |

### Scheduler

The variables are the fields of `SchedulerState` (`epoch`, `authority`,
`candidates`, `requests`, `plans`, `nextPlanId`, `latest` for
`latestPlanByRequest`, `cancelled`, `fencedWorkers`, `fencedSources`), the
locals of a call that survive between two critical sections (`pc`, `job`,
`reqOf`, `snap`, `tok`), and three variables of the external owners (`ledger`
and `nextToken` of the broker, `execGrants` of the execution fabric).

* `schedule` = `ScheduleSnapshot` (copy under the mutex), then `SchedulePlan` or
  `ScheduleNone`. A plan is stamped with the epoch and authority of the
  *second* section, exactly as the code does.
* `commit` = `CommitBegin`, `BrokerCommit` or `BrokerRefuse`, then one of
  `CommitSucceeds`, `CommitFails`, `CommitTooLate` followed by `CommitRelease`
  (the release happens after the mutex was given up again).
* `handoff` = `HandoffBegin`, `ExecAuthorize` or `ExecDeny`, then
  `HandoffStarts`, `HandoffDenied`, or `HandoffDropped` (reports failure, or
  `advance_local` throws, and nothing changes).
* `set_epoch`, `ingest_candidate`, `fence_worker`, `fence_source`, `revalidate`,
  `cancel`, `supersede` are one action each. A call that is refused before it
  changes anything (unknown plan, wrong state, stale authority, lower epoch,
  fenced boot, stale generation) is a stuttering step.

Abstractions. A candidate is its id, generation, two boots and one value for
its whole vector of evidence generations; the winner is any candidate of the
copy: no property there depends on which, and `Selection` says which one it is. The dependency and policy
generations of the fingerprint come from the caller and are part of that value.
Left out: histories and event ordinals, texts, the fallback list, the ingest
watermark, getters and `explain`. The "plan vanished" branches of `commit` and
`handoff` need a `restore` during a call and are unreachable without it. The
broker and the execution fabric either grant or refuse; an exception thrown by
an adapter is not modelled.

### Coordinator

A thread of `Scheduler` is a connection. `link` is where its thread is, `boot`
the worker registered on it, `liveFenced` is `LiveState.fenced`. Every frame
handler that changes state is an action that takes the scheduler's own action;
the broker never refuses (nothing sets `failNext`), the execution fabric
compares authorities as `CurrentAuthorityExec` does, and only a drop changes
the epoch. `fence_worker_and_bump` is `FenceBoot`, `HideBoot`, `ReadEpoch`,
`BumpEpoch`, one per lock. The veto is consulted once per candidate in the
code and once for the whole copy in `LiveVeto`: `fenced` only grows, and only
the winner's own answer matters, so the step stands for the moment the winner
was asked. `hidden` and `fenceMark` are history variables for the properties.
`release` does nothing in this broker; `ledger` is then what it *would* hold.
HELLO (reads only) is left out; SAVE is in `Recovery`, the accept loop and
SHUTDOWN are in `Deployment`.

### Recovery

SAVE opens the file, which truncates it (`SaveOpen`), takes the snapshot under
the mutex (`SaveSnapshot`) and has it on disk when the stream is closed
(`SaveClose`); two saves that overlap may end in either order, or mix, which
the checksum rejects. Nothing in the code keeps the older snapshot from
replacing the newer one, and no property here says it does not. `file` is the image on disk or `NoImage`, for a missing,
torn or unparsable file alike. A thread that serves SAVE is in no other call,
so `Savers` are a set of their own next to the `Threads` that call the
scheduler.

`Crash` may come between any two steps. It resets everything but the file; the
ledger and the grants are reset too, because in the new process they are what
the external owners attribute to *that* process. `StartEmpty` is
`coordinator_main`, which never loads the file; `Restore` is what an embedder
does (and the repository's restart test): `persist_load`, then
`Scheduler::restore` on a fresh scheduler, then, if the caller likes, a later
`set_epoch`. `restore` on a scheduler already in use is not modelled.

`Snapshot` holds what the codec writes, at the grain the scheduler models: no
fenced boots, no `latest`, and of a candidate only its identity. `Loadable`
is the part of `persist_load` that relates records to each other; the rest of
it is in `Transfer`. `restoredMark` and `owed` are history variables for the
properties.

### Eligibility, Ranking, Selection

One call of `schedule`, on its private copy, is a loop over the copy in the
order of the ids (`Filter`), a sort (`Sort`), and the plan (`Issue`); `Call`
is the validation before it. Calls follow each other on the same copy; how
calls interleave is in `Scheduler`. `Objections` lists the checks of
`HardFilter::evaluate` in their order and `HardFilter` returns the first that
holds. `Sort` is *any* arrangement the comparator allows, because `std::sort`
is not stable and its choice among equals is its own.

Numbers. A byte count is a word of `Word` values; `Word` is
`MaxBytes * MaxCount`, as 2^64 = 16 TiB * 2^20 is in the code, so the one
product that overflows is the largest a valid demand can ask for.
`SaturatingMul` is the filter's product; `WrappingMul` is the product of
`validate` and of the ranker, which are not protected. A double between 0 and
1 is a multiple of 1/40, rounded down: what is compared is which candidate is
better, and rounding keeps that order. Evidence is assumed finite; the code
does not check that it is (a NaN would leave `std::sort` without an order).
The sum of a candidate's two distances is taken to fit its 32 bits.
`healthScore` and the like are between 0 and 1, or beyond where the code clamps.
Left out: texts, bottleneck labels, factor descriptions, `deterministic`
(never true, see the remarks), and demand fields that only `validate` reads, which are one
flag.

### Records, Codec, Transfer

A struct of `Records` says for each field what kind of value it holds. In
`Codec` the writer of a record is the sequence of its put calls and the reader
the sequence of its get calls with the check after each; a *cell* is what one
put call appends, its width and its value. A value remembers the field it was
set in, so that a record that comes back with two ids exchanged differs from
the one written although all its numbers agree. Buffers are cut between cells
(a cut inside a cell fails the same `require`). Structs nest three deep, a file,
its plans, their bindings, so writing and reading are defined level by level
(`ItemReader`, `RecordReader`, `Read`), each given the readers of what its lists
may hold; calls in order are a recursive function (`InOrder`), as the first that
throws ends the reading. `ValidDemand` is `DemandProfile::validate` on the
fields as they were read, through `Valid` of `Eligibility`.

`Transfer` sends one record, a request, candidate, plan or state file, out of
any set `Records` of such records. Those in `Disturbed` may be cut short in a
frame's payload or, as by a crash while it is written, in the file; and a file
may have any one byte changed to any other (`OneByteOff`), header, lengths,
counts and checksum included, or have something after its end. `Digest`
is FNV-1a over cells, one after the other; it is written by halves, the second
from where the first has led, because TLC's stack does not hold a recursion as
deep as a file is long, and `DigestRecursion` proves that this is the loop of
the code. Its step is the constant `Fnv`: an exclusive or with each
byte and a multiplication by an odd number modulo 2^64 are one to one in the
digest and in the byte, and that is all `DigestAssumption` says of it. That two
alterations may cancel out, which no checksum excludes, is not modelled.

### Wire and Channel

`Channel` is what the coordinator takes a connection for: messages arrive whole
and in order, until it ends. `Wire` is how that comes about: `encode_frame`,
`send` and `recv` in pieces of any size, `recv_exact` for the header, the
payload and the digest, and the checks in between. The header, a piece of
payload and the digest are one unit each; cutting the header itself in two adds
only states in which the receiver waits. The peer may go at any time with any
part of what it sent lost, and `MaxDamage` units may be altered on the way. The
digest is ideal (it identifies what it covers). It does not cover the magic,
which `parse_header` compares. A message type may have a payload too long to
send. There is no receive timeout in the code, and none here: a length enlarged by damage
makes the receiver wait for bytes that come only with later frames, and then
the digest fails. `ImplementsChannel` is the refinement, with
the variables `sent`, `handled` and `ended` for themselves.

### Scenario and Deployment

`Scenario` has the machines that `worker_main` and `cuda_worker_main` describe
and the demand of `make_request` as records of `Eligibility` and `Ranking`, in
units of 64 MiB; the free memory of the GPU is what a 32 GiB card reports.

`Deployment` replays `cuda_worker_death_proof.cpp`. A thread of `Coordinator` is
here the connection of one client, with frames on their way in both directions
(`inbox`, `outbox`; `Wire` is why they are whole and in order). The
coordinator's handlers are the actions of `Coordinator`, now asked for by a
frame and answered by one. A refused candidate is answered by the code of its
refusal, which the driver compares (`code == 13`, stale authority, at the
replay). SHUTDOWN answers first and clears the flag in a step of its own
(`StopRunning`), so that other threads may act in between. Which candidate a pass selects is computed by the
filter and the ranking (`Winner`). The driver follows its script (`Script`,
`After`) and makes its checks (`Expected`): submit, commit, hand off and execute
on A, kill A, submit until B wins (at most `MaxMisses` polls that still find A;
the code polls for 15 s), replay A's candidate, hand A's plan off again, start A2
and do the same with it. `cuda_worker_main` waits for each reply, `worker_main`
(`C`, which may start at any time) sends both frames and announces itself
without reading one. The SHUTDOWN at the end is that of
`multiprocess_proof_test.cpp:373`. EXECUTE and its result travel over a channel
of their own between driver and worker and are one step. The waits for these
control channels (`cuda_worker_death_proof.cpp:216` and `:297`) and the windows
of 10 s, at whose end the driver gives up, are left out. `settled`, `launched` and
`latecomers` are history variables.

### PlacementAuthority

A plan is issued under the current authority, goes ready, reserving, reserved,
launching, running one phase at a time and only while its stamp is the current
authority, gets exactly one backing on the way, and may stop at any time, for
good. A fence replaces the authority and stops everything live at once. `Scheduler` maps
its plan states to these phases (`absPhase`), `REVALIDATION_REQUIRED` and the
terminal states all being "stopped".

## 3. Runs

| run | bounds | states | shows |
|---|---|---|---|
| `scheduler` | 2 threads, 1 request, 1 candidate, 2 plans, epochs 1..2 | 532,384 | the seven invariants, `StoppedStaysStopped`, the refinement, `CallsReturn`, `LateGrantsReleased` |
| `coordinator_fencing` | 2 connections, 2 workers, 1 request, 1 plan, epochs 1..3 | 448,688 | `FencedPlansStopped`, `NextPassAvoidsFenced` |
| `coordinator_liveness` | 2 connections, 1 worker, 1 plan, epochs 1..3 | 40,136 | `DroppedWorkerFenced` |
| `recovery_safety` | 1 caller, 2 savers, 1 plan, epochs 1..2, 1 death | 2,049,573 | `RecoveredNeverWorks`, `CancelledAcrossRecovery`, `NoWaitAcrossCrash`, `FirstSaveLoadable` |
| `selection` | 41 variants in each of 2 places and a third candidate, 7 demands (6 valid), 1 fallback | 52,111 | `WinnerServesDemand`, `BestFirst`, `AdvantageNeverLoses` |
| `records` | 1 record, lists of 0..3, strings of 0..3, words 0..9, each field at, below and beyond its limit, numbers up to 255, bytes of 4 values, files of up to 190 cells, a digest of 5 bits | 7,305 | `NothingElseArrives`, `CutIsRefused`, `LimitsAreTheDocumented` |
| `wire` | 2 frames of 3 types (payloads 0, 2 and 3, the last too long), 2 damaged units | 45,297 | `ImplementsChannel`, `EndIsNoticed`, `SoundFrameHandled` |
| `deployment` | 4 workers and the driver, 1 missed poll, 4 plans, epochs 1..3 | 131,440 | `DriverChecksHold`, `LaunchedUnderAuthority`, `NobodyServedAfterShutdown`, `KilledWorkerFenced`, `DriverEnds`, `WaitingConnectionEndsProcess` |
| `fenced_worker_runs` | as `coordinator_fencing` | violation | finding 1 |
| `save_after_recovery` | 1 caller, 2 savers, 1 plan, epochs 1..2, 1 death | violation | finding 2 |
| `requirement_lost` | as `records` | violation | finding 3 |
| `unknown_capacity` | as `selection` | violation | finding 4 |

Why the bounds suffice: every race here is between one call in flight and one
other caller, so two threads; two plans of one request give the cases "older
and newer plan" and "commit after a failed commit"; two epochs give "before and
after a fence", three let two drops race and both be bumped in turn. With
`MaxEpoch = 3` a drop is only taken while the epochs left suffice for all drops
under way, so no drop is ever cut off by the bound (`EpochRoom`, proved). Recovery
needs one call in flight when the state is saved or the process dies, two saves
that overlap, and two epochs for a fence before or after the death; a second
death, which loses what was itself recovered, was checked with one epoch
(208,430 states), and the proofs are for any number. What calls do to each
other is the other runs' business. In `selection` each
variant differs from the middling candidate in one item that the filter or a
factor looks at, in the direction that matters (better, worse, at zero, at the
clamp, unknown), so that any two are compared in one or two items; the third
candidate makes the limit of one fallback bite; the demands include one that
needs no accelerator and the one whose product overflows. A record that is wrong in two places is refused for the
first of them, so one place at a time suffices; lists one longer than the limit
and strings one longer than theirs are among them, and so are files longer than
`MaxPayload`. Only the ordinary record of each kind is cut and altered, at every
point: where a fault strikes matters, and each kind of cell is in it. Two frames give a frame cut
by the next one's start, and two damages a length and a digest that are both
wrong. In the deployment every process is there once; one missed poll stands
for any number, as a poll changes nothing but the plans.
Larger instances (two requests with two plans; a candidate refreshed at a second
generation; recovery with two epochs and two deaths) were checked with the
same result. The proofs below remove the bounds altogether for every safety
property of every module; only liveness rests on the instances alone. Symmetry of threads and of savers is used only where no liveness is checked.

Every property has a mutant, a variant of one action with a plausible bug
(marked `Defect:` in the modules) under which TLC finds the property violated.

Fairness. `FairSpec` is weak fairness, per thread, of the steps inside a call:
the operating system schedules the thread, critical sections are short and
nobody holds the mutex while waiting for anything, and the two external owners
answer. Nothing obliges a caller to begin a call, a worker to publish, or a
connection to drop. `CoFairSpec` is the same for the frame a connection serves
and for the drop it handles. `FairSpec` of `Wire`: `send_all` and the
receiving thread go on and sent bytes are delivered; nothing obliges a sender to
begin a frame, to close, or to stay.
`DepFairSpec` is one weak fairness condition on everything but the start of the
reference worker: all scripts are finite, so every step that stays possible is
taken in the end.

## 4. Proofs

Every theorem is for all values of the constants, under the assumptions the
modules name; TLC evaluates these on the instances. They say what kind of thing
a constant is, and no more:

| assumption | of | says | because |
|---|---|---|---|
| `PublishedAssumption`, `NoRequestAssumption`, `BoundsAssumption` | `Scheduler` | candidates are records with a generation from 1; bounds are numbers | `ingest_candidate`; model bounds |
| `NoBootAssumption`, `ConnectionsAssumption` | `Coordinator` | finitely many connections, an epoch to start in | one thread each |
| `MaxCrashesAssumption`, `NoImageAssumption` | `Recovery` | "no image" is none | |
| `WidthAssumption`, `MoveNormalizerAssumption` | `Eligibility`, `Ranking` | the largest product is the first that does not fit a word; the normaliser is not 0 | `request.cpp`, `RankingWeights` |
| `MaxFallbackAssumption`, `CopiesAssumption`, `DemandsAssumption` | `Selection` | a copy is a finite map from ids to candidates whose fields are of their types; quantities are unsigned | `std::map`, `candidate.hpp`, `types.hpp` |
| `RecordsAssumption` | `Transfer` | what is sent is a record of its struct, with numbers up to `MaxNumber`; a byte has more than one value | the C++ types |
| `DigestAssumption` | `Transfer` | a step of the digest is one to one in the digest, and in a byte of what is hashed | FNV-1a, see section 2 |
| `CodecBoundsAssumption` | `Codec` | limits are positive; an infinity is not a truth value | `persistence.hpp`, `coding.hpp` |
| `WireAssumption` | `Wire` | limits and payload sizes are numbers | |
| `DeploymentAssumption`, `ScenarioAssumption` | `Deployment` | who the processes are, what they publish and ask for; A and A2 can serve the demand and go before B and C | the driver and the worker programs |

`CopiesAssumption` types measurements as natural numbers, so evidence that is
not a number is outside of what is proved, as it is outside of what the code
checks. `ScenarioAssumption` is a computation on the constants (`HardFilter` and
the comparator on four machines): TLC does it, the prover only uses its result.

| theorem | says |
|---|---|
| `TypeCorrect`, `Inductive` | `Spec => []TypeOK`, `Spec => []IInv` |
| `CommitmentsBacked`, `NoneOrphaned`, `CommittedOnce` | commitments are backed, not orphaned, not doubled |
| `LiveIsCurrent`, `CancelledIsOver` | live plans are current; cancelled ones never work |
| `NobodyWaitsAlone` | one thread ends each wait |
| `Stopped` | `Spec => StoppedStaysStopped` |
| `Refines` | `Spec => ImplementsPlacementAuthority` |
| `RecoveryInductive`, `RecoveryTypes` | `RecSpec => []RecIInv`, `[]RecTypeOK` |
| `GuaranteesSurvive` | the scheduler's invariants hold in every process, recovered or not |
| `RecoveredIsStopped`, `CancellationSurvives` | what comes from the file never works again; what was cancelled in it stays so |
| `NobodyWaitsForTheDead`, `FirstProcessLoadable` | no plan waits for a call of a dead process; what a first process saves passes the check that plans name saved candidates |
| `CoordinatorInductive`, `CoTypeCorrect` | `CoSpec => []CoIInv`, `[]CoTypeOK` |
| `CoordinatorSchedules` | `CoSpec => Spec`, and the abstract specification |
| `FenceComplete`, `VetoHeeded` | `CoSpec => []FencedPlansStopped`, `NextPassAvoidsFenced` |
| `ComparatorOrders` | the comparator is a strict total order |
| `RankMonotone` | better in every measurement: ranked at least as high |
| `WinnerServes`, `EveryCandidateAccounted` | `Spec => []WinnerServesDemand` (every hard constraint, finding 4 apart), `[]SelTypeOK` (of `Selection`) |
| `WinnerIsBest`, `AdvantageKept` | `Spec => []BestFirst`, `[]AdvantageNeverLoses` |
| `AllAgree` | every writer and its reader make the same calls, one for each field but the forgotten one, each enumerator checked against the last there is |
| `LevelReads` | what any writer wrote of a record of its struct, its reader reads back wherever it stands, or refuses; and it refuses any beginning of it |
| `TransferTyped` | `Spec => []TransferTypeOK` (of `Transfer`) |
| `OnlyTheWrittenArrives`, `NoCutIsTaken`, `TheLimitsHold` | `Spec => []NothingElseArrives`, `[]CutIsRefused`, `[]LimitsAreTheDocumented` |
| `WireTypeCorrect`, `FramingIsChannel` | `Spec => []WireTypeOK`, `ImplementsChannel` (of `Wire`) |
| `DeploymentInductive`, `DepTypeCorrect` | `DepSpec => []DepIInv`, `[]DepTypeOK` |
| `DeploymentCoordinates` | `DepSpec => CoSpec`, hence `[]FencedPlansStopped` |
| `NobodyServed` | `DepSpec => []NobodyServedAfterShutdown` |
| `DriverInductive` | `DepSpec => []DriverIInv` |
| `ChecksHold`, `LaunchedAuthorized` | `DepSpec => []DriverChecksHold`, `[]LaunchedUnderAuthority` |

Scheduler. The safety properties are not inductive: that `CommitSucceeds`
creates no second commitment depends on nobody else having committed the plan
while the mutex was free. `IInv` therefore adds *ownership*: a thread inside
`commit` is the only one for its plan, which has left `PLAN_READY` and has no
evidence (`CommitOwnership`); likewise for `handoff` (`HandoffOwnership`); and
*bookkeeping*: tokens are used once, the token a thread carries is in the
ledger, a plan has evidence from `COMMITTED` on and not before
(`LedgerMatches`). Exclusive ownership holds because the first section leaves
the only state it accepts and no step returns to it. There is one lemma per
action; the actions that stop plans (`set_epoch`, `cancel`, `supersede`,
`revalidate`) share `StopStep`. The refinement sorts every step by what the
plans see of it (`StepKinds`: a fence, plans stopping, a new plan, one plan
going forward) and maps each kind.

Recovery. `Crash` and `Restore` keep the scheduler's whole `IInv`: `restore`
leaves no plan in a state that claims a commitment or an authorization, so a
recovered process may begin with an empty ledger. This decides the form of
`IInv`: plans from the file do carry evidence without an entry in the new
ledger, so it must not say that evidence is always backed, only that evidence
of a plan in a *working* state is. `RecIInv` adds that the image on disk and
those the savers hold are such as a scheduler can have, that plans below
`restoredMark` are stopped and that the requests in `owed` are cancelled. (That
the authority is at least the epoch, which seems to belong there, is no
invariant: `set_epoch` may skip epochs while the authority goes up by one.) For
the first process it adds that every candidate named by a plan, by a copy in use
or by an image is still held (`IdentitiesHeld`, `ImagesLoadable`), which is
`FirstSaveLoadable`; `Restore` breaks that, and finding 2 is the consequence.

Coordinator. `CoordinatorSchedules` shows that every step of `Coordinator`
is one of `Scheduler` or leaves it alone, so all theorems above carry over.
`FencedPlansStopped` is about a race: a drop reads the epoch and then asks for
its successor, and when another drop was faster the request is refused and the
refusal swallowed. `EpochsSeen` says why that is harmless: the faster update
came after this drop read the epoch, hence after the plans below its mark were
issued, and it stopped them. `FenceMarks` says that the mark exists by then,
and `EpochRoom` that the bound on epochs never cuts a drop off, so the theorem
is about the code and not about the bound. `VetoKept` carries what was hidden
when a pass began to the plan it issues.

Ranking. Each of the 27 factors is a clamp, a quotient of what is asked for and
what there is, a distance, or a table; `FactorsMonotone` shows for each one that
no advantage lowers it, from a handful of facts about division. The score is a
weighted sum over the factors; that sums preserve the order is shown factor by
factor (`ScoreMonotone`), not by induction. The comparator is unfolded once
(`BeforeChain`); that it is irreflexive and transitive is what `std::sort`
requires, that it is total makes its result unique.

Selection. What is in the vector of eligible candidates has passed the filter
for the demand being served, sorting permutes it and the plan is a prefix of it
(`SelIInv`); every candidate of the copy is eligible, rejected or still to
come. Passing the filter means that no objection holds (`NoObjection`), and the
saturated product is below a word only if it is exact (`SaturatingSuffices`).
With `RankMonotone`, a candidate that is at least as good in everything is
never placed behind, unless both tie and the id decides.

Framing. The argument is about positions: `Marks` says where each frame begins
in the stream of all that was sent, `Placed` that a sound digest stands at the
end of its own frame only. A digest that agrees with what was read is sound and
fixes the length of its frame, so the frame began where one was sent. Whatever
was lost at the end or damaged on the way, what is handled is the next message
or nothing.

Deployment. `DepIInv` types what is in the boxes, hence every frame that is
served is a call that `Coordinator` allows (`CoordinatorStep`), and the
theorems about the coordinator and the scheduler hold of the processes. The
driver's call is on its way, being served or on its way back (`OneCall`); a
connection that was accepted too late is `Untouched`.

The driver's checks need to know, when the driver reads a reply, what was true
when the coordinator wrote it, with drops and other workers in between
(`Promise`). `DriverIInv` follows five things and relates them: each worker's
two frames (`Conversation`: a worker that announced itself is registered and its
candidate is held), the fences (`Fences`: only dead workers are fenced, first in
the scheduler and then in the veto's set, and A is in both once B was seen to
win), what a pass can see (`Sight`), the call (`OwnCall`), and the plans
(`PlansGoOn`). The first plan is undisturbed until A is killed because nobody
else dies (`Quietness`); the third is undisturbed if A's drop was over when it
was asked for, because nobody dies after that; the second part of `Undisturbed`
says at which stage the call finds the plan. The poll sees B only when A is
hidden, because A would win otherwise (`NearNotBeaten`); and hidden is after
fenced, so the replay is refused.

Codec. Nearly two hundred fields are too many for one proof, so what can be
read off the definitions is stated struct by struct and the rest once for all of
them. Struct by struct: the two sides make the same calls in the same order
(`Match`), call for each field once, with a width and a bound that fit its type
(`Agrees`); the field no call reads is named (`RequestForgets`). Once for all: a
buffer `Carries` a sequence of parts where they stand one after the other; the
call for a value reads it if it is within its limit, refuses it otherwise, and
refuses every proper beginning of it (`FieldReads`); hence calls in order read a
record (`InOrderReads`), readers of items make readers of records and these the
reader of the file (`LevelReads`, used three times). `AcceptedIs` translates
"every call and the last check succeed" into limits. The inductions (over the
calls made and over the cells hashed) are over numbers and use the library's
fact that a set of naturals has a least element, for a set of the module's own
(`Induction`).

Transfer. `TransferInv` says of every phase what the bytes and the result are:
written from a record, then exactly one of whole, cut, altered in one cell or
longer; then what the reader makes of them. A cut file fails because its header
announces more than there is (`CutFile`). A changed one (`ChangedFile`) is
sorted by the cell: magic, version, length and checksum are compared, the flags
are ignored and so is what follows (`LongerFile`), and a changed payload has
another digest, because steps over equal cells keep two digests apart
(`DigestTells`). A length one more asks for more than there is; one less leaves
the reader a payload that ends before the record does (`ShorterPayload`). A whole
file is read back up to the forgotten field (`WholeLoads`), and the forgotten
field is in none of the checks across records (`ConsistentDelivered`).

Only model-checked: the liveness properties, which are out of the prover's reach:
`CallsReturn`, `LateGrantsReleased`, `DroppedWorkerFenced`, `EndIsNoticed`,
`SoundFrameHandled`, `KilledWorkerFenced`, `DriverEnds` and `WaitingConnectionEndsProcess`. Every invariant
and every other property of a run is a theorem. That the ideal digest of `Wire`
and the absence of NaN stand for the code is an abstraction and not proved.

## 5. Findings

1. **A plan on a fenced worker is launched** (`FencedNeverRuns`). Connection A
   submits; its pass copies the candidates and the veto allows the worker's.
   The worker's connection drops: the boot is fenced and hidden, the epoch and
   authority move on. A takes the mutex and stamps the plan with the *new*
   authority (`scheduler.cpp:218`). Commit and handoff find nothing stale, and
   the plan becomes ACTIVE on a fenced worker. The comment at
   `coordinator_main.cpp:82` says such a candidate "is never scheduled". What
   does hold is `NextPassAvoidsFenced` (passes that begin later) and
   `FencedPlansStopped` (plans issued earlier).
2. **What a recovered process saves cannot be loaded** (`SavedIsLoadable`):
   `restore` clears the candidates and keeps the plans, so the next snapshot
   names candidates it does not hold. `persist_save` writes it unchecked,
   although its header says it throws on a malformed snapshot, and
   `persist_load` rejects it as corrupt. What a process that was not recovered
   saves passes that check (`FirstSaveLoadable`).
3. **A topology requirement is lost on the wire** (`RequirementArrives`):
   `enc_demand` does not write `requiredTopologyGeneration` and `dec_demand`
   leaves it 0, "no hard topology requirement". Both drivers set it, the test's
   specification lists it among the fields sent, and the coordinator's filter
   never rejects for it. It is the only field that does not arrive
   (`NothingElseArrives`).
4. **Unknown capacity is eligible** (`UnknownCapacityNeverServes`): the filter
   looks at the provenance of the capacity only when devices are demanded
   (`eligibility.cpp:48`), and for a demand of processors, memory or storage
   alone a candidate of whose capacity nothing is known is placed in the plan.
   `README.md:74` says that it is `INSUFFICIENT_EVIDENCE`.

Smaller remarks, which no run is about. `revalidate`, and `handoff` when it is
denied, force a terminal plan to `REVALIDATION_REQUIRED`, although
`placement.cpp:17` says terminal states absorb; the plan still never works again
(`StoppedStaysStopped`). `schedule` does not look at `cancelledRequests`, so a
cancelled request gets plans, although `README.md:96` says cancellation stops
new plan work; they can never be committed (`CancelledNeverWorks`). The same
line says a newer plan supersedes older unresolved ones; `schedule` does not
retire the earlier plans of a request that is submitted again, and each of them
can be committed. `restore` takes epoch and authority from the last save; if
the dead process had moved on since, `set_epoch(saved + 1)` gives the new one
an authority already used, although `README.md:108` says it is fresh. Evidence
strength is the weakest of 27 provenances, of which `EnergyPower` is always
`UNKNOWN`: it is 0 for every candidate, never breaks a tie, and no candidate
counts as `deterministic`. The worker-death driver takes "B won" for the end of
A's fence, but the epoch moves after the veto's set: the fresh plan can be
stopped under it, `commit3` or `handoff3` then fails (`DriverChecksHold` says
that nothing else can), or EXECUTE goes out for a plan just stopped
(`LaunchedUnderAuthority`). `worker_main` announces PUBLISHED before the
coordinator has read its candidate. SHUTDOWN does not wake
`main`: unless a client was just accepted, the process goes on until one more
connects. A connection that waits is enough to end it
(`WaitingConnectionEndsProcess`), and the detached threads then use objects of
`main` that are gone. `validate` requires an aggregate VRAM
to cover the minimum count at the per-device VRAM, with a product that wraps:
for 16 TiB on each of 2^20 devices it is 0 and any aggregate passes. The
number of a candidate's bindings is never compared with the number of devices
demanded: one binding of the capability is enough.
An unknown congestion has the default value 0 and beats a measured 0.1, although
the README says unknown is never taken for favorable.
`maxCandidatesPerRequest` is stored and never used.

## 6. Not modelled, and the plan

Not modelled: socket set-up, most core value types, the inspection tool, CUDA
kernels and the single-process CUDA proof, benchmarks and examples (I/O,
hardware, or values without behaviour); `restore` on a scheduler in use, which
nothing in the repository does; exceptions thrown by adapters; getters,
`explain` and other texts.

What would come next is what recovery promises a deployment: `Deployment` with a
coordinator that dies, which so far `Recovery` covers for the scheduler alone.
