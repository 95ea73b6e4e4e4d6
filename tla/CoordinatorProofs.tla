-------------------------- MODULE CoordinatorProofs -------------------------
(***************************************************************************)
(* The coordinator, for every number of connections, workers, candidates,  *)
(* requests, plans and epochs:                                             *)
(*                                                                         *)
(*   it only does what Scheduler allows, so that every theorem about the   *)
(*   scheduler holds of it;                                                *)
(*   a complete fence has stopped the plans issued before it, also when    *)
(*   drops race for the epoch;                                             *)
(*   a pass that begins after a worker was hidden does not select it.      *)
(*                                                                         *)
(* The race of two drops is why FencedPlansStopped needs EpochsSeen: a     *)
(* drop whose set_epoch is refused relies on the set_epoch of the drop     *)
(* that was faster, which came after it read the epoch and hence after     *)
(* every plan below its mark had been issued.                              *)
(***************************************************************************)
EXTENDS Coordinator, SchedulerProofs, FiniteSetTheorems

\* The plans issued before the fence of b began are stopped.
MarkedStopped(b) ==
  \A p \in PlanIds : p < fenceMark[b] => plans[p].state \notin LiveStates

\* What a drop has recorded: its boot, and from FenceBoot on the boot's mark.
FenceMarks ==
  /\ \A t \in Threads : link[t] \in DropSteps => boot[t] # NoBoot
  /\ \A t \in Threads : link[t] \in DropSteps \ {"fencing"} => fenceMark[boot[t]] # 0
  /\ \A b \in WorkerBoots : fenceMark[b] <= nextPlanId
  /\ \A b \in liveFenced : fenceMark[b] # 0

\* What has happened since a drop read the epoch.
EpochsSeen ==
  /\ \A t \in Threads : seenEpoch[t] <= epoch
  /\ \A t \in Threads :
       link[t] = "bumping" /\ seenEpoch[t] # epoch => MarkedStopped(boot[t])

\* The epochs left suffice for the drops under way: MaxEpoch cuts none off.
EpochRoom == epoch + Cardinality(Dropping) <= MaxEpoch

\* What a pass that consulted the veto still allows was not hidden when the
\* pass began.
VetoKept ==
  \A t \in Threads :
    /\ pc[t] = "filtering" => hidden[t] \subseteq liveFenced
    /\ vetted[t] => \A c \in allowed[t] : c.worker \notin hidden[t]
    /\ vetted[t] => pc[t] = "filtering"

\* The inductive invariant of the coordinator.
CoIInv ==
  /\ CoTypeOK /\ IInv
  /\ FenceMarks /\ EpochsSeen /\ EpochRoom /\ FencedPlansStopped /\ VetoKept

-----------------------------------------------------------------------------
\* A drop never reads past the last epoch.
LEMMA BumpInRange ==
  ASSUME CoIInv, NEW t \in Threads, link[t] = "bumping"
  PROVE  seenEpoch[t] + 1 \in 1..MaxEpoch
<1>1. /\ epoch \in Nat /\ seenEpoch[t] \in Nat /\ seenEpoch[t] <= epoch
      /\ MaxEpoch \in Nat
  BY BoundsAssumption DEF CoIInv, CoTypeOK, TypeOK, EpochsSeen
<1>2. IsFiniteSet(Dropping) /\ t \in Dropping
  BY ConnectionsAssumption, FS_Subset DEF Dropping, DropSteps
<1>3. Cardinality(Dropping) \in Nat \ {0}
  BY <1>2, FS_CardinalityType, FS_EmptySet
<1>4. QED
  BY <1>1, <1>3 DEF CoIInv, EpochRoom

\* Every step of the coordinator is a step of the scheduler, or leaves the
\* scheduler alone.
LEMMA SchedulerStep ==
  ASSUME CoIInv, [CoNext]_coVars
  PROVE  [Next]_vars
<1>1. CASE UNCHANGED coVars
  BY <1>1 DEF coVars
<1>2. CASE CoNext
  <2> SUFFICES ASSUME NEW t \in Threads,
                      \/ \E b \in WorkerBoots : Register(t, b)
                      \/ \E c \in Published : Publish(t, c)
                      \/ \E r \in Requests : CancelFrame(t, r) \/ Submit(t, r)
                      \/ \E r, s \in Requests : SupersedeFrame(t, r, s)
                      \/ \E p \in PlanIds, fp \in Fingerprints : RevalidateFrame(t, p, fp)
                      \/ \E p \in PlanIds : CommitFrame(t, p) \/ HandoffFrame(t, p)
                      \/ Drop(t) \/ Accept(t)
                      \/ Serve(t)
               PROVE  [Next]_vars
    BY <1>2 DEF CoNext
  <2>1. CASE \E b \in WorkerBoots : Register(t, b)
    BY <2>1 DEF Register
  <2>2. CASE \/ \E c \in Published : Publish(t, c)
             \/ \E r \in Requests : CancelFrame(t, r) \/ Submit(t, r)
             \/ \E r, s \in Requests : SupersedeFrame(t, r, s)
             \/ \E p \in PlanIds, fp \in Fingerprints : RevalidateFrame(t, p, fp)
             \/ \E p \in PlanIds : CommitFrame(t, p) \/ HandoffFrame(t, p)
    BY <2>2 DEF Publish, CancelFrame, Submit, SupersedeFrame, RevalidateFrame,
       CommitFrame, HandoffFrame, Next
  <2>3. CASE \/ Drop(t) \/ Accept(t) \/ LiveVeto(t) \/ HideBoot(t) \/ ReadEpoch(t)
    BY <2>3 DEF Drop, Accept, LiveVeto, HideBoot, ReadEpoch
  <2>4. CASE Decide(t)
    <3>1. Schedule(t)
      BY <2>4 DEF Decide, Schedule, SchedulePlan
    <3>2. QED
      BY <3>1 DEF Next
  <2>5. CASE InMemoryBroker(t) \/ CommitEnds(t) \/ CurrentAuthorityExec(t) \/ HandoffEnds(t)
    BY <2>5 DEF InMemoryBroker, CommitEnds, CurrentAuthorityExec, HandoffEnds,
       Broker, Exec, Next
  <2>6. CASE FenceBoot(t)
    <3>1. boot[t] \in WorkerBoots
      BY <2>6 DEF FenceBoot, CoIInv, CoTypeOK, FenceMarks, DropSteps
    <3>2. QED
      BY <2>6, <3>1 DEF FenceBoot, Next
  <2>7. CASE BumpEpoch(t)
    BY <2>7, BumpInRange DEF BumpEpoch, Next
  <2>8. QED
    BY <2>1, <2>2, <2>3, <2>4, <2>5, <2>6, <2>7 DEF Serve
<1>3. QED
  BY <1>1, <1>2

\* The stopped plans below a mark stay stopped while the mark stays.
LEMMA MarkKept ==
  ASSUME IInv, [Next]_vars, NEW b, fenceMark'[b] = fenceMark[b],
         fenceMark[b] \in Nat, fenceMark[b] <= nextPlanId, MarkedStopped(b)
  PROVE  MarkedStopped(b)'
<1>1. ASSUME NEW p \in PlanIds', p < fenceMark[b] PROVE p \in PlanIds
  BY <1>1, PlansSurvive DEF PlanIds
<1>2. QED
  BY <1>1, PlansSurvive DEF MarkedStopped

\* After a new epoch the plans below every mark are stopped.
LEMMA MarkReached ==
  ASSUME IInv, [Next]_vars, epoch' # epoch, NEW b
  PROVE  MarkedStopped(b)'
BY PlansSurvive DEF MarkedStopped

\* FencedPlansStopped, by boots.
LEMMA FencedMeansMarked ==
  FencedPlansStopped <=> \A b \in WorkerBoots : FenceDone(b) => MarkedStopped(b)
BY DEF FencedPlansStopped, MarkedStopped

-----------------------------------------------------------------------------
\* The variables of the coordinator keep their types.
LEMMA CoTypeStep ==
  ASSUME CoIInv, [CoNext]_coVars
  PROVE  CoTypeOK'
<1>1. TypeOK' /\ WorkerBoots' = WorkerBoots
  BY SchedulerStep, TypeStep DEF CoIInv, IInv, WorkerBoots
<1>2. CASE UNCHANGED coordVars
  BY <1>1, <1>2 DEF coordVars, CoIInv, CoTypeOK
<1>3. ASSUME NEW t \in Threads, NEW b \in WorkerBoots, Register(t, b) PROVE CoTypeOK'
  BY <1>1, <1>3 DEF Register, CoIInv, CoTypeOK
<1>4. ASSUME NEW t \in Threads, NEW r \in Requests, Submit(t, r) PROVE CoTypeOK'
  BY <1>1, <1>4 DEF Submit, CoIInv, CoTypeOK
<1>5. ASSUME NEW t \in Threads, LiveVeto(t) PROVE CoTypeOK'
  <2>1. snap[t] \subseteq Published
    BY DEF CoIInv, CoTypeOK, TypeOK
  <2>2. QED
    BY <1>1, <1>5, <2>1 DEF LiveVeto, CoIInv, CoTypeOK
<1>6. ASSUME NEW t \in Threads, Decide(t) PROVE CoTypeOK'
  BY <1>1, <1>6 DEF Decide, CoIInv, CoTypeOK
<1>7. ASSUME NEW t \in Threads, Drop(t) \/ Accept(t) PROVE CoTypeOK'
  BY <1>1, <1>7 DEF Drop, Accept, CoIInv, CoTypeOK, DropSteps
<1>8. ASSUME NEW t \in Threads, FenceBoot(t) PROVE CoTypeOK'
  <2>1. nextPlanId \in Nat
    BY DEF CoIInv, CoTypeOK, TypeOK
  <2>2. QED
    BY <1>1, <1>8, <2>1 DEF FenceBoot, CoIInv, CoTypeOK, DropSteps
<1>9. ASSUME NEW t \in Threads, HideBoot(t) PROVE CoTypeOK'
  <2>1. boot[t] \in WorkerBoots
    BY <1>9 DEF HideBoot, CoIInv, CoTypeOK, FenceMarks, DropSteps
  <2>2. QED
    BY <1>1, <1>9, <2>1 DEF HideBoot, CoIInv, CoTypeOK, DropSteps
<1>10. ASSUME NEW t \in Threads, ReadEpoch(t) PROVE CoTypeOK'
  <2>1. epoch \in 0..MaxEpoch
    <3>1. Cardinality(Dropping) \in Nat /\ epoch \in Nat
      BY ConnectionsAssumption, FS_Subset, FS_CardinalityType
         DEF Dropping, CoIInv, CoTypeOK, TypeOK
    <3>2. QED
      BY <3>1, BoundsAssumption DEF CoIInv, EpochRoom
  <2>2. QED
    BY <1>1, <1>10, <2>1 DEF ReadEpoch, CoIInv, CoTypeOK, DropSteps
<1>11. ASSUME NEW t \in Threads, BumpEpoch(t) PROVE CoTypeOK'
  BY <1>1, <1>11, BoundsAssumption DEF BumpEpoch, CoIInv, CoTypeOK
<1>12. QED
  BY <1>2, <1>3, <1>4, <1>5, <1>6, <1>7, <1>8, <1>9, <1>10, <1>11
     DEF CoNext, Serve, Publish, CancelFrame, SupersedeFrame, RevalidateFrame,
     CommitFrame, HandoffFrame, InMemoryBroker, CommitEnds, CurrentAuthorityExec,
     HandoffEnds, coVars

-----------------------------------------------------------------------------
\* What a step does to the drops: nothing, or one thing to one connection.
LEMMA DropKinds ==
  ASSUME [CoNext]_coVars
  PROVE  \/ UNCHANGED <<epoch, link, boot, seenEpoch, liveFenced, fenceMark>>
         \/ \E t \in Threads : \/ \E b \in WorkerBoots : Register(t, b)
                               \/ Drop(t) \/ Accept(t) \/ FenceBoot(t)
                               \/ HideBoot(t) \/ ReadEpoch(t) \/ BumpEpoch(t)
<1> DEFINE Quiet == UNCHANGED <<epoch, link, boot, seenEpoch, liveFenced, fenceMark>>
<1>1. CASE UNCHANGED coVars
  BY <1>1 DEF coVars, coordVars, vars, state
<1>2. ASSUME NEW t \in Threads, \/ \E c \in Published : Publish(t, c)
                                \/ \E r \in Requests : CancelFrame(t, r) \/ Submit(t, r)
                                \/ \E r, s \in Requests : SupersedeFrame(t, r, s)
                                \/ \E p \in PlanIds, fp \in Fingerprints :
                                     RevalidateFrame(t, p, fp)
      PROVE  Quiet
  BY <1>2 DEF Publish, IngestCandidate, CancelFrame, Cancel, Submit, ScheduleSnapshot,
     SupersedeFrame, Supersede, RevalidateFrame, Revalidate, coordVars, state
<1>3. ASSUME NEW t \in Threads, LiveVeto(t) \/ Decide(t) PROVE Quiet
  BY <1>3 DEF LiveVeto, Decide, ScheduleNone, SchedulePlan, vars, state
<1>4. ASSUME NEW t \in Threads, \/ \E p \in PlanIds : CommitFrame(t, p)
                                \/ InMemoryBroker(t) \/ CommitEnds(t)
      PROVE  Quiet
  BY <1>4 DEF CommitFrame, CommitBegin, InMemoryBroker, BrokerCommit, CommitEnds,
     Commit, CommitSucceeds, CommitTooLate, CommitRelease, CommitFails, coordVars, state
<1>5. ASSUME NEW t \in Threads, \/ \E p \in PlanIds : HandoffFrame(t, p)
                                \/ CurrentAuthorityExec(t) \/ HandoffEnds(t)
      PROVE  Quiet
  BY <1>5 DEF HandoffFrame, HandoffBegin, CurrentAuthorityExec, ExecAuthorize, ExecDeny,
     HandoffEnds, Handoff, HandoffStarts, HandoffDropped, HandoffDenied, coordVars, state
<1>6. QED
  BY <1>1, <1>2, <1>3, <1>4, <1>5 DEF CoNext, Serve

\* A mark that is set stays as it is.
LEMMA MarksStay ==
  ASSUME CoIInv, [CoNext]_coVars, NEW b \in WorkerBoots, fenceMark[b] # 0
  PROVE  fenceMark'[b] = fenceMark[b]
<1>1. CASE UNCHANGED fenceMark
  BY <1>1
<1>2. ASSUME NEW t \in Threads, FenceBoot(t) PROVE fenceMark'[b] = fenceMark[b]
  BY <1>2 DEF FenceBoot, CoIInv, CoTypeOK
<1>3. QED
  BY <1>1, <1>2, DropKinds DEF Register, Drop, Accept, HideBoot, ReadEpoch, BumpEpoch

\* Each connection that drops keeps its boot, and has its mark when it must.
LEMMA FenceMarksStep ==
  ASSUME CoIInv, [CoNext]_coVars
  PROVE  FenceMarks'
<1>1. /\ nextPlanId \in Nat \ {0} /\ nextPlanId' \in Nat /\ nextPlanId <= nextPlanId'
      /\ WorkerBoots' = WorkerBoots
  BY PlansSurvive, SchedulerStep DEF CoIInv, CoTypeOK, TypeOK, WorkerBoots
<1>2. \A b \in WorkerBoots : fenceMark[b] \in Nat
  BY DEF CoIInv, CoTypeOK
<1> USE DEF CoIInv, CoTypeOK, FenceMarks, DropSteps
<1>3. CASE UNCHANGED <<epoch, link, boot, seenEpoch, liveFenced, fenceMark>>
  BY <1>1, <1>2, <1>3
<1>4. ASSUME NEW t \in Threads, \/ \E b \in WorkerBoots : Register(t, b)
                                \/ Drop(t) \/ Accept(t)
      PROVE  FenceMarks'
  BY <1>1, <1>2, <1>4 DEF Register, Ready, Drop, Accept
<1>5. ASSUME NEW t \in Threads, FenceBoot(t) PROVE FenceMarks'
  <2>1. boot[t] \in WorkerBoots
    BY <1>5 DEF FenceBoot
  <2>2. \A b \in WorkerBoots : fenceMark'[b] = IF b = boot[t] /\ fenceMark[b] = 0
                                               THEN nextPlanId ELSE fenceMark[b]
    BY <1>5 DEF FenceBoot
  <2>3. QED
    BY <1>1, <1>2, <1>5, <2>1, <2>2 DEF FenceBoot
<1>6. ASSUME NEW t \in Threads, HideBoot(t) \/ ReadEpoch(t) \/ BumpEpoch(t)
      PROVE  FenceMarks'
  BY <1>1, <1>2, <1>6 DEF HideBoot, ReadEpoch, BumpEpoch
<1>7. QED
  BY <1>3, <1>4, <1>5, <1>6, DropKinds

\* The marked plans of a drop are stopped as soon as the epoch it read is left.
LEMMA EpochsSeenStep ==
  ASSUME CoIInv, [CoNext]_coVars
  PROVE  EpochsSeen'
<1>1. epoch \in Nat /\ epoch' \in Nat /\ epoch <= epoch' /\ [Next]_vars
  BY PlansSurvive, SchedulerStep DEF CoIInv
<1>2. \A u \in Threads : seenEpoch[u] \in Nat
  BY DEF CoIInv, CoTypeOK
<1>3. ASSUME NEW u \in Threads, link[u] = "bumping", NEW b, b = boot[u],
             seenEpoch[u] # epoch \/ epoch' # epoch
      PROVE  MarkedStopped(b)'
  <2>1. b \in WorkerBoots /\ fenceMark[b] # 0
    BY <1>3 DEF CoIInv, CoTypeOK, FenceMarks, DropSteps
  <2>2. /\ fenceMark'[b] = fenceMark[b] /\ fenceMark[b] \in Nat
        /\ fenceMark[b] <= nextPlanId
    BY <2>1, MarksStay DEF CoIInv, CoTypeOK, FenceMarks
  <2>3. CASE epoch' # epoch
    BY <1>1, <2>3, MarkReached DEF CoIInv
  <2>4. CASE seenEpoch[u] # epoch
    <3>1. MarkedStopped(b)
      BY <1>3, <2>4 DEF CoIInv, EpochsSeen
    <3>2. QED
      BY <1>1, <2>2, <3>1, MarkKept DEF CoIInv
  <2>5. QED
    BY <1>3, <2>3, <2>4
<1>4. ASSUME NEW u \in Threads
      PROVE  /\ seenEpoch'[u] <= epoch'
             /\ link'[u] = "bumping" /\ seenEpoch'[u] # epoch' =>
                  /\ link[u] = "bumping" /\ boot'[u] = boot[u]
                  /\ seenEpoch'[u] = seenEpoch[u]
  <2>1. seenEpoch[u] <= epoch
    BY DEF CoIInv, EpochsSeen
  <2>2. CASE UNCHANGED <<epoch, link, boot, seenEpoch, liveFenced, fenceMark>>
    BY <1>1, <1>2, <2>1, <2>2
  <2>3. ASSUME NEW t \in Threads, \/ \E b \in WorkerBoots : Register(t, b)
                                  \/ Drop(t) \/ Accept(t) \/ FenceBoot(t) \/ HideBoot(t)
        PROVE  /\ seenEpoch' = seenEpoch
               /\ link'[u] = "bumping" => link[u] = "bumping" /\ boot'[u] = boot[u]
    BY <2>3 DEF Register, Ready, Drop, Accept, FenceBoot, HideBoot, CoIInv, CoTypeOK
  <2>4. ASSUME NEW t \in Threads, ReadEpoch(t) \/ BumpEpoch(t)
        PROVE  /\ seenEpoch'[u] <= epoch'
               /\ link'[u] = "bumping" /\ seenEpoch'[u] # epoch' =>
                    /\ link[u] = "bumping" /\ boot'[u] = boot[u]
                    /\ seenEpoch'[u] = seenEpoch[u]
    BY <1>1, <1>2, <2>1, <2>4 DEF ReadEpoch, BumpEpoch, vars, state, CoIInv, CoTypeOK
  <2>5. QED
    BY <1>1, <1>2, <2>1, <2>2, <2>3, <2>4, DropKinds
<1>5. QED
  BY <1>1, <1>3, <1>4 DEF EpochsSeen, MarkedStopped

\* A drop takes one of the epochs left when it begins and gives it back when
\* it ends; only then it may have raised the epoch, by one at most.
LEMMA EpochRoomStep ==
  ASSUME CoIInv, [CoNext]_coVars
  PROVE  EpochRoom'
<1>1. epoch \in Nat /\ epoch' \in Nat /\ MaxEpoch \in Nat
  BY PlansSurvive, SchedulerStep, BoundsAssumption DEF CoIInv
<1>2. IsFiniteSet(Dropping) /\ Cardinality(Dropping) \in Nat
  BY ConnectionsAssumption, FS_Subset, FS_CardinalityType DEF Dropping
<1>3. epoch + Cardinality(Dropping) <= MaxEpoch /\ link \in [Threads -> {"open", "closed"} \cup DropSteps]
  BY DEF CoIInv, CoTypeOK, EpochRoom
<1>4. ASSUME epoch' = epoch, Dropping' = Dropping PROVE EpochRoom'
  BY <1>3, <1>4 DEF EpochRoom
<1>5. CASE UNCHANGED <<epoch, link, boot, seenEpoch, liveFenced, fenceMark>>
  BY <1>4, <1>5 DEF Dropping
<1>6. ASSUME NEW t \in Threads, \/ \E b \in WorkerBoots : Register(t, b)
                                \/ Accept(t) \/ FenceBoot(t) \/ HideBoot(t) \/ ReadEpoch(t)
      PROVE  EpochRoom'
  <2>1. epoch' = epoch
    BY <1>6 DEF Register, Accept, FenceBoot, FenceWorker, HideBoot, ReadEpoch, vars, state
  <2>2. Dropping' = Dropping
    BY <1>3, <1>6 DEF Dropping, DropSteps, Register, Accept, FenceBoot, HideBoot, ReadEpoch
  <2>3. QED
    BY <1>4, <2>1, <2>2
<1>7. ASSUME NEW t \in Threads, Drop(t) PROVE EpochRoom'
  <2>1. epoch' = epoch
    BY <1>7 DEF Drop, vars, state
  <2>2. CASE boot[t] = NoBoot
    <3>1. Dropping' = Dropping
      BY <1>3, <1>7, <2>2 DEF Drop, Ready, Dropping, DropSteps
    <3>2. QED
      BY <1>4, <2>1, <3>1
  <2>3. CASE boot[t] # NoBoot
    <3>1. Dropping' = Dropping \cup {t} /\ t \notin Dropping
      BY <1>3, <1>7, <2>3 DEF Drop, Ready, Dropping, DropSteps
    <3>2. Cardinality(Dropping') = Cardinality(Dropping) + 1
      BY <1>2, <3>1, FS_AddElement
    <3>3. epoch + Cardinality(Dropping) < MaxEpoch
      BY <1>7, <2>3 DEF Drop
    <3>4. QED
      BY <1>1, <1>2, <2>1, <3>2, <3>3 DEF EpochRoom
  <2>4. QED
    BY <2>2, <2>3
<1>8. ASSUME NEW t \in Threads, BumpEpoch(t) PROVE EpochRoom'
  <2>1. Dropping' = Dropping \ {t} /\ t \in Dropping
    BY <1>3, <1>8 DEF BumpEpoch, Dropping, DropSteps
  <2>2. Cardinality(Dropping') = Cardinality(Dropping) - 1
    BY <1>2, <2>1, FS_RemoveElement
  <2>3. epoch' <= epoch + 1
    BY <1>1, <1>8 DEF BumpEpoch, SetEpoch, vars, state, CoIInv, CoTypeOK, EpochsSeen
  <2>4. QED
    BY <1>1, <1>2, <1>3, <2>2, <2>3 DEF EpochRoom
<1>9. QED
  BY <1>5, <1>6, <1>7, <1>8, DropKinds

\* The fence of a boot is complete only when its last drop ends, and that drop
\* either raised the epoch or found it raised.
LEMMA FencedPlansStep ==
  ASSUME CoIInv, [CoNext]_coVars
  PROVE  FencedPlansStopped'
<1>1. WorkerBoots' = WorkerBoots /\ [Next]_vars
  BY SchedulerStep DEF WorkerBoots
<1> SUFFICES ASSUME NEW b \in WorkerBoots, FenceDone(b)' PROVE MarkedStopped(b)'
  BY <1>1 DEF FencedPlansStopped, MarkedStopped
<1>2. CASE epoch' # epoch
  BY <1>1, <1>2, MarkReached DEF CoIInv
<1>3. ASSUME b \in liveFenced, MarkedStopped(b) PROVE MarkedStopped(b)'
  <2>1. fenceMark[b] # 0 /\ fenceMark[b] \in Nat /\ fenceMark[b] <= nextPlanId
    BY <1>3 DEF CoIInv, CoTypeOK, FenceMarks
  <2>2. QED
    BY <1>1, <1>3, <2>1, MarksStay, MarkKept DEF CoIInv
<1>4. CASE FenceDone(b)
  BY <1>3, <1>4 DEF CoIInv, FencedPlansStopped, MarkedStopped, FenceDone
<1>5. CASE epoch' = epoch /\ ~FenceDone(b)
  <2>1. PICK t \in Threads : BumpEpoch(t) /\ boot[t] = b
    <3>1. ~UNCHANGED <<epoch, link, boot, seenEpoch, liveFenced, fenceMark>>
      BY <1>5 DEF FenceDone
    <3>2. ASSUME NEW t \in Threads, \/ \E c \in WorkerBoots : Register(t, c)
                                    \/ Drop(t) \/ Accept(t) \/ FenceBoot(t)
                                    \/ HideBoot(t) \/ ReadEpoch(t)
          PROVE  FALSE
      BY <1>5, <3>2 DEF FenceDone, Register, Ready, Drop, Accept, FenceBoot, HideBoot,
         ReadEpoch, DropSteps, CoIInv, CoTypeOK
    <3>3. ASSUME NEW t \in Threads, BumpEpoch(t), boot[t] # b PROVE FALSE
      BY <1>5, <3>3 DEF FenceDone, BumpEpoch, CoIInv, CoTypeOK
    <3>4. QED
      BY <3>1, <3>2, <3>3, DropKinds
  <2>2. b \in liveFenced
    BY <2>1 DEF FenceDone, BumpEpoch
  <2>3. seenEpoch[t] # epoch
    <3>1. epoch \in Nat /\ seenEpoch[t] \in Nat
      BY DEF CoIInv, CoTypeOK, TypeOK
    <3>2. QED
      BY <1>5, <2>1, <3>1 DEF BumpEpoch, SetEpoch
  <2>4. MarkedStopped(b)
    BY <2>1, <2>3 DEF CoIInv, EpochsSeen, BumpEpoch
  <2>5. QED
    BY <1>3, <2>2, <2>4
<1>6. QED
  BY <1>2, <1>4, <1>5

\* A pass stays between its snapshot and its plan while others run.
LEMMA PassKinds ==
  ASSUME CoIInv, [CoNext]_coVars
  PROVE  \/ /\ UNCHANGED <<vetted, allowed, hidden>> /\ liveFenced \subseteq liveFenced'
            /\ \A u \in Threads : pc'[u] = "filtering" <=> pc[u] = "filtering"
         \/ \E t \in Threads : (\E r \in Requests : Submit(t, r)) \/ LiveVeto(t) \/ Decide(t)
<1> DEFINE Quiet ==
      /\ UNCHANGED <<vetted, allowed, hidden>> /\ liveFenced \subseteq liveFenced'
      /\ \A u \in Threads : pc'[u] = "filtering" <=> pc[u] = "filtering"
<1> USE DEF CoIInv, CoTypeOK, TypeOK, coordVars, state, threadVars, vars
<1>1. CASE UNCHANGED coVars
  BY <1>1 DEF coVars
<1>2. ASSUME NEW t \in Threads, \/ \E c \in Published : Publish(t, c)
                                \/ \E r \in Requests : CancelFrame(t, r)
                                \/ \E r, s \in Requests : SupersedeFrame(t, r, s)
                                \/ \E p \in PlanIds, fp \in Fingerprints :
                                     RevalidateFrame(t, p, fp)
      PROVE  Quiet
  BY <1>2 DEF Publish, IngestCandidate, CancelFrame, Cancel, SupersedeFrame, Supersede,
     RevalidateFrame, Revalidate
<1>3. ASSUME NEW t \in Threads, \/ \E p \in PlanIds : CommitFrame(t, p)
                                \/ InMemoryBroker(t) \/ CommitEnds(t)
      PROVE  Quiet
  BY <1>3 DEF CommitFrame, CommitBegin, InMemoryBroker, BrokerCommit, CommitEnds, Commit,
     CommitSucceeds, CommitTooLate, CommitRelease, CommitFails, GoTo, Return
<1>4. ASSUME NEW t \in Threads, \/ \E p \in PlanIds : HandoffFrame(t, p)
                                \/ CurrentAuthorityExec(t) \/ HandoffEnds(t)
      PROVE  Quiet
  BY <1>4 DEF HandoffFrame, HandoffBegin, CurrentAuthorityExec, ExecAuthorize, ExecDeny,
     HandoffEnds, Handoff, HandoffStarts, HandoffDropped, HandoffDenied, GoTo, Return
<1>5. ASSUME NEW t \in Threads, \/ \E b \in WorkerBoots : Register(t, b)
                                \/ Drop(t) \/ Accept(t) \/ FenceBoot(t)
                                \/ HideBoot(t) \/ ReadEpoch(t) \/ BumpEpoch(t)
      PROVE  Quiet
  BY <1>5 DEF Register, Drop, Accept, FenceBoot, FenceWorker, HideBoot, ReadEpoch,
     BumpEpoch, SetEpoch
<1>6. QED
  BY <1>1, <1>2, <1>3, <1>4, <1>5 DEF CoNext, Serve

\* Boots are only ever added to LiveState.fenced, so what the veto let through
\* was not hidden when the pass began.
LEMMA VetoKeptStep ==
  ASSUME CoIInv, [CoNext]_coVars
  PROVE  VetoKept'
<1> USE DEF CoIInv, CoTypeOK, TypeOK, VetoKept
<1>1. CASE /\ UNCHANGED <<vetted, allowed, hidden>> /\ liveFenced \subseteq liveFenced'
           /\ \A u \in Threads : pc'[u] = "filtering" <=> pc[u] = "filtering"
  BY <1>1
<1>2. ASSUME NEW t \in Threads, NEW r \in Requests, Submit(t, r) PROVE VetoKept'
  BY <1>2 DEF Submit, ScheduleSnapshot, GoTo
<1>3. ASSUME NEW t \in Threads, LiveVeto(t) PROVE VetoKept'
  BY <1>3 DEF LiveVeto, vars, threadVars
<1>4. ASSUME NEW t \in Threads, Decide(t) PROVE VetoKept'
  BY <1>4 DEF Decide, ScheduleNone, SchedulePlan, Return
<1>5. QED
  BY <1>1, <1>2, <1>3, <1>4, PassKinds

-----------------------------------------------------------------------------
\* The coordinator starts with no connection dropping and nothing fenced.
LEMMA CoIInvInit == CoInit => CoIInv
<1> SUFFICES ASSUME CoInit PROVE CoIInv
  OBVIOUS
<1>1. Dropping = {} /\ Cardinality({}) = 0
  BY FS_EmptySet DEF CoInit, Dropping, DropSteps
<1>2. CoTypeOK /\ IInv
  BY IInvInit, BoundsAssumption DEF CoInit, CoTypeOK, IInv
<1>3. epoch = 1 /\ nextPlanId = 1 /\ pc = [t \in Threads |-> "idle"]
  BY DEF CoInit, Init
<1>4. FenceMarks /\ EpochsSeen /\ FencedPlansStopped /\ VetoKept
  BY <1>3 DEF CoInit, FenceMarks, EpochsSeen, FencedPlansStopped, FenceDone, VetoKept, DropSteps
<1>5. EpochRoom
  BY <1>1, <1>3, ConnectionsAssumption, BoundsAssumption DEF EpochRoom
<1>6. QED
  BY <1>2, <1>4, <1>5 DEF CoIInv

\* Each part of the invariant is kept by every step, given all of them.
LEMMA CoIInvStep == CoIInv /\ [CoNext]_coVars => CoIInv'
<1> SUFFICES ASSUME CoIInv, [CoNext]_coVars PROVE CoIInv'
  OBVIOUS
<1>1. IInv'
  BY SchedulerStep, IInvStep DEF CoIInv
<1>2. QED
  BY <1>1, CoTypeStep, FenceMarksStep, EpochsSeenStep, EpochRoomStep,
     FencedPlansStep, VetoKeptStep DEF CoIInv

\* The variables of the connections have their types, and the bound on epochs
\* never cuts off a drop.
THEOREM CoordinatorInductive == CoSpec => []CoIInv
<1>1. QED
  BY CoIInvInit, CoIInvStep, PTL DEF CoSpec

\* The types of connections, registered boots and drops under way, for any
\* number of connections (LiveState and serve_connection's locals).
THEOREM CoTypeCorrect == CoSpec => []CoTypeOK
<1>1. CoIInv => CoTypeOK
  BY DEF CoIInv
<1>2. QED
  BY <1>1, CoordinatorInductive, PTL

\* serve_connection and fence_worker_and_bump only use the scheduler as it may
\* be used: the coordinator implements Scheduler, so every theorem about Spec
\* holds of it, and it implements PlacementAuthority.
THEOREM CoordinatorSchedules == CoSpec => Spec /\ ImplementsPlacementAuthority
<1>1. CoInit => Init
  BY DEF CoInit
<1>2. CoIInv /\ [CoNext]_coVars => [Next]_vars
  BY SchedulerStep
<1>3. QED
  BY <1>1, <1>2, CoordinatorInductive, Refines, PTL DEF CoSpec, Spec

\* fence_worker_and_bump, for any number of drops that race for the epoch:
\* when the fence of a worker is complete, no plan issued before it began is
\* live, although set_epoch may have refused the drop's own update.
THEOREM FenceComplete == CoSpec => []FencedPlansStopped
<1>1. CoIInv => FencedPlansStopped
  BY DEF CoIInv
<1>2. QED
  BY <1>1, CoordinatorInductive, PTL

\* LiveVeto: a pass that begins after a worker was hidden never selects one of
\* its candidates.
THEOREM VetoHeeded == CoSpec => NextPassAvoidsFenced
<1>1. ASSUME CoIInv, [CoNext]_coVars, NEW t \in Threads, NEW p \in PlanIds' \ PlanIds,
             pc[t] = "filtering", pc'[t] = "idle"
      PROVE  plans'[p].cand.worker \notin hidden[t]
  <2>1. pc \in [Threads -> {"idle", "filtering"} \cup CommitSteps \cup HandoffSteps]
    BY <1>1 DEF CoIInv, CoTypeOK, TypeOK
  <2>2. Decide(t)
    <3>1. ASSUME NEW u \in Threads, NEW r \in Requests, Submit(u, r) PROVE FALSE
      BY <1>1, <2>1, <3>1 DEF Submit, ScheduleSnapshot, GoTo
    <3>2. ASSUME NEW u \in Threads, LiveVeto(u) PROVE FALSE
      BY <1>1, <3>2 DEF LiveVeto, vars, threadVars
    <3>3. ASSUME NEW u \in Threads, Decide(u), u # t PROVE FALSE
      BY <1>1, <2>1, <3>3 DEF Decide, ScheduleNone, SchedulePlan, Return
    <3>4. QED
      BY <1>1, <3>1, <3>2, <3>3, PassKinds
  <2>3. ~ScheduleNone(t)
    BY <1>1 DEF ScheduleNone, PlanIds
  <2>4. PICK w \in allowed[t] : vetted[t] /\ SchedulePlan(t, w)
    BY <2>2, <2>3 DEF Decide
  <2>5. w \in snap[t] /\ p = nextPlanId
    BY <1>1, <2>4, NewPlanFacts DEF SchedulePlan, CoIInv, IInv
  <2>6. plans'[p].cand = w
    BY <1>1, <2>4, <2>5, NewPlanFacts DEF CoIInv, IInv
  <2>7. QED
    BY <1>1, <2>4, <2>6 DEF CoIInv, VetoKept
<1>2. CoIInv /\ [CoNext]_coVars =>
        \A t \in Threads, p \in PlanIds' \ PlanIds :
          pc[t] = "filtering" /\ pc'[t] = "idle" =>
            plans'[p].cand.worker \notin hidden[t]
  BY <1>1
<1>3. QED
  BY <1>2, CoordinatorInductive, PTL DEF CoSpec, NextPassAvoidsFenced

=============================================================================
