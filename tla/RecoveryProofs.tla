--------------------------- MODULE RecoveryProofs ---------------------------
(***************************************************************************)
(* The scheduler with its state file, for every number of threads, savers, *)
(* requests, candidates, plans, epochs and crashes:                        *)
(*                                                                         *)
(*   every guarantee of the scheduler survives crashes and restores: its   *)
(*   inductive invariant IInv is kept by Crash and Restore too;            *)
(*   a plan from the file never works again, and neither does any plan of  *)
(*   a request whose cancellation was in the file;                         *)
(*   what the first process saves, at any moment, can be loaded.           *)
(*                                                                         *)
(* A restored scheduler satisfies IInv although its ledger is empty,       *)
(* because conservative recovery leaves no plan in a state that claims a   *)
(* commitment; that is why IInv may not say that evidence is always backed.*)
(***************************************************************************)
EXTENDS Recovery, SchedulerProofs, WellFoundedInduction

\* A bounded set of numbers that has an element has a greatest one.
LEMMA GreatestElement ==
  ASSUME NEW n \in Nat, NEW S, S \subseteq 0..n, S # {}
  PROVE  Max(S) \in S
<1> DEFINE below == {n - x : x \in S}
<1>1. below \subseteq Nat /\ below # {}
  <2>1. \A x \in S : n - x \in Nat
    OBVIOUS
  <2>2. PICK x \in S : TRUE
    OBVIOUS
  <2>3. n - x \in below
    OBVIOUS
  <2> QED  BY <2>1, <2>3
<1>2. PICK d \in below : \A e \in below : ~(<<e, d>> \in OpToRel(<, Nat))
  BY <1>1, NatLessThanWellFounded, WFMin
<1>3. PICK x \in S : d = n - x
  OBVIOUS
<1>4. ASSUME NEW y \in S
      PROVE  x >= y
  <2>1. n - y \in below
    OBVIOUS
  <2>2. ~(<<n - y, d>> \in OpToRel(<, Nat))
    BY <1>2, <2>1
  <2>3. ~(n - y < d)
    BY <1>1, <2>1, <2>2 DEF OpToRel
  <2> QED  BY <1>3, <2>3
<1>5. \E m \in S : \A y \in S : m >= y
  BY <1>4
<1> QED  BY <1>5 DEF Max

-----------------------------------------------------------------------------
\* What snapshot hands to the codec is a well-formed image.
LEMMA SnapshotIsImage ==
  ASSUME RecIInv
  PROVE  IsImage(Snapshot)
<1>1. /\ epoch \in Nat /\ authority \in Nat
      /\ requests \subseteq Requests /\ cancelled \subseteq Requests
      /\ nextPlanId \in 1..(MaxPlans + 1)
      /\ plans \in [1..(nextPlanId - 1) -> Plan]
      /\ candidates \subseteq Published
  BY BoundsAssumption DEF RecIInv, RecTypeOK, TypeOK, PlanIds
<1>2. {c.id : c \in candidates} \subseteq {c.id : c \in Published}
  BY <1>1
<1>3. Snapshot \in [epoch : Nat, authority : Nat, nextPlanId : {nextPlanId},
                    requests : SUBSET Requests, plans : [1..(nextPlanId - 1) -> Plan],
                    cancelled : SUBSET Requests,
                    candidateIdentities : SUBSET {c.id : c \in Published}]
  BY <1>1, <1>2 DEF Snapshot
<1> QED  BY <1>1, <1>3 DEF IsImage

\* Whatever call is in flight, the first process's snapshot can be loaded.
LEMMA SnapshotLoadable ==
  ASSUME RecIInv, crashes = 0
  PROVE  Loadable(Snapshot)
<1>1. Snapshot # NoImage
  BY SnapshotIsImage, NoImageAssumption
<1>2. ASSUME NEW p \in PlanIds
      PROVE  /\ p < nextPlanId
             /\ plans[p].cand.id \in HeldIdentities
             /\ plans[p].state \in BackedStates => plans[p].hasCommitmentEvidence
  <2>1. nextPlanId \in Nat
    BY DEF RecIInv, IInv, TypeOK
  <2>2. p < nextPlanId
    BY <2>1 DEF PlanIds
  <2> QED  BY <2>2 DEF RecIInv, IdentitiesHeld, IInv, LedgerMatches
<1>3. DOMAIN plans = PlanIds
  BY DEF RecIInv, IInv, TypeOK
<1> QED  BY <1>1, <1>2, <1>3 DEF Loadable, Snapshot, HeldIdentities

\* The steps of SAVE leave the scheduler as it is.
LEMMA SchedulerUntouched ==
  ASSUME RecIInv, UNCHANGED <<vars, running, crashes, history>>
  PROVE  /\ TypeOK' /\ IInv' /\ running' \in BOOLEAN /\ crashes' \in 0..MaxCrashes
         /\ restoredMark' \in 1..nextPlanId' /\ owed' \subseteq Requests
         /\ (~running => Init)' /\ RecoveredNeverWorks' /\ (owed \subseteq cancelled)'
         /\ (~running => crashes # 0)' /\ IdentitiesHeld'
<1>1. TypeOK' /\ IInv'
  BY IInvStep, TypeStep DEF RecIInv, IInv
<1>2. UNCHANGED <<epoch, authority, candidates, requests, plans, nextPlanId, latest,
                  cancelled, fencedWorkers, fencedSources, pc, job, reqOf, snap, tok,
                  ledger, nextToken, execGrants>>
  BY DEF vars, state, threadVars, external
<1>3. (~running => Init)'
  BY <1>2 DEF RecIInv, RecTypeOK, Init
<1>4. /\ RecoveredNeverWorks' /\ (owed \subseteq cancelled)' /\ IdentitiesHeld'
      /\ restoredMark' \in 1..nextPlanId' /\ owed' \subseteq Requests
      /\ running' \in BOOLEAN /\ crashes' \in 0..MaxCrashes /\ (~running => crashes # 0)'
  BY <1>2 DEF RecIInv, RecTypeOK, history, RecoveredNeverWorks, IdentitiesHeld,
     HeldIdentities, PlanIds
<1> QED  BY <1>1, <1>3, <1>4

\* SAVE truncates the file.
LEMMA SaveOpenInv ==
  ASSUME RecIInv, NEW t \in Savers, SaveOpen(t)
  PROVE  RecIInv'
<1>1. /\ file' = NoImage /\ image' = image
      /\ writer[t] = "idle" /\ writer' = [writer EXCEPT ![t] = "opened"]
      /\ UNCHANGED <<vars, running, crashes, history>>
  BY DEF SaveOpen
<1>2. RecTypeOK'
  BY <1>1, SchedulerUntouched DEF RecIInv, RecTypeOK
<1>3. ImagesLoadable' /\ FirstSaveLoadable'
  BY <1>1 DEF RecIInv, RecTypeOK, ImagesLoadable, FirstSaveLoadable
<1> QED  BY <1>1, <1>2, <1>3, SchedulerUntouched DEF RecIInv

\* SAVE serialises the state under the mutex.
LEMMA SaveSnapshotInv ==
  ASSUME RecIInv, NEW t \in Savers, SaveSnapshot(t)
  PROVE  RecIInv'
<1>1. /\ file' = file /\ image' = [image EXCEPT ![t] = Snapshot]
      /\ writer' = [writer EXCEPT ![t] = "serialised"]
      /\ UNCHANGED <<vars, running, crashes, history>>
  BY DEF SaveSnapshot
<1>2. Snapshot # NoImage /\ IsImage(Snapshot)
  BY SnapshotIsImage, NoImageAssumption
<1>3. RecTypeOK'
  BY <1>1, <1>2, SchedulerUntouched DEF RecIInv, RecTypeOK
<1>4. ImagesLoadable' /\ FirstSaveLoadable'
  BY <1>1, SnapshotLoadable DEF RecIInv, RecTypeOK, ImagesLoadable, FirstSaveLoadable
<1> QED  BY <1>1, <1>3, <1>4, SchedulerUntouched DEF RecIInv

\* The bytes reach the disk, or two writers leave a mixture.
LEMMA SaveCloseInv ==
  ASSUME RecIInv, NEW t \in Savers, SaveClose(t)
  PROVE  RecIInv'
<1>1. /\ writer[t] = "serialised" /\ file' \in {image[t], NoImage}
      /\ writer' = [writer EXCEPT ![t] = "idle"]
      /\ image' = [image EXCEPT ![t] = NoImage]
      /\ UNCHANGED <<vars, running, crashes, history>>
  BY DEF SaveClose
<1>2. RecTypeOK'
  BY <1>1, SchedulerUntouched DEF RecIInv, RecTypeOK
<1>3. ImagesLoadable' /\ FirstSaveLoadable'
  BY <1>1 DEF RecIInv, RecTypeOK, ImagesLoadable, FirstSaveLoadable
<1> QED  BY <1>1, <1>2, <1>3, SchedulerUntouched DEF RecIInv

-----------------------------------------------------------------------------
\* A process that dies leaves an empty scheduler behind, and the file.
LEMMA CrashInv ==
  ASSUME RecIInv, Crash
  PROVE  RecIInv'
<1>1. Init'
  BY DEF Crash, Init
<1>2. TypeOK' /\ IInv'
  <2>1. (Init => TypeOK)' /\ (Init => IInv)'
    BY TypeInit, IInvInit, PTL
  <2> QED  BY <1>1, <2>1
<1>3. /\ file' = file /\ image' = [t \in Savers |-> NoImage]
      /\ writer' = [t \in Savers |-> "idle"]
      /\ running' = FALSE /\ crashes' = crashes + 1 /\ crashes < MaxCrashes
      /\ restoredMark' = 1 /\ owed' = {} /\ nextPlanId' = 1
  BY DEF Crash
<1>4. crashes \in Nat /\ crashes' \in 0..MaxCrashes /\ crashes' # 0
  BY <1>3, MaxCrashesAssumption DEF RecIInv, RecTypeOK
<1>5. RecTypeOK'
  <2>1. /\ \A t \in Savers : writer'[t] = "idle" /\ image'[t] = NoImage
        /\ writer' \in [Savers -> {"idle", "opened", "serialised"}]
        /\ DOMAIN image' = Savers
    BY <1>3
  <2>2. restoredMark' \in 1..nextPlanId' /\ owed' \subseteq Requests
    BY <1>3
  <2>3. running' \in BOOLEAN
    BY <1>3
  <2>4. file' = NoImage \/ IsImage(file)'
    BY <1>3 DEF RecIInv, RecTypeOK
  <2> QED  BY <1>1, <1>2, <1>4, <2>1, <2>2, <2>3, <2>4 DEF RecTypeOK
<1>6. RecoveredNeverWorks' /\ (owed \subseteq cancelled)'
  BY <1>3 DEF RecoveredNeverWorks, PlanIds
<1>7. IdentitiesHeld' /\ ImagesLoadable' /\ FirstSaveLoadable'
  BY <1>4 DEF IdentitiesHeld, ImagesLoadable, FirstSaveLoadable
<1> QED  BY <1>2, <1>3, <1>4, <1>5, <1>6, <1>7 DEF RecIInv

\* The new process serves calls with what it started with.
LEMMA StartEmptyInv ==
  ASSUME RecIInv, StartEmpty
  PROVE  RecIInv'
<1>1. /\ running' = TRUE /\ crashes # 0
      /\ UNCHANGED <<vars, saveVars, crashes, history>>
  BY DEF StartEmpty, RecIInv
<1>2. UNCHANGED <<candidates, plans, nextPlanId, cancelled, snap>>
  BY <1>1 DEF vars, state, threadVars
<1>3. TypeOK' /\ IInv'
  BY <1>1, IInvStep, TypeStep DEF RecIInv, IInv
<1>4. RecTypeOK'
  BY <1>1, <1>2, <1>3 DEF RecIInv, RecTypeOK, saveVars, history
<1>5. RecoveredNeverWorks' /\ (owed \subseteq cancelled)'
  BY <1>1, <1>2 DEF RecIInv, RecoveredNeverWorks, PlanIds, history
<1>6. IdentitiesHeld' /\ ImagesLoadable' /\ FirstSaveLoadable'
  BY <1>1 DEF IdentitiesHeld, ImagesLoadable, FirstSaveLoadable
<1> QED  BY <1>1, <1>3, <1>4, <1>5, <1>6 DEF RecIInv

\* Conservative recovery leaves no plan live, and keeps terminal plans so.
LEMMA RecoveredFacts ==
  ASSUME NEW plan \in Plan
  PROVE  Recovered(plan) \in Plan /\ Recovered(plan).state \notin LiveStates
BY ForceFacts, StateNames DEF Recovered, LiveStates, Terminal

\* A restored scheduler satisfies the scheduler's invariant: no plan of it
\* claims anything, and nobody works on one.
LEMMA RestoreInv ==
  ASSUME RecIInv, Restore
  PROVE  RecIInv'
<1>1. PICK n \in 1..(MaxPlans + 1) :
        file \in [epoch : Nat, authority : Nat, nextPlanId : {n},
                  requests : SUBSET Requests, plans : [1..(n - 1) -> Plan],
                  cancelled : SUBSET Requests,
                  candidateIdentities : SUBSET {c.id : c \in Published}]
  BY DEF Restore, Loadable, RecIInv, RecTypeOK, IsImage
<1>2. n \in Nat \ {0} /\ n <= MaxPlans + 1 /\ n - 1 \in Nat
  BY BoundsAssumption
<1>3. /\ epoch' \in Nat /\ authority' \in Nat /\ nextPlanId' = n
      /\ requests' \subseteq Requests /\ cancelled' \subseteq Requests
      /\ DOMAIN file.plans = 1..(n - 1) /\ PlanIds' = 1..(n - 1)
      /\ candidates' = {} /\ fencedWorkers' = {} /\ fencedSources' = {}
      /\ restoredMark' = n /\ owed' = cancelled'
      /\ running' = TRUE /\ crashes' = crashes /\ crashes # 0
  BY <1>1 DEF Restore, PlanIds, RecIInv
<1>4. /\ plans' \in [PlanIds' -> Plan]
      /\ \A p \in PlanIds' : plans'[p].state \notin LiveStates
  <2>1. plans' = [p \in 1..(n - 1) |-> Recovered(file.plans[p])]
    BY <1>3 DEF Restore
  <2>2. \A p \in 1..(n - 1) : file.plans[p] \in Plan
    BY <1>1
  <2> QED  BY <1>3, <2>1, <2>2, RecoveredFacts
<1>5. latest' \in [Requests -> 0..(n - 1)]
  <2>1. ASSUME NEW r \in Requests
        PROVE  Max({0} \cup {p \in DOMAIN file.plans : file.plans[p].request = r})
                 \in 0..(n - 1)
    <3> DEFINE S == {0} \cup {p \in DOMAIN file.plans : file.plans[p].request = r}
    <3>1. S \subseteq 0..(n - 1) /\ S # {}
      BY <1>2, <1>3
    <3> HIDE DEF S
    <3>2. Max(S) \in S
      BY <1>2, <3>1, GreatestElement
    <3> QED  BY <3>1, <3>2 DEF S
  <2> QED  BY <2>1 DEF Restore
<1>6. /\ pc' = [t \in Threads |-> "idle"] /\ job' = [t \in Threads |-> 0]
      /\ reqOf' = [t \in Threads |-> NoRequest] /\ snap' = [t \in Threads |-> {}]
      /\ tok' = [t \in Threads |-> 0]
      /\ ledger' = {} /\ nextToken' = 1 /\ execGrants' = {}
  BY DEF Restore, threadVars, external, RecIInv, RecTypeOK, Init
<1>7. TypeOK'
  BY <1>2, <1>3, <1>4, <1>5, <1>6 DEF TypeOK, CommitSteps, HandoffSteps
<1>8. IInv'
  BY <1>4, <1>6, <1>7 DEF IInv, BackedByExternalOwners, NoOrphanedCommitment,
     OneCommitmentPerPlan, LiveUnderCurrentAuthority, CancelledNeverWorks,
     AwaitingHasOneOwner, CommitOwnership, HandoffOwnership, LedgerMatches,
     CommitSteps, HandoffSteps, LiveStates, BackedStates
<1>9. RecTypeOK'
  BY <1>2, <1>3, <1>7 DEF Restore, saveVars, RecIInv, RecTypeOK
<1>10. RecoveredNeverWorks' /\ (owed \subseteq cancelled)'
  BY <1>3, <1>4 DEF RecoveredNeverWorks
<1>11. IdentitiesHeld' /\ ImagesLoadable' /\ FirstSaveLoadable'
  BY <1>3 DEF IdentitiesHeld, ImagesLoadable, FirstSaveLoadable
<1> QED  BY <1>3, <1>8, <1>9, <1>10, <1>11 DEF RecIInv

-----------------------------------------------------------------------------
\* A cancellation is never taken back.
LEMMA CancelledKept ==
  ASSUME [Next]_vars
  PROVE  cancelled \subseteq cancelled'
BY DEF Next, Schedule, Broker, Commit, Exec, Handoff, SetEpoch, IngestCandidate,
   FenceWorker, FenceSource, Cancel, Supersede, Revalidate, ScheduleSnapshot,
   ScheduleNone, SchedulePlan, CommitBegin, BrokerCommit, BrokerRefuse,
   CommitSucceeds, CommitTooLate, CommitRelease, CommitFails, HandoffBegin,
   ExecAuthorize, ExecDeny, HandoffStarts, HandoffDropped, HandoffDenied,
   vars, state

\* What was held is held under the same identity: a candidate is refreshed,
\* never removed, also not when its boot is fenced.
LEMMA IdentitiesKept ==
  ASSUME [Next]_vars
  PROVE  HeldIdentities \subseteq HeldIdentities'
<1>1. CASE UNCHANGED candidates
  BY <1>1 DEF HeldIdentities
<1>2. CASE \E c \in Published : IngestCandidate(c)
  BY <1>2 DEF IngestCandidate, HeldIdentities
<1>3. CASE ~\E c \in Published : IngestCandidate(c)
  BY <1>1, <1>3 DEF Next, Schedule, Broker, Commit, Exec, Handoff, SetEpoch,
     FenceWorker, FenceSource, Cancel, Supersede, Revalidate, ScheduleSnapshot,
     ScheduleNone, SchedulePlan, CommitBegin, BrokerCommit, BrokerRefuse,
     CommitSucceeds, CommitTooLate, CommitRelease, CommitFails, HandoffBegin,
     ExecAuthorize, ExecDeny, HandoffStarts, HandoffDropped, HandoffDenied,
     vars, state
<1> QED  BY <1>2, <1>3

\* A copy of the candidates is taken, kept or dropped.
LEMMA CopiesKept ==
  ASSUME TypeOK, [Next]_vars, NEW t \in Threads
  PROVE  snap'[t] \in {snap[t], candidates, {}}
<1>1. snap \in [Threads -> SUBSET Published]
  BY DEF TypeOK
<1>2. CASE UNCHANGED snap
  BY <1>2
<1>3. CASE \E u \in Threads : Return(u)
  BY <1>1, <1>3 DEF Return
<1>4. CASE \E u \in Threads, r \in Requests : ScheduleSnapshot(u, r)
  BY <1>1, <1>4 DEF ScheduleSnapshot
<1>5. CASE ~\E u \in Threads, r \in Requests : ScheduleSnapshot(u, r)
  BY <1>2, <1>3, <1>5 DEF Next, Schedule, Broker, Commit, Exec, Handoff, SetEpoch,
     IngestCandidate, FenceWorker, FenceSource, Cancel, Supersede, Revalidate,
     ScheduleNone, SchedulePlan, CommitBegin, BrokerCommit, BrokerRefuse,
     CommitSucceeds, CommitTooLate, CommitRelease, CommitFails, HandoffBegin,
     ExecAuthorize, ExecDeny, HandoffStarts, HandoffDropped, HandoffDenied,
     vars, state, threadVars
<1> QED  BY <1>4, <1>5

\* A call of the scheduler, while files are written.
LEMMA CallInv ==
  ASSUME RecIInv, Call
  PROVE  RecIInv'
<1>1. /\ running = TRUE /\ [Next]_vars
      /\ UNCHANGED <<saveVars, running, crashes, history>>
  BY DEF Call, RecIInv, RecTypeOK
<1>2. TypeOK /\ IInv /\ TypeOK' /\ IInv'
  BY <1>1, IInvStep, TypeStep DEF RecIInv, IInv
<1>3. /\ nextPlanId \in Nat /\ nextPlanId' \in Nat /\ nextPlanId <= nextPlanId'
      /\ restoredMark \in Nat /\ restoredMark >= 1 /\ restoredMark <= nextPlanId
  BY <1>1, <1>2, PlansSurvive DEF RecIInv, RecTypeOK
<1>4. RecTypeOK'
  BY <1>1, <1>2, <1>3 DEF RecIInv, RecTypeOK, saveVars, history
<1>5. RecoveredNeverWorks'
  <2>1. ASSUME NEW p \in PlanIds', p < restoredMark
        PROVE  p \in PlanIds
    BY <1>3, <2>1 DEF PlanIds
  <2> QED  BY <1>1, <1>2, <2>1, PlansSurvive DEF RecIInv, RecoveredNeverWorks, history
<1>6. (owed \subseteq cancelled)'
  BY <1>1, CancelledKept DEF RecIInv, history
<1>7. IdentitiesHeld'
  <2> SUFFICES ASSUME crashes = 0 PROVE
        /\ \A p \in PlanIds' : plans'[p].cand.id \in HeldIdentities'
        /\ \A t \in Threads : \A c \in snap'[t] : c.id \in HeldIdentities'
    BY <1>1 DEF IdentitiesHeld
  <2>1. /\ \A p \in PlanIds : plans[p].cand.id \in HeldIdentities
        /\ \A t \in Threads : \A c \in snap[t] : c.id \in HeldIdentities
    BY DEF RecIInv, IdentitiesHeld
  <2>2. \A p \in PlanIds' : plans'[p].cand.id \in HeldIdentities
    BY <1>1, <1>2, <2>1, PlansKeepCandidates
  <2>3. \A t \in Threads : \A c \in snap'[t] : c.id \in HeldIdentities
    BY <1>1, <1>2, <2>1, CopiesKept DEF HeldIdentities
  <2> QED  BY <1>1, <2>2, <2>3, IdentitiesKept
<1>8. ImagesLoadable' /\ FirstSaveLoadable'
  BY <1>1 DEF RecIInv, ImagesLoadable, FirstSaveLoadable, saveVars, Loadable
<1> QED  BY <1>1, <1>2, <1>4, <1>5, <1>6, <1>7, <1>8 DEF RecIInv

-----------------------------------------------------------------------------
\* The first process starts with an empty scheduler and no file.
LEMMA RecIInvInit == RecInit => RecIInv
<1> SUFFICES ASSUME RecInit PROVE RecIInv
  OBVIOUS
<1>1. /\ TypeOK /\ IInv /\ nextPlanId = 1 /\ PlanIds = {}
      /\ \A t \in Threads : snap[t] = {}
  BY TypeInit, IInvInit DEF RecInit, Init, PlanIds
<1>2. /\ writer \in [Savers -> {"idle", "opened", "serialised"}] /\ DOMAIN image = Savers
      /\ \A t \in Savers : writer[t] = "idle" /\ image[t] = NoImage
      /\ file = NoImage
  BY DEF RecInit
<1>3. restoredMark \in 1..nextPlanId /\ owed = {} /\ crashes \in 0..MaxCrashes
  BY <1>1, MaxCrashesAssumption DEF RecInit
<1>4. running = TRUE
  BY DEF RecInit
<1> QED  BY <1>1, <1>2, <1>3, <1>4 DEF RecIInv, RecTypeOK, RecoveredNeverWorks,
         IdentitiesHeld, ImagesLoadable, FirstSaveLoadable

\* The inductive invariant is preserved: one lemma above per action.
LEMMA RecIInvStep == RecIInv /\ [RecNext]_recVars => RecIInv'
<1> SUFFICES ASSUME RecIInv, [RecNext]_recVars PROVE RecIInv'
  OBVIOUS
<1>1. CASE UNCHANGED recVars
  <2>1. UNCHANGED <<vars, running, crashes, history>> /\ UNCHANGED <<file, writer, image>>
    BY <1>1 DEF recVars, saveVars
  <2>2. RecTypeOK' /\ ImagesLoadable' /\ FirstSaveLoadable'
    BY <2>1, SchedulerUntouched
       DEF RecIInv, RecTypeOK, ImagesLoadable, FirstSaveLoadable, Loadable
  <2> QED  BY <2>1, <2>2, SchedulerUntouched DEF RecIInv
<1> QED  BY <1>1, SaveOpenInv, SaveSnapshotInv, SaveCloseInv, CrashInv, StartEmptyInv,
            RestoreInv, CallInv DEF RecNext

\* The guarantees of the scheduler, with its crashes and restores.
THEOREM RecoveryInductive == RecSpec => []RecIInv
<1>1. QED
  BY RecIInvInit, RecIInvStep, PTL DEF RecSpec

\* Every image on disk or under way is well formed and numbers its plans
\* without gaps (snapshot of scheduler.cpp), and a process that is down has
\* an empty scheduler, for all bounds.
THEOREM RecoveryTypes == RecSpec => []RecTypeOK
<1>1. RecIInv => RecTypeOK
  BY DEF RecIInv
<1>2. QED
  BY <1>1, RecoveryInductive, PTL

\* Commitments are backed and held once, and live plans are current, also in
\* a scheduler that came back from a file: restore of scheduler.cpp leaves
\* nothing behind that the scheduler's argument did not allow.
THEOREM GuaranteesSurvive ==
  RecSpec => [](/\ BackedByExternalOwners /\ NoOrphanedCommitment /\ OneCommitmentPerPlan
                /\ LiveUnderCurrentAuthority /\ CancelledNeverWorks /\ AwaitingHasOneOwner)
<1>1. RecIInv => /\ BackedByExternalOwners /\ NoOrphanedCommitment /\ OneCommitmentPerPlan
                 /\ LiveUnderCurrentAuthority /\ CancelledNeverWorks /\ AwaitingHasOneOwner
  BY DEF RecIInv, IInv
<1>2. QED
  BY <1>1, RecoveryInductive, PTL

\* Conservative recovery: a plan restored from the file never works again.
THEOREM RecoveredIsStopped == RecSpec => []RecoveredNeverWorks
<1>1. RecIInv => RecoveredNeverWorks
  BY DEF RecIInv
<1>2. QED
  BY <1>1, RecoveryInductive, PTL

\* A cancellation that reached the file binds the processes that restore it.
THEOREM CancellationSurvives == RecSpec => []CancelledAcrossRecovery
<1>1. RecIInv => CancelledAcrossRecovery
  BY DEF RecIInv, IInv, CancelledNeverWorks, CancelledAcrossRecovery
<1>2. QED
  BY <1>1, RecoveryInductive, PTL

\* No plan waits for a call of commit or handoff that died with its process.
THEOREM NobodyWaitsForTheDead == RecSpec => []NoWaitAcrossCrash
<1>1. RecIInv => NoWaitAcrossCrash
  BY DEF RecIInv, IInv, AwaitingHasOneOwner, NoWaitAcrossCrash, CommitOwner, HandoffOwner
<1>2. QED
  BY <1>1, RecoveryInductive, PTL

\* What the first process saves, in the middle of whatever calls, persist_load
\* accepts: the candidate of every plan is still held when the plan is saved.
THEOREM FirstProcessLoadable == RecSpec => []FirstSaveLoadable
<1>1. RecIInv => FirstSaveLoadable
  BY DEF RecIInv
<1>2. QED
  BY <1>1, RecoveryInductive, PTL

=============================================================================
