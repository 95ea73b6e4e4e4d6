------------------------------ MODULE Recovery ------------------------------
(***************************************************************************)
(* The scheduler with its state file: SAVE of coordinator_main.cpp,        *)
(* snapshot and restore of scheduler.cpp, persist_save and persist_load of *)
(* persistence.cpp, and a process that may die at any point.               *)
(*                                                                         *)
(* SAVE opens the file (which truncates it), takes the snapshot under the  *)
(* mutex, and the bytes are complete when the stream is closed; until then *)
(* what is on disk is no image.  A torn file and a file the checksum       *)
(* rejects are the same here.  A thread that serves SAVE does nothing else *)
(* meanwhile, so savers are a set of their own.                            *)
(*                                                                         *)
(* A new process starts with an empty scheduler.  It may load the file and *)
(* restore it, and the caller may then call set_epoch, which is what the   *)
(* repository's restart test does.  The broker and the execution fabric    *)
(* attribute nothing to the new process: ledger and execGrants are its own.*)
(***************************************************************************)
EXTENDS Scheduler, FiniteSetsExt

CONSTANTS
  Savers,       \* threads that serve SAVE
  NoImage,      \* no file, or one persist_load cannot parse
  MaxCrashes    \* bound: process deaths

\* What the fields of an image may hold, whatever process saved it.
IsImage(im) ==
  \E n \in 1..(MaxPlans + 1) :
    im \in [epoch : Nat, authority : Nat, nextPlanId : {n},
           requests : SUBSET Requests, plans : [1..(n - 1) -> Plan],
           cancelled : SUBSET Requests,
           candidateIdentities : SUBSET {c.id : c \in Published}]

ASSUME MaxCrashesAssumption == MaxCrashes \in Nat
ASSUME NoImageAssumption    == ~IsImage(NoImage)

VARIABLES
  file,          \* the image on disk, or NoImage
  writer,        \* where each saver is
  image,         \* the snapshot a saver has serialised, or NoImage
  running,       \* the process serves calls
  crashes,
  restoredMark,  \* history: plans below this id came from the file
  owed           \* history: requests cancelled in the image restored

saveVars  == <<file, writer, image>>
history   == <<restoredMark, owed>>
recVars   == <<vars, saveVars, running, crashes, history>>

\* Defect: the next plan id is not saved.
SnapshotForgetsNextId ==
  [epoch |-> epoch, authority |-> authority, nextPlanId |-> 1,
   requests |-> requests, plans |-> plans, cancelled |-> cancelled,
   candidateIdentities |-> {c.id : c \in candidates}]

\* What snapshot keeps of the state and the codec writes: of the candidates
\* the identity only, of latestPlanByRequest and the fenced boots nothing.
Snapshot ==
  [epoch |-> epoch, authority |-> authority, nextPlanId |-> nextPlanId,
   requests |-> requests, plans |-> plans, cancelled |-> cancelled,
   candidateIdentities |-> {c.id : c \in candidates}]

\* persist_load's cross-record checks on an image it can parse.
Loadable(im) ==
  /\ im # NoImage
  /\ \A p \in DOMAIN im.plans :
       /\ p < im.nextPlanId
       /\ im.plans[p].cand.id \in im.candidateIdentities
       /\ im.plans[p].state \in BackedStates => im.plans[p].hasCommitmentEvidence

RecTypeOK ==
  /\ TypeOK
  /\ file = NoImage \/ IsImage(file)
  /\ DOMAIN image = Savers
  /\ \A t \in Savers : image[t] = NoImage \/ IsImage(image[t])
  /\ writer \in [Savers -> {"idle", "opened", "serialised"}]
  /\ \A t \in Savers : writer[t] = "serialised" <=> image[t] # NoImage
  /\ running \in BOOLEAN /\ crashes \in 0..MaxCrashes
  /\ restoredMark \in 1..nextPlanId
  /\ owed \subseteq Requests
  /\ ~running => Init

RecInit ==
  /\ Init
  /\ file = NoImage
  /\ writer = [t \in Savers |-> "idle"]
  /\ image = [t \in Savers |-> NoImage]
  /\ running = TRUE /\ crashes = 0
  /\ restoredMark = 1 /\ owed = {}

-----------------------------------------------------------------------------
(* SAVE.                                                                   *)

SaveOpen(t) ==
  /\ running /\ writer[t] = "idle"
  /\ writer' = [writer EXCEPT ![t] = "opened"]
  /\ file' = NoImage
  /\ UNCHANGED <<vars, image, running, crashes, history>>

SaveSnapshot(t) ==
  /\ writer[t] = "opened"
  /\ writer' = [writer EXCEPT ![t] = "serialised"]
  /\ image' = [image EXCEPT ![t] = Snapshot]
  /\ UNCHANGED <<vars, file, running, crashes, history>>

\* The stream is closed.  Two saves that write the same file at the same time
\* may leave a mixture, which the checksum rejects.
SaveClose(t) ==
  /\ writer[t] = "serialised"
  /\ \/ file' = image[t]
     \/ /\ \E u \in Savers \ {t} : writer[u] = "serialised"
        /\ file' = NoImage
  /\ writer' = [writer EXCEPT ![t] = "idle"]
  /\ image' = [image EXCEPT ![t] = NoImage]
  /\ UNCHANGED <<vars, running, crashes, history>>

-----------------------------------------------------------------------------
(* The end of a process, and the next one.                                 *)

\* Everything but the file is gone; the new process has an empty scheduler.
Crash ==
  /\ running /\ crashes < MaxCrashes
  /\ running' = FALSE /\ crashes' = crashes + 1
  /\ restoredMark' = 1 /\ owed' = {}
  /\ writer' = [t \in Savers |-> "idle"]
  /\ image' = [t \in Savers |-> NoImage]
  /\ epoch' = 1 /\ authority' = 1
  /\ candidates' = {} /\ requests' = {} /\ plans' = [p \in {} |-> p]
  /\ nextPlanId' = 1 /\ latest' = [r \in Requests |-> 0]
  /\ cancelled' = {} /\ fencedWorkers' = {} /\ fencedSources' = {}
  /\ pc' = [t \in Threads |-> "idle"] /\ job' = [t \in Threads |-> 0]
  /\ reqOf' = [t \in Threads |-> NoRequest] /\ snap' = [t \in Threads |-> {}]
  /\ tok' = [t \in Threads |-> 0]
  /\ ledger' = {} /\ nextToken' = 1 /\ execGrants' = {}
  /\ UNCHANGED file

\* coordinator_main begins with the empty scheduler and never loads the file.
StartEmpty ==
  /\ ~running /\ running' = TRUE
  /\ UNCHANGED <<vars, saveVars, crashes, history>>

\* Defect: plans come back as they were saved.
RecoveredAsSaved(plan) == plan

\* Defect: only the plans nobody worked on are sent to revalidation.
RecoveredIdleOnly(plan) ==
  IF plan.state # "PLAN_READY" THEN plan
  ELSE ForceState(plan, "REVALIDATION_REQUIRED")

\* Conservative recovery: a plan that is not terminal must be revalidated.
Recovered(plan) ==
  IF plan.state \in Terminal THEN plan
  ELSE ForceState(plan, "REVALIDATION_REQUIRED")

\* Defect: the cancelled requests are not taken from the file.
RestoreForgetsCancelled ==
  /\ ~running /\ Loadable(file)
  /\ running' = TRUE
  /\ epoch' = file.epoch /\ authority' = file.authority
  /\ nextPlanId' = file.nextPlanId
  /\ requests' = file.requests /\ cancelled' = {}
  /\ plans' = [p \in DOMAIN file.plans |-> Recovered(file.plans[p])]
  /\ latest' = [r \in Requests |->
                 Max({0} \cup {p \in DOMAIN file.plans : file.plans[p].request = r})]
  /\ candidates' = {} /\ fencedWorkers' = {} /\ fencedSources' = {}
  /\ restoredMark' = file.nextPlanId /\ owed' = file.cancelled
  /\ UNCHANGED <<threadVars, external, saveVars, crashes>>

Restore ==
  /\ ~running /\ Loadable(file)
  /\ running' = TRUE
  /\ epoch' = file.epoch /\ authority' = file.authority
  /\ nextPlanId' = file.nextPlanId
  /\ requests' = file.requests /\ cancelled' = file.cancelled
  /\ plans' = [p \in DOMAIN file.plans |-> Recovered(file.plans[p])]
  /\ latest' = [r \in Requests |->
                 Max({0} \cup {p \in DOMAIN file.plans : file.plans[p].request = r})]
  /\ candidates' = {} /\ fencedWorkers' = {} /\ fencedSources' = {}
  /\ restoredMark' = file.nextPlanId /\ owed' = file.cancelled
  /\ UNCHANGED <<threadVars, external, saveVars, crashes>>

-----------------------------------------------------------------------------
\* A step of the scheduler.
Call ==
  /\ running /\ Next
  /\ UNCHANGED <<saveVars, running, crashes, history>>

RecNext ==
  \/ Call
  \/ \E t \in Savers : SaveOpen(t) \/ SaveSnapshot(t) \/ SaveClose(t)
  \/ Crash \/ StartEmpty \/ Restore

RecSpec == RecInit /\ [][RecNext]_recVars

-----------------------------------------------------------------------------
(* What recovery guarantees.                                               *)

\* A plan that came back from the file, whatever it was doing when it was
\* saved and whatever happened to it between the save and the crash, is never
\* ready, committed, launched or running again.
RecoveredNeverWorks ==
  \A p \in PlanIds : p < restoredMark => plans[p].state \notin LiveStates

\* A cancellation that reached the file outlives the process: no plan of the
\* request, restored or issued later, gets beyond PLAN_READY.
CancelledAcrossRecovery ==
  \A p \in PlanIds : plans[p].request \in owed =>
    plans[p].state \notin LiveStates \ {"PLAN_READY"}

\* A plan is never left waiting for a call that died with its process.
NoWaitAcrossCrash ==
  \A p \in PlanIds :
    plans[p].state \in {"AWAITING_RESOURCE_COMMIT", "AWAITING_EXECUTION"} =>
      \E t \in Threads : pc[t] \in CommitSteps \cup HandoffSteps /\ job[t] = p

\* What a process that was not itself recovered saves, at any point of any
\* call in flight, can be loaded: a plan's candidate is never forgotten while
\* the plan is held.
FirstSaveLoadable ==
  file # NoImage /\ crashes = 0 => Loadable(file)

-----------------------------------------------------------------------------
(* Why it is so.  With the invariant of the scheduler, which a restored    *)
(* scheduler satisfies as well as an empty one, this is inductive.         *)

HeldIdentities == {c.id : c \in candidates}

\* Until a process dies, an identity that is held once is held for good, so
\* the candidates of the plans and of the copies in use are all held.
IdentitiesHeld ==
  crashes = 0 =>
    /\ \A p \in PlanIds : plans[p].cand.id \in HeldIdentities
    /\ \A t \in Threads : \A c \in snap[t] : c.id \in HeldIdentities

\* The images under way are like the one on disk.
ImagesLoadable ==
  crashes = 0 => \A t \in Savers : writer[t] = "serialised" => Loadable(image[t])

RecIInv ==
  /\ RecTypeOK /\ IInv
  /\ RecoveredNeverWorks /\ owed \subseteq cancelled
  /\ ~running => crashes # 0
  /\ IdentitiesHeld /\ ImagesLoadable /\ FirstSaveLoadable

-----------------------------------------------------------------------------
(* What the documentation says and the code does not do.                   *)

\* "persist_save ... throws FabricError(Corruption) on a malformed snapshot"
\* (persistence.hpp): a file that was written completely can be loaded.
\* persist_save checks nothing, and after restore, which clears the
\* candidates, the snapshot names plans whose candidates it does not hold.
SavedIsLoadable == file # NoImage => Loadable(file)

=============================================================================
