----------------------------- MODULE Scheduler ------------------------------
(***************************************************************************)
(* The placement scheduler of scheduler.cpp: one SchedulerState behind one *)
(* mutex, called by any number of threads.  A step of this module is one   *)
(* critical section of that mutex, or one call of an external owner.       *)
(*                                                                         *)
(* schedule, commit and handoff release the mutex in the middle, so each   *)
(* is several steps and everything else may run between them:              *)
(*                                                                         *)
(*   schedule   snapshot of the candidates | filter and rank, then a plan  *)
(*   commit     AWAITING_RESOURCE_COMMIT | broker | verdict | release      *)
(*   handoff    AWAITING_EXECUTION | execution fabric | verdict            *)
(*                                                                         *)
(* set_epoch, ingest_candidate, fence_worker, fence_source, revalidate,    *)
(* cancel and supersede are one critical section each.  A call that is     *)
(* refused and changes nothing is a stuttering step.                       *)
(*                                                                         *)
(* Which candidate wins is left open here (any candidate of the snapshot): *)
(* no property below depends on the filter or on the ranking.              *)
(*                                                                         *)
(* An operator marked "Defect:" is a deliberately wrong variant of the     *)
(* definition that follows it, used only to show that a property can tell  *)
(* the two apart; no specification uses it.                                *)
(***************************************************************************)
EXTENDS Naturals, FiniteSets, Lifecycle

CONSTANTS
  Threads,     \* callers of the scheduler
  Requests,    \* SchedulingRequestId
  NoRequest,   \* what an idle thread works on
  Published,   \* the candidate records workers may publish
  MaxPlans,    \* bound: plans issued
  MaxEpoch     \* bound: largest coordinator epoch

\* A candidate is its id, its generation, the boots that published it and the
\* vector of evidence generations the plan's fingerprint copies.
ASSUME PublishedAssumption ==
  \A c \in Published : /\ c = [id |-> c.id, gen |-> c.gen, worker |-> c.worker,
                               source |-> c.source, evidence |-> c.evidence]
                       /\ c.gen \in Nat \ {0}
ASSUME NoRequestAssumption == NoRequest \notin Requests
ASSUME BoundsAssumption    == MaxPlans \in Nat /\ MaxEpoch \in Nat

WorkerBoots == {c.worker : c \in Published}
SourceBoots == {c.source : c \in Published}

VARIABLES
  epoch,          \* CoordinatorEpoch
  authority,      \* AuthorityGeneration
  candidates,     \* the candidates held, at most one per id
  requests,       \* requests stored because no candidate was eligible
  plans,          \* plan id -> plan
  nextPlanId,     \* ids are issued in order and never removed
  latest,         \* latestPlanByRequest, 0 when there is none
  cancelled,      \* cancelledRequests
  fencedWorkers,
  fencedSources,
  pc,             \* where each thread is between two critical sections
  job,            \* the plan a committing or launching thread works on, or 0
  reqOf,          \* the request a scheduling thread works on
  snap,           \* its copy of the candidates
  tok,            \* the token the broker gave a committing thread, or 0
  ledger,         \* external: the broker's outstanding commitments
  nextToken,      \* external: the next commitment token
  execGrants      \* external: plans the execution fabric authorized

state      == <<epoch, authority, candidates, requests, plans, nextPlanId,
                latest, cancelled, fencedWorkers, fencedSources>>
threadVars == <<pc, job, reqOf, snap, tok>>
external   == <<ledger, nextToken, execGrants>>
vars       == <<state, threadVars, external>>

PlanIds == 1..(nextPlanId - 1)

Plan == [request : Requests, cand : Published, epoch : Nat, authority : Nat,
         state : PlacementLifecycleState, hasCommitmentEvidence : BOOLEAN,
         supersededBy : Nat]

CommitSteps  == {"committing", "granted", "refused", "releasing"}
HandoffSteps == {"authorizing", "authorized", "denied"}

TypeOK ==
  /\ epoch \in Nat /\ authority \in Nat
  /\ candidates \subseteq Published
  /\ requests \subseteq Requests /\ cancelled \subseteq Requests
  /\ nextPlanId \in Nat \ {0} /\ nextPlanId <= MaxPlans + 1
  /\ plans \in [PlanIds -> Plan]
  /\ latest \in [Requests -> 0..(nextPlanId - 1)]
  /\ fencedWorkers \subseteq WorkerBoots /\ fencedSources \subseteq SourceBoots
  /\ pc \in [Threads -> {"idle", "filtering"} \cup CommitSteps \cup HandoffSteps]
  /\ job \in [Threads -> 0..(nextPlanId - 1)]
  /\ \A t \in Threads :
       pc[t] \in CommitSteps \cup HandoffSteps => job[t] \in PlanIds
  /\ reqOf \in [Threads -> Requests \cup {NoRequest}]
  /\ \A t \in Threads : pc[t] = "filtering" => reqOf[t] \in Requests
  /\ snap \in [Threads -> SUBSET Published]
  /\ tok \in [Threads -> Nat]
  /\ ledger \subseteq [token : Nat, plan : PlanIds]
  /\ nextToken \in Nat \ {0}
  /\ execGrants \subseteq PlanIds

Init ==
  /\ epoch = 1 /\ authority = 1
  /\ candidates = {} /\ requests = {}
  /\ plans = [p \in {} |-> p]
  /\ nextPlanId = 1
  /\ latest = [r \in Requests |-> 0]
  /\ cancelled = {} /\ fencedWorkers = {} /\ fencedSources = {}
  /\ pc = [t \in Threads |-> "idle"]
  /\ job = [t \in Threads |-> 0]
  /\ reqOf = [t \in Threads |-> NoRequest]
  /\ snap = [t \in Threads |-> {}]
  /\ tok = [t \in Threads |-> 0]
  /\ ledger = {} /\ nextToken = 1 /\ execGrants = {}

-----------------------------------------------------------------------------
(* Moving plans.                                                           *)

\* force_state: no look at the transition table.
ForceState(plan, to) == [plan EXCEPT !.state = to]

\* Defect: the table is not consulted, as in force_state.
MayAdvanceUnchecked(p, to) == TRUE

\* advance_local's condition; when it fails the call throws.
MayAdvance(p, to) == CanTransition(plans[p].state, to)

SetState(p, to) == plans' = [plans EXCEPT ![p] = ForceState(@, to)]

\* The loops of set_epoch, cancel and supersede over the plans not terminal.
ForceAll(S, to) ==
  plans' = [p \in PlanIds |->
             IF p \in S /\ plans[p].state \notin Terminal
             THEN ForceState(plans[p], to) ELSE plans[p]]

PlansOf(r) == {p \in PlanIds : plans[p].request = r}

Return(t) ==
  /\ pc'    = [pc EXCEPT ![t] = "idle"]
  /\ job'   = [job EXCEPT ![t] = 0]
  /\ reqOf' = [reqOf EXCEPT ![t] = NoRequest]
  /\ snap'  = [snap EXCEPT ![t] = {}]
  /\ tok'   = [tok EXCEPT ![t] = 0]

GoTo(t, from, to) ==
  /\ pc[t] = from
  /\ pc' = [pc EXCEPT ![t] = to]

-----------------------------------------------------------------------------
(* Epoch, evidence and fencing.                                            *)

\* Defect: only the plans nobody works on yet are sent to revalidation.
SetEpochIdlePlansOnly(e) ==
  /\ e > epoch
  /\ epoch' = e
  /\ authority' = authority + 1
  /\ ForceAll({p \in PlanIds : plans[p].state = "PLAN_READY"},
              "REVALIDATION_REQUIRED")
  /\ UNCHANGED <<candidates, requests, nextPlanId, latest, cancelled,
                 fencedWorkers, fencedSources, threadVars, external>>

\* set_epoch: an equal epoch changes nothing, a lower one throws.
SetEpoch(e) ==
  /\ e > epoch
  /\ epoch' = e
  /\ authority' = authority + 1
  /\ ForceAll(PlanIds, "REVALIDATION_REQUIRED")
  /\ UNCHANGED <<candidates, requests, nextPlanId, latest, cancelled,
                 fencedWorkers, fencedSources, threadVars, external>>

\* ingest_candidate: fenced boots are refused, and an id that is held is
\* refreshed at a higher generation only.
IngestCandidate(c) ==
  /\ c.worker \notin fencedWorkers
  /\ c.source \notin fencedSources
  /\ \A d \in candidates : d.id = c.id => c.gen > d.gen
  /\ candidates' = {d \in candidates : d.id # c.id} \cup {c}
  /\ UNCHANGED <<epoch, authority, requests, plans, nextPlanId, latest,
                 cancelled, fencedWorkers, fencedSources, threadVars, external>>

\* Defect: what the fenced boot published is dropped, also when a plan uses it.
FenceWorkerForgets(b) ==
  /\ fencedWorkers' = fencedWorkers \cup {b}
  /\ candidates' = {c \in candidates : c.worker # b}
  /\ UNCHANGED <<epoch, authority, requests, plans, nextPlanId, latest,
                 cancelled, fencedSources, threadVars, external>>

\* fence_worker, fence_source: what the boot published stays in candidates.
FenceWorker(b) ==
  /\ fencedWorkers' = fencedWorkers \cup {b}
  /\ UNCHANGED <<epoch, authority, candidates, requests, plans, nextPlanId,
                 latest, cancelled, fencedSources, threadVars, external>>

FenceSource(b) ==
  /\ fencedSources' = fencedSources \cup {b}
  /\ UNCHANGED <<epoch, authority, candidates, requests, plans, nextPlanId,
                 latest, cancelled, fencedWorkers, threadVars, external>>

-----------------------------------------------------------------------------
(* schedule.                                                               *)

\* The candidates are copied under the mutex; the filter and the ranking then
\* work on the copy.
ScheduleSnapshot(t, r) ==
  /\ nextPlanId + Cardinality({u \in Threads : pc[u] = "filtering"}) <= MaxPlans
  /\ GoTo(t, "idle", "filtering")
  /\ reqOf' = [reqOf EXCEPT ![t] = r]
  /\ snap' = [snap EXCEPT ![t] = candidates]
  /\ UNCHANGED <<state, job, tok, external>>

\* The winner w of the copy becomes a plan stamped with the epoch and the
\* authority that are current NOW, advanced to PLAN_READY in one section.
NewPlan(r, w) ==
  [request |-> r, cand |-> w, epoch |-> epoch, authority |-> authority,
   state |-> "PLAN_READY", hasCommitmentEvidence |-> FALSE,
   supersededBy |-> 0]

\* Defect: the plan id is not consumed.
SchedulePlanReusesId(t, w) ==
  /\ pc[t] = "filtering" /\ w \in snap[t]
  /\ nextPlanId <= MaxPlans
  /\ plans' = [p \in 1..nextPlanId |->
                IF p = nextPlanId THEN NewPlan(reqOf[t], w) ELSE plans[p]]
  /\ latest' = [latest EXCEPT ![reqOf[t]] = nextPlanId]
  /\ Return(t)
  /\ UNCHANGED <<epoch, authority, candidates, requests, nextPlanId, cancelled,
                 fencedWorkers, fencedSources, external>>

SchedulePlan(t, w) ==
  /\ pc[t] = "filtering" /\ w \in snap[t]
  /\ nextPlanId <= MaxPlans
  /\ plans' = [p \in 1..nextPlanId |->
                IF p = nextPlanId THEN NewPlan(reqOf[t], w) ELSE plans[p]]
  /\ latest' = [latest EXCEPT ![reqOf[t]] = nextPlanId]
  /\ nextPlanId' = nextPlanId + 1
  /\ Return(t)
  /\ UNCHANGED <<epoch, authority, candidates, requests, cancelled,
                 fencedWorkers, fencedSources, external>>

\* No candidate, or all of them hard-rejected.
ScheduleNone(t) ==
  /\ pc[t] = "filtering"
  /\ requests' = requests \cup {reqOf[t]}
  /\ Return(t)
  /\ UNCHANGED <<epoch, authority, candidates, plans, nextPlanId, latest,
                 cancelled, fencedWorkers, fencedSources, external>>

-----------------------------------------------------------------------------
(* commit.                                                                 *)

\* Defect: cancelledRequests is not consulted.
DisownedByAuthorityOnly(p) == plans[p].authority # authority

\* A plan that lost its right to go on: its request was cancelled or it was
\* made under an authority that is no longer the current one.
Disowned(p) ==
  \/ plans[p].request \in cancelled
  \/ plans[p].authority # authority

\* Defect: a plan sent to revalidation is taken as one to retry.
CommitBeginRetries(t, p) ==
  /\ plans[p].state \in {"PLAN_READY", "REVALIDATION_REQUIRED"}
  /\ ~Disowned(p)
  /\ GoTo(t, "idle", "committing")
  /\ SetState(p, "AWAITING_RESOURCE_COMMIT")
  /\ job' = [job EXCEPT ![t] = p]
  /\ UNCHANGED <<epoch, authority, candidates, requests, nextPlanId, latest,
                 cancelled, fencedWorkers, fencedSources, reqOf, snap, tok,
                 external>>

CommitBegin(t, p) ==
  /\ plans[p].state = "PLAN_READY"
  /\ ~Disowned(p)
  /\ GoTo(t, "idle", "committing")
  /\ SetState(p, "AWAITING_RESOURCE_COMMIT")
  /\ job' = [job EXCEPT ![t] = p]
  /\ UNCHANGED <<epoch, authority, candidates, requests, nextPlanId, latest,
                 cancelled, fencedWorkers, fencedSources, reqOf, snap, tok,
                 external>>

\* The broker, called without the mutex, commits the whole bundle of claims
\* under a new token ...
BrokerCommit(t) ==
  /\ GoTo(t, "committing", "granted")
  /\ ledger' = ledger \cup {[token |-> nextToken, plan |-> job[t]]}
  /\ tok' = [tok EXCEPT ![t] = nextToken]
  /\ nextToken' = nextToken + 1
  /\ UNCHANGED <<state, job, reqOf, snap, execGrants>>

\* ... or commits nothing.
BrokerRefuse(t) ==
  /\ GoTo(t, "committing", "refused")
  /\ UNCHANGED <<state, job, reqOf, snap, tok, external>>

\* Defect: the plan's state is not looked at again after the broker call.
StaleCommitIgnoresState(p) == Disowned(p)

\* What commit finds when it has the mutex again.
StaleCommit(p) == Disowned(p) \/ plans[p].state # "AWAITING_RESOURCE_COMMIT"

CommitSucceeds(t) ==
  /\ pc[t] = "granted" /\ ~StaleCommit(job[t])
  /\ plans' = [plans EXCEPT ![job[t]] =
                [@ EXCEPT !.state = "COMMITTED", !.hasCommitmentEvidence = TRUE]]
  /\ Return(t)
  /\ UNCHANGED <<epoch, authority, candidates, requests, nextPlanId, latest,
                 cancelled, fencedWorkers, fencedSources, external>>

\* Defect: a grant that comes too late is forgotten.
CommitTooLateKeepsGrant(t) ==
  /\ pc[t] = "granted" /\ StaleCommit(job[t])
  /\ Return(t)
  /\ UNCHANGED <<state, external>>

\* A grant that comes too late is given back, after the mutex is released.
CommitTooLate(t) ==
  /\ GoTo(t, "granted", "releasing")
  /\ StaleCommit(job[t])
  /\ UNCHANGED <<state, job, reqOf, snap, tok, external>>

CommitRelease(t) ==
  /\ pc[t] = "releasing"
  /\ ledger' = {e \in ledger : e.token # tok[t]}
  /\ Return(t)
  /\ UNCHANGED <<state, nextToken, execGrants>>

\* Defect: a refusal is taken for a success.
CommitFailsAsCommitted(t) ==
  /\ pc[t] = "refused"
  /\ IF StaleCommit(job[t]) THEN UNCHANGED plans ELSE SetState(job[t], "COMMITTED")
  /\ Return(t)
  /\ UNCHANGED <<epoch, authority, candidates, requests, nextPlanId, latest,
                 cancelled, fencedWorkers, fencedSources, external>>

\* Defect: a refusal returns to the caller and leaves the plan waiting.
CommitFailsSilently(t) ==
  /\ pc[t] = "refused"
  /\ Return(t)
  /\ UNCHANGED <<state, external>>

\* Defect: a refusal of a plan gone stale is not handled.
CommitFailsIfCurrent(t) ==
  /\ pc[t] = "refused" /\ ~StaleCommit(job[t])
  /\ SetState(job[t], "REVALIDATION_REQUIRED")
  /\ Return(t)
  /\ UNCHANGED <<epoch, authority, candidates, requests, nextPlanId, latest,
                 cancelled, fencedWorkers, fencedSources, external>>

\* No false COMMITTED: a refusal sends the plan to revalidation, unless it is
\* stale already.
CommitFails(t) ==
  /\ pc[t] = "refused"
  /\ IF StaleCommit(job[t]) THEN UNCHANGED plans
     ELSE SetState(job[t], "REVALIDATION_REQUIRED")
  /\ Return(t)
  /\ UNCHANGED <<epoch, authority, candidates, requests, nextPlanId, latest,
                 cancelled, fencedWorkers, fencedSources, external>>

-----------------------------------------------------------------------------
(* handoff.                                                                *)

HandoffBegin(t, p) ==
  /\ plans[p].state = "COMMITTED"
  /\ ~Disowned(p)
  /\ GoTo(t, "idle", "authorizing")
  /\ SetState(p, "AWAITING_EXECUTION")
  /\ job' = [job EXCEPT ![t] = p]
  /\ UNCHANGED <<epoch, authority, candidates, requests, nextPlanId, latest,
                 cancelled, fencedWorkers, fencedSources, reqOf, snap, tok,
                 external>>

\* The execution fabric, called without the mutex, decides on the snapshot of
\* the plan it is given.
ExecAuthorize(t) ==
  /\ GoTo(t, "authorizing", "authorized")
  /\ execGrants' = execGrants \cup {job[t]}
  /\ UNCHANGED <<state, job, reqOf, snap, tok, ledger, nextToken>>

ExecDeny(t) ==
  /\ GoTo(t, "authorizing", "denied")
  /\ UNCHANGED <<state, job, reqOf, snap, tok, external>>

\* The plan starts only if it is still owned; advance_local looks at the
\* table, so a plan superseded or revalidated meanwhile makes the call throw.
HandoffStarts(t) ==
  /\ pc[t] = "authorized" /\ ~Disowned(job[t])
  /\ MayAdvance(job[t], "ACTIVE")
  /\ SetState(job[t], "ACTIVE")
  /\ Return(t)
  /\ UNCHANGED <<epoch, authority, candidates, requests, nextPlanId, latest,
                 cancelled, fencedWorkers, fencedSources, external>>

\* The call reports failure (a disowned plan) or throws, and changes nothing.
HandoffDropped(t) ==
  /\ \/ pc[t] \in {"authorized", "denied"} /\ Disowned(job[t])
     \/ pc[t] = "authorized" /\ ~MayAdvance(job[t], "ACTIVE")
  /\ Return(t)
  /\ UNCHANGED <<state, external>>

\* A denial forces the plan to revalidation whatever state it is in by now.
HandoffDenied(t) ==
  /\ pc[t] = "denied" /\ ~Disowned(job[t])
  /\ SetState(job[t], "REVALIDATION_REQUIRED")
  /\ Return(t)
  /\ UNCHANGED <<epoch, authority, candidates, requests, nextPlanId, latest,
                 cancelled, fencedWorkers, fencedSources, external>>

-----------------------------------------------------------------------------
(* revalidate, cancel, supersede.                                          *)

\* The generations a plan depends on, GenerationFingerprint.
Fingerprint(p) == <<plans[p].cand.evidence, plans[p].epoch>>

\* revalidate with the fingerprint the caller calls current: a difference
\* forces the plan, also a terminal one, to revalidation.
Revalidate(p, current) ==
  /\ Fingerprint(p) # current
  /\ SetState(p, "REVALIDATION_REQUIRED")
  /\ UNCHANGED <<epoch, authority, candidates, requests, nextPlanId, latest,
                 cancelled, fencedWorkers, fencedSources, threadVars, external>>

Cancel(r) ==
  /\ cancelled' = cancelled \cup {r}
  /\ ForceAll(PlansOf(r), "CANCELLED")
  /\ UNCHANGED <<epoch, authority, candidates, requests, nextPlanId, latest,
                 fencedWorkers, fencedSources, threadVars, external>>

\* The plans of old that are not terminal point at new's latest plan, if any.
Supersede(old, new) ==
  /\ plans' = [p \in PlanIds |->
                IF p \in PlansOf(old) /\ plans[p].state \notin Terminal
                THEN [ForceState(plans[p], "SUPERSEDED")
                        EXCEPT !.supersededBy = latest[new]]
                ELSE plans[p]]
  /\ UNCHANGED <<epoch, authority, candidates, requests, nextPlanId, latest,
                 cancelled, fencedWorkers, fencedSources, threadVars, external>>

-----------------------------------------------------------------------------
(* The specification.                                                      *)

Fingerprints == {c.evidence : c \in Published} \X (1..MaxEpoch)

Broker(t)  == BrokerCommit(t) \/ BrokerRefuse(t)
Exec(t)    == ExecAuthorize(t) \/ ExecDeny(t)

\* A thread that waits for the mutex in the middle of a call, or works on its
\* copy.
Schedule(t) == ScheduleNone(t) \/ \E w \in snap[t] : SchedulePlan(t, w)
Commit(t)   == \/ CommitSucceeds(t) \/ CommitTooLate(t)
               \/ CommitRelease(t)  \/ CommitFails(t)
Handoff(t)  == HandoffStarts(t) \/ HandoffDropped(t) \/ HandoffDenied(t)

Next ==
  \/ \E e \in 1..MaxEpoch : SetEpoch(e)
  \/ \E c \in Published : IngestCandidate(c)
  \/ \E b \in WorkerBoots : FenceWorker(b)
  \/ \E b \in SourceBoots : FenceSource(b)
  \/ \E r \in Requests : Cancel(r)
  \/ \E r, s \in Requests : Supersede(r, s)
  \/ \E p \in PlanIds, fp \in Fingerprints : Revalidate(p, fp)
  \/ \E t \in Threads, r \in Requests : ScheduleSnapshot(t, r)
  \/ \E t \in Threads, p \in PlanIds : CommitBegin(t, p) \/ HandoffBegin(t, p)
  \/ \E t \in Threads : Schedule(t) \/ Broker(t) \/ Commit(t)
                         \/ Exec(t) \/ Handoff(t)

Spec == Init /\ [][Next]_vars

\* A call that began goes on: its thread is scheduled, the mutex is held for
\* bounded sections only, and the broker and the execution fabric return.
\* Nothing obliges a caller to begin a call.
Fairness ==
  \A t \in Threads :
    WF_vars(Schedule(t) \/ Broker(t) \/ Commit(t) \/ Exec(t) \/ Handoff(t))

FairSpec == Spec /\ Fairness

-----------------------------------------------------------------------------
(* What the scheduler guarantees.                                          *)

CommitOwner(t, p)  == pc[t] \in CommitSteps /\ job[t] = p
HandoffOwner(t, p) == pc[t] \in HandoffSteps /\ job[t] = p
Outstanding(p)     == \E e \in ledger : e.plan = p

\* A plan that says COMMITTED, AWAITING_EXECUTION or ACTIVE carries its
\* evidence and the broker really holds a commitment for it; an ACTIVE plan
\* was authorized by the execution fabric.  (commit's verdict races cancel,
\* set_epoch, supersede and revalidate.)
BackedByExternalOwners ==
  \A p \in PlanIds :
    /\ plans[p].state \in BackedStates =>
         plans[p].hasCommitmentEvidence /\ Outstanding(p)
    /\ plans[p].state = "ACTIVE" => p \in execGrants

\* No commitment is lost between the broker and the scheduler: each one the
\* broker holds is the evidence of its plan or in the hands of a thread that
\* will record it or give it back.
NoOrphanedCommitment ==
  \A e \in ledger :
    \/ plans[e.plan].hasCommitmentEvidence
    \/ \E t \in Threads : /\ pc[t] \in {"granted", "releasing"}
                          /\ job[t] = e.plan /\ tok[t] = e.token

\* Concurrent commits of one plan, and commits repeated after any history of
\* epochs, revalidations and cancellations, never take the resources twice.
OneCommitmentPerPlan ==
  \A e, f \in ledger : e.plan = f.plan => e = f

\* A plan in a live state was made under the current authority and epoch: an
\* epoch change leaves no plan behind that commit or handoff would accept,
\* also when it comes between their critical sections.
LiveUnderCurrentAuthority ==
  \A p \in PlanIds :
    plans[p].state \in LiveStates =>
      plans[p].authority = authority /\ plans[p].epoch = epoch

\* Once a request is cancelled none of its plans is committing, committed,
\* launching or running, whatever call was in flight when it was cancelled.
CancelledNeverWorks ==
  \A p \in PlanIds :
    plans[p].request \in cancelled =>
      plans[p].state \notin LiveStates \ {"PLAN_READY"}

\* A plan that waits for the broker or for the execution fabric is waited for
\* by exactly one thread, so its wait ends.
AwaitingHasOneOwner ==
  \A p \in PlanIds :
    /\ plans[p].state = "AWAITING_RESOURCE_COMMIT" =>
         \E t \in Threads : /\ CommitOwner(t, p) /\ pc[t] # "releasing"
                            /\ \A u \in Threads : CommitOwner(u, p) => u = t
    /\ plans[p].state = "AWAITING_EXECUTION" =>
         \E t \in Threads : /\ HandoffOwner(t, p)
                            /\ \A u \in Threads : HandoffOwner(u, p) => u = t

\* A plan that left the live states (revalidation required, superseded,
\* cancelled) is never committed, launched or running again: the late end of
\* a commit or handoff cannot bring it back.
StoppedStaysStopped ==
  [][\A p \in PlanIds :
       plans[p].state \notin LiveStates => plans'[p].state \notin LiveStates]_vars

\* Every call that began returns: no thread stays inside one.
CallsReturn == \A t \in Threads : []<>(pc[t] = "idle")

\* A commitment that arrived too late is given back: a plan without evidence
\* does not keep resources for ever.
LateGrantsReleased ==
  \A p \in 1..MaxPlans :
    []<>(~Outstanding(p) \/ plans[p].hasCommitmentEvidence)

-----------------------------------------------------------------------------
(* Why it is so: who owns a plan while a call on it is in flight.  With    *)
(* the properties above this is inductive.                                 *)

\* A plan under commit has left PLAN_READY for good and has no evidence yet:
\* only its one owner can give it evidence.
CommitOwnership ==
  \A t \in Threads : pc[t] \in CommitSteps =>
    /\ plans[job[t]].state \notin {"PLAN_READY"} \cup BackedStates
    /\ ~plans[job[t]].hasCommitmentEvidence
    /\ \A u \in Threads : CommitOwner(u, job[t]) => u = t

\* A plan under handoff has its evidence and has left COMMITTED for good.
HandoffOwnership ==
  \A t \in Threads : pc[t] \in HandoffSteps =>
    /\ plans[job[t]].state \notin LiveStates \ {"AWAITING_EXECUTION"}
    /\ plans[job[t]].hasCommitmentEvidence
    /\ pc[t] = "authorized" => job[t] \in execGrants
    /\ \A u \in Threads : HandoffOwner(u, job[t]) => u = t

\* The broker's ledger: tokens are used once, the token a thread carries is
\* in the ledger, and a plan has its evidence from COMMITTED on, not before.
LedgerMatches ==
  /\ \A e \in ledger : e.token < nextToken
  /\ \A e, f \in ledger : e.token = f.token => e = f
  /\ \A t \in Threads : pc[t] \in {"granted", "releasing"} =>
       [token |-> tok[t], plan |-> job[t]] \in ledger
  /\ \A p \in PlanIds :
       /\ plans[p].state = "PLAN_READY" => ~plans[p].hasCommitmentEvidence
       /\ plans[p].state \in BackedStates => plans[p].hasCommitmentEvidence

IInv ==
  /\ TypeOK
  /\ BackedByExternalOwners /\ NoOrphanedCommitment /\ OneCommitmentPerPlan
  /\ LiveUnderCurrentAuthority /\ CancelledNeverWorks /\ AwaitingHasOneOwner
  /\ CommitOwnership /\ HandoffOwnership /\ LedgerMatches

-----------------------------------------------------------------------------
(* The scheduler implements PlacementAuthority: what separates a plan that *)
(* must be revalidated from one that was superseded or cancelled is not    *)
(* visible there, and neither are the threads.                             *)

PhaseOf(s) ==
  CASE s = "PLAN_READY"               -> "ready"
    [] s = "AWAITING_RESOURCE_COMMIT" -> "reserving"
    [] s = "COMMITTED"                -> "reserved"
    [] s = "AWAITING_EXECUTION"       -> "launching"
    [] s = "ACTIVE"                   -> "running"
    [] OTHER                          -> "stopped"

absPhase ==
  [p \in 1..MaxPlans |->
     IF p \in PlanIds THEN PhaseOf(plans[p].state) ELSE "none"]
absStamp ==
  [p \in 1..MaxPlans |-> IF p \in PlanIds THEN plans[p].authority ELSE 0]
absBacking ==
  {p \in 1..MaxPlans : p \in PlanIds /\ plans[p].hasCommitmentEvidence}

Abs == INSTANCE PlacementAuthority WITH
         Plans <- 1..MaxPlans, current <- authority, phase <- absPhase,
         stamp <- absStamp, backing <- absBacking

\* Whatever the interleaving of calls, a plan goes forward one phase at a
\* time, only under the authority it was issued under, is backed by one
\* commitment, and stops for good.
ImplementsPlacementAuthority == Abs!AbsSpec

=============================================================================
