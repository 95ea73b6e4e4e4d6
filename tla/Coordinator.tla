---------------------------- MODULE Coordinator -----------------------------
(***************************************************************************)
(* The coordinator process of coordinator_main.cpp around the scheduler: a *)
(* thread per connection (serve_connection), which serves one frame at a   *)
(* time, and fences the worker that registered on it when it drops         *)
(* (fence_worker_and_bump).  Each lock section of the scheduler, of        *)
(* LiveState and of the broker is a step, so a drop is four steps that     *)
(* other connections interleave with.                                      *)
(*                                                                         *)
(* A thread of Scheduler is a connection here.  The broker never refuses   *)
(* (nothing sets failNext), the execution fabric is CurrentAuthorityExec,  *)
(* and only a drop changes the epoch.                                      *)
(***************************************************************************)
EXTENDS Scheduler

CONSTANT NoBoot    \* a connection on which no worker registered

ASSUME NoBootAssumption      == NoBoot \notin WorkerBoots
ASSUME ConnectionsAssumption == IsFiniteSet(Threads) /\ MaxEpoch >= 1

VARIABLES
  link,        \* where each connection is: open, one of the drop steps, closed
  boot,        \* the boot registered on it
  seenEpoch,   \* the epoch a dropping connection read, 0 before that
  liveFenced,  \* LiveState.fenced
  vetted,      \* the scheduling thread has consulted the policy veto ...
  allowed,     \* ... and these candidates of its copy passed
  hidden,      \* history: LiveState.fenced when a scheduling pass began
  fenceMark    \* history: boot -> the first plan id not yet issued when its
               \* fence began, 0 before that

coordVars == <<link, boot, seenEpoch, liveFenced, vetted, allowed,
               hidden, fenceMark>>
coVars    == <<vars, coordVars>>

DropSteps == {"fencing", "hiding", "reading", "bumping"}

CoTypeOK ==
  /\ TypeOK
  /\ link \in [Threads -> {"open", "closed"} \cup DropSteps]
  /\ boot \in [Threads -> WorkerBoots \cup {NoBoot}]
  /\ seenEpoch \in [Threads -> 0..MaxEpoch]
  /\ liveFenced \subseteq WorkerBoots
  /\ vetted \in [Threads -> BOOLEAN]
  /\ allowed \in [Threads -> SUBSET Published]
  /\ hidden \in [Threads -> SUBSET WorkerBoots]
  /\ fenceMark \in [WorkerBoots -> Nat]

CoInit ==
  /\ Init
  /\ link = [t \in Threads |-> "open"]
  /\ boot = [t \in Threads |-> NoBoot]
  /\ seenEpoch = [t \in Threads |-> 0]
  /\ liveFenced = {}
  /\ vetted = [t \in Threads |-> FALSE]
  /\ allowed = [t \in Threads |-> {}]
  /\ hidden = [t \in Threads |-> {}]
  /\ fenceMark = [b \in WorkerBoots |-> 0]

\* The thread of an open connection that waits for the next frame.
Ready(t) == link[t] = "open" /\ pc[t] = "idle"

-----------------------------------------------------------------------------
(* Frames that are one call.                                               *)

\* REGISTER: a later registration on the connection replaces the boot.
Register(t, b) ==
  /\ Ready(t)
  /\ boot' = [boot EXCEPT ![t] = b]
  /\ UNCHANGED <<vars, link, seenEpoch, liveFenced, vetted, allowed, hidden,
                 fenceMark>>

\* PUBLISH_*: the boot is the one in the candidate record, not the
\* connection's.
Publish(t, c) == Ready(t) /\ IngestCandidate(c) /\ UNCHANGED coordVars

CancelFrame(t, r)       == Ready(t) /\ Cancel(r) /\ UNCHANGED coordVars
SupersedeFrame(t, r, s) == Ready(t) /\ Supersede(r, s) /\ UNCHANGED coordVars
RevalidateFrame(t, p, fp) ==
  Ready(t) /\ Revalidate(p, fp) /\ UNCHANGED coordVars

-----------------------------------------------------------------------------
(* Frames that span several sections.                                      *)

\* SUBMIT_WORKLOAD: snapshot, then the filter consults LiveVeto for each
\* candidate, then the plan.
Submit(t, r) ==
  /\ Ready(t)
  /\ ScheduleSnapshot(t, r)
  /\ hidden' = [hidden EXCEPT ![t] = liveFenced]
  /\ UNCHANGED <<link, boot, seenEpoch, liveFenced, vetted, allowed, fenceMark>>

LiveVeto(t) ==
  /\ pc[t] = "filtering" /\ ~vetted[t]
  /\ allowed' = [allowed EXCEPT ![t] = {c \in snap[t] : c.worker \notin liveFenced}]
  /\ vetted' = [vetted EXCEPT ![t] = TRUE]
  /\ UNCHANGED <<vars, link, boot, seenEpoch, liveFenced, hidden, fenceMark>>

\* Defect: the veto's answer is not used.
DecideWithoutVeto(t) ==
  /\ vetted[t]
  /\ ScheduleNone(t) \/ \E w \in snap[t] : SchedulePlan(t, w)
  /\ vetted' = [vetted EXCEPT ![t] = FALSE]
  /\ allowed' = [allowed EXCEPT ![t] = {}]
  /\ hidden' = [hidden EXCEPT ![t] = {}]
  /\ UNCHANGED <<link, boot, seenEpoch, liveFenced, fenceMark>>

Decide(t) ==
  /\ vetted[t]
  /\ ScheduleNone(t) \/ \E w \in allowed[t] : SchedulePlan(t, w)
  /\ vetted' = [vetted EXCEPT ![t] = FALSE]
  /\ allowed' = [allowed EXCEPT ![t] = {}]
  /\ hidden' = [hidden EXCEPT ![t] = {}]
  /\ UNCHANGED <<link, boot, seenEpoch, liveFenced, fenceMark>>

\* COMMIT_REQUEST, with the InMemoryBroker.
CommitFrame(t, p) == Ready(t) /\ CommitBegin(t, p) /\ UNCHANGED coordVars
InMemoryBroker(t) == BrokerCommit(t) /\ UNCHANGED coordVars
CommitEnds(t)     == Commit(t) /\ UNCHANGED coordVars

\* EXECUTION_HANDOFF; CurrentAuthorityExec compares the plan's authority with
\* the scheduler's at the time of the call.
HandoffFrame(t, p) == Ready(t) /\ HandoffBegin(t, p) /\ UNCHANGED coordVars
CurrentAuthorityExec(t) ==
  /\ pc[t] = "authorizing"
  /\ IF plans[job[t]].authority = authority THEN ExecAuthorize(t) ELSE ExecDeny(t)
  /\ UNCHANGED coordVars
HandoffEnds(t) == Handoff(t) /\ UNCHANGED coordVars

-----------------------------------------------------------------------------
(* The end of a connection.                                                *)

Dropping == {t \in Threads : link[t] \in DropSteps}

\* recv_frame fails.  Without a registered boot the thread just returns.
Drop(t) ==
  /\ Ready(t)
  /\ boot[t] # NoBoot => epoch + Cardinality(Dropping) < MaxEpoch
  /\ link' = [link EXCEPT ![t] = IF boot[t] = NoBoot THEN "closed" ELSE "fencing"]
  /\ UNCHANGED <<vars, boot, seenEpoch, liveFenced, vetted, allowed, hidden,
                 fenceMark>>

\* Defect: fence_worker's exception is swallowed, and it had no effect.
FenceBootSkipped(t) ==
  /\ link[t] = "fencing"
  /\ link' = [link EXCEPT ![t] = "hiding"]
  /\ fenceMark' = [fenceMark EXCEPT ![boot[t]] = IF @ = 0 THEN nextPlanId ELSE @]
  /\ UNCHANGED <<vars, boot, seenEpoch, liveFenced, vetted, allowed, hidden>>

\* fence_worker_and_bump, its four sections.
FenceBoot(t) ==
  /\ link[t] = "fencing"
  /\ FenceWorker(boot[t])
  /\ link' = [link EXCEPT ![t] = "hiding"]
  /\ fenceMark' = [fenceMark EXCEPT ![boot[t]] = IF @ = 0 THEN nextPlanId ELSE @]
  /\ UNCHANGED <<boot, seenEpoch, liveFenced, vetted, allowed, hidden>>

\* Defect: the boot is fenced in the scheduler only.
HideBootSkipped(t) ==
  /\ link[t] = "hiding"
  /\ link' = [link EXCEPT ![t] = "reading"]
  /\ UNCHANGED <<vars, boot, seenEpoch, liveFenced, vetted, allowed, hidden,
                 fenceMark>>

HideBoot(t) ==
  /\ link[t] = "hiding"
  /\ link' = [link EXCEPT ![t] = "reading"]
  /\ liveFenced' = liveFenced \cup {boot[t]}
  /\ UNCHANGED <<vars, boot, seenEpoch, vetted, allowed, hidden,
                 fenceMark>>

ReadEpoch(t) ==
  /\ link[t] = "reading"
  /\ link' = [link EXCEPT ![t] = "bumping"]
  /\ seenEpoch' = [seenEpoch EXCEPT ![t] = epoch]
  /\ UNCHANGED <<vars, boot, liveFenced, vetted, allowed, hidden,
                 fenceMark>>

\* Defect: the epoch that was read is set again, not its successor.
BumpEpochToSeen(t) ==
  /\ link[t] = "bumping"
  /\ IF seenEpoch[t] > epoch THEN SetEpoch(seenEpoch[t]) ELSE UNCHANGED vars
  /\ link' = [link EXCEPT ![t] = "closed"]
  /\ seenEpoch' = [seenEpoch EXCEPT ![t] = 0]
  /\ UNCHANGED <<boot, liveFenced, vetted, allowed, hidden,
                 fenceMark>>

\* set_epoch(seen + 1): when another drop was faster the epoch is equal or
\* higher by now, the call returns or throws, and the exception is swallowed.
BumpEpoch(t) ==
  /\ link[t] = "bumping"
  /\ IF seenEpoch[t] + 1 > epoch THEN SetEpoch(seenEpoch[t] + 1)
     ELSE UNCHANGED vars
  /\ link' = [link EXCEPT ![t] = "closed"]
  /\ seenEpoch' = [seenEpoch EXCEPT ![t] = 0]
  /\ UNCHANGED <<boot, liveFenced, vetted, allowed, hidden,
                 fenceMark>>

\* A new connection is accepted and served by a new thread.
Accept(t) ==
  /\ link[t] = "closed"
  /\ link' = [link EXCEPT ![t] = "open"]
  /\ boot' = [boot EXCEPT ![t] = NoBoot]
  /\ UNCHANGED <<vars, seenEpoch, liveFenced, vetted, allowed, hidden,
                 fenceMark>>

-----------------------------------------------------------------------------
Serve(t) == \/ LiveVeto(t) \/ Decide(t) \/ InMemoryBroker(t) \/ CommitEnds(t)
            \/ CurrentAuthorityExec(t) \/ HandoffEnds(t)
            \/ FenceBoot(t) \/ HideBoot(t) \/ ReadEpoch(t) \/ BumpEpoch(t)

CoNext ==
  \E t \in Threads :
    \/ \E b \in WorkerBoots : Register(t, b)
    \/ \E c \in Published : Publish(t, c)
    \/ \E r \in Requests : CancelFrame(t, r) \/ Submit(t, r)
    \/ \E r, s \in Requests : SupersedeFrame(t, r, s)
    \/ \E p \in PlanIds, fp \in Fingerprints : RevalidateFrame(t, p, fp)
    \/ \E p \in PlanIds : CommitFrame(t, p) \/ HandoffFrame(t, p)
    \/ Drop(t) \/ Accept(t)
    \/ Serve(t)

CoSpec == CoInit /\ [][CoNext]_coVars

\* A frame being served and a drop being handled go on; frames need not come
\* and connections need not drop.
CoFairSpec == CoSpec /\ \A t \in Threads : WF_coVars(Serve(t))

-----------------------------------------------------------------------------
(* What the coordinator guarantees.                                        *)

\* No connection is still handling the drop of boot b, and b was fenced.
FenceDone(b) ==
  /\ b \in liveFenced
  /\ \A t \in Threads : boot[t] = b => link[t] \notin DropSteps

\* When the fence of a worker is complete, every plan issued before it began
\* has left the live states, also when several drops raced for the epoch and
\* one's update was refused (fence_worker_and_bump).
FencedPlansStopped ==
  \A b \in WorkerBoots : FenceDone(b) =>
    \A p \in PlanIds : p < fenceMark[b] => plans[p].state \notin LiveStates

\* A worker that drops is fenced, in the scheduler and in the veto's set, the
\* epoch of the moment it dropped is left behind, and its connection comes to
\* an end: also when other drops race for the epoch and one's set_epoch has no
\* effect (fence_worker_and_bump, which swallows both exceptions).
DroppedWorkerFenced ==
  \A t \in Threads, b \in WorkerBoots, e \in 1..MaxEpoch :
    link[t] = "fencing" /\ boot[t] = b /\ epoch = e
      ~> b \in fencedWorkers /\ b \in liveFenced /\ epoch > e /\ link[t] = "closed"

\* A scheduling pass that begins after a worker was hidden does not select
\* its candidates, although the scheduler still holds them (LiveVeto).
NextPassAvoidsFenced ==
  [][\A t \in Threads, p \in PlanIds' \ PlanIds :
       pc[t] = "filtering" /\ pc'[t] = "idle" =>
         plans'[p].cand.worker \notin hidden[t]]_coVars

\* "a candidate published by a fenced (dropped) worker boot is never
\* scheduled" (LiveVeto), and "a stale placement must not launch fresh work":
\* when the fence of a worker is complete nothing runs on it.  The code does
\* not ensure it: a pass that consulted the veto before the fence issues its
\* plan after it, under the new authority.
FencedNeverRuns ==
  \A b \in WorkerBoots : FenceDone(b) =>
    \A p \in PlanIds : plans[p].cand.worker = b => plans[p].state # "ACTIVE"

=============================================================================
