-------------------------- MODULE SchedulerProofs ---------------------------
(***************************************************************************)
(* The safety properties of Scheduler, proved for every value of its       *)
(* constants, and that it implements PlacementAuthority.                   *)
(*                                                                         *)
(* The properties are not inductive alone: that a late verdict of commit   *)
(* finds exactly one commitment depends on who owns the plan while the     *)
(* mutex is free.  IInv adds that ownership (CommitOwnership,              *)
(* HandoffOwnership) and how tokens, evidence and the broker's ledger      *)
(* correspond (LedgerMatches).  There is one lemma per action.  What a     *)
(* step may never do and the refinement, at the end, rest on it.           *)
(***************************************************************************)
EXTENDS Scheduler, TLAPS

\* force_state changes the state of a plan and nothing else.
LEMMA ForceFacts ==
  ASSUME NEW pl \in Plan, NEW to \in PlacementLifecycleState
  PROVE  /\ ForceState(pl, to) \in Plan
         /\ ForceState(pl, to).state = to
         /\ ForceState(pl, to).request = pl.request
         /\ ForceState(pl, to).cand = pl.cand
         /\ ForceState(pl, to).epoch = pl.epoch
         /\ ForceState(pl, to).authority = pl.authority
         /\ ForceState(pl, to).hasCommitmentEvidence = pl.hasCommitmentEvidence
BY DEF ForceState, Plan

\* Same plan, apart from its state and its supersession pointer.
Kept(q) ==
  /\ plans'[q].request = plans[q].request
  /\ plans'[q].cand = plans[q].cand
  /\ plans'[q].epoch = plans[q].epoch
  /\ plans'[q].authority = plans[q].authority
  /\ plans'[q].hasCommitmentEvidence = plans[q].hasCommitmentEvidence

\* Moving one plan keeps every other plan and all but the state of that one.
LEMMA SetStateFacts ==
  ASSUME TypeOK, NEW p \in PlanIds, NEW to \in PlacementLifecycleState, SetState(p, to)
  PROVE  /\ plans' \in [PlanIds -> Plan]
         /\ \A q \in PlanIds : Kept(q)
         /\ plans'[p].state = to
         /\ \A q \in PlanIds : q # p => plans'[q].state = plans[q].state
<1>1. plans \in [PlanIds -> Plan]
  BY DEF TypeOK
<1>2. plans' = [plans EXCEPT ![p] = ForceState(plans[p], to)]
  BY DEF SetState
<1>3. QED
  BY <1>1, <1>2, ForceFacts DEF Kept

\* The loop of set_epoch and cancel moves the chosen plans that are not
\* terminal and keeps the rest.
LEMMA ForceAllFacts ==
  ASSUME TypeOK, NEW S, NEW to \in PlacementLifecycleState, ForceAll(S, to)
  PROVE  /\ plans' \in [PlanIds -> Plan]
         /\ \A q \in PlanIds : Kept(q)
         /\ \A q \in PlanIds :
              plans'[q].state = IF q \in S /\ plans[q].state \notin Terminal
                                THEN to ELSE plans[q].state
<1>1. plans \in [PlanIds -> Plan]
  BY DEF TypeOK
<1>3. QED
  BY <1>1, ForceFacts DEF Kept, ForceAll

\* The loop of supersede does the same, and sets the supersession pointer.
LEMMA SupersedeFacts ==
  ASSUME TypeOK, NEW r \in Requests, NEW s \in Requests, Supersede(r, s)
  PROVE  /\ plans' \in [PlanIds -> Plan]
         /\ \A q \in PlanIds : Kept(q)
         /\ \A q \in PlanIds :
              plans'[q].state = IF q \in PlansOf(r) /\ plans[q].state \notin Terminal
                                THEN "SUPERSEDED" ELSE plans[q].state
<1>1. plans \in [PlanIds -> Plan] /\ latest[s] \in Nat
  BY DEF TypeOK
<1>2. "SUPERSEDED" \in PlacementLifecycleState
  BY DEF PlacementLifecycleState, Terminal
<1>3. ASSUME NEW pl \in Plan
      PROVE  LET x == [ForceState(pl, "SUPERSEDED") EXCEPT !.supersededBy = latest[s]]
             IN  /\ x \in Plan /\ x.state = "SUPERSEDED"
                 /\ x.request = pl.request /\ x.cand = pl.cand
                 /\ x.epoch = pl.epoch /\ x.authority = pl.authority
                 /\ x.hasCommitmentEvidence = pl.hasCommitmentEvidence
  BY <1>1, <1>2 DEF ForceState, Plan
<1>4. QED
  BY <1>1, <1>3 DEF Kept, Supersede

\* A commit that succeeds gives one plan its evidence and touches no other.
LEMMA CommitSucceedsFacts ==
  ASSUME TypeOK, NEW t \in Threads, CommitSucceeds(t)
  PROVE  /\ job[t] \in PlanIds
         /\ plans' \in [PlanIds -> Plan]
         /\ \A q \in PlanIds : q # job[t] => plans'[q] = plans[q]
         /\ plans'[job[t]].state = "COMMITTED"
         /\ plans'[job[t]].hasCommitmentEvidence = TRUE
         /\ plans'[job[t]].request = plans[job[t]].request
         /\ plans'[job[t]].cand = plans[job[t]].cand
         /\ plans'[job[t]].epoch = plans[job[t]].epoch
         /\ plans'[job[t]].authority = plans[job[t]].authority
<1>1. plans \in [PlanIds -> Plan] /\ job[t] \in PlanIds
  BY DEF TypeOK, CommitSucceeds, CommitSteps
<1>2. "COMMITTED" \in PlacementLifecycleState
  BY DEF PlacementLifecycleState, LiveStates
<1>3. ASSUME NEW pl \in Plan
      PROVE  LET x == [pl EXCEPT !.state = "COMMITTED", !.hasCommitmentEvidence = TRUE]
             IN  /\ x \in Plan /\ x.state = "COMMITTED"
                 /\ x.request = pl.request /\ x.cand = pl.cand
                 /\ x.epoch = pl.epoch /\ x.authority = pl.authority
                 /\ x.hasCommitmentEvidence = TRUE
  BY <1>1, <1>2 DEF Plan
<1>4. QED
  BY <1>1, <1>3 DEF CommitSucceeds

\* schedule adds one plan, under a new id, stamped with what is current.
LEMMA NewPlanFacts ==
  ASSUME TypeOK, NEW t \in Threads, NEW w \in snap[t], SchedulePlan(t, w)
  PROVE  /\ PlanIds' = PlanIds \cup {nextPlanId}
         /\ nextPlanId \notin PlanIds
         /\ plans' \in [PlanIds' -> Plan]
         /\ \A q \in PlanIds : plans'[q] = plans[q]
         /\ plans'[nextPlanId].cand = w
         /\ plans'[nextPlanId].state = "PLAN_READY"
         /\ plans'[nextPlanId].hasCommitmentEvidence = FALSE
         /\ plans'[nextPlanId].epoch = epoch
         /\ plans'[nextPlanId].authority = authority
<1>1. plans \in [PlanIds -> Plan] /\ nextPlanId \in Nat \ {0}
      /\ reqOf[t] \in Requests /\ w \in Published /\ epoch \in Nat /\ authority \in Nat
  BY DEF TypeOK, SchedulePlan
<1>2. NewPlan(reqOf[t], w) \in Plan
  BY <1>1 DEF NewPlan, Plan, PlacementLifecycleState, LiveStates
<1>3. /\ nextPlanId' = nextPlanId + 1
      /\ plans' = [p \in 1..nextPlanId |->
                    IF p = nextPlanId THEN NewPlan(reqOf[t], w) ELSE plans[p]]
  BY DEF SchedulePlan
<1>4. PlanIds' = 1..nextPlanId /\ PlanIds = 1..(nextPlanId - 1)
  BY <1>1, <1>3 DEF PlanIds
<1>5. /\ PlanIds' = PlanIds \cup {nextPlanId}
      /\ nextPlanId \notin PlanIds
  BY <1>1, <1>4
<1>6. QED
  BY <1>1, <1>2, <1>3, <1>4, <1>5 DEF NewPlan

\* The sets of states the actions name are states of the lifecycle.
LEMMA StateNames ==
  /\ LiveStates \subseteq PlacementLifecycleState
  /\ Terminal \subseteq PlacementLifecycleState
  /\ "REVALIDATION_REQUIRED" \in PlacementLifecycleState
BY DEF PlacementLifecycleState

\* The empty scheduler is well typed.
LEMMA TypeInit == Init => TypeOK
BY BoundsAssumption DEF Init, TypeOK, PlanIds, CommitSteps, HandoffSteps, Plan

\* Every critical section and every external call keeps the types; one step
\* per action of Next.
LEMMA TypeStep == TypeOK /\ [Next]_vars => TypeOK'
<1> SUFFICES ASSUME TypeOK, [Next]_vars PROVE TypeOK'
  OBVIOUS
<1> USE StateNames DEF state, threadVars, external, LiveStates, Terminal
<1>1. ASSUME NEW e \in 1..MaxEpoch, SetEpoch(e) PROVE TypeOK'
  <2>1. plans' \in [PlanIds -> Plan] /\ PlanIds' = PlanIds
    BY <1>1, ForceAllFacts DEF SetEpoch, PlanIds
  <2>2. QED
    BY <1>1, <2>1, BoundsAssumption DEF SetEpoch, TypeOK
<1>2. ASSUME NEW c \in Published, IngestCandidate(c) PROVE TypeOK'
  BY <1>2 DEF IngestCandidate, TypeOK, PlanIds
<1>3. ASSUME NEW b \in WorkerBoots, FenceWorker(b) PROVE TypeOK'
  BY <1>3 DEF FenceWorker, TypeOK, PlanIds
<1>4. ASSUME NEW b \in SourceBoots, FenceSource(b) PROVE TypeOK'
  BY <1>4 DEF FenceSource, TypeOK, PlanIds
<1>5. ASSUME NEW r \in Requests, Cancel(r) PROVE TypeOK'
  <2>1. plans' \in [PlanIds -> Plan] /\ PlanIds' = PlanIds
    BY <1>5, ForceAllFacts DEF Cancel, PlanIds
  <2>2. QED
    BY <1>5, <2>1 DEF Cancel, TypeOK
<1>6. ASSUME NEW r \in Requests, NEW s \in Requests, Supersede(r, s) PROVE TypeOK'
  <2>1. plans' \in [PlanIds -> Plan] /\ PlanIds' = PlanIds
    BY <1>6, SupersedeFacts DEF Supersede, PlanIds
  <2>2. QED
    BY <1>6, <2>1 DEF Supersede, TypeOK
<1>7. ASSUME NEW p \in PlanIds, NEW fp \in Fingerprints, Revalidate(p, fp) PROVE TypeOK'
  <2>1. plans' \in [PlanIds -> Plan] /\ PlanIds' = PlanIds
    BY <1>7, SetStateFacts DEF Revalidate, PlanIds
  <2>2. QED
    BY <1>7, <2>1 DEF Revalidate, TypeOK
<1>8. ASSUME NEW t \in Threads, NEW r \in Requests, ScheduleSnapshot(t, r) PROVE TypeOK'
  BY <1>8 DEF ScheduleSnapshot, GoTo, CommitSteps, HandoffSteps, TypeOK, PlanIds
<1>9. ASSUME NEW t \in Threads, NEW p \in PlanIds, CommitBegin(t, p) PROVE TypeOK'
  <2>1. plans' \in [PlanIds -> Plan] /\ PlanIds' = PlanIds
    BY <1>9, SetStateFacts DEF CommitBegin, PlanIds
  <2>2. p \in 0..(nextPlanId - 1)
    BY DEF PlanIds, TypeOK
  <2>3. QED
    BY <1>9, <2>1, <2>2 DEF CommitBegin, GoTo, TypeOK, CommitSteps, HandoffSteps
<1>10. ASSUME NEW t \in Threads, NEW p \in PlanIds, HandoffBegin(t, p) PROVE TypeOK'
  <2>1. plans' \in [PlanIds -> Plan] /\ PlanIds' = PlanIds
    BY <1>10, SetStateFacts DEF HandoffBegin, PlanIds
  <2>2. p \in 0..(nextPlanId - 1)
    BY DEF PlanIds, TypeOK
  <2>3. QED
    BY <1>10, <2>1, <2>2 DEF HandoffBegin, GoTo, TypeOK, CommitSteps, HandoffSteps
<1>11. ASSUME NEW t \in Threads, ScheduleNone(t) PROVE TypeOK'
  BY <1>11 DEF ScheduleNone, Return, CommitSteps, HandoffSteps, TypeOK, PlanIds
<1>12. ASSUME NEW t \in Threads, NEW w \in snap[t], SchedulePlan(t, w) PROVE TypeOK'
  <2>1. /\ plans' \in [PlanIds' -> Plan] /\ PlanIds \subseteq PlanIds'
        /\ 0..(nextPlanId - 1) \subseteq 0..(nextPlanId' - 1)
        /\ {0, nextPlanId} \subseteq 0..(nextPlanId' - 1)
        /\ nextPlanId' \in Nat \ {0} /\ nextPlanId' <= MaxPlans + 1
    <3>1. /\ nextPlanId \in Nat \ {0} /\ nextPlanId' = nextPlanId + 1
          /\ nextPlanId <= MaxPlans
      BY <1>12 DEF SchedulePlan, TypeOK
    <3>2. plans' \in [PlanIds' -> Plan] /\ PlanIds \subseteq PlanIds'
      BY <1>12, NewPlanFacts
    <3>3. QED
      BY <3>1, <3>2, BoundsAssumption
  <2>2. reqOf[t] \in Requests
    BY <1>12 DEF SchedulePlan, TypeOK
  <2>3. latest' \in [Requests -> 0..(nextPlanId' - 1)]
    BY <1>12, <2>1, <2>2 DEF SchedulePlan, TypeOK
  <2>4. /\ job' \in [Threads -> 0..(nextPlanId' - 1)]
        /\ \A u \in Threads :
             pc'[u] \in CommitSteps \cup HandoffSteps => job'[u] \in PlanIds'
        /\ ledger' \subseteq [token : Nat, plan : PlanIds']
    <3>1. [token : Nat, plan : PlanIds] \subseteq [token : Nat, plan : PlanIds']
      BY <2>1
    <3>2. ledger' \subseteq [token : Nat, plan : PlanIds']
      BY <1>12, <3>1 DEF SchedulePlan, TypeOK
    <3>4. job' \in [Threads -> 0..(nextPlanId' - 1)]
      <4>1. /\ job \in [Threads -> 0..(nextPlanId - 1)]
            /\ job' = [job EXCEPT ![t] = 0]
        BY <1>12 DEF SchedulePlan, Return, TypeOK
      <4>2. ASSUME NEW A, NEW B, A \subseteq B, 0 \in B, job \in [Threads -> A]
            PROVE  job' \in [Threads -> B]
        BY <4>1, <4>2
      <4>3. QED
        BY <2>1, <4>1, <4>2
    <3>5. ASSUME NEW u \in Threads, pc'[u] \in CommitSteps \cup HandoffSteps
          PROVE  job'[u] \in PlanIds'
      BY <1>12, <2>1, <3>5 DEF SchedulePlan, Return, TypeOK, CommitSteps, HandoffSteps
    <3>6. QED
      BY <3>2, <3>4, <3>5
  <2>5. QED
    BY <1>12, <2>1, <2>3, <2>4 DEF SchedulePlan, Return, TypeOK, CommitSteps, HandoffSteps
<1>13. ASSUME NEW t \in Threads, BrokerCommit(t) PROVE TypeOK'
  <2>1. [token |-> nextToken, plan |-> job[t]] \in [token : Nat, plan : PlanIds]
    BY <1>13 DEF BrokerCommit, GoTo, TypeOK, CommitSteps
  <2>2. PlanIds' = PlanIds
    BY <1>13 DEF BrokerCommit, PlanIds
  <2>3. QED
    BY <1>13, <2>1, <2>2 DEF BrokerCommit, GoTo, TypeOK, CommitSteps, HandoffSteps
<1>14. ASSUME NEW t \in Threads, BrokerRefuse(t) PROVE TypeOK'
  BY <1>14 DEF BrokerRefuse, GoTo, CommitSteps, HandoffSteps, TypeOK, PlanIds
<1>15. ASSUME NEW t \in Threads, CommitSucceeds(t) PROVE TypeOK'
  <2>1. plans' \in [PlanIds -> Plan] /\ PlanIds' = PlanIds
    BY <1>15, CommitSucceedsFacts DEF CommitSucceeds, PlanIds
  <2>2. QED
    BY <1>15, <2>1 DEF CommitSucceeds, Return, TypeOK, CommitSteps, HandoffSteps
<1>16. ASSUME NEW t \in Threads, CommitTooLate(t) PROVE TypeOK'
  BY <1>16 DEF CommitTooLate, GoTo, CommitSteps, HandoffSteps, TypeOK, PlanIds
<1>17. ASSUME NEW t \in Threads, CommitRelease(t) PROVE TypeOK'
  BY <1>17 DEF CommitRelease, Return, CommitSteps, HandoffSteps, TypeOK, PlanIds
<1>18. ASSUME NEW t \in Threads, CommitFails(t) PROVE TypeOK'
  <2>1. job[t] \in PlanIds /\ PlanIds' = PlanIds
    BY <1>18 DEF CommitFails, TypeOK, CommitSteps, PlanIds
  <2>2. plans' \in [PlanIds -> Plan]
    BY <1>18, <2>1, SetStateFacts DEF CommitFails, TypeOK
  <2>3. QED
    BY <1>18, <2>1, <2>2 DEF CommitFails, Return, TypeOK, CommitSteps, HandoffSteps
<1>19. ASSUME NEW t \in Threads, Exec(t) PROVE TypeOK'
  BY <1>19 DEF Exec, ExecAuthorize, ExecDeny, GoTo, CommitSteps, HandoffSteps, TypeOK, PlanIds
<1>20. ASSUME NEW t \in Threads, HandoffStarts(t) \/ HandoffDenied(t) PROVE TypeOK'
  <2>1. job[t] \in PlanIds /\ PlanIds' = PlanIds
    BY <1>20 DEF HandoffStarts, HandoffDenied, TypeOK, HandoffSteps, PlanIds
  <2>2. plans' \in [PlanIds -> Plan]
    BY <1>20, <2>1, SetStateFacts DEF HandoffStarts, HandoffDenied
  <2>3. QED
    BY <1>20, <2>1, <2>2 DEF HandoffStarts, HandoffDenied, Return, TypeOK, CommitSteps, HandoffSteps
<1>21. ASSUME NEW t \in Threads, HandoffDropped(t) PROVE TypeOK'
  BY <1>21 DEF HandoffDropped, Return, CommitSteps, HandoffSteps, TypeOK, PlanIds
<1>22. CASE UNCHANGED vars
  BY <1>22 DEF vars, TypeOK, PlanIds
<1>23. QED
  BY <1>1, <1>2, <1>3, <1>4, <1>5, <1>6, <1>7, <1>8, <1>9, <1>10, <1>11,
     <1>12, <1>13, <1>14, <1>15, <1>16, <1>17, <1>18, <1>19, <1>20, <1>21, <1>22
     DEF Next, Schedule, Broker, Commit, Handoff

\* What an epoch change, a cancellation, a supersession and a revalidation
\* have in common: plans only leave the live states, threads do not move.
LEMMA StopStep ==
  ASSUME IInv, TypeOK', UNCHANGED <<nextPlanId, threadVars, external>>,
         \A q \in PlanIds :
           Kept(q) /\ (plans'[q].state = plans[q].state \/ plans'[q].state \notin LiveStates)
  PROVE  /\ BackedByExternalOwners' /\ NoOrphanedCommitment' /\ OneCommitmentPerPlan'
         /\ AwaitingHasOneOwner' /\ CommitOwnership' /\ HandoffOwnership' /\ LedgerMatches'
<1> USE DEF IInv, threadVars, external, Kept
<1>1. PlanIds' = PlanIds
  BY DEF PlanIds
<1>2. \A t \in Threads : pc[t] \in CommitSteps \cup HandoffSteps => job[t] \in PlanIds
  BY DEF TypeOK
<1>3. \A e \in ledger : e.plan \in PlanIds
  BY DEF TypeOK
<1>4. BackedByExternalOwners'
  BY <1>1 DEF BackedByExternalOwners, BackedStates, LiveStates, Outstanding
<1>5. NoOrphanedCommitment'
  BY <1>3 DEF NoOrphanedCommitment
<1>6. OneCommitmentPerPlan'
  BY DEF OneCommitmentPerPlan
<1>7. AwaitingHasOneOwner'
  BY <1>1 DEF AwaitingHasOneOwner, LiveStates, CommitOwner, HandoffOwner
<1>8. CommitOwnership'
  BY <1>2 DEF CommitOwnership, BackedStates, LiveStates, CommitOwner
<1>9. HandoffOwnership'
  BY <1>2 DEF HandoffOwnership, LiveStates, HandoffOwner
<1>10. LedgerMatches'
  BY <1>1 DEF LedgerMatches, BackedStates, LiveStates, Outstanding
<1>11. QED
  BY <1>4, <1>5, <1>6, <1>7, <1>8, <1>9, <1>10

\* set_epoch between two sections of a call: every plan left under the old
\* authority is out of the live states.
LEMMA SetEpochInv ==
  ASSUME IInv, TypeOK', NEW e \in 1..MaxEpoch, SetEpoch(e)
  PROVE  IInv'
<1>1. /\ \A q \in PlanIds : Kept(q)
      /\ \A q \in PlanIds :
           plans'[q].state = IF plans[q].state \notin Terminal
                             THEN "REVALIDATION_REQUIRED" ELSE plans[q].state
  BY ForceAllFacts, StateNames DEF SetEpoch, IInv
<1>2. \A q \in PlanIds : plans'[q].state \notin LiveStates
  BY <1>1 DEF LiveStates, Terminal
<1>3. PlanIds' = PlanIds
  BY DEF SetEpoch, PlanIds
<1>4. LiveUnderCurrentAuthority' /\ CancelledNeverWorks'
  BY <1>2, <1>3 DEF LiveUnderCurrentAuthority, CancelledNeverWorks
<1>5. QED
  BY <1>1, <1>2, <1>4, StopStep DEF IInv, SetEpoch

\* cancel between two sections of a call.
LEMMA CancelInv ==
  ASSUME IInv, TypeOK', NEW r \in Requests, Cancel(r)
  PROVE  IInv'
<1>1. /\ \A q \in PlanIds : Kept(q)
      /\ \A q \in PlanIds :
           plans'[q].state = IF q \in PlansOf(r) /\ plans[q].state \notin Terminal
                             THEN "CANCELLED" ELSE plans[q].state
  BY ForceAllFacts, StateNames DEF Cancel, IInv, Terminal
<1>2. \A q \in PlanIds : \/ plans'[q].state = plans[q].state
                         \/ plans'[q].state \notin LiveStates
  BY <1>1 DEF LiveStates
<1>3. PlanIds' = PlanIds
  BY DEF Cancel, PlanIds
<1>4. LiveUnderCurrentAuthority'
  BY <1>1, <1>2, <1>3 DEF LiveUnderCurrentAuthority, IInv, Kept, Cancel
<1>5. CancelledNeverWorks'
  BY <1>1, <1>3 DEF CancelledNeverWorks, IInv, Kept, Cancel, PlansOf, LiveStates, Terminal
<1>6. QED
  BY <1>1, <1>2, <1>4, <1>5, StopStep DEF IInv, Cancel

\* supersede between two sections of a call.
LEMMA SupersedeInv ==
  ASSUME IInv, TypeOK', NEW r \in Requests, NEW s \in Requests, Supersede(r, s)
  PROVE  IInv'
<1>1. /\ \A q \in PlanIds : Kept(q)
      /\ \A q \in PlanIds :
           plans'[q].state = IF q \in PlansOf(r) /\ plans[q].state \notin Terminal
                             THEN "SUPERSEDED" ELSE plans[q].state
  BY SupersedeFacts DEF IInv
<1>2. \A q \in PlanIds : \/ plans'[q].state = plans[q].state
                         \/ plans'[q].state \notin LiveStates
  BY <1>1 DEF LiveStates
<1>3. PlanIds' = PlanIds
  BY DEF Supersede, PlanIds
<1>4. LiveUnderCurrentAuthority' /\ CancelledNeverWorks'
  BY <1>1, <1>2, <1>3
     DEF LiveUnderCurrentAuthority, CancelledNeverWorks, IInv, Kept, Supersede
<1>5. QED
  BY <1>1, <1>2, <1>4, StopStep DEF IInv, Supersede

\* revalidate between two sections of a call; it may also move a terminal
\* plan, which is out of the live states before and after.
LEMMA RevalidateInv ==
  ASSUME IInv, TypeOK', NEW p \in PlanIds, NEW fp, Revalidate(p, fp)
  PROVE  IInv'
<1>1. /\ \A q \in PlanIds : Kept(q)
      /\ plans'[p].state = "REVALIDATION_REQUIRED"
      /\ \A q \in PlanIds : q # p => plans'[q].state = plans[q].state
  BY SetStateFacts, StateNames DEF Revalidate, IInv
<1>2. \A q \in PlanIds : \/ plans'[q].state = plans[q].state
                         \/ plans'[q].state \notin LiveStates
  BY <1>1 DEF LiveStates
<1>3. PlanIds' = PlanIds
  BY DEF Revalidate, PlanIds
<1>4. LiveUnderCurrentAuthority' /\ CancelledNeverWorks'
  BY <1>1, <1>2, <1>3
     DEF LiveUnderCurrentAuthority, CancelledNeverWorks, IInv, Kept, Revalidate
<1>5. QED
  BY <1>1, <1>2, <1>4, StopStep DEF IInv, Revalidate

\* The part of the type invariant the thread steps need.
LEMMA TypeFacts ==
  ASSUME TypeOK
  PROVE  /\ \A u \in Threads : pc[u] \in CommitSteps \cup HandoffSteps => job[u] \in PlanIds
         /\ \A e \in ledger : e = [token |-> e.token, plan |-> e.plan]
                             /\ e.plan \in PlanIds /\ e.token \in Nat
         /\ pc \in [Threads -> {"idle", "filtering"} \cup CommitSteps \cup HandoffSteps]
         /\ tok \in [Threads -> Nat] /\ DOMAIN job = Threads
         /\ nextToken \in Nat
BY DEF TypeOK

\* Taking a snapshot touches no plan and no owner.
LEMMA ScheduleSnapshotInv ==
  ASSUME IInv, TypeOK', NEW t \in Threads, NEW r \in Requests, ScheduleSnapshot(t, r)
  PROVE  IInv'
<1> USE TypeFacts DEF IInv, CommitSteps, HandoffSteps
<1>1. /\ pc[t] = "idle" /\ pc' = [pc EXCEPT ![t] = "filtering"] /\ PlanIds' = PlanIds
      /\ UNCHANGED <<epoch, authority, plans, cancelled, job, tok, ledger, nextToken, execGrants>>
  BY DEF ScheduleSnapshot, GoTo, state, external, PlanIds
<1>2. BackedByExternalOwners'
  BY <1>1 DEF BackedByExternalOwners, BackedStates, LiveStates, Outstanding
<1>3. NoOrphanedCommitment'
  BY <1>1 DEF NoOrphanedCommitment
<1>4. OneCommitmentPerPlan'
  BY <1>1 DEF OneCommitmentPerPlan
<1>5. LiveUnderCurrentAuthority'
  BY <1>1 DEF LiveUnderCurrentAuthority, LiveStates
<1>6. CancelledNeverWorks'
  BY <1>1 DEF CancelledNeverWorks, LiveStates
<1>7. AwaitingHasOneOwner'
  BY <1>1 DEF AwaitingHasOneOwner, LiveStates, CommitOwner, HandoffOwner
<1>8. CommitOwnership'
  BY <1>1 DEF CommitOwnership, BackedStates, LiveStates, CommitOwner
<1>9. HandoffOwnership'
  BY <1>1 DEF HandoffOwnership, LiveStates, HandoffOwner
<1>10. LedgerMatches'
  BY <1>1 DEF LedgerMatches, BackedStates, LiveStates, Outstanding
<1>11. QED
  BY <1>2, <1>3, <1>4, <1>5, <1>6, <1>7, <1>8, <1>9, <1>10

\* Neither does a schedule that finds no candidate.
LEMMA ScheduleNoneInv ==
  ASSUME IInv, TypeOK', NEW t \in Threads, ScheduleNone(t)
  PROVE  IInv'
<1> USE TypeFacts DEF IInv, CommitSteps, HandoffSteps
<1>1. /\ pc[t] = "filtering" /\ PlanIds' = PlanIds
      /\ pc' = [pc EXCEPT ![t] = "idle"]
      /\ job' = [job EXCEPT ![t] = 0] /\ tok' = [tok EXCEPT ![t] = 0]
      /\ UNCHANGED <<epoch, authority, plans, cancelled, ledger, nextToken, execGrants>>
  BY DEF ScheduleNone, Return, external, PlanIds
<1>2. BackedByExternalOwners'
  BY <1>1 DEF BackedByExternalOwners, BackedStates, LiveStates, Outstanding
<1>3. NoOrphanedCommitment'
  BY <1>1 DEF NoOrphanedCommitment
<1>4. OneCommitmentPerPlan'
  BY <1>1 DEF OneCommitmentPerPlan
<1>5. LiveUnderCurrentAuthority'
  BY <1>1 DEF LiveUnderCurrentAuthority, LiveStates
<1>6. CancelledNeverWorks'
  BY <1>1 DEF CancelledNeverWorks, LiveStates
<1>7. AwaitingHasOneOwner'
  BY <1>1 DEF AwaitingHasOneOwner, LiveStates, CommitOwner, HandoffOwner
<1>8. CommitOwnership'
  BY <1>1 DEF CommitOwnership, BackedStates, LiveStates, CommitOwner
<1>9. HandoffOwnership'
  BY <1>1 DEF HandoffOwnership, LiveStates, HandoffOwner
<1>10. LedgerMatches'
  BY <1>1 DEF LedgerMatches, BackedStates, LiveStates, Outstanding
<1>11. QED
  BY <1>2, <1>3, <1>4, <1>5, <1>6, <1>7, <1>8, <1>9, <1>10

\* A new plan has no owner, no evidence and no commitment, and is current.
LEMMA SchedulePlanInv ==
  ASSUME IInv, TypeOK', NEW t \in Threads, NEW w \in snap[t], SchedulePlan(t, w)
  PROVE  IInv'
<1> USE TypeFacts DEF IInv, CommitSteps, HandoffSteps
<1>1. /\ pc[t] = "filtering"
      /\ pc' = [pc EXCEPT ![t] = "idle"]
      /\ job' = [job EXCEPT ![t] = 0] /\ tok' = [tok EXCEPT ![t] = 0]
      /\ UNCHANGED <<epoch, authority, cancelled, ledger, nextToken, execGrants>>
  BY DEF SchedulePlan, Return, external
<1>2. /\ PlanIds' = PlanIds \cup {nextPlanId} /\ nextPlanId \notin PlanIds
      /\ \A q \in PlanIds : plans'[q] = plans[q]
      /\ plans'[nextPlanId].state = "PLAN_READY"
      /\ plans'[nextPlanId].hasCommitmentEvidence = FALSE
      /\ plans'[nextPlanId].epoch = epoch
      /\ plans'[nextPlanId].authority = authority
  BY NewPlanFacts
<1>3. BackedByExternalOwners'
  BY <1>1, <1>2 DEF BackedByExternalOwners, BackedStates, LiveStates, Outstanding
<1>4. NoOrphanedCommitment'
  BY <1>1, <1>2 DEF NoOrphanedCommitment
<1>5. OneCommitmentPerPlan'
  BY <1>1, <1>2 DEF OneCommitmentPerPlan
<1>6. LiveUnderCurrentAuthority'
  BY <1>1, <1>2 DEF LiveUnderCurrentAuthority, LiveStates
<1>7. CancelledNeverWorks'
  BY <1>1, <1>2 DEF CancelledNeverWorks, LiveStates
<1>8. AwaitingHasOneOwner'
  BY <1>1, <1>2 DEF AwaitingHasOneOwner, LiveStates, CommitOwner, HandoffOwner
<1>9. CommitOwnership'
  BY <1>1, <1>2 DEF CommitOwnership, BackedStates, LiveStates, CommitOwner
<1>10. HandoffOwnership'
  BY <1>1, <1>2 DEF HandoffOwnership, LiveStates, HandoffOwner
<1>11. LedgerMatches'
  BY <1>1, <1>2 DEF LedgerMatches, BackedStates, LiveStates, Outstanding
<1>12. QED
  BY <1>3, <1>4, <1>5, <1>6, <1>7, <1>8, <1>9, <1>10, <1>11

\* The first section of commit makes its thread the one owner of the plan.
LEMMA CommitBeginInv ==
  ASSUME IInv, TypeOK', NEW t \in Threads, NEW p \in PlanIds, CommitBegin(t, p)
  PROVE  IInv'
<1> USE TypeFacts DEF IInv, CommitSteps, HandoffSteps
<1>1. /\ pc[t] = "idle" /\ plans[p].state = "PLAN_READY" /\ ~Disowned(p)
      /\ pc' = [pc EXCEPT ![t] = "committing"] /\ job' = [job EXCEPT ![t] = p]
      /\ PlanIds' = PlanIds
      /\ UNCHANGED <<epoch, authority, cancelled, tok, ledger, nextToken, execGrants>>
  BY DEF CommitBegin, GoTo, external, PlanIds
<1>2. /\ \A q \in PlanIds : Kept(q)
      /\ plans'[p].state = "AWAITING_RESOURCE_COMMIT"
      /\ \A q \in PlanIds : q # p => plans'[q].state = plans[q].state
  BY SetStateFacts, StateNames DEF CommitBegin, LiveStates
<1>3. /\ \A u \in Threads : pc[u] \in CommitSteps \cup HandoffSteps => job[u] # p
      /\ plans[p].hasCommitmentEvidence = FALSE
  BY <1>1 DEF CommitOwnership, HandoffOwnership, LedgerMatches, BackedStates, LiveStates
<1>4. BackedByExternalOwners'
  BY <1>1, <1>2, <1>3 DEF BackedByExternalOwners, BackedStates, LiveStates, Outstanding, Kept, Disowned
<1>5. NoOrphanedCommitment'
  BY <1>1, <1>2, <1>3 DEF NoOrphanedCommitment, Kept, Disowned
<1>6. OneCommitmentPerPlan'
  BY <1>1, <1>2, <1>3 DEF OneCommitmentPerPlan, Kept, Disowned
<1>7. LiveUnderCurrentAuthority'
  BY <1>1, <1>2, <1>3 DEF LiveUnderCurrentAuthority, LiveStates, Kept, Disowned
<1>8. CancelledNeverWorks'
  BY <1>1, <1>2, <1>3 DEF CancelledNeverWorks, LiveStates, Kept, Disowned
<1>9. AwaitingHasOneOwner'
  BY <1>1, <1>2, <1>3 DEF AwaitingHasOneOwner, LiveStates, CommitOwner, HandoffOwner, Kept, Disowned
<1>10. CommitOwnership'
  BY <1>1, <1>2, <1>3 DEF CommitOwnership, BackedStates, LiveStates, CommitOwner, Kept, Disowned
<1>11. HandoffOwnership'
  BY <1>1, <1>2, <1>3 DEF HandoffOwnership, LiveStates, HandoffOwner, Kept, Disowned
<1>12. LedgerMatches'
  BY <1>1, <1>2, <1>3 DEF LedgerMatches, BackedStates, LiveStates, Outstanding, Kept, Disowned
<1>13. QED
  BY <1>4, <1>5, <1>6, <1>7, <1>8, <1>9, <1>10, <1>11, <1>12

\* The first section of handoff makes its thread the one owner of the plan.
LEMMA HandoffBeginInv ==
  ASSUME IInv, TypeOK', NEW t \in Threads, NEW p \in PlanIds, HandoffBegin(t, p)
  PROVE  IInv'
<1> USE TypeFacts DEF IInv, CommitSteps, HandoffSteps
<1>1. /\ pc[t] = "idle" /\ plans[p].state = "COMMITTED" /\ ~Disowned(p)
      /\ pc' = [pc EXCEPT ![t] = "authorizing"] /\ job' = [job EXCEPT ![t] = p]
      /\ PlanIds' = PlanIds
      /\ UNCHANGED <<epoch, authority, cancelled, tok, ledger, nextToken, execGrants>>
  BY DEF HandoffBegin, GoTo, external, PlanIds
<1>2. /\ \A q \in PlanIds : Kept(q)
      /\ plans'[p].state = "AWAITING_EXECUTION"
      /\ \A q \in PlanIds : q # p => plans'[q].state = plans[q].state
  BY SetStateFacts, StateNames DEF HandoffBegin, LiveStates
<1>3. /\ \A u \in Threads : pc[u] \in CommitSteps \cup HandoffSteps => job[u] # p
      /\ plans[p].hasCommitmentEvidence = TRUE
  BY <1>1 DEF CommitOwnership, HandoffOwnership, LedgerMatches, BackedStates, LiveStates
<1>4. BackedByExternalOwners'
  BY <1>1, <1>2, <1>3 DEF BackedByExternalOwners, BackedStates, LiveStates, Outstanding, Kept, Disowned
<1>5. NoOrphanedCommitment'
  BY <1>1, <1>2, <1>3 DEF NoOrphanedCommitment, Kept, Disowned
<1>6. OneCommitmentPerPlan'
  BY <1>1, <1>2, <1>3 DEF OneCommitmentPerPlan, Kept, Disowned
<1>7. LiveUnderCurrentAuthority'
  BY <1>1, <1>2, <1>3 DEF LiveUnderCurrentAuthority, LiveStates, Kept, Disowned
<1>8. CancelledNeverWorks'
  BY <1>1, <1>2, <1>3 DEF CancelledNeverWorks, LiveStates, Kept, Disowned
<1>9. AwaitingHasOneOwner'
  BY <1>1, <1>2, <1>3 DEF AwaitingHasOneOwner, LiveStates, CommitOwner, HandoffOwner, Kept, Disowned
<1>10. CommitOwnership'
  BY <1>1, <1>2, <1>3 DEF CommitOwnership, BackedStates, LiveStates, CommitOwner, Kept, Disowned
<1>11. HandoffOwnership'
  BY <1>1, <1>2, <1>3 DEF HandoffOwnership, LiveStates, HandoffOwner, Kept, Disowned
<1>12. LedgerMatches'
  BY <1>1, <1>2, <1>3 DEF LedgerMatches, BackedStates, LiveStates, Outstanding, Kept, Disowned
<1>13. QED
  BY <1>4, <1>5, <1>6, <1>7, <1>8, <1>9, <1>10, <1>11, <1>12

\* The token the broker hands out is new and is the only one of its plan.
LEMMA BrokerCommitInv ==
  ASSUME IInv, TypeOK', NEW t \in Threads, BrokerCommit(t)
  PROVE  IInv'
<1> USE TypeFacts DEF IInv, CommitSteps, HandoffSteps
<1>1. /\ pc[t] = "committing" /\ pc' = [pc EXCEPT ![t] = "granted"]
      /\ ledger' = ledger \cup {[token |-> nextToken, plan |-> job[t]]}
      /\ tok' = [tok EXCEPT ![t] = nextToken] /\ nextToken' = nextToken + 1
      /\ PlanIds' = PlanIds
      /\ UNCHANGED <<epoch, authority, cancelled, plans, job, execGrants>>
  BY DEF BrokerCommit, GoTo, state, PlanIds
<1>2. \A e \in ledger : e.plan # job[t]
  BY <1>1 DEF NoOrphanedCommitment, CommitOwnership, CommitOwner
<1>3. BackedByExternalOwners'
  BY <1>1, <1>2 DEF BackedByExternalOwners, BackedStates, LiveStates, Outstanding
<1>4. NoOrphanedCommitment'
  BY <1>1, <1>2 DEF NoOrphanedCommitment
<1>5. OneCommitmentPerPlan'
  BY <1>1, <1>2 DEF OneCommitmentPerPlan
<1>6. LiveUnderCurrentAuthority'
  BY <1>1, <1>2 DEF LiveUnderCurrentAuthority, LiveStates
<1>7. CancelledNeverWorks'
  BY <1>1, <1>2 DEF CancelledNeverWorks, LiveStates
<1>8. AwaitingHasOneOwner'
  BY <1>1, <1>2 DEF AwaitingHasOneOwner, LiveStates, CommitOwner, HandoffOwner
<1>9. CommitOwnership'
  BY <1>1, <1>2 DEF CommitOwnership, BackedStates, LiveStates, CommitOwner
<1>10. HandoffOwnership'
  BY <1>1, <1>2 DEF HandoffOwnership, LiveStates, HandoffOwner
<1>11. LedgerMatches'
  BY <1>1, <1>2 DEF LedgerMatches, BackedStates, LiveStates, Outstanding
<1>12. QED
  BY <1>3, <1>4, <1>5, <1>6, <1>7, <1>8, <1>9, <1>10, <1>11

\* A refusal leaves the ledger alone.
LEMMA BrokerRefuseInv ==
  ASSUME IInv, TypeOK', NEW t \in Threads, BrokerRefuse(t)
  PROVE  IInv'
<1> USE TypeFacts DEF IInv, CommitSteps, HandoffSteps
<1>1. /\ pc[t] = "committing" /\ pc' = [pc EXCEPT ![t] = "refused"]
      /\ PlanIds' = PlanIds
      /\ UNCHANGED <<epoch, authority, cancelled, plans, job, tok, ledger, nextToken, execGrants>>
  BY DEF BrokerRefuse, GoTo, state, external, PlanIds
<1>2. BackedByExternalOwners'
  BY <1>1 DEF BackedByExternalOwners, BackedStates, LiveStates, Outstanding
<1>3. NoOrphanedCommitment'
  BY <1>1 DEF NoOrphanedCommitment
<1>4. OneCommitmentPerPlan'
  BY <1>1 DEF OneCommitmentPerPlan
<1>5. LiveUnderCurrentAuthority'
  BY <1>1 DEF LiveUnderCurrentAuthority, LiveStates
<1>6. CancelledNeverWorks'
  BY <1>1 DEF CancelledNeverWorks, LiveStates
<1>7. AwaitingHasOneOwner'
  BY <1>1 DEF AwaitingHasOneOwner, LiveStates, CommitOwner, HandoffOwner
<1>8. CommitOwnership'
  BY <1>1 DEF CommitOwnership, BackedStates, LiveStates, CommitOwner
<1>9. HandoffOwnership'
  BY <1>1 DEF HandoffOwnership, LiveStates, HandoffOwner
<1>10. LedgerMatches'
  BY <1>1 DEF LedgerMatches, BackedStates, LiveStates, Outstanding
<1>11. QED
  BY <1>2, <1>3, <1>4, <1>5, <1>6, <1>7, <1>8, <1>9, <1>10

\* The token of the owner becomes the evidence of the plan.
LEMMA CommitSucceedsInv ==
  ASSUME IInv, TypeOK', NEW t \in Threads, CommitSucceeds(t)
  PROVE  IInv'
<1> USE TypeFacts DEF IInv, CommitSteps, HandoffSteps
<1>1. /\ pc[t] = "granted" /\ ~StaleCommit(job[t]) /\ PlanIds' = PlanIds
      /\ pc' = [pc EXCEPT ![t] = "idle"]
      /\ job' = [job EXCEPT ![t] = 0] /\ tok' = [tok EXCEPT ![t] = 0]
      /\ UNCHANGED <<epoch, authority, cancelled, ledger, nextToken, execGrants>>
  BY DEF CommitSucceeds, Return, external, PlanIds
<1>2. /\ job[t] \in PlanIds
      /\ \A q \in PlanIds : q # job[t] => plans'[q] = plans[q]
      /\ plans'[job[t]].state = "COMMITTED"
      /\ plans'[job[t]].hasCommitmentEvidence = TRUE
      /\ plans'[job[t]].request = plans[job[t]].request
      /\ plans'[job[t]].epoch = plans[job[t]].epoch
      /\ plans'[job[t]].authority = plans[job[t]].authority
  BY CommitSucceedsFacts
<1>3. [token |-> tok[t], plan |-> job[t]] \in ledger
  BY <1>1 DEF LedgerMatches
<1>4. \E e \in ledger : e.plan = job[t]
  BY <1>3
<1>5. BackedByExternalOwners'
  BY <1>1, <1>2, <1>3, <1>4 DEF BackedByExternalOwners, BackedStates, LiveStates, Outstanding, StaleCommit, Disowned, LedgerMatches
<1>6. NoOrphanedCommitment'
  BY <1>1, <1>2, <1>3, <1>4 DEF NoOrphanedCommitment, StaleCommit, Disowned
<1>7. OneCommitmentPerPlan'
  BY <1>1, <1>2, <1>3, <1>4 DEF OneCommitmentPerPlan, StaleCommit, Disowned
<1>8. LiveUnderCurrentAuthority'
  BY <1>1, <1>2, <1>3, <1>4 DEF LiveUnderCurrentAuthority, LiveStates, StaleCommit, Disowned
<1>9. CancelledNeverWorks'
  BY <1>1, <1>2, <1>3, <1>4 DEF CancelledNeverWorks, LiveStates, StaleCommit, Disowned
<1>10. AwaitingHasOneOwner'
  BY <1>1, <1>2, <1>3, <1>4 DEF AwaitingHasOneOwner, LiveStates, CommitOwner, HandoffOwner, StaleCommit, Disowned
<1>11. CommitOwnership'
  BY <1>1, <1>2, <1>3, <1>4 DEF CommitOwnership, BackedStates, LiveStates, CommitOwner, StaleCommit, Disowned
<1>12. HandoffOwnership'
  BY <1>1, <1>2, <1>3, <1>4 DEF HandoffOwnership, LiveStates, HandoffOwner, StaleCommit, Disowned
<1>13. LedgerMatches'
  BY <1>1, <1>2, <1>3, <1>4 DEF LedgerMatches, BackedStates, LiveStates, Outstanding, StaleCommit, Disowned
<1>14. QED
  BY <1>5, <1>6, <1>7, <1>8, <1>9, <1>10, <1>11, <1>12, <1>13

\* The verdict "too late" leaves the token with its thread; the plan waits no more.
LEMMA CommitTooLateInv ==
  ASSUME IInv, TypeOK', NEW t \in Threads, CommitTooLate(t)
  PROVE  IInv'
<1> USE TypeFacts DEF IInv, CommitSteps, HandoffSteps
<1>1. /\ pc[t] = "granted" /\ pc' = [pc EXCEPT ![t] = "releasing"]
      /\ PlanIds' = PlanIds /\ StaleCommit(job[t])
      /\ UNCHANGED <<epoch, authority, cancelled, plans, job, tok, ledger, nextToken, execGrants>>
  BY DEF CommitTooLate, GoTo, state, external, PlanIds
<1>2. plans[job[t]].state # "AWAITING_RESOURCE_COMMIT"
  BY <1>1 DEF StaleCommit, Disowned, LiveUnderCurrentAuthority, CancelledNeverWorks, LiveStates
<1>3. BackedByExternalOwners'
  BY <1>1, <1>2 DEF BackedByExternalOwners, BackedStates, LiveStates, Outstanding
<1>4. NoOrphanedCommitment'
  BY <1>1, <1>2 DEF NoOrphanedCommitment
<1>5. OneCommitmentPerPlan'
  BY <1>1, <1>2 DEF OneCommitmentPerPlan
<1>6. LiveUnderCurrentAuthority'
  BY <1>1, <1>2 DEF LiveUnderCurrentAuthority, LiveStates
<1>7. CancelledNeverWorks'
  BY <1>1, <1>2 DEF CancelledNeverWorks, LiveStates
<1>8. AwaitingHasOneOwner'
  BY <1>1, <1>2 DEF AwaitingHasOneOwner, LiveStates, CommitOwner, HandoffOwner
<1>9. CommitOwnership'
  BY <1>1, <1>2 DEF CommitOwnership, BackedStates, LiveStates, CommitOwner
<1>10. HandoffOwnership'
  BY <1>1, <1>2 DEF HandoffOwnership, LiveStates, HandoffOwner
<1>11. LedgerMatches'
  BY <1>1, <1>2 DEF LedgerMatches, BackedStates, LiveStates, Outstanding
<1>12. QED
  BY <1>3, <1>4, <1>5, <1>6, <1>7, <1>8, <1>9, <1>10, <1>11

\* Giving a token back removes the entry of a plan without evidence, and no other.
LEMMA CommitReleaseInv ==
  ASSUME IInv, TypeOK', NEW t \in Threads, CommitRelease(t)
  PROVE  IInv'
<1> USE TypeFacts DEF IInv, CommitSteps, HandoffSteps
<1>1. /\ pc[t] = "releasing" /\ PlanIds' = PlanIds
      /\ ledger' = {e \in ledger : e.token # tok[t]}
      /\ pc' = [pc EXCEPT ![t] = "idle"]
      /\ job' = [job EXCEPT ![t] = 0] /\ tok' = [tok EXCEPT ![t] = 0]
      /\ UNCHANGED <<epoch, authority, cancelled, plans, nextToken, execGrants>>
  BY DEF CommitRelease, Return, state, PlanIds
<1>2. \A u \in Threads : pc[u] \in {"granted", "releasing"} =>
        [token |-> tok[u], plan |-> job[u]] \in ledger
  BY DEF LedgerMatches
<1>3. /\ ~plans[job[t]].hasCommitmentEvidence
      /\ \A e \in ledger : e.token = tok[t] => e.plan = job[t]
  BY <1>1, <1>2 DEF CommitOwnership, LedgerMatches
<1>4. ASSUME NEW u \in Threads, u # t, pc[u] \in {"granted", "releasing"}
      PROVE  tok[u] # tok[t]
  BY <1>1, <1>2, <1>3, <1>4 DEF CommitOwnership, CommitOwner
<1>5. BackedByExternalOwners'
  BY <1>1, <1>2, <1>3, <1>4 DEF BackedByExternalOwners, BackedStates, LiveStates, Outstanding
<1>6. NoOrphanedCommitment'
  BY <1>1, <1>2, <1>3, <1>4 DEF NoOrphanedCommitment
<1>7. OneCommitmentPerPlan'
  BY <1>1, <1>2, <1>3, <1>4 DEF OneCommitmentPerPlan
<1>8. LiveUnderCurrentAuthority'
  BY <1>1, <1>2, <1>3, <1>4 DEF LiveUnderCurrentAuthority, LiveStates
<1>9. CancelledNeverWorks'
  BY <1>1, <1>2, <1>3, <1>4 DEF CancelledNeverWorks, LiveStates
<1>10. AwaitingHasOneOwner'
  BY <1>1, <1>2, <1>3, <1>4 DEF AwaitingHasOneOwner, LiveStates, CommitOwner, HandoffOwner
<1>11. CommitOwnership'
  BY <1>1, <1>2, <1>3, <1>4 DEF CommitOwnership, BackedStates, LiveStates, CommitOwner
<1>12. HandoffOwnership'
  BY <1>1, <1>2, <1>3, <1>4 DEF HandoffOwnership, LiveStates, HandoffOwner
<1>13. LedgerMatches'
  BY <1>1, <1>2, <1>3, <1>4 DEF LedgerMatches, BackedStates, LiveStates, Outstanding
<1>14. QED
  BY <1>5, <1>6, <1>7, <1>8, <1>9, <1>10, <1>11, <1>12, <1>13

\* A refused commit ends with the plan out of the live states.
LEMMA CommitFailsInv ==
  ASSUME IInv, TypeOK', NEW t \in Threads, CommitFails(t)
  PROVE  IInv'
<1> USE TypeFacts DEF IInv, CommitSteps, HandoffSteps
<1>1. /\ pc[t] = "refused" /\ PlanIds' = PlanIds
      /\ pc' = [pc EXCEPT ![t] = "idle"]
      /\ job' = [job EXCEPT ![t] = 0] /\ tok' = [tok EXCEPT ![t] = 0]
      /\ UNCHANGED <<epoch, authority, cancelled, ledger, nextToken, execGrants>>
  BY DEF CommitFails, Return, external, PlanIds
<1>2. StaleCommit(job[t]) => plans[job[t]].state # "AWAITING_RESOURCE_COMMIT"
  BY <1>1 DEF StaleCommit, Disowned, LiveUnderCurrentAuthority, CancelledNeverWorks, LiveStates
<1>3. /\ \A q \in PlanIds : Kept(q)
      /\ \A q \in PlanIds : q # job[t] => plans'[q].state = plans[q].state
      /\ plans'[job[t]].state \in {plans[job[t]].state, "REVALIDATION_REQUIRED"}
      /\ plans'[job[t]].state # "AWAITING_RESOURCE_COMMIT"
  BY <1>1, <1>2, SetStateFacts, StateNames DEF CommitFails, Kept
<1>4. BackedByExternalOwners'
  BY <1>1, <1>2, <1>3 DEF BackedByExternalOwners, BackedStates, LiveStates, Outstanding, Kept
<1>5. NoOrphanedCommitment'
  BY <1>1, <1>2, <1>3 DEF NoOrphanedCommitment, Kept
<1>6. OneCommitmentPerPlan'
  BY <1>1, <1>2, <1>3 DEF OneCommitmentPerPlan, Kept
<1>7. LiveUnderCurrentAuthority'
  BY <1>1, <1>2, <1>3 DEF LiveUnderCurrentAuthority, LiveStates, Kept
<1>8. CancelledNeverWorks'
  BY <1>1, <1>2, <1>3 DEF CancelledNeverWorks, LiveStates, Kept
<1>9. AwaitingHasOneOwner'
  BY <1>1, <1>2, <1>3 DEF AwaitingHasOneOwner, LiveStates, CommitOwner, HandoffOwner, Kept
<1>10. CommitOwnership'
  BY <1>1, <1>2, <1>3 DEF CommitOwnership, BackedStates, LiveStates, CommitOwner, Kept
<1>11. HandoffOwnership'
  BY <1>1, <1>2, <1>3 DEF HandoffOwnership, LiveStates, HandoffOwner, Kept
<1>12. LedgerMatches'
  BY <1>1, <1>2, <1>3 DEF LedgerMatches, BackedStates, LiveStates, Outstanding, Kept
<1>13. QED
  BY <1>4, <1>5, <1>6, <1>7, <1>8, <1>9, <1>10, <1>11, <1>12

\* The grant of the execution fabric is recorded with the owner.
LEMMA ExecAuthorizeInv ==
  ASSUME IInv, TypeOK', NEW t \in Threads, ExecAuthorize(t)
  PROVE  IInv'
<1> USE TypeFacts DEF IInv, CommitSteps, HandoffSteps
<1>1. /\ pc[t] = "authorizing" /\ pc' = [pc EXCEPT ![t] = "authorized"]
      /\ execGrants' = execGrants \cup {job[t]} /\ PlanIds' = PlanIds
      /\ UNCHANGED <<epoch, authority, cancelled, plans, job, tok, ledger, nextToken>>
  BY DEF ExecAuthorize, GoTo, state, PlanIds
<1>2. BackedByExternalOwners'
  BY <1>1 DEF BackedByExternalOwners, BackedStates, LiveStates, Outstanding
<1>3. NoOrphanedCommitment'
  BY <1>1 DEF NoOrphanedCommitment
<1>4. OneCommitmentPerPlan'
  BY <1>1 DEF OneCommitmentPerPlan
<1>5. LiveUnderCurrentAuthority'
  BY <1>1 DEF LiveUnderCurrentAuthority, LiveStates
<1>6. CancelledNeverWorks'
  BY <1>1 DEF CancelledNeverWorks, LiveStates
<1>7. AwaitingHasOneOwner'
  BY <1>1 DEF AwaitingHasOneOwner, LiveStates, CommitOwner, HandoffOwner
<1>8. CommitOwnership'
  BY <1>1 DEF CommitOwnership, BackedStates, LiveStates, CommitOwner
<1>9. HandoffOwnership'
  BY <1>1 DEF HandoffOwnership, LiveStates, HandoffOwner
<1>10. LedgerMatches'
  BY <1>1 DEF LedgerMatches, BackedStates, LiveStates, Outstanding
<1>11. QED
  BY <1>2, <1>3, <1>4, <1>5, <1>6, <1>7, <1>8, <1>9, <1>10

\* A denial only moves the owner.
LEMMA ExecDenyInv ==
  ASSUME IInv, TypeOK', NEW t \in Threads, ExecDeny(t)
  PROVE  IInv'
<1> USE TypeFacts DEF IInv, CommitSteps, HandoffSteps
<1>1. /\ pc[t] = "authorizing" /\ pc' = [pc EXCEPT ![t] = "denied"]
      /\ PlanIds' = PlanIds
      /\ UNCHANGED <<epoch, authority, cancelled, plans, job, tok, ledger, nextToken, execGrants>>
  BY DEF ExecDeny, GoTo, state, external, PlanIds
<1>2. BackedByExternalOwners'
  BY <1>1 DEF BackedByExternalOwners, BackedStates, LiveStates, Outstanding
<1>3. NoOrphanedCommitment'
  BY <1>1 DEF NoOrphanedCommitment
<1>4. OneCommitmentPerPlan'
  BY <1>1 DEF OneCommitmentPerPlan
<1>5. LiveUnderCurrentAuthority'
  BY <1>1 DEF LiveUnderCurrentAuthority, LiveStates
<1>6. CancelledNeverWorks'
  BY <1>1 DEF CancelledNeverWorks, LiveStates
<1>7. AwaitingHasOneOwner'
  BY <1>1 DEF AwaitingHasOneOwner, LiveStates, CommitOwner, HandoffOwner
<1>8. CommitOwnership'
  BY <1>1 DEF CommitOwnership, BackedStates, LiveStates, CommitOwner
<1>9. HandoffOwnership'
  BY <1>1 DEF HandoffOwnership, LiveStates, HandoffOwner
<1>10. LedgerMatches'
  BY <1>1 DEF LedgerMatches, BackedStates, LiveStates, Outstanding
<1>11. QED
  BY <1>2, <1>3, <1>4, <1>5, <1>6, <1>7, <1>8, <1>9, <1>10

\* The transition table lets a plan reach ACTIVE from AWAITING_EXECUTION only.
LEMMA StartsFromAwaiting ==
  \A s : CanTransition(s, "ACTIVE") => s \in {"ACTIVE", "AWAITING_EXECUTION"}
BY DEF CanTransition, Forward

\* Only a plan that still waits for its execution can start.
LEMMA HandoffStartsInv ==
  ASSUME IInv, TypeOK', NEW t \in Threads, HandoffStarts(t)
  PROVE  IInv'
<1> USE TypeFacts DEF IInv, CommitSteps, HandoffSteps
<1>1. /\ pc[t] = "authorized" /\ ~Disowned(job[t]) /\ PlanIds' = PlanIds
      /\ pc' = [pc EXCEPT ![t] = "idle"]
      /\ job' = [job EXCEPT ![t] = 0] /\ tok' = [tok EXCEPT ![t] = 0]
      /\ UNCHANGED <<epoch, authority, cancelled, ledger, nextToken, execGrants>>
  BY DEF HandoffStarts, Return, external, PlanIds
<1>2. job[t] \in PlanIds /\ plans[job[t]].state = "AWAITING_EXECUTION"
  BY <1>1, StartsFromAwaiting DEF HandoffStarts, MayAdvance, HandoffOwnership, LiveStates
<1>3. /\ \A q \in PlanIds : Kept(q)
      /\ \A q \in PlanIds : q # job[t] => plans'[q].state = plans[q].state
      /\ plans'[job[t]].state = "ACTIVE"
  BY <1>2, SetStateFacts, StateNames DEF HandoffStarts, LiveStates
<1>4. BackedByExternalOwners'
  BY <1>1, <1>2, <1>3 DEF BackedByExternalOwners, BackedStates, LiveStates, Outstanding, Kept, Disowned, HandoffOwnership, LedgerMatches
<1>5. NoOrphanedCommitment'
  BY <1>1, <1>2, <1>3 DEF NoOrphanedCommitment, Kept, Disowned
<1>6. OneCommitmentPerPlan'
  BY <1>1, <1>2, <1>3 DEF OneCommitmentPerPlan, Kept, Disowned
<1>7. LiveUnderCurrentAuthority'
  BY <1>1, <1>2, <1>3 DEF LiveUnderCurrentAuthority, LiveStates, Kept, Disowned
<1>8. CancelledNeverWorks'
  BY <1>1, <1>2, <1>3 DEF CancelledNeverWorks, LiveStates, Kept, Disowned
<1>9. AwaitingHasOneOwner'
  BY <1>1, <1>2, <1>3 DEF AwaitingHasOneOwner, LiveStates, CommitOwner, HandoffOwner, Kept, Disowned
<1>10. CommitOwnership'
  BY <1>1, <1>2, <1>3 DEF CommitOwnership, BackedStates, LiveStates, CommitOwner, Kept, Disowned
<1>11. HandoffOwnership'
  BY <1>1, <1>2, <1>3 DEF HandoffOwnership, LiveStates, HandoffOwner, Kept, Disowned
<1>12. LedgerMatches'
  BY <1>1, <1>2, <1>3 DEF LedgerMatches, BackedStates, LiveStates, Outstanding, Kept, Disowned
<1>13. QED
  BY <1>4, <1>5, <1>6, <1>7, <1>8, <1>9, <1>10, <1>11, <1>12

\* A handoff that ends without effect leaves no plan waiting for its thread.
LEMMA HandoffDroppedInv ==
  ASSUME IInv, TypeOK', NEW t \in Threads, HandoffDropped(t)
  PROVE  IInv'
<1> USE TypeFacts DEF IInv, CommitSteps, HandoffSteps
<1>1. /\ pc[t] \in {"authorized", "denied"} /\ PlanIds' = PlanIds
      /\ Disowned(job[t]) \/ ~MayAdvance(job[t], "ACTIVE")
      /\ pc' = [pc EXCEPT ![t] = "idle"]
      /\ job' = [job EXCEPT ![t] = 0] /\ tok' = [tok EXCEPT ![t] = 0]
      /\ UNCHANGED <<epoch, authority, cancelled, plans, ledger, nextToken, execGrants>>
  BY DEF HandoffDropped, Return, state, external, PlanIds
<1>2. plans[job[t]].state # "AWAITING_EXECUTION"
  BY <1>1 DEF Disowned, MayAdvance, CanTransition, Forward, LiveUnderCurrentAuthority, CancelledNeverWorks, LiveStates
<1>3. BackedByExternalOwners'
  BY <1>1, <1>2 DEF BackedByExternalOwners, BackedStates, LiveStates, Outstanding
<1>4. NoOrphanedCommitment'
  BY <1>1, <1>2 DEF NoOrphanedCommitment
<1>5. OneCommitmentPerPlan'
  BY <1>1, <1>2 DEF OneCommitmentPerPlan
<1>6. LiveUnderCurrentAuthority'
  BY <1>1, <1>2 DEF LiveUnderCurrentAuthority, LiveStates
<1>7. CancelledNeverWorks'
  BY <1>1, <1>2 DEF CancelledNeverWorks, LiveStates
<1>8. AwaitingHasOneOwner'
  BY <1>1, <1>2 DEF AwaitingHasOneOwner, LiveStates, CommitOwner, HandoffOwner
<1>9. CommitOwnership'
  BY <1>1, <1>2 DEF CommitOwnership, BackedStates, LiveStates, CommitOwner
<1>10. HandoffOwnership'
  BY <1>1, <1>2 DEF HandoffOwnership, LiveStates, HandoffOwner
<1>11. LedgerMatches'
  BY <1>1, <1>2 DEF LedgerMatches, BackedStates, LiveStates, Outstanding
<1>12. QED
  BY <1>3, <1>4, <1>5, <1>6, <1>7, <1>8, <1>9, <1>10, <1>11

\* A denied handoff ends with the plan out of the live states.
LEMMA HandoffDeniedInv ==
  ASSUME IInv, TypeOK', NEW t \in Threads, HandoffDenied(t)
  PROVE  IInv'
<1> USE TypeFacts DEF IInv, CommitSteps, HandoffSteps
<1>1. /\ pc[t] = "denied" /\ PlanIds' = PlanIds
      /\ pc' = [pc EXCEPT ![t] = "idle"]
      /\ job' = [job EXCEPT ![t] = 0] /\ tok' = [tok EXCEPT ![t] = 0]
      /\ UNCHANGED <<epoch, authority, cancelled, ledger, nextToken, execGrants>>
  BY DEF HandoffDenied, Return, external, PlanIds
<1>2. /\ \A q \in PlanIds : Kept(q)
      /\ \A q \in PlanIds : q # job[t] => plans'[q].state = plans[q].state
      /\ plans'[job[t]].state = "REVALIDATION_REQUIRED"
  BY <1>1, SetStateFacts, StateNames DEF HandoffDenied
<1>3. BackedByExternalOwners'
  BY <1>1, <1>2 DEF BackedByExternalOwners, BackedStates, LiveStates, Outstanding, Kept
<1>4. NoOrphanedCommitment'
  BY <1>1, <1>2 DEF NoOrphanedCommitment, Kept
<1>5. OneCommitmentPerPlan'
  BY <1>1, <1>2 DEF OneCommitmentPerPlan, Kept
<1>6. LiveUnderCurrentAuthority'
  BY <1>1, <1>2 DEF LiveUnderCurrentAuthority, LiveStates, Kept
<1>7. CancelledNeverWorks'
  BY <1>1, <1>2 DEF CancelledNeverWorks, LiveStates, Kept
<1>8. AwaitingHasOneOwner'
  BY <1>1, <1>2 DEF AwaitingHasOneOwner, LiveStates, CommitOwner, HandoffOwner, Kept
<1>9. CommitOwnership'
  BY <1>1, <1>2 DEF CommitOwnership, BackedStates, LiveStates, CommitOwner, Kept
<1>10. HandoffOwnership'
  BY <1>1, <1>2 DEF HandoffOwnership, LiveStates, HandoffOwner, Kept
<1>11. LedgerMatches'
  BY <1>1, <1>2 DEF LedgerMatches, BackedStates, LiveStates, Outstanding, Kept
<1>12. QED
  BY <1>3, <1>4, <1>5, <1>6, <1>7, <1>8, <1>9, <1>10, <1>11

\* The inductive invariant holds of the empty scheduler.
LEMMA IInvInit == Init => IInv
<1> SUFFICES ASSUME Init PROVE IInv
  OBVIOUS
<1>1. TypeOK
  BY TypeInit
<1>2. PlanIds = {} /\ ledger = {} /\ \A t \in Threads : pc[t] = "idle"
  BY DEF Init, PlanIds
<1>3. QED
  BY <1>1, <1>2 DEF IInv, BackedByExternalOwners, NoOrphanedCommitment,
     OneCommitmentPerPlan, LiveUnderCurrentAuthority, CancelledNeverWorks,
     AwaitingHasOneOwner, CommitOwnership, HandoffOwnership, LedgerMatches,
     CommitSteps, HandoffSteps

\* Evidence and fencing, and stuttering, change nothing IInv speaks about.
LEMMA QuietInv ==
  ASSUME IInv, TypeOK',
         UNCHANGED <<epoch, authority, plans, nextPlanId, cancelled, threadVars, external>>
  PROVE  IInv'
BY DEF threadVars, external, PlanIds, IInv, BackedByExternalOwners, NoOrphanedCommitment,
     OneCommitmentPerPlan, LiveUnderCurrentAuthority, CancelledNeverWorks,
     AwaitingHasOneOwner, CommitOwnership, HandoffOwnership, LedgerMatches,
     CommitOwner, HandoffOwner, Outstanding

\* The inductive invariant is preserved: one lemma above per action.
LEMMA IInvStep == IInv /\ [Next]_vars => IInv'
<1> SUFFICES ASSUME IInv, [Next]_vars PROVE IInv'
  OBVIOUS
<1>1. TypeOK'
  BY TypeStep DEF IInv
<1>2. CASE \/ \E c \in Published : IngestCandidate(c)
           \/ \E b \in WorkerBoots : FenceWorker(b)
           \/ \E b \in SourceBoots : FenceSource(b)
           \/ UNCHANGED vars
  BY <1>1, <1>2, QuietInv DEF IngestCandidate, FenceWorker, FenceSource, vars, state
<1>3. CASE \/ \E e \in 1..MaxEpoch : SetEpoch(e)
           \/ \E r \in Requests : Cancel(r)
           \/ \E r, s \in Requests : Supersede(r, s)
           \/ \E p \in PlanIds, fp \in Fingerprints : Revalidate(p, fp)
  BY <1>1, <1>3, SetEpochInv, CancelInv, SupersedeInv, RevalidateInv
<1>4. CASE \/ \E t \in Threads, r \in Requests : ScheduleSnapshot(t, r)
           \/ \E t \in Threads : Schedule(t)
  BY <1>1, <1>4, ScheduleSnapshotInv, ScheduleNoneInv, SchedulePlanInv DEF Schedule
<1>5. CASE \E t \in Threads, p \in PlanIds : CommitBegin(t, p) \/ HandoffBegin(t, p)
  BY <1>1, <1>5, CommitBeginInv, HandoffBeginInv
<1>6. CASE \E t \in Threads : Broker(t) \/ Commit(t)
  BY <1>1, <1>6, BrokerCommitInv, BrokerRefuseInv, CommitSucceedsInv,
     CommitTooLateInv, CommitReleaseInv, CommitFailsInv DEF Broker, Commit
<1>7. CASE \E t \in Threads : Exec(t) \/ Handoff(t)
  BY <1>1, <1>7, ExecAuthorizeInv, ExecDenyInv, HandoffStartsInv,
     HandoffDroppedInv, HandoffDeniedInv DEF Exec, Handoff
<1>8. QED
  BY <1>2, <1>3, <1>4, <1>5, <1>6, <1>7 DEF Next

\* Type correctness for every number of threads, requests, candidates, plans
\* and epochs; plan ids are issued without gaps (SchedulerState).
THEOREM TypeCorrect == Spec => []TypeOK
<1>1. TypeOK /\ [Next]_vars => TypeOK'
  BY TypeStep
<1>2. QED
  BY TypeInit, <1>1, PTL DEF Spec

\* The inductive invariant: ownership of plans in flight and the broker's
\* ledger, together with the safety properties.
THEOREM Inductive == Spec => []IInv
<1>1. QED
  BY IInvInit, IInvStep, PTL DEF Spec

\* A plan never claims resources the broker does not hold for it, after any
\* sequence of grants, refusals and late answers of commit.
THEOREM CommitmentsBacked == Spec => []BackedByExternalOwners
<1>1. IInv => BackedByExternalOwners
  BY DEF IInv
<1>2. QED
  BY <1>1, Inductive, PTL

\* A commitment belongs to a plan with evidence of it or to the call of commit
\* that will apply or release it: whatever runs while the broker is asked,
\* nothing stays behind in its ledger unnoticed.
THEOREM NoneOrphaned == Spec => []NoOrphanedCommitment
<1>1. IInv => NoOrphanedCommitment
  BY DEF IInv
<1>2. QED
  BY <1>1, Inductive, PTL

\* Any number of callers may commit a plan, again and again: the broker holds
\* at most one commitment for it.
THEOREM CommittedOnce == Spec => []OneCommitmentPerPlan
<1>1. IInv => OneCommitmentPerPlan
  BY DEF IInv
<1>2. QED
  BY <1>1, Inductive, PTL

\* set_epoch leaves no plan of an earlier epoch or authority behind in a state
\* commit or handoff accepts, nor does any call in flight bring one back.
THEOREM LiveIsCurrent == Spec => []LiveUnderCurrentAuthority
<1>1. IInv => LiveUnderCurrentAuthority
  BY DEF IInv
<1>2. QED
  BY <1>1, Inductive, PTL

\* No plan of a cancelled request is committed, launched or running, also when
\* cancel came while the broker or the execution fabric was being asked.
THEOREM CancelledIsOver == Spec => []CancelledNeverWorks
<1>1. IInv => CancelledNeverWorks
  BY DEF IInv
<1>2. QED
  BY <1>1, Inductive, PTL

\* A plan that awaits the broker or the execution fabric has exactly one
\* thread that will end its wait (commit and handoff).
THEOREM NobodyWaitsAlone == Spec => []AwaitingHasOneOwner
<1>1. IInv => AwaitingHasOneOwner
  BY DEF IInv
<1>2. QED
  BY <1>1, Inductive, PTL

-----------------------------------------------------------------------------
(* What a step may never do, and the refinement.                           *)

\* A step seen from the plans: which of them moved, and where.
\* Stop: plans only left the live states.  Quiet: no plan moved.
StopsOnly ==
  /\ UNCHANGED <<nextPlanId, authority>>
  /\ \A q \in PlanIds :
       Kept(q) /\ (plans'[q].state = plans[q].state \/ plans'[q].state \notin LiveStates)

\* Plan p goes from one live state to the next under the current authority.
MovesForward(p, from, to) ==
  /\ UNCHANGED <<nextPlanId, authority>>
  /\ p \in PlanIds
  /\ plans[p].state = from /\ plans'[p].state = to
  /\ plans[p].authority = authority
  /\ \A q \in PlanIds : q # p => plans'[q] = plans[q]
  /\ plans'[p].authority = plans[p].authority

\* The kinds of step the plans see.
PlanStep ==
  \/ \E e \in 1..MaxEpoch : SetEpoch(e)
  \/ StopsOnly
  \/ \E t \in Threads : \E w \in snap[t] : SchedulePlan(t, w)
  \/ \E p \in PlanIds :
       \/ /\ MovesForward(p, "PLAN_READY", "AWAITING_RESOURCE_COMMIT")
          /\ plans'[p].hasCommitmentEvidence = plans[p].hasCommitmentEvidence
       \/ /\ MovesForward(p, "AWAITING_RESOURCE_COMMIT", "COMMITTED")
          /\ ~plans[p].hasCommitmentEvidence /\ plans'[p].hasCommitmentEvidence
       \/ /\ \/ MovesForward(p, "COMMITTED", "AWAITING_EXECUTION")
             \/ MovesForward(p, "AWAITING_EXECUTION", "ACTIVE")
          /\ plans[p].hasCommitmentEvidence
          /\ plans'[p].hasCommitmentEvidence = plans[p].hasCommitmentEvidence

\* SetState moves one plan and leaves the others as they are.
LEMMA SetStateOthers ==
  ASSUME TypeOK, NEW p \in PlanIds, NEW to, SetState(p, to)
  PROVE  \A q \in PlanIds : q # p => plans'[q] = plans[q]
BY DEF TypeOK, SetState

\* Every step of the scheduler is one of these kinds.
LEMMA StepKinds ==
  ASSUME IInv, [Next]_vars
  PROVE  PlanStep
<1> USE StateNames DEF IInv
<1>1. CASE \E e \in 1..MaxEpoch : SetEpoch(e)
  BY <1>1 DEF PlanStep
<1>2. CASE UNCHANGED <<plans, nextPlanId, authority>>
  BY <1>2 DEF PlanStep, StopsOnly, Kept
<1>3. ASSUME NEW r \in Requests, Cancel(r) PROVE PlanStep
  <2>1. /\ \A q \in PlanIds : Kept(q)
        /\ \A q \in PlanIds : plans'[q].state \in {plans[q].state, "CANCELLED"}
    BY <1>3, ForceAllFacts DEF Cancel, Terminal
  <2>2. QED
    BY <1>3, <2>1 DEF Cancel, PlanStep, StopsOnly, LiveStates
<1>4. ASSUME NEW r \in Requests, NEW s \in Requests, Supersede(r, s) PROVE PlanStep
  <2>1. /\ \A q \in PlanIds : Kept(q)
        /\ \A q \in PlanIds : plans'[q].state \in {plans[q].state, "SUPERSEDED"}
    BY <1>4, SupersedeFacts
  <2>2. QED
    BY <1>4, <2>1 DEF Supersede, PlanStep, StopsOnly, LiveStates
<1>5. ASSUME NEW p \in PlanIds, SetState(p, "REVALIDATION_REQUIRED"),
             UNCHANGED <<nextPlanId, authority>>
      PROVE  PlanStep
  <2>1. /\ \A q \in PlanIds : Kept(q)
        /\ \A q \in PlanIds : plans'[q].state \in {plans[q].state, "REVALIDATION_REQUIRED"}
    BY <1>5, SetStateFacts
  <2>2. QED
    BY <1>5, <2>1 DEF PlanStep, StopsOnly, LiveStates
<1>6. ASSUME NEW t \in Threads, NEW p \in PlanIds, CommitBegin(t, p) PROVE PlanStep
  <2>1. /\ \A q \in PlanIds : Kept(q) /\ (q # p => plans'[q] = plans[q])
        /\ plans'[p].state = "AWAITING_RESOURCE_COMMIT"
    BY <1>6, SetStateFacts, SetStateOthers DEF CommitBegin, LiveStates
  <2>2. QED
    BY <1>6, <2>1 DEF CommitBegin, PlanStep, MovesForward, Kept, Disowned
<1>7. ASSUME NEW t \in Threads, NEW p \in PlanIds, HandoffBegin(t, p) PROVE PlanStep
  <2>1. /\ \A q \in PlanIds : Kept(q) /\ (q # p => plans'[q] = plans[q])
        /\ plans'[p].state = "AWAITING_EXECUTION"
    BY <1>7, SetStateFacts, SetStateOthers DEF HandoffBegin, LiveStates
  <2>2. plans[p].state = "COMMITTED" /\ plans[p].hasCommitmentEvidence
    BY <1>7 DEF HandoffBegin, LedgerMatches, BackedStates
  <2>3. QED
    BY <1>7, <2>1, <2>2 DEF HandoffBegin, PlanStep, MovesForward, Kept, Disowned
<1>8. ASSUME NEW t \in Threads, CommitSucceeds(t) PROVE PlanStep
  <2>1. ~plans[job[t]].hasCommitmentEvidence
    BY <1>8 DEF CommitSucceeds, CommitOwnership, CommitSteps
  <2>2. QED
    BY <1>8, <2>1, CommitSucceedsFacts
       DEF CommitSucceeds, StaleCommit, Disowned, PlanStep, MovesForward
<1>9. ASSUME NEW t \in Threads, HandoffStarts(t) PROVE PlanStep
  <2>1. /\ job[t] \in PlanIds /\ plans[job[t]].state = "AWAITING_EXECUTION"
        /\ plans[job[t]].hasCommitmentEvidence
    BY <1>9, StartsFromAwaiting, TypeFacts
       DEF HandoffStarts, MayAdvance, HandoffOwnership, HandoffSteps, LiveStates
  <2>2. /\ \A q \in PlanIds : Kept(q) /\ (q # job[t] => plans'[q] = plans[q])
        /\ plans'[job[t]].state = "ACTIVE"
    BY <1>9, <2>1, SetStateFacts, SetStateOthers DEF HandoffStarts, LiveStates
  <2>3. QED
    BY <1>9, <2>1, <2>2 DEF HandoffStarts, PlanStep, MovesForward, Kept, Disowned
<1>10. ASSUME NEW t \in Threads, CommitFails(t) \/ HandoffDenied(t) PROVE PlanStep
  <2>1. job[t] \in PlanIds
    BY <1>10, TypeFacts DEF CommitFails, HandoffDenied, CommitSteps, HandoffSteps
  <2>2. QED
    BY <1>2, <1>5, <1>10, <2>1 DEF CommitFails, HandoffDenied
<1>11. ASSUME NEW t \in Threads, NEW w \in snap[t], SchedulePlan(t, w) PROVE PlanStep
  BY <1>11 DEF PlanStep
<1>12. ASSUME NEW p \in PlanIds, NEW fp, Revalidate(p, fp) PROVE PlanStep
  BY <1>5, <1>12 DEF Revalidate
<1>13. CASE \/ \E c \in Published : IngestCandidate(c)
            \/ \E b \in WorkerBoots : FenceWorker(b)
            \/ \E b \in SourceBoots : FenceSource(b)
            \/ \E t \in Threads, r \in Requests : ScheduleSnapshot(t, r)
            \/ \E t \in Threads : \/ ScheduleNone(t) \/ Broker(t) \/ CommitTooLate(t)
                                  \/ CommitRelease(t) \/ Exec(t) \/ HandoffDropped(t)
            \/ UNCHANGED vars
  BY <1>2, <1>13 DEF IngestCandidate, FenceWorker, FenceSource, ScheduleSnapshot,
     ScheduleNone, Broker, BrokerCommit, BrokerRefuse, CommitTooLate, CommitRelease,
     Exec, ExecAuthorize, ExecDeny, HandoffDropped, vars, state
<1>14. QED
  BY <1>1, <1>3, <1>4, <1>6, <1>7, <1>8, <1>9, <1>10, <1>11, <1>12, <1>13
     DEF Next, Schedule, Commit, Handoff

\* No step brings a stopped plan back.
LEMMA StoppedStep ==
  ASSUME IInv, [Next]_vars
  PROVE  \A p \in PlanIds :
           plans[p].state \notin LiveStates => plans'[p].state \notin LiveStates
<1>1. CASE \E e \in 1..MaxEpoch : SetEpoch(e)
  BY <1>1, ForceAllFacts, StateNames DEF SetEpoch, IInv, LiveStates, Terminal
<1>2. CASE StopsOnly
  BY <1>2 DEF StopsOnly
<1>3. CASE \E t \in Threads : \E w \in snap[t] : SchedulePlan(t, w)
  BY <1>3, NewPlanFacts DEF IInv
<1>4. CASE \E p \in PlanIds, from \in LiveStates, to \in LiveStates :
             MovesForward(p, from, to)
  BY <1>4 DEF MovesForward
<1>5. PlanStep
  BY StepKinds
<1>6. QED
  BY <1>1, <1>2, <1>3, <1>4, <1>5 DEF PlanStep, LiveStates

\* The ids below a bound are below a later bound.
LEMMA UpToLater ==
  ASSUME NEW m \in Nat, NEW n \in Nat, m <= n, NEW p \in 1..(m - 1)
  PROVE  p \in 1..(n - 1)
OBVIOUS

\* What a step of the scheduler does to ids, epochs and stopped plans.
LEMMA PlansSurvive ==
  ASSUME IInv, [Next]_vars
  PROVE  /\ epoch \in Nat /\ epoch' \in Nat /\ epoch <= epoch'
         /\ nextPlanId \in Nat /\ nextPlanId' \in Nat /\ nextPlanId <= nextPlanId'
         /\ PlanIds \subseteq PlanIds' /\ \A p \in PlanIds' \ PlanIds : p >= nextPlanId
         /\ \A p \in PlanIds :
              plans[p].state \notin LiveStates => plans'[p].state \notin LiveStates
         /\ epoch' # epoch => \A p \in PlanIds' : plans'[p].state \notin LiveStates
<1>1. TypeOK /\ TypeOK'
  BY TypeStep DEF IInv
<1>2. epoch \in Nat /\ epoch' \in Nat /\ nextPlanId \in Nat /\ nextPlanId' \in Nat
  BY <1>1 DEF TypeOK
<1>3. \A p \in PlanIds :
        plans[p].state \notin LiveStates => plans'[p].state \notin LiveStates
  BY StoppedStep
<1>4. CASE \E e \in 1..MaxEpoch : SetEpoch(e)
  <2>1. epoch < epoch' /\ nextPlanId' = nextPlanId /\ PlanIds' = PlanIds
    BY <1>4, <1>1, BoundsAssumption DEF SetEpoch, PlanIds, TypeOK
  <2>2. \A p \in PlanIds : plans'[p].state \notin LiveStates
    BY <1>4, <1>1, ForceAllFacts, StateNames DEF SetEpoch, LiveStates, Terminal
  <2>3. QED
    BY <1>2, <1>3, <2>1, <2>2
<1>5. CASE ~\E e \in 1..MaxEpoch : SetEpoch(e)
  <2>1. epoch' = epoch
    BY <1>5 DEF Next, Schedule, Broker, Commit, Exec, Handoff, IngestCandidate,
       FenceWorker, FenceSource, Cancel, Supersede, Revalidate, ScheduleSnapshot,
       ScheduleNone, SchedulePlan, CommitBegin, BrokerCommit, BrokerRefuse,
       CommitSucceeds, CommitTooLate, CommitRelease, CommitFails, HandoffBegin,
       ExecAuthorize, ExecDeny, HandoffStarts, HandoffDropped, HandoffDenied,
       vars, state
  <2>2. nextPlanId' = nextPlanId \/ nextPlanId' = nextPlanId + 1
    <3>1. CASE StopsOnly
      BY <3>1 DEF StopsOnly
    <3>2. CASE \E t \in Threads : \E w \in snap[t] : SchedulePlan(t, w)
      BY <3>2 DEF SchedulePlan
    <3>3. CASE \E p, from, to : MovesForward(p, from, to)
      BY <3>3 DEF MovesForward
    <3>4. QED
      BY <1>5, <3>1, <3>2, <3>3, StepKinds DEF PlanStep
  <2>3. /\ PlanIds = 1..(nextPlanId - 1) /\ PlanIds' = 1..(nextPlanId' - 1)
        /\ nextPlanId <= nextPlanId'
    BY <1>2, <2>2 DEF PlanIds
  <2>4. ASSUME NEW p \in PlanIds PROVE p \in PlanIds'
    <3>1. p \in 1..(nextPlanId - 1) /\ nextPlanId <= nextPlanId'
      BY <2>3
    <3>2. p \in 1..(nextPlanId' - 1)
      BY <3>1, <1>2, UpToLater
    <3>3. QED
      BY <3>2, <2>3
  <2>5. ASSUME NEW p \in PlanIds', p \notin PlanIds PROVE p >= nextPlanId
    <3>1. p \in 1..(nextPlanId' - 1) /\ p \notin 1..(nextPlanId - 1)
      BY <2>3, <2>5
    <3>2. QED
      BY <3>1, <1>2
  <2>6. epoch <= epoch'
    BY <1>2, <2>1
  <2>7. QED
    BY <1>2, <1>3, <2>1, <2>3, <2>4, <2>5, <2>6
<1>6. QED
  BY <1>4, <1>5

\* A plan keeps the candidate it was issued with, and a new plan has one of
\* the copy its thread works on.
LEMMA PlansKeepCandidates ==
  ASSUME IInv, [Next]_vars
  PROVE  /\ \A p \in PlanIds : plans'[p].cand = plans[p].cand
         /\ \A p \in PlanIds' \ PlanIds :
              \E t \in Threads : plans'[p].cand \in snap[t]
<1> USE StateNames DEF IInv
<1>1. CASE UNCHANGED <<plans, nextPlanId>>
  BY <1>1 DEF PlanIds
<1>2. ASSUME NEW t \in Threads, NEW w \in snap[t], SchedulePlan(t, w)
      PROVE  /\ \A p \in PlanIds : plans'[p].cand = plans[p].cand
             /\ \A p \in PlanIds' \ PlanIds : plans'[p].cand \in snap[t]
  BY <1>2, NewPlanFacts
<1>3. ASSUME UNCHANGED nextPlanId, \A p \in PlanIds : Kept(p)
      PROVE  PlanIds' = PlanIds /\ \A p \in PlanIds : plans'[p].cand = plans[p].cand
  BY <1>3 DEF PlanIds, Kept
<1>4. ASSUME NEW e, SetEpoch(e) PROVE UNCHANGED nextPlanId /\ \A p \in PlanIds : Kept(p)
  BY <1>4, ForceAllFacts DEF SetEpoch
<1>5. ASSUME NEW r \in Requests, Cancel(r)
      PROVE  UNCHANGED nextPlanId /\ \A p \in PlanIds : Kept(p)
  BY <1>5, ForceAllFacts DEF Cancel, Terminal
<1>6. ASSUME NEW r \in Requests, NEW s \in Requests, Supersede(r, s)
      PROVE  UNCHANGED nextPlanId /\ \A p \in PlanIds : Kept(p)
  BY <1>6, SupersedeFacts DEF Supersede
<1>7. ASSUME NEW p \in PlanIds, NEW to \in PlacementLifecycleState, SetState(p, to)
      PROVE  \A q \in PlanIds : Kept(q)
  BY <1>7, SetStateFacts
<1>8. ASSUME NEW t \in Threads, CommitSucceeds(t)
      PROVE  PlanIds' = PlanIds /\ \A p \in PlanIds : plans'[p].cand = plans[p].cand
  BY <1>8, CommitSucceedsFacts DEF CommitSucceeds, PlanIds
<1>9. CASE \E p \in PlanIds, fp \in Fingerprints : Revalidate(p, fp)
  BY <1>3, <1>7, <1>9 DEF Revalidate
<1>10. CASE \E t \in Threads, p \in PlanIds : CommitBegin(t, p) \/ HandoffBegin(t, p)
  BY <1>3, <1>7, <1>10 DEF CommitBegin, HandoffBegin, LiveStates
<1>11. ASSUME NEW t \in Threads, CommitFails(t) \/ HandoffStarts(t) \/ HandoffDenied(t)
       PROVE  PlanIds' = PlanIds /\ \A p \in PlanIds : plans'[p].cand = plans[p].cand
  <2>1. job[t] \in PlanIds
    BY <1>11, TypeFacts
       DEF CommitFails, HandoffStarts, HandoffDenied, CommitSteps, HandoffSteps
  <2>2. UNCHANGED nextPlanId
    BY <1>11 DEF CommitFails, HandoffStarts, HandoffDenied
  <2>3. UNCHANGED plans \/ \A p \in PlanIds : Kept(p)
    BY <1>7, <1>11, <2>1 DEF CommitFails, HandoffStarts, HandoffDenied, LiveStates
  <2>4. QED
    BY <1>3, <2>2, <2>3 DEF PlanIds
<1>12. CASE \/ \E c \in Published : IngestCandidate(c)
            \/ \E b \in WorkerBoots : FenceWorker(b)
            \/ \E b \in SourceBoots : FenceSource(b)
            \/ \E t \in Threads, r \in Requests : ScheduleSnapshot(t, r)
            \/ \E t \in Threads : \/ ScheduleNone(t) \/ Broker(t) \/ CommitTooLate(t)
                                  \/ CommitRelease(t) \/ Exec(t) \/ HandoffDropped(t)
            \/ UNCHANGED vars
  BY <1>1, <1>12 DEF IngestCandidate, FenceWorker, FenceSource, ScheduleSnapshot,
     ScheduleNone, Broker, BrokerCommit, BrokerRefuse, CommitTooLate, CommitRelease,
     Exec, ExecAuthorize, ExecDeny, HandoffDropped, vars, state
<1>13. QED
  BY <1>2, <1>3, <1>4, <1>5, <1>6, <1>8, <1>9, <1>10, <1>11, <1>12
     DEF Next, Schedule, Commit, Handoff

\* A plan that left the live states is never committed, launched or running
\* again: the late end of a commit or of a handoff cannot bring it back.
THEOREM Stopped == Spec => StoppedStaysStopped
<1>1. QED
  BY StoppedStep, Inductive, PTL DEF Spec, StoppedStaysStopped

\* A plan id that was issued is one of the plans of the abstract specification.
LEMMA IdsBounded ==
  ASSUME TypeOK
  PROVE  PlanIds \subseteq 1..MaxPlans
BY BoundsAssumption DEF TypeOK, PlanIds

\* What the mapping makes of a state.
LEMMA PhaseFacts ==
  /\ \A s \in LiveStates : PhaseOf(s) \in Abs!Working
  /\ \A s : s \notin LiveStates => PhaseOf(s) = "stopped"
  /\ "stopped" \notin Abs!Working /\ "none" \notin Abs!Working
BY DEF PhaseOf, LiveStates, Abs!Working, Abs!Phases

\* set_epoch is the abstract fence: a new authority, and nothing live left.
LEMMA FenceMapped ==
  ASSUME IInv, NEW e \in 1..MaxEpoch, SetEpoch(e)
  PROVE  Abs!AbsFence
<1>1. /\ \A q \in PlanIds : Kept(q)
      /\ \A q \in PlanIds : plans'[q].state =
           IF plans[q].state \notin Terminal THEN "REVALIDATION_REQUIRED" ELSE plans[q].state
  BY ForceAllFacts, StateNames DEF SetEpoch, IInv
<1>2. \A q \in PlanIds : plans'[q].state \notin LiveStates
  BY <1>1 DEF LiveStates, Terminal
<1>3. PlanIds' = PlanIds /\ authority' = authority + 1
  BY DEF SetEpoch, PlanIds
<1>4. absPhase' = [p \in 1..MaxPlans |->
                    IF absPhase[p] \in Abs!Working THEN "stopped" ELSE absPhase[p]]
  BY <1>2, <1>3, PhaseFacts DEF absPhase
<1>5. absStamp' = absStamp /\ absBacking' = absBacking
  BY <1>1, <1>3 DEF absStamp, absBacking, Kept
<1>6. QED
  BY <1>3, <1>4, <1>5 DEF Abs!AbsFence

\* Revalidation, cancellation, supersession and refused calls only stop plans.
LEMMA StopMapped ==
  ASSUME IInv, StopsOnly
  PROVE  \E S \in SUBSET (1..MaxPlans) : Abs!AbsStop(S)
<1> DEFINE S == {p \in 1..MaxPlans : p \in PlanIds /\ plans'[p].state \notin LiveStates}
<1>1. PlanIds' = PlanIds /\ authority' = authority
  BY DEF StopsOnly, PlanIds
<1>2. absPhase' = [p \in 1..MaxPlans |->
                    IF p \in S /\ absPhase[p] \in Abs!Working THEN "stopped" ELSE absPhase[p]]
  BY <1>1, PhaseFacts DEF absPhase, StopsOnly
<1>3. absStamp' = absStamp /\ absBacking' = absBacking
  BY <1>1 DEF absStamp, absBacking, Kept, StopsOnly
<1>4. QED
  BY <1>1, <1>2, <1>3 DEF Abs!AbsStop

\* A new plan is issued under the current authority.
LEMMA IssueMapped ==
  ASSUME IInv, NEW t \in Threads, NEW w \in snap[t], SchedulePlan(t, w)
  PROVE  Abs!AbsIssue(nextPlanId)
<1>1. nextPlanId \in 1..MaxPlans /\ authority' = authority
  BY BoundsAssumption DEF SchedulePlan, IInv, TypeOK
<1>2. /\ PlanIds' = PlanIds \cup {nextPlanId} /\ nextPlanId \notin PlanIds
      /\ \A q \in PlanIds : plans'[q] = plans[q]
      /\ plans'[nextPlanId].state = "PLAN_READY"
      /\ plans'[nextPlanId].hasCommitmentEvidence = FALSE
      /\ plans'[nextPlanId].authority = authority
  BY NewPlanFacts DEF IInv
<1>3. absPhase[nextPlanId] = "none"
  BY <1>1, <1>2 DEF absPhase
<1>4. absPhase' = [absPhase EXCEPT ![nextPlanId] = "ready"]
  BY <1>1, <1>2 DEF absPhase, PhaseOf
<1>5. absStamp' = [absStamp EXCEPT ![nextPlanId] = authority]
  BY <1>1, <1>2 DEF absStamp
<1>6. absBacking' = absBacking
  BY <1>1, <1>2 DEF absBacking
<1>7. QED
  BY <1>1, <1>3, <1>4, <1>5, <1>6 DEF Abs!AbsIssue

\* A plan that goes forward does so alone and under the current authority.
LEMMA ForwardMapped ==
  ASSUME IInv, NEW p \in PlanIds, NEW from, NEW to, MovesForward(p, from, to)
  PROVE  /\ p \in 1..MaxPlans
         /\ absPhase[p] = PhaseOf(from) /\ absStamp[p] = authority
         /\ absPhase' = [absPhase EXCEPT ![p] = PhaseOf(to)]
         /\ absStamp' = absStamp /\ authority' = authority
         /\ (plans'[p].hasCommitmentEvidence = plans[p].hasCommitmentEvidence)
              => absBacking' = absBacking
         /\ (~plans[p].hasCommitmentEvidence /\ plans'[p].hasCommitmentEvidence)
              => p \notin absBacking /\ absBacking' = absBacking \cup {p}
         /\ plans[p].hasCommitmentEvidence => p \in absBacking
<1>1. p \in 1..MaxPlans /\ PlanIds' = PlanIds /\ authority' = authority
  BY IdsBounded DEF MovesForward, IInv, PlanIds
<1>2. absPhase[p] = PhaseOf(from) /\ absStamp[p] = authority
  BY <1>1 DEF MovesForward, absPhase, absStamp
<1>3. absPhase' = [absPhase EXCEPT ![p] = PhaseOf(to)]
  BY <1>1 DEF MovesForward, absPhase
<1>4. absStamp' = absStamp
  BY <1>1 DEF MovesForward, absStamp
<1>5. \A q \in PlanIds : q # p => plans'[q] = plans[q]
  BY DEF MovesForward
<1>6. /\ (plans'[p].hasCommitmentEvidence = plans[p].hasCommitmentEvidence)
           => absBacking' = absBacking
      /\ (~plans[p].hasCommitmentEvidence /\ plans'[p].hasCommitmentEvidence)
           => p \notin absBacking /\ absBacking' = absBacking \cup {p}
      /\ plans[p].hasCommitmentEvidence => p \in absBacking
  BY <1>1, <1>5 DEF absBacking
<1>7. QED
  BY <1>1, <1>2, <1>3, <1>4, <1>6

\* Every step maps to an abstract step or leaves the abstract state alone.
LEMMA StepMapped == IInv /\ [Next]_vars => [Abs!AbsNext]_(Abs!absVars)
<1> SUFFICES ASSUME IInv, [Next]_vars PROVE Abs!AbsNext
  OBVIOUS
<1>1. CASE \E e \in 1..MaxEpoch : SetEpoch(e)
  BY <1>1, FenceMapped DEF Abs!AbsNext
<1>2. CASE StopsOnly
  BY <1>2, StopMapped DEF Abs!AbsNext
<1>3. CASE \E t \in Threads : \E w \in snap[t] : SchedulePlan(t, w)
  <2>1. nextPlanId \in 1..MaxPlans
    BY <1>3, BoundsAssumption DEF SchedulePlan, IInv, TypeOK
  <2>2. QED
    BY <1>3, <2>1, IssueMapped DEF Abs!AbsNext
<1>4. ASSUME NEW p \in PlanIds,
             MovesForward(p, "PLAN_READY", "AWAITING_RESOURCE_COMMIT"),
             plans'[p].hasCommitmentEvidence = plans[p].hasCommitmentEvidence
      PROVE  Abs!AbsNext
  BY <1>4, ForwardMapped DEF PhaseOf, Abs!AbsNext, Abs!AbsReserve, Abs!AbsForward
<1>5. ASSUME NEW p \in PlanIds,
             MovesForward(p, "AWAITING_RESOURCE_COMMIT", "COMMITTED"),
             ~plans[p].hasCommitmentEvidence, plans'[p].hasCommitmentEvidence
      PROVE  Abs!AbsNext
  BY <1>5, ForwardMapped DEF PhaseOf, Abs!AbsNext, Abs!AbsCommit, Abs!AbsForward
<1>6. ASSUME NEW p \in PlanIds, MovesForward(p, "COMMITTED", "AWAITING_EXECUTION"),
             plans[p].hasCommitmentEvidence,
             plans'[p].hasCommitmentEvidence = plans[p].hasCommitmentEvidence
      PROVE  Abs!AbsNext
  <2>1. /\ p \in 1..MaxPlans /\ p \in absBacking /\ absBacking' = absBacking
        /\ absStamp[p] = authority /\ absStamp' = absStamp /\ authority' = authority
    BY <1>6, ForwardMapped
  <2>2. absPhase[p] = "reserved" /\ absPhase' = [absPhase EXCEPT ![p] = "launching"]
    BY <1>6, ForwardMapped DEF PhaseOf
  <2>3. Abs!AbsLaunch(p)
    BY <2>1, <2>2 DEF Abs!AbsLaunch, Abs!AbsForward
  <2>4. QED
    BY <2>1, <2>3 DEF Abs!AbsNext
<1>7. ASSUME NEW p \in PlanIds, MovesForward(p, "AWAITING_EXECUTION", "ACTIVE"),
             plans[p].hasCommitmentEvidence,
             plans'[p].hasCommitmentEvidence = plans[p].hasCommitmentEvidence
      PROVE  Abs!AbsNext
  <2>1. /\ p \in 1..MaxPlans /\ p \in absBacking /\ absBacking' = absBacking
        /\ absStamp[p] = authority /\ absStamp' = absStamp /\ authority' = authority
    BY <1>7, ForwardMapped
  <2>2. absPhase[p] = "launching" /\ absPhase' = [absPhase EXCEPT ![p] = "running"]
    BY <1>7, ForwardMapped DEF PhaseOf
  <2>3. Abs!AbsRun(p)
    BY <2>1, <2>2 DEF Abs!AbsRun, Abs!AbsForward
  <2>4. QED
    BY <2>1, <2>3 DEF Abs!AbsNext
<1>8. PlanStep
  BY StepKinds
<1>9. QED
  BY <1>1, <1>2, <1>3, <1>4, <1>5, <1>6, <1>7, <1>8 DEF PlanStep

\* Whatever the interleaving of calls, the scheduler behaves as
\* PlacementAuthority says.
THEOREM Refines == Spec => ImplementsPlacementAuthority
<1>1. Init => Abs!AbsInit
  <2>1. ASSUME Init PROVE PlanIds = {} /\ authority = 1
    BY <2>1 DEF Init, PlanIds
  <2>2. QED
    BY <2>1 DEF Abs!AbsInit, absPhase, absStamp, absBacking
<1>2. QED
  BY <1>1, StepMapped, Inductive, PTL DEF Spec, ImplementsPlacementAuthority, Abs!AbsSpec

=============================================================================
