-------------------------- MODULE DeploymentProofs --------------------------
(***************************************************************************)
(* Theorems about Deployment.  Frames and replies in the boxes are well    *)
(* made, hence whatever the coordinator serves is a call that Coordinator  *)
(* allows and DepSpec implies CoSpec: all that was proved of the           *)
(* coordinator and of the scheduler holds of the deployment.  Of the       *)
(* processes: the driver has at most one call in the air, and a thread     *)
(* started after SHUTDOWN serves nothing.  The second half, from First on, *)
(* is about the driver of cuda_worker_death_proof.cpp: which of its checks *)
(* can fail, and under which authority its plans are launched.             *)
(***************************************************************************)
EXTENDS Deployment, CoordinatorProofs, SequenceTheorems

\* What a client may ask for.
Frames ==
  [type : {"REGISTER"}, arg : WorkerBoots] \cup [type : {"PUBLISH"}, arg : Published]
  \cup [type : {"SUBMIT"}, arg : Requests] \cup [type : {"COMMIT", "HANDOFF"}, arg : Nat]
  \cup [type : {"SHUTDOWN"}, arg : {0}]

\* The message types of the coordinator's replies.
ReplyTypes == {"REGISTER", "PUBLISH", "PLACEMENT_PLAN", "COMMIT_RESULT",
               "EXECUTION_RESULT", "SHUTDOWN", "StaleAuthority", "InvalidArgument"}

\* A reply names no plan that was not issued, when n is the next plan's id.
Replies(n) == [type : ReplyTypes, ok : BOOLEAN, plan : 0..(n - 1)]

\* What is in the boxes, and the plans the driver remembers from replies.
FramesTyped ==
  /\ inbox \in [Threads -> Seq(Frames)] /\ outbox \in [Threads -> Seq(Replies(nextPlanId))]
  /\ held \in [{"p1", "p3"} -> 0..(nextPlanId - 1)]

\* The checks of the driver up to the one that starts A2, and those after it.
Early == {"start", "submit1", "commit1", "handoff1", "execute1", "kill", "poll",
          "replay", "stale", "spawn"}
Late  == {"await", "submit3", "commit3", "handoff3", "execute3", "shutdown", "done",
          "failed"}

\* The checks at which the driver sends a frame.
Asking == {"submit1", "commit1", "handoff1", "poll", "replay", "stale", "submit3",
           "commit3", "handoff3", "shutdown"}

\* Where the processes are; the driver waits for a reply only where it asks.
ProcessesTyped ==
  /\ conn \in [Threads -> {"none", "queued", "served", "stopping", "left"}]
  /\ receiving \in [Threads -> BOOLEAN]
  /\ worker \in [Workers -> {"unborn", "started", "connected", "registering",
                             "publishing", "published", "dead"}]
  /\ calling \in BOOLEAN /\ misses \in 0..MaxMisses
  /\ running \in BOOLEAN /\ main \in {"checking", "accepting", "exited"}
  /\ latecomers \subseteq Threads
  /\ step \in Early \cup Late /\ (calling => step \in Asking)

\* Who has connected: nobody who was not started, the driver, and everybody
\* who has sent something; and nobody connects twice.
Connected ==
  /\ \A w \in Workers : worker[w] \in {"unborn", "started"} => conn[w] = "none"
  /\ \A w \in Workers :
       worker[w] \notin {"unborn", "started", "dead"} => conn[w] # "none"
  /\ conn[Driver] # "none"
  /\ step \in Early => worker["A2"] = "unborn"

\* The driver's one call is on its way, being served, or on its way back.
Asked   == Len(inbox[Driver])
Served  == IF pc[Driver] = "idle" THEN 0 ELSE 1
Coming  == Len(outbox[Driver])
Calls   == IF calling THEN 1 ELSE 0
OneCall == Asked + Coming + Served <= Calls

\* Nothing was served on the connection.
Untouched(t) ==
  ~receiving[t] /\ pc[t] = "idle" /\ link[t] = "open" /\ boot[t] = NoBoot /\ outbox[t] = <<>>

\* A thread that is started after SHUTDOWN leaves its loop at once.
Unserved ==
  /\ latecomers # {} => ~running
  /\ \A t \in Threads : conn[t] = "none" \/ t \in latecomers => Untouched(t)
  /\ \A t \in Threads : conn[t] = "none" => inbox[t] = <<>>

\* The inductive invariant of the deployment.
DepIInv ==
  /\ CoIInv
  /\ FramesTyped /\ ProcessesTyped /\ Connected /\ OneCall /\ Unserved

-----------------------------------------------------------------------------
\* Everybody's connection is a thread of the coordinator, and what workers and
\* driver publish is what Coordinator expects.
LEMMA Clients ==
  /\ Workers \subseteq Threads /\ Driver \in Threads /\ Driver \notin Workers
  /\ \A w \in Workers : BootOf[w] \in WorkerBoots /\ Offer(w) \in Published
  /\ Stale \in Published
<1>1. \A w \in Workers : Offer(w) \in Published /\ Offer(w).worker = BootOf[w]
  BY DeploymentAssumption DEF Offer
<1>2. QED
  BY <1>1, DeploymentAssumption DEF WorkerBoots

\* A step of the deployment is one of the coordinator or leaves it alone.
LEMMA CoordinatorStep ==
  ASSUME FramesTyped, [DepNext]_depVars
  PROVE  [CoNext]_coVars
<1>1. ASSUME NEW t \in Threads, Receive(t) PROVE [CoNext]_coVars
  <2> DEFINE f == Head(inbox[t])
  <2>1. f \in Frames
    BY <1>1 DEF Receive, FramesTyped
  <2>2. CASE f.type = "REGISTER"
    <3>1. Register(t, f.arg) /\ f.arg \in WorkerBoots
      BY <1>1, <2>1, <2>2 DEF Receive, Frames
    <3>2. QED
      BY <3>1 DEF CoNext
  <2>3. CASE f.type = "PUBLISH"
    <3>1. (Publish(t, f.arg) \/ UNCHANGED coVars) /\ f.arg \in Published
      BY <1>1, <2>1, <2>3 DEF Receive, Frames, ServePublish
    <3>2. QED
      BY <3>1 DEF CoNext
  <2>4. CASE f.type = "SUBMIT"
    <3>1. Submit(t, f.arg) /\ f.arg \in Requests
      BY <1>1, <2>1, <2>4 DEF Receive, Frames
    <3>2. QED
      BY <3>1 DEF CoNext
  <2>5. CASE f.type = "COMMIT"
    <3>1. (f.arg \in PlanIds /\ CommitFrame(t, f.arg)) \/ UNCHANGED coVars
      BY <1>1, <2>5 DEF Receive, ServeCommit
    <3>2. QED
      BY <3>1 DEF CoNext
  <2>6. CASE f.type = "HANDOFF"
    <3>1. (f.arg \in PlanIds /\ HandoffFrame(t, f.arg)) \/ UNCHANGED coVars
      BY <1>1, <2>6 DEF Receive, ServeHandoff
    <3>2. QED
      BY <3>1 DEF CoNext
  <2>7. CASE f.type = "SHUTDOWN"
    BY <1>1, <2>7 DEF Receive
  <2>8. QED
    BY <2>1, <2>2, <2>3, <2>4, <2>5, <2>6, <2>7 DEF Frames
<1>2. ASSUME NEW t \in Threads, Work(t) PROVE CoNext
  <2>1. Serve(t)
    BY <1>2 DEF Work, Serve
  <2>2. QED
    BY <2>1 DEF CoNext
<1>3. ASSUME NEW t \in Threads, PeerGone(t) \/ Fence(t) PROVE CoNext
  <2>1. Drop(t) \/ Serve(t)
    BY <1>3 DEF PeerGone, Fence, Serve
  <2>2. QED
    BY <2>1 DEF CoNext
<1>4. CASE MainStep \/ DriverStep \/ HastyWorker \/ \E w \in Workers : CudaStep(w)
  BY <1>4 DEF MainStep, MainChecks, MainAccepts, DriverStep, DriverWaits, DriverCalls,
     DriverReturns, DriverExecutes, DriverKills, DriverSpawns, HastyWorker, CudaStep,
     Connect, CudaRegisters, CudaPublishes, CudaAnnounces
<1>5. ASSUME NEW t \in Threads, Loop(t) \/ StopRunning(t) PROVE UNCHANGED coVars
  BY <1>5 DEF Loop, StopRunning
<1>6. CASE UNCHANGED depVars
  BY <1>6 DEF depVars
<1>7. QED
  BY <1>1, <1>2, <1>3, <1>4, <1>5, <1>6 DEF DepNext, Progress, ThreadStep, CudaStep, Workers

\* Boxes hold what is put into them.
LEMMA Boxes ==
  ASSUME NEW S, NEW t \in Threads, NEW box \in [Threads -> Seq(S)]
  PROVE  /\ box[t] # <<>> =>
              Head(box[t]) \in S /\ [box EXCEPT ![t] = Tail(@)] \in [Threads -> Seq(S)]
         /\ \A e \in S : [box EXCEPT ![t] = Append(@, e)] \in [Threads -> Seq(S)]
         /\ \A es \in Seq(S) : [box EXCEPT ![t] = @ \o es] \in [Threads -> Seq(S)]
<1>1. box[t] \in Seq(S)
  OBVIOUS
<1>2. box[t] # <<>> => Head(box[t]) \in S /\ Tail(box[t]) \in Seq(S)
  BY <1>1, HeadTailProperties
<1>3. \A e \in S : Append(box[t], e) \in Seq(S)
  BY <1>1, AppendProperties
<1>4. \A es \in Seq(S) : box[t] \o es \in Seq(S)
  BY <1>1, ConcatProperties
<1>5. QED
  BY <1>2, <1>3, <1>4

\* What the driver sends can be served.
LEMMA ScriptTyped ==
  ASSUME FramesTyped, nextPlanId \in Nat \ {0}, NEW s \in DOMAIN Script
  PROVE  Script[s] \in Frames
<1>1. held.p1 \in Nat /\ held.p3 \in Nat /\ Stale \in Published
  BY Clients DEF FramesTyped
<1>2. \A r \in {1, 2, 3} : Frame("SUBMIT", r) \in Frames
  BY DeploymentAssumption DEF Frame, Frames
<1>3. \A p \in Nat : Frame("COMMIT", p) \in Frames /\ Frame("HANDOFF", p) \in Frames
  BY DEF Frame, Frames
<1>4. Frame("PUBLISH", Stale) \in Frames /\ Frame("SHUTDOWN", 0) \in Frames
  BY <1>1 DEF Frame, Frames
<1>5. QED
  BY <1>1, <1>2, <1>3, <1>4 DEF Script

\* What is well made can be sent.
LEMMA ReplyTyped ==
  ASSUME NEW n \in Nat \ {0}, NEW type \in ReplyTypes, NEW ok \in BOOLEAN, NEW p \in 0..(n - 1)
  PROVE  Reply(type, ok, p) \in Replies(n)
BY DEF Reply, Replies

\* What a thread of the coordinator answers.
LEMMA AnswersTyped ==
  ASSUME DepIInv, NEW t \in Threads, Receive(t) \/ Work(t)
  PROVE  Quiet \/ \E r \in Replies(nextPlanId') : Answer(t, r)
<1>1. /\ nextPlanId \in Nat \ {0} /\ nextPlanId' \in Nat /\ nextPlanId <= nextPlanId'
  <2>1. [DepNext]_depVars
    BY DEF DepNext, Progress, ThreadStep
  <2>2. QED
    BY <2>1, CoordinatorStep, SchedulerStep, PlansSurvive DEF DepIInv, CoIInv, IInv, TypeOK
<1>2. \A type \in ReplyTypes, ok \in BOOLEAN : Reply(type, ok, 0) \in Replies(nextPlanId')
  BY <1>1, ReplyTyped
<1>3. CASE Receive(t)
  <2> DEFINE f == Head(inbox[t])
  <2>1. f \in Frames
    BY <1>3, Boxes DEF Receive, DepIInv, FramesTyped
  <2>2. CASE f.type \in {"REGISTER", "SUBMIT", "SHUTDOWN"}
    BY <1>2, <1>3, <2>2 DEF Receive, ReplyTypes
  <2>3. CASE f.type = "PUBLISH"
    BY <1>2, <1>3, <2>3 DEF Receive, ServePublish, Refusal, ReplyTypes
  <2>4. CASE f.type = "COMMIT"
    BY <1>2, <1>3, <2>4 DEF Receive, ServeCommit, ReplyTypes
  <2>5. CASE f.type = "HANDOFF"
    BY <1>2, <1>3, <2>5 DEF Receive, ServeHandoff, ReplyTypes
  <2>6. QED
    BY <2>1, <2>2, <2>3, <2>4, <2>5 DEF Frames
<1>4. CASE Work(t)
  <2> DEFINE new == plans' # plans
             reply == Reply("PLACEMENT_PLAN", new, IF new THEN nextPlanId ELSE 0)
  <2>1. ASSUME Decide(t), Answer(t, reply) PROVE \E r \in Replies(nextPlanId') : Answer(t, r)
    <3>1. new => nextPlanId' = nextPlanId + 1
      BY <2>1 DEF Decide, ScheduleNone, SchedulePlan
    <3>2. nextPlanId' \in Nat \ {0} /\ new \in BOOLEAN
      BY <1>1
    <3>3. reply \in Replies(nextPlanId')
      <4>1. CASE new
        <5>1. nextPlanId \in 0..(nextPlanId' - 1)
          BY <1>1, <3>1, <4>1
        <5>2. QED
          BY <3>2, <4>1, <5>1, ReplyTyped DEF ReplyTypes
      <4>2. CASE ~new
        BY <1>2, <4>2 DEF ReplyTypes
      <4>3. QED
        BY <4>1, <4>2
    <3>4. QED
      BY <2>1, <3>3
  <2>2. ASSUME NEW s, (Answer(t, Reply("COMMIT_RESULT", s = "COMMITTED", 0))
                       \/ Answer(t, Reply("EXECUTION_RESULT", s = "ACTIVE", 0)))
        PROVE  \E r \in Replies(nextPlanId') : Answer(t, r)
    BY <1>2, <2>2 DEF ReplyTypes
  <2>3. QED
    BY <1>4, <2>1, <2>2 DEF Work
<1>5. QED
  BY <1>3, <1>4

\* Plans that exist do not go.
LEMMA RepliesKept ==
  ASSUME DepIInv, [DepNext]_depVars
  PROVE  /\ nextPlanId \in Nat \ {0} /\ nextPlanId' \in Nat /\ nextPlanId <= nextPlanId'
         /\ outbox \in [Threads -> Seq(Replies(nextPlanId'))]
<1>1. nextPlanId \in Nat \ {0} /\ nextPlanId' \in Nat /\ nextPlanId <= nextPlanId'
  BY CoordinatorStep, SchedulerStep, PlansSurvive DEF DepIInv, CoIInv, IInv, TypeOK
<1>2. Replies(nextPlanId) \subseteq Replies(nextPlanId')
  BY <1>1 DEF Replies
<1>3. \A s \in Seq(Replies(nextPlanId)) : s \in Seq(Replies(nextPlanId'))
  BY <1>2
<1>4. QED
  BY <1>1, <1>3 DEF DepIInv, FramesTyped

\* What a client sends can be served, and replies name plans that exist.
LEMMA FramesStep ==
  ASSUME DepIInv, [DepNext]_depVars
  PROVE  FramesTyped'
<1>1. nextPlanId \in Nat \ {0} /\ nextPlanId' \in Nat /\ nextPlanId <= nextPlanId'
  BY RepliesKept
<1>2. Frames' = Frames
  BY DEF Frames, WorkerBoots
<1>3. /\ inbox \in [Threads -> Seq(Frames)] /\ outbox \in [Threads -> Seq(Replies(nextPlanId'))]
      /\ held \in [{"p1", "p3"} -> 0..(nextPlanId' - 1)]
  BY <1>1, RepliesKept DEF DepIInv, FramesTyped
<1>4. FramesTyped' <=> /\ inbox' \in [Threads -> Seq(Frames)]
                       /\ outbox' \in [Threads -> Seq(Replies(nextPlanId'))]
                       /\ held' \in [{"p1", "p3"} -> 0..(nextPlanId' - 1)]
  BY <1>2 DEF FramesTyped
<1>5. ASSUME NEW t \in Threads, TakeReply(t) PROVE outbox' \in [Threads -> Seq(Replies(nextPlanId'))]
  BY <1>3, <1>5, Boxes DEF TakeReply
<1>6. ASSUME NEW t \in Threads, NEW fs \in Seq(Frames), Post(t, fs)
      PROVE  inbox' \in [Threads -> Seq(Frames)]
  BY <1>3, <1>6, Boxes DEF Post
<1>7. \A w \in Workers : <<Frame("REGISTER", BootOf[w])>> \in Seq(Frames)
                         /\ <<Frame("PUBLISH", Offer(w))>> \in Seq(Frames)
                         /\ <<Frame("REGISTER", BootOf[w]), Frame("PUBLISH", Offer(w))>>
                              \in Seq(Frames)
  <2>1. \A w \in Workers : Frame("REGISTER", BootOf[w]) \in Frames
                           /\ Frame("PUBLISH", Offer(w)) \in Frames
    BY Clients DEF Frame, Frames
  <2>2. QED
    BY <2>1
<1>8. ASSUME NEW t \in Threads, Receive(t) PROVE FramesTyped'
  <2>1. inbox' \in [Threads -> Seq(Frames)]
    BY <1>3, <1>8, Boxes DEF Receive
  <2>2. outbox' \in [Threads -> Seq(Replies(nextPlanId'))]
    <3>1. CASE Quiet
      BY <1>3, <3>1 DEF Quiet
    <3>2. ASSUME NEW r \in Replies(nextPlanId'), Answer(t, r) PROVE outbox' \in [Threads -> Seq(Replies(nextPlanId'))]
      BY <1>3, <3>2, Boxes DEF Answer
    <3>3. QED
      BY <1>8, <3>1, <3>2, AnswersTyped
  <2>3. QED
    BY <1>3, <1>4, <1>8, <2>1, <2>2 DEF Receive, driverVars
<1>9. ASSUME NEW t \in Threads, Work(t) PROVE FramesTyped'
  <2>2. outbox' \in [Threads -> Seq(Replies(nextPlanId'))]
    <3>1. CASE Quiet
      BY <1>3, <3>1 DEF Quiet
    <3>2. ASSUME NEW r \in Replies(nextPlanId'), Answer(t, r) PROVE outbox' \in [Threads -> Seq(Replies(nextPlanId'))]
      BY <1>3, <3>2, Boxes DEF Answer
    <3>3. QED
      BY <1>9, <3>1, <3>2, AnswersTyped
  <2>3. QED
    BY <1>3, <1>4, <1>9, <2>2 DEF Work, driverVars
<1>10. ASSUME NEW t \in Threads, Loop(t) \/ StopRunning(t) \/ PeerGone(t) \/ Fence(t)
       PROVE  FramesTyped'
  BY <1>3, <1>4, <1>10 DEF Loop, StopRunning, PeerGone, Fence, processVars, driverVars
<1>11. ASSUME NEW w \in Workers, CudaStep(w) \/ Connect(w) PROVE FramesTyped'
  <2>1. CASE Connect(w)
    BY <1>3, <1>4, <2>1 DEF Connect, driverVars
  <2>2. CASE CudaRegisters(w)
    BY <1>3, <1>4, <1>6, <1>7, <2>2, Clients DEF CudaRegisters, driverVars
  <2>3. CASE CudaPublishes(w)
    BY <1>3, <1>4, <1>5, <1>6, <1>7, <2>3, Clients DEF CudaPublishes, driverVars
  <2>4. CASE CudaAnnounces(w)
    BY <1>3, <1>4, <1>5, <2>4, Clients DEF CudaAnnounces, driverVars
  <2>5. QED
    BY <1>11, <2>1, <2>2, <2>3, <2>4 DEF CudaStep
<1>12. CASE HastyWorker
  BY <1>3, <1>4, <1>6, <1>7, <1>12, Clients DEF HastyWorker, driverVars, Workers
<1>13. CASE DriverStep
  <2>1. CASE DriverCalls
    <3>1. <<Script[step]>> \in Seq(Frames)
      BY <1>1, <2>1, ScriptTyped DEF DriverCalls, DepIInv
    <3>2. QED
      BY <1>3, <1>4, <1>6, <2>1, <3>1, Clients DEF DriverCalls
  <2>2. CASE DriverReturns
    <3>1. outbox' \in [Threads -> Seq(Replies(nextPlanId'))] /\ Head(outbox[Driver]) \in Replies(nextPlanId)
      BY <1>5, <2>2, Boxes, Clients DEF DriverReturns, TakeReply, DepIInv, FramesTyped
    <3>2. held' \in [{"p1", "p3"} -> 0..(nextPlanId' - 1)]
      BY <1>1, <1>3, <2>2, <3>1 DEF DriverReturns, Replies
    <3>3. QED
      BY <1>3, <1>4, <2>2, <3>1, <3>2 DEF DriverReturns
  <2>3. CASE DriverWaits \/ DriverExecutes \/ DriverKills \/ DriverSpawns
    BY <1>3, <1>4, <2>3 DEF DriverWaits, DriverExecutes, DriverKills, DriverSpawns, processVars
  <2>4. QED
    BY <1>13, <2>1, <2>2, <2>3 DEF DriverStep
<1>14. CASE MainStep \/ UNCHANGED depVars
  BY <1>3, <1>4, <1>14 DEF MainStep, MainChecks, MainAccepts, depVars, processVars, driverVars
<1>15. QED
  BY <1>8, <1>9, <1>10, <1>11, <1>12, <1>13, <1>14
     DEF DepNext, Progress, ThreadStep, CudaStep, Workers

\* The processes keep to their states, and nobody connects twice.
LEMMA ProcessesStep ==
  ASSUME DepIInv, [DepNext]_depVars
  PROVE  ProcessesTyped' /\ Connected'
<1> USE DEF DepIInv, ProcessesTyped, Connected
<1>1. ASSUME NEW t \in Threads, Loop(t) \/ Receive(t) \/ StopRunning(t)
      PROVE  ProcessesTyped' /\ Connected'
  <2>1. CASE Loop(t)
    BY <1>1, <2>1, Clients DEF Loop, Serving, driverVars
  <2>4. CASE StopRunning(t)
    BY <1>1, <2>4, Clients DEF StopRunning, driverVars
  <2>2. CASE Receive(t)
    <3>1. /\ conn[t] = "served"
          /\ conn' = [conn EXCEPT ![t] = "stopping"] \/ conn' = conn
          /\ receiving' = [receiving EXCEPT ![t] = FALSE]
          /\ UNCHANGED <<worker, running, main, latecomers, step, calling, misses>>
      BY <2>2 DEF Receive, Serving, driverVars
    <3>2. QED
      BY <3>1, Clients
  <2>3. QED
    BY <1>1, <2>1, <2>2, <2>4
<1>2. ASSUME NEW t \in Threads, Work(t) \/ PeerGone(t) \/ Fence(t)
      PROVE  UNCHANGED <<conn, receiving, worker, calling, misses, running, main, latecomers,
                         step>>
  BY <1>2 DEF Work, PeerGone, Fence, processVars, driverVars
<1>3. ASSUME NEW w \in Workers, CudaStep(w) \/ Connect(w) PROVE ProcessesTyped' /\ Connected'
  <2>1. CASE Connect(w)
    BY <2>1, Clients DEF Connect, driverVars
  <2>2. CASE CudaRegisters(w) \/ CudaPublishes(w) \/ CudaAnnounces(w)
    <3>1. /\ worker[w] \in {"connected", "registering", "publishing"}
          /\ \E v \in {"registering", "publishing", "published", "dead"} :
               worker' = [worker EXCEPT ![w] = v]
          /\ UNCHANGED <<conn, receiving, running, main, latecomers, driverVars>>
      BY <2>2 DEF CudaRegisters, CudaPublishes, CudaAnnounces
    <3>2. QED
      BY <3>1, Clients DEF driverVars
  <2>3. QED
    BY <1>3, <2>1, <2>2 DEF CudaStep
<1>4. CASE HastyWorker
  BY <1>4, Clients DEF HastyWorker, driverVars, Workers
<1>5. CASE DriverStep
  <2>1. CASE DriverCalls
    BY <2>1 DEF DriverCalls, Script, Asking
  <2>2. CASE DriverReturns
    <3>1. /\ calling' = FALSE /\ step \in Asking
          /\ UNCHANGED <<conn, receiving, worker, running, main, latecomers>>
      BY <2>2 DEF DriverReturns
    <3>2. /\ misses' = misses \/ (misses < MaxMisses /\ misses' = misses + 1)
          /\ step' \in {step, After[step], "failed"}
      BY <2>2, ZenonT(40) DEF DriverReturns
    <3>3. misses' \in 0..MaxMisses
      BY <3>2, DeploymentAssumption
    <3>4. /\ step' \in Early => step \in Early
          /\ step' \in Early \cup Late
      BY <3>1, <3>2 DEF Early, Late, After, Asking
    <3>5. QED
      BY <3>1, <3>3, <3>4
  <2>3. CASE DriverWaits \/ DriverExecutes
    <3>1. (step' \in Early => step \in Early) /\ step' \in Late \cup Early
          /\ ~calling
      BY <2>3 DEF DriverWaits, DriverExecutes, Early, Late, After, Asking
    <3>2. QED
      BY <2>3, <3>1 DEF DriverWaits, DriverExecutes, processVars
  <2>4. CASE DriverKills
    BY <2>4 DEF DriverKills, Early, After, Asking, Workers, CudaWorkers
  <2>5. CASE DriverSpawns
    <3>1. step' \in Late \ Early /\ conn["A2"] = "none" /\ ~calling
      BY <2>5 DEF DriverSpawns, Early, Late, After, Asking, Workers, CudaWorkers
    <3>2. QED
      BY <2>5, <3>1 DEF DriverSpawns, Workers, CudaWorkers
  <2>6. QED
    BY <1>5, <2>1, <2>2, <2>3, <2>4, <2>5 DEF DriverStep
<1>6. CASE MainStep
  <2>1. CASE MainChecks
    BY <2>1 DEF MainChecks, driverVars
  <2>2. CASE MainAccepts
    <3>1. PICK t \in Threads : conn[t] = "queued" /\ conn' = [conn EXCEPT ![t] = "served"]
      BY <2>2 DEF MainAccepts
    <3>2. QED
      BY <2>2, <3>1, Clients DEF MainAccepts, driverVars
  <2>3. QED
    BY <1>6, <2>1, <2>2 DEF MainStep
<1>7. CASE UNCHANGED depVars
  BY <1>7 DEF depVars, processVars, driverVars
<1>8. QED
  BY <1>1, <1>2, <1>3, <1>4, <1>5, <1>6, <1>7
     DEF DepNext, Progress, ThreadStep, CudaStep, Workers

\* A thread of the coordinator leaves the other connections alone.
LEMMA OthersAlone ==
  ASSUME DepIInv, NEW t \in Threads, Receive(t) \/ Work(t) \/ PeerGone(t) \/ Fence(t),
         NEW u \in Threads \ {t}
  PROVE  UNCHANGED <<pc[u], link[u], boot[u], inbox[u], outbox[u], receiving[u], conn[u]>>
<1> USE DEF DepIInv, CoIInv, CoTypeOK, TypeOK, FramesTyped, ProcessesTyped
<1>1. CASE PeerGone(t)
  BY <1>1 DEF PeerGone, Drop, processVars, vars, threadVars
<1>2. CASE Fence(t)
  <2>1. CASE FenceBoot(t)
    BY <1>2, <2>1 DEF Fence, processVars, FenceBoot, FenceWorker, threadVars
  <2>2. CASE HideBoot(t) \/ ReadEpoch(t)
    BY <1>2, <2>2 DEF Fence, processVars, HideBoot, ReadEpoch, vars, threadVars
  <2>3. CASE BumpEpoch(t)
    BY <1>2, <2>3 DEF Fence, processVars, BumpEpoch, SetEpoch, vars, threadVars
  <2>4. QED
    BY <1>2, <2>1, <2>2, <2>3 DEF Fence
<1>3. CASE Receive(t)
  <2>1. Head(inbox[t]) \in Frames
    BY <1>3, Boxes DEF Receive
  <2>2. UNCHANGED pc[u]
    BY ZenonT(40), <1>3, <2>1 DEF Receive, Frames, Register, ServePublish, Publish, IngestCandidate,
       Submit, ScheduleSnapshot, ServeCommit, CommitFrame, CommitBegin, ServeHandoff,
       HandoffFrame, HandoffBegin, GoTo, coVars, coordVars, vars, threadVars
  <2>3. UNCHANGED <<link[u], boot[u]>>
    BY ZenonT(40), <1>3, <2>1 DEF Receive, Frames, Register, ServePublish, Publish, IngestCandidate,
       Submit, ServeCommit, CommitFrame, ServeHandoff, HandoffFrame, coVars, coordVars
  <2>4. UNCHANGED outbox[u]
    <3>1. outbox' = outbox \/ \E r \in Replies(nextPlanId') : Answer(t, r)
      BY <1>3, AnswersTyped DEF Quiet
    <3>2. QED
      BY <3>1 DEF Answer
  <2>5. QED
    BY <1>3, <2>2, <2>3, <2>4 DEF Receive
<1>4. CASE Work(t)
  <2>1. UNCHANGED <<pc[u], link[u], boot[u]>>
    BY ZenonT(40), <1>4 DEF Work, LiveVeto, Decide, ScheduleNone, SchedulePlan, InMemoryBroker,
       BrokerCommit, CommitEnds, Commit, CommitSucceeds, CommitTooLate, CommitRelease,
       CommitFails, CurrentAuthorityExec, ExecAuthorize, ExecDeny, HandoffEnds, Handoff,
       HandoffStarts, HandoffDropped, HandoffDenied, GoTo, Return, coordVars, vars, threadVars
  <2>2. UNCHANGED outbox[u]
    <3>1. outbox' = outbox \/ \E r \in Replies(nextPlanId') : Answer(t, r)
      BY <1>4, AnswersTyped DEF Quiet
    <3>2. QED
      BY <3>1 DEF Answer
  <2>3. QED
    BY <1>4, <2>1, <2>2 DEF Work
<1>5. QED
  BY <1>1, <1>2, <1>3, <1>4

\* A thread either works on a call or has answered it.
LEMMA AnswerOrWork ==
  ASSUME DepIInv, NEW t \in Threads, Receive(t) \/ Work(t)
  PROVE  /\ Receive(t) => pc[t] = "idle"
         /\ Work(t) => pc[t] # "idle"
         /\ Quiet \/ (pc'[t] = "idle" /\ \E r \in Replies(nextPlanId') : Answer(t, r))
<1> USE DEF DepIInv, CoIInv, CoTypeOK, TypeOK, FramesTyped
<1>1. CASE Receive(t)
  <2>1. pc[t] = "idle" /\ Head(inbox[t]) \in Frames
    BY <1>1, Boxes DEF Receive, Ready
  <2>2. Quiet \/ UNCHANGED pc[t]
    BY ZenonT(40), <1>1, <2>1 DEF Receive, Frames, Register, ServePublish, Publish, IngestCandidate,
       ServeCommit, ServeHandoff, coVars, vars, threadVars
  <2>3. ~Work(t)
    BY <2>1 DEF Work, LiveVeto, Decide, ScheduleNone, SchedulePlan, InMemoryBroker,
       BrokerCommit, CommitEnds, Commit, CommitSucceeds, CommitTooLate, CommitRelease,
       CommitFails, CurrentAuthorityExec, HandoffEnds, Handoff,
       HandoffStarts, HandoffDropped, HandoffDenied, GoTo
  <2>4. QED
    BY <1>1, <2>1, <2>2, <2>3, AnswersTyped
<1>2. CASE Work(t)
  <2>1. Quiet \/ pc'[t] = "idle"
    BY <1>2 DEF Work, Decide, ScheduleNone, SchedulePlan, HandoffEnds, Handoff,
       HandoffStarts, HandoffDropped, HandoffDenied, Return
  <2>2. pc[t] # "idle"
    BY <1>2 DEF Work, LiveVeto, Decide, ScheduleNone, SchedulePlan, InMemoryBroker,
       BrokerCommit, CommitEnds, Commit, CommitSucceeds, CommitTooLate, CommitRelease,
       CommitFails, CurrentAuthorityExec, HandoffEnds, Handoff,
       HandoffStarts, HandoffDropped, HandoffDenied, GoTo
  <2>3. ~Receive(t)
    BY <2>2 DEF Receive, Ready
  <2>4. QED
    BY <1>2, <2>1, <2>2, <2>3, AnswersTyped
<1>3. QED
  BY <1>1, <1>2

\* How full a box is.
LEMMA BoxLengths ==
  ASSUME NEW S, NEW t \in Threads, NEW box \in [Threads -> Seq(S)]
  PROVE  /\ Len(box[t]) \in Nat
         /\ box[t] # <<>> => Len([box EXCEPT ![t] = Tail(@)][t]) = Len(box[t]) - 1
                             /\ Len(box[t]) > 0
         /\ \A e \in S : /\ Len([box EXCEPT ![t] = Append(@, e)][t]) = Len(box[t]) + 1
                         /\ Len([box EXCEPT ![t] = @ \o <<e>>][t]) = Len(box[t]) + 1
<1>1. box[t] \in Seq(S) /\ Len(box[t]) \in Nat
  BY LenProperties
<1>2. box[t] # <<>> => Len(Tail(box[t])) = Len(box[t]) - 1 /\ Len(box[t]) > 0
  BY <1>1, HeadTailProperties, EmptySeq
<1>3. \A e \in S : Len(Append(box[t], e)) = Len(box[t]) + 1
  BY <1>1, AppendProperties
<1>4. \A e \in S : Len(box[t] \o <<e>>) = Len(box[t]) + 1
  BY <1>1
<1>5. QED
  BY <1>1, <1>2, <1>3, <1>4

\* The driver's calls do not overlap.
LEMMA OneCallStep ==
  ASSUME DepIInv, [DepNext]_depVars
  PROVE  OneCall'
<1> USE DEF DepIInv, FramesTyped
<1>0. /\ OneCall' <=> Asked' + Coming' + Served' <= Calls'
      /\ Served \in {0, 1} /\ Served' \in {0, 1} /\ Calls \in {0, 1}
  BY DEF OneCall, Served, Calls
<1>1. Asked \in Nat /\ Coming \in Nat /\ Asked + Coming + Served <= Calls /\ Driver \in Threads
  BY BoxLengths, Clients DEF OneCall, Asked, Coming
<1>2. CASE UNCHANGED <<pc[Driver], inbox[Driver], outbox[Driver], calling>>
  BY <1>2 DEF OneCall, Asked, Coming, Served, Calls
<1>3. ASSUME NEW t \in Threads, Receive(t) \/ Work(t) \/ PeerGone(t) \/ Fence(t) PROVE OneCall'
  <2>0. UNCHANGED calling
    BY <1>3 DEF Receive, Work, PeerGone, Fence, driverVars
  <2>1. Calls' = Calls
    BY <2>0 DEF Calls
  <2>2. CASE t # Driver
    BY <1>2, <2>0, <2>2, <1>3, OthersAlone, Clients
  <2>3. CASE t = Driver /\ (Receive(t) \/ Work(t))
    <3>1. Coming' = Coming \/ (Coming' = Coming + 1 /\ Served' = 0)
      <4>1. Quiet => Coming' = Coming
        BY DEF Quiet, Coming
      <4>2. ASSUME pc'[t] = "idle", NEW r \in Replies(nextPlanId'), Answer(t, r)
            PROVE  Coming' = Coming + 1 /\ Served' = 0
        BY <2>3, <4>2, RepliesKept, BoxLengths DEF Answer, Coming, Served
      <4>3. Quiet \/ (pc'[t] = "idle" /\ \E r \in Replies(nextPlanId') : Answer(t, r))
        BY <2>3, AnswerOrWork
      <4>4. Quiet \/ (Coming' = Coming + 1 /\ Served' = 0)
        BY <4>2, <4>3
      <4>5. QED
        BY <1>0, <1>1, <4>1, <4>4
    <3>2. CASE Receive(t)
      <4>1. Asked' = Asked - 1 /\ Asked > 0
        BY <1>1, <2>3, <3>2, BoxLengths DEF Receive, Asked
      <4>2. QED
        BY <1>0, <1>1, <2>1, <3>1, <4>1
    <3>3. CASE Work(t)
      <4>1. Asked' = Asked /\ Served = 1
        BY <2>3, <3>3, AnswerOrWork DEF Work, Asked, Served
      <4>2. QED
        BY <1>0, <1>1, <2>1, <3>1, <4>1
    <3>4. QED
      BY <2>3, <3>2, <3>3
  <2>4. CASE t = Driver /\ (PeerGone(t) \/ Fence(t))
    BY <1>1, <1>2, <2>0, <2>4, Clients DEF PeerGone, Fence, FenceBoot, FenceWorker, HideBoot,
       ReadEpoch, BumpEpoch, SetEpoch, processVars, vars, threadVars
  <2>5. QED
    BY <1>3, <2>2, <2>3, <2>4
<1>4. ASSUME NEW w \in Workers, CudaStep(w) \/ Connect(w) \/ (w = Hasty /\ HastyWorker)
      PROVE  OneCall'
  BY <1>1, <1>2, <1>4, Clients DEF CudaStep, Connect, CudaRegisters, CudaPublishes, TakeReply,
     CudaAnnounces, HastyWorker, Post, coVars, vars, threadVars, driverVars
<1>5. CASE DriverCalls
  <2>1. Script[step] \in Frames
    BY <1>5, ScriptTyped DEF DriverCalls, CoIInv, IInv, TypeOK
  <2>2. Asked' = Asked + 1 /\ Coming' = Coming /\ Served' = Served /\ Calls = 0 /\ Calls' = 1
    BY <1>1, <1>5, <2>1, BoxLengths DEF DriverCalls, Post, coVars, vars, threadVars, Asked, Coming, Served, Calls
  <2>3. QED
    BY <1>0, <1>1, <2>2
<1>6. CASE DriverReturns
  <2>1. Coming' = Coming - 1 /\ Coming > 0 /\ Asked' = Asked /\ Served' = Served /\ Calls = 1
        /\ Calls' = 0
    BY <1>1, <1>6, BoxLengths DEF DriverReturns, TakeReply, coVars, vars, threadVars, Asked, Coming,
       Served, Calls
  <2>2. QED
    BY <1>0, <1>1, <2>1
<1>7. CASE DriverWaits \/ DriverExecutes \/ DriverKills \/ DriverSpawns
  BY <1>2, <1>7 DEF DriverWaits, DriverExecutes, DriverKills, DriverSpawns, processVars,
     coVars, vars, threadVars
<1>8. ASSUME NEW t \in Threads, Loop(t) \/ StopRunning(t) PROVE OneCall'
  BY <1>2, <1>8 DEF Loop, StopRunning, driverVars, coVars, vars, threadVars
<1>9. CASE MainStep \/ UNCHANGED depVars
  BY <1>2, <1>9 DEF MainStep, MainChecks, MainAccepts, depVars, processVars, driverVars,
     coVars, vars, threadVars
<1>10. QED
  BY <1>3, <1>4, <1>5, <1>6, <1>7, <1>8, <1>9
     DEF DepNext, Progress, ThreadStep, DriverStep, Workers

\* What was not served is not served by a step, and who comes after SHUTDOWN
\* is not served at all.
LEMMA UnservedStep ==
  ASSUME DepIInv, [DepNext]_depVars
  PROVE  Unserved'
<1> USE DEF DepIInv, ProcessesTyped, Unserved, Untouched
<1>1. ASSUME NEW t \in Threads, Receive(t) \/ Work(t) \/ PeerGone(t) \/ Fence(t) PROVE Unserved'
  <2>1. conn[t] # "none" /\ t \notin latecomers
    BY <1>1, AnswerOrWork DEF Receive, Work, PeerGone, Fence, FenceBoot, HideBoot, ReadEpoch,
       BumpEpoch
  <2>2. /\ conn'[t] # "none" /\ UNCHANGED latecomers
        /\ UNCHANGED running
    BY <1>1, <2>1 DEF Receive, Work, PeerGone, Fence, processVars
  <2>3. QED
    BY <1>1, <2>1, <2>2, OthersAlone
<1>2. ASSUME NEW t \in Threads, Loop(t) \/ StopRunning(t) PROVE Unserved'
  BY <1>2 DEF Loop, StopRunning, Serving, coVars, coordVars, vars, threadVars
<1>3. ASSUME NEW w \in Workers, Connect(w) PROVE Unserved'
  BY <1>3, Clients DEF Connect, Connected, coVars, coordVars, vars, threadVars
<1>4. ASSUME NEW w \in Workers, \/ CudaRegisters(w) \/ CudaPublishes(w) \/ CudaAnnounces(w)
                                \/ w = Hasty /\ HastyWorker
      PROVE  Unserved'
  <2>1. conn[w] # "none"
    BY <1>4, Clients DEF CudaRegisters, CudaPublishes, CudaAnnounces, HastyWorker, Connected
  <2>2. /\ UNCHANGED <<pc, link, boot, receiving, conn, running, latecomers>>
        /\ UNCHANGED outbox \/ (outbox[w] # <<>> /\ outbox' = [outbox EXCEPT ![w] = Tail(@)])
        /\ \A t \in Threads \ {w} : inbox'[t] = inbox[t]
    BY <1>4 DEF CudaRegisters, CudaPublishes, CudaAnnounces, HastyWorker, Post, TakeReply,
       FramesTyped, coVars, coordVars, vars, threadVars
  <2>3. QED
    BY <2>1, <2>2 DEF FramesTyped
<1>5. CASE DriverStep
  <2>1. /\ UNCHANGED <<pc, link, boot, receiving, conn, running, latecomers>>
        /\ \/ UNCHANGED outbox
           \/ outbox[Driver] # <<>> /\ outbox' = [outbox EXCEPT ![Driver] = Tail(@)]
        /\ \A t \in Threads \ {Driver} : inbox'[t] = inbox[t]
    BY <1>5 DEF DriverStep, DriverWaits, DriverCalls, DriverReturns, DriverExecutes,
       DriverKills, DriverSpawns, Post, TakeReply, FramesTyped, processVars, coVars,
       coordVars, vars, threadVars
  <2>2. QED
    BY <2>1, Clients DEF Connected, FramesTyped
<1>6. CASE MainStep
  BY <1>6 DEF MainStep, MainChecks, MainAccepts, coVars, coordVars, vars, threadVars
<1>7. CASE UNCHANGED depVars
  BY <1>7 DEF depVars, processVars, driverVars, coVars, coordVars, vars, threadVars
<1>8. QED
  BY <1>1, <1>2, <1>3, <1>4, <1>5, <1>6, <1>7
     DEF DepNext, Progress, ThreadStep, CudaStep, Workers

-----------------------------------------------------------------------------
\* The deployment starts with the driver alone on its way to the coordinator.
LEMMA DepInitial == DepInit => DepIInv
<1> SUFFICES ASSUME DepInit PROVE DepIInv
  OBVIOUS
<1>1. CoIInv
  BY CoIInvInit DEF DepInit
<1>2. /\ pc = [t \in Threads |-> "idle"] /\ nextPlanId = 1
      /\ link = [t \in Threads |-> "open"] /\ boot = [t \in Threads |-> NoBoot]
  BY DEF DepInit, CoInit, Init
<1>3. <<>> \in Seq(Frames) /\ <<>> \in Seq(Replies(nextPlanId)) /\ Len(<<>>) = 0
  BY EmptySeq
<1>4. FramesTyped
  BY <1>2, <1>3 DEF DepInit, FramesTyped
<1>5. ProcessesTyped
  <2>1. misses \in 0..MaxMisses
    BY DeploymentAssumption DEF DepInit
  <2>2. step \in Early \cup Late /\ calling = FALSE
    BY DEF DepInit, Early
  <2>3. QED
    BY <2>1, <2>2 DEF DepInit, ProcessesTyped
<1>6. Connected
  BY Clients DEF DepInit, Connected, Early, Workers, CudaWorkers
<1>7. OneCall
  BY <1>2, <1>3, Clients DEF DepInit, OneCall, Asked, Coming, Served, Calls
<1>8. Unserved
  BY <1>2 DEF DepInit, Unserved, Untouched
<1>9. QED
  BY <1>1, <1>4, <1>5, <1>6, <1>7, <1>8 DEF DepIInv

\* Every step keeps the invariant.
LEMMA DepStep == DepIInv /\ [DepNext]_depVars => DepIInv'
<1> SUFFICES ASSUME DepIInv, [DepNext]_depVars PROVE DepIInv'
  OBVIOUS
<1>1. CoIInv'
  BY CoordinatorStep, CoIInvStep DEF DepIInv
<1>2. QED
  BY <1>1, FramesStep, ProcessesStep, OneCallStep, UnservedStep DEF DepIInv

\* The inductive invariant of the deployment.
THEOREM DeploymentInductive == DepSpec => []DepIInv
<1>1. QED
  BY DepInitial, DepStep, PTL DEF DepSpec

\* What Coordinator assumes of its clients is what the processes do: every
\* frame they send is one it serves, every step of theirs is one it allows.
\* The theorems about the coordinator and the scheduler, that complete fences
\* stop the fenced worker's plans among them, therefore hold of the deployment.
THEOREM DeploymentCoordinates == DepSpec => CoSpec /\ []FencedPlansStopped
<1>1. DepInit => CoInit
  BY DEF DepInit
<1>2. DepIInv /\ [DepNext]_depVars => [CoNext]_coVars
  BY CoordinatorStep DEF DepIInv
<1>3. DepSpec => CoSpec
  BY <1>1, <1>2, DeploymentInductive, PTL DEF DepSpec, CoSpec
<1>4. QED
  BY <1>3, FenceComplete, PTL

\* The types of the deployment, for any number of missed polls: a connection
\* carries nothing before it was made, the driver's calls do not overlap, and
\* the plans it holds were issued (cuda_worker_death_proof.cpp's call).
THEOREM DepTypeCorrect == DepSpec => []DepTypeOK
<1>1. ASSUME DepIInv PROVE DepTypeOK
  <2> USE <1>1 DEF DepIInv
  <2>1. CoTypeOK
    BY DEF CoIInv
  <2>2. \A t \in Threads : conn[t] = "none" => inbox[t] = <<>> /\ outbox[t] = <<>>
    BY DEF Unserved, Untouched
  <2>3. Len(inbox[Driver]) + Len(outbox[Driver]) <= 1
    <3>1. Asked \in Nat /\ Coming \in Nat
      BY BoxLengths, Clients DEF Asked, Coming, FramesTyped
    <3>2. Served \in {0, 1} /\ Calls \in {0, 1}
      BY DEF Served, Calls
    <3>3. Asked + Coming <= 1
      BY <3>1, <3>2 DEF OneCall
    <3>4. QED
      BY <3>3 DEF Asked, Coming
  <2>4. QED
    BY <2>1, <2>2, <2>3 DEF DepTypeOK, ProcessesTyped, FramesTyped
<1>2. QED
  BY <1>1, DeploymentInductive, PTL

\* A client that connects after SHUTDOWN is answered nothing and registers
\* nobody: its thread leaves serve_connection at the head of the loop.
THEOREM NobodyServed == DepSpec => []NobodyServedAfterShutdown
<1>1. DepIInv => NobodyServedAfterShutdown
  BY DEF DepIInv, Unserved, Untouched, ProcessesTyped, NobodyServedAfterShutdown
<1>2. QED
  BY <1>1, DeploymentInductive, PTL

-----------------------------------------------------------------------------
(* What the driver relies on: the invariant behind its checks.             *)

\* Until the driver kills A, and once its script is past A2's start.
First == {"submit1", "commit1", "handoff1", "execute1", "kill"}
Third == {"submit3", "commit3", "handoff3", "execute3", "shutdown", "done"}

\* The frames a worker sends.
Own(w) == {Frame("REGISTER", BootOf[w]), Frame("PUBLISH", Offer(w))}

\* Which workers have announced themselves.  The one that does not wait for
\* replies does not end on one either.
Announced ==
  /\ worker[Hasty] # "dead"
  /\ step # "start" => worker["B"] = "published"
  /\ step \in First => worker["A"] = "published"
  /\ step \in Third => worker["A2"] = "published"

\* How far a worker has come with its two frames.  What it announces is held.
Conversation(w) ==
  /\ worker[w] \in {"unborn", "started", "connected"} => inbox[w] = <<>> /\ outbox[w] = <<>>
  /\ worker[w] = "registering" =>
       \/ inbox[w] = <<Frame("REGISTER", BootOf[w])>> /\ outbox[w] = <<>>
       \/ inbox[w] = <<>> /\ Len(outbox[w]) = 1 /\ boot[w] = BootOf[w]
  /\ worker[w] = "publishing" =>
       /\ boot[w] = BootOf[w]
       /\ \/ inbox[w] = <<Frame("PUBLISH", Offer(w))>> /\ outbox[w] = <<>>
          \/ /\ inbox[w] = <<>> /\ Len(outbox[w]) = 1
             /\ Head(outbox[w]).ok => Offer(w) \in candidates
  /\ worker[w] \in {"published", "dead"} => inbox[w] = <<>> /\ boot[w] = BootOf[w]
  /\ worker[w] = "published" => Offer(w) \in candidates

\* Workers' threads serve one frame at a time, and only these.
Conversations ==
  /\ \A w \in CudaWorkers : Conversation(w)
  /\ \A w \in Workers : pc[w] = "idle" /\ inbox[w] \in Seq(Own(w))

\* What was published: nothing by who was not started, and never the replay.
Offered ==
  /\ candidates \subseteq {Offer(w) : w \in Workers}
  /\ worker["A2"] = "unborn" => Offer("A2") \notin candidates
  /\ step # "start" => {Offer("A"), Offer("B")} \subseteq candidates
  /\ cancelled = {}

\* Only dead workers are fenced, first in the scheduler, then in the veto's
\* set, and A is in both once B was seen to win.
Fences ==
  /\ \A t \in Threads : link[t] # "open" => t \in CudaWorkers /\ worker[t] = "dead"
  /\ \A t \in Threads : link[t] = "hiding" => boot[t] \in fencedWorkers
  /\ liveFenced \subseteq fencedWorkers
  /\ \A b \in liveFenced : \E w \in CudaWorkers : worker[w] = "dead" /\ BootOf[w] = b
  /\ step \in {"replay", "stale", "spawn", "await"} \cup Third => BootOf["A"] \in liveFenced
  /\ settled => step \in Third \cup {"failed"} /\ link["A"] = "closed"

\* The call that is being served is the one the driver's script asks for.
OwnCall ==
  /\ inbox[Driver] # <<>> => step \in Asking /\ inbox[Driver] = <<Script[step]>>
  /\ pc[Driver] = "filtering" => step \in {"submit1", "poll", "submit3"}
  /\ pc[Driver] \in CommitSteps =>
       step \in {"commit1", "commit3"} /\ job[Driver] = Script[step].arg
  /\ pc[Driver] \in HandoffSteps =>
       step \in {"handoff1", "handoff3"} /\ job[Driver] = Script[step].arg

\* What a pass that serves the driver can choose from.
Sight ==
  /\ pc[Driver] = "filtering" =>
       /\ snap[Driver] \subseteq {Offer(w) : w \in Workers}
       /\ {Offer("A"), Offer("B")} \subseteq snap[Driver]
       /\ step = "submit3" <=> Offer("A2") \in snap[Driver]
  /\ vetted[Driver] =>
       /\ allowed[Driver] \subseteq snap[Driver]
       /\ step = "submit1" => Offer("A") \in allowed[Driver]
       /\ step = "poll" => Offer("A") \in allowed[Driver] \/ BootOf["A"] \in liveFenced
       /\ step = "submit3" => Offer("A2") \in allowed[Driver] /\ Offer("A") \notin allowed[Driver]

\* How far the driver's call is.
Phase == IF pc[Driver] # "idle" THEN "serving"
         ELSE IF outbox[Driver] # <<>> THEN "answered" ELSE "asked"

CommitStage  == [asked |-> "PLAN_READY", serving |-> "AWAITING_RESOURCE_COMMIT",
                 answered |-> "COMMITTED"]
HandoffStage == [asked |-> "COMMITTED", serving |-> "AWAITING_EXECUTION",
                 answered |-> "ACTIVE"]

\* A plan that nothing disturbs is where the driver's check of it is.
Undisturbed(p, commit, handoff, over) ==
  /\ step \in {commit, handoff} \cup over => p \in PlanIds
  /\ step = commit  => /\ plans[p].state = CommitStage[Phase]
                       /\ pc[Driver] \in {"idle", "committing", "granted"}
  /\ step = handoff => /\ plans[p].state = HandoffStage[Phase]
                       /\ pc[Driver] \in {"idle", "authorizing", "authorized"}
  /\ step \in over  => plans[p].state = "ACTIVE"

PlansGoOn ==
  /\ Undisturbed(held.p1, "commit1", "handoff1", {"execute1", "kill"})
  /\ step \in {"poll", "replay", "stale"} =>
       held.p1 \in PlanIds /\ plans[held.p1].state \in {"ACTIVE", "REVALIDATION_REQUIRED"}
  /\ settled =>
       Undisturbed(held.p3, "commit3", "handoff3", {"execute3", "shutdown", "done"})

\* What a reply on its way to the driver says.
Promise(r) ==
  /\ step \in {"commit1", "handoff1", "shutdown"} => r.ok
  /\ step = "submit1" => /\ r.ok /\ r.plan \in PlanIds /\ plans[r.plan].cand = Offer("A")
                         /\ plans[r.plan].state = "PLAN_READY"
  /\ step = "submit3" => /\ r.ok /\ r.plan \in PlanIds /\ plans[r.plan].cand = Offer("A2")
                         /\ settled => plans[r.plan].state = "PLAN_READY"
  /\ step = "poll" /\ r.ok =>
       /\ r.plan \in PlanIds
       /\ plans[r.plan].cand.id = BootOf["B"] => BootOf["A"] \in liveFenced
  /\ step = "replay" => r.type = "StaleAuthority"
  /\ step = "stale" => ~r.ok
  /\ step \in {"commit3", "handoff3"} /\ settled => r.ok
  /\ step = "handoff3" /\ r.ok => held.p3 \in execGrants

Promises == outbox[Driver] # <<>> => Promise(Head(outbox[Driver]))

\* What the driver has found, and what it had launched.
Outcome ==
  /\ verdict \in {"none", "poll", "commit3", "handoff3"}
  /\ verdict \in {"commit3", "handoff3"} => step = "failed" /\ ~settled
  /\ launched \subseteq execGrants
  /\ step = "execute3" => held.p3 \in execGrants

\* The inductive invariant of the driver's checks.
DriverFacts ==
  /\ Announced /\ Conversations /\ Offered /\ Fences
  /\ OwnCall /\ Sight /\ PlansGoOn /\ Promises /\ Outcome

DriverIInv == DepIInv /\ DriverFacts

-----------------------------------------------------------------------------
\* Boots and candidates of the four workers are four, and the replay is none.
LEMMA Names ==
  /\ BootOf["A"] = 100 /\ BootOf["B"] = 200 /\ BootOf["A2"] = 300 /\ BootOf["C"] = 400
  /\ Workers = {"A", "B", "A2", "C"} /\ CudaWorkers = {"A", "B", "A2"} /\ Hasty = "C"
  /\ \A w \in Workers : Offer(w).id = BootOf[w] /\ Offer(w).worker = BootOf[w] /\ Offer(w).gen = 1
  /\ Stale.id = 100 /\ Stale.worker = 100 /\ Stale.gen = 2
<1>1. Workers = {"A", "B", "A2", "C"} /\ CudaWorkers = {"A", "B", "A2"} /\ Hasty = "C"
  BY DEF Workers, CudaWorkers, Hasty
<1>2. BootOf["A"] = 100 /\ BootOf["B"] = 200 /\ BootOf["A2"] = 300 /\ BootOf["C"] = 400
  BY DEF BootOf
<1>3. \A w \in Workers : Offer(w).id = BootOf[w] /\ Offer(w).worker = BootOf[w] /\ Offer(w).gen = 1
  BY DEF Offer
<1>4. Stale.id = 100 /\ Stale.worker = 100 /\ Stale.gen = 2
  BY <1>2 DEF Stale, Offer
<1>5. QED
  BY <1>1, <1>2, <1>3, <1>4

\* Of those that are offered the near worker wins, whoever else there is.
LEMMA NearWins ==
  ASSUME NEW S, S \subseteq {Offer(w) : w \in Workers},
         NEW near \in {"A", "A2"}, NEW other \in {"A", "A2"} \ {near},
         Offer(near) \in S, Offer(other) \notin S
  PROVE  Winner(S) = {Offer(near)}
<1>1. \A c \in S : c = Offer(near) \/ c = Offer("B") \/ c = Offer("C")
  BY Names
<1>2. Offer(near).id \in Fit
  BY Names, ScenarioAssumption
<1>3. \A far \in {"B", "C"} : /\ <<Offer(near).id, Offer(far).id>> \in Better
                               /\ <<Offer(far).id, Offer(near).id>> \notin Better
                               /\ Offer(far) # Offer(near)
  BY Names, ScenarioAssumption
<1>4. ASSUME NEW c \in Winner(S) PROVE c = Offer(near)
  <2>1. c \in S /\ (Offer(near) # c => <<c.id, Offer(near).id>> \in Better)
    BY <1>2 DEF Winner
  <2>2. QED
    BY <1>1, <1>3, <2>1
<1>5. Offer(near) \in Winner(S)
  BY <1>1, <1>2, <1>3 DEF Winner
<1>6. QED
  BY <1>4, <1>5

\* Where A is offered B does not win.
LEMMA NearNotBeaten ==
  ASSUME NEW S, Offer("A") \in S
  PROVE  \A c \in Winner(S) : c.id # BootOf["B"]
<1>1. Offer("A").id \in Fit /\ <<BootOf["B"], Offer("A").id>> \notin Better
      /\ Offer("A").id # BootOf["B"]
  BY Names, ScenarioAssumption
<1>2. QED
  BY <1>1 DEF Winner

\* The driver's call is in one place.
LEMMA CallPlaces ==
  ASSUME DepIInv
  PROVE  /\ ~calling => pc[Driver] = "idle" /\ inbox[Driver] = <<>> /\ outbox[Driver] = <<>>
         /\ pc[Driver] # "idle" => inbox[Driver] = <<>> /\ outbox[Driver] = <<>>
         /\ inbox[Driver] # <<>> => pc[Driver] = "idle" /\ outbox[Driver] = <<>>
         /\ outbox[Driver] # <<>> => /\ pc[Driver] = "idle" /\ inbox[Driver] = <<>>
                                     /\ Tail(outbox[Driver]) = <<>>
<1>1. Driver \in Threads /\ inbox[Driver] \in Seq(Frames) /\ outbox[Driver] \in Seq(Replies(nextPlanId))
  BY Clients DEF DepIInv, FramesTyped
<1>2. Asked \in Nat /\ Coming \in Nat /\ (Asked = 0 <=> inbox[Driver] = <<>>)
      /\ (Coming = 0 <=> outbox[Driver] = <<>>)
  BY <1>1, EmptySeq, LenProperties DEF Asked, Coming
<1>3. Coming = 1 => Tail(outbox[Driver]) = <<>>
  <2>1. ASSUME Len(outbox[Driver]) = 1
        PROVE  Tail(outbox[Driver]) \in Seq(Replies(nextPlanId)) /\ Len(Tail(outbox[Driver])) = 0
    BY <1>1, <1>2, <2>1, HeadTailProperties DEF Coming
  <2>2. QED
    BY <2>1, EmptySeq DEF Coming
<1>4. Served \in {0, 1} /\ (Served = 0 <=> pc[Driver] = "idle")
      /\ Calls \in {0, 1} /\ (Calls = 0 <=> ~calling)
  BY DEF Served, Calls, DepIInv, ProcessesTyped
<1>5. Asked + Coming + Served <= Calls
  BY DEF DepIInv, OneCall
<1>6. QED
  BY <1>2, <1>3, <1>4, <1>5

\* No drop is under way until A is killed, nor once A's is over.
LEMMA Quietness ==
  ASSUME DriverIInv, step \in First \/ (settled /\ step \in Third)
  PROVE  /\ \A t \in Threads : link[t] \notin DropSteps
         /\ step \in First => liveFenced = {}
<1> USE DEF DriverIInv, DriverFacts, Announced, Fences
<1>1. step # "start" /\ (step \in First => step \in Early)
  BY DEF First, Third, Early
<1>2. worker["B"] = "published" /\ worker["C"] # "dead"
  BY <1>1, Names
<1>3. CASE step \in First
  <2>1. worker["A"] # "dead" /\ worker["A2"] # "dead"
    BY <1>1, <1>3 DEF DepIInv, Connected
  <2>2. \A w \in CudaWorkers : worker[w] # "dead"
    BY <1>2, <2>1, Names
  <2>3. QED
    BY <2>2 DEF DropSteps
<1>4. CASE settled /\ step \in Third
  <2>1. \A w \in CudaWorkers : worker[w] = "dead" => w = "A"
    BY <1>2, <1>4, Names
  <2>2. link["A"] \notin DropSteps /\ "open" \notin DropSteps
    BY <1>4 DEF DropSteps
  <2>3. step \notin First
    BY <1>4 DEF First, Third
  <2>4. QED
    BY <2>1, <2>2, <2>3
<1>5. QED
  BY <1>3, <1>4
-----------------------------------------------------------------------------
(* Steps that leave a side alone.                                          *)

\* What the driver's side of the invariant looks at.
DriverSide == <<pc[Driver], job[Driver], snap[Driver], vetted[Driver], allowed[Driver],
                inbox[Driver], outbox[Driver], plans, nextPlanId, liveFenced, execGrants,
                step, held, verdict, settled, launched>>

\* The driver's side does not depend on anything else.
LEMMA DriverSideKept ==
  ASSUME DriverIInv, UNCHANGED DriverSide
  PROVE  OwnCall' /\ Sight' /\ PlansGoOn' /\ Promises' /\ Outcome'
<1> USE DEF DriverIInv, DriverFacts, DriverSide
<1>1. PlanIds' = PlanIds /\ Script' = Script /\ Phase' = Phase
  BY DEF PlanIds, Script, Phase
<1>2. OwnCall'
  BY <1>1 DEF OwnCall
<1>3. Sight'
  BY DEF Sight
<1>4. PlansGoOn'
  BY <1>1 DEF PlansGoOn, Undisturbed
<1>5. Promises'
  BY <1>1 DEF Promises, Promise
<1>6. Outcome'
  BY DEF Outcome
<1>7. QED
  BY <1>2, <1>3, <1>4, <1>5, <1>6

\* Of the workers' side: the frames of worker w, and the rest.
LEMMA WorkerSideKept ==
  ASSUME DriverIInv, UNCHANGED <<worker, candidates, cancelled, step>>,
         \A w \in Workers : UNCHANGED <<pc[w], inbox[w], outbox[w], boot[w]>>
  PROVE  Announced' /\ Conversations' /\ Offered'
<1> USE DEF DriverIInv, DriverFacts
<1>1. Announced' /\ Offered'
  BY DEF Announced, Offered
<1>2. CudaWorkers \subseteq Workers /\ \A w \in Workers : Own(w)' = Own(w)
  BY DEF Workers, Own
<1>3. \A w \in CudaWorkers : Conversation(w)'
  BY <1>2 DEF Conversations, Conversation
<1>4. Conversations'
  BY <1>2, <1>3 DEF Conversations
<1>5. QED
  BY <1>1, <1>4

\* Fences and drops are as they were.
LEMMA FencesKept ==
  ASSUME DriverIInv, UNCHANGED <<link, worker, fencedWorkers, liveFenced, step, settled>>,
         \A t \in Threads : link[t] # "open" => UNCHANGED boot[t]
  PROVE  Fences'
BY DEF DriverIInv, DriverFacts, Fences

-----------------------------------------------------------------------------
(* The workers and their threads.                                          *)

\* Taking the first element of a sequence, and adding one or two.
LEMMA Ends ==
  ASSUME NEW S, NEW s \in Seq(S)
  PROVE  /\ s # <<>> => Head(s) \in S /\ Tail(s) \in Seq(S) /\ Len(Tail(s)) = Len(s) - 1
         /\ <<>> \in Seq(S)
         /\ \A e \in S : Append(s, e) \in Seq(S) /\ s \o <<e>> \in Seq(S)
         /\ \A e, f \in S : s \o <<e, f>> \in Seq(S)
<1>1. s # <<>> => Head(s) \in S /\ Tail(s) \in Seq(S) /\ Len(Tail(s)) = Len(s) - 1
  BY HeadTailProperties
<1>2. ASSUME NEW e \in S PROVE Append(s, e) \in Seq(S) /\ s \o <<e>> \in Seq(S)
  <2>1. <<e>> \in Seq(S)
    OBVIOUS
  <2>2. QED
    BY <2>1, AppendProperties, ConcatProperties
<1>3. ASSUME NEW e \in S, NEW f \in S PROVE s \o <<e, f>> \in Seq(S)
  <2>1. <<e, f>> \in Seq(S)
    OBVIOUS
  <2>2. QED
    BY <2>1, ConcatProperties
<1>4. QED
  BY <1>1, <1>2, <1>3, EmptySeq

\* A box with one frame.
LEMMA Single ==
  ASSUME NEW e
  PROVE  Head(<<e>>) = e /\ Tail(<<e>>) = <<>> /\ Len(<<e>>) = 1 /\ <<e>> # <<>>
<1>1. <<e>> \in Seq({e}) /\ Len(<<e>>) = 1
  OBVIOUS
<1>2. Tail(<<e>>) \in Seq({e}) /\ Len(Tail(<<e>>)) = 0
  BY <1>1, Ends, EmptySeq
<1>3. QED
  BY <1>1, <1>2, EmptySeq

\* The thread of a worker registers it or takes what it offers.
LEMMA WorkerReceives ==
  ASSUME DriverIInv, NEW w \in Workers, Receive(w)
  PROVE  /\ inbox[w] # <<>> /\ inbox' = [inbox EXCEPT ![w] = Tail(@)]
         /\ link[w] = "open"
         /\ \/ /\ Head(inbox[w]) = Frame("REGISTER", BootOf[w])
               /\ Register(w, BootOf[w]) /\ Answer(w, Reply("REGISTER", TRUE, 0))
            \/ /\ Head(inbox[w]) = Frame("PUBLISH", Offer(w))
               /\ ServePublish(w, Offer(w))
         /\ UNCHANGED <<worker, driverVars>>
<1>1. inbox[w] # <<>> /\ Head(inbox[w]) \in Own(w)
  BY Ends DEF Receive, DriverIInv, DriverFacts, Conversations
<1>2. /\ inbox' = [inbox EXCEPT ![w] = Tail(@)] /\ link[w] = "open"
      /\ UNCHANGED <<worker, driverVars>>
  BY DEF Receive, Ready
<1>3. CASE Head(inbox[w]) = Frame("REGISTER", BootOf[w])
  <2>1. Head(inbox[w]).type = "REGISTER" /\ Head(inbox[w]).arg = BootOf[w]
    BY <1>3 DEF Frame
  <2>2. Register(w, BootOf[w]) /\ Answer(w, Reply("REGISTER", TRUE, 0))
    BY <2>1 DEF Receive
  <2>3. QED
    BY <1>1, <1>2, <1>3, <2>2
<1>4. CASE Head(inbox[w]) = Frame("PUBLISH", Offer(w))
  <2>1. Head(inbox[w]).type = "PUBLISH" /\ Head(inbox[w]).arg = Offer(w)
    BY <1>4 DEF Frame
  <2>2. ServePublish(w, Offer(w))
    BY <2>1 DEF Receive
  <2>3. QED
    BY <1>1, <1>2, <1>4, <2>2
<1>5. QED
  BY <1>1, <1>3, <1>4 DEF Own

\* What a worker offers is taken, or refused with an ERROR.
LEMMA OfferServed ==
  ASSUME DriverIInv, NEW t \in Threads, NEW w \in Workers, ServePublish(t, Offer(w))
  PROVE  /\ candidates' \subseteq {Offer(u) : u \in Workers}
         /\ \A u \in Workers : Offer(u) \in candidates => Offer(u) \in candidates'
         /\ Offer("A2") \in candidates' => Offer("A2") \in candidates \/ w = "A2"
         /\ \E r : Answer(t, r) /\ (r.ok => Offer(w) \in candidates')
         /\ UNCHANGED <<epoch, authority, requests, plans, nextPlanId, latest, cancelled,
                        fencedWorkers, fencedSources, threadVars, external, coordVars>>
<1> USE DEF DriverIInv, DriverFacts, Offered
<1>1. \A u \in Workers : Offer(u).id = Offer(w).id => u = w
  BY Names
<1>2. CASE CanIngest(Offer(w))
  <2>1. Publish(t, Offer(w)) /\ Answer(t, Reply("PUBLISH", TRUE, 0))
    BY <1>2 DEF ServePublish
  <2>2. /\ candidates' = {d \in candidates : d.id # Offer(w).id} \cup {Offer(w)}
        /\ UNCHANGED <<epoch, authority, requests, plans, nextPlanId, latest, cancelled,
                       fencedWorkers, fencedSources, threadVars, external, coordVars>>
    BY <2>1 DEF Publish, IngestCandidate
  <2>3. Offer("A2") \in candidates' => Offer("A2") \in candidates \/ w = "A2"
    BY <1>1, <2>2, Names
  <2>4. QED
    BY <1>1, <2>1, <2>2, <2>3
<1>3. CASE ~CanIngest(Offer(w))
  <2>1. /\ UNCHANGED coVars /\ Answer(t, Reply(Refusal(Offer(w)), FALSE, 0))
        /\ ~Reply(Refusal(Offer(w)), FALSE, 0).ok
    BY <1>3 DEF ServePublish, Reply
  <2>2. QED
    BY <2>1 DEF coVars, vars, state
<1>4. QED
  BY <1>2, <1>3

\* A worker's thread serves its worker.
LEMMA WorkerReceiveStep ==
  ASSUME DriverIInv, NEW w \in Workers, Receive(w)
  PROVE  DriverFacts'
<1> USE DEF DriverIInv, DriverFacts
<1>0. w \in Threads /\ w # Driver /\ Driver \in Threads /\ CudaWorkers \subseteq Workers
      /\ Workers \subseteq Threads
  BY Clients DEF Workers
<1>1. \A u \in Threads \ {w} : UNCHANGED <<pc[u], link[u], boot[u], inbox[u], outbox[u]>>
  BY <1>0, OthersAlone
<1>2. /\ UNCHANGED <<worker, driverVars, plans, nextPlanId, cancelled, fencedWorkers, threadVars,
                     external, link, liveFenced, vetted, allowed>>
      /\ candidates' \subseteq {Offer(u) : u \in Workers}
      /\ \A u \in Workers : Offer(u) \in candidates => Offer(u) \in candidates'
      /\ Offer("A2") \in candidates' => Offer("A2") \in candidates \/ worker["A2"] # "unborn"
      /\ \E r : /\ Answer(w, r)
                /\ \/ Head(inbox[w]) = Frame("REGISTER", BootOf[w]) /\ boot'[w] = BootOf[w]
                   \/ /\ Head(inbox[w]) = Frame("PUBLISH", Offer(w))
                      /\ (r.ok => Offer(w) \in candidates') /\ boot'[w] = boot[w]
  <2>1. CASE /\ Head(inbox[w]) = Frame("REGISTER", BootOf[w])
             /\ Register(w, BootOf[w]) /\ Answer(w, Reply("REGISTER", TRUE, 0))
    <3>1. boot'[w] = BootOf[w]
      BY <1>0, <2>1 DEF Register, DepIInv, CoIInv, CoTypeOK
    <3>2. QED
      BY <2>1, <3>1, WorkerReceives DEF Register, vars, state, coordVars, Offered
  <2>2. CASE Head(inbox[w]) = Frame("PUBLISH", Offer(w)) /\ ServePublish(w, Offer(w))
    <3>1. w = "A2" => worker["A2"] # "unborn"
      <4>1. inbox[w] # <<>>
        BY WorkerReceives
      <4>2. QED
        BY <4>1, Names DEF Conversations, Conversation
    <3>2. QED
      BY <1>0, <2>2, <3>1, WorkerReceives, OfferServed DEF coordVars
  <2>3. QED
    BY <2>1, <2>2, WorkerReceives
<1>3. UNCHANGED DriverSide
  BY <1>0, <1>1, <1>2 DEF DriverSide, driverVars, threadVars, external
<1>4. Announced' /\ Offered'
  BY <1>2, Names DEF Announced, Offered, driverVars
<1>5. Fences'
  BY <1>1, <1>2, WorkerReceives, FencesKept DEF driverVars
<1>6. inbox'[w] = Tail(inbox[w]) /\ inbox[w] # <<>>
  BY <1>0, WorkerReceives DEF DepIInv, FramesTyped
<1>7. \A u \in Workers : pc'[u] = "idle" /\ inbox'[u] \in Seq(Own(u))
  <2>1. pc' = pc /\ Tail(inbox[w]) \in Seq(Own(w))
    BY <1>2, <1>6, Ends DEF Conversations, threadVars
  <2>2. QED
    BY <1>0, <1>1, <1>6, <2>1 DEF Conversations
<1>8. \A u \in CudaWorkers : u # w => Conversation(u)'
  BY <1>0, <1>1, <1>2 DEF Conversations, Conversation
<1>9. ASSUME w \in CudaWorkers PROVE Conversation(w)'
  <2>1. PICK r : /\ Answer(w, r)
                 /\ \/ Head(inbox[w]) = Frame("REGISTER", BootOf[w]) /\ boot'[w] = BootOf[w]
                    \/ /\ Head(inbox[w]) = Frame("PUBLISH", Offer(w))
                       /\ (r.ok => Offer(w) \in candidates') /\ boot'[w] = boot[w]
    BY <1>2
  <2>2. Conversation(w) /\ worker' = worker
    BY <1>2, <1>9 DEF Conversations
  <2>3. worker[w] \in {"registering", "publishing"} /\ outbox[w] = <<>>
    BY <1>6, <2>2, <1>9, Names DEF Conversation, DepIInv, ProcessesTyped
  <2>4. outbox'[w] = Append(<<>>, r)
    BY <1>0, <2>1, <2>3 DEF Answer, DepIInv, FramesTyped
  <2>5. Len(outbox'[w]) = 1 /\ Head(outbox'[w]) = r
    BY <2>4
  <2>6. CASE worker[w] = "registering"
    <3>1. inbox[w] = <<Frame("REGISTER", BootOf[w])>> /\ inbox'[w] = <<>>
      BY <1>6, <2>2, <2>6, Single DEF Conversation
    <3>2. boot'[w] = BootOf[w]
      BY <2>1, <3>1 DEF Frame
    <3>3. QED
      BY <2>2, <2>5, <2>6, <3>1, <3>2 DEF Conversation
  <2>7. CASE worker[w] = "publishing"
    <3>1. inbox[w] = <<Frame("PUBLISH", Offer(w))>> /\ inbox'[w] = <<>> /\ boot[w] = BootOf[w]
      BY <1>6, <2>2, <2>7, Single DEF Conversation
    <3>2. boot'[w] = BootOf[w] /\ (r.ok => Offer(w) \in candidates')
      BY <2>1, <3>1 DEF Frame
    <3>3. QED
      BY <2>2, <2>5, <2>7, <3>1, <3>2 DEF Conversation
  <2>8. QED
    BY <2>3, <2>6, <2>7
<1>10. Conversations'
  <2>1. \A u \in Workers : Own(u)' = Own(u)
    BY DEF Own
  <2>2. QED
    BY <1>7, <1>8, <1>9, <2>1 DEF Conversations
<1>11. QED
  BY <1>3, <1>4, <1>5, <1>10, DriverSideKept

\* A worker's process moves on.
LEMMA WorkerStep ==
  ASSUME DriverIInv, NEW w \in Workers,
         Connect(w) \/ (w \in CudaWorkers /\ CudaStep(w)) \/ (w = Hasty /\ HastyWorker)
  PROVE  DriverFacts'
<1> USE DEF DriverIInv, DriverFacts
<1>0. w \in Threads /\ w # Driver /\ Driver \in Threads /\ CudaWorkers \subseteq Workers
      /\ Workers \subseteq Threads /\ worker \in [Workers -> {"unborn", "started", "connected",
           "registering", "publishing", "published", "dead"}]
      /\ \A u \in Workers : inbox[u] \in Seq(Own(u)) /\ pc[u] = "idle"
      /\ inbox \in [Threads -> Seq(Frames)] /\ outbox \in [Threads -> Seq(Replies(nextPlanId))]
  BY Clients DEF Workers, DepIInv, ProcessesTyped, FramesTyped, Conversations
<1>1. /\ UNCHANGED <<coVars, driverVars>>
      /\ \A u \in Threads \ {w} : UNCHANGED <<inbox[u], outbox[u]>>
      /\ \A u \in Workers \ {w} : worker'[u] = worker[u]
      /\ worker'[w] = "dead" => w # Hasty
      /\ worker[w] \notin {"published", "dead"} /\ worker'[w] # "unborn"
  <2>1. UNCHANGED <<coVars, driverVars>>
    BY DEF Connect, CudaStep, CudaRegisters, CudaPublishes, CudaAnnounces, HastyWorker
  <2>2. \A u \in Threads \ {w} : UNCHANGED <<inbox[u], outbox[u]>>
    BY <1>0 DEF Connect, CudaStep, CudaRegisters, CudaPublishes, CudaAnnounces, HastyWorker,
       Post, TakeReply
  <2>3. /\ worker[w] \in {"started", "connected", "registering", "publishing"}
        /\ \E v \in {"connected", "registering", "publishing", "published", "dead"} :
             /\ worker' = [worker EXCEPT ![w] = v]
             /\ v = "dead" => w \in CudaWorkers
    BY DEF Connect, CudaStep, CudaRegisters, CudaPublishes, CudaAnnounces, HastyWorker
  <2>4. Hasty \notin CudaWorkers
    BY Names
  <2>5. QED
    BY <1>0, <2>1, <2>2, <2>3, <2>4
<1>2. UNCHANGED <<pc, job, snap, vetted, allowed, plans, nextPlanId, liveFenced, execGrants,
                  step, held, verdict, settled, launched, boot, candidates, cancelled, link,
                  fencedWorkers>>
  BY <1>1 DEF coVars, coordVars, vars, state, threadVars, external, driverVars
<1>3. UNCHANGED DriverSide
  BY <1>0, <1>1, <1>2 DEF DriverSide
<1>4. Announced'
  BY SMTT(30), <1>0, <1>1, <1>2, Names DEF Announced
<1>5. Offered'
  <2>1. worker'["A2"] = "unborn" => worker["A2"] = "unborn"
    <3>1. "A2" \in Workers
      BY Names
    <3>2. QED
      BY <1>1, <3>1
  <2>2. QED
    BY <1>2, <2>1 DEF Offered
<1>6. Fences'
  <2>1. \A u \in CudaWorkers : worker[u] = "dead" => worker'[u] = "dead"
    BY <1>0, <1>1
  <2>3. QED
    BY <1>2, <2>1 DEF Fences
<1>7. inbox'[w] \in Seq(Own(w)) /\ (w \in CudaWorkers => Conversation(w)')
  <2>1. Frame("REGISTER", BootOf[w]) \in Own(w) /\ Frame("PUBLISH", Offer(w)) \in Own(w)
    BY DEF Own
  <2>2. w \in CudaWorkers => Conversation(w)
    BY DEF Conversations
  <2>3. CASE Connect(w)
    BY <1>0, <1>1, <1>2, <2>2, <2>3 DEF Connect, Conversation
  <2>4. CASE w \in CudaWorkers /\ CudaRegisters(w)
    <3>1. inbox[w] = <<>> /\ outbox'[w] = <<>> /\ worker'[w] = "registering"
      BY <1>0, <2>2, <2>4 DEF CudaRegisters, Conversation
    <3>2. inbox'[w] = <<>> \o <<Frame("REGISTER", BootOf[w])>>
      BY <1>0, <2>4, <3>1 DEF CudaRegisters, Post
    <3>3. inbox'[w] = <<Frame("REGISTER", BootOf[w])>>
      BY <3>2
    <3>4. QED
      BY <2>1, <3>1, <3>3 DEF Conversation
  <2>5. CASE w \in CudaWorkers /\ CudaPublishes(w)
    <3>1. inbox[w] = <<>> /\ Len(outbox[w]) = 1 /\ boot[w] = BootOf[w] /\ worker'[w] = "publishing"
      BY <1>0, <2>2, <2>5 DEF CudaPublishes, TakeReply, Conversation
    <3>2. inbox'[w] = <<>> \o <<Frame("PUBLISH", Offer(w))>> /\ outbox'[w] = Tail(outbox[w])
      BY <1>0, <2>5, <3>1 DEF CudaPublishes, TakeReply, Post
    <3>3. Len(Tail(outbox[w])) = 0 /\ Tail(outbox[w]) \in Seq(Replies(nextPlanId))
      BY <1>0, <2>5, <3>1, Ends DEF CudaPublishes, TakeReply
    <3>4. inbox'[w] = <<Frame("PUBLISH", Offer(w))>> /\ outbox'[w] = <<>>
      <4>1. inbox'[w] = <<Frame("PUBLISH", Offer(w))>>
        BY <3>2
      <4>2. outbox'[w] = <<>>
        BY <3>2, <3>3, EmptySeq
      <4>3. QED
        BY <4>1, <4>2
    <3>5. QED
      BY <1>2, <2>1, <3>1, <3>4 DEF Conversation
  <2>6. CASE w \in CudaWorkers /\ CudaAnnounces(w)
    BY <1>0, <1>2, <2>2, <2>6 DEF CudaAnnounces, TakeReply, Conversation
  <2>7. CASE w = Hasty /\ HastyWorker
    <3>1. inbox'[w] = inbox[w] \o <<Frame("REGISTER", BootOf[w]), Frame("PUBLISH", Offer(w))>>
      BY <1>0, <2>7 DEF HastyWorker, Post
    <3>2. inbox'[w] \in Seq(Own(w))
      BY <1>0, <2>1, <3>1, Ends
    <3>3. QED
      BY <2>7, <3>2, Names
  <2>8. QED
    BY <1>0, <2>3, <2>4, <2>5, <2>6, <2>7 DEF CudaStep
<1>8. Conversations'
  <2>1. \A u \in Workers : Own(u)' = Own(u)
    BY DEF Own
  <2>2. \A u \in CudaWorkers : u # w => Conversation(u)'
    BY <1>0, <1>1, <1>2 DEF Conversations, Conversation
  <2>3. QED
    BY <1>0, <1>1, <1>2, <1>7, <2>1, <2>2 DEF Conversations
<1>9. QED
  BY <1>3, <1>4, <1>5, <1>6, <1>8, DriverSideKept

-----------------------------------------------------------------------------
(* The end of a connection.                                                *)

\* A connection ends when its worker is dead.
LEMMA PeerGoneStep ==
  ASSUME DriverIInv, NEW t \in Threads, PeerGone(t)
  PROVE  DriverFacts'
<1> USE DEF DriverIInv, DriverFacts
<1>1. /\ t \in Workers /\ worker[t] = "dead" /\ t # Hasty /\ link[t] = "open"
      /\ UNCHANGED <<vars, boot, liveFenced, vetted, allowed, processVars, driverVars>>
      /\ link' = [link EXCEPT ![t] = "closed"] \/ link' = [link EXCEPT ![t] = "fencing"]
  BY DEF PeerGone, Drop, Ready, Announced
<1>2. UNCHANGED <<pc, job, snap, vetted, allowed, plans, nextPlanId, liveFenced, execGrants,
                  step, held, verdict, settled, launched, boot, candidates, cancelled,
                  fencedWorkers, inbox, outbox, worker>>
  BY <1>1 DEF vars, state, threadVars, external, processVars, driverVars
<1>3. t \in CudaWorkers
  BY <1>1, Names
<1>4. Fences'
  <2>1. link \in [Threads -> {"open", "closed"} \cup DropSteps]
    BY DEF DepIInv, CoIInv, CoTypeOK
  <2>2. \A u \in Threads : link'[u] # link[u] => u = t /\ link'[u] \in {"closed", "fencing"}
    BY <1>1, <2>1
  <2>3. settled => t # "A"
    BY <1>1 DEF Fences
  <2>4. link'["A"] = "closed" \/ ~settled
    BY <1>1, <2>1, <2>3, Clients, Names DEF Fences
  <2>5. QED
    BY <1>1, <1>2, <1>3, <2>2, <2>4 DEF Fences
<1>5. QED
  BY <1>2, <1>4, DriverSideKept, WorkerSideKept DEF DriverSide

\* The sections of a fence.  None comes while the driver's plans are watched.
LEMMA FenceStep ==
  ASSUME DriverIInv, NEW t \in Threads, Fence(t)
  PROVE  DriverFacts'
<1> USE DEF DriverIInv, DriverFacts
<1>0. /\ UNCHANGED <<processVars, driverVars>>
      /\ FenceBoot(t) \/ HideBoot(t) \/ ReadEpoch(t) \/ BumpEpoch(t)
      /\ link[t] \in DropSteps
  BY DEF Fence, FenceBoot, HideBoot, ReadEpoch, BumpEpoch, DropSteps
<1>1. t \in CudaWorkers /\ worker[t] = "dead" /\ boot[t] = BootOf[t] /\ ~(settled /\ t = "A")
  BY <1>0 DEF Fences, DropSteps, Conversations, Conversation
<1>2. step \notin First /\ ~(settled /\ step \in Third)
  BY <1>0, Quietness
<1>3. /\ UNCHANGED <<pc, job, snap, vetted, allowed, nextPlanId, execGrants, boot, candidates,
                     cancelled, inbox, outbox, worker, step, held, verdict, settled, launched>>
      /\ \E l \in {"hiding", "reading", "bumping", "closed"} : /\ link' = [link EXCEPT ![t] = l]
                                                               /\ l = "hiding" => FenceBoot(t)
  BY <1>0 DEF FenceBoot, FenceWorker, HideBoot, ReadEpoch, BumpEpoch, SetEpoch, vars, state,
     threadVars, external, processVars, driverVars
<1>4. Announced' /\ Conversations' /\ Offered'
  BY <1>3, WorkerSideKept
<1>5. /\ fencedWorkers' = fencedWorkers \cup {boot[t]} \/ (fencedWorkers' = fencedWorkers /\ ~FenceBoot(t))
      /\ \/ liveFenced' = liveFenced
         \/ liveFenced' = liveFenced \cup {boot[t]} /\ boot[t] \in fencedWorkers
  <2>1. CASE FenceBoot(t)
    BY <2>1 DEF FenceBoot, FenceWorker
  <2>2. CASE HideBoot(t) /\ ~FenceBoot(t)
    BY <1>0, <2>2 DEF HideBoot, Fences, vars, state
  <2>3. CASE (ReadEpoch(t) \/ BumpEpoch(t)) /\ ~FenceBoot(t)
    BY <2>3 DEF ReadEpoch, BumpEpoch, SetEpoch, vars, state
  <2>4. QED
    BY <1>0, <2>1, <2>2, <2>3
<1>6. Fences'
  <2>1. link \in [Threads -> {"open", "closed"} \cup DropSteps]
    BY DEF DepIInv, CoIInv, CoTypeOK
  <2>2. \A u \in Threads : u # t => link'[u] = link[u]
    BY <1>3, <2>1
  <2>3. link'[t] = "hiding" => boot[t] \in fencedWorkers'
    BY <1>3, <1>5, <2>1
  <2>4. settled => link'["A"] = "closed"
    BY <1>1, <2>2, Clients, Names DEF Fences
  <2>5. \A u \in Threads : link'[u] = "hiding" => boot[u] \in fencedWorkers'
    BY <1>5, <2>2, <2>3 DEF Fences
  <2>6. \A b \in liveFenced' : \E w \in CudaWorkers : worker[w] = "dead" /\ BootOf[w] = b
    BY <1>1, <1>5 DEF Fences
  <2>7. liveFenced' \subseteq fencedWorkers' /\ liveFenced \subseteq liveFenced'
    BY <1>5 DEF Fences
  <2>8. \A u \in Threads : link'[u] # "open" => u \in CudaWorkers /\ worker[u] = "dead"
    BY <1>1, <2>2 DEF Fences
  <2>9. QED
    BY <1>3, <2>4, <2>5, <2>6, <2>7, <2>8 DEF Fences
<1>7. /\ PlanIds' = PlanIds
      /\ \A p \in PlanIds : plans'[p].cand = plans[p].cand
                            /\ plans'[p].state \in {plans[p].state, "REVALIDATION_REQUIRED"}
  <2>1. PlanIds' = PlanIds
    BY <1>3 DEF PlanIds
  <2>2. CASE plans' = plans
    BY <2>1, <2>2
  <2>3. CASE BumpEpoch(t) /\ SetEpoch(seenEpoch[t] + 1)
    <3>1. ForceAll(PlanIds, "REVALIDATION_REQUIRED") /\ TypeOK
          /\ "REVALIDATION_REQUIRED" \in PlacementLifecycleState
      BY <2>3, StateNames DEF SetEpoch, DepIInv, CoIInv, IInv
    <3>2. QED
      BY <2>1, <3>1, ForceAllFacts DEF Kept
  <2>4. QED
    BY <1>0, <2>2, <2>3 DEF FenceBoot, FenceWorker, HideBoot, ReadEpoch, BumpEpoch, vars, state
<1>8. liveFenced \subseteq liveFenced'
  BY <1>5
<1>9. OwnCall'
  <2>1. Script' = Script
    BY <1>3 DEF Script
  <2>2. QED
    BY <1>3, <2>1 DEF OwnCall
<1>10. Sight'
  BY <1>3, <1>8 DEF Sight
<1>11. PlansGoOn'
  <2>1. step \notin {"commit1", "handoff1", "execute1", "kill"}
        /\ (settled => step \notin {"commit3", "handoff3", "execute3", "shutdown", "done"})
    BY <1>2 DEF First, Third
  <2>2. QED
    BY <1>3, <1>7, <2>1 DEF PlansGoOn, Undisturbed
<1>12. Promises'
  <2>1. step \notin {"submit1", "commit1", "handoff1"}
        /\ (settled => step \notin {"submit3", "commit3", "handoff3"})
    BY <1>2 DEF First, Third
  <2>2. QED
    BY <1>3, <1>7, <1>8, <2>1 DEF Promises, Promise
<1>13. Outcome'
  BY <1>3 DEF Outcome
<1>14. QED
  BY <1>4, <1>6, <1>9, <1>10, <1>11, <1>12, <1>13

-----------------------------------------------------------------------------
(* The driver's thread serves the driver.                                  *)

\* The one reply in the driver's box.
LEMMA Answered ==
  ASSUME DepIInv, outbox[Driver] = <<>>, NEW r, Answer(Driver, r)
  PROVE  outbox'[Driver] # <<>> /\ Head(outbox'[Driver]) = r
<1>1. outbox'[Driver] = Append(<<>>, r)
  BY Clients DEF Answer, DepIInv, FramesTyped
<1>2. QED
  BY <1>1

\* A live plan has lost no right: nothing is cancelled here.
LEMMA LiveIsOwned ==
  ASSUME DriverIInv, NEW p \in PlanIds, plans[p].state \in LiveStates
  PROVE  ~Disowned(p)
<1>1. LiveUnderCurrentAuthority /\ cancelled = {}
  BY DEF DriverIInv, DriverFacts, DepIInv, CoIInv, IInv, Offered
<1>2. QED
  BY <1>1 DEF LiveUnderCurrentAuthority, Disowned

\* What the driver sends at each check.
LEMMA ScriptArgs ==
  /\ DOMAIN Script = Asking
  /\ \A s \in {"submit1", "poll", "submit3"} : Script[s].type = "SUBMIT"
  /\ Script["commit1"].type = "COMMIT" /\ Script["commit1"].arg = held.p1
  /\ Script["commit3"].type = "COMMIT" /\ Script["commit3"].arg = held.p3
  /\ Script["handoff1"].type = "HANDOFF" /\ Script["handoff1"].arg = held.p1
  /\ Script["handoff3"].type = "HANDOFF" /\ Script["handoff3"].arg = held.p3
  /\ Script["stale"].type = "HANDOFF" /\ Script["stale"].arg = held.p1
  /\ Script["replay"].type = "PUBLISH" /\ Script["replay"].arg = Stale
  /\ Script["shutdown"].type = "SHUTDOWN"
BY DEF Script, Frame, Asking

\* The frame that is taken is the script's, and taking it is all that happens
\* outside the scheduler's plans, the thread and the reply.
LEMMA DriverReceives ==
  ASSUME DriverIInv, Receive(Driver)
  PROVE  /\ step \in Asking /\ Head(inbox[Driver]) = Script[step]
         /\ pc[Driver] = "idle" /\ outbox[Driver] = <<>> /\ inbox'[Driver] = <<>>
         /\ ~vetted[Driver]
         /\ UNCHANGED <<worker, driverVars, link>>
<1> USE DEF DriverIInv, DriverFacts
<1>1. inbox[Driver] # <<>> /\ inbox' = [inbox EXCEPT ![Driver] = Tail(@)]
      /\ UNCHANGED <<worker, driverVars>>
  BY DEF Receive
<1>2. inbox[Driver] = <<Script[step]>> /\ step \in Asking
  BY <1>1 DEF OwnCall
<1>3. inbox'[Driver] = <<>> /\ Head(inbox[Driver]) = Script[step]
  BY <1>1, <1>2, Clients, Single DEF DepIInv, FramesTyped
<1>4. pc[Driver] = "idle" /\ outbox[Driver] = <<>>
  BY <1>1, CallPlaces
<1>5. ~vetted[Driver]
  BY <1>4, Clients DEF DepIInv, CoIInv, VetoKept
<1>6. UNCHANGED link
  <2>1. Head(inbox[Driver]) \in Frames
    BY <1>1, Boxes, Clients DEF DepIInv, FramesTyped
  <2>2. QED
    BY <2>1 DEF Receive, Frames, Register, ServePublish, Publish, Submit, ServeCommit, CommitFrame,
       ServeHandoff, HandoffFrame, coVars, coordVars
<1>7. QED
  BY <1>1, <1>2, <1>3, <1>4, <1>5, <1>6

\* What each frame of the script begins, or is answered.
LEMMA ScriptServed ==
  ASSUME DriverIInv, Receive(Driver)
  PROVE  /\ step \in {"submit1", "poll", "submit3"} => Quiet /\ \E r \in Requests : Submit(Driver, r)
         /\ step \in {"commit1", "commit3"} =>
              \/ Quiet /\ Script[step].arg \in PlanIds /\ CommitFrame(Driver, Script[step].arg)
              \/ /\ step = "commit3" /\ ~settled
                 /\ UNCHANGED coVars /\ Answer(Driver, Reply("COMMIT_RESULT", FALSE, 0))
         /\ step \in {"handoff1", "handoff3"} =>
              \/ Quiet /\ Script[step].arg \in PlanIds /\ HandoffFrame(Driver, Script[step].arg)
              \/ /\ step = "handoff3" /\ ~settled
                 /\ UNCHANGED coVars /\ Answer(Driver, Reply("EXECUTION_RESULT", FALSE, 0))
         /\ step = "replay" => UNCHANGED coVars /\ Answer(Driver, Reply("StaleAuthority", FALSE, 0))
         /\ step = "stale" => UNCHANGED coVars /\ Answer(Driver, Reply("EXECUTION_RESULT", FALSE, 0))
         /\ step = "shutdown" => UNCHANGED coVars /\ Answer(Driver, Reply("SHUTDOWN", TRUE, 0))
<1> USE DEF DriverIInv, DriverFacts
<1>0. step \in Asking /\ Head(inbox[Driver]) = Script[step] /\ Phase = "asked"
  BY DriverReceives DEF Phase
<1> DEFINE f == Script[step]
<1>1. ASSUME step \in {"submit1", "poll", "submit3"}
      PROVE  Quiet /\ \E r \in Requests : Submit(Driver, r)
  <2>1. f.type = "SUBMIT" /\ f \in Frames
    BY <1>0, <1>1, ScriptArgs, ScriptTyped DEF DepIInv, CoIInv, IInv, TypeOK
  <2>2. f.arg \in Requests
    BY <2>1 DEF Frames
  <2>3. Quiet /\ Submit(Driver, f.arg)
    BY <1>0, <2>1 DEF Receive
  <2>4. QED
    BY <2>2, <2>3
<1>2. ASSUME step \in {"commit1", "commit3"}, step = "commit1" \/ settled
      PROVE  f.arg \in PlanIds /\ plans[f.arg].state = "PLAN_READY" /\ ~Disowned(f.arg)
  <2>1. f.arg \in PlanIds /\ plans[f.arg].state = "PLAN_READY"
    BY <1>0, <1>2, ScriptArgs DEF PlansGoOn, Undisturbed, CommitStage
  <2>2. QED
    BY <2>1, LiveIsOwned DEF LiveStates
<1>3. ASSUME step \in {"handoff1", "handoff3"}, step = "handoff1" \/ settled
      PROVE  f.arg \in PlanIds /\ plans[f.arg].state = "COMMITTED" /\ ~Disowned(f.arg)
  <2>1. f.arg \in PlanIds /\ plans[f.arg].state = "COMMITTED"
    BY <1>0, <1>3, ScriptArgs DEF PlansGoOn, Undisturbed, HandoffStage
  <2>2. QED
    BY <2>1, LiveIsOwned DEF LiveStates
<1>4. step \in {"commit1", "commit3"} => ServeCommit(Driver, f.arg)
  BY <1>0, ScriptArgs DEF Receive
<1>5. step \in {"handoff1", "handoff3", "stale"} => ServeHandoff(Driver, f.arg)
  BY <1>0, ScriptArgs DEF Receive
<1>6. step = "replay" => UNCHANGED coVars /\ Answer(Driver, Reply("StaleAuthority", FALSE, 0))
  <2>1. step = "replay" => ServePublish(Driver, Stale)
    BY <1>0, ScriptArgs DEF Receive
  <2>2. step = "replay" => ~CanIngest(Stale) /\ Refusal(Stale) = "StaleAuthority"
    BY Names DEF Fences, CanIngest, Refusal
  <2>3. QED
    BY <2>1, <2>2 DEF ServePublish
<1>7. step = "stale" => UNCHANGED coVars /\ Answer(Driver, Reply("EXECUTION_RESULT", FALSE, 0))
  <2>1. step = "stale" => plans[f.arg].state # "COMMITTED"
    BY ScriptArgs DEF PlansGoOn
  <2>2. QED
    BY <1>5, <2>1 DEF ServeHandoff
<1>8. step = "shutdown" => UNCHANGED coVars /\ Answer(Driver, Reply("SHUTDOWN", TRUE, 0))
  BY <1>0, ScriptArgs DEF Receive
<1>9. step \in {"commit1", "commit3"} =>
        \/ Quiet /\ f.arg \in PlanIds /\ CommitFrame(Driver, f.arg)
        \/ /\ step = "commit3" /\ ~settled
           /\ UNCHANGED coVars /\ Answer(Driver, Reply("COMMIT_RESULT", FALSE, 0))
  BY <1>2, <1>4 DEF ServeCommit
<1>10. step \in {"handoff1", "handoff3"} =>
        \/ Quiet /\ f.arg \in PlanIds /\ HandoffFrame(Driver, f.arg)
        \/ /\ step = "handoff3" /\ ~settled
           /\ UNCHANGED coVars /\ Answer(Driver, Reply("EXECUTION_RESULT", FALSE, 0))
  BY <1>3, <1>5 DEF ServeHandoff
<1>11. QED
  BY <1>1, <1>6, <1>7, <1>8, <1>9, <1>10

\* The driver's thread takes the frame of the script.
LEMMA DriverReceiveStep ==
  ASSUME DriverIInv, Receive(Driver)
  PROVE  DriverFacts'
<1> USE DEF DriverIInv, DriverFacts
<1>0. /\ Driver \in Threads /\ Workers \subseteq Threads /\ Driver \notin Workers
      /\ TypeOK /\ pc \in [Threads -> {"idle", "filtering"} \cup CommitSteps \cup HandoffSteps]
      /\ job \in [Threads -> 0..(nextPlanId - 1)] /\ snap \in [Threads -> SUBSET Published]
  BY Clients DEF DepIInv, CoIInv, IInv, TypeOK
<1>1. /\ step \in Asking /\ pc[Driver] = "idle" /\ outbox[Driver] = <<>> /\ inbox'[Driver] = <<>>
      /\ ~vetted[Driver] /\ link[Driver] = "open"
      /\ UNCHANGED <<worker, link, step, calling, held, misses, verdict, settled, launched>>
  BY DriverReceives DEF driverVars, Receive, Ready
<1>2. /\ UNCHANGED <<candidates, cancelled, fencedWorkers, liveFenced, vetted, execGrants,
                     nextPlanId>>
      /\ PlanIds' = PlanIds /\ Script' = Script
  <2>1. UNCHANGED <<candidates, cancelled, fencedWorkers, liveFenced, vetted, execGrants,
                    nextPlanId>>
    <3>1. CASE UNCHANGED coVars
      BY <3>1 DEF coVars, vars, state, external, coordVars
    <3>2. CASE \E r \in Requests : Submit(Driver, r)
      BY <3>2 DEF Submit, ScheduleSnapshot, state, external
    <3>3. CASE \E p \in PlanIds : CommitFrame(Driver, p) \/ HandoffFrame(Driver, p)
      BY <3>3 DEF CommitFrame, CommitBegin, HandoffFrame, HandoffBegin, external, coordVars
    <3>4. QED
      BY <1>1, <3>1, <3>2, <3>3, ScriptServed DEF Asking
  <2>2. QED
    BY <1>1, <2>1 DEF PlanIds, Script
<1>3. Announced' /\ Conversations' /\ Offered' /\ Fences'
  <2>1. \A u \in Threads \ {Driver} : UNCHANGED <<pc[u], inbox[u], outbox[u], boot[u]>>
    BY <1>0, OthersAlone
  <2>2. \A w \in Workers : UNCHANGED <<pc[w], inbox[w], outbox[w], boot[w]>>
    BY <1>0, <2>1
  <2>3. \A t \in Threads : link[t] # "open" => UNCHANGED boot[t]
    BY <1>1, <2>1
  <2>4. QED
    BY <1>1, <1>2, <2>2, <2>3, WorkerSideKept, FencesKept
<1>4. Outcome'
  BY <1>1, <1>2 DEF Outcome
<1>5. CASE /\ UNCHANGED coVars
           /\ \E r : Answer(Driver, r) /\ Promise(r)
           /\ step \in {"replay", "stale", "shutdown"} \/ (step \in {"commit3", "handoff3"} /\ ~settled)
  <2>1. UNCHANGED <<pc, job, snap, allowed, plans>>
    BY <1>5 DEF coVars, vars, state, threadVars, coordVars
  <2>2. OwnCall' /\ Sight'
    BY <1>1, <1>2, <2>1 DEF OwnCall, Sight
  <2>3. PlansGoOn'
    BY <1>1, <1>2, <1>5, <2>1 DEF PlansGoOn, Undisturbed
  <2>4. PICK r : Answer(Driver, r) /\ Promise(r)
    BY <1>5
  <2>5. Head(outbox'[Driver]) = r
    BY <1>1, <2>4, Answered
  <2>6. Promises'
    BY <1>1, <1>2, <2>1, <2>4, <2>5 DEF Promises, Promise
  <2>7. QED
    BY <1>3, <1>4, <2>2, <2>3, <2>6
<1>6. CASE Quiet /\ step \in {"submit1", "poll", "submit3"} /\ \E r \in Requests : Submit(Driver, r)
  <2>1. pc'[Driver] = "filtering" /\ snap'[Driver] = candidates /\ UNCHANGED <<plans, outbox>>
    BY <1>0, <1>6 DEF Submit, ScheduleSnapshot, GoTo, state, Quiet
  <2>2. OwnCall'
    BY <1>1, <1>6, <2>1 DEF OwnCall, CommitSteps, HandoffSteps
  <2>3. Sight'
    <3>1. step = "submit3" <=> Offer("A2") \in candidates
      <4>1. CASE step = "submit3"
        <5>1. worker["A2"] = "published" /\ "A2" \in CudaWorkers
          BY <4>1, Names DEF Announced, Third
        <5>2. QED
          BY <4>1, <5>1 DEF Conversations, Conversation
      <4>2. CASE step \in {"submit1", "poll"}
        BY <4>2 DEF DepIInv, Connected, Early, Offered
      <4>3. QED
        BY <1>6, <4>1, <4>2
    <3>2. candidates \subseteq {Offer(w) : w \in Workers} /\ {Offer("A"), Offer("B")} \subseteq candidates
      BY <1>6 DEF Offered
    <3>3. QED
      BY <1>1, <1>2, <2>1, <3>1, <3>2 DEF Sight
  <2>4. PlansGoOn' /\ Promises'
    BY <1>1, <1>2, <1>6, <2>1 DEF PlansGoOn, Undisturbed, Promises
  <2>5. QED
    BY <1>3, <1>4, <2>2, <2>3, <2>4
<1>7. CASE /\ Quiet /\ Script[step].arg \in PlanIds
           /\ \/ step \in {"commit1", "commit3"} /\ CommitFrame(Driver, Script[step].arg)
              \/ step \in {"handoff1", "handoff3"} /\ HandoffFrame(Driver, Script[step].arg)
  <2> DEFINE p == Script[step].arg
  <2>1. /\ UNCHANGED outbox /\ job'[Driver] = p /\ p \in PlanIds
        /\ p = IF step \in {"commit1", "handoff1"} THEN held.p1 ELSE held.p3
    BY <1>0, <1>7, ScriptArgs DEF Quiet, CommitFrame, CommitBegin, HandoffFrame, HandoffBegin
  <2>2. CASE step \in {"commit1", "commit3"}
    <3>1. pc'[Driver] = "committing" /\ SetState(p, "AWAITING_RESOURCE_COMMIT")
      BY <1>0, <1>7, <2>2 DEF CommitFrame, CommitBegin, GoTo
    <3>2. plans'[p].state = "AWAITING_RESOURCE_COMMIT"
      BY <1>0, <2>1, <3>1, StateNames, SetStateFacts DEF LiveStates
    <3>3. Phase' = "serving"
      BY <3>1 DEF Phase
    <3>4. OwnCall'
      BY <1>1, <1>2, <2>1, <2>2, <3>1 DEF OwnCall, CommitSteps, HandoffSteps
    <3>5. PlansGoOn'
      BY <1>1, <1>2, <2>1, <2>2, <3>1, <3>2, <3>3 DEF PlansGoOn, Undisturbed, CommitStage
    <3>6. QED
      BY <1>1, <1>2, <1>3, <1>4, <2>1, <3>1, <3>4, <3>5 DEF Sight, Promises
  <2>3. CASE step \in {"handoff1", "handoff3"}
    <3>1. pc'[Driver] = "authorizing" /\ SetState(p, "AWAITING_EXECUTION")
      BY <1>0, <1>7, <2>3 DEF HandoffFrame, HandoffBegin, GoTo
    <3>2. plans'[p].state = "AWAITING_EXECUTION"
      BY <1>0, <2>1, <3>1, StateNames, SetStateFacts DEF LiveStates
    <3>3. Phase' = "serving"
      BY <3>1 DEF Phase
    <3>4. OwnCall'
      BY <1>1, <1>2, <2>1, <2>3, <3>1 DEF OwnCall, CommitSteps, HandoffSteps
    <3>5. PlansGoOn'
      BY <1>1, <1>2, <2>1, <2>3, <3>1, <3>2, <3>3 DEF PlansGoOn, Undisturbed, HandoffStage
    <3>6. QED
      BY <1>1, <1>2, <1>3, <1>4, <2>1, <3>1, <3>4, <3>5 DEF Sight, Promises
  <2>4. QED
    BY <1>7, <2>2, <2>3
<1>8. QED
  <2>1. /\ Promise(Reply("StaleAuthority", FALSE, 0)) \/ step # "replay"
        /\ Promise(Reply("EXECUTION_RESULT", FALSE, 0)) \/ step \notin {"stale", "handoff3"} \/ settled
        /\ Promise(Reply("COMMIT_RESULT", FALSE, 0)) \/ step # "commit3" \/ settled
        /\ Promise(Reply("SHUTDOWN", TRUE, 0)) \/ step # "shutdown"
    BY DEF Promise, Reply
  <2>3. CASE step \in {"replay", "shutdown"}
    BY <1>5, <2>1, <2>3, ScriptServed
  <2>4. CASE step = "stale"
    <3>1. Promise(Reply("EXECUTION_RESULT", FALSE, 0))
      BY <2>4 DEF Promise, Reply
    <3>2. QED
      BY <1>5, <2>4, <3>1, ScriptServed
  <2>5. CASE step \in {"commit1", "commit3", "handoff1", "handoff3"}
    BY <1>5, <1>7, <2>1, <2>5, ScriptServed
  <2>6. CASE step \in {"submit1", "poll", "submit3"}
    BY <1>6, <2>6, ScriptServed
  <2>7. QED
    BY <1>1, <2>3, <2>4, <2>5, <2>6 DEF Asking

\* While the driver is served its boxes are empty, and only a call's section
\* changes anything.
LEMMA DriverWorks ==
  ASSUME DriverIInv, Work(Driver)
  PROVE  /\ pc[Driver] # "idle" /\ inbox[Driver] = <<>> /\ outbox[Driver] = <<>> /\ Phase = "serving"
         /\ step \in {"submit1", "poll", "submit3", "commit1", "commit3", "handoff1", "handoff3"}
         /\ UNCHANGED <<inbox, worker, driverVars, candidates, cancelled, fencedWorkers, liveFenced,
                        link, boot>>
<1> USE DEF DriverIInv, DriverFacts
<1>1. pc[Driver] # "idle"
  BY AnswerOrWork, Clients
<1>2. inbox[Driver] = <<>> /\ outbox[Driver] = <<>> /\ Phase = "serving"
  BY <1>1, CallPlaces DEF Phase
<1>3. step \in {"submit1", "poll", "submit3", "commit1", "commit3", "handoff1", "handoff3"}
  BY <1>1, Clients DEF OwnCall, DepIInv, CoIInv, IInv, TypeOK
<1>4. UNCHANGED <<inbox, worker, driverVars>>
  BY DEF Work
<1>5. UNCHANGED <<candidates, cancelled, fencedWorkers, liveFenced, link, boot>>
  BY DEF Work, LiveVeto, Decide, ScheduleNone, SchedulePlan, InMemoryBroker, BrokerCommit,
     CommitEnds, Commit, CommitSucceeds, CommitTooLate, CommitRelease, CommitFails,
     CurrentAuthorityExec, ExecAuthorize, ExecDeny, HandoffEnds, Handoff, HandoffStarts,
     HandoffDropped, HandoffDenied, coordVars, vars, state
<1>6. QED
  BY <1>1, <1>2, <1>3, <1>4, <1>5

\* The other side of the invariant is not concerned.
LEMMA DriverWorksAlone ==
  ASSUME DriverIInv, Work(Driver)
  PROVE  Announced' /\ Conversations' /\ Offered' /\ Fences'
<1>1. /\ UNCHANGED <<worker, candidates, cancelled, fencedWorkers, liveFenced, link, boot,
                     step, settled>>
      /\ \A w \in Workers : UNCHANGED <<pc[w], inbox[w], outbox[w], boot[w]>>
  BY DriverWorks, OthersAlone, Clients DEF driverVars, DriverIInv
<1>2. QED
  BY <1>1, WorkerSideKept, FencesKept

\* The veto hides A when it is fenced, and nobody else that matters.
LEMMA DriverVetoStep ==
  ASSUME DriverIInv, Work(Driver), LiveVeto(Driver), Quiet
  PROVE  DriverFacts'
<1> USE DEF DriverIInv, DriverFacts
<1>1. /\ UNCHANGED <<pc, job, snap, plans, nextPlanId, execGrants, outbox, inbox, liveFenced>>
      /\ UNCHANGED <<step, held, verdict, settled, launched>>
      /\ pc[Driver] = "filtering"
  BY DriverWorks DEF LiveVeto, Quiet, vars, state, threadVars, external, driverVars
<1>2. allowed'[Driver] = {c \in snap[Driver] : c.worker \notin liveFenced} /\ vetted'[Driver]
  BY Clients DEF LiveVeto, DepIInv, CoIInv, CoTypeOK
<1>3. step = "submit1" => liveFenced = {}
  BY Quietness DEF First
<1>4. step = "submit3" => 100 \in liveFenced /\ 300 \notin liveFenced
  <2>1. step = "submit3" => worker["A2"] = "published"
    BY DEF Announced, Third
  <2>2. \A w \in CudaWorkers : BootOf[w] = 300 => w = "A2"
    BY Names
  <2>3. QED
    BY <2>1, <2>2, Names DEF Fences, Third
<1>5. Offer("A").worker = 100 /\ Offer("A2").worker = 300 /\ BootOf["A"] = 100
  BY Names
<1>6. Sight'
  BY <1>1, <1>2, <1>3, <1>4, <1>5 DEF Sight
<1>7. PlanIds' = PlanIds /\ Script' = Script /\ Phase' = Phase
  BY <1>1 DEF PlanIds, Script, Phase
<1>8. OwnCall' /\ PlansGoOn' /\ Promises' /\ Outcome'
  BY <1>1, <1>7, DriverWorks DEF OwnCall, PlansGoOn, Undisturbed, Promises, Outcome
<1>9. QED
  BY <1>6, <1>8, DriverWorksAlone

\* The near worker wins unless it is hidden.
LEMMA DriverDecideStep ==
  ASSUME DriverIInv, Work(Driver), Decide(Driver),
         plans' = plans <=> Winner(allowed[Driver]) = {},
         plans' # plans => plans'[nextPlanId].cand \in Winner(allowed[Driver]),
         Answer(Driver, Reply("PLACEMENT_PLAN", plans' # plans,
                              IF plans' # plans THEN nextPlanId ELSE 0))
  PROVE  DriverFacts'
<1> USE DEF DriverIInv, DriverFacts
<1> DEFINE S == allowed[Driver]
           new == plans' # plans
           r == Reply("PLACEMENT_PLAN", new, IF new THEN nextPlanId ELSE 0)
<1>1. /\ vetted[Driver] /\ pc[Driver] = "filtering" /\ step \in {"submit1", "poll", "submit3"}
      /\ TypeOK /\ nextPlanId \in Nat
  BY Clients DEF Decide, DepIInv, CoIInv, VetoKept, IInv, TypeOK, OwnCall
<1>2. /\ pc'[Driver] = "idle" /\ ~vetted'[Driver] /\ UNCHANGED <<execGrants, inbox, liveFenced>>
      /\ UNCHANGED <<step, held, verdict, settled, launched>>
  BY Clients, DriverWorks DEF Decide, ScheduleNone, SchedulePlan, Return, external, driverVars,
     DepIInv, CoIInv, CoTypeOK, TypeOK
<1>3. new => /\ PlanIds' = PlanIds \cup {nextPlanId} /\ \A q \in PlanIds : plans'[q] = plans[q]
             /\ plans'[nextPlanId].state = "PLAN_READY"
  <2>1. ASSUME new PROVE \E w \in snap[Driver] : SchedulePlan(Driver, w)
    BY <2>1 DEF Decide, ScheduleNone, SchedulePlan
  <2>2. QED
    BY <1>1, <2>1, NewPlanFacts, Clients
<1>4. PlanIds \subseteq PlanIds' /\ \A q \in PlanIds : plans'[q] = plans[q]
  <2>1. CASE new
    BY <1>3, <2>1
  <2>2. CASE ~new
    <3>1. nextPlanId' = nextPlanId \/ nextPlanId' = nextPlanId + 1
      BY DEF Decide, ScheduleNone, SchedulePlan
    <3>2. ASSUME nextPlanId' = nextPlanId + 1 PROVE PlanIds' = 1..nextPlanId
      <4>1. nextPlanId' - 1 = nextPlanId
        BY <1>1, <3>2
      <4>2. QED
        BY <4>1 DEF PlanIds
    <3>3. PlanIds \subseteq 1..nextPlanId /\ (nextPlanId' = nextPlanId => PlanIds' = PlanIds)
      BY <1>1 DEF PlanIds
    <3>4. plans' = plans
      BY <2>2
    <3>5. QED
      BY <3>1, <3>2, <3>3, <3>4
  <2>3. QED
    BY <2>1, <2>2
<1>5. S \subseteq snap[Driver] /\ snap[Driver] \subseteq {Offer(w) : w \in Workers}
      /\ (Offer("A2") \in snap[Driver] => step = "submit3")
  BY <1>1 DEF Sight
<1>6. ASSUME step = "submit1" PROVE new /\ plans'[nextPlanId].cand = Offer("A")
  <2>1. Winner(S) = {Offer("A")}
    <3>1. Offer("A") \in S /\ Offer("A2") \notin S
      BY <1>1, <1>5, <1>6 DEF Sight
    <3>2. QED
      BY <1>5, <3>1, NearWins
  <2>2. QED
    BY <2>1
<1>7. ASSUME step = "submit3" PROVE new /\ plans'[nextPlanId].cand = Offer("A2")
  <2>1. Winner(S) = {Offer("A2")}
    <3>1. Offer("A2") \in S /\ Offer("A") \notin S
      BY <1>1, <1>7 DEF Sight
    <3>2. QED
      BY <1>5, <3>1, NearWins
  <2>2. QED
    BY <2>1
<1>8. ASSUME step = "poll", new, plans'[nextPlanId].cand.id = BootOf["B"]
      PROVE  BootOf["A"] \in liveFenced
  BY <1>1, <1>8, NearNotBeaten DEF Sight
<1>9. outbox'[Driver] # <<>> /\ Head(outbox'[Driver]) = r
  BY DriverWorks, Answered
<1>10. r.ok = new /\ (new => r.plan = nextPlanId)
  BY DEF Reply
<1>11. Promises'
  <2>1. CASE step = "submit1"
    BY <1>2, <1>3, <1>6, <1>9, <1>10, <2>1 DEF Promises, Promise
  <2>2. CASE step = "submit3"
    BY <1>2, <1>3, <1>7, <1>9, <1>10, <2>2 DEF Promises, Promise
  <2>3. CASE step = "poll"
    BY <1>2, <1>3, <1>8, <1>9, <1>10, <2>3 DEF Promises, Promise
  <2>4. QED
    BY <1>1, <2>1, <2>2, <2>3
<1>12. PlansGoOn'
  BY <1>1, <1>2, <1>4 DEF PlansGoOn, Undisturbed
<1>13. OwnCall' /\ Sight' /\ Outcome'
  BY <1>2, DriverWorks DEF OwnCall, CommitSteps, HandoffSteps, Sight, Outcome
<1>14. QED
  BY <1>11, <1>12, <1>13, DriverWorksAlone

\* The broker grants.
LEMMA DriverBrokerStep ==
  ASSUME DriverIInv, Work(Driver), InMemoryBroker(Driver), Quiet
  PROVE  DriverFacts'
<1> USE DEF DriverIInv, DriverFacts
<1>1. /\ pc[Driver] = "committing" /\ pc'[Driver] = "granted"
      /\ UNCHANGED <<job, snap, vetted, allowed, plans, nextPlanId, execGrants, outbox, inbox,
                     liveFenced>>
      /\ UNCHANGED <<step, held, verdict, settled, launched>>
  BY DriverWorks, Clients DEF InMemoryBroker, BrokerCommit, GoTo, Quiet, coordVars, state,
     driverVars, DepIInv, CoIInv, IInv, TypeOK
<1>2. PlanIds' = PlanIds /\ Script' = Script /\ Phase' = Phase
      /\ step \in {"commit1", "commit3"} /\ ~vetted[Driver]
  BY <1>1, Clients DEF PlanIds, Script, Phase, OwnCall, CommitSteps, DepIInv, CoIInv, VetoKept
<1>3. OwnCall' /\ Sight' /\ Promises' /\ Outcome'
  BY <1>1, <1>2, DriverWorks DEF OwnCall, CommitSteps, HandoffSteps, Sight, Promises, Outcome
<1>4. PlansGoOn'
  BY <1>1, <1>2 DEF PlansGoOn, Undisturbed
<1>5. QED
  BY <1>3, <1>4, DriverWorksAlone

\* Commit succeeds where nothing disturbs it.
LEMMA DriverCommitStep ==
  ASSUME DriverIInv, Work(Driver), CommitEnds(Driver),
         IF pc'[Driver] = "idle"
         THEN Answer(Driver, Reply("COMMIT_RESULT", plans'[job[Driver]].state = "COMMITTED", 0))
         ELSE Quiet
  PROVE  DriverFacts'
<1> USE DEF DriverIInv, DriverFacts
<1> DEFINE p == job[Driver]
<1>1. /\ TypeOK /\ pc[Driver] \in CommitSteps /\ p \in PlanIds /\ p = Script[step].arg
      /\ step \in {"commit1", "commit3"} /\ ~vetted[Driver] /\ Driver \in Threads
  BY Clients DEF CommitEnds, Commit, CommitSucceeds, CommitTooLate, CommitRelease, CommitFails,
     GoTo, CommitSteps, OwnCall, DepIInv, CoIInv, VetoKept, IInv, TypeOK
<1>2. /\ UNCHANGED <<vetted, nextPlanId, execGrants, inbox, liveFenced>>
      /\ UNCHANGED <<step, held, verdict, settled, launched>>
      /\ pc'[Driver] = "idle" \/ (pc'[Driver] = "releasing" /\ job' = job)
  BY <1>1, DriverWorks DEF CommitEnds, Commit, CommitSucceeds, CommitTooLate, CommitRelease,
     CommitFails, GoTo, Return, coordVars, state, external, driverVars, TypeOK
<1>3. PlanIds' = PlanIds /\ Script' = Script
  BY <1>2 DEF PlanIds, Script
<1>4. OwnCall' /\ Sight' /\ Outcome'
  BY <1>1, <1>2, <1>3, DriverWorks DEF OwnCall, CommitSteps, HandoffSteps, Sight, Outcome
<1>5. ASSUME step = "commit1" \/ settled
      PROVE  /\ pc'[Driver] = "idle" /\ plans'[p].state = "COMMITTED"
             /\ Answer(Driver, Reply("COMMIT_RESULT", TRUE, 0))
  <2>1. plans[p].state = "AWAITING_RESOURCE_COMMIT" /\ pc[Driver] = "granted"
    BY <1>1, <1>5, DriverWorks, ScriptArgs DEF PlansGoOn, Undisturbed, CommitStage, CommitEnds,
       Commit, CommitSucceeds, CommitTooLate, CommitRelease, CommitFails, GoTo
  <2>2. ~StaleCommit(p)
    BY <1>1, <2>1, LiveIsOwned DEF StaleCommit, LiveStates
  <2>3. CommitSucceeds(Driver)
    BY <2>1, <2>2 DEF CommitEnds, Commit, CommitTooLate, CommitRelease, CommitFails
  <2>4. plans'[p].state = "COMMITTED"
    BY <1>1, <2>3, CommitSucceedsFacts
  <2>5. pc' = [pc EXCEPT ![Driver] = "idle"] /\ Driver \in DOMAIN pc
    BY <1>1, <2>3 DEF CommitSucceeds, Return, TypeOK
  <2>6. QED
    BY <2>4, <2>5
<1>6. CASE step = "commit1" \/ settled
  <2>1. outbox'[Driver] # <<>> /\ Head(outbox'[Driver]) = Reply("COMMIT_RESULT", TRUE, 0)
        /\ Reply("COMMIT_RESULT", TRUE, 0).ok
    BY <1>5, <1>6, DriverWorks, Answered DEF Reply
  <2>2. Phase' = "answered"
    BY <1>5, <1>6, <2>1 DEF Phase
  <2>3. p = IF step = "commit1" THEN held.p1 ELSE held.p3
    BY <1>1, ScriptArgs
  <2>4. PlansGoOn'
    BY <1>1, <1>2, <1>3, <1>5, <1>6, <2>2, <2>3 DEF PlansGoOn, Undisturbed, CommitStage
  <2>5. Promises'
    BY <1>1, <1>2, <2>1 DEF Promises, Promise
  <2>6. QED
    BY <1>4, <2>4, <2>5, DriverWorksAlone
<1>7. CASE step = "commit3" /\ ~settled
  <2>1. PlansGoOn' /\ Promises'
    BY <1>2, <1>7 DEF PlansGoOn, Undisturbed, Promises, Promise
  <2>2. QED
    BY <1>4, <2>1, DriverWorksAlone
<1>8. QED
  BY <1>1, <1>6, <1>7

\* The execution fabric authorizes a plan of the current authority.
LEMMA DriverExecStep ==
  ASSUME DriverIInv, Work(Driver), CurrentAuthorityExec(Driver), Quiet
  PROVE  DriverFacts'
<1> USE DEF DriverIInv, DriverFacts
<1> DEFINE p == job[Driver]
<1>1. /\ TypeOK /\ pc[Driver] = "authorizing" /\ p \in PlanIds /\ p = Script[step].arg
      /\ step \in {"handoff1", "handoff3"} /\ ~vetted[Driver] /\ Driver \in Threads
  BY Clients DEF CurrentAuthorityExec, HandoffSteps, OwnCall, DepIInv, CoIInv, VetoKept, IInv, TypeOK
<1>2. /\ UNCHANGED <<job, snap, vetted, allowed, plans, nextPlanId, outbox, inbox, liveFenced>>
      /\ UNCHANGED <<step, held, verdict, settled, launched>>
      /\ execGrants \subseteq execGrants'
      /\ \/ pc'[Driver] = "authorized"
         \/ pc'[Driver] = "denied" /\ plans[p].authority # authority
  BY <1>1, DriverWorks DEF CurrentAuthorityExec, ExecAuthorize, ExecDeny, GoTo, Quiet, coordVars,
     state, external, driverVars, TypeOK
<1>3. PlanIds' = PlanIds /\ Script' = Script /\ Phase' = Phase
  BY <1>1, <1>2 DEF PlanIds, Script, Phase
<1>4. OwnCall' /\ Sight' /\ Promises' /\ Outcome'
  BY <1>1, <1>2, <1>3, DriverWorks DEF OwnCall, CommitSteps, HandoffSteps, Sight, Promises, Outcome
<1>5. step = "handoff1" \/ settled => pc'[Driver] = "authorized"
  <2>1. step = "handoff1" \/ settled => plans[p].state \in LiveStates
    BY <1>1, DriverWorks, ScriptArgs DEF PlansGoOn, Undisturbed, HandoffStage, LiveStates
  <2>2. QED
    BY <1>1, <1>2, <2>1, LiveIsOwned DEF Disowned
<1>6. PlansGoOn'
  BY <1>1, <1>2, <1>3, <1>5 DEF PlansGoOn, Undisturbed
<1>7. QED
  BY <1>4, <1>6, DriverWorksAlone

\* Handoff starts the plan where nothing disturbs it, and reports a plan that
\* is active only if it was authorized.
LEMMA DriverHandoffStep ==
  ASSUME DriverIInv, DepIInv', Work(Driver), HandoffEnds(Driver),
         Answer(Driver, Reply("EXECUTION_RESULT", plans'[job[Driver]].state = "ACTIVE", 0))
  PROVE  DriverFacts'
<1> USE DEF DriverIInv, DriverFacts
<1> DEFINE p  == job[Driver]
           ok == plans'[p].state = "ACTIVE"
<1>1. /\ TypeOK /\ pc[Driver] \in HandoffSteps /\ p \in PlanIds /\ p = Script[step].arg
      /\ step \in {"handoff1", "handoff3"} /\ ~vetted[Driver] /\ Driver \in Threads
  BY Clients DEF HandoffEnds, Handoff, HandoffStarts, HandoffDropped, HandoffDenied, HandoffSteps,
     OwnCall, DepIInv, CoIInv, VetoKept, IInv, TypeOK
<1>2. /\ UNCHANGED <<vetted, nextPlanId, execGrants, inbox, liveFenced>>
      /\ UNCHANGED <<step, held, verdict, settled, launched>>
      /\ pc'[Driver] = "idle"
  BY <1>1, DriverWorks DEF HandoffEnds, Handoff, HandoffStarts, HandoffDropped, HandoffDenied,
     Return, coordVars, state, external, driverVars, TypeOK
<1>3. PlanIds' = PlanIds /\ Script' = Script
  BY <1>2 DEF PlanIds, Script
<1>4. OwnCall' /\ Sight' /\ Outcome'
  BY <1>1, <1>2, <1>3, DriverWorks DEF OwnCall, CommitSteps, HandoffSteps, Sight, Outcome
<1>5. outbox'[Driver] # <<>> /\ Head(outbox'[Driver]) = Reply("EXECUTION_RESULT", ok, 0)
      /\ Reply("EXECUTION_RESULT", ok, 0).ok = ok
  BY DriverWorks, Answered DEF Reply
<1>6. ok => p \in execGrants'
  BY <1>1, <1>3 DEF DepIInv, CoIInv, IInv, BackedByExternalOwners
<1>7. ASSUME step = "handoff1" \/ settled PROVE ok
  <2>1. plans[p].state = "AWAITING_EXECUTION" /\ pc[Driver] = "authorized"
    BY <1>1, <1>7, DriverWorks, ScriptArgs DEF PlansGoOn, Undisturbed, HandoffStage, HandoffEnds,
       Handoff, HandoffStarts, HandoffDropped, HandoffDenied
  <2>2. ~Disowned(p) /\ MayAdvance(p, "ACTIVE")
    BY <1>1, <2>1, LiveIsOwned DEF LiveStates, MayAdvance, CanTransition, Forward
  <2>3. SetState(p, "ACTIVE")
    BY <2>1, <2>2 DEF HandoffEnds, Handoff, HandoffStarts, HandoffDropped, HandoffDenied
  <2>4. QED
    BY <1>1, <2>3, SetStateFacts, StateNames DEF LiveStates
<1>8. p = IF step = "handoff1" THEN held.p1 ELSE held.p3
  BY <1>1, ScriptArgs
<1>9. PlansGoOn'
  <2>1. Phase' = "answered"
    BY <1>2, <1>5 DEF Phase
  <2>2. QED
    BY <1>1, <1>2, <1>3, <1>7, <1>8, <2>1 DEF PlansGoOn, Undisturbed, HandoffStage
<1>10. Promises'
  BY <1>1, <1>2, <1>5, <1>6, <1>7, <1>8 DEF Promises, Promise
<1>11. QED
  BY <1>4, <1>9, <1>10, DriverWorksAlone

\* A section of the driver's call.
LEMMA DriverWorkStep ==
  ASSUME DriverIInv, DepIInv', Work(Driver)
  PROVE  DriverFacts'
<1>1. CASE LiveVeto(Driver) /\ Quiet
  BY <1>1, DriverVetoStep
<1>2. CASE /\ Decide(Driver)
           /\ plans' = plans <=> Winner(allowed[Driver]) = {}
           /\ plans' # plans => plans'[nextPlanId].cand \in Winner(allowed[Driver])
           /\ Answer(Driver, Reply("PLACEMENT_PLAN", plans' # plans,
                                   IF plans' # plans THEN nextPlanId ELSE 0))
  BY <1>2, DriverDecideStep
<1>3. CASE InMemoryBroker(Driver) /\ Quiet
  BY <1>3, DriverBrokerStep
<1>4. CASE /\ CommitEnds(Driver)
           /\ IF pc'[Driver] = "idle"
              THEN Answer(Driver, Reply("COMMIT_RESULT", plans'[job[Driver]].state = "COMMITTED", 0))
              ELSE Quiet
  BY <1>4, DriverCommitStep
<1>5. CASE CurrentAuthorityExec(Driver) /\ Quiet
  BY <1>5, DriverExecStep
<1>6. CASE /\ HandoffEnds(Driver)
           /\ Answer(Driver, Reply("EXECUTION_RESULT", plans'[job[Driver]].state = "ACTIVE", 0))
  BY <1>6, DriverHandoffStep
<1>7. QED
  BY <1>1, <1>2, <1>3, <1>4, <1>5, <1>6 DEF Work

-----------------------------------------------------------------------------
(* The driver itself.                                                      *)

\* What no step of the driver's process touches.
LEMMA DriverProcess ==
  ASSUME DriverIInv, DriverStep
  PROVE  /\ UNCHANGED coVars
         /\ UNCHANGED <<plans, nextPlanId, execGrants, liveFenced, fencedWorkers, candidates,
                        cancelled, link, boot, pc, job, snap, vetted, allowed>>
         /\ PlanIds' = PlanIds
         /\ \A w \in Workers : UNCHANGED <<pc[w], inbox[w], outbox[w], boot[w]>>
<1>1. UNCHANGED coVars
  BY DEF DriverStep, DriverWaits, DriverCalls, DriverReturns, DriverExecutes, DriverKills,
     DriverSpawns
<1>2. /\ UNCHANGED <<plans, nextPlanId, execGrants, liveFenced, fencedWorkers, candidates,
                     cancelled, link, boot, pc, job, snap, vetted, allowed>>
  BY <1>1 DEF coVars, vars, state, external, threadVars, coordVars
<1>3. \A w \in Workers : inbox'[w] = inbox[w] /\ outbox'[w] = outbox[w]
  BY Clients DEF DriverStep, DriverWaits, DriverCalls, DriverReturns, DriverExecutes, DriverKills,
     DriverSpawns, Post, TakeReply, processVars, DriverIInv, DepIInv, FramesTyped
<1>4. QED
  BY <1>1, <1>2, <1>3 DEF PlanIds

\* The driver goes on to what it waited for.
LEMMA DriverWaitsStep ==
  ASSUME DriverIInv, DriverWaits
  PROVE  DriverFacts'
<1> USE DEF DriverIInv, DriverFacts
<1>0. DriverStep
  BY DEF DriverStep
<1>1. \/ step = "start" /\ step' = "submit1" /\ worker["A"] = "published" /\ worker["B"] = "published"
      \/ step = "await" /\ step' = "submit3" /\ worker["A2"] = "published"
  BY DEF DriverWaits, After
<1>2. ~calling /\ UNCHANGED <<inbox, outbox, worker, held, verdict, settled, launched>>
  BY <1>1 DEF DriverWaits, DepIInv, ProcessesTyped, Asking, processVars
<1>3. pc[Driver] = "idle" /\ inbox[Driver] = <<>> /\ outbox[Driver] = <<>>
  BY <1>2, CallPlaces
<1>4. Announced' /\ Conversations' /\ Offered' /\ Fences'
  <2>1. Announced'
    BY <1>1, <1>2 DEF Announced, First, Third
  <2>2. Offered' /\ Conversations'
    BY <1>1, <1>2, <1>0, DriverProcess, Names DEF Offered, Conversations, Conversation, Own
  <2>3. Fences'
    BY <1>1, <1>2, <1>0, DriverProcess DEF Fences, Third
  <2>4. QED
    BY <2>1, <2>2, <2>3
<1>5. OwnCall' /\ Sight' /\ Promises'
  BY <1>2, <1>3, <1>0, DriverProcess, Clients DEF OwnCall, Sight, Promises, CommitSteps, HandoffSteps,
     DepIInv, CoIInv, VetoKept
<1>6. PlansGoOn' /\ Outcome'
  BY <1>1, <1>2, <1>0, DriverProcess DEF PlansGoOn, Undisturbed, Outcome, Fences, Third
<1>7. QED
  BY <1>4, <1>5, <1>6

\* The driver sends the frame of its script.
LEMMA DriverCallsStep ==
  ASSUME DriverIInv, DriverCalls
  PROVE  DriverFacts'
<1> USE DEF DriverIInv, DriverFacts
<1>0. DriverStep
  BY DEF DriverStep
<1>1. /\ step \in Asking /\ ~calling /\ UNCHANGED <<outbox, worker, step, held, verdict, launched>>
      /\ inbox' = [inbox EXCEPT ![Driver] = @ \o <<Script[step]>>]
      /\ settled' = IF step = "submit3" THEN link["A"] = "closed" ELSE settled
  BY ScriptArgs DEF DriverCalls, Post
<1>2. pc[Driver] = "idle" /\ inbox[Driver] = <<>> /\ outbox[Driver] = <<>>
  BY <1>1, CallPlaces
<1>3. inbox'[Driver] = <<Script[step]>> /\ Script' = Script
  BY <1>1, <1>2, Clients DEF DepIInv, FramesTyped, Script
<1>4. Announced' /\ Conversations' /\ Offered'
  BY <1>1, <1>0, DriverProcess, WorkerSideKept
<1>5. Fences'
  BY ZenonT(40), <1>1, <1>0, DriverProcess DEF Fences, Third
<1>6. OwnCall' /\ Sight' /\ Promises' /\ Outcome'
  <2>1. OwnCall'
    BY <1>1, <1>2, <1>3, <1>0, DriverProcess, Clients DEF OwnCall, CommitSteps, HandoffSteps
  <2>2. Sight'
    BY <1>1, <1>2, <1>3, <1>0, DriverProcess, Clients DEF Sight, DepIInv, CoIInv, VetoKept
  <2>3. Promises'
    BY <1>1, <1>2, <1>3, <1>0, DriverProcess, Clients DEF Promises
  <2>4. Outcome'
    BY <1>1, <1>0, DriverProcess DEF Outcome
  <2>5. QED
    BY <2>1, <2>2, <2>3, <2>4
<1>7. Phase = "asked" /\ Phase' = "asked"
  BY <1>1, <1>2, <1>0, DriverProcess DEF Phase
<1>8. PlansGoOn'
  BY <1>1, <1>2, <1>7, <1>0, DriverProcess DEF PlansGoOn, Undisturbed
<1>9. QED
  BY <1>4, <1>5, <1>6, <1>8

\* The driver's next check, when it is not in a call.
LEMMA DriverMovesOn ==
  ASSUME DriverIInv, DriverExecutes \/ DriverKills \/ DriverSpawns
  PROVE  /\ DriverStep /\ ~calling /\ pc[Driver] = "idle" /\ inbox[Driver] = <<>>
         /\ outbox[Driver] = <<>> /\ ~vetted[Driver]
         /\ UNCHANGED <<inbox, outbox, held, verdict, settled>>
         /\ OwnCall' /\ Sight' /\ Promises'
<1> USE DEF DriverIInv, DriverFacts
<1>1. DriverStep /\ step \notin Asking /\ UNCHANGED <<inbox, outbox, held, verdict, settled>>
  BY DEF DriverStep, DriverExecutes, DriverKills, DriverSpawns, processVars, Asking
<1>2. ~calling
  BY <1>1 DEF DepIInv, ProcessesTyped
<1>3. pc[Driver] = "idle" /\ inbox[Driver] = <<>> /\ outbox[Driver] = <<>> /\ ~vetted[Driver]
  BY <1>2, CallPlaces, Clients DEF DepIInv, CoIInv, VetoKept
<1>4. OwnCall' /\ Sight' /\ Promises'
  BY <1>1, <1>3, DriverProcess DEF OwnCall, Sight, Promises, CommitSteps, HandoffSteps
<1>5. QED
  BY <1>1, <1>2, <1>3, <1>4

\* It has a plan launched that was authorized.
LEMMA DriverExecutesStep ==
  ASSUME DriverIInv, DriverExecutes
  PROVE  DriverFacts'
<1> USE DEF DriverIInv, DriverFacts
<1>1. UNCHANGED <<worker, inbox, outbox, held, verdict, settled>>
  BY DriverMovesOn DEF DriverExecutes, processVars
<1>2. \/ step = "execute1" /\ step' = "kill" /\ launched' = launched \cup {held.p1}
      \/ step = "execute3" /\ step' = "shutdown" /\ launched' = launched \cup {held.p3}
  BY DEF DriverExecutes, After
<1>3. step = "execute1" => held.p1 \in execGrants
  <2>1. step = "execute1" => held.p1 \in PlanIds /\ plans[held.p1].state = "ACTIVE"
    BY DEF PlansGoOn, Undisturbed
  <2>2. QED
    BY <2>1 DEF DepIInv, CoIInv, IInv, BackedByExternalOwners
<1>4. Announced' /\ Conversations' /\ Offered' /\ Fences'
  <2>1. Announced'
    BY <1>1, <1>2 DEF Announced, First, Third
  <2>2. Offered' /\ Conversations'
    BY <1>1, <1>2, DriverMovesOn, DriverProcess DEF Offered, Conversations, Conversation, Own
  <2>3. Fences'
    BY <1>1, <1>2, DriverMovesOn, DriverProcess DEF Fences, Third
  <2>4. QED
    BY <2>1, <2>2, <2>3
<1>5. PlansGoOn'
  BY <1>1, <1>2, DriverMovesOn, DriverProcess DEF PlansGoOn, Undisturbed, Fences, Third
<1>6. Outcome'
  BY <1>1, <1>2, <1>3, DriverMovesOn, DriverProcess DEF Outcome
<1>7. QED
  BY <1>4, <1>5, <1>6, DriverMovesOn

\* A is killed when it has nothing more to say.
LEMMA DriverKillsStep ==
  ASSUME DriverIInv, DriverKills
  PROVE  DriverFacts'
<1> USE DEF DriverIInv, DriverFacts
<1>1. /\ step = "kill" /\ step' = "poll" /\ worker' = [worker EXCEPT !["A"] = "dead"]
      /\ UNCHANGED <<inbox, outbox, held, verdict, settled, launched>> /\ "kill" \in First
  BY DEF DriverKills, After, First
<1>2. worker' = [w \in Workers |-> IF w = "A" THEN "dead" ELSE worker[w]] /\ worker["A"] = "published"
  <2>1. worker["A"] = "published"
    BY <1>1 DEF Announced
  <2>2. worker = [w \in Workers |-> worker[w]]
    BY DEF DepIInv, ProcessesTyped
  <2>3. QED
    BY <1>1, <2>1, <2>2, Names
<1>3. Announced' /\ Conversations' /\ Offered' /\ Fences'
  <2>1. Announced'
    BY <1>1, <1>2, Names DEF Announced, First, Third
  <2>2. Offered'
    BY <1>1, <1>2, DriverMovesOn, DriverProcess, Names DEF Offered
  <2>3. ASSUME NEW w \in CudaWorkers PROVE Conversation(w)'
    BY <1>1, <1>2, DriverMovesOn, DriverProcess, Names DEF Conversations, Conversation
  <2>4. Conversations'
    BY <1>1, <2>3, DriverMovesOn, DriverProcess DEF Conversations, Own
  <2>5. Fences'
    BY <1>1, <1>2, DriverMovesOn, DriverProcess, Names DEF Fences, Third
  <2>6. QED
    BY <2>1, <2>2, <2>4, <2>5
<1>4. PlansGoOn' /\ Outcome'
  BY <1>1, DriverMovesOn, DriverProcess DEF PlansGoOn, Undisturbed, Outcome, Fences, Third
<1>5. QED
  BY <1>3, <1>4, DriverMovesOn

\* A2 is started, who was not there before.
LEMMA DriverSpawnsStep ==
  ASSUME DriverIInv, DriverSpawns
  PROVE  DriverFacts'
<1> USE DEF DriverIInv, DriverFacts
<1>1. /\ step = "spawn" /\ step' = "await" /\ worker' = [worker EXCEPT !["A2"] = "started"]
      /\ UNCHANGED <<inbox, outbox, held, verdict, settled, launched>> /\ step \in Early
  BY DEF DriverSpawns, After, Early
<1>2. worker' = [w \in Workers |-> IF w = "A2" THEN "started" ELSE worker[w]] /\ worker["A2"] = "unborn"
  <2>1. worker["A2"] = "unborn"
    BY <1>1 DEF DepIInv, Connected
  <2>2. worker = [w \in Workers |-> worker[w]]
    BY DEF DepIInv, ProcessesTyped
  <2>3. QED
    BY <1>1, <2>1, <2>2, Names
<1>3. Announced' /\ Conversations' /\ Offered' /\ Fences'
  <2>1. Announced'
    BY <1>1, <1>2, Names DEF Announced, First, Third
  <2>2. Offered'
    BY <1>1, <1>2, DriverMovesOn, DriverProcess, Names DEF Offered
  <2>3. ASSUME NEW w \in CudaWorkers PROVE Conversation(w)'
    BY <1>1, <1>2, DriverMovesOn, DriverProcess, Names DEF Conversations, Conversation
  <2>4. Conversations'
    BY <1>1, <2>3, DriverMovesOn, DriverProcess DEF Conversations, Own
  <2>5. Fences'
    BY <1>1, <1>2, DriverMovesOn, DriverProcess, Names DEF Fences, Third
  <2>6. QED
    BY <2>1, <2>2, <2>4, <2>5
<1>4. PlansGoOn' /\ Outcome'
  BY <1>1, DriverMovesOn, DriverProcess DEF PlansGoOn, Undisturbed, Outcome, Fences, Third
<1>5. QED
  BY <1>3, <1>4, DriverMovesOn

\* The reply the driver reads is its only one, and what it promises holds.
LEMMA DriverReads ==
  ASSUME DriverIInv, DriverReturns
  PROVE  /\ DriverStep /\ step \in Asking /\ outbox[Driver] # <<>> /\ outbox'[Driver] = <<>>
         /\ inbox[Driver] = <<>> /\ pc[Driver] = "idle" /\ ~vetted[Driver]
         /\ UNCHANGED <<worker, inbox, settled, launched>>
         /\ Promise(Head(outbox[Driver])) /\ Head(outbox[Driver]).ok \in BOOLEAN
         /\ Phase = "answered" /\ Phase' = "asked"
         /\ OwnCall' /\ Sight' /\ Promises'
<1> USE DEF DriverIInv, DriverFacts
<1>1. /\ DriverStep /\ calling /\ outbox[Driver] # <<>>
      /\ outbox' = [outbox EXCEPT ![Driver] = Tail(@)]
      /\ UNCHANGED <<worker, inbox, settled, launched>>
  BY DEF DriverStep, DriverReturns, TakeReply
<1>2. /\ step \in Asking /\ pc[Driver] = "idle" /\ inbox[Driver] = <<>> /\ ~vetted[Driver]
      /\ outbox'[Driver] = <<>>
  BY <1>1, CallPlaces, Clients DEF DepIInv, FramesTyped, ProcessesTyped, CoIInv, VetoKept
<1>3. Promise(Head(outbox[Driver])) /\ Head(outbox[Driver]) \in Replies(nextPlanId)
  BY <1>1, Ends, Clients DEF Promises, DepIInv, FramesTyped
<1>4. Head(outbox[Driver]).ok \in BOOLEAN
  BY <1>3 DEF Replies
<1>5. pc'[Driver] = "idle" /\ ~vetted'[Driver]
  BY <1>1, <1>2, DriverProcess
<1>6. Phase = "answered" /\ Phase' = "asked"
  BY <1>1, <1>2, <1>5 DEF Phase
<1>7. OwnCall' /\ Sight' /\ Promises'
  BY <1>1, <1>2, <1>5 DEF OwnCall, Sight, Promises, CommitSteps, HandoffSteps
<1>8. QED
  BY <1>1, <1>2, <1>3, <1>4, <1>6, <1>7

\* It found what it expected.
LEMMA DriverContent ==
  ASSUME DriverIInv, DriverReturns, Expected(Head(outbox[Driver])),
         step' = After[step],
         held' = IF step = "submit1" THEN [held EXCEPT !.p1 = Head(outbox[Driver]).plan]
                 ELSE IF step = "submit3" THEN [held EXCEPT !.p3 = Head(outbox[Driver]).plan]
                 ELSE held,
         UNCHANGED verdict
  PROVE  DriverFacts'
<1> USE DEF DriverIInv, DriverFacts
<1> DEFINE r == Head(outbox[Driver])
<1>1. UNCHANGED <<worker, inbox, settled, launched>> /\ step \in Asking /\ Promise(r)
      /\ Phase = "answered" /\ Phase' = "asked" /\ DriverStep
  BY DriverReads
<1>2. \/ (step = "submit1" /\ step' = "commit1")
      \/ (step = "commit1" /\ step' = "handoff1")
      \/ (step = "handoff1" /\ step' = "execute1")
      \/ (step = "poll" /\ step' = "replay")
      \/ (step = "replay" /\ step' = "stale")
      \/ (step = "stale" /\ step' = "spawn")
      \/ (step = "submit3" /\ step' = "commit3")
      \/ (step = "commit3" /\ step' = "handoff3")
      \/ (step = "handoff3" /\ step' = "execute3")
      \/ (step = "shutdown" /\ step' = "done")
  BY <1>1 DEF After, Asking
<1>3. /\ held'.p1 = IF step = "submit1" THEN r.plan ELSE held.p1
      /\ held'.p3 = IF step = "submit3" THEN r.plan ELSE held.p3
  BY DEF DepIInv, FramesTyped
<1>4. step = "poll" => BootOf["A"] \in liveFenced
  BY <1>1 DEF Expected, Selected, Promise
<1>5. step = "handoff3" => held.p3 \in execGrants
  BY <1>1 DEF Expected, Promise
<1>6. Announced' /\ Conversations' /\ Offered' /\ Fences'
  <2>1. Announced'
    BY <1>1, <1>2 DEF Announced, First, Third
  <2>2. Offered'
    BY <1>1, <1>2, DriverReads, DriverProcess DEF Offered
  <2>3. Conversations'
    BY <1>1, DriverReads, DriverProcess DEF Conversations, Conversation, Own, Workers
  <2>4. Fences'
    BY <1>1, <1>2, <1>4, DriverProcess DEF Fences, Third
  <2>5. QED
    BY <2>1, <2>2, <2>3, <2>4
<1>7. settled => step \in Third \cup {"failed"}
  BY DEF Fences
<1>8. Undisturbed(held.p1, "commit1", "handoff1", {"execute1", "kill"})'
  BY <1>1, <1>2, <1>3, DriverReads, DriverProcess
     DEF PlansGoOn, Undisturbed, Promise, CommitStage, HandoffStage
<1>9. step' \in {"poll", "replay", "stale"} =>
        held'.p1 \in PlanIds' /\ plans'[held'.p1].state \in {"ACTIVE", "REVALIDATION_REQUIRED"}
  BY <1>1, <1>2, <1>3, DriverProcess DEF PlansGoOn
<1>10. settled' => Undisturbed(held.p3, "commit3", "handoff3", {"execute3", "shutdown", "done"})'
  BY SMTT(20), <1>1, <1>2, <1>3, <1>7, DriverReads, DriverProcess
     DEF PlansGoOn, Undisturbed, Promise, CommitStage, HandoffStage, Third
<1>11. PlansGoOn'
  BY <1>8, <1>9, <1>10 DEF PlansGoOn
<1>12. Outcome'
  BY <1>1, <1>2, <1>3, <1>5, DriverProcess DEF Outcome
<1>13. QED
  BY <1>6, <1>11, <1>12, DriverReads

\* It did not, and asks again or gives up.
LEMMA DriverDisappointed ==
  ASSUME DriverIInv, DriverReturns, ~Expected(Head(outbox[Driver])), UNCHANGED held,
         \/ step = "poll" /\ UNCHANGED <<step, verdict>>
         \/ verdict' = step /\ step' = "failed"
  PROVE  DriverFacts'
<1> USE DEF DriverIInv, DriverFacts
<1> DEFINE r == Head(outbox[Driver])
<1>1. UNCHANGED <<worker, inbox, settled, launched>> /\ step \in Asking /\ Promise(r)
      /\ Phase = "answered" /\ Phase' = "asked" /\ DriverStep /\ r.ok \in BOOLEAN
  BY DriverReads
<1>2. step = "poll" \/ (step \in {"commit3", "handoff3"} /\ ~settled)
  <2>1. step = "submit1" => Selected(r, "A")
    BY <1>1, Names DEF Promise, Selected
  <2>2. step = "submit3" => Selected(r, "A2")
    BY <1>1, Names DEF Promise, Selected
  <2>3. QED
    BY <1>1, <2>1, <2>2 DEF Expected, Promise, Asking
<1>3. Announced' /\ Conversations' /\ Offered' /\ Fences'
  <2>1. Announced'
    BY <1>1, <1>2 DEF Announced, First, Third
  <2>2. Offered'
    BY <1>1, <1>2, DriverReads, DriverProcess DEF Offered
  <2>3. Conversations'
    BY <1>1, DriverReads, DriverProcess DEF Conversations, Conversation, Own, Workers
  <2>4. Fences'
    BY <1>1, <1>2, DriverProcess DEF Fences, Third
  <2>5. QED
    BY <2>1, <2>2, <2>3, <2>4
<1>4. PlansGoOn'
  BY <1>1, <1>2, DriverProcess DEF PlansGoOn, Undisturbed, Fences, Third
<1>5. Outcome'
  BY <1>1, <1>2, DriverProcess DEF Outcome
<1>6. QED
  BY <1>3, <1>4, <1>5, DriverReads

\* The driver reads a reply.
LEMMA DriverReturnsStep ==
  ASSUME DriverIInv, DriverReturns
  PROVE  DriverFacts'
<1> DEFINE r == Head(outbox[Driver])
<1>1. CASE /\ Expected(r) /\ step' = After[step]
           /\ held' = IF step = "submit1" THEN [held EXCEPT !.p1 = r.plan]
                      ELSE IF step = "submit3" THEN [held EXCEPT !.p3 = r.plan]
                      ELSE held
           /\ UNCHANGED verdict
  BY <1>1, DriverContent
<1>2. CASE /\ ~Expected(r) /\ UNCHANGED held
           /\ \/ step = "poll" /\ UNCHANGED <<step, verdict>>
              \/ verdict' = step /\ step' = "failed"
  BY <1>2, DriverDisappointed
<1>3. QED
  BY <1>1, <1>2 DEF DriverReturns

-----------------------------------------------------------------------------
(* The checks.                                                             *)

\* The coordinator's main thread and the head of a thread's loop.
LEMMA QuietStep ==
  ASSUME DriverIInv,
         MainStep \/ (\E t \in Threads : Loop(t) \/ StopRunning(t)) \/ UNCHANGED depVars
  PROVE  DriverFacts'
<1>1. UNCHANGED <<coVars, inbox, outbox, worker, driverVars>>
  BY DEF MainStep, MainChecks, MainAccepts, Loop, StopRunning, depVars, processVars
<1>2. /\ UNCHANGED <<pc, job, snap, vetted, allowed, plans, nextPlanId, liveFenced, execGrants,
                     candidates, cancelled, fencedWorkers, link, boot>>
      /\ UNCHANGED <<step, held, verdict, settled, launched, worker, inbox, outbox>>
  BY <1>1 DEF coVars, vars, state, external, threadVars, coordVars, driverVars
<1>3. UNCHANGED DriverSide
  BY <1>2 DEF DriverSide
<1>4. QED
  BY <1>2, <1>3, DriverSideKept, WorkerSideKept, FencesKept DEF DriverFacts

\* At the start no call was made and nobody has published.
LEMMA DriverInitial == DepInit => DriverIInv
<1> SUFFICES ASSUME DepInit PROVE DriverIInv
  OBVIOUS
<1>1. DepIInv
  BY DepInitial
<1>2. /\ worker = [w \in Workers |-> IF w = "A2" THEN "unborn" ELSE "started"] /\ step = "start"
      /\ inbox = [t \in Threads |-> <<>>] /\ outbox = [t \in Threads |-> <<>>]
      /\ verdict = "none" /\ settled = FALSE /\ launched = {} /\ calling = FALSE
  BY DEF DepInit
<1>3. /\ pc = [t \in Threads |-> "idle"] /\ candidates = {} /\ cancelled = {} /\ liveFenced = {}
      /\ link = [t \in Threads |-> "open"] /\ vetted = [t \in Threads |-> FALSE]
  BY DEF DepInit, CoInit, Init
<1>4. Announced /\ Offered /\ Fences
  BY <1>2, <1>3, Names DEF Announced, Offered, Fences, First, Third
<1>5. Conversations
  BY <1>2, <1>3, Clients, Names, EmptySeq DEF Conversations, Conversation
<1>6. OwnCall /\ Sight /\ Promises /\ Outcome
  BY <1>2, <1>3, Clients DEF OwnCall, Sight, Promises, Outcome, CommitSteps, HandoffSteps
<1>7. PlansGoOn
  BY <1>2 DEF PlansGoOn, Undisturbed
<1>8. QED
  BY <1>1, <1>4, <1>5, <1>6, <1>7 DEF DriverIInv, DriverFacts

\* Whoever takes a step, the driver's facts are kept.
LEMMA DriverStepKeeps == DriverIInv /\ [DepNext]_depVars => DriverIInv'
<1> SUFFICES ASSUME DriverIInv, [DepNext]_depVars PROVE DriverIInv'
  OBVIOUS
<1>1. DepIInv'
  BY DepStep DEF DriverIInv
<1>2. ASSUME NEW t \in Threads, ThreadStep(t) PROVE DriverFacts'
  <2>1. t \in Workers \/ t = Driver
    BY DeploymentAssumption
  <2>2. CASE Loop(t) \/ StopRunning(t)
    BY <2>2, QuietStep
  <2>3. CASE Receive(t)
    BY <2>1, <2>3, WorkerReceiveStep, DriverReceiveStep
  <2>4. CASE Work(t)
    <3>1. t = Driver
      BY <2>1, <2>4, AnswerOrWork DEF DriverIInv, DriverFacts, Conversations
    <3>2. QED
      BY <1>1, <2>4, <3>1, DriverWorkStep
  <2>5. CASE PeerGone(t)
    BY <2>5, PeerGoneStep
  <2>6. CASE Fence(t)
    BY <2>6, FenceStep
  <2>7. QED
    BY <1>2, <2>2, <2>3, <2>4, <2>5, <2>6 DEF ThreadStep
<1>3. ASSUME DriverStep PROVE DriverFacts'
  BY <1>3, DriverWaitsStep, DriverCallsStep, DriverReturnsStep, DriverExecutesStep,
     DriverKillsStep, DriverSpawnsStep DEF DriverStep
<1>4. ASSUME NEW w \in CudaWorkers, CudaStep(w) PROVE DriverFacts'
  BY <1>4, WorkerStep DEF Workers
<1>5. ASSUME HastyWorker \/ Connect(Hasty) PROVE DriverFacts'
  BY <1>5, WorkerStep DEF Workers
<1>6. DriverFacts'
  BY <1>2, <1>3, <1>4, <1>5, QuietStep DEF DepNext, Progress
<1>7. QED
  BY <1>1, <1>6 DEF DriverIInv

\* The inductive invariant behind the driver's checks.
THEOREM DriverInductive == DepSpec => []DriverIInv
<1>1. QED
  BY DriverInitial, DriverStepKeeps, PTL DEF DepSpec

\* However the driver's calls, the fence of the dead connection and the other
\* processes interleave, and however many polls it takes, the only checks that
\* can fail are the poll, and the commit or handoff of a plan that was asked
\* for before the fence was complete.
THEOREM ChecksHold == DepSpec => []DriverChecksHold
<1>1. DriverIInv => DriverChecksHold
  BY DEF DriverIInv, DriverFacts, Outcome, DriverChecksHold
<1>2. QED
  BY <1>1, DriverInductive, PTL

\* What a worker is told to launch was authorized, and is launched under the
\* current authority unless a fence was under way when its plan was made.
THEOREM LaunchedAuthorized == DepSpec => []LaunchedUnderAuthority
<1>1. ASSUME DriverIInv PROVE LaunchedUnderAuthority
  <2> USE <1>1 DEF DriverIInv, DriverFacts
  <2>1. launched \subseteq execGrants
    BY DEF Outcome
  <2>2. step = "kill" => plans[held.p1].state = "ACTIVE"
    BY DEF PlansGoOn, Undisturbed
  <2>3. step \in {"execute3", "shutdown", "done"} /\ settled =>
          held.p3 \in PlanIds /\ plans[held.p3].state = "ACTIVE"
    BY DEF PlansGoOn, Undisturbed
  <2>4. \A p \in PlanIds : plans[p].state = "ACTIVE" => plans[p].authority = authority
    BY DEF DepIInv, CoIInv, IInv, LiveUnderCurrentAuthority, LiveStates
  <2>5. QED
    BY <2>1, <2>2, <2>3, <2>4 DEF LaunchedUnderAuthority
<1>2. QED
  BY <1>1, DriverInductive, PTL

=============================================================================
