----------------------------- MODULE Deployment -----------------------------
(***************************************************************************)
(* The processes of the reference deployment around the coordinator: its   *)
(* main thread, which accepts connections; workers that register, publish  *)
(* and are killed; and the driver of cuda_worker_death_proof.cpp, which    *)
(* places work on a worker, kills it, waits until another one wins, and    *)
(* checks that nothing of the dead worker is believed any more.            *)
(*                                                                         *)
(* A thread of Coordinator is the connection of one client here.  A        *)
(* connection carries whole frames in order (Wire shows that it does), and *)
(* the frames a client sent before it died still arrive.                   *)
(***************************************************************************)
EXTENDS Coordinator, Scenario, Sequences

CONSTANTS
  Driver,       \* the driver's connection; the others are workers'
  MaxMisses     \* bound: polls that may find the dead worker still selected

CudaWorkers == {"A", "B", "A2"}   \* cuda_worker_main
Hasty       == "C"                \* worker_main, which does not wait for replies
Workers     == CudaWorkers \cup {Hasty}

\* The boot a worker is given, which is its candidate's id too.
BootOf == [A |-> 100, B |-> 200, A2 |-> 300, C |-> 400]

\* What it publishes, and the machine that describes.
Offer(w) == [id |-> BootOf[w], gen |-> 1, worker |-> BootOf[w],
             source |-> BootOf[w] + (IF w = Hasty THEN 100000 ELSE 9000), evidence |-> 1]
Machines == { cuda_candidate(100, "A"), cuda_candidate(200, "B"),
              cuda_candidate(300, "A"), make_scenario_candidate(400, "B") }

\* The machines that can serve the driver's demand, and which of two goes
\* before the other.
Fit    == {m.id : m \in {n \in Machines : Eligible(make_request, n)}}
Ranks  == {Rank(make_request, m) : m \in Machines}
Better == {<<pair[1].id, pair[2].id>> :
             pair \in {both \in Ranks \X Ranks : Before(both[1], both[2])}}

\* The dead worker's candidate, replayed by the driver at a new generation.
Stale == [Offer("A") EXCEPT !.gen = 2, !.source = 79000]

ASSUME DeploymentAssumption ==
  /\ Threads = Workers \cup {Driver} /\ Driver \notin Workers
  /\ Published = {Offer(w) : w \in Workers} \cup {Stale}
  /\ Requests = 1..3
  /\ MaxMisses \in Nat /\ MaxPlans = MaxMisses + 3

\* What the scenario is made for: the near workers fit, and go before the far
\* ones.
ASSUME ScenarioAssumption ==
  \A near \in {BootOf["A"], BootOf["A2"]} :
    /\ near \in Fit
    /\ \A far \in {BootOf["B"], BootOf["C"]} :
         <<near, far>> \in Better /\ <<far, near>> \notin Better

VARIABLES
  conn,       \* each client's connection: none, queued, served, left; or
              \* stopping, when its thread has answered SHUTDOWN
  receiving,  \* its thread has seen running and waits in recv_frame
  inbox,      \* frames on their way to the coordinator
  outbox,     \* replies on their way back
  worker,     \* where each worker is
  step,       \* the check the driver is at
  calling,    \* it waits for a reply
  held,       \* the plan it works with
  misses,     \* polls that found A selected
  verdict,    \* the check that failed
  settled,    \* history: A's fence was complete when the driver asked again
  launched,   \* history: the plans whose EXECUTE reached a worker
  running,    \* the coordinator's flag
  main,       \* its main thread: checking, accepting, exited
  latecomers  \* history: connections made after the flag was cleared

processVars == <<conn, receiving, inbox, outbox, worker, running, main, latecomers>>
driverVars  == <<step, calling, held, misses, verdict, settled, launched>>
depVars     == <<coVars, processVars, driverVars>>

DepInit ==
  /\ CoInit
  /\ conn = [t \in Threads |-> IF t = Driver THEN "queued" ELSE "none"]
  /\ receiving = [t \in Threads |-> FALSE]
  /\ inbox = [t \in Threads |-> <<>>] /\ outbox = [t \in Threads |-> <<>>]
  /\ worker = [w \in Workers |-> IF w = "A2" THEN "unborn" ELSE "started"]
  /\ step = "start" /\ calling = FALSE
  /\ held = [p1 |-> 0, p3 |-> 0] /\ misses = 0 /\ verdict = "none" /\ settled = FALSE
  /\ launched = {}
  /\ running = TRUE /\ main = "checking" /\ latecomers = {}

Frame(type, arg) == [type |-> type, arg |-> arg]
Reply(type, ok, plan) == [type |-> type, ok |-> ok, plan |-> plan]

Answer(t, reply) == outbox' = [outbox EXCEPT ![t] = Append(@, reply)]
Quiet            == UNCHANGED outbox

-----------------------------------------------------------------------------
(* The coordinator's main thread.                                          *)

\* Defect: the flag is not looked at.
MainChecksNothing ==
  /\ main = "checking"
  /\ main' = "accepting"
  /\ UNCHANGED <<coVars, conn, receiving, inbox, outbox, worker, running,
                 latecomers, driverVars>>

MainChecks ==
  /\ main = "checking"
  /\ main' = IF running THEN "accepting" ELSE "exited"
  /\ UNCHANGED <<coVars, conn, receiving, inbox, outbox, worker, running,
                 latecomers, driverVars>>

MainAccepts ==
  /\ main = "accepting"
  /\ \E t \in Threads : conn[t] = "queued" /\ conn' = [conn EXCEPT ![t] = "served"]
  /\ main' = "checking"
  /\ UNCHANGED <<coVars, receiving, inbox, outbox, worker, running, latecomers,
                 driverVars>>

-----------------------------------------------------------------------------
(* serve_connection.  The process ends when main returns.                  *)

Serving(t) == conn[t] = "served" /\ main # "exited"

\* Defect: the flag is not looked at.
LoopForever(t) ==
  /\ Serving(t) /\ Ready(t) /\ ~receiving[t]
  /\ receiving' = [receiving EXCEPT ![t] = TRUE]
  /\ UNCHANGED <<coVars, conn, inbox, outbox, worker, running, main, latecomers,
                 driverVars>>

\* The head of the loop.  A thread that leaves here does not fence its worker.
Loop(t) ==
  /\ Serving(t) /\ Ready(t) /\ ~receiving[t]
  /\ IF running
     THEN receiving' = [receiving EXCEPT ![t] = TRUE] /\ UNCHANGED conn
     ELSE conn' = [conn EXCEPT ![t] = "left"] /\ UNCHANGED receiving
  /\ UNCHANGED <<coVars, inbox, outbox, worker, running, main, latecomers,
                 driverVars>>

CanIngest(c) ==
  /\ c.worker \notin fencedWorkers /\ c.source \notin fencedSources
  /\ \A d \in candidates : d.id = c.id => c.gen > d.gen

\* The code a refused candidate is answered with; the fences are looked at
\* first.  An ERROR frame goes by the name of its code here.
Refusal(c) == IF c.worker \in fencedWorkers \/ c.source \in fencedSources
              THEN "StaleAuthority" ELSE "InvalidArgument"

\* Defect: a candidate that is refused gets no answer.
ServePublishSilently(t, c) ==
  IF CanIngest(c) THEN Publish(t, c) /\ Answer(t, Reply("PUBLISH", TRUE, 0))
  ELSE UNCHANGED coVars /\ Quiet

ServePublish(t, c) ==
  IF CanIngest(c) THEN Publish(t, c) /\ Answer(t, Reply("PUBLISH", TRUE, 0))
  ELSE UNCHANGED coVars /\ Answer(t, Reply(Refusal(c), FALSE, 0))

ServeCommit(t, p) ==
  IF p \in PlanIds /\ plans[p].state = "PLAN_READY" /\ ~Disowned(p)
  THEN CommitFrame(t, p) /\ Quiet
  ELSE UNCHANGED coVars /\ Answer(t, Reply("COMMIT_RESULT", FALSE, 0))

ServeHandoff(t, p) ==
  IF p \in PlanIds /\ plans[p].state = "COMMITTED" /\ ~Disowned(p)
  THEN HandoffFrame(t, p) /\ Quiet
  ELSE UNCHANGED coVars /\ Answer(t, Reply("EXECUTION_RESULT", FALSE, 0))

\* A frame is taken and the call it asks for begins.  SHUTDOWN is answered; the
\* flag is cleared after that.
Receive(t) ==
  /\ Serving(t) /\ Ready(t) /\ receiving[t] /\ inbox[t] # <<>>
  /\ inbox' = [inbox EXCEPT ![t] = Tail(@)]
  /\ receiving' = [receiving EXCEPT ![t] = FALSE]
  /\ LET f == Head(inbox[t]) IN
       /\ CASE f.type = "REGISTER"  -> Register(t, f.arg) /\ Answer(t, Reply("REGISTER", TRUE, 0))
            [] f.type = "PUBLISH"   -> ServePublish(t, f.arg)
            [] f.type = "SUBMIT"    -> Submit(t, f.arg) /\ Quiet
            [] f.type = "COMMIT"    -> ServeCommit(t, f.arg)
            [] f.type = "HANDOFF"   -> ServeHandoff(t, f.arg)
            [] f.type = "SHUTDOWN"  -> UNCHANGED coVars /\ Answer(t, Reply("SHUTDOWN", TRUE, 0))
       /\ IF f.type = "SHUTDOWN"
          THEN conn' = [conn EXCEPT ![t] = "stopping"]
          ELSE UNCHANGED conn
  /\ UNCHANGED <<worker, running, main, latecomers, driverVars>>

\* The flag is cleared, and the thread returns without fencing anybody.
StopRunning(t) ==
  /\ conn[t] = "stopping" /\ main # "exited"
  /\ running' = FALSE
  /\ conn' = [conn EXCEPT ![t] = "left"]
  /\ UNCHANGED <<coVars, receiving, inbox, outbox, worker, main, latecomers, driverVars>>

\* The candidate the hard filter and the ranking pick from those the veto left.
Winner(S) ==
  LET fit == {c \in S : c.id \in Fit}
  IN {c \in fit : \A d \in fit \ {c} : <<c.id, d.id>> \in Better}

\* The sections that follow, the last of which sends the reply.
Work(t) ==
  /\ Serving(t)
  /\ \/ LiveVeto(t) /\ Quiet
     \/ /\ Decide(t)
        /\ plans' = plans <=> Winner(allowed[t]) = {}
        /\ plans' # plans => plans'[nextPlanId].cand \in Winner(allowed[t])
        /\ Answer(t, Reply("PLACEMENT_PLAN", plans' # plans,
                           IF plans' # plans THEN nextPlanId ELSE 0))
     \/ InMemoryBroker(t) /\ Quiet
     \/ /\ CommitEnds(t)
        /\ IF pc'[t] = "idle"
           THEN Answer(t, Reply("COMMIT_RESULT", plans'[job[t]].state = "COMMITTED", 0))
           ELSE Quiet
     \/ CurrentAuthorityExec(t) /\ Quiet
     \/ /\ HandoffEnds(t)
        /\ Answer(t, Reply("EXECUTION_RESULT", plans'[job[t]].state = "ACTIVE", 0))
  /\ UNCHANGED <<conn, receiving, inbox, worker, running, main, latecomers, driverVars>>

\* recv_frame fails once everything a dead client sent has been read.
PeerGone(t) ==
  /\ Serving(t) /\ receiving[t] /\ inbox[t] = <<>>
  /\ t \in Workers /\ worker[t] = "dead"
  /\ Drop(t)
  /\ UNCHANGED <<processVars, driverVars>>

Fence(t) ==
  /\ main # "exited"
  /\ FenceBoot(t) \/ HideBoot(t) \/ ReadEpoch(t) \/ BumpEpoch(t)
  /\ UNCHANGED <<processVars, driverVars>>

-----------------------------------------------------------------------------
(* Workers.                                                                *)

Post(t, frames) == inbox' = [inbox EXCEPT ![t] = @ \o frames]

Connect(w) ==
  /\ worker[w] = "started" /\ main # "exited"
  /\ conn' = [conn EXCEPT ![w] = "queued"]
  /\ worker' = [worker EXCEPT ![w] = "connected"]
  /\ latecomers' = IF running THEN latecomers ELSE latecomers \cup {w}
  /\ UNCHANGED <<coVars, receiving, inbox, outbox, running, main, driverVars>>

\* cuda_worker_main waits for the reply to each frame ...
CudaRegisters(w) ==
  /\ w \in CudaWorkers /\ worker[w] = "connected"
  /\ Post(w, <<Frame("REGISTER", BootOf[w])>>)
  /\ worker' = [worker EXCEPT ![w] = "registering"]
  /\ UNCHANGED <<coVars, conn, receiving, outbox, running, main, latecomers, driverVars>>

TakeReply(t) == /\ outbox[t] # <<>>
                /\ outbox' = [outbox EXCEPT ![t] = Tail(@)]

CudaPublishes(w) ==
  /\ w \in CudaWorkers /\ worker[w] = "registering" /\ TakeReply(w)
  /\ Post(w, <<Frame("PUBLISH", Offer(w))>>)
  /\ worker' = [worker EXCEPT ![w] = "publishing"]
  /\ UNCHANGED <<coVars, conn, receiving, running, main, latecomers, driverVars>>

\* ... and announces that it has published, or ends on an ERROR.
CudaAnnounces(w) ==
  /\ w \in CudaWorkers /\ worker[w] = "publishing" /\ TakeReply(w)
  /\ worker' = [worker EXCEPT ![w] = IF Head(outbox[w]).ok THEN "published" ELSE "dead"]
  /\ UNCHANGED <<coVars, conn, receiving, inbox, running, main, latecomers, driverVars>>

\* worker_main sends both frames and announces without having read a reply.
HastyWorker ==
  /\ worker[Hasty] = "connected"
  /\ Post(Hasty, <<Frame("REGISTER", BootOf[Hasty]), Frame("PUBLISH", Offer(Hasty))>>)
  /\ worker' = [worker EXCEPT ![Hasty] = "published"]
  /\ UNCHANGED <<coVars, conn, receiving, outbox, running, main, latecomers, driverVars>>

-----------------------------------------------------------------------------
(* The driver.                                                             *)

\* What it sends at each check.
Script ==
  [ submit1  |-> Frame("SUBMIT", 1),   commit1  |-> Frame("COMMIT", held.p1),
    handoff1 |-> Frame("HANDOFF", held.p1),
    poll     |-> Frame("SUBMIT", 2),   replay   |-> Frame("PUBLISH", Stale),
    stale    |-> Frame("HANDOFF", held.p1),
    submit3  |-> Frame("SUBMIT", 3),   commit3  |-> Frame("COMMIT", held.p3),
    handoff3 |-> Frame("HANDOFF", held.p3),
    shutdown |-> Frame("SHUTDOWN", 0) ]

\* The order of its checks.  The proof kills the coordinator at the end; it is
\* shut down here, as the multiprocess test does.
After ==
  [ submit1 |-> "commit1", commit1 |-> "handoff1", handoff1 |-> "execute1",
    execute1 |-> "kill", kill |-> "poll", poll |-> "replay", replay |-> "stale",
    stale |-> "spawn", spawn |-> "await", await |-> "submit3", submit3 |-> "commit3",
    commit3 |-> "handoff3", handoff3 |-> "execute3", execute3 |-> "shutdown",
    shutdown |-> "done", start |-> "submit1" ]

\* The workers it spawns have announced themselves.  Each opens its control
\* channel next, which the driver waits for too; that it gives up when either
\* takes longer than ten seconds is not modelled.
DriverWaits ==
  /\ \/ step = "start" /\ worker["A"] = "published" /\ worker["B"] = "published"
     \/ step = "await" /\ worker["A2"] = "published"
  /\ step' = After[step]
  /\ UNCHANGED <<coVars, processVars, calling, held, misses, verdict, settled, launched>>

DriverCalls ==
  /\ step \in DOMAIN Script /\ ~calling
  /\ Post(Driver, <<Script[step]>>)
  /\ calling' = TRUE
  /\ settled' = IF step = "submit3" THEN link["A"] = "closed" ELSE settled
  /\ UNCHANGED <<coVars, conn, receiving, outbox, worker, running, main, latecomers,
                 step, held, misses, verdict, launched>>

Selected(reply, w) == reply.ok /\ plans[reply.plan].cand.id = BootOf[w]

\* Defect: a commit or a handoff that was refused is not noticed.
ExpectedUnread(reply) ==
  CASE step = "submit1" -> Selected(reply, "A")
    [] step = "submit3" -> Selected(reply, "A2")
    [] step = "poll"    -> Selected(reply, "B")
    [] step = "replay"  -> reply.type = "StaleAuthority"
    [] OTHER            -> TRUE

\* The check it makes of the reply.
Expected(reply) ==
  CASE step = "submit1" -> Selected(reply, "A")
    [] step = "submit3" -> Selected(reply, "A2")
    [] step = "poll"    -> Selected(reply, "B")
    [] step = "replay"  -> reply.type = "StaleAuthority"
    [] step = "stale"   -> ~reply.ok
    [] OTHER            -> reply.ok

DriverReturns ==
  /\ calling /\ TakeReply(Driver)
  /\ calling' = FALSE
  /\ LET reply == Head(outbox[Driver]) IN
       \/ /\ Expected(reply)
          /\ step' = After[step]
          /\ held' = IF step = "submit1" THEN [held EXCEPT !.p1 = reply.plan]
                     ELSE IF step = "submit3" THEN [held EXCEPT !.p3 = reply.plan]
                     ELSE held
          /\ UNCHANGED <<misses, verdict>>
       \/ /\ ~Expected(reply) /\ step = "poll" /\ misses < MaxMisses
          /\ misses' = misses + 1
          /\ UNCHANGED <<step, held, verdict>>
       \/ /\ ~Expected(reply) /\ (step # "poll" \/ misses = MaxMisses)
          /\ verdict' = step /\ step' = "failed"
          /\ UNCHANGED <<held, misses>>
  /\ UNCHANGED <<coVars, conn, receiving, inbox, worker, running, main, latecomers,
                 settled, launched>>

\* EXECUTE over the control channel: the worker launches what it is told to.
DriverExecutes ==
  /\ \/ step = "execute1" /\ launched' = launched \cup {held.p1}
     \/ step = "execute3" /\ launched' = launched \cup {held.p3}
  /\ step' = After[step]
  /\ UNCHANGED <<coVars, processVars, calling, held, misses, verdict, settled>>

DriverKills ==
  /\ step = "kill"
  /\ worker' = [worker EXCEPT !["A"] = "dead"]
  /\ step' = After[step]
  /\ UNCHANGED <<coVars, conn, receiving, inbox, outbox, running, main, latecomers,
                 calling, held, misses, verdict, settled, launched>>

DriverSpawns ==
  /\ step = "spawn"
  /\ worker' = [worker EXCEPT !["A2"] = "started"]
  /\ step' = After[step]
  /\ UNCHANGED <<coVars, conn, receiving, inbox, outbox, running, main, latecomers,
                 calling, held, misses, verdict, settled, launched>>

-----------------------------------------------------------------------------
MainStep      == MainChecks \/ MainAccepts
ThreadStep(t) == \/ Loop(t) \/ Receive(t) \/ StopRunning(t) \/ Work(t)
                 \/ PeerGone(t) \/ Fence(t)
CudaStep(w)   == Connect(w) \/ CudaRegisters(w) \/ CudaPublishes(w) \/ CudaAnnounces(w)
DriverStep    == DriverWaits \/ DriverCalls \/ DriverReturns \/ DriverExecutes
                 \/ DriverKills \/ DriverSpawns

Progress == \/ MainStep \/ DriverStep \/ HastyWorker
            \/ \E t \in Threads : ThreadStep(t)
            \/ \E w \in CudaWorkers : CudaStep(w)

\* The hasty worker may be started at any time, or never.
DepNext == Progress \/ Connect(Hasty)

DepSpec == DepInit /\ [][DepNext]_depVars

\* Threads and processes are scheduled, queued connections are accepted and
\* frames delivered.  As every script is finite it is enough to say so of all
\* of them together: some process that can go on does.
DepFairSpec == DepSpec /\ WF_depVars(Progress)

-----------------------------------------------------------------------------
(* What the deployment guarantees.                                         *)

\* Types; a connection has replies or frames only once it was made, and the
\* driver has at most one call in the air.
DepTypeOK ==
  /\ CoTypeOK
  /\ conn \in [Threads -> {"none", "queued", "served", "stopping", "left"}]
  /\ receiving \in [Threads -> BOOLEAN]
  /\ worker \in [Workers -> {"unborn", "started", "connected", "registering",
                             "publishing", "published", "dead"}]
  /\ \A t \in Threads : conn[t] = "none" => inbox[t] = <<>> /\ outbox[t] = <<>>
  /\ Len(inbox[Driver]) + Len(outbox[Driver]) <= 1
  /\ held \in [{"p1", "p3"} -> 0..(nextPlanId - 1)] /\ misses \in 0..MaxMisses
  /\ running \in BOOLEAN /\ main \in {"checking", "accepting", "exited"}

\* The checks of the worker-death driver hold however its calls, the dead
\* connection's fence and the other processes interleave: the near worker is
\* selected, committed and launched; once B was seen to win, the dead boot's
\* candidate is refused and its plan cannot be launched again; and the
\* restarted worker is selected.  (fence_worker comes before the veto's set,
\* or "B won" would not imply that the replay is refused.)  What can fail is
\* the poll, when its window is over before the fence, and the commit or the
\* handoff of the fresh plan, when it was asked for before the fence was over:
\* the epoch is moved after the veto's set, and takes the fresh plan with it.
DriverChecksHold ==
  /\ verdict \in {"none", "poll", "commit3", "handoff3"}
  /\ verdict \in {"commit3", "handoff3"} => ~settled

\* What a worker is told to launch was authorized, and it is launched under
\* the authority that is current, unless a fence was still under way when the
\* driver asked for the plan: neither EXECUTE nor the worker looks again.
LaunchedUnderAuthority ==
  /\ launched \subseteq execGrants
  /\ step = "kill" => plans[held.p1].state = "ACTIVE"
  /\ step \in {"execute3", "shutdown", "done"} /\ settled =>
       plans[held.p3].state = "ACTIVE" /\ plans[held.p3].authority = authority

\* A connection made after SHUTDOWN has cleared the flag is answered nothing:
\* no worker registers and no candidate enters a coordinator that is going
\* away.  (Whoever connects between the reply to SHUTDOWN and that moment may
\* still be served.)
NobodyServedAfterShutdown ==
  \A t \in latecomers : outbox[t] = <<>> /\ boot[t] = NoBoot

\* A worker that is killed is fenced, in the scheduler and in the veto's set,
\* no drop of its boot is under way any more, and its plan is stopped, unless
\* the process ends first.
KilledWorkerFenced ==
  worker["A"] = "dead" ~>
    \/ main = "exited"
    \/ /\ BootOf["A"] \in fencedWorkers /\ FenceDone(BootOf["A"])
       /\ plans[held.p1].state \notin LiveStates

\* The driver comes to an end: no interleaving leaves it waiting for a reply
\* to a frame that was refused, or for a worker that waits for the coordinator.
DriverEnds == <>(step \in {"done", "failed"})

\* Once the flag is cleared, a connection that waits to be accepted ends the
\* process, wherever the main thread is: blocked in accept, or on its way back
\* to the flag.  (It states no more: the process may end without that
\* connection, when main has not looked at the flag since the last one.)
WaitingConnectionEndsProcess ==
  ~running /\ conn[Hasty] = "queued" ~> main = "exited"

=============================================================================
