---------------------------- MODULE MCScheduler -----------------------------
(***************************************************************************)
(* Scheduler for TLC: two callers, one request, and a worker that          *)
(* publishes one candidate.                                                *)
(***************************************************************************)
EXTENDS Scheduler, TLC

OneCandidate ==
  {[id |-> 1, gen |-> 1, worker |-> "w1", source |-> "s1", evidence |-> 1]}

=============================================================================
