----------------------------- MODULE Lifecycle -----------------------------
(***************************************************************************)
(* The lifecycle of a placement plan: the states of                        *)
(* PlacementLifecycleState (placement.hpp), the terminal ones, and the     *)
(* explicit transition table of placement.cpp.  Pure definitions, used by  *)
(* every module that moves a plan.                                         *)
(***************************************************************************)

\* The pipeline, in the order a plan runs through it.
BuildStates == {"REQUESTED", "DISCOVERING", "FILTERING", "RANKING"}

\* States in which a plan claims the authority under which it was made:
\* it may still be committed, handed off, or is running.
LiveStates ==
  {"PLAN_READY", "AWAITING_RESOURCE_COMMIT", "COMMITTED",
   "AWAITING_EXECUTION", "ACTIVE"}

\* Live states reached only after the Resource Broker granted a commitment.
BackedStates == {"COMMITTED", "AWAITING_EXECUTION", "ACTIVE"}

\* is_terminal of placement.hpp and is_terminal_state of placement.cpp.
Terminal == {"SUPERSEDED", "CANCELLED", "FAILED", "RETIRED"}

PlacementLifecycleState ==
  BuildStates \cup LiveStates \cup Terminal \cup {"REVALIDATION_REQUIRED"}

\* Where the pipeline goes next, without the exits every state has.
Forward(s) ==
  CASE s = "REQUESTED"                -> {"DISCOVERING"}
    [] s = "DISCOVERING"              -> {"FILTERING"}
    [] s = "FILTERING"                -> {"RANKING"}
    [] s = "RANKING"                  -> {"PLAN_READY"}
    [] s = "PLAN_READY"               -> {"AWAITING_RESOURCE_COMMIT"}
    [] s = "AWAITING_RESOURCE_COMMIT" -> {"COMMITTED"}
    [] s = "COMMITTED"                -> {"AWAITING_EXECUTION"}
    [] s = "AWAITING_EXECUTION"       -> {"ACTIVE"}
    [] s = "ACTIVE"                   -> {"RETIRED"}
    [] s = "REVALIDATION_REQUIRED"    ->
         {"PLAN_READY", "FILTERING", "RANKING", "AWAITING_RESOURCE_COMMIT",
          "RETIRED"}
    [] s = "RETIRED"                  -> {}
    [] OTHER                          -> {"RETIRED"}

\* step / placement_can_transition: a state may keep itself; a state that is
\* not terminal has the three ways to stop, and, once past REQUESTED, the way
\* to revalidation.
CanTransition(s, to) ==
  \/ s = to
  \/ to \in Forward(s)
  \/ s \notin Terminal /\ to \in {"SUPERSEDED", "CANCELLED", "FAILED"}
  \/ s \notin Terminal \cup {"REQUESTED"} /\ to = "REVALIDATION_REQUIRED"

=============================================================================
