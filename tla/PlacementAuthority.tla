------------------------- MODULE PlacementAuthority -------------------------
(***************************************************************************)
(* What the scheduler promises about a plan, with no threads, no mutex and *)
(* no external owners in sight: a plan is issued under an authority, goes  *)
(* forward one phase at a time while that authority is the current one,    *)
(* and stops for good when it is withdrawn or when the authority changes.  *)
(***************************************************************************)
EXTENDS Naturals

CONSTANT Plans

VARIABLES
  current,    \* the authority now
  phase,      \* how far each plan has come
  stamp,      \* the authority each plan was issued under, 0 before that
  backing     \* the plans whose resources are committed

absVars == <<current, phase, stamp, backing>>

Phases  == {"none", "ready", "reserving", "reserved", "launching", "running",
            "stopped"}
Working == Phases \ {"none", "stopped"}

AbsInit ==
  /\ current = 1
  /\ phase = [p \in Plans |-> "none"]
  /\ stamp = [p \in Plans |-> 0]
  /\ backing = {}

AbsIssue(p) ==
  /\ phase[p] = "none"
  /\ phase' = [phase EXCEPT ![p] = "ready"]
  /\ stamp' = [stamp EXCEPT ![p] = current]
  /\ UNCHANGED <<current, backing>>

\* One phase forward, under the authority of the day.
AbsForward(p, from, to) ==
  /\ phase[p] = from
  /\ stamp[p] = current
  /\ phase' = [phase EXCEPT ![p] = to]
  /\ UNCHANGED <<current, stamp>>

AbsReserve(p) == AbsForward(p, "ready", "reserving") /\ UNCHANGED backing

AbsCommit(p) ==
  /\ AbsForward(p, "reserving", "reserved")
  /\ p \notin backing
  /\ backing' = backing \cup {p}

AbsLaunch(p) ==
  /\ p \in backing
  /\ AbsForward(p, "reserved", "launching") /\ UNCHANGED backing

AbsRun(p) ==
  /\ p \in backing
  /\ AbsForward(p, "launching", "running") /\ UNCHANGED backing

\* Cancellation, supersession, revalidation, refusal.
AbsStop(S) ==
  /\ phase' = [p \in Plans |->
                IF p \in S /\ phase[p] \in Working THEN "stopped" ELSE phase[p]]
  /\ UNCHANGED <<current, stamp, backing>>

\* A new authority stops every plan issued so far.
AbsFence ==
  /\ current' = current + 1
  /\ phase' = [p \in Plans |->
                IF phase[p] \in Working THEN "stopped" ELSE phase[p]]
  /\ UNCHANGED <<stamp, backing>>

AbsNext ==
  \/ AbsFence
  \/ \E S \in SUBSET Plans : AbsStop(S)
  \/ \E p \in Plans : \/ AbsIssue(p) \/ AbsReserve(p) \/ AbsCommit(p)
                      \/ AbsLaunch(p) \/ AbsRun(p)

AbsSpec == AbsInit /\ [][AbsNext]_absVars

=============================================================================
