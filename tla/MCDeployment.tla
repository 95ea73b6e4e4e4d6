---------------------------- MODULE MCDeployment ----------------------------
(***************************************************************************)
(* Deployment for TLC: the four workers and the driver, and at most one    *)
(* poll that still finds the dead worker selected.                         *)
(***************************************************************************)
EXTENDS Deployment

AllThreads   == Workers \cup {"driver"}
AllPublished == {Offer(w) : w \in Workers} \cup {Stale}

=============================================================================
