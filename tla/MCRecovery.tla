----------------------------- MODULE MCRecovery -----------------------------
(***************************************************************************)
(* Recovery for TLC: one caller, two savers, one candidate.                *)
(***************************************************************************)
EXTENDS Recovery, TLC

OneCandidate ==
  {[id |-> 1, gen |-> 1, worker |-> "w1", source |-> "s1", evidence |-> 1]}

Symmetry == Permutations(Savers)

=============================================================================
