--------------------------- MODULE MCCoordinator ----------------------------
(***************************************************************************)
(* Coordinator for TLC: one or two worker boots, each with one candidate.  *)
(***************************************************************************)
EXTENDS Coordinator, TLC

From(w) == [id |-> w, gen |-> 1, worker |-> w, source |-> "s", evidence |-> 1]

OneWorker  == {From("w1")}
TwoWorkers == {From("w1"), From("w2")}

Symmetry == Permutations(Threads)

=============================================================================
