------------------------------- MODULE MCWire -------------------------------
(***************************************************************************)
(* Wire for TLC: an empty payload, one of the largest size and one that is *)
(* too long.                                                               *)
(***************************************************************************)
EXTENDS Wire, TLC

Sizes == 0 :> 0 @@ 1 :> 2 @@ 2 :> 3

=============================================================================
