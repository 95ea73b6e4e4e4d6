------------------------------- MODULE Channel ------------------------------
(***************************************************************************)
(* What one direction of a connection promises: the messages handled are   *)
(* the first of those sent, each once, unchanged and in order; when it has *)
(* ended nothing more comes.  How many of the last ones were lost is open. *)
(***************************************************************************)
EXTENDS Naturals, Sequences

CONSTANT Messages   \* what may be sent

VARIABLES
  sent,      \* the messages send_frame was called with
  handled,   \* the messages recv_frame returned
  ended      \* recv_frame has failed

chanVars == <<sent, handled, ended>>

Init == sent = <<>> /\ handled = <<>> /\ ended = FALSE

Send == /\ \E m \in Messages : sent' = Append(sent, m)
        /\ UNCHANGED <<handled, ended>>

Handle == /\ ~ended /\ Len(handled) < Len(sent)
          /\ handled' = Append(handled, sent[Len(handled) + 1])
          /\ UNCHANGED <<sent, ended>>

End == ~ended /\ ended' = TRUE /\ UNCHANGED <<sent, handled>>

Next == Send \/ Handle \/ End

Spec == Init /\ [][Next]_chanVars

=============================================================================
