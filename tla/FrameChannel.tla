----------------------------- MODULE FrameChannel -----------------------------
(***************************************************************************)
(* What a receiver's TCP connection to the server promises: the frames     *)
(* sent are handled one by one, each as it was sent, in the order sent.    *)
(***************************************************************************)
EXTENDS Sequences, Naturals

CONSTANT Frames

VARIABLES sent,     \* frames the receiver has sent
          handled   \* frames the server has handled

Init == sent = <<>> /\ handled = <<>>

Send(f) ==
  /\ sent' = Append(sent, f)
  /\ UNCHANGED handled

Handle ==
  /\ Len(handled) < Len(sent)
  /\ handled' = Append(handled, sent[Len(handled) + 1])
  /\ UNCHANGED sent

Next == (\E f \in Frames : Send(f)) \/ Handle

Spec == Init /\ [][Next]_<<sent, handled>>

=============================================================================
