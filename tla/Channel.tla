------------------------------ MODULE Channel ------------------------------
(***************************************************************************)
(* What a connection promises in one direction, whatever happens below it:   *)
(* messages arrive once, unchanged and in the order they were sent, until    *)
(* the channel is closed; what was on its way then may still arrive or not.  *)
(***************************************************************************)
EXTENDS Integers, Sequences, SequencesExt

VARIABLES sent, delivered, closed

Init == delivered = <<>> /\ ~closed

\* One call may send several messages, and may close the channel after them.
Send == ~closed /\ IsStrictPrefix(sent, sent') /\ UNCHANGED delivered

Deliver ==
  /\ Len(delivered) < Len(sent)
  /\ delivered' = Append(delivered, sent[Len(delivered) + 1])
  /\ UNCHANGED <<sent, closed>>

Close == ~closed /\ closed' /\ UNCHANGED <<sent, delivered>>

Next == Send \/ Deliver \/ Close

Spec == Init /\ [][Next]_<<sent, delivered, closed>>

\* The receiver has caught up with the sender again and again, unless the channel is
\* closed: once nothing new is sent, everything has arrived.
CatchesUp == []<>(closed \/ delivered = sent)
=============================================================================
