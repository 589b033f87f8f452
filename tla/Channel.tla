------------------------------ MODULE Channel -------------------------------
(***************************************************************************)
(* What the readers and the workers of the program may assume of their     *)
(* queue, with no mutex, buffer or wait set: what is received is a prefix  *)
(* of what was sent, at most Cap items are in flight, nothing is sent once *)
(* the channel is shut, and an item that was sent is received in the end.  *)
(***************************************************************************)
EXTENDS Naturals, Sequences

CONSTANTS Items, Cap

VARIABLES sent, rcvd, open

chanVars == <<sent, rcvd, open>>

Init ==
  /\ sent = <<>>
  /\ rcvd = <<>>
  /\ open = TRUE

Send(x) ==
  /\ open
  /\ Len(sent) - Len(rcvd) < Cap
  /\ sent' = Append(sent, x)
  /\ UNCHANGED <<rcvd, open>>

Recv ==
  /\ Len(rcvd) < Len(sent)
  /\ rcvd' = Append(rcvd, sent[Len(rcvd) + 1])
  /\ UNCHANGED <<sent, open>>

Shut ==
  /\ open' = FALSE
  /\ UNCHANGED <<sent, rcvd>>

Next ==
  \/ \E x \in Items : Send(x)
  \/ Recv
  \/ Shut

SafeSpec == Init /\ [][Next]_chanVars
Spec == SafeSpec /\ WF_chanVars(Recv)
=============================================================================
