---------------------------- MODULE FrameChannel ----------------------------
(***************************************************************************)
(* What the UART link promises the two network stacks it connects: frames  *)
(* accepted on one side come out on the other side unchanged, in order and *)
(* exactly once, and every accepted frame eventually does.                 *)
(***************************************************************************)
EXTENDS Naturals, Sequences

CONSTANT Frames

VARIABLES sent, delivered

chanVars == <<sent, delivered>>

ChanInit == sent = <<>> /\ delivered = <<>>

Send(f) == sent' = Append(sent, f) /\ UNCHANGED delivered

Deliver ==
  /\ Len(delivered) < Len(sent)
  /\ delivered' = Append(delivered, sent[Len(delivered) + 1])
  /\ UNCHANGED sent

ChanNext == (\E f \in Frames : Send(f)) \/ Deliver

(* Unchanged, in order, at most once; and, with fairness, exactly once.    *)
ChanSafe == ChanInit /\ [][ChanNext]_chanVars
ChanSpec == ChanSafe /\ WF_chanVars(Deliver)
=============================================================================
