------------------------------- MODULE Fifo -------------------------------
(***************************************************************************)
(* What util::channel promises its users: elements come out in the order   *)
(* they went in, each exactly once, and at most Cap are inside (Cap = 0:   *)
(* no limit).                                                              *)
(***************************************************************************)
EXTENDS Integers, Sequences

CONSTANTS Cap, Elem     \* capacity, the elements

VARIABLES sent, received     \* the elements that went in and came out

Send(x) ==
  /\ Cap > 0 => Len(sent) - Len(received) < Cap
  /\ sent' = Append(sent, x)
  /\ UNCHANGED received

Receive ==
  /\ Len(received) < Len(sent)
  /\ received' = Append(received, sent[Len(received) + 1])
  /\ UNCHANGED sent

FifoInit == sent = <<>> /\ received = <<>>
FifoNext == Receive \/ \E x \in Elem : Send(x)
FifoSpec == FifoInit /\ [][FifoNext]_<<sent, received>>
=============================================================================
