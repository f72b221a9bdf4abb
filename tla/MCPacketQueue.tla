--------------------------- MODULE MCPacketQueue ---------------------------
(***************************************************************************)
(* A small instance of PacketQueue: packets of two sizes, a counter that   *)
(* wraps around (modulus 4 for 2^32), and at most MaxLen packets in a      *)
(* queue, the only bound.                                                  *)
(***************************************************************************)
EXTENDS PacketQueue, TLC

CONSTANTS small, large, MaxLen

MCBytes == small :> 1 @@ large :> 3

MCNext ==
  \/ \E q \in Queues, p \in Packets : Len(queue[q]) < MaxLen /\ EnQueue(q, p)
  \/ \E t \in Threads, q \in Queues : DeQueue(t, q)
  \/ \E t \in Threads, q \in Queues : CallFlush(t, q)
  \/ \E t \in Threads : InCall(t)
  \/ \E q \in Queues : Destroy(q)

MCSpec == Init /\ [][MCNext]_vars /\ \A t \in Threads : WF_vars(InCall(t))
=============================================================================
