--------------------------- MODULE PacketChannel ---------------------------
(***************************************************************************)
(* What a PacketQueue promises its callers, without its mutex, its         *)
(* condition variable and its byte counter: named FIFO channels.  A thread *)
(* that asks an empty channel for a packet waits; a waiting thread does    *)
(* not miss a packet that stays in the channel; once the channels are      *)
(* closed a waiting thread may be sent away without a packet.              *)
(***************************************************************************)
EXTENDS Sequences

CONSTANTS
  Queues,     \* the channels
  Threads,    \* the threads that use them
  Packets,    \* what is sent
  NoPacket    \* what a thread has that was sent away (an indeterminate value)

VARIABLES
  channel,    \* channel[q]: the packets of q, oldest first
  waiting,    \* waiting[q]: the threads waiting for a packet of q
  got,        \* got[t]: the packet t received last
  closed      \* whether some channel has been closed

vars == <<channel, waiting, got, closed>>

Init ==
  /\ channel = [q \in Queues |-> << >>]
  /\ waiting = [q \in Queues |-> {}]
  /\ got = [t \in Threads |-> NoPacket]
  /\ closed = FALSE

Send(q, p) ==
  /\ channel' = [channel EXCEPT ![q] = Append(@, p)]
  /\ UNCHANGED <<waiting, got, closed>>

Wait(t, q) ==
  /\ channel[q] = << >>
  /\ \A r \in Queues : t \notin waiting[r]
  /\ waiting' = [waiting EXCEPT ![q] = @ \cup {t}]
  /\ UNCHANGED <<channel, got, closed>>

\* t takes the oldest packet of q, to keep it (got) or to discard it (a flush).
Receive(t, q) ==
  /\ channel[q] # << >>
  /\ \A r \in Queues \ {q} : t \notin waiting[r]
  /\ channel' = [channel EXCEPT ![q] = Tail(@)]
  /\ waiting' = [waiting EXCEPT ![q] = @ \ {t}]
  /\ got' \in {got, [got EXCEPT ![t] = Head(channel[q])]}
  /\ UNCHANGED closed

Close ==
  /\ closed' = TRUE
  /\ UNCHANGED <<channel, waiting, got>>

SendAway(t, q) ==
  /\ closed
  /\ t \in waiting[q]
  /\ waiting' = [waiting EXCEPT ![q] = @ \ {t}]
  /\ got' \in {got, [got EXCEPT ![t] = NoPacket]}
  /\ UNCHANGED <<channel, closed>>

Next ==
  \/ \E q \in Queues, p \in Packets : Send(q, p)
  \/ \E q \in Queues, t \in Threads : Wait(t, q) \/ Receive(t, q) \/ SendAway(t, q)
  \/ Close

(***************************************************************************)
(* A channel that holds a packet and has a waiting thread serves one.      *)
(***************************************************************************)
Serve(q) == ~closed /\ \E t \in Threads : t \in waiting[q] /\ Receive(t, q)

Safety == Init /\ [][Next]_vars

Spec == Safety /\ \A q \in Queues : WF_vars(Serve(q))
=============================================================================
