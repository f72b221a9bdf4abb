---------------------------- MODULE PacketQueue ----------------------------
(***************************************************************************)
(* The PacketQueue objects of the player (packetqueue.h, packetqueue.cpp): *)
(* a std::queue<AVPacket>, the number of bytes in it, a QMutex and a       *)
(* QWaitCondition.  Every member function but queueFlush holds the mutex   *)
(* from its first line to its return, so that its body is one step, cut    *)
(* in two where it waits on the condition.  queueFlush does not take the   *)
(* mutex: its test queue.empty() and the deQueue it calls next are steps   *)
(* of their own.                                                           *)
(*                                                                         *)
(* QWaitCondition::wakeOne wakes any one of the threads that wait, and     *)
(* wait does not return unless it was woken; a woken thread continues when *)
(* it gets the mutex again, other threads may have come in between.        *)
(***************************************************************************)
EXTENDS Integers, Sequences, FiniteSets

CONSTANTS
  Queues,      \* the PacketQueue objects
  Threads,     \* the threads that call deQueue and queueFlush (enQueue never
               \* blocks, and its caller is not recorded)
  Packets,     \* the packets
  NoPacket,    \* an uninitialised AVPacket
  Bytes,       \* Bytes[p]: the size field of packet p
  Modulus      \* 2^32, the modulus of the uint32_t counter

Parameters ==
  /\ IsFiniteSet(Threads)
  /\ NoPacket \notin Packets
  /\ Modulus \in Nat \ {0}
  /\ Bytes \in [Packets -> Nat]

ASSUME PacketQueueAssumption == Parameters

VARIABLES
  queue,       \* queue[q]: the packets in q, oldest first
  size,        \* size[q]: the bytes q says it holds
  sleeping,    \* sleeping[q]: the threads inside q.cond.wait
  woken,       \* woken[q]: the threads woken that have not got the mutex yet
  alive,       \* the queues that have not been destroyed
  isExit,      \* the static flag, one for all queues
  call,        \* call[t]: the member function t is executing
  pkt          \* pkt[t]: the packet deQueue returned to t

content == <<queue, size>>
vars == <<queue, size, sleeping, woken, alive, isExit, call, pkt>>

Idle == [op |-> "idle"]
(***************************************************************************)
(* deQueue: called by a consumer and blocked; empty: about to evaluate     *)
(* queue.empty() in queueFlush; take: in the deQueue queueFlush calls.     *)
(***************************************************************************)
Calls == [op : {"deQueue", "empty", "take"}, q : Queues]
In(op, q) == [op |-> op, q |-> q]

Waiting(t, q) == t \in sleeping[q] \cup woken[q]

TypeOK ==
  /\ queue \in [Queues -> Seq(Packets)]
  /\ size \in [Queues -> 0 .. Modulus - 1]
  /\ sleeping \in [Queues -> SUBSET Threads]
  /\ woken \in [Queues -> SUBSET Threads]
  /\ alive \subseteq Queues
  /\ isExit \in BOOLEAN
  /\ call \in [Threads -> Calls \cup {Idle}]
  /\ pkt \in [Threads -> Packets \cup {NoPacket}]

Init ==
  /\ queue = [q \in Queues |-> << >>]
  /\ size = [q \in Queues |-> 0]
  /\ sleeping = [q \in Queues |-> {}]
  /\ woken = [q \in Queues |-> {}]
  /\ alive = Queues
  /\ isExit = FALSE
  /\ call = [t \in Threads |-> Idle]
  /\ pkt = [t \in Threads |-> NoPacket]
-----------------------------------------------------------------------------
\* No destructor runs.
NoExit == alive' = alive /\ isExit' = isExit

\* cond.wakeOne(): no effect when nobody sleeps.
WakeOne(q) ==
  \/ sleeping[q] = {} /\ UNCHANGED <<sleeping, woken>>
  \/ \E t \in sleeping[q] :
       /\ sleeping' = [sleeping EXCEPT ![q] = @ \ {t}]
       /\ woken' = [woken EXCEPT ![q] = @ \cup {t}]

\* Two faulty forms of enQueue: it wakes a consumer only when the queue was
\* empty; it counts in more than 32 bits.
EnQueueWakesOnce(q, p) ==
  /\ q \in alive
  /\ queue' = [queue EXCEPT ![q] = Append(@, p)]
  /\ size' = [size EXCEPT ![q] = (@ + Bytes[p]) % Modulus]
  /\ IF queue[q] = << >> THEN WakeOne(q) ELSE UNCHANGED <<sleeping, woken>>
  /\ NoExit /\ UNCHANGED <<call, pkt>>

EnQueueWide(q, p) ==
  /\ q \in alive
  /\ queue' = [queue EXCEPT ![q] = Append(@, p)]
  /\ size' = [size EXCEPT ![q] = @ + Bytes[p]]
  /\ WakeOne(q)
  /\ NoExit /\ UNCHANGED <<call, pkt>>

EnQueue(q, p) ==
  /\ q \in alive
  /\ queue' = [queue EXCEPT ![q] = Append(@, p)]
  /\ size' = [size EXCEPT ![q] = (@ + Bytes[p]) % Modulus]
  /\ WakeOne(q)
  /\ NoExit /\ UNCHANGED <<call, pkt>>

\* A faulty form of Pop: the bytes of the packet stay counted.
PopUncounted(q) ==
  /\ queue[q] # << >>
  /\ queue' = [queue EXCEPT ![q] = Tail(@)]
  /\ UNCHANGED size

\* The branch of deQueue that finds a packet.
Pop(q) ==
  /\ queue[q] # << >>
  /\ queue' = [queue EXCEPT ![q] = Tail(@)]
  /\ size' = [size EXCEPT ![q] = (@ - Bytes[Head(queue[q])]) % Modulus]

\* The branch of deQueue that does not: cond.wait releases the mutex.
Wait(t, q) ==
  /\ queue[q] = << >>
  /\ sleeping' = [sleeping EXCEPT ![q] = @ \cup {t}]
  /\ woken' = [woken EXCEPT ![q] = @ \ {t}]
  /\ UNCHANGED content

\* deQueue returns p to t: to its caller, or to queueFlush, which frees the
\* packet and goes on to its next test.
Return(t, q, p) ==
  \/ /\ call[t] # In("take", q)
     /\ call' = [call EXCEPT ![t] = Idle]
     /\ pkt' = [pkt EXCEPT ![t] = p]
  \/ /\ call[t] = In("take", q)
     /\ call' = [call EXCEPT ![t] = In("empty", q)]
     /\ UNCHANGED pkt

\* deQueue called by a consumer, up to its return or its first wait.
DeQueue(t, q) ==
  /\ call[t] = Idle
  /\ q \in alive
  /\ \/ Pop(q) /\ Return(t, q, Head(queue[q])) /\ UNCHANGED <<sleeping, woken>>
     \/ Wait(t, q) /\ call' = [call EXCEPT ![t] = In("deQueue", q)] /\ UNCHANGED pkt
  /\ NoExit

\* A faulty form of Resume: deQueue with an if for its while.
ResumeOnce(t, q) ==
  /\ t \in woken[q]
  /\ \/ Pop(q) /\ Return(t, q, Head(queue[q]))
     \/ queue[q] = << >> /\ Return(t, q, NoPacket) /\ UNCHANGED content
  /\ woken' = [woken EXCEPT ![q] = @ \ {t}]
  /\ UNCHANGED sleeping
  /\ NoExit

\* A woken thread has the mutex again, tests isExit, then looks once more.
Resume(t, q) ==
  /\ t \in woken[q]
  /\ \/ /\ isExit
        /\ Return(t, q, NoPacket)
        /\ woken' = [woken EXCEPT ![q] = @ \ {t}]
        /\ UNCHANGED <<content, sleeping>>
     \/ /\ ~isExit
        /\ Pop(q)
        /\ Return(t, q, Head(queue[q]))
        /\ woken' = [woken EXCEPT ![q] = @ \ {t}]
        /\ UNCHANGED sleeping
     \/ /\ ~isExit
        /\ Wait(t, q)
        /\ UNCHANGED <<call, pkt>>
  /\ NoExit

CallFlush(t, q) ==
  /\ call[t] = Idle
  /\ q \in alive
  /\ call' = [call EXCEPT ![t] = In("empty", q)]
  /\ NoExit /\ UNCHANGED <<content, sleeping, woken, pkt>>

\* while (!queue.empty()), read without the mutex.
FlushTest(t, q) ==
  /\ call[t] = In("empty", q)
  /\ call' = [call EXCEPT ![t] = IF queue[q] = << >> THEN Idle ELSE In("take", q)]
  /\ NoExit /\ UNCHANGED <<content, sleeping, woken, pkt>>

\* The deQueue of queueFlush, up to its return or its first wait.
FlushTake(t, q) ==
  /\ call[t] = In("take", q)
  /\ ~Waiting(t, q)
  /\ \/ Pop(q) /\ Return(t, q, Head(queue[q])) /\ UNCHANGED <<sleeping, woken>>
     \/ Wait(t, q) /\ UNCHANGED <<call, pkt>>
  /\ NoExit

\* What a thread does inside a call it has begun.
InCall(t) == \E q \in Queues : Resume(t, q) \/ FlushTest(t, q) \/ FlushTake(t, q)

(***************************************************************************)
(* The destructor.  A queue is destroyed when no thread executes a member  *)
(* function of it, unless it is blocked in deQueue: those the destructor   *)
(* is meant to send away.                                                  *)
(***************************************************************************)
Destroy(q) ==
  /\ q \in alive
  /\ \A t \in Threads : call[t] # Idle /\ call[t].q = q => Waiting(t, q)
  /\ alive' = alive \ {q}
  /\ isExit' = TRUE
  /\ WakeOne(q)
  /\ UNCHANGED <<content, call, pkt>>
-----------------------------------------------------------------------------
Next ==
  \/ \E q \in Queues, p \in Packets : EnQueue(q, p)
  \/ \E t \in Threads, q \in Queues : DeQueue(t, q)
  \/ \E t \in Threads, q \in Queues : CallFlush(t, q)
  \/ \E t \in Threads : InCall(t)
  \/ \E q \in Queues : Destroy(q)

Safety == Init /\ [][Next]_vars

(***************************************************************************)
(* A thread that was woken gets the mutex in the end, and a thread that is *)
(* running goes on: no member function keeps the mutex while it waits.     *)
(***************************************************************************)
Spec == Safety /\ \A t \in Threads : WF_vars(InCall(t))
-----------------------------------------------------------------------------
\* The bytes of a sequence of packets.
QueuedBytes(packets) ==
  LET upTo[i \in 0 .. Len(packets)] ==
        IF i = 0 THEN 0 ELSE upTo[i - 1] + Bytes[packets[i]]
  IN  upTo[Len(packets)]

(***************************************************************************)
(* The counter getPacketSize returns is, as a uint32_t, the bytes queued   *)
(* (packetqueue.cpp 21, 37): the reader's back-pressure and the decoder's  *)
(* test for work both rest on it.                                          *)
(***************************************************************************)
SizeIsSum == \A q \in Queues : size[q] = QueuedBytes(queue[q]) % Modulus

(***************************************************************************)
(* No wakeup is lost: while a consumer sleeps in deQueue, every packet in  *)
(* the queue has a consumer of its own that was woken for it, whoever else *)
(* takes packets in between (one wakeOne per enQueue, packetqueue.cpp 22,  *)
(* and the loop around cond.wait, 31-48).                                  *)
(***************************************************************************)
NoLostWakeup ==
  ~isExit => \A q \in Queues :
               sleeping[q] # {} => Len(queue[q]) <= Cardinality(woken[q])

(***************************************************************************)
(* The queues implement FIFO channels whose waiting threads are served     *)
(* (PacketChannel): packets leave in the order they came in, once each,    *)
(* and a packet that stays in a queue reaches a thread blocked in deQueue. *)
(***************************************************************************)
Channel == INSTANCE PacketChannel WITH
  channel <- queue,
  waiting <- [q \in Queues |-> sleeping[q] \cup woken[q]],
  got <- pkt,
  closed <- isExit

ImplementsChannel == Channel!Spec
=============================================================================
