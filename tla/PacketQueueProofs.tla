------------------------- MODULE PacketQueueProofs -------------------------
(***************************************************************************)
(* Theorems about PacketQueue, for any number of queues, threads and       *)
(* packets and any width of the byte counter.                              *)
(***************************************************************************)
EXTENDS PacketQueue, ByteSums, FiniteSetTheorems, TLAPS

USE PacketQueueAssumption DEF Parameters

LEMMA AppendType ==
  ASSUME NEW S, NEW s \in Seq(S), NEW e \in S
  PROVE  /\ Append(s, e) \in Seq(S)
         /\ Len(Append(s, e)) = Len(s) + 1
  OBVIOUS

LEMMA TailType ==
  ASSUME NEW S, NEW s \in Seq(S), s # << >>
  PROVE  /\ Head(s) \in S
         /\ Tail(s) \in Seq(S)
         /\ Len(Tail(s)) = Len(s) - 1
         /\ Len(s) > 0
  OBVIOUS

LEMMA PopType ==
  ASSUME TypeOK, NEW q \in Queues, Pop(q)
  PROVE  /\ queue' \in [Queues -> Seq(Packets)]
         /\ size' \in [Queues -> 0 .. Modulus - 1]
         /\ Head(queue[q]) \in Packets
  BY TailType DEF TypeOK, Pop

LEMMA WakeOneType ==
  ASSUME TypeOK, NEW q \in Queues, WakeOne(q)
  PROVE  /\ sleeping' \in [Queues -> SUBSET Threads]
         /\ woken' \in [Queues -> SUBSET Threads]
<1>1. CASE sleeping[q] = {} /\ UNCHANGED <<sleeping, woken>>
  BY <1>1 DEF TypeOK
<1>2. ASSUME NEW t \in sleeping[q],
             sleeping' = [sleeping EXCEPT ![q] = @ \ {t}],
             woken' = [woken EXCEPT ![q] = @ \cup {t}]
      PROVE  /\ sleeping' \in [Queues -> SUBSET Threads]
             /\ woken' \in [Queues -> SUBSET Threads]
  <2>1. t \in Threads /\ sleeping[q] \subseteq Threads /\ woken[q] \subseteq Threads
    BY DEF TypeOK
  <2>2. sleeping[q] \ {t} \in SUBSET Threads /\ woken[q] \cup {t} \in SUBSET Threads
    BY <2>1
  <2> QED
    BY <1>2, <2>2 DEF TypeOK
<1> QED
  BY <1>1, <1>2 DEF WakeOne

LEMMA CallType ==
  ASSUME NEW q \in Queues
  PROVE  /\ In("deQueue", q) \in Calls
         /\ In("empty", q) \in Calls
         /\ In("take", q) \in Calls
  BY DEF In, Calls

LEMMA WaitType ==
  ASSUME TypeOK, NEW q \in Queues, NEW t \in Threads, Wait(t, q)
  PROVE  /\ queue' \in [Queues -> Seq(Packets)]
         /\ size' \in [Queues -> 0 .. Modulus - 1]
         /\ sleeping' \in [Queues -> SUBSET Threads]
         /\ woken' \in [Queues -> SUBSET Threads]
  BY DEF TypeOK, Wait, content

LEMMA ReturnType ==
  ASSUME TypeOK, NEW q \in Queues, NEW t \in Threads, NEW p \in Packets \cup {NoPacket},
         Return(t, q, p)
  PROVE  /\ call' \in [Threads -> Calls \cup {Idle}]
         /\ pkt' \in [Threads -> Packets \cup {NoPacket}]
<1>1. call' = [call EXCEPT ![t] = Idle] \/ call' = [call EXCEPT ![t] = In("empty", q)]
  BY DEF Return
<1>2. call' \in [Threads -> Calls \cup {Idle}]
  BY <1>1, CallType DEF TypeOK
<1>3. pkt' \in [Threads -> Packets \cup {NoPacket}]
  BY DEF TypeOK, Return
<1> QED
  BY <1>2, <1>3

LEMMA InitType == Init => TypeOK
<1> SUFFICES ASSUME Init PROVE TypeOK
  OBVIOUS
<1>1. queue \in [Queues -> Seq(Packets)]
  <2>1. << >> \in Seq(Packets)
    OBVIOUS
  <2> QED
    BY <2>1 DEF Init
<1>2. size \in [Queues -> 0 .. Modulus - 1]
  BY DEF Init
<1> QED
  BY <1>1, <1>2 DEF Init, TypeOK

LEMMA TypeStep ==
  ASSUME TypeOK, [Next]_vars
  PROVE  TypeOK'
<1>1. ASSUME NEW q \in Queues, NEW p \in Packets, EnQueue(q, p) PROVE TypeOK'
  <2>1. queue' \in [Queues -> Seq(Packets)]
    BY <1>1, AppendType DEF TypeOK, EnQueue
  <2>2. size' \in [Queues -> 0 .. Modulus - 1]
    BY <1>1 DEF TypeOK, EnQueue
  <2> QED
    BY <1>1, <2>1, <2>2, WakeOneType DEF TypeOK, EnQueue, NoExit
<1>2. ASSUME NEW t \in Threads, NEW q \in Queues, DeQueue(t, q) PROVE TypeOK'
  <2>1. CASE Pop(q) /\ Return(t, q, Head(queue[q])) /\ UNCHANGED <<sleeping, woken>>
    BY <1>2, <2>1, PopType, ReturnType DEF TypeOK, DeQueue, NoExit
  <2>2. CASE Wait(t, q) /\ call' = [call EXCEPT ![t] = In("deQueue", q)] /\ UNCHANGED pkt
    BY <1>2, <2>2, WaitType, CallType DEF TypeOK, DeQueue, NoExit
  <2> QED
    BY <1>2, <2>1, <2>2 DEF DeQueue
<1>3. ASSUME NEW t \in Threads, NEW q \in Queues, CallFlush(t, q) PROVE TypeOK'
  BY <1>3, CallType DEF TypeOK, CallFlush, NoExit, content
<1>4. ASSUME NEW t \in Threads, NEW q \in Queues, Resume(t, q) PROVE TypeOK'
  <2>1. CASE isExit /\ Return(t, q, NoPacket) /\ woken' = [woken EXCEPT ![q] = @ \ {t}]
               /\ UNCHANGED <<content, sleeping>>
    BY <1>4, <2>1, ReturnType DEF TypeOK, Resume, NoExit, content
  <2>2. CASE Pop(q) /\ Return(t, q, Head(queue[q])) /\ woken' = [woken EXCEPT ![q] = @ \ {t}]
               /\ UNCHANGED sleeping
    BY <1>4, <2>2, PopType, ReturnType DEF TypeOK, Resume, NoExit
  <2>3. CASE Wait(t, q) /\ UNCHANGED <<call, pkt>>
    BY <1>4, <2>3, WaitType DEF TypeOK, Resume, NoExit
  <2> QED
    BY <1>4, <2>1, <2>2, <2>3 DEF Resume
<1>5. ASSUME NEW t \in Threads, NEW q \in Queues, FlushTest(t, q) PROVE TypeOK'
  BY <1>5, CallType DEF TypeOK, FlushTest, NoExit, content
<1>6. ASSUME NEW t \in Threads, NEW q \in Queues, FlushTake(t, q) PROVE TypeOK'
  <2>1. CASE Pop(q) /\ Return(t, q, Head(queue[q])) /\ UNCHANGED <<sleeping, woken>>
    BY <1>6, <2>1, PopType, ReturnType DEF TypeOK, FlushTake, NoExit
  <2>2. CASE Wait(t, q) /\ UNCHANGED <<call, pkt>>
    BY <1>6, <2>2, WaitType DEF TypeOK, FlushTake, NoExit
  <2> QED
    BY <1>6, <2>1, <2>2 DEF FlushTake
<1>7. ASSUME NEW q \in Queues, Destroy(q) PROVE TypeOK'
  BY <1>7, WakeOneType DEF TypeOK, Destroy, content
<1>8. CASE UNCHANGED vars
  BY <1>8 DEF TypeOK, vars
<1> QED
  BY <1>1, <1>2, <1>3, <1>4, <1>5, <1>6, <1>7, <1>8 DEF Next, InCall

(***************************************************************************)
(* Every operation keeps the types: packets are not mixed up with the      *)
(* uninitialised one, and the counter stays a 32-bit number.               *)
(***************************************************************************)
THEOREM TypeCorrect == Safety => []TypeOK
<1>1. Init => TypeOK
  BY InitType
<1>2. TypeOK /\ [Next]_vars => TypeOK'
  BY TypeStep
<1> QED
  BY <1>1, <1>2, PTL DEF Safety
-----------------------------------------------------------------------------
(***************************************************************************)
(* What NoLostWakeup needs to be inductive: a thread sleeps or is woken,   *)
(* not both, and only in the queue whose deQueue it executes.              *)
(***************************************************************************)
WaitersInCall ==
  \A q \in Queues :
    /\ sleeping[q] \cap woken[q] = {}
    /\ \A t \in sleeping[q] \cup woken[q] : call[t] \in {In("deQueue", q), In("take", q)}

IInv == TypeOK /\ WaitersInCall /\ NoLostWakeup

\* NoLostWakeup for one queue.
Served(q) == sleeping[q] # {} => Len(queue[q]) <= Cardinality(woken[q])

LEMMA WokenFinite ==
  ASSUME TypeOK, NEW q \in Queues
  PROVE  IsFiniteSet(woken[q]) /\ Cardinality(woken[q]) \in Nat
  BY FS_Subset, FS_CardinalityType DEF TypeOK

LEMMA CallsDiffer ==
  ASSUME NEW q \in Queues, NEW r \in Queues, q # r
  PROVE  /\ In("deQueue", q) \notin {In("deQueue", r), In("take", r), Idle}
         /\ In("take", q) \notin {In("deQueue", r), In("take", r), Idle}
  BY DEF In, Idle

LEMMA CallsDifferInQueue ==
  ASSUME NEW q \in Queues, NEW r \in Queues
  PROVE  /\ In("deQueue", q) # Idle
         /\ In("empty", r) \notin {In("deQueue", q), In("take", q), Idle}
         /\ In("take", q) # Idle
  BY DEF In, Idle

\* A wakeup pays for the packet that was added with it.
LEMMA EnQueueServes ==
  ASSUME IInv, NEW q \in Queues, NEW p \in Packets, EnQueue(q, p), Served(q)
  PROVE  Served(q)'
<1>1. Len(queue'[q]) = Len(queue[q]) + 1
  BY AppendType DEF IInv, TypeOK, EnQueue
<1>2. CASE sleeping[q] = {} /\ UNCHANGED <<sleeping, woken>>
  BY <1>2 DEF Served
<1>3. ASSUME NEW t \in sleeping[q],
             sleeping' = [sleeping EXCEPT ![q] = @ \ {t}],
             woken' = [woken EXCEPT ![q] = @ \cup {t}]
      PROVE  Served(q)'
  <2>1. t \notin woken[q]
    BY DEF IInv, WaitersInCall
  <2>2. woken'[q] = woken[q] \cup {t}
    BY <1>3 DEF IInv, TypeOK
  <2>3. Cardinality(woken'[q]) = Cardinality(woken[q]) + 1
    BY <2>1, <2>2, WokenFinite, FS_AddElement DEF IInv
  <2>4. Len(queue[q]) <= Cardinality(woken[q])
    BY DEF Served
  <2>5. Len(queue[q]) \in Nat /\ Cardinality(woken[q]) \in Nat
    BY WokenFinite DEF IInv, TypeOK
  <2> QED
    BY <1>1, <2>3, <2>4, <2>5 DEF Served
<1> QED
  BY <1>2, <1>3 DEF EnQueue, WakeOne

\* A thread that takes a packet without having been woken for it.
LEMMA PopServes ==
  ASSUME IInv, NEW q \in Queues, Pop(q), UNCHANGED <<sleeping, woken>>, Served(q)
  PROVE  Served(q)'
<1>1. Len(queue'[q]) = Len(queue[q]) - 1 /\ Len(queue[q]) \in Nat
  BY TailType DEF IInv, TypeOK, Pop
<1> QED
  BY <1>1, WokenFinite DEF Served, IInv

\* A thread that was woken and takes a packet.
LEMMA ResumeServes ==
  ASSUME IInv, NEW q \in Queues, NEW t \in woken[q], Pop(q), UNCHANGED sleeping,
         woken' = [woken EXCEPT ![q] = @ \ {t}], Served(q)
  PROVE  Served(q)'
<1>1. Len(queue'[q]) = Len(queue[q]) - 1 /\ Len(queue[q]) \in Nat
  BY TailType DEF IInv, TypeOK, Pop
<1>2. woken'[q] = woken[q] \ {t}
  BY DEF IInv, TypeOK
<1>3. Cardinality(woken'[q]) = Cardinality(woken[q]) - 1
  BY <1>2, WokenFinite, FS_RemoveElement DEF IInv
<1> QED
  BY <1>1, <1>3, WokenFinite DEF Served, IInv

\* A thread that waits found the queue empty.
LEMMA WaitServes ==
  ASSUME IInv, NEW q \in Queues, NEW t \in Threads, Wait(t, q)
  PROVE  Served(q)'
<1>1. queue'[q] = << >>
  BY DEF Wait, content
<1>2. IsFiniteSet(woken'[q])
  <2>1. woken'[q] = woken[q] \ {t}
    BY DEF IInv, TypeOK, Wait
  <2> QED
    BY <2>1, WokenFinite, FS_Subset DEF IInv
<1> QED
  BY <1>1, <1>2, FS_CardinalityType DEF Served

LEMMA OthersServed ==
  ASSUME NEW r \in Queues, queue'[r] = queue[r], sleeping'[r] = sleeping[r],
         woken'[r] = woken[r], Served(r)
  PROVE  Served(r)'
  BY DEF Served

(***************************************************************************)
(* WaitersInCall is kept: threads enter the waiting sets of a queue in a   *)
(* call on it, and leave both before the call ends.                        *)
(***************************************************************************)
LEMMA WaitersWake ==
  ASSUME TypeOK, WaitersInCall, NEW q \in Queues, WakeOne(q), UNCHANGED call
  PROVE  WaitersInCall'
<1>1. CASE UNCHANGED <<sleeping, woken>>
  BY <1>1 DEF WaitersInCall
<1>2. ASSUME NEW t \in sleeping[q],
             sleeping' = [sleeping EXCEPT ![q] = @ \ {t}],
             woken' = [woken EXCEPT ![q] = @ \cup {t}]
      PROVE  WaitersInCall'
  BY <1>2 DEF TypeOK, WaitersInCall
<1> QED
  BY <1>1, <1>2 DEF WakeOne

LEMMA WaitersWait ==
  ASSUME TypeOK, WaitersInCall, NEW q \in Queues, NEW t \in Threads, Wait(t, q),
         call'[t] \in {In("deQueue", q), In("take", q)},
         \A u \in Threads \ {t} : call'[u] = call[u],
         \A r \in Queues \ {q} : t \notin sleeping[r] \cup woken[r]
  PROVE  WaitersInCall'
<1> SUFFICES ASSUME NEW r \in Queues
             PROVE  /\ sleeping'[r] \cap woken'[r] = {}
                    /\ \A u \in sleeping'[r] \cup woken'[r] :
                         call'[u] \in {In("deQueue", r), In("take", r)}
  BY DEF WaitersInCall
<1>1. sleeping'[r] \cup woken'[r] \subseteq Threads
  BY WaitType DEF TypeOK
<1>2. CASE r = q
  <2>1. sleeping'[q] = sleeping[q] \cup {t} /\ woken'[q] = woken[q] \ {t}
    BY DEF TypeOK, Wait
  <2> QED
    BY <1>1, <1>2, <2>1 DEF WaitersInCall
<1>3. CASE r # q
  <2>1. sleeping'[r] = sleeping[r] /\ woken'[r] = woken[r]
    BY <1>3 DEF TypeOK, Wait
  <2> QED
    BY <1>1, <1>3, <2>1 DEF WaitersInCall
<1> QED
  BY <1>2, <1>3

\* A call that ends, or goes on inside queueFlush, by a thread in no waiting set.
LEMMA WaitersOutside ==
  ASSUME TypeOK, WaitersInCall, NEW t \in Threads,
         sleeping' = sleeping,
         \A r \in Queues : woken'[r] \subseteq woken[r],
         \A r \in Queues : t \notin sleeping[r] \cup woken'[r],
         \A u \in Threads \ {t} : call'[u] = call[u]
  PROVE  WaitersInCall'
<1> SUFFICES ASSUME NEW r \in Queues
             PROVE  /\ sleeping'[r] \cap woken'[r] = {}
                    /\ \A u \in sleeping'[r] \cup woken'[r] :
                         call'[u] \in {In("deQueue", r), In("take", r)}
  BY DEF WaitersInCall
<1>1. sleeping[r] \cup woken[r] \subseteq Threads
  BY DEF TypeOK
<1> QED
  BY <1>1 DEF WaitersInCall

\* A thread waits in one queue at most: that of its call.
LEMMA WaitsInItsCall ==
  ASSUME WaitersInCall, NEW t \in Threads, NEW q \in Queues, NEW r \in Queues,
         \/ call[t] = Idle
         \/ call[t] = In("empty", q)
         \/ call[t] \in {In("deQueue", q), In("take", q)} /\ r # q
  PROVE  t \notin sleeping[r] \cup woken[r]
  BY CallsDiffer, CallsDifferInQueue DEF WaitersInCall

LEMMA ReturnOthers ==
  ASSUME TypeOK, NEW t \in Threads, NEW q \in Queues, NEW p, Return(t, q, p)
  PROVE  \A u \in Threads \ {t} : call'[u] = call[u]
  BY DEF TypeOK, Return

LEMMA WaitersInit == Init => WaitersInCall
  BY DEF Init, WaitersInCall

LEMMA WaitersStep ==
  ASSUME TypeOK, WaitersInCall, [Next]_vars
  PROVE  WaitersInCall'
<1>1. ASSUME NEW q \in Queues, NEW p \in Packets, EnQueue(q, p) PROVE WaitersInCall'
  BY <1>1, WaitersWake DEF EnQueue
<1>2. ASSUME NEW t \in Threads, NEW q \in Queues, DeQueue(t, q) PROVE WaitersInCall'
  <2>1. \A r \in Queues : t \notin sleeping[r] \cup woken[r]
    BY <1>2, WaitsInItsCall DEF DeQueue
  <2>2. CASE Pop(q) /\ Return(t, q, Head(queue[q])) /\ UNCHANGED <<sleeping, woken>>
    BY <2>1, <2>2, ReturnOthers, WaitersOutside
  <2>3. CASE Wait(t, q) /\ call' = [call EXCEPT ![t] = In("deQueue", q)] /\ UNCHANGED pkt
    <3>1. call'[t] = In("deQueue", q) /\ \A u \in Threads \ {t} : call'[u] = call[u]
      BY <2>3 DEF TypeOK
    <3> QED
      BY <2>1, <2>3, <3>1, WaitersWait
  <2> QED
    BY <1>2, <2>2, <2>3 DEF DeQueue
<1>3. ASSUME NEW t \in Threads, NEW q \in Queues, CallFlush(t, q) PROVE WaitersInCall'
  <2>1. \A r \in Queues : t \notin sleeping[r] \cup woken[r]
    BY <1>3, WaitsInItsCall DEF CallFlush
  <2>2. \A u \in Threads \ {t} : call'[u] = call[u]
    BY <1>3 DEF TypeOK, CallFlush
  <2> QED
    BY <1>3, <2>1, <2>2, WaitersOutside DEF CallFlush
<1>4. ASSUME NEW t \in Threads, NEW q \in Queues, Resume(t, q) PROVE WaitersInCall'
  <2>1. call[t] \in {In("deQueue", q), In("take", q)} /\ t \notin sleeping[q]
    BY <1>4 DEF Resume, WaitersInCall
  <2>2. \A r \in Queues \ {q} : t \notin sleeping[r] \cup woken[r]
    BY <2>1, WaitsInItsCall
  <2>3. ASSUME NEW p, Return(t, q, p), woken' = [woken EXCEPT ![q] = @ \ {t}], UNCHANGED sleeping
        PROVE  WaitersInCall'
    <3>1. \A r \in Queues : woken'[r] \subseteq woken[r]
      BY <2>3 DEF TypeOK
    <3>2. \A r \in Queues : t \notin sleeping[r] \cup woken'[r]
      BY <2>1, <2>2, <2>3 DEF TypeOK
    <3> QED
      BY <2>3, <3>1, <3>2, ReturnOthers, WaitersOutside
  <2>4. CASE Wait(t, q) /\ UNCHANGED <<call, pkt>>
    BY <2>1, <2>2, <2>4, WaitersWait
  <2> QED
    BY <1>4, <2>3, <2>4 DEF Resume
<1>5. ASSUME NEW t \in Threads, NEW q \in Queues, FlushTest(t, q) PROVE WaitersInCall'
  <2>1. \A r \in Queues : t \notin sleeping[r] \cup woken[r]
    BY <1>5, WaitsInItsCall DEF FlushTest
  <2>2. \A u \in Threads \ {t} : call'[u] = call[u]
    BY <1>5 DEF TypeOK, FlushTest
  <2> QED
    BY <1>5, <2>1, <2>2, WaitersOutside DEF FlushTest
<1>6. ASSUME NEW t \in Threads, NEW q \in Queues, FlushTake(t, q) PROVE WaitersInCall'
  <2>1. \A r \in Queues \ {q} : t \notin sleeping[r] \cup woken[r]
    BY <1>6, WaitsInItsCall DEF FlushTake
  <2>2. t \notin sleeping[q] \cup woken[q]
    BY <1>6 DEF FlushTake, Waiting
  <2>3. CASE Pop(q) /\ Return(t, q, Head(queue[q])) /\ UNCHANGED <<sleeping, woken>>
    BY <2>1, <2>2, <2>3, ReturnOthers, WaitersOutside
  <2>4. CASE Wait(t, q) /\ UNCHANGED <<call, pkt>>
    BY <1>6, <2>1, <2>4, WaitersWait DEF FlushTake
  <2> QED
    BY <1>6, <2>3, <2>4 DEF FlushTake
<1>7. ASSUME NEW q \in Queues, Destroy(q) PROVE WaitersInCall'
  BY <1>7, WaitersWake DEF Destroy
<1>8. CASE UNCHANGED vars
  BY <1>8 DEF vars, WaitersInCall
<1> QED
  BY <1>1, <1>2, <1>3, <1>4, <1>5, <1>6, <1>7, <1>8 DEF Next, InCall

LEMMA ServedAll == NoLostWakeup <=> (~isExit => \A q \in Queues : Served(q))
  BY DEF NoLostWakeup, Served

\* The queues an operation on q does not touch.
LEMMA OthersSame ==
  ASSUME TypeOK, NEW q \in Queues, NEW r \in Queues \ {q}
  PROVE  /\ Pop(q) => queue'[r] = queue[r]
         /\ WakeOne(q) => sleeping'[r] = sleeping[r] /\ woken'[r] = woken[r]
         /\ \A t \in Threads : Wait(t, q) => /\ queue'[r] = queue[r]
                                             /\ sleeping'[r] = sleeping[r]
                                             /\ woken'[r] = woken[r]
  BY DEF TypeOK, Pop, WakeOne, Wait, content

LEMMA ServedStep ==
  ASSUME IInv, [Next]_vars
  PROVE  NoLostWakeup'
<1> USE DEF IInv
<1> SUFFICES ASSUME ~isExit', NEW r \in Queues
             PROVE  Served(r)'
  BY DEF NoLostWakeup, Served
<1>1. ASSUME NEW q \in Queues, NEW p \in Packets, EnQueue(q, p) PROVE Served(r)'
  <2>1. Served(r) /\ Served(q)
    BY <1>1, ServedAll DEF EnQueue, NoExit
  <2>2. CASE r = q
    BY <1>1, <2>1, <2>2, EnQueueServes
  <2>3. CASE r # q
    BY <1>1, <2>1, <2>3, OthersSame, OthersServed DEF EnQueue, TypeOK
  <2> QED
    BY <2>2, <2>3
<1>2. ASSUME NEW t \in Threads, NEW q \in Queues, DeQueue(t, q) \/ FlushTake(t, q)
      PROVE  Served(r)'
  <2>1. Served(r) /\ Served(q)
    BY <1>2, ServedAll DEF DeQueue, FlushTake, NoExit
  <2>2. CASE Pop(q) /\ UNCHANGED <<sleeping, woken>>
    BY <2>1, <2>2, PopServes, OthersSame, OthersServed
  <2>3. CASE Wait(t, q)
    BY <2>1, <2>3, WaitServes, OthersSame, OthersServed
  <2> QED
    BY <1>2, <2>2, <2>3 DEF DeQueue, FlushTake
<1>3. ASSUME NEW t \in Threads, NEW q \in Queues, Resume(t, q) PROVE Served(r)'
  <2>1. Served(r) /\ Served(q) /\ ~isExit
    BY <1>3, ServedAll DEF Resume, NoExit
  <2>2. CASE Pop(q) /\ woken' = [woken EXCEPT ![q] = @ \ {t}] /\ UNCHANGED sleeping
    <3>1. CASE r = q
      BY <1>3, <2>1, <2>2, <3>1, ResumeServes DEF Resume
    <3>2. CASE r # q
      BY <2>1, <2>2, <3>2, OthersSame, OthersServed DEF TypeOK
    <3> QED
      BY <3>1, <3>2
  <2>3. CASE Wait(t, q)
    BY <2>1, <2>3, WaitServes, OthersSame, OthersServed
  <2> QED
    BY <1>3, <2>1, <2>2, <2>3 DEF Resume
<1>4. ASSUME NEW t \in Threads, NEW q \in Queues, CallFlush(t, q) \/ FlushTest(t, q)
      PROVE  Served(r)'
  BY <1>4, ServedAll, OthersServed DEF CallFlush, FlushTest, NoExit, content
<1>5. ASSUME NEW q \in Queues, Destroy(q) PROVE Served(r)'
  BY <1>5 DEF Destroy
<1>6. CASE UNCHANGED vars
  BY <1>6, ServedAll, OthersServed DEF vars
<1> QED
  BY <1>1, <1>2, <1>3, <1>4, <1>5, <1>6 DEF Next, InCall

(***************************************************************************)
(* No wakeup is lost, for any number of producers, consumers and threads   *)
(* that flush: wakeOne in enQueue and the loop in deQueue are enough       *)
(* (packetqueue.cpp 22, 31-48).                                            *)
(***************************************************************************)
THEOREM WakeupsNotLost == Safety => []NoLostWakeup
<1>1. Init => IInv
  <2> SUFFICES ASSUME Init PROVE IInv
    OBVIOUS
  <2>1. TypeOK
    BY InitType
  <2>2. WaitersInCall /\ NoLostWakeup
    BY DEF Init, WaitersInCall, NoLostWakeup
  <2> QED
    BY <2>1, <2>2 DEF IInv
<1>2. IInv /\ [Next]_vars => IInv'
  BY TypeStep, WaitersStep, ServedStep DEF IInv
<1>3. IInv => NoLostWakeup
  BY DEF IInv
<1> QED
  BY <1>1, <1>2, <1>3, PTL DEF Safety
-----------------------------------------------------------------------------
(***************************************************************************)
(* The steps of the queues are steps of the channels of PacketChannel.     *)
(***************************************************************************)
Waiters == [q \in Queues |-> sleeping[q] \cup woken[q]]

LEMMA WaitersSame ==
  ASSUME NEW q \in Queues, TypeOK, WakeOne(q)
  PROVE  Waiters' = Waiters
<1>1. CASE UNCHANGED <<sleeping, woken>>
  BY <1>1 DEF Waiters
<1>2. ASSUME NEW t \in sleeping[q],
             sleeping' = [sleeping EXCEPT ![q] = @ \ {t}],
             woken' = [woken EXCEPT ![q] = @ \cup {t}]
      PROVE  Waiters' = Waiters
  <2>1. \A r \in Queues : sleeping'[r] \cup woken'[r] = sleeping[r] \cup woken[r]
    BY <1>2 DEF TypeOK
  <2> QED
    BY <2>1 DEF Waiters
<1> QED
  BY <1>1, <1>2 DEF WakeOne

LEMMA WaitersAdd ==
  ASSUME NEW q \in Queues, NEW t \in Threads, TypeOK, Wait(t, q)
  PROVE  Waiters' = [Waiters EXCEPT ![q] = @ \cup {t}]
<1>1. \A r \in Queues : sleeping'[r] \cup woken'[r]
                          = IF r = q THEN Waiters[q] \cup {t} ELSE Waiters[r]
  BY DEF TypeOK, Wait, Waiters
<1> QED
  BY <1>1 DEF Waiters

LEMMA WaitersRemove ==
  ASSUME NEW q \in Queues, NEW t \in Threads, TypeOK, t \notin sleeping[q],
         sleeping' = sleeping,
         woken' = [woken EXCEPT ![q] = @ \ {t}]
  PROVE  Waiters' = [Waiters EXCEPT ![q] = @ \ {t}]
<1>1. \A r \in Queues : sleeping'[r] \cup woken'[r]
                          = IF r = q THEN Waiters[q] \ {t} ELSE Waiters[r]
  BY DEF TypeOK, Waiters
<1> QED
  BY <1>1 DEF Waiters

\* Thread t, waiting in q or nowhere, takes the oldest packet of q.
LEMMA PopReceives ==
  ASSUME NEW q \in Queues, NEW t \in Threads, TypeOK,
         Pop(q), Return(t, q, Head(queue[q])),
         \A r \in Queues \ {q} : t \notin sleeping[r] \cup woken[r],
         Waiters' = [Waiters EXCEPT ![q] = @ \ {t}],
         isExit' = isExit
  PROVE  Channel!Next
<1>1. Channel!Receive(t, q)
  <2>1. \A r \in Queues \ {q} : t \notin Waiters[r]
    BY DEF Waiters
  <2>2. pkt' \in {pkt, [pkt EXCEPT ![t] = Head(queue[q])]}
    BY DEF Return
  <2> QED
    BY <2>1, <2>2 DEF Channel!Receive, Pop, Waiters
<1> QED
  BY <1>1 DEF Channel!Next

LEMMA WaitWaits ==
  ASSUME NEW q \in Queues, NEW t \in Threads, TypeOK, Wait(t, q), UNCHANGED pkt,
         isExit' = isExit,
         \A r \in Queues : t \notin sleeping[r] \cup woken[r]
  PROVE  Channel!Next
<1>1. Channel!Wait(t, q)
  <2>1. \A r \in Queues : t \notin Waiters[r]
    BY DEF Waiters
  <2>2. Waiters' = [Waiters EXCEPT ![q] = @ \cup {t}]
    BY WaitersAdd
  <2> QED
    BY <2>1, <2>2 DEF Channel!Wait, Wait, Waiters, content
<1> QED
  BY <1>1 DEF Channel!Next

LEMMA ChannelStep ==
  ASSUME TypeOK, WaitersInCall, [Next]_vars
  PROVE  [Channel!Next]_(Channel!vars)
<1>1. ASSUME NEW q \in Queues, NEW p \in Packets, EnQueue(q, p) PROVE Channel!Next
  <2>1. Waiters' = Waiters
    BY <1>1, WaitersSame DEF EnQueue
  <2>2. Channel!Send(q, p)
    BY <1>1, <2>1 DEF Channel!Send, EnQueue, NoExit, Waiters
  <2> QED
    BY <2>2 DEF Channel!Next
<1>2. ASSUME NEW t \in Threads, NEW q \in Queues, DeQueue(t, q) \/ FlushTake(t, q)
      PROVE  Channel!Next
  <2>1. \A r \in Queues : t \notin sleeping[r] \cup woken[r]
    BY <1>2, WaitsInItsCall DEF DeQueue, FlushTake, Waiting
  <2>2. CASE Pop(q) /\ Return(t, q, Head(queue[q])) /\ UNCHANGED <<sleeping, woken>>
    <3>1. Waiters' = [Waiters EXCEPT ![q] = @ \ {t}]
      BY <2>1, <2>2 DEF Waiters
    <3> QED
      BY <1>2, <2>1, <2>2, <3>1, PopReceives DEF DeQueue, FlushTake, NoExit
  <2>3. CASE Wait(t, q) /\ UNCHANGED pkt
    BY <1>2, <2>1, <2>3, WaitWaits DEF DeQueue, FlushTake, NoExit
  <2> QED
    BY <1>2, <2>2, <2>3 DEF DeQueue, FlushTake
<1>3. ASSUME NEW t \in Threads, NEW q \in Queues, Resume(t, q)
      PROVE  Channel!Next \/ UNCHANGED Channel!vars
  <2>1. call[t] \in {In("deQueue", q), In("take", q)} /\ t \notin sleeping[q] /\ t \in woken[q]
    BY <1>3 DEF Resume, WaitersInCall
  <2>2. \A r \in Queues \ {q} : t \notin sleeping[r] \cup woken[r]
    BY <2>1, WaitsInItsCall
  <2>3. CASE isExit /\ Return(t, q, NoPacket) /\ woken' = [woken EXCEPT ![q] = @ \ {t}]
               /\ UNCHANGED <<content, sleeping>>
    <3>1. Waiters' = [Waiters EXCEPT ![q] = @ \ {t}]
      BY <2>1, <2>3, WaitersRemove
    <3>2. pkt' \in {pkt, [pkt EXCEPT ![t] = NoPacket]}
      BY <2>3 DEF Return
    <3>3. Channel!SendAway(t, q)
      BY <1>3, <2>1, <2>3, <3>1, <3>2 DEF Channel!SendAway, Resume, NoExit, Waiters, content
    <3> QED
      BY <3>3 DEF Channel!Next
  <2>4. CASE Pop(q) /\ Return(t, q, Head(queue[q])) /\ woken' = [woken EXCEPT ![q] = @ \ {t}]
               /\ UNCHANGED sleeping
    <3>1. Waiters' = [Waiters EXCEPT ![q] = @ \ {t}]
      BY <2>1, <2>4, WaitersRemove
    <3> QED
      BY <1>3, <2>2, <2>4, <3>1, PopReceives DEF Resume, NoExit
  <2>5. CASE Wait(t, q) /\ UNCHANGED <<call, pkt>>
    <3>1. Waiters' = [Waiters EXCEPT ![q] = @ \cup {t}]
      BY <2>5, WaitersAdd
    <3>2. Waiters' = Waiters
      BY <2>1, <3>1 DEF Waiters
    <3> QED
      BY <1>3, <2>5, <3>2 DEF Channel!vars, Resume, NoExit, Wait, content, Waiters
  <2> QED
    BY <1>3, <2>3, <2>4, <2>5 DEF Resume
<1>4. ASSUME NEW t \in Threads, NEW q \in Queues, CallFlush(t, q) \/ FlushTest(t, q)
      PROVE  UNCHANGED Channel!vars
  BY <1>4 DEF CallFlush, FlushTest, NoExit, content, Channel!vars
<1>5. ASSUME NEW q \in Queues, Destroy(q) PROVE Channel!Next
  <2>1. Waiters' = Waiters
    BY <1>5, WaitersSame DEF Destroy
  <2>2. Channel!Close
    BY <1>5, <2>1 DEF Channel!Close, Destroy, content, Waiters
  <2> QED
    BY <2>2 DEF Channel!Next
<1>6. CASE UNCHANGED vars
  BY <1>6 DEF vars, Channel!vars
<1> QED
  BY <1>1, <1>2, <1>3, <1>4, <1>5, <1>6 DEF Next, InCall

(***************************************************************************)
(* Whatever the threads do, the queues behave like FIFO channels: no       *)
(* packet is lost, doubled or overtaken, and only a destructor sends a     *)
(* thread away without one (packetqueue.cpp 17-50).                        *)
(***************************************************************************)
THEOREM QueuesAreChannels == Safety => Channel!Safety
<1>1. Init => Channel!Init
  BY DEF Init, Channel!Init
<1>2. Init => TypeOK /\ WaitersInCall
  BY InitType DEF Init, WaitersInCall
<1>3. (TypeOK /\ WaitersInCall) /\ [Next]_vars => (TypeOK /\ WaitersInCall)'
  BY TypeStep, WaitersStep
<1>4. (TypeOK /\ WaitersInCall) /\ [Next]_vars => [Channel!Next]_(Channel!vars)
  BY ChannelStep
<1> QED
  BY <1>1, <1>2, <1>3, <1>4, PTL DEF Safety, Channel!Safety
-----------------------------------------------------------------------------
LEMMA QueuedIsBytesOf ==
  ASSUME NEW packets
  PROVE  QueuedBytes(packets) = BytesOf(Bytes, packets)
  BY DEF QueuedBytes, BytesOf

LEMMA EnQueueCounts ==
  ASSUME TypeOK, SizeIsSum, NEW q \in Queues, NEW p \in Packets, EnQueue(q, p)
  PROVE  SizeIsSum'
<1> DEFINE b == Bytes[p]
           sum == BytesOf(Bytes, queue[q])
<1>1. queue[q] \in Seq(Packets) /\ b \in Nat
  BY DEF TypeOK
<1>2. sum \in Nat /\ BytesOf(Bytes, Append(queue[q], p)) = sum + b
  BY <1>1, SumType, SumAppend
<1>3. size[q] = sum % Modulus
  BY QueuedIsBytesOf DEF SizeIsSum
<1>4. queue'[q] = Append(queue[q], p) /\ size'[q] = (size[q] + b) % Modulus
  BY DEF TypeOK, EnQueue
<1>5. size'[q] = QueuedBytes(queue'[q]) % Modulus
  <2>1. ((sum % Modulus) + b) % Modulus = (sum + b) % Modulus
    <3> HIDE DEF sum, b
    <3>1. Modulus \in Nat \ {0} /\ sum \in Int /\ b \in Int
      BY <1>1, <1>2
    <3> QED
      BY <3>1, ModPlus
  <2> QED
    BY <1>2, <1>3, <1>4, <2>1, QueuedIsBytesOf
<1>6. \A r \in Queues \ {q} : queue'[r] = queue[r] /\ size'[r] = size[r]
  BY DEF TypeOK, EnQueue
<1> QED
  BY <1>5, <1>6 DEF SizeIsSum

LEMMA PopCounts ==
  ASSUME TypeOK, SizeIsSum, NEW q \in Queues, Pop(q)
  PROVE  SizeIsSum'
<1> DEFINE b == Bytes[Head(queue[q])]
           rest == BytesOf(Bytes, Tail(queue[q]))
<1>1. /\ queue[q] \in Seq(Packets) /\ queue[q] # << >>
      /\ Tail(queue[q]) \in Seq(Packets) /\ b \in Nat
  BY TailType DEF TypeOK, Pop
<1>2. rest \in Nat /\ BytesOf(Bytes, queue[q]) = rest + b
  BY <1>1, SumType, SumTail
<1>3. size[q] = (rest + b) % Modulus
  BY <1>2, QueuedIsBytesOf DEF SizeIsSum
<1>4. queue'[q] = Tail(queue[q]) /\ size'[q] = (size[q] - b) % Modulus
  BY DEF TypeOK, Pop
<1>5. size'[q] = QueuedBytes(queue'[q]) % Modulus
  <2>1. (((rest + b) % Modulus) - b) % Modulus = rest % Modulus
    <3> HIDE DEF rest, b
    <3>1. Modulus \in Nat \ {0} /\ rest + b \in Int /\ -b \in Int /\ rest \in Int /\ b \in Int
      BY <1>1, <1>2
    <3>2. (((rest + b) % Modulus) + (-b)) % Modulus = ((rest + b) + (-b)) % Modulus
      BY <3>1, ModPlus
    <3>3. (rest + b) + (-b) = rest
      BY <3>1
    <3>4. (rest + b) % Modulus \in Int
      BY <3>1, DivMod
    <3>5. ((rest + b) % Modulus) + (-b) = ((rest + b) % Modulus) - b
      BY <3>1, <3>4
    <3> QED
      BY <3>2, <3>3, <3>5
  <2> QED
    BY <1>3, <1>4, <2>1, QueuedIsBytesOf
<1>6. \A r \in Queues \ {q} : queue'[r] = queue[r] /\ size'[r] = size[r]
  BY DEF TypeOK, Pop
<1> QED
  BY <1>5, <1>6 DEF SizeIsSum

LEMMA SizeInit == Init => SizeIsSum
<1> SUFFICES ASSUME Init PROVE SizeIsSum
  OBVIOUS
<1>1. \A q \in Queues : queue[q] = << >> /\ size[q] = 0
  BY DEF Init
<1>2. 0 % Modulus = 0
  OBVIOUS
<1> QED
  BY <1>1, <1>2, QueuedIsBytesOf, SumEmpty DEF SizeIsSum

LEMMA SizeStep ==
  ASSUME TypeOK, SizeIsSum, [Next]_vars
  PROVE  SizeIsSum'
<1>1. UNCHANGED content => SizeIsSum'
  BY DEF content, SizeIsSum
<1>2. ASSUME NEW q \in Queues, NEW p \in Packets, EnQueue(q, p) PROVE SizeIsSum'
  BY <1>2, EnQueueCounts
<1>3. ASSUME NEW t \in Threads, NEW q \in Queues, DeQueue(t, q) \/ FlushTake(t, q)
      PROVE  SizeIsSum'
  BY <1>1, <1>3, PopCounts DEF DeQueue, FlushTake, Wait
<1>4. ASSUME NEW t \in Threads, NEW q \in Queues, Resume(t, q) PROVE SizeIsSum'
  BY <1>1, <1>4, PopCounts DEF Resume, Wait
<1>5. ASSUME NEW t \in Threads, NEW q \in Queues, CallFlush(t, q) \/ FlushTest(t, q)
      PROVE  SizeIsSum'
  BY <1>1, <1>5 DEF CallFlush, FlushTest
<1>6. ASSUME NEW q \in Queues, Destroy(q) PROVE SizeIsSum'
  BY <1>1, <1>6 DEF Destroy
<1>7. CASE UNCHANGED vars
  BY <1>1, <1>7 DEF vars, content
<1> QED
  BY <1>2, <1>3, <1>4, <1>5, <1>6, <1>7 DEF Next, InCall

(***************************************************************************)
(* The counter that getPacketSize returns is the sum of the sizes of the   *)
(* packets queued, modulo the width of the counter, whatever the order of  *)
(* enQueue, deQueue and queueFlush and however long the queue              *)
(* (packetqueue.cpp 21, 37).                                               *)
(***************************************************************************)
THEOREM CounterIsSum == Safety => []SizeIsSum
<1>1. Init => TypeOK /\ SizeIsSum
  BY InitType, SizeInit
<1>2. (TypeOK /\ SizeIsSum) /\ [Next]_vars => (TypeOK /\ SizeIsSum)'
  BY TypeStep, SizeStep
<1> QED
  BY <1>1, <1>2, PTL DEF Safety
=============================================================================
