--------------------------- MODULE PipelineProofs ---------------------------
(***************************************************************************)
(* Theorems about what flows through the player, from the reader to the    *)
(* screen: the bytes in the packet queues stay bounded, and the pictures   *)
(* are shown in order.  What is proved about PacketQueue alone is used     *)
(* here for the two packet queues of the player: every step of the player  *)
(* is a step of theirs, or leaves them alone.                              *)
(***************************************************************************)
EXTENDS PlayerProofs, FiniteSetTheorems

USE DEF decoderVars

\* PQ, with the theorems about it.
PQT == INSTANCE PacketQueueProofs WITH
  Queues <- Streams, Bytes <- [p \in Packets |-> Bytes[File[p.n]]],
  alive <- Streams, isExit <- FALSE

LEMMA QueueParameters == PQT!Parameters
<1>1. IsFiniteSet(Threads)
  <2>1. IsFiniteSet({"gui"})
    BY FS_Singleton
  <2>2. IsFiniteSet({"gui"} \cup {"reader"})
    BY <2>1, FS_AddElement
  <2>3. IsFiniteSet({"gui"} \cup {"reader"} \cup {"decoder"})
    BY <2>2, FS_AddElement
  <2>4. IsFiniteSet({"gui"} \cup {"reader"} \cup {"decoder"} \cup {"audio"})
    BY <2>3, FS_AddElement
  <2>5. Threads = {"gui"} \cup {"reader"} \cup {"decoder"} \cup {"audio"}
    BY DEF Threads
  <2> QED
    BY <2>4, <2>5
<1>2. PQT!IsFiniteSet(Threads)
  BY <1>1 DEF IsFiniteSet, PQT!IsFiniteSet
<1>3. NoPacket \notin Packets
  BY DEF NoPacket, Packets
<1>4. [p \in Packets |-> Bytes[File[p.n]]] \in [Packets -> Nat]
  BY PacketBytes
<1> QED
  BY <1>2, <1>3, <1>4, PlayerAssumption DEF PQT!Parameters

LEMMA SameTypes == PQ!TypeOK => PQT!TypeOK
  BY DEF PQ!TypeOK, PQT!TypeOK, PQ!Calls, PQT!Calls, PQ!Idle, PQT!Idle

\* The operations of the queues, as actions of PQ and of PQT.
LEMMA SameEnQueue ==
  ASSUME NEW q, NEW p, PQ!EnQueue(q, p)
  PROVE  PQT!EnQueue(q, p)
  BY DEF PQ!EnQueue, PQT!EnQueue, PQ!WakeOne, PQT!WakeOne, PQ!NoExit, PQT!NoExit

LEMMA SameCalls ==
  ASSUME NEW t, NEW q
  PROVE  /\ PQ!CallFlush(t, q) => PQT!CallFlush(t, q)
         /\ PQ!DeQueue(t, q) => PQT!DeQueue(t, q)
<1> USE DEF PQ!NoExit, PQT!NoExit, PQ!content, PQT!content, PQ!In, PQT!In, PQ!Idle, PQT!Idle
<1>1. PQ!CallFlush(t, q) => PQT!CallFlush(t, q)
  BY DEF PQ!CallFlush, PQT!CallFlush
<1>2. PQ!DeQueue(t, q) => PQT!DeQueue(t, q)
  BY DEF PQ!DeQueue, PQT!DeQueue, PQ!Pop, PQT!Pop, PQ!Wait, PQT!Wait, PQ!Return, PQT!Return
<1> QED
  BY <1>1, <1>2

LEMMA SameInCall ==
  ASSUME NEW t, PQ!InCall(t)
  PROVE  PQT!InCall(t)
  BY DEF PQ!InCall, PQT!InCall, PQ!Resume, PQT!Resume, PQ!FlushTest, PQT!FlushTest, PQ!FlushTake,
     PQT!FlushTake, PQ!Pop, PQT!Pop, PQ!Wait, PQT!Wait, PQ!Return, PQT!Return, PQ!Waiting,
     PQT!Waiting, PQ!NoExit, PQT!NoExit, PQ!content, PQT!content, PQ!In, PQT!In, PQ!Idle, PQT!Idle

(***************************************************************************)
(* What a step of the player does to the packet queues: one operation of   *)
(* one of them, or nothing; the packets in hand may change besides.        *)
(***************************************************************************)
QueuesLeft == UNCHANGED <<queue, size, sleeping, woken, call>>

LEMMA QueueStep ==
  ASSUME PlayerInv, [Next]_vars
  PROVE  PQT!Next \/ QueuesLeft
<1> USE DEF QueuesLeft, packetVars
<1>0. {"gui", "reader", "decoder", "audio"} \subseteq Threads /\ {"audio", "video"} \subseteq Streams
  BY DEF Threads, Streams
<1>1. ASSUME NEW t \in Threads, NEW q \in Streams, PQ!CallFlush(t, q) \/ PQ!DeQueue(t, q)
      PROVE  PQT!Next
  BY <1>1, SameCalls DEF PQT!Next
<1>2. ASSUME NEW q \in Streams, NEW p \in Packets, PQ!EnQueue(q, p) PROVE PQT!Next
  BY <1>2, SameEnQueue DEF PQT!Next
<1>3. ASSUME NEW t \in Threads, PQ!InCall(t) PROVE PQT!Next
  BY <1>3, SameInCall DEF PQT!Next
<1>4. CASE User \/ GuiContinues
  <2>1. UNCHANGED packetVars \/ \E q \in {"audio", "video"} : PQ!CallFlush("gui", q)
    BY <1>4 DEF User, OnOpenFileClicked, ReceivePos, GuiContinues, CloseJoin, CloseClearFrames,
       CloseClearPackets, CloseInput, ConfigOpen, ConfigInfo, ConfigStreams, ConfigAudio,
       ConfigVideo, ConfigStart, Play, PlayJoin, SyncMedia, SyncMediaDequeue, SyncMediaShow,
       ConfigUnchanged
  <2> QED
    BY <1>0, <1>1, <2>1
<1>5. CASE Reader
  <2>1. \/ QueuesLeft
        \/ \E q \in {"audio", "video"} : PQ!CallFlush("reader", q)
        \/ ReaderDispatch
    BY <1>5 DEF Reader, ReaderTop, ReaderGetContext, ReaderSeek, ReaderClearPackets,
       ReaderClearFrames, ReaderSeekDone, ReaderCheck, ReaderRead, ReaderError
  <2>2. CASE ReaderDispatch
    <3>1. pkt["reader"] \in Packets /\ indexes \subseteq Streams
      BY <2>2 DEF ReaderDispatch, ReaderAt, PlayerInv, HandInv, TypeOK
    <3> QED
      BY <1>2, <2>2, <3>1 DEF ReaderDispatch
  <2> QED
    BY <1>0, <1>1, <2>1, <2>2
<1>6. CASE Decoder
  BY <1>0, <1>1, <1>6 DEF Decoder, DecoderCheck, DecoderDeQueue, DecoderDecode
<1>7. CASE Audio
  BY <1>0, <1>1, <1>7 DEF Audio, AudioDeQueue, AudioDecode, AudioReturn
<1>8. ASSUME NEW t \in Threads, QueueCall(t) PROVE PQT!Next \/ QueuesLeft
  BY <1>3, <1>8 DEF QueueCall
<1>9. CASE UNCHANGED vars
  BY <1>9 DEF vars
<1> QED
  BY <1>4, <1>5, <1>6, <1>7, <1>8, <1>9 DEF Next, Step, Threads

\* Only the reader's own steps move the reader.
LEMMA ReaderMoves ==
  ASSUME [Next]_vars
  PROVE  (Running("reader") /\ Reader) \/ UNCHANGED readerPc
<1>1. CASE User \/ GuiContinues
  BY <1>1 DEF User, OnOpenFileClicked, ReceivePos, GuiContinues, CloseJoin, CloseClearFrames,
     CloseClearPackets, CloseInput, ConfigOpen, ConfigInfo, ConfigStreams, ConfigAudio,
     ConfigVideo, ConfigStart, Play, PlayJoin, SyncMedia, SyncMediaDequeue, SyncMediaShow,
     ConfigUnchanged, readerVars
<1>2. CASE Decoder \/ Audio
  BY <1>2 DEF Decoder, DecoderCheck, DecoderDeQueue, DecoderDecode, DecoderUnchanged, Audio,
     AudioDeQueue, AudioDecode, AudioReturn, AudioUnchanged, readerVars
<1>3. ASSUME NEW t \in Threads, QueueCall(t) PROVE UNCHANGED readerPc
  BY <1>3 DEF QueueCall, readerVars
<1>4. CASE UNCHANGED vars
  BY <1>4 DEF vars, readerVars
<1> QED
  BY <1>1, <1>2, <1>3, <1>4 DEF Next, Step, Threads

(***************************************************************************)
(* So that the invariants of the queues alone hold in the player: the      *)
(* counter is the sum, and who waits in a queue waits in a call on it.     *)
(***************************************************************************)
QueuesInv == PQT!WaitersInCall /\ PQT!SizeIsSum

LEMMA QueuesInit == Init => QueuesInv
<1> SUFFICES ASSUME Init PROVE QueuesInv
  OBVIOUS
<1>1. PQT!Init
  BY DEF Init, PQ!Init, PQT!Init, PQ!Idle, PQT!Idle
<1>2. PQT!WaitersInCall /\ PQT!SizeIsSum
  BY <1>1, QueueParameters, PQT!WaitersInit, PQT!SizeInit
<1> QED
  BY <1>2 DEF QueuesInv

LEMMA QueuesStep ==
  ASSUME PlayerInv, QueuesInv, [Next]_vars
  PROVE  QueuesInv'
<1>1. PQT!TypeOK
  BY SameTypes DEF PlayerInv, TypeOK
<1>2. CASE PQT!Next
  <2>1. [PQT!Next]_(PQT!vars)
    BY <1>2
  <2> QED
    BY <1>1, <2>1, QueueParameters, PQT!WaitersStep, PQT!SizeStep DEF QueuesInv
<1>3. CASE QueuesLeft
  BY <1>3 DEF QueuesLeft, QueuesInv, PQT!WaitersInCall, PQT!SizeIsSum, PQT!In
<1> QED
  BY <1>2, <1>3, QueueStep

\* The channels of PQ and of PQT are the same.
LEMMA SameChannel ==
  /\ PQT!Channel!Init => PQ!Channel!Init
  /\ PQT!Channel!Next => PQ!Channel!Next
<1>1. PQT!Channel!Init => PQ!Channel!Init
  BY DEF PQT!Channel!Init, PQ!Channel!Init
<1>2. \A q, p : PQT!Channel!Send(q, p) => PQ!Channel!Send(q, p)
  BY DEF PQT!Channel!Send, PQ!Channel!Send
<1>3. \A t, q : PQT!Channel!Wait(t, q) => PQ!Channel!Wait(t, q)
  BY DEF PQT!Channel!Wait, PQ!Channel!Wait
<1>4. \A t, q : PQT!Channel!Receive(t, q) => PQ!Channel!Receive(t, q)
  BY DEF PQT!Channel!Receive, PQ!Channel!Receive
<1>5. \A t, q : PQT!Channel!SendAway(t, q) => PQ!Channel!SendAway(t, q)
  BY DEF PQT!Channel!SendAway, PQ!Channel!SendAway
<1>6. PQT!Channel!Close => PQ!Channel!Close
  BY DEF PQT!Channel!Close, PQ!Channel!Close
<1> QED
  BY <1>1, <1>2, <1>3, <1>4, <1>5, <1>6 DEF PQT!Channel!Next, PQ!Channel!Next

(***************************************************************************)
(* What PacketChannel promises is kept in the player: a step that touches  *)
(* a packet queue or those who wait for it is one of the channel, and all  *)
(* others leave both alone, for any files, opens, closes and jumps         *)
(* (packetqueue.cpp 17-64, media.cpp 234-236, readpacketsthread.cpp 44).   *)
(***************************************************************************)
THEOREM PlayerQueuesAreChannels == Safety => QueuesAreChannels
<1> DEFINE waiters == [s \in Streams |-> sleeping[s] \cup woken[s]]
<1>1. Init => PlayerInv /\ QueuesInv
  BY PlayerInit, QueuesInit
<1>2. Init => PQ!Channel!Init
  BY DEF Init, PQ!Init, PQ!Channel!Init
<1>3. (PlayerInv /\ QueuesInv) /\ [Next]_vars => (PlayerInv /\ QueuesInv)'
  BY PlayerStep, QueuesStep
<1>4. (PlayerInv /\ QueuesInv) /\ [Next]_vars => [PQ!Channel!Next]_<<queue, waiters>>
  <2> SUFFICES ASSUME PlayerInv, QueuesInv, [Next]_vars
               PROVE  [PQ!Channel!Next]_<<queue, waiters>>
    OBVIOUS
  <2>1. PQT!TypeOK
    BY SameTypes DEF PlayerInv, TypeOK
  <2>2. CASE PQT!Next
    <3>1. [PQT!Next]_(PQT!vars)
      BY <2>2
    <3>2. [PQT!Channel!Next]_(PQT!Channel!vars)
      BY <2>1, <3>1, QueueParameters, PQT!ChannelStep DEF QueuesInv
    <3>3. UNCHANGED PQT!Channel!vars => UNCHANGED <<queue, waiters>>
      BY DEF PQT!Channel!vars
    <3> QED
      BY <3>2, <3>3, SameChannel
  <2>3. CASE QueuesLeft
    BY <2>3 DEF QueuesLeft
  <2> QED
    BY <2>2, <2>3, QueueStep
<1> QED
  BY <1>1, <1>2, <1>3, <1>4, PTL DEF Safety, QueuesAreChannels

(***************************************************************************)
(* A consumer that sleeps in a packet queue of the player sleeps for lack  *)
(* of packets: each one in the queue has a consumer woken for it, whatever *)
(* the jumps and the opens flush meanwhile (packetqueue.cpp 17-50).        *)
(***************************************************************************)
WakeInv == PlayerInv /\ QueuesInv /\ PQT!NoLostWakeup

THEOREM PlayerWakeupsNotLost == Safety => []PQ!NoLostWakeup
<1>1. Init => WakeInv
  <2> SUFFICES ASSUME Init PROVE WakeInv
    OBVIOUS
  <2>1. PQT!NoLostWakeup
    BY DEF Init, PQ!Init, PQT!NoLostWakeup
  <2> QED
    BY <2>1, PlayerInit, QueuesInit DEF WakeInv
<1>2. WakeInv /\ [Next]_vars => WakeInv'
  <2> SUFFICES ASSUME WakeInv, [Next]_vars PROVE WakeInv'
    OBVIOUS
  <2>1. PQT!IInv
    BY SameTypes DEF WakeInv, PlayerInv, TypeOK, QueuesInv, PQT!IInv
  <2>2. CASE PQT!Next
    <3>1. [PQT!Next]_(PQT!vars)
      BY <2>2
    <3>2. PQT!NoLostWakeup'
      BY <2>1, <3>1, QueueParameters, PQT!ServedStep
    <3> QED
      BY <3>2, PlayerStep, QueuesStep DEF WakeInv
  <2>3. CASE QueuesLeft
    <3>1. PQT!NoLostWakeup'
      BY <2>3 DEF QueuesLeft, WakeInv, PQT!NoLostWakeup
    <3> QED
      BY <3>1, PlayerStep, QueuesStep DEF WakeInv
  <2> QED
    BY <2>2, <2>3, QueueStep DEF WakeInv
<1>3. WakeInv => PQ!NoLostWakeup
  <2>1. \A S : PQ!Cardinality(S) = PQT!Cardinality(S)
    BY Zenon DEF PQ!Cardinality, PQT!Cardinality
  <2> QED
    BY <2>1 DEF WakeInv, PQ!NoLostWakeup, PQT!NoLostWakeup
<1> QED
  BY <1>1, <1>2, <1>3, PTL DEF Safety

(***************************************************************************)
(* The reader that sleeps in the queueFlush of a jump sleeps for good: it  *)
(* is the only one that adds packets, and therefore the only one that      *)
(* wakes.  This is why the violation of SeekClearsQueues is no delay       *)
(* (readpacketsthread.cpp 43-44, packetqueue.cpp 31-48, 57-64).            *)
(***************************************************************************)
FlushWaitIsFinal ==
  [][\A q \in Streams : "reader" \in sleeping[q] =>
       "reader" \in sleeping'[q] /\ UNCHANGED readerPc]_vars

\* No operation but enQueue wakes.
LEMMA OnlyEnQueueWakes ==
  ASSUME PQ!TypeOK, NEW q \in Streams,
         \/ \E t \in Threads, r \in Streams : PQ!CallFlush(t, r) \/ PQ!DeQueue(t, r)
         \/ \E t \in Threads : PQ!InCall(t)
  PROVE  sleeping[q] \subseteq sleeping'[q]
<1>0. sleeping \in [Streams -> SUBSET Threads]
  BY DEF PQ!TypeOK
<1>1. ASSUME NEW t, NEW r, PQ!Wait(t, r) PROVE sleeping[q] \subseteq sleeping'[q]
  BY <1>0, <1>1 DEF PQ!Wait
<1>2. ASSUME UNCHANGED sleeping PROVE sleeping[q] \subseteq sleeping'[q]
  BY <1>2
<1>3. ASSUME NEW t, NEW r, PQ!CallFlush(t, r) \/ PQ!DeQueue(t, r) PROVE sleeping[q] \subseteq sleeping'[q]
  BY <1>1, <1>2, <1>3 DEF PQ!CallFlush, PQ!DeQueue
<1>4. ASSUME NEW t, PQ!InCall(t) PROVE sleeping[q] \subseteq sleeping'[q]
  BY <1>1, <1>2, <1>4 DEF PQ!InCall, PQ!Resume, PQ!FlushTest, PQ!FlushTake
<1> QED
  BY <1>3, <1>4

LEMMA ReaderSleepsOn ==
  ASSUME PlayerInv, QueuesInv, [Next]_vars, NEW q \in Streams, "reader" \in sleeping[q]
  PROVE  "reader" \in sleeping'[q] /\ UNCHANGED readerPc
<1>0. PQ!TypeOK /\ {"gui", "reader", "decoder", "audio"} \subseteq Threads /\ {"audio", "video"} \subseteq Streams
  BY DEF PlayerInv, TypeOK, Threads, Streams
<1>1. ~Running("reader")
  <2>1. call["reader"] \in {PQT!In("deQueue", q), PQT!In("take", q)}
    BY <1>0 DEF QueuesInv, PQT!WaitersInCall
  <2> QED
    BY <2>1 DEF Running, PQ!Idle, PQT!In
<1>2. UNCHANGED readerPc
  BY <1>1, ReaderMoves
<1> SUFFICES "reader" \in sleeping'[q]
  BY <1>2
<1>3. CASE User \/ GuiContinues
  <2>1. UNCHANGED packetVars \/ \E r \in {"audio", "video"} : PQ!CallFlush("gui", r)
    BY <1>3 DEF User, OnOpenFileClicked, ReceivePos, GuiContinues, CloseJoin, CloseClearFrames,
       CloseClearPackets, CloseInput, ConfigOpen, ConfigInfo, ConfigStreams, ConfigAudio,
       ConfigVideo, ConfigStart, Play, PlayJoin, SyncMedia, SyncMediaDequeue, SyncMediaShow,
       ConfigUnchanged
  <2> QED
    BY <1>0, <2>1, OnlyEnQueueWakes DEF packetVars
<1>4. CASE Decoder \/ Audio
  <2>1. UNCHANGED sleeping \/ PQ!DeQueue("decoder", "video") \/ PQ!DeQueue("audio", "audio")
    BY <1>4 DEF Decoder, DecoderCheck, DecoderDeQueue, DecoderDecode, Audio, AudioDeQueue,
       AudioDecode, AudioReturn, packetVars
  <2> QED
    BY <1>0, <2>1, OnlyEnQueueWakes
<1>5. ASSUME NEW t \in Threads, QueueCall(t) PROVE "reader" \in sleeping'[q]
  BY <1>0, <1>5, OnlyEnQueueWakes DEF QueueCall, packetVars
<1>6. CASE UNCHANGED vars
  BY <1>6 DEF vars, packetVars
<1> QED
  BY <1>0, <1>1, <1>3, <1>4, <1>5, <1>6 DEF Next, Step

THEOREM ReaderStuckForGood == Safety => FlushWaitIsFinal
<1>1. Init => PlayerInv /\ QueuesInv
  BY PlayerInit, QueuesInit
<1>2. PlayerInv /\ QueuesInv /\ [Next]_vars => PlayerInv' /\ QueuesInv'
  BY PlayerStep, QueuesStep
<1>3. PlayerInv /\ QueuesInv /\ [Next]_vars =>
        [\A q \in Streams : "reader" \in sleeping[q] =>
           "reader" \in sleeping'[q] /\ UNCHANGED readerPc]_vars
  BY ReaderSleepsOn
<1> QED
  BY <1>1, <1>2, <1>3, PTL DEF Safety, FlushWaitIsFinal

(***************************************************************************)
(* An open that waits for a callback that waits for a packet waits for     *)
(* good, if the reader has none in hand: to read one it needs the mutex    *)
(* close holds, and no other thread adds packets.  This is why the         *)
(* violation of OpenReturns is no delay (media.cpp 230-233, 216-221,       *)
(* packetqueue.cpp 17-48).                                                 *)
(***************************************************************************)
CloseStuck ==
  /\ guiPc = "join" /\ device = "closing"
  /\ audioPc = "callback" /\ "audio" \in sleeping["audio"]
  /\ readerPc \in {"top", "getContext", "check", "context", "error", "done"}

CloseWaitIsFinal == [][CloseStuck => CloseStuck']_vars

LEMMA CloseSleepsOn ==
  ASSUME PlayerInv, QueuesInv, [Next]_vars, CloseStuck
  PROVE  CloseStuck'
<1> USE DEF CloseStuck
<1>0. PQ!TypeOK /\ {"gui", "reader", "decoder", "audio"} \subseteq Threads /\ {"audio", "video"} \subseteq Streams
  BY DEF PlayerInv, TypeOK, Threads, Streams
<1>1. ~Running("audio")
  <2>1. call["audio"] \in {PQT!In("deQueue", "audio"), PQT!In("take", "audio")}
    BY <1>0 DEF QueuesInv, PQT!WaitersInCall
  <2> QED
    BY <2>1 DEF Running, PQ!Idle, PQT!In
<1>2. ~User /\ ~GuiContinues
  BY DEF User, OnOpenFileClicked, ReceivePos, GuiContinues, CloseJoin, AudioThreadEnds,
     CloseClearFrames, CloseClearPackets, CloseInput, ConfigOpen, ConfigInfo, ConfigStreams,
     ConfigAudio, ConfigVideo, ConfigStart, Play, PlayJoin, SyncMedia, SyncMediaDequeue,
     SyncMediaShow
<1>3. CASE Reader
  <2>1. ReaderTop \/ ReaderCheck
    BY <1>3 DEF Reader, ReaderGetContext, ReaderSeek, ReaderClearPackets, ReaderClearFrames,
       ReaderSeekDone, ReaderRead, ReaderError, ReaderDispatch, ReaderAt, MediaLocked
  <2>2. readerPc' \in {"getContext", "check", "top"}
    BY <2>1 DEF ReaderTop, ReaderCheck, ReaderAt, ReaderTo, MediaLocked
  <2>3. UNCHANGED <<guiPc, device, audioPc, sleeping>>
    BY <2>1 DEF ReaderTop, ReaderCheck, ReaderUnchanged, packetVars, guiVars
  <2> QED
    BY <2>2, <2>3
<1>4. CASE Decoder
  <2>1. UNCHANGED <<guiPc, device, audioPc, readerPc>>
    BY <1>4 DEF Decoder, DecoderCheck, DecoderDeQueue, DecoderDecode, DecoderUnchanged, guiVars,
       readerVars
  <2>2. UNCHANGED sleeping \/ PQ!DeQueue("decoder", "video")
    BY <1>4 DEF Decoder, DecoderCheck, DecoderDeQueue, DecoderDecode, packetVars
  <2> QED
    BY <1>0, <2>1, <2>2, OnlyEnQueueWakes
<1>5. ASSUME NEW t \in Threads, QueueCall(t) PROVE CloseStuck'
  <2>1. UNCHANGED <<guiPc, device, audioPc, readerPc>>
    BY <1>5 DEF QueueCall, guiVars, readerVars
  <2>2. UNCHANGED sleeping \/ PQ!InCall(t)
    BY <1>5 DEF QueueCall, packetVars
  <2> QED
    BY <1>0, <2>1, <2>2, OnlyEnQueueWakes
<1>6. CASE UNCHANGED vars
  BY <1>6 DEF vars, packetVars, guiVars, readerVars
<1> QED
  BY <1>0, <1>1, <1>2, <1>3, <1>4, <1>5, <1>6 DEF Next, Step

THEOREM OpenStuckForGood == Safety => CloseWaitIsFinal
<1>1. Init => PlayerInv /\ QueuesInv
  BY PlayerInit, QueuesInit
<1>2. PlayerInv /\ QueuesInv /\ [Next]_vars => PlayerInv' /\ QueuesInv'
  BY PlayerStep, QueuesStep
<1>3. PlayerInv /\ QueuesInv /\ [Next]_vars => [CloseStuck => CloseStuck']_vars
  BY CloseSleepsOn
<1> QED
  BY <1>1, <1>2, <1>3, PTL DEF Safety, CloseWaitIsFinal
-----------------------------------------------------------------------------
(***************************************************************************)
(* What BytesBounded needs: from the reader's test to its enQueue no queue *)
(* is above its limit.  The test reads the counters, which are the sums    *)
(* only because the bound holds and they have not wrapped around.          *)
(***************************************************************************)
BytesInv ==
  /\ BytesBounded
  /\ readerPc \in {"context", "read", "dispatch"} =>
       \A s \in Streams : PQ!QueuedBytes(queue[s]) <= MaxQueued[s]

PacketSizes == [p \in Packets |-> Bytes[File[p.n]]]

LEMMA QueuedSum ==
  ASSUME NEW packets
  PROVE  /\ PQ!QueuedBytes(packets) = PQT!BytesOf(PacketSizes, packets)
         /\ PQT!QueuedBytes(packets) = PQ!QueuedBytes(packets)
  BY DEF PQ!QueuedBytes, PQT!QueuedBytes, PQT!BytesOf, PacketSizes

LEMMA SizesType == PacketSizes \in [Packets -> Nat]
  BY PacketBytes DEF PacketSizes

LEMMA QueuedType ==
  ASSUME NEW packets \in Seq(Packets)
  PROVE  PQ!QueuedBytes(packets) \in Nat
  BY QueueParameters, SizesType, QueuedSum, PQT!SumType

LEMMA StreamLimits ==
  ASSUME NEW s \in Streams
  PROVE  MaxQueued[s] \in Nat /\ Bytes[s] \in Nat /\ MaxQueued[s] + Bytes[s] < Modulus
         /\ Modulus \in Nat
  BY PlayerAssumption DEF Streams

\* Bounded as they are, the counters have not wrapped around.
LEMMA CounterExact ==
  ASSUME PlayerInv, QueuesInv, BytesBounded, NEW s \in Streams
  PROVE  size[s] = PQ!QueuedBytes(queue[s]) /\ PQ!QueuedBytes(queue[s]) \in Nat
<1> DEFINE sum == PQ!QueuedBytes(queue[s])
<1>1. sum \in Nat
  BY QueuedType DEF PlayerInv, TypeOK, PQ!TypeOK
<1>2. size[s] = sum % Modulus
  BY QueuedSum DEF QueuesInv, PQT!SizeIsSum
<1>3. sum <= MaxQueued[s] + Bytes[s]
  BY DEF BytesBounded
<1> HIDE DEF sum
<1>4. sum \in 0 .. Modulus - 1
  BY <1>1, <1>3, StreamLimits
<1>5. sum % Modulus = sum
  BY <1>4, StreamLimits, PQT!ModSmall, QueueParameters
<1> QED
  BY <1>1, <1>2, <1>5 DEF sum

\* Whoever takes a packet makes the sum no larger.
LEMMA TakeLowers ==
  ASSUME NEW packets \in Seq(Packets), packets # << >>
  PROVE  PQ!QueuedBytes(Tail(packets)) <= PQ!QueuedBytes(packets)
<1> DEFINE all == PQ!QueuedBytes(packets)
           rest == PQ!QueuedBytes(Tail(packets))
           first == PacketSizes[Head(packets)]
<1>1. Tail(packets) \in Seq(Packets) /\ Head(packets) \in Packets
  OBVIOUS
<1>2. all = rest + first
  BY QueueParameters, SizesType, QueuedSum, PQT!SumTail
<1>3. rest \in Nat /\ first \in Nat
  BY <1>1, QueuedType, SizesType
<1> HIDE DEF all, rest, first
<1>4. rest <= all
  BY <1>2, <1>3
<1> QED
  BY <1>4 DEF all, rest

(***************************************************************************)
(* A step takes at most one packet from a queue, unless it is the reader's *)
(* enQueue.                                                                *)
(***************************************************************************)
LEMMA QueueShrinks ==
  ASSUME PlayerInv, [Next]_vars, NEW s \in Streams
  PROVE  \/ queue'[s] = queue[s]
         \/ queue[s] # << >> /\ queue'[s] = Tail(queue[s])
         \/ Running("reader") /\ ReaderDispatch
<1> DEFINE Shrinks == queue'[s] = queue[s] \/ (queue[s] # << >> /\ queue'[s] = Tail(queue[s]))
<1>0. queue \in [Streams -> Seq(Packets)]
  BY DEF PlayerInv, TypeOK, PQ!TypeOK
<1>1. ASSUME NEW q \in Streams, PQ!Pop(q) PROVE Shrinks
  BY <1>0, <1>1 DEF PQ!Pop
<1>2. ASSUME NEW t, NEW q \in Streams, PQ!CallFlush(t, q) \/ PQ!DeQueue(t, q) PROVE Shrinks
  BY <1>1, <1>2 DEF PQ!CallFlush, PQ!DeQueue, PQ!Wait, PQ!content
<1>3. ASSUME NEW t, PQ!InCall(t) PROVE Shrinks
  BY <1>1, <1>3 DEF PQ!InCall, PQ!Resume, PQ!FlushTest, PQ!FlushTake, PQ!Wait, PQ!content
<1> HIDE DEF Shrinks
<1>4. ASSUME UNCHANGED queue PROVE Shrinks
  BY <1>4 DEF Shrinks
<1>5. "audio" \in Streams /\ "video" \in Streams
  BY DEF Streams
<1>6. CASE User \/ GuiContinues
  <2>1. UNCHANGED queue \/ \E q \in {"audio", "video"} : PQ!CallFlush("gui", q)
    BY <1>6 DEF User, OnOpenFileClicked, ReceivePos, GuiContinues, CloseJoin, CloseClearFrames,
       CloseClearPackets, CloseInput, ConfigOpen, ConfigInfo, ConfigStreams, ConfigAudio,
       ConfigVideo, ConfigStart, Play, PlayJoin, SyncMedia, SyncMediaDequeue, SyncMediaShow,
       ConfigUnchanged, packetVars
  <2>2. Shrinks
    BY <1>2, <1>4, <1>5, <2>1
  <2> QED
    BY <2>2 DEF Shrinks
<1>7. CASE Running("reader") /\ Reader
  <2>1. \/ UNCHANGED queue
        \/ \E q \in {"audio", "video"} : PQ!CallFlush("reader", q)
        \/ ReaderDispatch
    BY <1>7 DEF Reader, ReaderTop, ReaderGetContext, ReaderSeek, ReaderClearPackets,
       ReaderClearFrames, ReaderSeekDone, ReaderCheck, ReaderRead, ReaderError, packetVars
  <2>2. Shrinks \/ ReaderDispatch
    BY <1>2, <1>4, <1>5, <2>1
  <2> QED
    BY <1>7, <2>2 DEF Shrinks
<1>8. CASE Decoder \/ Audio
  <2>1. UNCHANGED queue \/ PQ!DeQueue("decoder", "video") \/ PQ!DeQueue("audio", "audio")
    BY <1>8 DEF Decoder, DecoderCheck, DecoderDeQueue, DecoderDecode, Audio, AudioDeQueue,
       AudioDecode, AudioReturn, packetVars
  <2>2. Shrinks
    BY <1>2, <1>4, <1>5, <2>1
  <2> QED
    BY <2>2 DEF Shrinks
<1>9. ASSUME NEW t \in Threads, QueueCall(t) PROVE Shrinks
  BY <1>3, <1>4, <1>9 DEF QueueCall, packetVars
<1>10. CASE UNCHANGED vars
  BY <1>4, <1>10 DEF vars, packetVars, Shrinks
<1> QED
  BY <1>6, <1>7, <1>8, <1>9, <1>10 DEF Next, Step, Threads, Shrinks

\* Steps that add no packet, and do not pass the reader's test.
LEMMA BytesShrink ==
  ASSUME PlayerInv, BytesInv, [Next]_vars, ~(Running("reader") /\ ReaderDispatch)
  PROVE  /\ BytesBounded'
         /\ \A s \in Streams : PQ!QueuedBytes(queue[s]) <= MaxQueued[s]
                                 => PQ!QueuedBytes(queue'[s]) <= MaxQueued[s]
<1> SUFFICES ASSUME NEW s \in Streams
             PROVE  /\ PQ!QueuedBytes(queue'[s]) <= MaxQueued[s] + Bytes[s]
                    /\ PQ!QueuedBytes(queue[s]) <= MaxQueued[s]
                         => PQ!QueuedBytes(queue'[s]) <= MaxQueued[s]
  BY DEF BytesBounded, PQ!QueuedBytes
<1> DEFINE before == PQ!QueuedBytes(queue[s])
           after == PQ!QueuedBytes(queue'[s])
<1>1. queue[s] \in Seq(Packets) /\ queue'[s] \in Seq(Packets)
  BY TypeStep DEF PlayerInv, TypeOK, PQ!TypeOK
<1>2. before \in Nat /\ after \in Nat
  BY <1>1, QueuedType
<1>3. after <= before
  <2>1. CASE queue'[s] = queue[s]
    BY <1>2, <2>1
  <2>2. CASE queue[s] # << >> /\ queue'[s] = Tail(queue[s])
    BY <1>1, <2>2, TakeLowers
  <2> QED
    BY <2>1, <2>2, QueueShrinks
<1>4. before <= MaxQueued[s] + Bytes[s]
  BY DEF BytesInv, BytesBounded
<1> HIDE DEF before, after
<1>5. after <= MaxQueued[s] + Bytes[s] /\ (before <= MaxQueued[s] => after <= MaxQueued[s])
  BY <1>2, <1>3, <1>4, StreamLimits
<1> QED
  BY <1>5 DEF before, after

LEMMA BytesDispatch ==
  ASSUME PlayerInv, BytesInv, ReaderDispatch
  PROVE  BytesBounded'
<1> DEFINE p == pkt["reader"]
           r == File[p.n]
<1>1. p \in Packets /\ \A s \in Streams : PQ!QueuedBytes(queue[s]) <= MaxQueued[s]
  BY DEF ReaderDispatch, ReaderAt, PlayerInv, HandInv, BytesInv
<1>2. queue \in [Streams -> Seq(Packets)]
  BY DEF PlayerInv, TypeOK, PQ!TypeOK
<1> SUFFICES ASSUME NEW s \in Streams
             PROVE  PQ!QueuedBytes(queue'[s]) <= MaxQueued[s] + Bytes[s]
  BY DEF BytesBounded, PQ!QueuedBytes
<1> DEFINE before == PQ!QueuedBytes(queue[s])
<1>3. before \in Nat /\ before <= MaxQueued[s]
  BY <1>1, <1>2, QueuedType
<1>4. CASE queue'[s] = queue[s]
  <2> HIDE DEF before
  <2>1. before <= MaxQueued[s] + Bytes[s]
    BY <1>3, StreamLimits
  <2> QED
    BY <1>4, <2>1 DEF before
<1>5. CASE s = r /\ PQ!EnQueue(r, p)
  <2>1. queue'[s] = Append(queue[s], p)
    BY <1>2, <1>5 DEF PQ!EnQueue
  <2>2. PQ!QueuedBytes(Append(queue[s], p)) = before + PacketSizes[p]
    BY <1>1, <1>2, QueueParameters, SizesType, QueuedSum, PQT!SumAppend
  <2>3. PacketSizes[p] = Bytes[s]
    BY <1>1, <1>5 DEF PacketSizes
  <2> HIDE DEF before
  <2>4. before + Bytes[s] <= MaxQueued[s] + Bytes[s]
    BY <1>3, StreamLimits
  <2> QED
    BY <2>1, <2>2, <2>3, <2>4
<1>6. UNCHANGED packetVars \/ PQ!EnQueue(r, p)
  BY DEF ReaderDispatch
<1>7. queue'[s] = queue[s] \/ (s = r /\ PQ!EnQueue(r, p))
  BY <1>2, <1>6 DEF packetVars, PQ!EnQueue
<1> QED
  BY <1>4, <1>5, <1>7

LEMMA BytesStep ==
  ASSUME PlayerInv, QueuesInv, BytesInv, [Next]_vars
  PROVE  BytesInv'
<1> DEFINE Below == \A s \in Streams : PQ!QueuedBytes(queue[s]) <= MaxQueued[s]
<1>1. CASE Running("reader") /\ ReaderDispatch
  BY <1>1, BytesDispatch DEF ReaderDispatch, ReaderTo, BytesInv
<1>2. CASE ~(Running("reader") /\ ReaderDispatch)
  <2>1. BytesBounded' /\ (Below => Below')
    BY <1>2, BytesShrink DEF PQ!QueuedBytes
  <2>2. CASE readerPc \in {"context", "read", "dispatch"}
    BY <2>1, <2>2 DEF BytesInv, PQ!QueuedBytes
  <2>3. CASE ReaderCheck /\ ~checkMediaSizeValid
    <3>1. \A s \in Streams : size[s] <= MaxQueued[s]
      <4> SUFFICES ASSUME NEW s \in Streams PROVE size[s] <= MaxQueued[s]
        OBVIOUS
      <4>1. ~(size[s] > MaxQueued[s]) /\ size[s] \in Int
        BY <2>3 DEF checkMediaSizeValid, PlayerInv, TypeOK, PQ!TypeOK
      <4> QED
        BY <4>1, StreamLimits
    <3>2. Below
      BY <3>1, CounterExact DEF BytesInv
    <3> QED
      BY <2>1, <3>2 DEF BytesInv, PQ!QueuedBytes
  <2>4. CASE readerPc' \notin {"context", "read", "dispatch"}
    BY <2>1, <2>4 DEF BytesInv
  <2>5. \/ readerPc \in {"context", "read", "dispatch"}
        \/ ReaderCheck /\ ~checkMediaSizeValid
        \/ readerPc' \notin {"context", "read", "dispatch"}
    <3>1. CASE Reader
      BY <3>1 DEF Reader, ReaderTop, ReaderGetContext, ReaderSeek, ReaderClearPackets,
         ReaderClearFrames, ReaderSeekDone, ReaderCheck, ReaderRead, ReaderError, ReaderDispatch,
         ReaderAt, ReaderTo
    <3>2. CASE UNCHANGED readerPc
      BY <3>2
    <3>3. Reader \/ UNCHANGED readerPc
      BY ReaderMoves
    <3> QED
      BY <3>1, <3>2, <3>3
  <2> QED
    BY <2>2, <2>3, <2>4, <2>5
<1> QED
  BY <1>1, <1>2

(***************************************************************************)
(* A packet queue exceeds its limit by one packet at most, for any limits  *)
(* and any number of threads that flush and take: the reader tests both    *)
(* queues before it reads, and nobody else adds a packet.  So the 32-bit   *)
(* counters never wrap around, which the test itself relies on (media.cpp  *)
(* 137-145, readpacketsthread.cpp 49-54, 80-90).                           *)
(***************************************************************************)
THEOREM QueuesBounded == Safety => []BytesBounded
<1> DEFINE Inv == PlayerInv /\ QueuesInv /\ BytesInv
<1>1. Init => Inv
  <2> SUFFICES ASSUME Init PROVE BytesInv
    BY PlayerInit, QueuesInit
  <2>1. \A s \in Streams : queue[s] = << >>
    BY DEF Init, PQ!Init
  <2>2. PQ!QueuedBytes(<< >>) = 0
    BY QueueParameters, QueuedSum, PQT!SumEmpty
  <2> QED
    BY <2>1, <2>2, StreamLimits DEF BytesInv, BytesBounded
<1>2. Inv /\ [Next]_vars => Inv'
  BY PlayerStep, QueuesStep, BytesStep
<1>3. Inv => BytesBounded
  BY DEF BytesInv
<1> QED
  BY <1>1, <1>2, <1>3, PTL DEF Safety
-----------------------------------------------------------------------------
(***************************************************************************)
(* The order of the pictures.  A line has seven places, from the screen to *)
(* the reader; the frames, the codec and the queue are sequences, the      *)
(* other places hold a packet or none.  A line is in order when what is    *)
(* further down comes from later in the files.                             *)
(***************************************************************************)
Sorted(s) == \A i, j \in 1 .. Len(s) : i < j => Before(s[i], s[j])
AllBefore(S, T) == \A f \in S, g \in T : Before(f, g)

Line(screen, gui, fs, cs, decoder, q, reader) ==
  /\ Sorted(fs) /\ Sorted(cs) /\ Sorted(q)
  /\ AllBefore(screen, gui \cup Elements(fs) \cup Elements(cs) \cup decoder \cup Elements(q)
                         \cup reader)
  /\ AllBefore(gui, Elements(fs) \cup Elements(cs) \cup decoder \cup Elements(q) \cup reader)
  /\ AllBefore(Elements(fs), Elements(cs) \cup decoder \cup Elements(q) \cup reader)
  /\ AllBefore(Elements(cs), decoder \cup Elements(q) \cup reader)
  /\ AllBefore(decoder, Elements(q) \cup reader)
  /\ AllBefore(Elements(q), reader)

LEMMA TailSorted ==
  ASSUME NEW s \in Seq(Packets), s # << >>
  PROVE  /\ Tail(s) \in Seq(Packets) /\ Head(s) \in Packets
         /\ Head(s) \in Elements(s)
         /\ Elements(Tail(s)) \subseteq Elements(s)
         /\ Sorted(s) => Sorted(Tail(s)) /\ AllBefore({Head(s)}, Elements(Tail(s)))
<1>1. /\ Len(s) \in Nat /\ Len(s) > 0 /\ Len(Tail(s)) = Len(s) - 1 /\ Head(s) = s[1]
      /\ Tail(s) \in Seq(Packets) /\ Head(s) \in Packets
      /\ \A i \in 1 .. Len(s) - 1 : Tail(s)[i] = s[i + 1]
  OBVIOUS
<1>2. \A i \in 1 .. Len(Tail(s)) : i + 1 \in 1 .. Len(s) /\ Tail(s)[i] = s[i + 1]
  BY <1>1
<1>3. Elements(Tail(s)) \subseteq Elements(s) /\ Head(s) \in Elements(s)
  BY <1>1, <1>2 DEF Elements
<1>4. ASSUME Sorted(s) PROVE Sorted(Tail(s)) /\ AllBefore({Head(s)}, Elements(Tail(s)))
  <2>1. ASSUME NEW i \in 1 .. Len(Tail(s)), NEW j \in 1 .. Len(Tail(s)), i < j
        PROVE  Before(Tail(s)[i], Tail(s)[j])
    <3>1. i + 1 < j + 1
      BY <2>1
    <3> QED
      BY <1>2, <1>4, <3>1 DEF Sorted
  <2>2. ASSUME NEW i \in 1 .. Len(Tail(s)) PROVE Before(s[1], Tail(s)[i])
    <3>1. 1 < i + 1 /\ 1 \in 1 .. Len(s)
      BY <1>1
    <3> QED
      BY <1>2, <1>4, <3>1 DEF Sorted
  <2> QED
    BY <1>1, <2>1, <2>2 DEF Sorted, AllBefore, Elements
<1> QED
  BY <1>1, <1>3, <1>4

LEMMA AppendSorted ==
  ASSUME NEW s \in Seq(Packets), NEW p \in Packets
  PROVE  /\ Append(s, p) \in Seq(Packets)
         /\ Elements(Append(s, p)) = Elements(s) \cup {p}
         /\ Sorted(s) /\ AllBefore(Elements(s), {p}) => Sorted(Append(s, p))
<1> DEFINE longer == Append(s, p)
<1>1. /\ Len(s) \in Nat /\ Len(longer) = Len(s) + 1 /\ longer \in Seq(Packets)
      /\ longer[Len(s) + 1] = p
      /\ \A i \in 1 .. Len(s) : longer[i] = s[i]
  OBVIOUS
<1> HIDE DEF longer
<1>2. \A i \in 1 .. Len(longer) : i \in 1 .. Len(s) \/ i = Len(s) + 1
  BY <1>1
<1>3. Elements(longer) = Elements(s) \cup {p}
  <2>1. Elements(longer) \subseteq Elements(s) \cup {p}
    BY <1>1, <1>2 DEF Elements
  <2>2. \A i \in 1 .. Len(s) : i \in 1 .. Len(longer)
    BY <1>1
  <2>3. Elements(s) \subseteq Elements(longer)
    BY <1>1, <2>2 DEF Elements
  <2>4. Len(s) + 1 \in 1 .. Len(longer)
    BY <1>1
  <2>5. p \in Elements(longer)
    BY <1>1, <2>4 DEF Elements
  <2> QED
    BY <2>1, <2>3, <2>5
<1>4. ASSUME Sorted(s), AllBefore(Elements(s), {p}) PROVE Sorted(longer)
  <2> SUFFICES ASSUME NEW i \in 1 .. Len(longer), NEW j \in 1 .. Len(longer), i < j
               PROVE  Before(longer[i], longer[j])
    BY DEF Sorted
  <2>1. i \in 1 .. Len(s) /\ longer[i] = s[i] /\ s[i] \in Elements(s)
    <3>1. i \in 1 .. Len(s)
      BY <1>1
    <3> QED
      BY <1>1, <3>1 DEF Elements
  <2>2. CASE j \in 1 .. Len(s)
    BY <1>1, <1>4, <2>1, <2>2 DEF Sorted
  <2>3. CASE j = Len(s) + 1
    BY <1>1, <1>4, <2>1, <2>3 DEF AllBefore
  <2> QED
    BY <1>2, <2>2, <2>3
<1> QED
  BY <1>1, <1>3, <1>4 DEF longer

LEMMA NothingSorted == Sorted(<< >>) /\ Elements(<< >>) = {}
  BY DEF Sorted, Elements

(***************************************************************************)
(* What keeps a line in order.                                             *)
(***************************************************************************)
LEMMA LineLess ==
  ASSUME NEW S, NEW G, NEW F, NEW C, NEW D, NEW Q, NEW R, Line(S, G, F, C, D, Q, R),
         NEW S2 \in SUBSET S, NEW G2 \in SUBSET G, NEW D2 \in SUBSET D, NEW R2 \in SUBSET R
  PROVE  Line(S2, G2, F, C, D2, Q, R2)
  BY DEF Line, AllBefore

\* The first frame is taken, and dropped or kept as the gui's.
LEMMA LineTake ==
  ASSUME NEW S, NEW G, NEW F \in Seq(Packets), NEW C, NEW D, NEW Q, NEW R,
         Line(S, G, F, C, D, Q, R), F # << >>
  PROVE  Line(S, G, Tail(F), C, D, Q, R) /\ Line(S, {Head(F)}, Tail(F), C, D, Q, R)
  BY TailSorted DEF Line, AllBefore

\* The first packet of the queue is taken, and dropped or kept as the decoder's.
LEMMA LineFetch ==
  ASSUME NEW S, NEW G, NEW F, NEW C, NEW D, NEW Q \in Seq(Packets), NEW R,
         Line(S, G, F, C, D, Q, R), Q # << >>
  PROVE  Line(S, G, F, C, D, Tail(Q), R) /\ Line(S, G, F, C, {Head(Q)}, Tail(Q), R)
  BY TailSorted DEF Line, AllBefore

\* The frame of the gui is shown.
LEMMA LineShow ==
  ASSUME NEW S, NEW G, NEW F, NEW C, NEW D, NEW Q, NEW R, Line(S, G, F, C, D, Q, R)
  PROVE  Line(G, {}, F, C, D, Q, R)
  BY DEF Line, AllBefore

\* The decoder's packet goes into the codec.
LEMMA LinePush ==
  ASSUME NEW S, NEW G, NEW F, NEW C \in Seq(Packets), NEW p \in Packets, NEW Q, NEW R,
         Line(S, G, F, C, {p}, Q, R)
  PROVE  Line(S, G, F, Append(C, p), {}, Q, R)
  BY AppendSorted DEF Line, AllBefore

\* The oldest picture of the codec is lost, or all of them.
LEMMA LineLose ==
  ASSUME NEW S, NEW G, NEW F, NEW C \in Seq(Packets), NEW D, NEW Q, NEW R,
         Line(S, G, F, C, D, Q, R)
  PROVE  /\ C # << >> => Line(S, G, F, Tail(C), D, Q, R)
         /\ Line(S, G, F, << >>, D, Q, R)
<1>1. Line(S, G, F, << >>, D, Q, R)
  BY NothingSorted DEF Line, AllBefore
<1>2. C # << >> => Line(S, G, F, Tail(C), D, Q, R)
  BY TailSorted DEF Line, AllBefore
<1> QED
  BY <1>1, <1>2

\* The oldest picture of the codec becomes the last frame.
LEMMA LineEmit ==
  ASSUME NEW S, NEW G, NEW F \in Seq(Packets), NEW C \in Seq(Packets), NEW D, NEW Q, NEW R,
         Line(S, G, F, C, D, Q, R), C # << >>
  PROVE  Line(S, G, Append(F, Head(C)), Tail(C), D, Q, R)
<1>1. /\ Head(C) \in Packets /\ Head(C) \in Elements(C)
      /\ Elements(Tail(C)) \subseteq Elements(C)
      /\ Sorted(Tail(C)) /\ AllBefore({Head(C)}, Elements(Tail(C)))
  BY TailSorted DEF Line
<1>2. AllBefore(Elements(F), {Head(C)})
  BY <1>1 DEF Line, AllBefore
<1>3. /\ Elements(Append(F, Head(C))) = Elements(F) \cup {Head(C)}
      /\ Sorted(Append(F, Head(C)))
  BY <1>1, <1>2, AppendSorted DEF Line
<1> QED
  BY <1>1, <1>3 DEF Line, AllBefore

\* The packet of the reader is queued; N comes after it.
LEMMA LineQueue ==
  ASSUME NEW S, NEW G, NEW F, NEW C, NEW D, NEW Q \in Seq(Packets), NEW p \in Packets, NEW N,
         Line(S, G, F, C, D, Q, {p} \cup N), AllBefore({p}, N)
  PROVE  Line(S, G, F, C, D, Append(Q, p), N)
  BY AppendSorted DEF Line, AllBefore
-----------------------------------------------------------------------------
(***************************************************************************)
(* The line of the player.  It ends with the packets that may still be     *)
(* read: those of the files still to be opened, and those of the context   *)
(* that is open from where it is now.  What may still be read gets less    *)
(* with every step, and the packet that is read comes before the rest.     *)
(***************************************************************************)
OnScreen == {shown} \cap Packets
InGui == {frame["gui"]} \cap Packets
InDecoder == {pkt["decoder"]} \cap Packets
InReader == IF readerPc = "dispatch" THEN {pkt["reader"]} ELSE {}

Closing == {"join", "clearAudio", "clearFrames", "clearVideo", "open"}

Ahead(p) ==
  \/ p.file > opens
  \/ guiPc \in Closing /\ p.file = opens
  \/ p.file = ctx /\ (p.era > era \/ (p.era = era /\ p.n > pos))

Future == {p \in Packets : Ahead(p)}

PipelineInOrder ==
  /\ Line(OnScreen, InGui, frames, codec, InDecoder, queue["video"], InReader \cup Future)
  /\ AllBefore(InReader, Future)

(***************************************************************************)
(* What the line needs besides: no file is open that was not chosen, and   *)
(* the reader, which only flushes the queues, keeps what is in its hand.   *)
(***************************************************************************)
FileInv ==
  /\ ctx <= opens
  /\ guiPc \in Closing => ctx < opens

ReaderOnlyFlushes ==
  call["reader"] \in {PQ!Idle} \cup {PQ!In(op, q) : op \in {"empty", "take"}, q \in Streams}

LEMMA FileStep ==
  ASSUME PlayerInv, FileInv, [Next]_vars
  PROVE  FileInv'
<1> USE DEF FileInv, Closing, GoTo
<1>0. opens \in Nat /\ ctx \in Nat
  BY PlayerAssumption DEF PlayerInv, TypeOK
<1>1. CASE OnOpenFileClicked \/ ConfigOpen
  BY <1>0, <1>1 DEF OnOpenFileClicked, ConfigOpen, ConfigFails, ConfigUnchanged, mediaVars
<1>2. CASE \/ CloseJoin \/ CloseClearFrames \/ CloseClearPackets \/ CloseInput
           \/ ConfigInfo \/ ConfigStreams \/ ConfigAudio \/ ConfigVideo \/ ConfigStart
  BY <1>0, <1>2 DEF CloseJoin, CloseClearFrames, CloseClearPackets, CloseInput, ConfigInfo,
     ConfigStreams, ConfigAudio, ConfigVideo, ConfigStart, ConfigFails, ConfigUnchanged, mediaVars
<1>3. CASE ReceivePos \/ Play \/ PlayJoin \/ SyncMedia \/ SyncMediaDequeue \/ SyncMediaShow
  BY <1>0, <1>3 DEF ReceivePos, Play, PlayJoin, SyncMedia, SyncMediaDequeue, SyncMediaShow,
     guiVars, mediaVars
<1>4. CASE Reader
  BY <1>4 DEF Reader, ReaderTop, ReaderGetContext, ReaderSeek, ReaderClearPackets,
     ReaderClearFrames, ReaderSeekDone, ReaderCheck, ReaderRead, ReaderError, ReaderDispatch,
     ReaderUnchanged, guiVars
<1>5. CASE Decoder \/ Audio
  BY <1>5 DEF Decoder, DecoderCheck, DecoderDeQueue, DecoderDecode, DecoderUnchanged, Audio,
     AudioDeQueue, AudioDecode, AudioReturn, AudioUnchanged, guiVars, mediaVars
<1>6. ASSUME NEW t \in Threads, QueueCall(t) PROVE FileInv'
  BY <1>6 DEF QueueCall, guiVars, mediaVars
<1>7. CASE UNCHANGED vars
  BY <1>7 DEF vars, guiVars, mediaVars
<1> QED
  BY <1>1, <1>2, <1>3, <1>4, <1>5, <1>6, <1>7 DEF Next, Step, Threads, User, GuiContinues

LEMMA FutureShrinks ==
  ASSUME PlayerInv, FileInv, [Next]_vars
  PROVE  Future' \subseteq Future
<1> SUFFICES ASSUME NEW p \in Packets, Ahead(p)'
             PROVE  Ahead(p)
  BY DEF Future
<1> USE DEF Ahead, Closing, GoTo
<1>0. /\ opens \in Nat /\ ctx \in Nat /\ era \in Nat /\ pos \in Nat
      /\ p.file \in Nat /\ p.file >= 1 /\ p.era \in Nat /\ p.n \in Nat /\ p.n >= 1
  BY PlayerAssumption DEF PlayerInv, TypeOK, Packets
<1>1. CASE OnOpenFileClicked \/ ConfigOpen \/ CloseInput
  BY <1>0, <1>1 DEF OnOpenFileClicked, ConfigOpen, ConfigFails, ConfigUnchanged, CloseInput,
     mediaVars, readerVars
<1>2. CASE \/ CloseJoin \/ CloseClearFrames \/ CloseClearPackets
           \/ ConfigInfo \/ ConfigStreams \/ ConfigAudio \/ ConfigVideo \/ ConfigStart
  BY <1>0, <1>2 DEF CloseJoin, CloseClearFrames, CloseClearPackets, ConfigInfo, ConfigStreams,
     ConfigAudio, ConfigVideo, ConfigStart, ConfigFails, ConfigUnchanged, mediaVars, readerVars
<1>3. CASE ReceivePos \/ Play \/ PlayJoin \/ SyncMedia \/ SyncMediaDequeue \/ SyncMediaShow
  BY <1>0, <1>3 DEF ReceivePos, Play, PlayJoin, SyncMedia, SyncMediaDequeue, SyncMediaShow,
     guiVars, mediaVars, readerVars
<1>4. CASE Reader
  <2>1. UNCHANGED <<guiPc, opens, ctx>>
    BY <1>4 DEF Reader, ReaderTop, ReaderGetContext, ReaderSeek, ReaderClearPackets,
       ReaderClearFrames, ReaderSeekDone, ReaderCheck, ReaderRead, ReaderError, ReaderDispatch,
       ReaderUnchanged, guiVars
  <2>2. \/ era' = era + 1
        \/ era' = era /\ pos' \in {pos, pos + 1}
    BY <1>4 DEF Reader, ReaderTop, ReaderGetContext, ReaderSeek, ReaderClearPackets,
       ReaderClearFrames, ReaderSeekDone, ReaderCheck, ReaderRead, ReaderError, ReaderDispatch
  <2>3. p.era > era' \/ p.era = era' => p.era > era \/ (p.era = era /\ era' = era)
    BY <1>0, <2>2
  <2> QED
    BY <1>0, <2>1, <2>2, <2>3
<1>5. CASE Decoder \/ Audio
  BY <1>5 DEF Decoder, DecoderCheck, DecoderDeQueue, DecoderDecode, DecoderUnchanged, Audio,
     AudioDeQueue, AudioDecode, AudioReturn, AudioUnchanged, guiVars, mediaVars, readerVars
<1>6. ASSUME NEW t \in Threads, QueueCall(t) PROVE Ahead(p)
  BY <1>6 DEF QueueCall, guiVars, mediaVars, readerVars
<1>7. CASE UNCHANGED vars
  BY <1>7 DEF vars, guiVars, mediaVars, readerVars
<1> QED
  BY <1>1, <1>2, <1>3, <1>4, <1>5, <1>6, <1>7 DEF Next, Step, Threads, User, GuiContinues

\* The packet that is read was ahead, and what is still ahead comes after it.
LEMMA ReadNext ==
  ASSUME PlayerInv, FileInv, ReaderRead, pkt' = [pkt EXCEPT !["reader"] = Packet],
         Valid(readerCtx), pos < Len(File), pos' = pos + 1
  PROVE  Packet \in Future /\ AllBefore({Packet}, Future')
<1>0. /\ opens \in Nat /\ ctx \in Nat /\ era \in Nat /\ pos \in Nat /\ readerCtx = ctx
      /\ Packet \in Packets
  BY PlayerAssumption, PacketRead DEF PlayerInv, TypeOK, Valid
<1>1. Packet.file = ctx /\ Packet.era = era /\ Packet.n = pos + 1
  BY <1>0 DEF Packet
<1>2. UNCHANGED <<guiPc, opens, ctx, era>>
  BY DEF ReaderRead, ReaderUnchanged, guiVars
<1>3. Packet \in Future
  BY <1>0, <1>1 DEF Future, Ahead
<1>4. ASSUME NEW p \in Packets, Ahead(p)' PROVE Before(Packet, p)
  <2>1. p.file \in Nat /\ p.era \in Nat /\ p.n \in Nat
    BY DEF Packets
  <2>2. \/ p.file > ctx
        \/ p.file = ctx /\ (p.era > era \/ (p.era = era /\ p.n > pos + 1))
    BY <1>0, <1>2, <1>4, <2>1 DEF Ahead, FileInv
  <2> QED
    BY <1>0, <1>1, <2>1, <2>2 DEF Before
<1> QED
  BY <1>3, <1>4 DEF AllBefore, Future
-----------------------------------------------------------------------------
\* The calls a thread can be in after a step inside one.
LEMMA ReaderInCall ==
  ASSUME PlayerInv, QueuesInv, ReaderOnlyFlushes, NEW q \in Streams,
         \/ PQ!CallFlush("reader", q) \/ PQ!Resume("reader", q)
         \/ PQ!FlushTest("reader", q) \/ PQ!FlushTake("reader", q)
  PROVE  ReaderOnlyFlushes' /\ UNCHANGED pkt
<1> USE DEF ReaderOnlyFlushes
<1>0. "reader" \in Threads /\ PQ!TypeOK
  BY DEF Threads, PlayerInv, TypeOK
<1>1. ASSUME NEW r, PQ!Return("reader", q, r), call["reader"] = PQ!In("take", q)
      PROVE  ReaderOnlyFlushes' /\ UNCHANGED pkt
  <2>1. call' = [call EXCEPT !["reader"] = PQ!In("empty", q)] /\ UNCHANGED pkt
    BY <1>1 DEF PQ!Return
  <2>2. call'["reader"] = PQ!In("empty", q)
    BY <1>0, <2>1 DEF PQ!TypeOK
  <2> QED
    BY <2>1, <2>2
<1>2. CASE PQ!CallFlush("reader", q)
  <2>1. call'["reader"] = PQ!In("empty", q) /\ UNCHANGED pkt
    BY <1>0, <1>2 DEF PQ!CallFlush, PQ!TypeOK
  <2> QED
    BY <2>1
<1>3. CASE PQ!FlushTest("reader", q)
  <2>1. call'["reader"] \in {PQ!Idle, PQ!In("take", q)} /\ UNCHANGED pkt
    BY <1>0, <1>3 DEF PQ!FlushTest, PQ!TypeOK
  <2> QED
    BY <2>1
<1>4. CASE PQ!FlushTake("reader", q)
  BY <1>1, <1>4 DEF PQ!FlushTake
<1>5. CASE PQ!Resume("reader", q)
  <2>1. call["reader"] \in {PQ!In("deQueue", q), PQ!In("take", q)}
    BY <1>5 DEF PQ!Resume, QueuesInv, PQT!WaitersInCall, PQ!In, PQT!In
  <2>2. call["reader"] = PQ!In("take", q)
    BY <2>1 DEF PQ!In, PQ!Idle
  <2> QED
    BY <1>1, <1>5, <2>2 DEF PQ!Resume
<1> QED
  BY <1>2, <1>3, <1>4, <1>5

(***************************************************************************)
(* An operation on a packet queue: the first video packet is taken, by the *)
(* decoder or by a flush, or the video queue and the decoder's hand stay.  *)
(* The reader's hand always does.                                          *)
(***************************************************************************)
Fetched ==
  /\ pkt'["reader"] = pkt["reader"]
  /\ \/ queue'["video"] = queue["video"] /\ pkt'["decoder"] = pkt["decoder"]
     \/ /\ queue["video"] # << >> /\ queue'["video"] = Tail(queue["video"])
        /\ pkt'["decoder"] \in {pkt["decoder"], Head(queue["video"])}

LEMMA OperationFetches ==
  ASSUME PlayerInv, QueuesInv, ReaderOnlyFlushes, NEW t \in Threads, NEW q \in Streams,
         \/ PQ!CallFlush(t, q) /\ t # "decoder"
         \/ PQ!DeQueue(t, q) /\ t # "reader" /\ (t = "decoder" => q = "video")
         \/ PQ!Resume(t, q) \/ PQ!FlushTest(t, q) \/ PQ!FlushTake(t, q)
  PROVE  Fetched /\ ReaderOnlyFlushes'
<1>0. /\ PQ!TypeOK /\ "reader" \in Threads /\ "decoder" \in Threads /\ "video" \in Streams
      /\ call["decoder"] \in {PQ!Idle, PQ!In("deQueue", "video")}
  BY DEF Threads, Streams, PlayerInv, TypeOK, HandInv
<1>1. pkt'["reader"] = pkt["reader"] /\ ReaderOnlyFlushes'
  <2>1. CASE t = "reader"
    BY <2>1, ReaderInCall
  <2>2. CASE t # "reader"
    BY <1>0, <2>2, CallLocal DEF ReaderOnlyFlushes
  <2> QED
    BY <2>1, <2>2
<1>2. CASE t # "decoder"
  <2>1. pkt'["decoder"] = pkt["decoder"]
    BY <1>0, <1>2, CallLocal
  <2>2. \/ queue'["video"] = queue["video"]
        \/ queue["video"] # << >> /\ queue'["video"] = Tail(queue["video"])
    <3>1. queue \in [Streams -> Seq(Packets)]
      BY <1>0 DEF PQ!TypeOK
    <3> QED
      BY <1>0, <3>1 DEF PQ!CallFlush, PQ!DeQueue, PQ!Resume, PQ!FlushTest, PQ!FlushTake, PQ!Pop,
         PQ!Wait, PQ!content
  <2> QED
    BY <1>1, <2>1, <2>2 DEF Fetched
<1>3. CASE t = "decoder"
  <2>1. ASSUME PQ!Pop("video"), PQ!Return("decoder", "video", Head(queue["video"]))
        PROVE  Fetched
    <3>1. queue["video"] # << >> /\ queue'["video"] = Tail(queue["video"])
      BY <1>0, <2>1 DEF PQ!Pop, PQ!TypeOK
    <3>2. pkt'["decoder"] \in {pkt["decoder"], Head(queue["video"])}
      BY <1>0, <2>1 DEF PQ!Return, PQ!TypeOK
    <3> QED
      BY <1>1, <3>1, <3>2 DEF Fetched
  <2>2. CASE PQ!DeQueue(t, q) /\ q = "video"
    BY <1>1, <1>3, <2>1, <2>2 DEF PQ!DeQueue, PQ!Wait, PQ!content, Fetched
  <2>3. CASE PQ!Resume(t, q)
    <3>1. call["decoder"] \in {PQ!In("deQueue", q), PQ!In("take", q)}
      BY <1>3, <2>3 DEF PQ!Resume, QueuesInv, PQT!WaitersInCall, PQ!In, PQT!In
    <3>2. q = "video"
      BY <1>0, <3>1 DEF PQ!In, PQ!Idle
    <3> QED
      BY <1>1, <1>3, <2>1, <2>3, <3>2 DEF PQ!Resume, PQ!Wait, PQ!content, Fetched
  <2>4. CASE PQ!FlushTest(t, q) \/ PQ!FlushTake(t, q)
    BY <1>0, <1>3, <2>4 DEF PQ!FlushTest, PQ!FlushTake, PQ!In, PQ!Idle
  <2> QED
    BY <1>3, <2>2, <2>3, <2>4
<1> QED
  BY <1>1, <1>2, <1>3

(***************************************************************************)
(* An operation on the frame queue by anybody but the decoder.             *)
(***************************************************************************)
Taken ==
  \/ frames' = frames /\ frame'["gui"] = frame["gui"]
  \/ /\ frames # << >> /\ frames' = Tail(frames)
     /\ frame'["gui"] \in {frame["gui"], Head(frames)}

LEMMA OperationTakes ==
  ASSUME FQ!TypeOK, NEW t \in Threads,
         FQ!CallFlush(t) \/ FQ!DeQueue(t) \/ FQ!InCall(t)
  PROVE  Taken
<1>0. frame \in [Threads -> Packets \cup {NoPacket}] /\ "gui" \in Threads
  BY DEF FQ!TypeOK, Threads
<1>1. ASSUME FQ!Take(t) PROVE Taken
  BY <1>0, <1>1 DEF FQ!Take, Taken
<1>2. ASSUME FQ!Wait(t) PROVE Taken
  BY <1>2 DEF FQ!Wait, Taken
<1>3. CASE FQ!CallFlush(t) \/ FQ!FlushTest(t)
  BY <1>3 DEF FQ!CallFlush, FQ!FlushTest, Taken
<1>4. CASE FQ!DeQueue(t) \/ FQ!Resume(t) \/ FQ!FlushTake(t)
  BY <1>1, <1>2, <1>4 DEF FQ!DeQueue, FQ!Resume, FQ!FlushTake
<1> QED
  BY <1>3, <1>4 DEF FQ!InCall
-----------------------------------------------------------------------------
(***************************************************************************)
(* The line stays in order.                                                *)
(***************************************************************************)
OrderInv == PipelineInOrder /\ FileInv /\ ReaderOnlyFlushes

\* Steps that move no packet; a hand may be emptied, the codec too.
LEMMA OrderLess ==
  ASSUME PlayerInv, PipelineInOrder, Future' \subseteq Future,
         UNCHANGED <<shown, frames>>, queue'["video"] = queue["video"],
         frame'["gui"] \in {frame["gui"], NoPacket},
         codec' \in {codec, << >>},
         pkt'["decoder"] = pkt["decoder"],
         InReader' \subseteq InReader
  PROVE  PipelineInOrder'
<1>1. /\ OnScreen' = OnScreen /\ InGui' \subseteq InGui /\ InDecoder' = InDecoder
      /\ InReader' \cup Future' \subseteq InReader \cup Future
  BY DEF OnScreen, InGui, InDecoder, NoPacket, Packets
<1>2. AllBefore(InReader', Future')
  BY DEF PipelineInOrder, AllBefore
<1>3. codec \in Seq(Packets)
  BY DEF PlayerInv, TypeOK
<1>4. Line(OnScreen, InGui, frames, codec', InDecoder, queue["video"], InReader \cup Future)
  BY <1>3, LineLose DEF PipelineInOrder
<1>5. Line(OnScreen, InGui', frames, codec', InDecoder, queue["video"], InReader' \cup Future')
  BY <1>1, <1>4, LineLess
<1> QED
  BY <1>1, <1>2, <1>5 DEF PipelineInOrder

\* The packet queues are operated on, and nothing else moves.
LEMMA OrderFetched ==
  ASSUME PlayerInv, PipelineInOrder, Future' \subseteq Future, Fetched,
         UNCHANGED <<shown, frames, frame, codec>>,
         readerPc' = readerPc \/ readerPc' # "dispatch"
  PROVE  PipelineInOrder'
<1>1. /\ OnScreen' = OnScreen /\ InGui' = InGui
      /\ InReader' \subseteq InReader
      /\ InReader' \cup Future' \subseteq InReader \cup Future
  BY DEF OnScreen, InGui, InReader, Fetched
<1>2. CASE queue'["video"] = queue["video"] /\ pkt'["decoder"] = pkt["decoder"]
  BY <1>1, <1>2, OrderLess
<1>3. CASE /\ queue["video"] # << >> /\ queue'["video"] = Tail(queue["video"])
           /\ pkt'["decoder"] \in {pkt["decoder"], Head(queue["video"])}
  <2>1. queue["video"] \in Seq(Packets) /\ Head(queue["video"]) \in Packets
    <3>1. queue["video"] \in Seq(Packets)
      BY DEF PlayerInv, TypeOK, PQ!TypeOK, Streams
    <3> QED
      BY <1>3, <3>1, TailSorted
  <2>2. InDecoder' \in {InDecoder, {Head(queue["video"])}}
    BY <1>3, <2>1 DEF InDecoder
  <2>3. Line(OnScreen, InGui, frames, codec, InDecoder', queue'["video"], InReader \cup Future)
    <3>1. Line(OnScreen, InGui, frames, codec, InDecoder, queue["video"], InReader \cup Future)
      BY DEF PipelineInOrder
    <3>2. /\ Line(OnScreen, InGui, frames, codec, InDecoder, Tail(queue["video"]),
                  InReader \cup Future)
          /\ Line(OnScreen, InGui, frames, codec, {Head(queue["video"])}, Tail(queue["video"]),
                  InReader \cup Future)
      BY <1>3, <2>1, <3>1, LineFetch
    <3> QED
      BY <1>3, <2>2, <3>2
  <2>4. Line(OnScreen, InGui, frames, codec, InDecoder', queue'["video"], InReader' \cup Future')
    BY <1>1, <2>3, LineLess
  <2>5. AllBefore(InReader', Future')
    BY <1>1 DEF PipelineInOrder, AllBefore
  <2> QED
    BY <1>1, <2>4, <2>5 DEF PipelineInOrder
<1> QED
  BY <1>2, <1>3 DEF Fetched

\* The frame queue is operated on, and nothing else moves.
LEMMA OrderTaken ==
  ASSUME PlayerInv, PipelineInOrder, Future' \subseteq Future, Taken,
         UNCHANGED <<shown, queue, pkt, codec>>,
         readerPc' = readerPc \/ readerPc' # "dispatch"
  PROVE  PipelineInOrder'
<1>1. /\ OnScreen' = OnScreen /\ InDecoder' = InDecoder
      /\ InReader' \subseteq InReader
      /\ InReader' \cup Future' \subseteq InReader \cup Future
  BY DEF OnScreen, InDecoder, InReader
<1>2. CASE frames' = frames /\ frame'["gui"] = frame["gui"]
  BY <1>1, <1>2, OrderLess
<1>3. CASE /\ frames # << >> /\ frames' = Tail(frames)
           /\ frame'["gui"] \in {frame["gui"], Head(frames)}
  <2>1. frames \in Seq(Packets) /\ Head(frames) \in Packets
    <3>1. frames \in Seq(Packets)
      BY DEF PlayerInv, TypeOK, FQ!TypeOK
    <3> QED
      BY <1>3, <3>1, TailSorted
  <2>2. InGui' \in {InGui, {Head(frames)}}
    BY <1>3, <2>1 DEF InGui
  <2>3. Line(OnScreen, InGui', frames', codec, InDecoder, queue["video"], InReader \cup Future)
    <3>1. Line(OnScreen, InGui, frames, codec, InDecoder, queue["video"], InReader \cup Future)
      BY DEF PipelineInOrder
    <3>2. /\ Line(OnScreen, InGui, Tail(frames), codec, InDecoder, queue["video"],
                  InReader \cup Future)
          /\ Line(OnScreen, {Head(frames)}, Tail(frames), codec, InDecoder, queue["video"],
                  InReader \cup Future)
      BY <1>3, <2>1, <3>1, LineTake
    <3> QED
      BY <1>3, <2>2, <3>2
  <2>4. Line(OnScreen, InGui', frames', codec, InDecoder, queue["video"], InReader' \cup Future')
    BY <1>1, <2>3, LineLess
  <2>5. AllBefore(InReader', Future')
    BY <1>1 DEF PipelineInOrder, AllBefore
  <2> QED
    BY <1>1, <2>4, <2>5 DEF PipelineInOrder
<1> QED
  BY <1>2, <1>3 DEF Taken

LEMMA OrderShow ==
  ASSUME PlayerInv, PipelineInOrder, Future' \subseteq Future, SyncMediaShow
  PROVE  PipelineInOrder' /\ Before(shown, shown')
<1>1. frame["gui"] \in Packets /\ frame'["gui"] = NoPacket
  BY DEF SyncMediaShow, PlayerInv, TypeOK, FQ!TypeOK, Threads
<1>2. /\ OnScreen' = InGui /\ InGui' = {} /\ InDecoder' = InDecoder /\ InReader' = InReader
      /\ UNCHANGED <<frames, codec, queue>>
      /\ InReader \cup Future' \subseteq InReader \cup Future
  BY <1>1 DEF SyncMediaShow, OnScreen, InGui, InDecoder, InReader, packetVars, readerVars,
     Packets, NoPacket
<1>3. Line(InGui, {}, frames, codec, InDecoder, queue["video"], InReader \cup Future)
  BY LineShow DEF PipelineInOrder
<1>4. Line(InGui, {}, frames, codec, InDecoder, queue["video"], InReader \cup Future')
  BY <1>2, <1>3, LineLess
<1>5. AllBefore(InReader, Future')
  BY DEF PipelineInOrder, AllBefore
<1>6. PipelineInOrder'
  BY <1>2, <1>4, <1>5 DEF PipelineInOrder
<1>7. Before(shown, frame["gui"])
  <2>1. CASE shown \in Packets
    <3>1. shown \in OnScreen /\ frame["gui"] \in InGui
      BY <1>1, <2>1 DEF OnScreen, InGui
    <3> QED
      BY <3>1 DEF PipelineInOrder, Line, AllBefore
  <2>2. CASE shown = NoPacket
    BY <1>1, <2>2 DEF NoPacket, Packets, Before
  <2> QED
    BY <2>1, <2>2 DEF PlayerInv, TypeOK
<1> QED
  BY <1>6, <1>7 DEF SyncMediaShow

LEMMA OrderDecode ==
  ASSUME PlayerInv, PipelineInOrder, Future' \subseteq Future, Running("decoder"), DecoderDecode
  PROVE  PipelineInOrder'
<1> DEFINE last == InReader \cup Future
           p == pkt["decoder"]
<1>1. p \in Packets /\ InDecoder = {p}
  <2>1. p \in Packets
    BY DEF PlayerInv, HandInv, Running, DecoderDecode
  <2> QED
    BY <2>1 DEF InDecoder
<1>2. frames \in Seq(Packets) /\ codec \in Seq(Packets)
  BY DEF PlayerInv, TypeOK, FQ!TypeOK
<1>3. /\ OnScreen' = OnScreen /\ InReader' = InReader /\ UNCHANGED queue
      /\ InDecoder' = {}
  <2>1. pkt'["decoder"] = NoPacket /\ pkt'["reader"] = pkt["reader"]
    BY DEF DecoderDecode, PlayerInv, TypeOK, PQ!TypeOK, Threads
  <2> QED
    BY <2>1 DEF DecoderDecode, DecoderUnchanged, guiVars, readerVars, OnScreen, InReader, InDecoder,
       NoPacket, Packets
<1>4. frame' = frame /\ InGui' = InGui
  BY DEF DecoderDecode, frameVars, FQ!EnQueue, InGui
<1>5. /\ Line(OnScreen, InGui, frames, codec, {}, queue["video"], last)
      /\ Line(OnScreen, InGui, frames, Append(codec, p), {}, queue["video"], last)
  <2>1. Line(OnScreen, InGui, frames, codec, {p}, queue["video"], last)
    BY <1>1 DEF PipelineInOrder
  <2> HIDE DEF last, p
  <2>2. Line(OnScreen, InGui, frames, codec, {}, queue["video"], last)
    BY <2>1, LineLess
  <2> QED
    BY <1>1, <1>2, <2>1, <2>2, LinePush
<1>6. Append(codec, p) \in Seq(Packets)
  BY <1>1, <1>2
<1> HIDE DEF last, p
<1>7. Line(OnScreen, InGui, frames', codec', {}, queue["video"], last)
  <2>1. PICK pictures \in {codec, Append(codec, p)} :
          \/ codec' = pictures /\ frames' = frames
          \/ /\ pictures # << >> /\ codec' = Tail(pictures)
             /\ frames' = frames \/ frames' = Append(frames, Head(pictures))
    BY DEF DecoderDecode, frameVars, FQ!EnQueue, p
  <2>2. pictures \in Seq(Packets) /\ Line(OnScreen, InGui, frames, pictures, {}, queue["video"], last)
    BY <1>2, <1>5, <1>6, <2>1
  <2>3. CASE codec' = pictures /\ frames' = frames
    BY <2>2, <2>3
  <2>4. CASE pictures # << >> /\ codec' = Tail(pictures) /\ frames' = frames
    BY <2>2, <2>4, LineLose
  <2>5. CASE /\ pictures # << >> /\ codec' = Tail(pictures)
             /\ frames' = Append(frames, Head(pictures))
    BY <1>2, <2>2, <2>5, LineEmit
  <2> QED
    BY <2>1, <2>3, <2>4, <2>5
<1>8. InReader' \cup Future' \in SUBSET last
  BY <1>3 DEF last
<1>9. Line(OnScreen, InGui, frames', codec', {}, queue["video"], InReader' \cup Future')
  BY <1>7, <1>8, LineLess
<1>10. AllBefore(InReader', Future')
  BY <1>3 DEF PipelineInOrder, AllBefore
<1> QED
  BY <1>3, <1>4, <1>9, <1>10 DEF PipelineInOrder

LEMMA OrderRead ==
  ASSUME PlayerInv, PipelineInOrder, FileInv, Future' \subseteq Future, ReaderRead
  PROVE  PipelineInOrder'
<1>1. /\ UNCHANGED <<shown, frames, frame, codec, queue>>
  BY DEF ReaderRead, ReaderUnchanged, frameVars, guiVars
<1>2. CASE UNCHANGED pkt /\ readerPc' # "dispatch"
  BY <1>1, <1>2, OrderLess DEF InReader
<1>3. CASE /\ Valid(readerCtx) /\ pos < Len(File) /\ pos' = pos + 1
           /\ pkt' = [pkt EXCEPT !["reader"] = Packet] /\ readerPc' = "dispatch"
  <2>1. Packet \in Future /\ AllBefore({Packet}, Future')
    BY <1>3, ReadNext
  <2>2. pkt'["reader"] = Packet /\ pkt'["decoder"] = pkt["decoder"]
    BY <1>3 DEF PlayerInv, TypeOK, PQ!TypeOK, Threads
  <2>3. /\ OnScreen' = OnScreen /\ InGui' = InGui /\ InDecoder' = InDecoder
        /\ InReader' = {Packet}
    BY <1>1, <1>3, <2>2 DEF OnScreen, InGui, InDecoder, InReader
  <2>4. InReader' \cup Future' \in SUBSET (InReader \cup Future)
    BY <2>1, <2>3
  <2>5. Line(OnScreen, InGui, frames, codec, InDecoder, queue["video"], InReader \cup Future)
    BY DEF PipelineInOrder
  <2>6. Line(OnScreen, InGui, frames, codec, InDecoder, queue["video"], InReader' \cup Future')
    BY <2>4, <2>5, LineLess
  <2> QED
    BY <1>1, <2>1, <2>3, <2>6 DEF PipelineInOrder
<1>4. \/ UNCHANGED pkt /\ readerPc' # "dispatch"
      \/ /\ Valid(readerCtx) /\ pos < Len(File) /\ pos' = pos + 1
         /\ pkt' = [pkt EXCEPT !["reader"] = Packet] /\ readerPc' = "dispatch"
  BY DEF ReaderRead, ReaderTo
<1> QED
  BY <1>2, <1>3, <1>4

LEMMA OrderDispatch ==
  ASSUME PlayerInv, PipelineInOrder, Future' \subseteq Future, ReaderDispatch
  PROVE  PipelineInOrder'
<1> DEFINE p == pkt["reader"]
<1>1. p \in Packets /\ InReader = {p}
  BY DEF ReaderDispatch, ReaderAt, PlayerInv, HandInv, InReader
<1>2. /\ UNCHANGED <<shown, frames, frame, codec, pkt>> /\ InReader' = {}
      /\ UNCHANGED queue \/ \E s \in Streams : PQ!EnQueue(s, p)
  BY DEF ReaderDispatch, ReaderTo, ReaderUnchanged, frameVars, guiVars, packetVars, PQ!EnQueue,
     InReader, PlayerInv, TypeOK
<1>3. CASE queue'["video"] = queue["video"]
  BY <1>2, <1>3, OrderLess
<1>4. CASE queue'["video"] = Append(queue["video"], p)
  <2>1. queue["video"] \in Seq(Packets)
    BY DEF PlayerInv, TypeOK, PQ!TypeOK, Streams
  <2>2. /\ Line(OnScreen, InGui, frames, codec, InDecoder, queue["video"], {p} \cup Future)
        /\ AllBefore({p}, Future)
    BY <1>1 DEF PipelineInOrder
  <2>3. Line(OnScreen, InGui, frames, codec, InDecoder, Append(queue["video"], p), Future)
    BY <1>1, <2>1, <2>2, LineQueue
  <2>4. /\ OnScreen' = OnScreen /\ InGui' = InGui /\ InDecoder' = InDecoder
        /\ InReader' \cup Future' \in SUBSET Future
    BY <1>2 DEF OnScreen, InGui, InDecoder
  <2>5. Line(OnScreen, InGui, frames, codec, InDecoder, Append(queue["video"], p),
             InReader' \cup Future')
    BY <2>3, <2>4, LineLess
  <2>6. AllBefore(InReader', Future')
    BY <1>2 DEF AllBefore
  <2> QED
    BY <1>2, <1>4, <2>4, <2>5, <2>6 DEF PipelineInOrder
<1>5. queue'["video"] = queue["video"] \/ queue'["video"] = Append(queue["video"], p)
  BY <1>2 DEF PQ!EnQueue, PlayerInv, TypeOK, PQ!TypeOK, Streams
<1> QED
  BY <1>3, <1>4, <1>5

LEMMA OrderGui ==
  ASSUME PlayerInv, QueuesInv, OrderInv, Future' \subseteq Future, User \/ GuiContinues
  PROVE  PipelineInOrder' /\ ReaderOnlyFlushes'
<1>0. /\ PipelineInOrder /\ ReaderOnlyFlushes /\ FQ!TypeOK /\ "gui" \in Threads
      /\ "audio" \in Streams /\ "video" \in Streams
  BY DEF OrderInv, PlayerInv, TypeOK, Threads, Streams
<1>1. CASE CloseJoin \/ CloseClearPackets
  <2>1. /\ UNCHANGED <<shown, frames, frame, codec, readerPc>>
        /\ PQ!CallFlush("gui", "audio") \/ PQ!CallFlush("gui", "video")
    BY <1>1 DEF CloseJoin, CloseClearPackets, frameVars, readerVars
  <2>2. Fetched /\ ReaderOnlyFlushes'
    BY <1>0, <2>1, OperationFetches
  <2> QED
    BY <1>0, <2>1, <2>2, OrderFetched
<1>2. CASE CloseClearFrames \/ SyncMediaDequeue
  <2>1. /\ UNCHANGED <<shown, queue, pkt, codec, call, readerPc>>
        /\ FQ!CallFlush("gui") \/ FQ!DeQueue("gui")
    BY <1>2 DEF CloseClearFrames, SyncMediaDequeue, packetVars, readerVars, guiVars
  <2>2. Taken
    BY <1>0, <2>1, OperationTakes
  <2> QED
    BY <1>0, <2>1, <2>2, OrderTaken DEF ReaderOnlyFlushes
<1>3. CASE SyncMediaShow
  BY <1>0, <1>3, OrderShow DEF SyncMediaShow, packetVars, ReaderOnlyFlushes
<1>4. CASE /\ UNCHANGED <<packetVars, frameVars, shown, readerPc>>
           /\ codec' \in {codec, << >>}
  <2>1. PipelineInOrder'
    BY <1>0, <1>4, OrderLess DEF packetVars, frameVars, InReader
  <2> QED
    BY <1>0, <1>4, <2>1 DEF packetVars, ReaderOnlyFlushes
<1>5. CASE OnOpenFileClicked \/ ReceivePos \/ Play \/ PlayJoin \/ SyncMedia \/ CloseInput
  BY <1>4, <1>5 DEF OnOpenFileClicked, ReceivePos, Play, PlayJoin, SyncMedia, CloseInput,
     readerVars, guiVars
<1>6. CASE ConfigOpen \/ ConfigInfo \/ ConfigStreams \/ ConfigAudio \/ ConfigVideo \/ ConfigStart
  BY <1>4, <1>6 DEF ConfigOpen, ConfigInfo, ConfigStreams, ConfigAudio, ConfigVideo, ConfigStart,
     ConfigUnchanged, readerVars
<1> QED
  BY <1>1, <1>2, <1>3, <1>5, <1>6 DEF User, GuiContinues

LEMMA OrderReader ==
  ASSUME PlayerInv, QueuesInv, OrderInv, Future' \subseteq Future, Reader
  PROVE  PipelineInOrder' /\ ReaderOnlyFlushes'
<1>0. /\ PipelineInOrder /\ FileInv /\ ReaderOnlyFlushes /\ FQ!TypeOK /\ "reader" \in Threads
      /\ "audio" \in Streams /\ "video" \in Streams
  BY DEF OrderInv, PlayerInv, TypeOK, Threads, Streams
<1>1. CASE ReaderSeek \/ ReaderClearPackets
  <2>1. /\ UNCHANGED <<shown, frames, frame, codec>> /\ readerPc' # "dispatch"
        /\ PQ!CallFlush("reader", "audio") \/ PQ!CallFlush("reader", "video")
    BY <1>1 DEF ReaderSeek, ReaderClearPackets, ReaderTo, ReaderUnchanged, frameVars, guiVars
  <2>2. Fetched /\ ReaderOnlyFlushes'
    BY <1>0, <2>1, OperationFetches
  <2> QED
    BY <1>0, <2>1, <2>2, OrderFetched
<1>2. CASE ReaderClearFrames
  <2>1. /\ UNCHANGED <<shown, queue, pkt, codec, call>> /\ readerPc' # "dispatch"
        /\ FQ!CallFlush("reader")
    BY <1>2 DEF ReaderClearFrames, ReaderTo, ReaderUnchanged, packetVars, guiVars
  <2>2. Taken
    BY <1>0, <2>1, OperationTakes
  <2> QED
    BY <1>0, <2>1, <2>2, OrderTaken DEF ReaderOnlyFlushes
<1>3. CASE ReaderRead
  <2>1. PipelineInOrder'
    BY <1>0, <1>3, OrderRead
  <2>2. call' = call
    BY <1>3 DEF ReaderRead
  <2> QED
    BY <1>0, <2>1, <2>2 DEF ReaderOnlyFlushes
<1>4. CASE ReaderDispatch
  <2>1. PipelineInOrder'
    BY <1>0, <1>4, OrderDispatch
  <2>2. call' = call
    BY <1>4 DEF ReaderDispatch, PQ!EnQueue, packetVars
  <2> QED
    BY <1>0, <2>1, <2>2 DEF ReaderOnlyFlushes
<1>5. CASE ReaderTop \/ ReaderGetContext \/ ReaderSeekDone \/ ReaderCheck \/ ReaderError
  <2>1. UNCHANGED <<packetVars, frameVars, shown, codec>> /\ readerPc' # "dispatch"
    BY <1>5 DEF ReaderTop, ReaderGetContext, ReaderSeekDone, ReaderCheck, ReaderError, ReaderTo,
       ReaderUnchanged, guiVars
  <2>2. PipelineInOrder'
    BY <1>0, <2>1, OrderLess DEF packetVars, frameVars, InReader
  <2> QED
    BY <1>0, <2>1, <2>2 DEF packetVars, ReaderOnlyFlushes
<1> QED
  BY <1>1, <1>2, <1>3, <1>4, <1>5 DEF Reader

LEMMA OrderDecoder ==
  ASSUME PlayerInv, QueuesInv, OrderInv, Future' \subseteq Future, Running("decoder"), Decoder
  PROVE  PipelineInOrder' /\ ReaderOnlyFlushes'
<1>0. /\ PipelineInOrder /\ ReaderOnlyFlushes /\ "decoder" \in Threads /\ "video" \in Streams
  BY DEF OrderInv, Threads, Streams
<1>1. CASE DecoderCheck
  <2>1. UNCHANGED <<packetVars, frameVars, shown, codec, readerPc>>
    BY <1>1 DEF DecoderCheck, DecoderUnchanged, guiVars, readerVars
  <2>2. PipelineInOrder'
    BY <1>0, <2>1, OrderLess DEF packetVars, frameVars, InReader
  <2> QED
    BY <1>0, <2>1, <2>2 DEF packetVars, ReaderOnlyFlushes
<1>2. CASE DecoderDeQueue
  <2>1. /\ UNCHANGED <<shown, frames, frame, codec, readerPc>> /\ PQ!DeQueue("decoder", "video")
    BY <1>2 DEF DecoderDeQueue, DecoderUnchanged, guiVars, readerVars, frameVars
  <2>2. Fetched /\ ReaderOnlyFlushes'
    BY <1>0, <2>1, OperationFetches
  <2> QED
    BY <1>0, <2>1, <2>2, OrderFetched
<1>3. CASE DecoderDecode
  <2>1. PipelineInOrder'
    BY <1>0, <1>3, OrderDecode
  <2>2. call' = call
    BY <1>3 DEF DecoderDecode
  <2> QED
    BY <1>0, <2>1, <2>2 DEF ReaderOnlyFlushes
<1> QED
  BY <1>1, <1>2, <1>3 DEF Decoder

LEMMA OrderAudio ==
  ASSUME PlayerInv, QueuesInv, OrderInv, Future' \subseteq Future, Audio
  PROVE  PipelineInOrder' /\ ReaderOnlyFlushes'
<1>0. /\ PipelineInOrder /\ ReaderOnlyFlushes /\ "audio" \in Threads /\ "audio" \in Streams
      /\ PQ!TypeOK
  BY DEF OrderInv, Threads, Streams, PlayerInv, TypeOK
<1>1. UNCHANGED <<shown, frames, frame, codec, readerPc>>
  BY DEF Audio, AudioDeQueue, AudioDecode, AudioReturn, AudioUnchanged, guiVars, readerVars,
     frameVars
<1>2. CASE AudioDeQueue
  <2>1. PQ!DeQueue("audio", "audio")
    BY <1>2 DEF AudioDeQueue
  <2>2. Fetched /\ ReaderOnlyFlushes'
    BY <1>0, <2>1, OperationFetches
  <2> QED
    BY <1>0, <1>1, <2>2, OrderFetched
<1>3. CASE AudioDecode \/ AudioReturn
  <2>1. UNCHANGED <<queue, call>> /\ pkt' \in {pkt, [pkt EXCEPT !["audio"] = NoPacket]}
    BY <1>3 DEF AudioDecode, AudioReturn, packetVars
  <2>2. pkt'["decoder"] = pkt["decoder"] /\ pkt'["reader"] = pkt["reader"]
    BY <1>0, <2>1 DEF PQ!TypeOK, Threads
  <2>3. PipelineInOrder'
    BY <1>0, <1>1, <2>1, <2>2, OrderLess DEF InReader
  <2> QED
    BY <1>0, <2>1, <2>3 DEF ReaderOnlyFlushes
<1> QED
  BY <1>2, <1>3 DEF Audio

LEMMA OrderCall ==
  ASSUME PlayerInv, QueuesInv, OrderInv, Future' \subseteq Future, NEW t \in Threads, QueueCall(t)
  PROVE  PipelineInOrder' /\ ReaderOnlyFlushes'
<1>0. PipelineInOrder /\ ReaderOnlyFlushes /\ FQ!TypeOK
  BY DEF OrderInv, PlayerInv, TypeOK
<1>1. UNCHANGED <<shown, codec, readerPc>>
  BY DEF QueueCall, guiVars, readerVars
<1>2. CASE PQ!InCall(t) /\ UNCHANGED frameVars
  <2>1. PICK q \in Streams : PQ!Resume(t, q) \/ PQ!FlushTest(t, q) \/ PQ!FlushTake(t, q)
    BY <1>2 DEF PQ!InCall
  <2>2. Fetched /\ ReaderOnlyFlushes'
    BY <1>0, <2>1, OperationFetches
  <2>3. UNCHANGED <<frames, frame>>
    BY <1>2 DEF frameVars
  <2> QED
    BY <1>0, <1>1, <2>2, <2>3, OrderFetched
<1>3. CASE FQ!InCall(t) /\ UNCHANGED packetVars
  <2>1. Taken
    BY <1>0, <1>3, OperationTakes
  <2>2. UNCHANGED <<queue, pkt, call>>
    BY <1>3 DEF packetVars
  <2> QED
    BY <1>0, <1>1, <2>1, <2>2, OrderTaken DEF ReaderOnlyFlushes
<1> QED
  BY <1>2, <1>3 DEF QueueCall

LEMMA OrderStep ==
  ASSUME PlayerInv, QueuesInv, OrderInv, [Next]_vars
  PROVE  OrderInv' /\ (SyncMediaShow => Before(shown, shown'))
<1>1. FileInv' /\ Future' \subseteq Future /\ PipelineInOrder
  BY FileStep, FutureShrinks DEF OrderInv
<1>2. SyncMediaShow => Before(shown, shown')
  BY <1>1, OrderShow
<1>3. CASE UNCHANGED vars
  <2>1. UNCHANGED <<packetVars, frameVars, shown, codec, readerPc>>
    BY <1>3 DEF vars, guiVars, readerVars
  <2>2. PipelineInOrder'
    BY <1>1, <2>1, OrderLess DEF packetVars, frameVars, InReader
  <2> QED
    BY <1>1, <1>2, <2>1, <2>2 DEF packetVars, OrderInv, ReaderOnlyFlushes
<1>4. CASE Next
  <2>1. PipelineInOrder' /\ ReaderOnlyFlushes'
    <3>1. CASE User \/ GuiContinues
      BY <1>1, <3>1, OrderGui
    <3>2. CASE Reader
      BY <1>1, <3>2, OrderReader
    <3>3. CASE Running("decoder") /\ Decoder
      BY <1>1, <3>3, OrderDecoder
    <3>4. CASE Audio
      BY <1>1, <3>4, OrderAudio
    <3>5. ASSUME NEW t \in Threads, QueueCall(t) PROVE PipelineInOrder' /\ ReaderOnlyFlushes'
      BY <1>1, <3>5, OrderCall
    <3> QED
      BY <1>4, <3>1, <3>2, <3>3, <3>4, <3>5 DEF Next, Step, Threads
  <2> QED
    BY <1>1, <1>2, <2>1 DEF OrderInv
<1> QED
  BY <1>3, <1>4

LEMMA OrderInit == Init => OrderInv
<1> SUFFICES ASSUME Init PROVE OrderInv
  OBVIOUS
<1>1. /\ OnScreen = {} /\ InGui = {} /\ InDecoder = {} /\ InReader = {}
      /\ frames = << >> /\ codec = << >> /\ queue["video"] = << >>
  BY DEF Init, PQ!Init, FQ!Init, OnScreen, InGui, InDecoder, InReader, Threads, Streams,
     NoPacket, Packets
<1>2. Line({}, {}, << >>, << >>, {}, << >>, {} \cup Future)
  BY NothingSorted DEF Line, AllBefore
<1>3. PipelineInOrder
  BY <1>1, <1>2 DEF PipelineInOrder, AllBefore
<1>4. FileInv
  BY DEF Init, FileInv, Closing
<1>5. ReaderOnlyFlushes
  BY DEF Init, PQ!Init, Threads, ReaderOnlyFlushes
<1> QED
  BY <1>3, <1>4, <1>5 DEF OrderInv

(***************************************************************************)
(* Every picture that is shown comes from later in the files than the one  *)
(* before it, through any opens, jumps and failed reads, with any delay in *)
(* the codec, and whichever thread flushes a queue while another takes     *)
(* from it (media.cpp 233-237, readpacketsthread.cpp 41-46, 80-90,         *)
(* video.cpp 199-276, mediaplayer.cpp 37-61).                              *)
(***************************************************************************)
THEOREM PicturesInOrder == Safety => ShownInOrder
<1> DEFINE Inv == PlayerInv /\ QueuesInv /\ OrderInv
<1>1. Init => Inv
  BY PlayerInit, QueuesInit, OrderInit
<1>2. Inv /\ [Next]_vars => Inv'
  BY PlayerStep, QueuesStep, OrderStep
<1>3. Inv /\ [Next]_vars => [SyncMediaShow => Before(shown, shown')]_vars
  BY OrderStep
<1> QED
  BY <1>1, <1>2, <1>3, PTL DEF Safety, ShownInOrder
-----------------------------------------------------------------------------
(***************************************************************************)
(* Jumps.  The reader clears the sound, the packets of the video and the   *)
(* frames, one after the other, and nobody else adds a packet meanwhile.   *)
(* A queue is clear when the flush of it has returned; a frame can still   *)
(* come from what the decoder and the codec hold.                          *)
(***************************************************************************)
Flushing(q) == {PQ!In("empty", q), PQ!In("take", q)}

AudioCleared == readerPc = "clearAudio" => call["reader"] = PQ!Idle
VideoCleared ==
  readerPc # "clearAudio" /\ (readerPc = "clearVideo" => call["reader"] = PQ!Idle)
FramesCleared ==
  /\ readerPc \notin {"clearAudio", "clearVideo"}
  /\ readerPc = "clearFrames" => fcall["reader"] = "idle"

\* Where the reader is in its flushes, and that it keeps what it has read.
FlushInv ==
  /\ readerPc = "dispatch" => pkt["reader"].era = era
  /\ readerPc = "clearAudio" => call["reader"] \in {PQ!Idle} \cup Flushing("audio")
  /\ readerPc = "clearVideo" => call["reader"] \in {PQ!Idle} \cup Flushing("video")
  /\ fcall["reader"] \in {"idle", "empty", "take"}
  /\ FQ!Waiting("reader") => fcall["reader"] = "take"
  /\ "reader" \notin fsleeping \cap fwoken

JumpInv ==
  /\ FlushInv
  /\ AudioCleared => OldIn(Elements(queue["audio"])) = {}
  /\ VideoCleared => OldIn(Elements(queue["video"])) = {}
  /\ FramesCleared => Cardinality(OldIn(OnTheWay)) <= Delay + 1
LEMMA ElementsFinite ==
  ASSUME NEW s \in Seq(Packets)
  PROVE  IsFiniteSet(Elements(s)) /\ Cardinality(Elements(s)) <= Len(s)
<1> DEFINE places == 1 .. Len(s)
           element == [i \in places |-> s[i]]
<1>1. Len(s) \in Nat
  OBVIOUS
<1>2. IsFiniteSet(places) /\ Cardinality(places) = Len(s)
  <2>1. 1 \in Int /\ Len(s) \in Int
    BY <1>1
  <2>2. IsFiniteSet(1 .. Len(s)) /\ Cardinality(1 .. Len(s)) = IF 1 > Len(s) THEN 0 ELSE Len(s) - 1 + 1
    BY <2>1, FS_Interval
  <2> QED
    BY <1>1, <2>2
<1>3. element \in Surjection(places, Elements(s))
  BY DEF Surjection, Elements
<1> QED
  BY <1>2, <1>3, FS_Surjection

\* What is old is found in one of four places.
LEMMA OldFinite ==
  ASSUME PlayerInv
  PROVE  IsFiniteSet(OldIn(OnTheWay))
<1>1. /\ queue["video"] \in Seq(Packets) /\ codec \in Seq(Packets) /\ frames \in Seq(Packets)
  BY DEF PlayerInv, TypeOK, PQ!TypeOK, FQ!TypeOK, Streams
<1>2. IsFiniteSet(Elements(queue["video"]) \cup Elements(codec))
  BY <1>1, ElementsFinite, FS_Union
<1>3. IsFiniteSet(Elements(queue["video"]) \cup Elements(codec) \cup Elements(frames))
  BY <1>1, <1>2, ElementsFinite, FS_Union
<1>4. IsFiniteSet(OnTheWay)
  BY <1>3, FS_AddElement DEF OnTheWay
<1>5. OldIn(OnTheWay) \in SUBSET OnTheWay
  BY DEF OldIn
<1> QED
  BY <1>4, <1>5, FS_Subset

\* Only the reader's own jump raises era, and the reader is where it was unless
\* the step is its own.
LEMMA EraMoves ==
  ASSUME [Next]_vars
  PROVE  (Running("reader") /\ Reader) \/ UNCHANGED <<readerPc, era>>
<1>1. CASE User \/ GuiContinues
  BY <1>1 DEF User, OnOpenFileClicked, ReceivePos, GuiContinues, CloseJoin, CloseClearFrames,
     CloseClearPackets, CloseInput, ConfigOpen, ConfigInfo, ConfigStreams, ConfigAudio,
     ConfigVideo, ConfigStart, Play, PlayJoin, SyncMedia, SyncMediaDequeue, SyncMediaShow,
     ConfigUnchanged, readerVars
<1>2. CASE Decoder \/ Audio
  BY <1>2 DEF Decoder, DecoderCheck, DecoderDeQueue, DecoderDecode, DecoderUnchanged, Audio,
     AudioDeQueue, AudioDecode, AudioReturn, AudioUnchanged, readerVars
<1>3. ASSUME NEW t \in Threads, QueueCall(t) PROVE UNCHANGED <<readerPc, era>>
  BY <1>3 DEF QueueCall, readerVars
<1>4. CASE UNCHANGED vars
  BY <1>4 DEF vars, readerVars
<1> QED
  BY <1>1, <1>2, <1>3, <1>4 DEF Next, Step, Threads

(***************************************************************************)
(* What a step does to the pictures on their way.                          *)
(***************************************************************************)
Still ==
  /\ UNCHANGED <<queue, frames>> /\ codec' \in {codec, << >>}
  /\ pkt'["decoder"] = pkt["decoder"]

LEMMA PicturesMove ==
  ASSUME PlayerInv, QueuesInv, OrderInv, [Next]_vars
  PROVE  \/ Still
         \/ Fetched /\ UNCHANGED <<frames, codec>>
         \/ Taken /\ UNCHANGED <<queue, pkt, codec>>
         \/ Running("decoder") /\ DecoderDecode
         \/ Running("reader") /\ ReaderDispatch
<1> DEFINE Moves == \/ Still
                    \/ Fetched /\ UNCHANGED <<frames, codec>>
                    \/ Taken /\ UNCHANGED <<queue, pkt, codec>>
                    \/ Running("decoder") /\ DecoderDecode
                    \/ Running("reader") /\ ReaderDispatch
<1>0. /\ ReaderOnlyFlushes /\ FQ!TypeOK
      /\ "gui" \in Threads /\ "reader" \in Threads /\ "decoder" \in Threads /\ "audio" \in Threads
      /\ "audio" \in Streams /\ "video" \in Streams
      /\ pkt \in [Threads -> Packets \cup {NoPacket}]
  BY DEF OrderInv, PlayerInv, TypeOK, PQ!TypeOK, Threads, Streams
<1>1. ASSUME Fetched, UNCHANGED <<frames, codec>> PROVE Moves
  BY <1>1
<1>2. ASSUME Taken, UNCHANGED <<queue, pkt, codec>> PROVE Moves
  BY <1>2
<1> HIDE DEF Moves
<1>3. ASSUME Still PROVE Moves
  BY <1>3 DEF Moves
<1>4. CASE User \/ GuiContinues
  <2>1. CASE CloseJoin \/ CloseClearPackets
    <3>1. /\ UNCHANGED <<frames, codec>>
          /\ PQ!CallFlush("gui", "audio") \/ PQ!CallFlush("gui", "video")
      BY <2>1 DEF CloseJoin, CloseClearPackets, frameVars
    <3>2. Fetched
      BY <1>0, <3>1, OperationFetches
    <3> QED
      BY <1>1, <3>1, <3>2
  <2>2. CASE CloseClearFrames \/ SyncMediaDequeue
    <3>1. /\ UNCHANGED <<queue, pkt, codec>>
          /\ FQ!CallFlush("gui") \/ FQ!DeQueue("gui")
      BY <2>2 DEF CloseClearFrames, SyncMediaDequeue, packetVars
    <3>2. Taken
      BY <1>0, <3>1, OperationTakes
    <3> QED
      BY <1>2, <3>1, <3>2
  <2>3. CASE OnOpenFileClicked \/ ReceivePos \/ Play \/ PlayJoin \/ SyncMedia \/ SyncMediaShow
             \/ CloseInput
    BY <1>3, <2>3 DEF OnOpenFileClicked, ReceivePos, Play, PlayJoin, SyncMedia, SyncMediaShow,
       CloseInput, packetVars, frameVars, Still
  <2>4. CASE ConfigOpen \/ ConfigInfo \/ ConfigStreams \/ ConfigAudio \/ ConfigVideo \/ ConfigStart
    BY <1>3, <2>4 DEF ConfigOpen, ConfigInfo, ConfigStreams, ConfigAudio, ConfigVideo,
       ConfigStart, ConfigUnchanged, packetVars, frameVars, Still
  <2> QED
    BY <1>4, <2>1, <2>2, <2>3, <2>4 DEF User, GuiContinues
<1>5. CASE Running("reader") /\ Reader
  <2>1. CASE ReaderSeek \/ ReaderClearPackets
    <3>1. /\ UNCHANGED <<frames, codec>>
          /\ PQ!CallFlush("reader", "audio") \/ PQ!CallFlush("reader", "video")
      BY <2>1 DEF ReaderSeek, ReaderClearPackets, ReaderUnchanged, frameVars
    <3>2. Fetched
      BY <1>0, <3>1, OperationFetches
    <3> QED
      BY <1>1, <3>1, <3>2
  <2>2. CASE ReaderClearFrames
    <3>1. UNCHANGED <<queue, pkt, codec>> /\ FQ!CallFlush("reader")
      BY <2>2 DEF ReaderClearFrames, ReaderUnchanged, packetVars
    <3>2. Taken
      BY <1>0, <3>1, OperationTakes
    <3> QED
      BY <1>2, <3>1, <3>2
  <2>3. CASE ReaderDispatch
    BY <1>5, <2>3 DEF Moves
  <2>4. CASE ReaderRead
    <3>1. UNCHANGED <<queue, frames, codec>> /\ pkt'["decoder"] = pkt["decoder"]
      BY <1>0, <2>4 DEF ReaderRead, ReaderUnchanged, frameVars
    <3> QED
      BY <1>3, <3>1 DEF Still
  <2>5. CASE ReaderTop \/ ReaderGetContext \/ ReaderSeekDone \/ ReaderCheck \/ ReaderError
    BY <1>3, <2>5 DEF ReaderTop, ReaderGetContext, ReaderSeekDone, ReaderCheck, ReaderError,
       ReaderUnchanged, packetVars, frameVars, Still
  <2> QED
    BY <1>5, <2>1, <2>2, <2>3, <2>4, <2>5 DEF Reader
<1>6. CASE Running("decoder") /\ Decoder
  <2>1. CASE DecoderCheck
    BY <1>3, <2>1 DEF DecoderCheck, packetVars, frameVars, Still
  <2>2. CASE DecoderDeQueue
    <3>1. UNCHANGED <<frames, codec>> /\ PQ!DeQueue("decoder", "video")
      BY <2>2 DEF DecoderDeQueue, frameVars
    <3>2. Fetched
      BY <1>0, <3>1, OperationFetches
    <3> QED
      BY <1>1, <3>1, <3>2
  <2>3. CASE DecoderDecode
    BY <1>6, <2>3 DEF Moves
  <2> QED
    BY <1>6, <2>1, <2>2, <2>3 DEF Decoder
<1>7. CASE Audio
  <2>1. CASE AudioDeQueue
    <3>1. UNCHANGED <<frames, codec>> /\ PQ!DeQueue("audio", "audio")
      BY <2>1 DEF AudioDeQueue, AudioUnchanged, frameVars
    <3>2. Fetched
      BY <1>0, <3>1, OperationFetches
    <3> QED
      BY <1>1, <3>1, <3>2
  <2>2. CASE AudioDecode
    <3>1. UNCHANGED <<queue, frames, codec>> /\ pkt'["decoder"] = pkt["decoder"]
      BY <1>0, <2>2 DEF AudioDecode, AudioUnchanged, frameVars
    <3> QED
      BY <1>3, <3>1 DEF Still
  <2>3. CASE AudioReturn
    BY <1>3, <2>3 DEF AudioReturn, AudioUnchanged, packetVars, frameVars, Still
  <2> QED
    BY <1>7, <2>1, <2>2, <2>3 DEF Audio
<1>8. ASSUME NEW t \in Threads, QueueCall(t) PROVE Moves
  <2>1. CASE PQ!InCall(t) /\ UNCHANGED frameVars
    <3>1. UNCHANGED <<frames, codec>>
      BY <1>8, <2>1 DEF QueueCall, frameVars
    <3>2. PICK q \in Streams : PQ!Resume(t, q) \/ PQ!FlushTest(t, q) \/ PQ!FlushTake(t, q)
      BY <2>1 DEF PQ!InCall
    <3>3. Fetched
      BY <1>0, <3>2, OperationFetches
    <3> QED
      BY <1>1, <3>1, <3>3
  <2>2. CASE FQ!InCall(t) /\ UNCHANGED packetVars
    <3>1. UNCHANGED <<queue, pkt, codec>>
      BY <1>8, <2>2 DEF QueueCall, packetVars
    <3>2. Taken
      BY <1>0, <2>2, OperationTakes
    <3> QED
      BY <1>2, <3>1, <3>2
  <2> QED
    BY <1>8, <2>1, <2>2 DEF QueueCall
<1>9. CASE UNCHANGED vars
  BY <1>3, <1>9 DEF vars, packetVars, frameVars, Still
<1> QED
  BY <1>4, <1>5, <1>6, <1>7, <1>8, <1>9 DEF Next, Step, Threads, Moves

\* No step but the reader's enQueue brings a packet on the way.
LEMMA WayShrinks ==
  ASSUME PlayerInv, QueuesInv, OrderInv, [Next]_vars
  PROVE  \/ OnTheWay' \subseteq OnTheWay \cup {NoPacket}
         \/ /\ Running("reader") /\ ReaderDispatch
            /\ OnTheWay' \subseteq OnTheWay \cup {pkt["reader"]}
<1> DEFINE video == queue["video"]
           p == pkt["decoder"]
<1>1. /\ queue \in [Streams -> Seq(Packets)] /\ video \in Seq(Packets)
      /\ codec \in Seq(Packets) /\ frames \in Seq(Packets)
      /\ pkt \in [Threads -> Packets \cup {NoPacket}] /\ "decoder" \in Threads
  BY DEF PlayerInv, TypeOK, PQ!TypeOK, FQ!TypeOK, Streams, Threads
<1>2. OnTheWay = Elements(video) \cup Elements(codec) \cup Elements(frames) \cup {p}
  BY DEF OnTheWay
<1>3. OnTheWay' = Elements(queue'["video"]) \cup Elements(codec') \cup Elements(frames')
                    \cup {pkt'["decoder"]}
  BY DEF OnTheWay, Elements
<1>4. CASE Still
  <2>1. Elements(codec') \subseteq Elements(codec)
    BY <1>4, NothingSorted DEF Still
  <2> QED
    BY <1>2, <1>3, <1>4, <2>1 DEF Still
<1>5. CASE Fetched /\ UNCHANGED <<frames, codec>>
  <2>1. CASE queue'["video"] = video /\ pkt'["decoder"] = p
    BY <1>2, <1>3, <1>5, <2>1
  <2>2. CASE /\ video # << >> /\ queue'["video"] = Tail(video)
             /\ pkt'["decoder"] \in {p, Head(video)}
    <3>1. Head(video) \in Elements(video) /\ Elements(Tail(video)) \subseteq Elements(video)
      BY <1>1, <2>2, TailSorted
    <3> QED
      BY <1>2, <1>3, <1>5, <2>2, <3>1
  <2> QED
    BY <1>5, <2>1, <2>2 DEF Fetched
<1>6. CASE Taken /\ UNCHANGED <<queue, pkt, codec>>
  <2>1. frames' = frames \/ (frames # << >> /\ frames' = Tail(frames))
    BY <1>6 DEF Taken
  <2>2. Elements(frames') \subseteq Elements(frames)
    BY <1>1, <2>1, TailSorted
  <2> QED
    BY <1>2, <1>3, <1>6, <2>2
<1>7. CASE Running("decoder") /\ DecoderDecode
  <2>1. p \in Packets
    BY <1>7 DEF PlayerInv, HandInv, Running, DecoderDecode
  <2>2. UNCHANGED queue /\ pkt'["decoder"] = NoPacket
    BY <1>1, <1>7 DEF DecoderDecode
  <2>3. Append(codec, p) \in Seq(Packets) /\ Elements(Append(codec, p)) = Elements(codec) \cup {p}
    BY <1>1, <2>1, AppendSorted
  <2> HIDE DEF p
  <2>4. PICK pictures \in {codec, Append(codec, p)} :
          \/ codec' = pictures /\ frames' = frames
          \/ /\ pictures # << >> /\ codec' = Tail(pictures)
             /\ frames' = frames \/ frames' = Append(frames, Head(pictures))
    BY <1>7 DEF DecoderDecode, frameVars, FQ!EnQueue, p
  <2>5. pictures \in Seq(Packets) /\ Elements(pictures) \subseteq Elements(codec) \cup {p}
    BY <1>1, <2>3, <2>4
  <2>6. Elements(codec') \cup Elements(frames') \subseteq Elements(pictures) \cup Elements(frames)
    <3>1. CASE codec' = pictures /\ frames' = frames
      BY <3>1
    <3>2. CASE /\ pictures # << >> /\ codec' = Tail(pictures)
               /\ frames' = frames \/ frames' = Append(frames, Head(pictures))
      <4>1. /\ Head(pictures) \in Packets /\ Head(pictures) \in Elements(pictures)
            /\ Elements(Tail(pictures)) \subseteq Elements(pictures)
        BY <2>5, <3>2, TailSorted
      <4>2. Elements(frames') \subseteq Elements(frames) \cup {Head(pictures)}
        BY <1>1, <3>2, <4>1, AppendSorted
      <4> QED
        BY <3>2, <4>1, <4>2
    <3> QED
      BY <2>4, <3>1, <3>2
  <2> QED
    BY <1>2, <1>3, <2>2, <2>5, <2>6
<1>8. CASE Running("reader") /\ ReaderDispatch
  <2>1. pkt["reader"] \in Packets
    BY <1>8 DEF ReaderDispatch, ReaderAt, PlayerInv, HandInv
  <2>2. /\ UNCHANGED <<frames, codec, pkt>>
        /\ UNCHANGED queue \/ \E s : PQ!EnQueue(s, pkt["reader"])
    BY <1>8 DEF ReaderDispatch, ReaderUnchanged, frameVars, packetVars, PQ!EnQueue
  <2>3. queue'["video"] = video \/ queue'["video"] = Append(video, pkt["reader"])
    BY <1>1, <2>2 DEF PQ!EnQueue, Streams
  <2>4. Elements(queue'["video"]) \subseteq Elements(video) \cup {pkt["reader"]}
    BY <1>1, <2>1, <2>3, AppendSorted
  <2> QED
    BY <1>2, <1>3, <1>8, <2>2, <2>4
<1>9. \/ Still
      \/ Fetched /\ UNCHANGED <<frames, codec>>
      \/ Taken /\ UNCHANGED <<queue, pkt, codec>>
      \/ Running("decoder") /\ DecoderDecode
      \/ Running("reader") /\ ReaderDispatch
  BY PicturesMove
<1> QED
  BY <1>4, <1>5, <1>6, <1>7, <1>8, <1>9

(***************************************************************************)
(* The reader is moved by its own code and by the queue it is calling.     *)
(* Every other step leaves it where it is.                                 *)
(***************************************************************************)
ReaderStays ==
  /\ UNCHANGED <<readerPc, era>>
  /\ call'["reader"] = call["reader"] /\ pkt'["reader"] = pkt["reader"]
  /\ fcall'["reader"] = fcall["reader"]
  /\ "reader" \in fsleeping' \cup fwoken' => "reader" \in fsleeping \cup fwoken
  /\ "reader" \notin fsleeping \cap fwoken => "reader" \notin fsleeping' \cap fwoken'

LEMMA FrameCallLocal ==
  ASSUME FQ!TypeOK, NEW t \in Threads \ {"reader"},
         FQ!CallFlush(t) \/ FQ!DeQueue(t) \/ FQ!InCall(t)
  PROVE  /\ fcall'["reader"] = fcall["reader"]
         /\ "reader" \in fsleeping' \cup fwoken' => "reader" \in fsleeping \cup fwoken
         /\ "reader" \notin fsleeping \cap fwoken => "reader" \notin fsleeping' \cap fwoken'
<1>0. fcall \in [Threads -> FQ!Calls] /\ "reader" \in Threads
  BY DEF FQ!TypeOK, Threads
<1>1. fcall'["reader"] = fcall["reader"]
  BY <1>0 DEF FQ!CallFlush, FQ!DeQueue, FQ!InCall, FQ!Resume, FQ!FlushTest, FQ!FlushTake, FQ!Take
<1>2. /\ "reader" \in fsleeping' \cup fwoken' => "reader" \in fsleeping \cup fwoken
      /\ "reader" \notin fsleeping \cap fwoken => "reader" \notin fsleeping' \cap fwoken'
  BY DEF FQ!CallFlush, FQ!DeQueue, FQ!InCall, FQ!Resume, FQ!FlushTest, FQ!FlushTake, FQ!Wait
<1> QED
  BY <1>1, <1>2

LEMMA ReaderLeftAlone ==
  ASSUME PlayerInv, [Next]_vars
  PROVE  (Running("reader") /\ Reader) \/ QueueCall("reader") \/ ReaderStays
<1>0. /\ PQ!TypeOK /\ FQ!TypeOK /\ "reader" \in Threads /\ pkt \in [Threads -> Packets \cup {NoPacket}]
      /\ "gui" \in Threads \ {"reader"} /\ "decoder" \in Threads \ {"reader"}
      /\ "audio" \in Threads \ {"reader"} /\ "audio" \in Streams /\ "video" \in Streams
  BY DEF PlayerInv, TypeOK, PQ!TypeOK, Threads, Streams
<1> DEFINE PacketsStay == call'["reader"] = call["reader"] /\ pkt'["reader"] = pkt["reader"]
           FramesStay ==
             /\ fcall'["reader"] = fcall["reader"]
             /\ "reader" \in fsleeping' \cup fwoken' => "reader" \in fsleeping \cup fwoken
             /\ "reader" \notin fsleeping \cap fwoken => "reader" \notin fsleeping' \cap fwoken'
<1>1. ASSUME NEW t \in Threads \ {"reader"}, NEW q \in Streams,
             \/ PQ!CallFlush(t, q) \/ PQ!DeQueue(t, q) \/ PQ!Resume(t, q)
             \/ PQ!FlushTest(t, q) \/ PQ!FlushTake(t, q)
      PROVE  PacketsStay
  BY <1>0, <1>1, CallLocal
<1>2. UNCHANGED packetVars => PacketsStay
  BY DEF packetVars
<1>3. UNCHANGED frameVars => FramesStay
  BY DEF frameVars
<1>4. (Running("reader") /\ Reader) \/ UNCHANGED <<readerPc, era>>
  BY EraMoves
<1>5. ASSUME PacketsStay, FramesStay PROVE (Running("reader") /\ Reader) \/ ReaderStays
  BY <1>4, <1>5 DEF ReaderStays
<1> HIDE DEF PacketsStay, FramesStay
<1>6. CASE User \/ GuiContinues
  <2>1. PacketsStay
    <3>1. UNCHANGED packetVars \/ PQ!CallFlush("gui", "audio") \/ PQ!CallFlush("gui", "video")
      BY <1>6 DEF User, OnOpenFileClicked, ReceivePos, GuiContinues, CloseJoin, CloseClearFrames,
         CloseClearPackets, CloseInput, ConfigOpen, ConfigInfo, ConfigStreams, ConfigAudio,
         ConfigVideo, ConfigStart, Play, PlayJoin, SyncMedia, SyncMediaDequeue, SyncMediaShow,
         ConfigUnchanged
    <3> QED
      BY <1>0, <1>1, <1>2, <3>1
  <2>2. FramesStay
    <3>1. \/ UNCHANGED frameVars \/ FQ!CallFlush("gui") \/ FQ!DeQueue("gui")
          \/ UNCHANGED <<fsleeping, fwoken, fcall>>
      BY <1>6 DEF User, OnOpenFileClicked, ReceivePos, GuiContinues, CloseJoin, CloseClearFrames,
         CloseClearPackets, CloseInput, ConfigOpen, ConfigInfo, ConfigStreams, ConfigAudio,
         ConfigVideo, ConfigStart, Play, PlayJoin, SyncMedia, SyncMediaDequeue, SyncMediaShow,
         ConfigUnchanged
    <3>2. CASE FQ!CallFlush("gui") \/ FQ!DeQueue("gui")
      BY <1>0, <3>2, FrameCallLocal DEF FramesStay
    <3>3. CASE UNCHANGED <<fsleeping, fwoken, fcall>>
      BY <3>3 DEF FramesStay
    <3> QED
      BY <1>3, <3>1, <3>2, <3>3
  <2> QED
    BY <1>5, <2>1, <2>2
<1>7. CASE Decoder
  <2>1. CASE DecoderCheck
    BY <1>2, <1>3, <1>5, <2>1 DEF DecoderCheck
  <2>2. CASE DecoderDeQueue
    <3>1. UNCHANGED frameVars /\ PQ!DeQueue("decoder", "video")
      BY <2>2 DEF DecoderDeQueue
    <3> QED
      BY <1>0, <1>1, <1>3, <1>5, <3>1
  <2>3. CASE DecoderDecode
    <3>1. PacketsStay
      BY <1>0, <2>3 DEF DecoderDecode, PacketsStay
    <3>2. UNCHANGED frameVars \/ (UNCHANGED fcall /\ (FQ!WakeOne \/ UNCHANGED <<fsleeping, fwoken>>))
      BY <2>3 DEF DecoderDecode, FQ!EnQueue
    <3>3. FramesStay
      BY <1>3, <3>2 DEF FQ!WakeOne, FramesStay
    <3> QED
      BY <1>5, <3>1, <3>3
  <2> QED
    BY <1>7, <2>1, <2>2, <2>3 DEF Decoder
<1>8. CASE Audio
  <2>1. FramesStay
    BY <1>3, <1>8 DEF Audio, AudioDeQueue, AudioDecode, AudioReturn, AudioUnchanged
  <2>2. PacketsStay
    <3>1. UNCHANGED packetVars \/ PQ!DeQueue("audio", "audio") \/ AudioDecode
      BY <1>8 DEF Audio, AudioDeQueue, AudioReturn
    <3>2. CASE AudioDecode
      BY <1>0, <3>2 DEF AudioDecode, PacketsStay
    <3> QED
      BY <1>0, <1>1, <1>2, <3>1, <3>2
  <2> QED
    BY <1>5, <2>1, <2>2
<1>9. ASSUME NEW t \in Threads \ {"reader"}, QueueCall(t)
      PROVE  (Running("reader") /\ Reader) \/ ReaderStays
  <2>1. CASE PQ!InCall(t) /\ UNCHANGED frameVars
    <3>1. PICK q \in Streams : PQ!Resume(t, q) \/ PQ!FlushTest(t, q) \/ PQ!FlushTake(t, q)
      BY <2>1 DEF PQ!InCall
    <3> QED
      BY <1>1, <1>3, <1>5, <2>1, <3>1
  <2>2. CASE FQ!InCall(t) /\ UNCHANGED packetVars
    <3>1. FramesStay
      BY <1>0, <2>2, FrameCallLocal DEF FramesStay
    <3> QED
      BY <1>2, <1>5, <2>2, <3>1
  <2> QED
    BY <1>9, <2>1, <2>2 DEF QueueCall
<1>10. CASE UNCHANGED vars
  BY <1>2, <1>3, <1>5, <1>10 DEF vars
<1> QED
  BY <1>0, <1>6, <1>7, <1>8, <1>9, <1>10 DEF Next, Step

(***************************************************************************)
(* A flush of the reader goes on, or has seen the queue empty.             *)
(***************************************************************************)
LEMMA FlushGoesOn ==
  ASSUME PlayerInv, QueuesInv, NEW q \in Streams, call["reader"] \in Flushing(q),
         PQ!InCall("reader")
  PROVE  /\ pkt'["reader"] = pkt["reader"]
         /\ \/ call'["reader"] \in Flushing(q)
            \/ /\ call'["reader"] = PQ!Idle
               /\ queue[q] = << >> /\ UNCHANGED queue
<1>0. "reader" \in Threads /\ PQ!TypeOK
  BY DEF Threads, PlayerInv, TypeOK
<1>1. PICK r \in Streams : \/ PQ!Resume("reader", r) \/ PQ!FlushTest("reader", r)
                           \/ PQ!FlushTake("reader", r)
  BY DEF PQ!InCall
<1>2. ASSUME NEW p, PQ!Return("reader", r, p), call["reader"] = PQ!In("take", r)
      PROVE  call'["reader"] = PQ!In("empty", r) /\ UNCHANGED pkt
  <2>1. call' = [call EXCEPT !["reader"] = PQ!In("empty", r)] /\ UNCHANGED pkt
    BY <1>2 DEF PQ!Return
  <2> QED
    BY <1>0, <2>1 DEF PQ!TypeOK
<1>3. CASE PQ!FlushTest("reader", r)
  <2>1. r = q
    BY <1>3 DEF PQ!FlushTest, Flushing, PQ!In
  <2>2. /\ call'["reader"] = IF queue[q] = << >> THEN PQ!Idle ELSE PQ!In("take", q)
        /\ UNCHANGED <<pkt, queue>>
    BY <1>0, <1>3, <2>1 DEF PQ!FlushTest, PQ!TypeOK, PQ!content
  <2> QED
    BY <2>2 DEF Flushing
<1>4. CASE PQ!FlushTake("reader", r)
  <2>1. r = q /\ call["reader"] = PQ!In("take", r)
    BY <1>4 DEF PQ!FlushTake, Flushing, PQ!In
  <2> QED
    BY <1>2, <1>4, <2>1 DEF PQ!FlushTake, Flushing
<1>5. CASE PQ!Resume("reader", r)
  <2>1. call["reader"] \in {PQ!In("deQueue", r), PQ!In("take", r)}
    BY <1>5 DEF PQ!Resume, QueuesInv, PQT!WaitersInCall, PQ!In, PQT!In
  <2>2. r = q /\ call["reader"] = PQ!In("take", r)
    BY <2>1 DEF Flushing, PQ!In
  <2> QED
    BY <1>2, <1>5, <2>2 DEF PQ!Resume, Flushing
<1> QED
  BY <1>1, <1>3, <1>4, <1>5

\* Outside a call on a packet queue the reader is not inside one.
LEMMA IdleInNoQueue ==
  ASSUME QueuesInv, call["reader"] = PQ!Idle
  PROVE  ~PQ!InCall("reader")
<1> SUFFICES ASSUME NEW q \in Streams,
                    \/ PQ!Resume("reader", q) \/ PQ!FlushTest("reader", q)
                    \/ PQ!FlushTake("reader", q)
             PROVE  FALSE
  BY DEF PQ!InCall
<1>1. CASE PQ!Resume("reader", q)
  <2>1. call["reader"] \in {PQ!In("deQueue", q), PQ!In("take", q)}
    BY <1>1 DEF PQ!Resume, QueuesInv, PQT!WaitersInCall, PQ!In, PQT!In, Threads
  <2> QED
    BY <2>1 DEF PQ!In, PQ!Idle
<1>2. CASE PQ!FlushTest("reader", q) \/ PQ!FlushTake("reader", q)
  BY <1>2 DEF PQ!FlushTest, PQ!FlushTake, PQ!In, PQ!Idle
<1> QED
  BY <1>1, <1>2

LEMMA FrameFlushGoesOn ==
  ASSUME PlayerInv, FlushInv, FQ!InCall("reader")
  PROVE  /\ fcall'["reader"] \in {"idle", "empty", "take"}
         /\ "reader" \in fsleeping' \cup fwoken' => fcall'["reader"] = "take"
         /\ "reader" \notin fsleeping' \cap fwoken'
         /\ fcall["reader"] # "idle"
         /\ fcall'["reader"] = "idle" => frames = << >> /\ UNCHANGED frames
<1>0. fcall \in [Threads -> FQ!Calls] /\ "reader" \in Threads
  BY DEF Threads, PlayerInv, TypeOK, FQ!TypeOK
<1>1. CASE FQ!FlushTest("reader")
  <2>1. "reader" \notin fsleeping \cup fwoken
    BY <1>1 DEF FQ!FlushTest, FlushInv, FQ!Waiting
  <2> QED
    BY <1>0, <1>1, <2>1 DEF FQ!FlushTest
<1>2. fcall["reader"] = "take" /\ FQ!Take("reader") => fcall'["reader"] = "empty"
  BY <1>0 DEF FQ!Take
<1>3. CASE FQ!FlushTake("reader")
  BY <1>2, <1>3 DEF FQ!FlushTake, FQ!Wait, FQ!Waiting, FlushInv
<1>4. CASE FQ!Resume("reader")
  <2>1. fcall["reader"] = "take"
    BY <1>4 DEF FQ!Resume, FlushInv, FQ!Waiting
  <2>2. CASE FQ!Take("reader")
    BY <1>2, <1>4, <2>1, <2>2 DEF FQ!Resume, FlushInv
  <2> QED
    BY <1>4, <2>1, <2>2 DEF FQ!Resume, FQ!Wait, FlushInv
<1> QED
  BY <1>1, <1>3, <1>4 DEF FQ!InCall

\* No call on a packet queue takes the packet the reader has in hand away.
LEMMA ReaderKeepsPacket ==
  ASSUME PlayerInv, QueuesInv, OrderInv, PQ!InCall("reader")
  PROVE  pkt'["reader"] = pkt["reader"]
<1>1. ReaderOnlyFlushes /\ "reader" \in Threads
  BY DEF OrderInv, Threads
<1>2. PICK q \in Streams : \/ PQ!Resume("reader", q) \/ PQ!FlushTest("reader", q)
                           \/ PQ!FlushTake("reader", q)
  BY DEF PQ!InCall
<1>3. UNCHANGED pkt
  BY <1>1, <1>2, ReaderInCall
<1> QED
  BY <1>3

(***************************************************************************)
(* What has been cleared stays cleared, and what becomes clear was empty   *)
(* when its flush returned.                                                *)
(***************************************************************************)
LEMMA ClearedStep ==
  ASSUME PlayerInv, QueuesInv, OrderInv, FlushInv, [Next]_vars,
         ~(Running("reader") /\ ReaderSeek)
  PROVE  /\ FlushInv' /\ UNCHANGED era
         /\ AudioCleared' => AudioCleared \/ queue'["audio"] = << >>
         /\ VideoCleared' => VideoCleared \/ queue'["video"] = << >>
         /\ FramesCleared' => \/ FramesCleared
                              \/ /\ readerPc = "clearFrames"
                                 /\ frames' = << >> /\ UNCHANGED <<queue, pkt, codec>>
<1> USE DEF AudioCleared, VideoCleared, FramesCleared
<1>0. /\ PQ!TypeOK /\ FQ!TypeOK /\ "reader" \in Threads
      /\ "audio" \in Streams /\ "video" \in Streams
  BY DEF PlayerInv, TypeOK, Threads, Streams
<1>1. CASE ReaderStays
  BY <1>1 DEF ReaderStays, FlushInv, FQ!Waiting
<1>2. CASE PQ!InCall("reader") /\ UNCHANGED <<frameVars, readerPc, era>>
  <2>1. call["reader"] # PQ!Idle
    BY <1>2, IdleInNoQueue
  <2>2. /\ FQ!Waiting("reader")' => fcall'["reader"] = "take"
        /\ "reader" \notin fsleeping' \cap fwoken' /\ fcall'["reader"] \in {"idle", "empty", "take"}
    BY <1>2 DEF FlushInv, FQ!Waiting, frameVars
  <2>3. CASE readerPc = "clearAudio"
    <3>1. call["reader"] \in Flushing("audio")
      BY <2>1, <2>3 DEF FlushInv
    <3>2. \/ call'["reader"] \in Flushing("audio")
          \/ /\ call'["reader"] = PQ!Idle
             /\ queue["audio"] = << >> /\ UNCHANGED queue
      BY <1>0, <1>2, <3>1, FlushGoesOn
    <3>3. FlushInv'
      BY <1>2, <2>2, <2>3, <3>2 DEF FlushInv, Flushing
    <3> QED
      BY <1>2, <2>3, <3>2, <3>3 DEF Flushing, PQ!In, PQ!Idle
  <2>4. CASE readerPc = "clearVideo"
    <3>1. call["reader"] \in Flushing("video")
      BY <2>1, <2>4 DEF FlushInv
    <3>2. \/ call'["reader"] \in Flushing("video")
          \/ /\ call'["reader"] = PQ!Idle
             /\ queue["video"] = << >> /\ UNCHANGED queue
      BY <1>0, <1>2, <3>1, FlushGoesOn
    <3>3. FlushInv'
      BY <1>2, <2>2, <2>4, <3>2 DEF FlushInv, Flushing
    <3> QED
      BY <1>2, <2>4, <3>2, <3>3 DEF Flushing, PQ!In, PQ!Idle
  <2>5. CASE readerPc \notin {"clearAudio", "clearVideo"}
    <3>1. pkt'["reader"] = pkt["reader"]
      BY <1>0, <1>2, <2>5, ReaderKeepsPacket
    <3>2. FlushInv'
      BY <1>2, <2>2, <2>5, <3>1 DEF FlushInv
    <3> QED
      BY <1>2, <2>5, <3>2 DEF frameVars
  <2> QED
    BY <2>3, <2>4, <2>5
<1>3. CASE FQ!InCall("reader") /\ UNCHANGED <<packetVars, codec, readerPc, era>>
  <2>1. /\ fcall'["reader"] \in {"idle", "empty", "take"}
        /\ FQ!Waiting("reader")' => fcall'["reader"] = "take"
        /\ "reader" \notin fsleeping' \cap fwoken'
        /\ fcall["reader"] # "idle"
        /\ fcall'["reader"] = "idle" => frames = << >> /\ UNCHANGED frames
    BY <1>3, FrameFlushGoesOn DEF FQ!Waiting
  <2>2. FlushInv'
    BY <1>3, <2>1 DEF FlushInv, packetVars
  <2> QED
    BY <1>3, <2>1, <2>2 DEF packetVars
<1>4. CASE Running("reader") /\ Reader
  <2> USE DEF ReaderAt, ReaderTo
  <2>1. fcall["reader"] = "idle" /\ call["reader"] = PQ!Idle
    BY <1>4 DEF Running
  <2>2. AudioCleared /\ (VideoCleared <=> readerPc # "clearAudio")
        /\ (FramesCleared <=> readerPc \notin {"clearAudio", "clearVideo"})
    BY <2>1
  <2>3. CASE ReaderClearPackets
    <3>1. UNCHANGED <<frameVars, era>> /\ readerPc' = "clearVideo" /\ PQ!CallFlush("reader", "video")
      BY <2>3 DEF ReaderClearPackets
    <3>2. call'["reader"] = PQ!In("empty", "video") /\ UNCHANGED pkt
      BY <1>0, <3>1 DEF PQ!CallFlush, PQ!TypeOK
    <3>3. call'["reader"] \in Flushing("video") /\ call'["reader"] # PQ!Idle
      BY <3>2 DEF Flushing, PQ!In, PQ!Idle
    <3>4. FlushInv'
      BY <3>1, <3>3 DEF FlushInv, frameVars, FQ!Waiting
    <3> QED
      BY <2>2, <3>1, <3>3, <3>4
  <2>4. CASE ReaderClearFrames
    <3>1. /\ UNCHANGED <<packetVars, era>> /\ readerPc = "clearVideo" /\ readerPc' = "clearFrames"
          /\ FQ!CallFlush("reader")
      BY <2>4 DEF ReaderClearFrames
    <3>2. fcall'["reader"] = "empty" /\ UNCHANGED <<fsleeping, fwoken>>
      BY <1>0, <3>1 DEF FQ!CallFlush, FQ!TypeOK
    <3>3. FlushInv'
      BY <2>1, <3>1, <3>2 DEF FlushInv, FQ!Waiting
    <3> QED
      BY <2>2, <3>1, <3>2, <3>3
  <2>5. CASE ReaderRead
    <3>1. /\ UNCHANGED <<era, call, frameVars>> /\ readerPc = "read"
          /\ \/ readerPc' = "dispatch" /\ pkt' = [pkt EXCEPT !["reader"] = Packet]
             \/ readerPc' \in {"done", "error"}
      BY <2>5 DEF ReaderRead
    <3>2. readerPc' = "dispatch" => pkt'["reader"].era = era
      <4>1. pkt' = [pkt EXCEPT !["reader"] = Packet] => pkt'["reader"] = Packet
        BY <1>0 DEF PQ!TypeOK
      <4>2. Packet.era = era
        BY DEF Packet
      <4> QED
        BY <3>1, <4>1, <4>2
    <3>3. FlushInv'
      BY <2>1, <3>1, <3>2 DEF FlushInv, frameVars, FQ!Waiting
    <3> QED
      BY <2>2, <3>1, <3>3
  <2>6. CASE ReaderDispatch \/ ReaderTop \/ ReaderGetContext \/ ReaderSeekDone \/ ReaderCheck
             \/ ReaderError
    <3>1. /\ UNCHANGED <<era, frameVars, call>> /\ readerPc \notin {"clearAudio", "clearVideo"}
          /\ readerPc' \notin {"dispatch", "clearAudio", "clearVideo", "clearFrames"}
      BY <2>6 DEF ReaderDispatch, ReaderTop, ReaderGetContext, ReaderSeekDone, ReaderCheck,
         ReaderError, PQ!EnQueue, packetVars
    <3>2. FlushInv'
      BY <2>1, <3>1 DEF FlushInv, frameVars, FQ!Waiting
    <3> QED
      BY <2>2, <3>1, <3>2
  <2> QED
    BY <1>4, <2>3, <2>4, <2>5, <2>6 DEF Reader
<1>5. QueueCall("reader") => \/ PQ!InCall("reader") /\ UNCHANGED <<frameVars, readerPc, era>>
                             \/ FQ!InCall("reader") /\ UNCHANGED <<packetVars, codec, readerPc, era>>
  BY DEF QueueCall, readerVars
<1> QED
  BY <1>1, <1>2, <1>3, <1>4, <1>5, ReaderLeftAlone

\* Nothing old is added: what the reader adds is of the latest jump.
LEMMA OldShrinks ==
  ASSUME PlayerInv, QueuesInv, OrderInv, FlushInv, [Next]_vars, UNCHANGED era
  PROVE  /\ \A s \in Streams : OldIn(Elements(queue[s]))' \subseteq OldIn(Elements(queue[s]))
         /\ OldIn(OnTheWay)' \subseteq OldIn(OnTheWay)
<1>0. queue \in [Streams -> Seq(Packets)] /\ era \in Int
  BY PlayerAssumption DEF PlayerInv, TypeOK, PQ!TypeOK
<1>1. Running("reader") /\ ReaderDispatch => pkt["reader"] \in Packets /\ pkt["reader"].era = era
  BY DEF ReaderDispatch, ReaderAt, PlayerInv, HandInv, FlushInv
<1>2. ASSUME NEW s \in Streams
      PROVE  OldIn(Elements(queue[s]))' \subseteq OldIn(Elements(queue[s]))
  <2>0. queue[s] \in Seq(Packets)
    BY <1>0
  <2>1. CASE queue'[s] = queue[s]
    BY <2>1 DEF OldIn, Elements
  <2>2. CASE queue[s] # << >> /\ queue'[s] = Tail(queue[s])
    <3>1. Elements(queue'[s]) \subseteq Elements(queue[s])
      BY <2>0, <2>2, TailSorted
    <3> QED
      BY <3>1 DEF OldIn, Elements
  <2>3. CASE Running("reader") /\ ReaderDispatch
    <3> DEFINE p == pkt["reader"]
    <3>1. UNCHANGED queue \/ \E r : PQ!EnQueue(r, p)
      BY <2>3 DEF ReaderDispatch, packetVars
    <3>2. queue'[s] = queue[s] \/ queue'[s] = Append(queue[s], p)
      BY <1>0, <3>1 DEF PQ!EnQueue
    <3>3. Elements(queue'[s]) \subseteq Elements(queue[s]) \cup {p}
      <4>1. CASE queue'[s] = Append(queue[s], p)
        <5>1. Elements(Append(queue[s], p)) = Elements(queue[s]) \cup {p}
          BY <1>1, <2>0, <2>3, AppendSorted
        <5> QED
          BY <4>1, <5>1
      <4> QED
        BY <3>2, <4>1
    <3>4. ~(p.era < era)
      BY <1>0, <1>1, <2>3
    <3> QED
      BY <3>3, <3>4 DEF OldIn, Elements
  <2> QED
    BY <2>1, <2>2, <2>3, QueueShrinks
<1>3. OldIn(OnTheWay)' \subseteq OldIn(OnTheWay)
  <2>1. CASE OnTheWay' \subseteq OnTheWay \cup {NoPacket}
    BY <2>1 DEF OldIn
  <2>2. CASE Running("reader") /\ ReaderDispatch /\ OnTheWay' \subseteq OnTheWay \cup {pkt["reader"]}
    <3>1. ~(pkt["reader"].era < era)
      BY <1>0, <1>1, <2>2
    <3> QED
      BY <2>2, <3>1 DEF OldIn
  <2> QED
    BY <2>1, <2>2, WayShrinks
<1> QED
  BY <1>2, <1>3

\* When the frames are clear what is old is in the codec, or in the decoder's hand.
LEMMA FewLeft ==
  ASSUME PlayerInv, NEW S, S \subseteq Elements(codec) \cup {pkt["decoder"]}
  PROVE  Cardinality(S) <= Delay + 1
<1> DEFINE held == Elements(codec)
           all == held \cup {pkt["decoder"]}
<1>1. codec \in Seq(Packets) /\ Len(codec) <= Delay /\ Len(codec) \in Nat /\ Delay \in Nat
  BY PlayerAssumption DEF PlayerInv, TypeOK
<1>2. IsFiniteSet(held) /\ Cardinality(held) <= Len(codec)
  BY <1>1, ElementsFinite
<1> HIDE DEF held
<1>3. IsFiniteSet(all) /\ (Cardinality(all) = Cardinality(held) \/ Cardinality(all) = Cardinality(held) + 1)
  BY <1>2, FS_AddElement
<1>4. Cardinality(held) \in Nat
  BY <1>2, FS_CardinalityType
<1> HIDE DEF all
<1>5. S \in SUBSET all
  BY DEF all, held
<1>6. Cardinality(S) <= Cardinality(all) /\ Cardinality(S) \in Nat /\ Cardinality(all) \in Nat
  BY <1>3, <1>5, FS_Subset, FS_CardinalityType
<1> QED
  BY <1>1, <1>2, <1>3, <1>4, <1>6

LEMMA JumpStep ==
  ASSUME PlayerInv, QueuesInv, OrderInv, JumpInv, [Next]_vars
  PROVE  JumpInv'
<1>0. /\ PQ!TypeOK /\ FlushInv /\ "reader" \in Threads
      /\ "audio" \in Streams /\ "video" \in Streams
  BY DEF PlayerInv, TypeOK, JumpInv, Threads, Streams
<1>1. CASE Running("reader") /\ ReaderSeek
  <2>1. /\ fcall["reader"] = "idle" /\ UNCHANGED frameVars /\ readerPc' = "clearAudio"
        /\ PQ!CallFlush("reader", "audio")
    BY <1>1 DEF ReaderSeek, ReaderTo, Running
  <2>2. call'["reader"] = PQ!In("empty", "audio")
    BY <1>0, <2>1 DEF PQ!CallFlush, PQ!TypeOK
  <2>3. call'["reader"] \in Flushing("audio") /\ call'["reader"] # PQ!Idle
    BY <2>2 DEF Flushing, PQ!In, PQ!Idle
  <2>4. FlushInv'
    BY <1>0, <2>1, <2>3 DEF FlushInv, frameVars, FQ!Waiting
  <2> QED
    BY <2>1, <2>3, <2>4 DEF JumpInv, AudioCleared, VideoCleared, FramesCleared
<1>2. CASE ~(Running("reader") /\ ReaderSeek)
  <2>1. /\ FlushInv' /\ UNCHANGED era
        /\ AudioCleared' => AudioCleared \/ queue'["audio"] = << >>
        /\ VideoCleared' => VideoCleared \/ queue'["video"] = << >>
        /\ FramesCleared' => \/ FramesCleared
                             \/ /\ readerPc = "clearFrames"
                                /\ frames' = << >> /\ UNCHANGED <<queue, pkt, codec>>
    BY <1>0, <1>2, ClearedStep
  <2>2. /\ OldIn(Elements(queue["audio"]))' \subseteq OldIn(Elements(queue["audio"]))
        /\ OldIn(Elements(queue["video"]))' \subseteq OldIn(Elements(queue["video"]))
        /\ OldIn(OnTheWay)' \subseteq OldIn(OnTheWay)
    BY <1>0, <2>1, OldShrinks
  <2>3. AudioCleared' => OldIn(Elements(queue["audio"]))' = {}
    <3>1. queue'["audio"] = << >> => OldIn(Elements(queue["audio"]))' = {}
      BY DEF OldIn, Elements
    <3> QED
      BY <2>1, <2>2, <3>1 DEF JumpInv
  <2>4. VideoCleared' => OldIn(Elements(queue["video"]))' = {}
    <3>1. queue'["video"] = << >> => OldIn(Elements(queue["video"]))' = {}
      BY DEF OldIn, Elements
    <3> QED
      BY <2>1, <2>2, <3>1 DEF JumpInv
  <2>5. FramesCleared' => Cardinality(OldIn(OnTheWay)') <= Delay + 1
    <3>1. CASE FramesCleared
      <4>1. Cardinality(OldIn(OnTheWay)) <= Delay + 1 /\ IsFiniteSet(OldIn(OnTheWay))
        BY <3>1, OldFinite DEF JumpInv
      <4>2. OldIn(OnTheWay)' \in SUBSET OldIn(OnTheWay)
        BY <2>2
      <4>3. /\ Cardinality(OldIn(OnTheWay)') <= Cardinality(OldIn(OnTheWay))
            /\ Cardinality(OldIn(OnTheWay)') \in Nat /\ Cardinality(OldIn(OnTheWay)) \in Nat
        BY <4>1, <4>2, FS_Subset, FS_CardinalityType
      <4> QED
        BY <4>1, <4>3, PlayerAssumption
    <3>2. CASE readerPc = "clearFrames" /\ frames' = << >> /\ UNCHANGED <<queue, pkt, codec>>
      <4>1. OldIn(Elements(queue["video"])) = {}
        BY <3>2 DEF JumpInv, VideoCleared
      <4>2. OnTheWay' = Elements(queue["video"]) \cup Elements(codec) \cup Elements(frames')
                          \cup {pkt["decoder"]}
        BY <3>2 DEF OnTheWay, Elements
      <4>3. Elements(frames') = {}
        BY <3>2, NothingSorted
      <4>4. OldIn(OnTheWay)' \subseteq Elements(codec) \cup {pkt["decoder"]}
        BY <2>1, <4>1, <4>2, <4>3 DEF OldIn
      <4> QED
        BY <4>4, FewLeft
    <3> QED
      BY <2>1, <3>1, <3>2
  <2> QED
    BY <2>1, <2>3, <2>4, <2>5 DEF JumpInv
<1> QED
  BY <1>1, <1>2

LEMMA JumpInit == Init => JumpInv
<1> SUFFICES ASSUME Init PROVE JumpInv
  OBVIOUS
<1>1. /\ queue["audio"] = << >> /\ queue["video"] = << >> /\ codec = << >> /\ frames = << >>
      /\ pkt["decoder"] = NoPacket /\ call["reader"] = PQ!Idle /\ fcall["reader"] = "idle"
      /\ fsleeping = {} /\ fwoken = {} /\ readerPc = "top"
  BY DEF Init, PQ!Init, FQ!Init, Threads, Streams
<1>2. OldIn(Elements(queue["audio"])) = {} /\ OldIn(Elements(queue["video"])) = {}
  BY <1>1, NothingSorted DEF OldIn
<1>3. OldIn(OnTheWay) = {}
  BY <1>1, NothingSorted DEF OldIn, OnTheWay
<1>4. Cardinality(OldIn(OnTheWay)) <= Delay + 1
  BY <1>3, FS_EmptySet, PlayerAssumption
<1> QED
  BY <1>1, <1>2, <1>4 DEF JumpInv, FlushInv, FQ!Waiting

(***************************************************************************)
(* After a jump no sound from before it is left in the queue, and of the   *)
(* pictures at most what the codec holds back and the one the decoder has  *)
(* in hand, however far they get before they are shown                     *)
(* (readpacketsthread.cpp 40-46).                                          *)
(***************************************************************************)
THEOREM JumpLeavesFewPictures == Safety => []SeekLeavesFewPictures
<1> DEFINE Inv == PlayerInv /\ QueuesInv /\ OrderInv /\ JumpInv
<1>1. Init => Inv
  BY PlayerInit, QueuesInit, OrderInit, JumpInit
<1>2. Inv /\ [Next]_vars => Inv'
  BY PlayerStep, QueuesStep, OrderStep, JumpStep
<1>3. Inv => SeekLeavesFewPictures
  BY DEF SeekLeavesFewPictures, JumpInv, AudioCleared, FramesCleared
<1> QED
  BY <1>1, <1>2, <1>3, PTL DEF Safety
=============================================================================
