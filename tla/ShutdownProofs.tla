--------------------------- MODULE ShutdownProofs ---------------------------
(***************************************************************************)
(* Theorems about the end of the program, for any limits of the queues and *)
(* whatever the threads do when it begins.                                 *)
(***************************************************************************)
EXTENDS Shutdown, ByteSums, FiniteSetTheorems, SequenceTheorems, TLAPS

(***************************************************************************)
(* CallbackOutlived is not inductive: it rests on the order of the         *)
(* destructors and on what the session leaves.  Only PlayerUi opens the    *)
(* device, so that no callback runs when ~Audio has closed it; and the     *)
(* audio queue is there until then.                                        *)
(***************************************************************************)
BeforeJoin == mainPc \in Session \cup {"join"}

ExitInv ==
  /\ mainPc \in Session \cup {"join", "destroyAudio"} => AudioAlive /\ ~isExit
  /\ mainPc = "running" => device \in {"open", "closed"}
  /\ mainPc \in {"closeJoin", "pause", "join"} => device \in {"closing", "closed"}
  /\ mainPc \in {"flushAudio", "flushVideo", "open", "config"} => device = "closed"
  /\ ~BeforeJoin => device = "closed"
  /\ audioPc = "callback" => device # "closed"
  /\ audioPc \in {"idle", "callback"}

USE DEF ExitInv, BeforeJoin, AudioAlive, Session, Closing

\* A call of a queue destroys no queue.
LEMMA QueueKeepsAlive ==
  /\ \A q, p : PQ!EnQueue(q, p) => UNCHANGED <<alive, isExit>>
  /\ \A t, q : PQ!DeQueue(t, q) => UNCHANGED <<alive, isExit>>
  /\ \A t, q : PQ!CallFlush(t, q) => UNCHANGED <<alive, isExit>>
  /\ \A t : PQ!InCall(t) => UNCHANGED <<alive, isExit>>
BY DEF PQ!EnQueue, PQ!DeQueue, PQ!CallFlush, PQ!InCall, PQ!Resume, PQ!FlushTest, PQ!FlushTake, PQ!NoExit

LEMMA SessionStep ==
  ASSUME ExitInv, InSession
  PROVE  ExitInv'
<1> USE DEF MainAt, MainTo, SessionUnchanged, MainUnchanged, packetVars, AudioJoined, TellAudio
<1>1. CASE SyncMedia
  BY <1>1 DEF SyncMedia
<1>2. CASE OpenFile
  BY <1>2 DEF OpenFile
<1>3. CASE CloseJoin
  BY <1>3, QueueKeepsAlive DEF CloseJoin
<1>4. CASE CloseFlush
  BY <1>4, QueueKeepsAlive DEF CloseFlush
<1>5. CASE CloseInput
  BY <1>5 DEF CloseInput
<1>6. CASE ConfigOpen
  BY <1>6 DEF ConfigOpen
<1>7. CASE ConfigAndPlay
  BY <1>7 DEF ConfigAndPlay
<1>8. CASE PauseJoin
  BY <1>8 DEF PauseJoin
<1> QED
  BY <1>1, <1>2, <1>3, <1>4, <1>5, <1>6, <1>7, <1>8 DEF InSession

LEMMA MainStep ==
  ASSUME ExitInv, Quit \/ Exiting
  PROVE  ExitInv'
<1> USE DEF MainAt, MainTo, DestructorUnchanged, MainUnchanged, packetVars, AudioJoined, TellAudio
<1>2. CASE Quit
  BY <1>2 DEF Quit
<1>3. CASE CloseAudio
  BY <1>3 DEF CloseAudio
<1>4. CASE DestroyAudio
  BY <1>4 DEF DestroyAudio, PQ!Destroy
<1>5. CASE NullAudio
  BY <1>5 DEF NullAudio
<1>6. CASE DestroyVideo
  BY <1>6 DEF DestroyVideo, PQ!Destroy
<1>7. CASE JoinDecoder
  BY <1>7 DEF JoinDecoder
<1>8. CASE StopReader
  BY <1>8 DEF StopReader
<1>9. CASE JoinReader
  BY <1>9 DEF JoinReader
<1> QED
  BY <1>2, <1>3, <1>4, <1>5, <1>6, <1>7, <1>8, <1>9 DEF Exiting

LEMMA ReaderStep ==
  ASSUME ExitInv, Reader
  PROVE  ExitInv'
<1>1. UNCHANGED <<alive, isExit>>
  BY QueueKeepsAlive DEF Reader, ReaderTest, ReaderLock, ReaderCheck, ReaderContext, ReaderRead,
     ReaderError, ReaderDispatch, ReaderEnqueue, ReaderUnref, packetVars
<1>2. UNCHANGED <<mainPc, device, audioPc>>
  BY DEF Reader, ReaderTest, ReaderLock, ReaderCheck, ReaderContext, ReaderRead, ReaderError,
     ReaderDispatch, ReaderEnqueue, ReaderUnref, ReaderUnchanged, mainVars
<1> QED
  BY <1>1, <1>2

LEMMA DecoderStep ==
  ASSUME ExitInv, Decoder
  PROVE  ExitInv'
<1>1. UNCHANGED <<alive, isExit>>
  BY QueueKeepsAlive DEF Decoder, DecoderTest, DecoderLock, DecoderPoll, DecoderDeQueue,
     DecoderDecode, packetVars
<1>2. UNCHANGED <<mainPc, device, audioPc>>
  BY DEF Decoder, DecoderTest, DecoderLock, DecoderPoll, DecoderDeQueue, DecoderDecode,
     DecoderUnchanged, mainVars
<1> QED
  BY <1>1, <1>2

LEMMA AudioStep ==
  ASSUME ExitInv, Audio
  PROVE  ExitInv'
<1>1. UNCHANGED <<alive, isExit>>
  BY QueueKeepsAlive DEF Audio, AudioDeQueue, AudioDecode, AudioReturn, packetVars
<1>2. UNCHANGED <<mainPc, device>>
  BY DEF Audio, AudioDeQueue, AudioDecode, AudioReturn, AudioUnchanged, mainVars
<1>3. audioPc' \in {"idle", "callback"} /\ (audioPc' = "callback" => device # "closed")
  BY DEF Audio, AudioDeQueue, AudioDecode, AudioReturn
<1> QED
  BY <1>1, <1>2, <1>3

LEMMA ExitStep ==
  ASSUME ExitInv, [Next]_vars
  PROVE  ExitInv'
<1>1. ASSUME NEW t, QueueCall(t) PROVE ExitInv'
  BY <1>1, QueueKeepsAlive DEF QueueCall, mainVars, readerVars
<1>2. CASE UNCHANGED vars
  BY <1>2 DEF vars, packetVars, mainVars, readerVars
<1> QED
  BY <1>1, <1>2, SessionStep, MainStep, ReaderStep, DecoderStep, AudioStep DEF Next, Step

LEMMA ExitInvHolds == Spec => []ExitInv
<1>1. Init => ExitInv
  BY DEF Init, PQ!Init, Streams
<1> QED
  BY <1>1, ExitStep, PTL DEF Spec

(***************************************************************************)
(* ~Audio joins the callback before the buffer and the queue it uses go    *)
(* (audio.cpp 36-42), whatever is in the queues when the program ends.     *)
(***************************************************************************)
THEOREM AudioOutlivesCallback == Spec => []CallbackOutlived
<1>1. ExitInv => CallbackOutlived
  BY DEF CallbackOutlived
<1> QED
  BY <1>1, ExitInvHolds, PTL

-----------------------------------------------------------------------------
(***************************************************************************)
(* The types at the end of the program.  The queues are destroyed under    *)
(* their consumers and the reader writes into them behind their back       *)
(* (ReaderUnref), so that their types are not those of the queues alone;   *)
(* what is proved about the operations of PacketQueue is used here.        *)
(***************************************************************************)
\* PQ, with the theorems about it.
PQT == INSTANCE PacketQueueProofs WITH
  Queues <- Streams, NoPacket <- "none",
  Bytes <- [p \in Packets |-> 1], Modulus <- 2 + MaxQueued["audio"] + MaxQueued["video"]

LEMMA QueueParameters == PQT!Parameters
<1>1. IsFiniteSet(Threads)
  <2>1. IsFiniteSet({"main"})
    BY FS_Singleton
  <2>2. IsFiniteSet({"main"} \cup {"reader"})
    BY <2>1, FS_AddElement
  <2>3. IsFiniteSet({"main"} \cup {"reader"} \cup {"decoder"})
    BY <2>2, FS_AddElement
  <2>4. IsFiniteSet({"main"} \cup {"reader"} \cup {"decoder"} \cup {"audio"})
    BY <2>3, FS_AddElement
  <2>5. Threads = {"main"} \cup {"reader"} \cup {"decoder"} \cup {"audio"}
    BY DEF Threads
  <2> QED
    BY <2>4, <2>5
<1>2. PQT!IsFiniteSet(Threads)
  BY <1>1 DEF IsFiniteSet, PQT!IsFiniteSet
<1>3. "none" \notin Packets
  BY DEF Packets, Streams
<1>4. [p \in Packets |-> 1] \in [Packets -> Nat]
  OBVIOUS
<1>5. 2 + MaxQueued["audio"] + MaxQueued["video"] \in Nat \ {0}
  <2>1. MaxQueued["audio"] \in Nat /\ MaxQueued["video"] \in Nat
    BY ShutdownAssumption DEF Streams
  <2> QED
    BY <2>1
<1> QED
  BY <1>2, <1>3, <1>4, <1>5 DEF PQT!Parameters

LEMMA SameTypes == PQ!TypeOK <=> PQT!TypeOK
  BY DEF PQ!TypeOK, PQT!TypeOK, PQ!Calls, PQT!Calls, PQ!Idle, PQT!Idle

\* A step of one of the queues is one of PacketQueue: it keeps the types, and
\* who waits in which queue.
LEMMA QueueStep ==
  ASSUME PQ!TypeOK,
         \/ \E q \in Streams, p \in Packets : PQ!EnQueue(q, p)
         \/ \E t \in Threads, q \in Streams : PQ!DeQueue(t, q)
         \/ \E t \in Threads, q \in Streams : PQ!CallFlush(t, q)
         \/ \E t \in Threads : PQ!InCall(t)
         \/ \E q \in Streams : PQ!Destroy(q)
  PROVE  PQ!TypeOK' /\ (PQT!WaitersInCall => PQT!WaitersInCall')
<1> USE DEF PQ!NoExit, PQT!NoExit, PQ!content, PQT!content, PQ!In, PQT!In, PQ!Idle, PQT!Idle,
        PQ!Waiting, PQT!Waiting, PQ!WakeOne, PQT!WakeOne
<1>1. ASSUME NEW q \in Streams, NEW p \in Packets, PQ!EnQueue(q, p) PROVE PQT!Next
  <2>1. PQT!EnQueue(q, p)
    BY <1>1 DEF PQ!EnQueue, PQT!EnQueue
  <2> QED
    BY <2>1 DEF PQT!Next
<1>2. ASSUME NEW t \in Threads, NEW q \in Streams, PQ!DeQueue(t, q) PROVE PQT!Next
  <2>1. PQT!DeQueue(t, q)
    BY <1>2 DEF PQ!DeQueue, PQT!DeQueue, PQ!Pop, PQT!Pop, PQ!Wait, PQT!Wait, PQ!Return, PQT!Return
  <2> QED
    BY <2>1 DEF PQT!Next
<1>3. ASSUME NEW t \in Threads, NEW q \in Streams, PQ!CallFlush(t, q) PROVE PQT!Next
  <2>1. PQT!CallFlush(t, q)
    BY <1>3 DEF PQ!CallFlush, PQT!CallFlush
  <2> QED
    BY <2>1 DEF PQT!Next
<1>4. ASSUME NEW t \in Threads, PQ!InCall(t) PROVE PQT!Next
  <2>1. PQT!InCall(t)
    BY <1>4 DEF PQ!InCall, PQT!InCall, PQ!Resume, PQT!Resume, PQ!FlushTest, PQT!FlushTest,
       PQ!FlushTake, PQT!FlushTake, PQ!Pop, PQT!Pop, PQ!Wait, PQT!Wait, PQ!Return, PQT!Return
  <2> QED
    BY <2>1 DEF PQT!Next
<1>5. ASSUME NEW q \in Streams, PQ!Destroy(q) PROVE PQT!Next
  <2>1. PQT!Destroy(q)
    BY <1>5 DEF PQ!Destroy, PQT!Destroy
  <2> QED
    BY <2>1 DEF PQT!Next
<1>6. [PQT!Next]_(PQT!vars)
  BY <1>1, <1>2, <1>3, <1>4, <1>5
<1>7. PQT!TypeOK
  BY SameTypes
<1>8. PQT!TypeOK'
  BY <1>6, <1>7, QueueParameters, PQT!TypeStep
<1>9. PQT!WaitersInCall => PQT!WaitersInCall'
  BY <1>6, <1>7, QueueParameters, PQT!WaitersStep
<1> QED
  BY <1>8, <1>9, SameTypes, PTL

(***************************************************************************)
(* TypeOK is not inductive: that there are never more frames than the      *)
(* queue has places rests on the decoder's test, two steps before it adds  *)
(* one; and that only a packet with a stream gets into a queue on what the *)
(* reader knows of the packet it holds.  Who waits in which queue comes    *)
(* with the types.                                                         *)
(***************************************************************************)
TypeInv ==
  /\ TypeOK
  /\ decoderPc \in {"deQueue", "decode"} => frames < Capacity
  /\ readerPc = "enqueue" => packet \in Streams
  /\ PQT!WaitersInCall

USE DEF Use

QueuesFine == PQ!TypeOK /\ PQT!WaitersInCall

LEMMA QueuesTyped ==
  ASSUME TypeInv, [Next]_vars
  PROVE  QueuesFine'
<1>0. /\ PQ!TypeOK /\ PQT!WaitersInCall
      /\ {"main", "reader", "decoder", "audio"} \subseteq Threads
      /\ {"audio", "video"} \subseteq Streams /\ Streams \subseteq Packets
  BY DEF TypeInv, TypeOK, Threads, Streams, Packets
<1>1. ASSUME UNCHANGED packetVars PROVE QueuesFine'
  BY <1>0, <1>1 DEF packetVars, QueuesFine, PQ!TypeOK, PQ!Calls, PQ!Idle, PQT!WaitersInCall, PQT!In
<1>2. ASSUME NEW t \in Threads, pkt' = [pkt EXCEPT ![t] = "none"],
             UNCHANGED <<queue, size, sleeping, woken, alive, isExit, call>>
      PROVE  QueuesFine'
  BY <1>0, <1>2 DEF QueuesFine, PQ!TypeOK, PQ!Calls, PQ!Idle, PQT!WaitersInCall, PQT!In
<1>q. ASSUME \/ \E q \in Streams, p \in Packets : PQ!EnQueue(q, p)
             \/ \E t \in Threads, q \in Streams : PQ!DeQueue(t, q)
             \/ \E t \in Threads, q \in Streams : PQ!CallFlush(t, q)
             \/ \E t \in Threads : PQ!InCall(t)
             \/ \E q \in Streams : PQ!Destroy(q)
      PROVE  QueuesFine'
  BY <1>0, <1>q, QueueStep DEF QueuesFine
<1>3. CASE InSession \/ Quit \/ Exiting
  <2>1. CASE CloseJoin \/ CloseFlush
    BY <1>0, <1>q, <2>1 DEF CloseJoin, CloseFlush
  <2>2. CASE DestroyAudio \/ DestroyVideo
    BY <1>0, <1>q, <2>2 DEF DestroyAudio, DestroyVideo
  <2>3. CASE SyncMedia \/ OpenFile \/ CloseInput \/ ConfigOpen \/ ConfigAndPlay \/ PauseJoin
    BY <1>1, <2>3 DEF SyncMedia, OpenFile, CloseInput, ConfigOpen, ConfigAndPlay, PauseJoin
  <2>4. CASE Quit \/ CloseAudio \/ NullAudio \/ JoinDecoder \/ StopReader \/ JoinReader
    BY <1>1, <2>4 DEF Quit, CloseAudio, NullAudio, JoinDecoder, StopReader, JoinReader
  <2> QED
    BY <1>3, <2>1, <2>2, <2>3, <2>4 DEF InSession, Exiting
<1>4. CASE Reader
  <2>1. CASE ReaderEnqueue
    <3>1. packet \in Streams
      BY <2>1 DEF ReaderEnqueue, ReaderAt, TypeInv
    <3> QED
      BY <1>0, <1>1, <1>q, <2>1, <3>1 DEF ReaderEnqueue
  <2>2. CASE ReaderUnref
    <3> DEFINE queued == packet \in Streams /\ queue[packet] # << >>
    <3>0. /\ queue' = IF queued THEN [queue EXCEPT ![packet] = [@ EXCEPT ![Len(@)] = "freed"]] ELSE queue
          /\ pkt' = [t \in Threads |-> IF ~queued /\ pkt[t] = packet THEN "freed" ELSE pkt[t]]
          /\ UNCHANGED <<size, sleeping, woken, alive, isExit, call>>
      BY <2>2 DEF ReaderUnref
    <3>1. queue' \in [Streams -> Seq(Packets)]
      <4>1. CASE queued
        <5> DEFINE end == Len(queue[packet])
                   freed == [queue[packet] EXCEPT ![end] = "freed"]
        <5>1. queue' = [queue EXCEPT ![packet] = freed]
          BY <3>0, <4>1
        <5>2. queue[packet] \in Seq(Packets) /\ "freed" \in Packets
          BY <1>0, <4>1 DEF PQ!TypeOK, Packets
        <5>3. end \in 1 .. end
          BY <4>1, <5>2, EmptySeq
        <5>4. freed \in Seq(Packets)
          BY <5>2, <5>3, ExceptSeq
        <5> HIDE DEF freed
        <5> QED
          BY <1>0, <4>1, <5>1, <5>4 DEF PQ!TypeOK
      <4>2. CASE ~queued
        BY <1>0, <3>0, <4>2 DEF PQ!TypeOK
      <4> QED
        BY <4>1, <4>2
    <3>2. pkt' \in [Threads -> Packets \cup {"none"}]
      <4>1. "freed" \in Packets /\ pkt \in [Threads -> Packets \cup {"none"}]
        BY <1>0 DEF PQ!TypeOK, Packets
      <4> HIDE DEF queued
      <4> QED
        BY <3>0, <4>1
    <3> QED
      BY <1>0, <3>0, <3>1, <3>2 DEF QueuesFine, PQ!TypeOK, PQ!Calls, PQ!Idle, PQT!WaitersInCall, PQT!In
  <2> QED
    BY <1>1, <1>4, <2>1, <2>2 DEF Reader, ReaderTest, ReaderLock, ReaderCheck, ReaderContext,
       ReaderRead, ReaderError, ReaderDispatch
<1>5. CASE Decoder
  BY <1>0, <1>1, <1>2, <1>q, <1>5 DEF Decoder, DecoderTest, DecoderLock, DecoderPoll,
     DecoderDeQueue, DecoderDecode
<1>6. CASE Audio
  BY <1>0, <1>1, <1>2, <1>q, <1>6 DEF Audio, AudioDeQueue, AudioDecode, AudioReturn
<1>7. ASSUME NEW t \in Threads, QueueCall(t) PROVE QueuesFine'
  BY <1>0, <1>q, <1>7 DEF QueueCall
<1>8. CASE UNCHANGED vars
  BY <1>1, <1>8 DEF vars
<1> QED
  BY <1>3, <1>4, <1>5, <1>6, <1>7, <1>8 DEF Next, Step, Threads

LEMMA TypeInvStep ==
  ASSUME TypeInv, [Next]_vars
  PROVE  TypeInv'
<1>0. PQ!TypeOK' /\ PQT!WaitersInCall'
  BY QueuesTyped DEF QueuesFine
<1>1. /\ frames \in Nat /\ frames \leq Capacity
      /\ Capacity \in Nat \ {0}
      /\ decoderPc \in {"deQueue", "decode"} => frames < Capacity
  BY ShutdownAssumption DEF TypeInv, TypeOK
<1> USE DEF TypeInv, TypeOK
<1>2. CASE InSession
  <2> USE DEF MainAt, MainTo, SessionUnchanged, MainUnchanged, TellAudio, AudioJoined
  <2>1. UNCHANGED <<audioSet, videoExit, readerExit, audioPc, decoderPc, readerPc, packet, crashed>>
    BY <1>2 DEF InSession, SyncMedia, OpenFile, CloseJoin, CloseFlush, CloseInput, ConfigOpen,
       ConfigAndPlay, PauseJoin
  <2>2. /\ mainPc' \in Session /\ device' \in {"closed", "open", "closing"}
        /\ context' \in {"null", "open"} /\ inHand' \in {"null", "open", "freed"}
        /\ readerPlay' \in BOOLEAN
    BY <1>2 DEF InSession, SyncMedia, OpenFile, CloseJoin, CloseFlush, CloseInput, ConfigOpen,
       ConfigAndPlay, PauseJoin
  <2>3. frames' = frames \/ frames' = 0 \/ (frames > 0 /\ frames' = frames - 1)
    BY <1>2 DEF InSession, SyncMedia, OpenFile, CloseJoin, CloseFlush, CloseInput, ConfigOpen,
       ConfigAndPlay, PauseJoin
  <2>4. frames' \in 0 .. Capacity /\ (decoderPc' \in {"deQueue", "decode"} => frames' < Capacity)
    BY <1>1, <2>1, <2>3
  <2> QED
    BY <1>0, <2>1, <2>2, <2>4
<1>3. CASE Quit \/ Exiting
  <2>1. UNCHANGED <<frames, context, inHand, audioPc, decoderPc, readerPc, packet, readerPlay, crashed>>
    BY <1>3 DEF Quit, Exiting, CloseAudio, DestroyAudio, NullAudio, DestroyVideo, JoinDecoder,
       StopReader, JoinReader, DestructorUnchanged, MainUnchanged
  <2>2. /\ mainPc' \in DestroyingMedia \cup {"reader", "waitReader", "done"}
        /\ device' \in {"closed", "open", "closing"}
    BY <1>3 DEF Quit, Exiting, CloseAudio, DestroyAudio, NullAudio, DestroyVideo, JoinDecoder,
       StopReader, JoinReader, MainTo, TellAudio, AudioJoined, DestroyingMedia
  <2>3. audioSet' \in BOOLEAN /\ videoExit' \in BOOLEAN /\ readerExit' \in BOOLEAN
    BY <1>3 DEF Quit, Exiting, CloseAudio, DestroyAudio, NullAudio, DestroyVideo, JoinDecoder,
       StopReader, JoinReader
  <2> QED
    BY <1>0, <2>1, <2>2, <2>3
<1>4. CASE Reader
  <2> USE DEF ReaderAt, ReaderTo, ReaderUnchanged, mainVars
  <2>1. crashed' \in BOOLEAN
    BY <1>4 DEF Reader, ReaderTest, ReaderLock, ReaderCheck, ReaderContext, ReaderRead, ReaderError,
       ReaderDispatch, ReaderEnqueue, ReaderUnref
  <2>2. UNCHANGED <<frames, context, mainPc, audioSet, videoExit, readerExit, device, audioPc,
                    decoderPc, readerPlay>>
    BY <1>4 DEF Reader, ReaderTest, ReaderLock, ReaderCheck, ReaderContext, ReaderRead, ReaderError,
       ReaderDispatch, ReaderEnqueue, ReaderUnref
  <2>3. /\ readerPc' \in {"test", "lock", "check", "context", "again", "read", "error", "dispatch",
                           "enqueue", "unref", "ended"}
        /\ packet' \in Streams \cup {"read", "flushed", "blank", "uninitialised"}
        /\ inHand' \in {"null", "open", "freed"}
        /\ readerPc' = "enqueue" => packet' \in Streams
    BY <1>4 DEF Reader, ReaderTest, ReaderLock, ReaderCheck, ReaderContext, ReaderRead, ReaderError,
       ReaderDispatch, ReaderEnqueue, ReaderUnref, Streams
  <2> QED
    BY <1>0, <2>1, <2>2, <2>3
<1>5. CASE Decoder
  <2> USE DEF DecoderAt, DecoderTo, DecoderUnchanged, mainVars, readerVars
  <2>1. crashed' \in BOOLEAN
    BY <1>5 DEF Decoder, DecoderTest, DecoderLock, DecoderPoll, DecoderDeQueue, DecoderDecode
  <2>2. UNCHANGED <<context, mainPc, audioSet, videoExit, readerExit, device, audioPc, readerPc,
                    packet, inHand, readerPlay>>
    BY <1>5 DEF Decoder, DecoderTest, DecoderLock, DecoderPoll, DecoderDeQueue, DecoderDecode
  <2>3. /\ decoderPc' \in {"test", "lock", "held", "deQueue", "decode", "ended"}
        /\ frames' \in 0 .. Capacity
        /\ decoderPc' \in {"deQueue", "decode"} => frames' < Capacity
    <3>1. CASE DecoderTest \/ DecoderLock \/ DecoderDeQueue
      BY <1>1, <3>1 DEF DecoderTest, DecoderLock, DecoderDeQueue
    <3>2. CASE DecoderPoll
      <4>1. frames' = frames /\ decoderPc' \in {"test", "deQueue"}
        BY <3>2 DEF DecoderPoll
      <4>2. decoderPc' = "deQueue" => ~(frames >= Capacity)
        BY <3>2 DEF DecoderPoll
      <4> QED
        BY <1>1, <4>1, <4>2
    <3>3. CASE DecoderDecode
      <4>1. frames < Capacity /\ frames' \in {frames, frames + 1} /\ decoderPc' = "test"
        BY <1>1, <3>3 DEF DecoderDecode
      <4> QED
        BY <1>1, <4>1
    <3> QED
      BY <1>5, <3>1, <3>2, <3>3 DEF Decoder
  <2> QED
    BY <1>0, <2>1, <2>2, <2>3
<1>6. CASE Audio
  BY <1>0, <1>6 DEF Audio, AudioDeQueue, AudioDecode, AudioReturn, AudioUnchanged, mainVars, readerVars
\* A flush may free the packet the reader has a copy of, not one it is about
\* to queue.
<1>7. ASSUME NEW t \in Threads, QueueCall(t) PROVE TypeInv'
  <2>1. /\ packet' \in {packet, "flushed"} /\ crashed' \in BOOLEAN
        /\ UNCHANGED <<frames, context, mainPc, audioSet, videoExit, readerExit, device, audioPc,
                       decoderPc, readerPc, inHand, readerPlay>>
    BY <1>7 DEF QueueCall, mainVars
  <2>2. readerPc' = "enqueue" => packet' \in Streams
    BY <1>7, <2>1 DEF QueueCall
  <2> QED
    BY <1>0, <2>1, <2>2
<1>8. CASE UNCHANGED vars
  BY <1>0, <1>8 DEF vars, mainVars, readerVars
<1> QED
  BY <1>2, <1>3, <1>4, <1>5, <1>6, <1>7, <1>8 DEF Next, Step, Threads

LEMMA InitTypeInv ==
  ASSUME Init
  PROVE  TypeInv
<1>1. PQT!Init
  BY DEF Init, PQ!Init, PQT!Init, PQ!Idle, PQT!Idle
<1>2. PQ!TypeOK
  BY <1>1, SameTypes, QueueParameters, PQT!InitType
<1>3. 0 \in 0 .. Capacity
  BY ShutdownAssumption
<1>4. PQT!WaitersInCall
  BY <1>1, PQT!WaitersInit, QueueParameters
<1> QED
  BY <1>2, <1>3, <1>4 DEF Init, TypeInv, TypeOK

(***************************************************************************)
(* Every step of every thread keeps the types while the objects go one by  *)
(* one, for any limits of the queues: in particular the decoder never puts *)
(* more frames than the FrameQueue has places for (video.cpp 194-218).     *)
(***************************************************************************)
THEOREM ExitTypesKept == Spec => []TypeOK
<1>1. Init => TypeInv
  BY InitTypeInv
<1>2. TypeInv => TypeOK
  BY DEF TypeInv
<1> QED
  BY <1>1, <1>2, TypeInvStep, PTL DEF Spec
-----------------------------------------------------------------------------
(***************************************************************************)
(* The two hangs of the exit.  A thread that waits is in one call and in   *)
(* one set of waiting threads (WaitersInCall), so that it leaves only when *)
(* it is woken and there is a packet, or the flag isExit is seen.          *)
(***************************************************************************)
\* With Media::mutex locked the reader gets no further than to its next packet.
LEMMA ReaderStaysOut ==
  ASSUME ReaderKeptOut, MediaLocked, Reader
  PROVE  /\ ReaderKeptOut'
         /\ UNCHANGED <<sleeping, woken, call, mainPc, audioPc, decoderPc>>
         /\ queue["audio"] = << >> => queue' = queue \/ (packet = "video" /\ queue["video"] # << >>)
<1>1. ReaderTest \/ ReaderLock \/ ReaderCheck \/ ReaderContext \/ ReaderError \/ ReaderUnref
  BY DEF Reader, ReaderKeptOut, ReaderRead, ReaderDispatch, ReaderEnqueue, ReaderAt
<1>2. ~ReaderContext /\ ~ReaderError
  BY DEF ReaderContext, ReaderError
<1>3. /\ ReaderKeptOut'
      /\ UNCHANGED <<sleeping, woken, call, mainPc, audioPc, decoderPc>>
  BY <1>1, <1>2 DEF ReaderTest, ReaderLock, ReaderCheck, ReaderUnref, ReaderKeptOut, ReaderTo,
     ReaderUnchanged, mainVars, packetVars
<1>4. CASE ReaderTest \/ ReaderLock \/ ReaderCheck
  BY <1>3, <1>4 DEF ReaderTest, ReaderLock, ReaderCheck, packetVars
<1>5. CASE ReaderUnref
  BY <1>3, <1>5 DEF ReaderUnref, Streams
<1> QED
  BY <1>1, <1>2, <1>3, <1>4, <1>5

\* What a thread in a call does to those who wait.
LEMMA OthersStayBlocked ==
  ASSUME TypeInv, NEW t \in Threads, PQ!InCall(t), NEW u \in Threads, NEW r \in Streams,
         Blocked(u, r)
  PROVE  /\ u \in sleeping[r] => u \in sleeping'[r] /\ call'[u] = call[u]
         /\ queue[r] = << >> /\ ~isExit => Blocked(u, r)' /\ queue'[r] = << >>
<1>0. /\ queue \in [Streams -> Seq(Packets)]
      /\ sleeping \in [Streams -> SUBSET Threads] /\ woken \in [Streams -> SUBSET Threads]
      /\ call \in [Threads -> PQ!Calls \cup {PQ!Idle}]
  BY DEF TypeInv, TypeOK, PQ!TypeOK
<1>1. PICK q \in Streams : PQ!Resume(t, q) \/ PQ!FlushTest(t, q) \/ PQ!FlushTake(t, q)
  BY DEF PQ!InCall
<1>2. /\ \A s \in Streams : u \in sleeping[s] \cup woken[s] => s = r
      /\ ~(u \in sleeping[r] /\ u \in woken[r])
  BY DEF TypeInv, PQT!WaitersInCall, Blocked, PQ!In, PQT!In
<1>3. CASE t # u
  <2>1. call'[u] = call[u]
    BY <1>0, <1>1, <1>3 DEF PQ!Resume, PQ!FlushTest, PQ!FlushTake, PQ!Return
  <2>2. sleeping[r] \subseteq sleeping'[r] /\ (u \in woken[r] => u \in woken'[r])
    BY <1>0, <1>1, <1>3 DEF PQ!Resume, PQ!FlushTest, PQ!FlushTake, PQ!Wait
  <2>3. queue[r] = << >> => queue'[r] = << >>
    BY <1>0, <1>1 DEF PQ!Resume, PQ!FlushTest, PQ!FlushTake, PQ!Wait, PQ!Pop, PQ!content
  <2> QED
    BY <2>1, <2>2, <2>3 DEF Blocked
<1>4. CASE t = u
  <2>1. call[t] = PQ!In("deQueue", r)
    BY <1>4 DEF Blocked
  <2>2. PQ!Resume(t, q) /\ t \in woken[q] /\ q = r
    BY <1>1, <1>2, <1>4, <2>1 DEF PQ!Resume, PQ!FlushTest, PQ!FlushTake, PQ!In
  <2>3. u \notin sleeping[r]
    BY <1>2, <1>4, <2>2
  <2>4. ASSUME queue[r] = << >>, ~isExit PROVE Blocked(u, r)' /\ queue'[r] = << >>
    <3>1. PQ!Wait(t, r) /\ UNCHANGED call
      BY <2>2, <2>4 DEF PQ!Resume, PQ!Pop
    <3>2. t \in sleeping'[r] /\ queue' = queue
      BY <1>0, <3>1 DEF PQ!Wait, PQ!content
    <3> QED
      BY <1>4, <2>1, <2>4, <3>1, <3>2 DEF Blocked
  <2> QED
    BY <2>3, <2>4
<1> QED
  BY <1>3, <1>4

LEMMA CallbackStaysStuck ==
  ASSUME TypeInv, ExitInv, [Next]_vars, CallbackStuck
  PROVE  CallbackStuck'
<1>0. /\ MediaLocked /\ ReaderKeptOut /\ ~isExit /\ mainPc = "join" /\ audioPc = "callback"
      /\ device = "closing" /\ queue["audio"] = << >> /\ Blocked("audio", "audio")
      /\ ~Running("audio") /\ "audio" \in Streams /\ {"audio", "decoder"} \subseteq Threads
  BY DEF CallbackStuck, MediaLocked, DestroyingMedia, Blocked, Running, PQ!In, PQ!Idle, Streams, Threads
<1> USE DEF Blocked, CallbackStuck
<1>1. CASE InSession \/ Quit \/ Exiting
  BY <1>0, <1>1 DEF InSession, SyncMedia, OpenFile, CloseJoin, CloseFlush, CloseInput, ConfigOpen,
     ConfigAndPlay, PauseJoin, Quit, Exiting, CloseAudio, DestroyAudio, NullAudio, DestroyVideo,
     JoinDecoder, StopReader, JoinReader, MainAt, AudioJoined
<1>2. CASE Reader
  <2>1. queue'["audio"] = << >>
    <3>1. CASE queue' = queue
      BY <1>0, <3>1
    <3>2. CASE packet = "video" /\ queue' # queue
      <4>1. ReaderUnref
        BY <1>0, <1>2, <3>2, ReaderStaysOut DEF Reader, ReaderKeptOut, ReaderTest, ReaderLock,
           ReaderCheck, ReaderContext, ReaderRead, ReaderError, ReaderDispatch, ReaderEnqueue,
           ReaderAt, packetVars
      <4>2. queue \in [Streams -> Seq(Packets)]
        BY DEF TypeInv, TypeOK, PQ!TypeOK
      <4> QED
        BY <1>0, <3>2, <4>1, <4>2 DEF ReaderUnref
    <3> QED
      BY <1>0, <1>2, <3>1, <3>2, ReaderStaysOut
  <2> QED
    BY <1>0, <1>2, <2>1, ReaderStaysOut
<1>3. CASE Running("decoder") /\ Decoder
  <2>1. UNCHANGED <<mainPc, audioPc, readerPc>>
    BY <1>3 DEF Decoder, DecoderTest, DecoderLock, DecoderPoll, DecoderDeQueue, DecoderDecode,
       DecoderUnchanged, mainVars, readerVars
  <2>2. /\ sleeping'["audio"] = sleeping["audio"] /\ woken'["audio"] = woken["audio"]
        /\ queue'["audio"] = queue["audio"] /\ call'["audio"] = call["audio"]
    BY <1>3 DEF Decoder, DecoderTest, DecoderLock, DecoderPoll, DecoderDeQueue, DecoderDecode,
       packetVars, PQ!DeQueue, PQ!Pop, PQ!Wait, PQ!Return, PQ!content, TypeInv, TypeOK, PQ!TypeOK,
       Streams, Threads
  <2> QED
    BY <2>1, <2>2 DEF ReaderKeptOut
<1>4. ASSUME NEW t \in Threads, QueueCall(t) PROVE CallbackStuck'
  <2>1. PQ!InCall(t) /\ UNCHANGED <<mainPc, audioPc, readerPc>>
    BY <1>4 DEF QueueCall, mainVars
  <2>2. Blocked("audio", "audio")' /\ queue'["audio"] = << >>
    BY <1>0, <2>1, OthersStayBlocked
  <2> QED
    BY <2>1, <2>2 DEF ReaderKeptOut
<1>5. CASE UNCHANGED vars
  BY <1>5 DEF vars, packetVars, mainVars, readerVars, ReaderKeptOut
<1> QED
  BY <1>0, <1>1, <1>2, <1>3, <1>4, <1>5 DEF Next, Step, Threads

LEMMA DecoderStaysStuck ==
  ASSUME TypeInv, ExitInv, [Next]_vars, DecoderStuck
  PROVE  DecoderStuck'
<1>0. /\ MediaLocked /\ ReaderKeptOut /\ mainPc = "video" /\ decoderPc = "decode" /\ VideoLocked
      /\ audioPc # "callback" /\ device = "closed" /\ Blocked("decoder", "video")
      /\ ~Running("decoder") /\ "video" \in Streams /\ "decoder" \in Threads
      /\ "decoder" \in sleeping["video"]
  BY DEF DecoderStuck, MediaLocked, VideoLocked, DestroyingMedia, Blocked, Running, PQ!In, PQ!Idle,
     Streams, Threads
<1> USE DEF Blocked, DecoderStuck
<1>1. CASE InSession \/ Quit \/ Exiting
  BY <1>0, <1>1 DEF InSession, SyncMedia, OpenFile, CloseJoin, CloseFlush, CloseInput, ConfigOpen,
     ConfigAndPlay, PauseJoin, Quit, Exiting, CloseAudio, DestroyAudio, NullAudio, DestroyVideo,
     JoinDecoder, StopReader, JoinReader, MainAt
<1>2. CASE Reader
  BY <1>0, <1>2, ReaderStaysOut
<1>3. CASE Audio
  BY <1>0, <1>3 DEF Audio, AudioDeQueue, AudioDecode, AudioReturn
<1>4. ASSUME NEW t \in Threads, QueueCall(t) PROVE DecoderStuck'
  <2>1. PQ!InCall(t) /\ UNCHANGED <<mainPc, decoderPc, readerPc>>
    BY <1>4 DEF QueueCall, mainVars
  <2>2. "decoder" \in sleeping'["video"] /\ call'["decoder"] = call["decoder"]
    BY <1>0, <2>1, OthersStayBlocked
  <2> QED
    BY <1>0, <2>1, <2>2 DEF ReaderKeptOut
<1>5. CASE UNCHANGED vars
  BY <1>5 DEF vars, packetVars, mainVars, readerVars, ReaderKeptOut
<1> QED
  BY <1>0, <1>1, <1>2, <1>3, <1>4, <1>5 DEF Next, Step, Threads

(***************************************************************************)
(* Nothing gets the exit out of its two hangs, for any limits of the       *)
(* queues: a callback that waits for a packet while ~Audio joins it, a     *)
(* decoder that waits for one while ~Video wants its mutex (media.cpp 218, *)
(* 253-267, video.cpp 19-26, 202, packetqueue.cpp 10-15, 41-46).           *)
(***************************************************************************)
THEOREM ExitHangsForGood == Spec => HangsAreFinal
<1>1. Init => TypeInv
  BY InitTypeInv
<1>2. TypeInv /\ ExitInv /\ [Next]_vars =>
        [(CallbackStuck => CallbackStuck') /\ (DecoderStuck => DecoderStuck')]_vars
  BY CallbackStaysStuck, DecoderStaysStuck
<1> QED
  BY <1>1, <1>2, TypeInvStep, ExitInvHolds, PTL DEF Spec, HangsAreFinal
=============================================================================
