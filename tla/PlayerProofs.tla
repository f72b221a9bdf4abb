---------------------------- MODULE PlayerProofs ----------------------------
(***************************************************************************)
(* Theorems about Player, for any file, any limits of the queues, and any  *)
(* number of opens, jumps and errors.                                      *)
(***************************************************************************)
EXTENDS Player, TLAPS

USE DEF decoderVars

(***************************************************************************)
(* What CallbackSafe needs to know of the device: SDL_CloseAudio has       *)
(* joined the callback when it is closed.  A join that finds it neither    *)
(* open nor closing waits for nobody, and none is begun while it is open.  *)
(***************************************************************************)
DeviceInv ==
  /\ device \in {"closed", "open", "closing"}
  /\ device = "closed" => audioPc = "idle"
  /\ guiPc \in {"join", "pause"} => device # "open"

LEMMA DeviceStep ==
  ASSUME DeviceInv, [Next]_vars
  PROVE  DeviceInv'
<1> USE DEF DeviceInv
<1>1. CASE User
  BY <1>1 DEF User, OnOpenFileClicked, ReceivePos, GoTo, guiVars
<1>2. CASE GuiContinues
  <2>1. CASE CloseJoin \/ PlayJoin
    BY <2>1 DEF CloseJoin, PlayJoin, AudioThreadEnds, GoTo
  <2>2. CASE CloseClearFrames \/ CloseClearPackets \/ CloseInput
    BY <2>2 DEF CloseClearFrames, CloseClearPackets, CloseInput, GoTo
  <2>3. CASE ConfigOpen \/ ConfigInfo \/ ConfigStreams \/ ConfigAudio \/ ConfigVideo
    BY <2>3 DEF ConfigOpen, ConfigInfo, ConfigStreams, ConfigAudio, ConfigVideo,
                ConfigFails, ConfigUnchanged, GoTo
  <2>4. CASE ConfigStart
    BY <2>4 DEF ConfigStart, AudioPlay, ConfigUnchanged, GoTo
  <2>5. CASE Play
    BY <2>5 DEF Play, AudioPlay, GoTo
  <2>6. CASE SyncMedia \/ SyncMediaDequeue \/ SyncMediaShow
    BY <2>6 DEF SyncMedia, SyncMediaDequeue, SyncMediaShow, guiVars, GoTo
  <2> QED
    BY <1>2, <2>1, <2>2, <2>3, <2>4, <2>5, <2>6 DEF GuiContinues
<1>3. CASE Reader
  BY <1>3 DEF Reader, ReaderTop, ReaderGetContext, ReaderSeek, ReaderClearPackets,
              ReaderClearFrames, ReaderSeekDone, ReaderCheck, ReaderRead, ReaderError,
              ReaderDispatch, ReaderUnchanged, guiVars
<1>4. CASE Decoder
  BY <1>4 DEF Decoder, DecoderCheck, DecoderDeQueue, DecoderDecode, DecoderUnchanged, guiVars
<1>5. CASE Audio
  BY <1>5 DEF Audio, AudioDeQueue, AudioDecode, AudioReturn, AudioUnchanged, guiVars
<1>6. ASSUME NEW t \in Threads, QueueCall(t) PROVE DeviceInv'
  BY <1>6 DEF QueueCall, guiVars
<1>7. CASE UNCHANGED vars
  BY <1>7 DEF vars, guiVars
<1> QED
  BY <1>1, <1>2, <1>3, <1>4, <1>5, <1>6, <1>7 DEF Next, Step, Threads
-----------------------------------------------------------------------------
(***************************************************************************)
(* What CallbackUsesOpenStream needs to be inductive when no open fails:   *)
(* the device is closed from the join to the end of config, and opened     *)
(* only when the stream is that of the context.                            *)
(***************************************************************************)
CallbackInv ==
  /\ DeviceInv
  /\ CallbackUsesOpenStream
  /\ device = "open" => audioStream = ctx
  /\ guiPc \in {"clearAudio", "clearFrames", "clearVideo", "open", "info", "streams", "audio",
               "video", "start"} => device = "closed"
  /\ guiPc \in {"video", "start", "play"} => audioStream = ctx

LEMMA CallbackStep ==
  ASSUME CanFail = {}, CallbackInv, [Next]_vars
  PROVE  CallbackInv'
<1> USE DEF CallbackInv, CallbackUsesOpenStream
<1>0. DeviceInv'
  BY DeviceStep
<1>a. device = "closed" => audioPc = "idle"
  BY DEF DeviceInv
<1>1. CASE User
  BY <1>0, <1>1 DEF User, OnOpenFileClicked, ReceivePos, GoTo, guiVars, mediaVars
<1>2. CASE GuiContinues
  <2>1. CASE CloseJoin \/ PlayJoin
    BY <1>0, <2>1 DEF CloseJoin, PlayJoin, AudioThreadEnds, GoTo, mediaVars
  <2>2. CASE CloseClearFrames \/ CloseClearPackets
    BY <1>0, <2>2 DEF CloseClearFrames, CloseClearPackets, GoTo, mediaVars
  <2>3. CASE CloseInput
    BY <1>0, <1>a, <2>3 DEF CloseInput, GoTo
  <2>4. CASE ConfigOpen \/ ConfigInfo \/ ConfigStreams \/ ConfigAudio \/ ConfigVideo
    BY <1>0, <1>a, <2>4 DEF ConfigOpen, ConfigInfo, ConfigStreams, ConfigAudio, ConfigVideo,
                            ConfigFails, ConfigUnchanged, GoTo
  <2>5. CASE ConfigStart
    BY <1>0, <2>5 DEF ConfigStart, AudioPlay, ConfigUnchanged, GoTo, mediaVars
  <2>6. CASE Play
    BY <1>0, <2>6 DEF Play, AudioPlay, GoTo, mediaVars
  <2>7. CASE SyncMedia \/ SyncMediaDequeue \/ SyncMediaShow
    BY <1>0, <2>7 DEF SyncMedia, SyncMediaDequeue, SyncMediaShow, guiVars, mediaVars, GoTo
  <2> QED
    BY <1>2, <2>1, <2>2, <2>3, <2>4, <2>5, <2>6, <2>7 DEF GuiContinues
<1>3. CASE Reader
  BY <1>0, <1>3 DEF Reader, ReaderTop, ReaderGetContext, ReaderSeek, ReaderClearPackets,
                    ReaderClearFrames, ReaderSeekDone, ReaderCheck, ReaderRead, ReaderError,
                    ReaderDispatch, ReaderUnchanged, guiVars
<1>4. CASE Decoder
  BY <1>0, <1>4 DEF Decoder, DecoderCheck, DecoderDeQueue, DecoderDecode, DecoderUnchanged,
                    guiVars, mediaVars
<1>5. CASE Audio
  BY <1>0, <1>5 DEF Audio, AudioDeQueue, AudioDecode, AudioReturn, AudioUnchanged, guiVars,
                    mediaVars
<1>6. ASSUME NEW t \in Threads, QueueCall(t) PROVE CallbackInv'
  BY <1>0, <1>6 DEF QueueCall, guiVars, mediaVars
<1>7. CASE UNCHANGED vars
  BY <1>0, <1>7 DEF vars, guiVars, mediaVars
<1> QED
  BY <1>1, <1>2, <1>3, <1>4, <1>5, <1>6, <1>7 DEF Next, Step, Threads

(***************************************************************************)
(* When every file opens, the stream the audio callback follows without a  *)
(* lock is that of the open context: close frees it only after the join,   *)
(* and config starts the device only after setStream (media.cpp 83, 110,   *)
(* 233-239; audio.cpp 414-454).                                            *)
(***************************************************************************)
THEOREM CallbackSafe ==
  ASSUME CanFail = {}
  PROVE  Safety => []CallbackUsesOpenStream
<1>1. Init => CallbackInv
  BY DEF Init, CallbackInv, DeviceInv, CallbackUsesOpenStream
<1>2. CallbackInv /\ [Next]_vars => CallbackInv'
  BY CallbackStep
<1>3. CallbackInv => CallbackUsesOpenStream
  BY DEF CallbackInv
<1> QED
  BY <1>1, <1>2, <1>3, PTL DEF Safety
-----------------------------------------------------------------------------
(***************************************************************************)
(* The operations of the queues keep their types.                          *)
(***************************************************************************)
LEMMA PacketBytes ==
  ASSUME NEW p \in Packets
  PROVE  [r \in Packets |-> Bytes[File[r.n]]][p] \in Nat
<1>1. File[p.n] \in Streams \cup {"other"}
  BY PlayerAssumption DEF Packets
<1> QED
  BY <1>1, PlayerAssumption

LEMMA CounterType ==
  ASSUME NEW a \in Int, NEW b \in Int
  PROVE  (a + b) % Modulus \in 0 .. Modulus - 1 /\ (a - b) % Modulus \in 0 .. Modulus - 1
  BY PlayerAssumption

LEMMA PacketsSame ==
  ASSUME PQ!TypeOK, UNCHANGED packetVars
  PROVE  PQ!TypeOK'
  BY DEF PQ!TypeOK, packetVars

LEMMA FramesSame ==
  ASSUME FQ!TypeOK, UNCHANGED frameVars
  PROVE  FQ!TypeOK'
  BY DEF FQ!TypeOK, frameVars

LEMMA HandType ==
  ASSUME PQ!TypeOK, NEW t \in Threads, NEW p \in Packets \cup {NoPacket},
         pkt' = [pkt EXCEPT ![t] = p], UNCHANGED <<queue, size, sleeping, woken, call>>
  PROVE  PQ!TypeOK'
  BY DEF PQ!TypeOK

LEMMA PacketWakeType ==
  ASSUME PQ!TypeOK, NEW q \in Streams, PQ!WakeOne(q)
  PROVE  sleeping' \in [Streams -> SUBSET Threads] /\ woken' \in [Streams -> SUBSET Threads]
<1>1. CASE UNCHANGED <<sleeping, woken>>
  BY <1>1 DEF PQ!TypeOK
<1>2. ASSUME NEW t \in sleeping[q],
             sleeping' = [sleeping EXCEPT ![q] = @ \ {t}],
             woken' = [woken EXCEPT ![q] = @ \cup {t}]
      PROVE  sleeping' \in [Streams -> SUBSET Threads] /\ woken' \in [Streams -> SUBSET Threads]
  <2>1. sleeping[q] \ {t} \in SUBSET Threads /\ woken[q] \cup {t} \in SUBSET Threads
    BY DEF PQ!TypeOK
  <2> QED
    BY <1>2, <2>1 DEF PQ!TypeOK
<1> QED
  BY <1>1, <1>2 DEF PQ!WakeOne

LEMMA PacketEnQueueType ==
  ASSUME PQ!TypeOK, NEW q \in Streams, NEW p \in Packets, PQ!EnQueue(q, p)
  PROVE  PQ!TypeOK'
<1>1. queue' \in [Streams -> Seq(Packets)]
  BY DEF PQ!TypeOK, PQ!EnQueue
<1>2. size' \in [Streams -> 0 .. Modulus - 1]
  <2> DEFINE bytes == [r \in Packets |-> Bytes[File[r.n]]][p]
  <2>1. size' = [size EXCEPT ![q] = (@ + bytes) % Modulus]
    BY DEF PQ!EnQueue
  <2>2. bytes \in Int /\ size[q] \in Int
    BY PacketBytes DEF PQ!TypeOK
  <2> HIDE DEF bytes
  <2>3. (size[q] + bytes) % Modulus \in 0 .. Modulus - 1
    BY <2>2, CounterType
  <2> QED
    BY <2>1, <2>3 DEF PQ!TypeOK
<1> QED
  BY <1>1, <1>2, PacketWakeType DEF PQ!TypeOK, PQ!EnQueue, PQ!NoExit

LEMMA PacketPopType ==
  ASSUME PQ!TypeOK, NEW q \in Streams, PQ!Pop(q)
  PROVE  /\ Head(queue[q]) \in Packets
         /\ queue' \in [Streams -> Seq(Packets)]
         /\ size' \in [Streams -> 0 .. Modulus - 1]
<1>1. queue[q] \in Seq(Packets) /\ queue[q] # << >>
  BY DEF PQ!TypeOK, PQ!Pop
<1>2. Head(queue[q]) \in Packets /\ Tail(queue[q]) \in Seq(Packets)
  BY <1>1
<1>3. queue' \in [Streams -> Seq(Packets)]
  BY <1>2 DEF PQ!TypeOK, PQ!Pop
<1>4. size' \in [Streams -> 0 .. Modulus - 1]
  <2> DEFINE bytes == [r \in Packets |-> Bytes[File[r.n]]][Head(queue[q])]
  <2>1. size' = [size EXCEPT ![q] = (@ - bytes) % Modulus]
    BY DEF PQ!Pop
  <2>2. bytes \in Int /\ size[q] \in Int
    BY <1>2, PacketBytes DEF PQ!TypeOK
  <2> HIDE DEF bytes
  <2>3. (size[q] - bytes) % Modulus \in 0 .. Modulus - 1
    BY <2>2, CounterType
  <2> QED
    BY <2>1, <2>3 DEF PQ!TypeOK
<1> QED
  BY <1>2, <1>3, <1>4

LEMMA PacketReturnType ==
  ASSUME PQ!TypeOK, NEW q \in Streams, NEW t \in Threads, NEW p \in Packets, PQ!Return(t, q, p)
  PROVE  /\ call' \in [Threads -> PQ!Calls \cup {PQ!Idle}]
         /\ pkt' \in [Threads -> Packets \cup {NoPacket}]
<1>1. PQ!In("empty", q) \in PQ!Calls
  BY DEF PQ!In, PQ!Calls
<1>2. call' = [call EXCEPT ![t] = PQ!Idle] \/ call' = [call EXCEPT ![t] = PQ!In("empty", q)]
  BY DEF PQ!Return
<1>3. pkt' = [pkt EXCEPT ![t] = p] \/ pkt' = pkt
  BY DEF PQ!Return
<1> QED
  BY <1>1, <1>2, <1>3 DEF PQ!TypeOK

LEMMA PacketWaitType ==
  ASSUME PQ!TypeOK, NEW q \in Streams, NEW t \in Threads, PQ!Wait(t, q)
  PROVE  /\ queue' \in [Streams -> Seq(Packets)]
         /\ size' \in [Streams -> 0 .. Modulus - 1]
         /\ sleeping' \in [Streams -> SUBSET Threads]
         /\ woken' \in [Streams -> SUBSET Threads]
  BY DEF PQ!TypeOK, PQ!Wait, PQ!content

LEMMA PacketDeQueueType ==
  ASSUME PQ!TypeOK, NEW q \in Streams, NEW t \in Threads, PQ!DeQueue(t, q)
  PROVE  PQ!TypeOK'
<1>1. CASE PQ!Pop(q) /\ PQ!Return(t, q, Head(queue[q])) /\ UNCHANGED <<sleeping, woken>>
  BY <1>1, PacketPopType, PacketReturnType DEF PQ!TypeOK
<1>2. CASE PQ!Wait(t, q) /\ call' = [call EXCEPT ![t] = PQ!In("deQueue", q)] /\ UNCHANGED pkt
  <2>1. PQ!In("deQueue", q) \in PQ!Calls
    BY DEF PQ!In, PQ!Calls
  <2> QED
    BY <1>2, <2>1, PacketWaitType DEF PQ!TypeOK
<1> QED
  BY <1>1, <1>2 DEF PQ!DeQueue

LEMMA PacketFlushType ==
  ASSUME PQ!TypeOK, NEW q \in Streams, NEW t \in Threads, PQ!CallFlush(t, q)
  PROVE  PQ!TypeOK'
<1>1. PQ!In("empty", q) \in PQ!Calls
  BY DEF PQ!In, PQ!Calls
<1> QED
  BY <1>1 DEF PQ!TypeOK, PQ!CallFlush, PQ!content

LEMMA PacketCallType ==
  ASSUME PQ!TypeOK, NEW t \in Threads, PQ!InCall(t)
  PROVE  PQ!TypeOK'
<1>1. ASSUME NEW q \in Streams, PQ!Resume(t, q) PROVE PQ!TypeOK'
  <2>1. CASE PQ!Pop(q) /\ PQ!Return(t, q, Head(queue[q]))
               /\ woken' = [woken EXCEPT ![q] = @ \ {t}] /\ UNCHANGED sleeping
    BY <2>1, PacketPopType, PacketReturnType DEF PQ!TypeOK
  <2>2. CASE PQ!Wait(t, q) /\ UNCHANGED <<call, pkt>>
    BY <2>2, PacketWaitType DEF PQ!TypeOK
  <2> QED
    BY <1>1, <2>1, <2>2 DEF PQ!Resume
<1>2. ASSUME NEW q \in Streams, PQ!FlushTest(t, q) PROVE PQ!TypeOK'
  <2>1. PQ!In("take", q) \in PQ!Calls
    BY DEF PQ!In, PQ!Calls
  <2> QED
    BY <1>2, <2>1 DEF PQ!TypeOK, PQ!FlushTest, PQ!content
<1>3. ASSUME NEW q \in Streams, PQ!FlushTake(t, q) PROVE PQ!TypeOK'
  <2>1. CASE PQ!Pop(q) /\ PQ!Return(t, q, Head(queue[q])) /\ UNCHANGED <<sleeping, woken>>
    BY <2>1, PacketPopType, PacketReturnType DEF PQ!TypeOK
  <2>2. CASE PQ!Wait(t, q) /\ UNCHANGED <<call, pkt>>
    BY <2>2, PacketWaitType DEF PQ!TypeOK
  <2> QED
    BY <1>3, <2>1, <2>2 DEF PQ!FlushTake
<1> QED
  BY <1>1, <1>2, <1>3 DEF PQ!InCall
-----------------------------------------------------------------------------
LEMMA FrameTakeType ==
  ASSUME FQ!TypeOK, NEW t \in Threads, FQ!Take(t)
  PROVE  /\ frames' \in Seq(Packets)
         /\ Len(frames') = Len(frames) - 1
         /\ fcall' \in [Threads -> FQ!Calls]
         /\ frame' \in [Threads -> Packets \cup {NoPacket}]
<1>1. frames \in Seq(Packets) /\ frames # << >>
  BY DEF FQ!TypeOK, FQ!Take
<1>2. /\ Head(frames) \in Packets
      /\ Tail(frames) \in Seq(Packets) /\ Len(Tail(frames)) = Len(frames) - 1
  BY <1>1
<1> QED
  BY <1>2 DEF FQ!TypeOK, FQ!Take, FQ!Calls

LEMMA FrameEnQueueType ==
  ASSUME FQ!TypeOK, NEW f \in Packets, FQ!EnQueue(f)
  PROVE  FQ!TypeOK' /\ Len(frames') <= Len(frames) + 1
<1>1. frames' \in Seq(Packets) /\ Len(frames') <= Len(frames) + 1
  BY DEF FQ!TypeOK, FQ!EnQueue
<1>2. fsleeping' \subseteq Threads /\ fwoken' \subseteq Threads
  BY DEF FQ!TypeOK, FQ!EnQueue, FQ!WakeOne
<1> QED
  BY <1>1, <1>2 DEF FQ!TypeOK, FQ!EnQueue

LEMMA FrameWaitType ==
  ASSUME FQ!TypeOK, NEW t \in Threads, FQ!Wait(t)
  PROVE  fsleeping' \subseteq Threads /\ fwoken' \subseteq Threads /\ UNCHANGED <<frames, frame>>
  BY DEF FQ!TypeOK, FQ!Wait

LEMMA FrameDeQueueType ==
  ASSUME FQ!TypeOK, NEW t \in Threads, FQ!DeQueue(t)
  PROVE  FQ!TypeOK' /\ Len(frames') <= Len(frames)
<1>0. Len(frames) \in Nat
  BY DEF FQ!TypeOK
<1>1. CASE FQ!Take(t) /\ UNCHANGED <<fsleeping, fwoken>>
  BY <1>0, <1>1, FrameTakeType DEF FQ!TypeOK
<1>2. CASE FQ!Wait(t) /\ fcall' = [fcall EXCEPT ![t] = "deQueue"]
  BY <1>0, <1>2, FrameWaitType DEF FQ!TypeOK, FQ!Calls
<1> QED
  BY <1>1, <1>2 DEF FQ!DeQueue

LEMMA FrameFlushType ==
  ASSUME FQ!TypeOK, NEW t \in Threads, FQ!CallFlush(t)
  PROVE  FQ!TypeOK'
  BY DEF FQ!TypeOK, FQ!CallFlush, FQ!Calls

LEMMA FrameCallType ==
  ASSUME FQ!TypeOK, NEW t \in Threads, FQ!InCall(t)
  PROVE  FQ!TypeOK' /\ Len(frames') <= Len(frames)
<1>0. Len(frames) \in Nat
  BY DEF FQ!TypeOK
<1>1. CASE FQ!Resume(t)
  <2>1. CASE FQ!Take(t) /\ fwoken' = fwoken \ {t} /\ UNCHANGED fsleeping
    BY <1>0, <2>1, FrameTakeType DEF FQ!TypeOK
  <2>2. CASE FQ!Wait(t) /\ UNCHANGED fcall
    BY <1>0, <2>2, FrameWaitType DEF FQ!TypeOK
  <2> QED
    BY <1>1, <2>1, <2>2 DEF FQ!Resume
<1>2. CASE FQ!FlushTest(t)
  BY <1>0, <1>2 DEF FQ!TypeOK, FQ!FlushTest, FQ!Calls
<1>3. CASE FQ!FlushTake(t)
  <2>1. CASE FQ!Take(t) /\ UNCHANGED <<fsleeping, fwoken>>
    BY <1>0, <2>1, FrameTakeType DEF FQ!TypeOK
  <2>2. CASE FQ!Wait(t) /\ UNCHANGED fcall
    BY <1>0, <2>2, FrameWaitType DEF FQ!TypeOK
  <2> QED
    BY <1>3, <2>1, <2>2 DEF FQ!FlushTake
<1> QED
  BY <1>1, <1>2, <1>3 DEF FQ!InCall
-----------------------------------------------------------------------------
(***************************************************************************)
(* What TypeOK needs to be inductive: the packet a thread goes on with is  *)
(* one it was given, and the reader jumps once at most for each request.   *)
(***************************************************************************)
HandInv ==
  /\ readerPc = "dispatch" => pkt["reader"] \in Packets
  /\ call["decoder"] \in {PQ!Idle, PQ!In("deQueue", "video")}
  /\ decoderPc = "decode" /\ call["decoder"] = PQ!Idle => pkt["decoder"] \in Packets

Clearing == {"clearAudio", "clearVideo", "clearFrames"}

SeekInv ==
  /\ readerPc \in {"getContext", "seek"} \cup Clearing => isSeek
  /\ era <= seeks
  /\ isSeek /\ readerPc \notin Clearing => era < seeks

PlayerInv == TypeOK /\ HandInv /\ SeekInv

(***************************************************************************)
(* What FramesBounded needs: between the decoder's test and its enQueue    *)
(* there is room for a frame.                                              *)
(***************************************************************************)
FramesInv ==
  /\ FramesBounded
  /\ decoderPc \in {"deQueue", "decode"} => Len(frames) < Capacity

LEMMA PlayerInit == Init => PlayerInv /\ FramesInv
<1> SUFFICES ASSUME Init PROVE PlayerInv /\ FramesInv
  OBVIOUS
<1>1. PQ!TypeOK
  <2>1. << >> \in Seq(Packets) /\ 0 \in 0 .. Modulus - 1
    BY PlayerAssumption
  <2> QED
    BY <2>1 DEF Init, PQ!Init, PQ!TypeOK
<1>2. FQ!TypeOK /\ Len(frames) = 0
  BY DEF Init, FQ!Init, FQ!TypeOK, FQ!Calls
<1>3. TypeOK
  <2>1. Len(File) \in Nat
    BY PlayerAssumption
  <2>2. uiPlay \in BOOLEAN /\ showing \in BOOLEAN /\ crashed \in BOOLEAN
    BY DEF Init
  <2>3. readerPlay \in BOOLEAN /\ isSeek \in BOOLEAN
    BY DEF Init
  <2> QED
    BY <1>1, <1>2, <2>1, <2>2, <2>3, PlayerAssumption DEF Init, TypeOK
<1>4. HandInv
  BY DEF Init, HandInv, PQ!Init, Threads
<1>5. SeekInv
  BY DEF Init, SeekInv, Clearing
<1>6. FramesInv
  BY <1>2, PlayerAssumption DEF Init, FramesInv, FramesBounded
<1> QED
  BY <1>3, <1>4, <1>5, <1>6 DEF PlayerInv

LEMMA GuiType ==
  ASSUME PlayerInv, User \/ GuiContinues
  PROVE  TypeOK'
<1> USE DEF PlayerInv, GoTo
<1>0. "gui" \in Threads /\ "audio" \in Streams /\ "video" \in Streams
  BY DEF Threads, Streams
<1>1. CASE OnOpenFileClicked
  BY <1>1, PacketsSame, FramesSame, PlayerAssumption
  DEF OnOpenFileClicked, TypeOK, mediaVars, readerVars, requestVars
<1>2. CASE ReceivePos
  BY <1>2, PacketsSame, FramesSame, PlayerAssumption
  DEF ReceivePos, TypeOK, guiVars, mediaVars, readerVars
<1>3. CASE CloseJoin
  BY <1>0, <1>3, PacketFlushType, FramesSame
  DEF CloseJoin, AudioThreadEnds, TypeOK, mediaVars, readerVars, requestVars
<1>4. CASE CloseClearFrames
  BY <1>0, <1>4, PacketsSame, FrameFlushType
  DEF CloseClearFrames, TypeOK, mediaVars, readerVars, requestVars
<1>5. CASE CloseClearPackets
  BY <1>0, <1>5, PacketFlushType, FramesSame
  DEF CloseClearPackets, TypeOK, mediaVars, readerVars, requestVars
<1>6. CASE CloseInput
  BY <1>6, PacketsSame, FramesSame, PlayerAssumption DEF CloseInput, TypeOK, readerVars, requestVars
<1>7. CASE ConfigOpen
  BY <1>7, PacketsSame, FramesSame, PlayerAssumption
  DEF ConfigOpen, ConfigFails, ConfigUnchanged, TypeOK, readerVars
<1>8. CASE ConfigInfo
  BY <1>8, PacketsSame, FramesSame DEF ConfigInfo, ConfigFails, ConfigUnchanged, TypeOK, readerVars
<1>9. CASE ConfigStreams
  BY <1>9, PacketsSame, FramesSame
  DEF ConfigStreams, ConfigFails, ConfigUnchanged, TypeOK, readerVars
<1>10. CASE ConfigAudio
  BY <1>10, PacketsSame, FramesSame
  DEF ConfigAudio, ConfigFails, ConfigUnchanged, TypeOK, readerVars
<1>11. CASE ConfigVideo
  <2>1. codec' \in Seq(Packets) /\ Len(codec') <= Delay
    <3>1. << >> \in Seq(Packets) /\ Len(<< >>) <= Delay
      BY PlayerAssumption
    <3> QED
      BY <1>11, <3>1 DEF ConfigVideo, TypeOK
  <2>2. videoStream' \in 0 .. MaxOpens /\ guiPc' \in {"start", "play"}
    BY <1>11 DEF ConfigVideo, ConfigFails, TypeOK
  <2> QED
    BY <1>11, <2>1, <2>2, PacketsSame, FramesSame
    DEF ConfigVideo, ConfigUnchanged, TypeOK, readerVars
<1>12. CASE ConfigStart
  BY <1>12, PacketsSame, FramesSame
  DEF ConfigStart, AudioPlay, ConfigUnchanged, TypeOK, mediaVars, readerVars
<1>13. CASE Play
  <2>1. crashed' \in BOOLEAN
    BY <1>13 DEF Play, TypeOK
  <2>2. uiPlay' \in BOOLEAN /\ showing' \in BOOLEAN
    BY <1>13 DEF Play
  <2>3. device' \in {"closed", "open", "closing"} /\ guiPc' \in {"idle", "pause"}
    BY <1>13 DEF Play, AudioPlay, TypeOK
  <2>4. UNCHANGED <<packetVars, frameVars, shown, opens, mediaVars, audioPc, decoderVars,
                    readerVars, requestVars>>
    BY <1>13 DEF Play
  <2> QED
    BY <2>1, <2>2, <2>3, <2>4, PacketsSame, FramesSame
    DEF TypeOK, mediaVars, readerVars, requestVars
<1>14. CASE PlayJoin
  BY <1>14, PacketsSame, FramesSame
  DEF PlayJoin, AudioThreadEnds, TypeOK, mediaVars, readerVars, requestVars
<1>15. CASE SyncMedia
  BY <1>15, PacketsSame, FramesSame DEF SyncMedia, TypeOK, mediaVars, readerVars, requestVars
<1>16. CASE SyncMediaDequeue
  BY <1>0, <1>16, PacketsSame, FrameDeQueueType
  DEF SyncMediaDequeue, TypeOK, guiVars, mediaVars, readerVars, requestVars
<1>17. CASE SyncMediaShow
  <2>1. frame["gui"] \in Packets \cup {NoPacket}
    BY <1>0 DEF TypeOK, FQ!TypeOK
  <2>2. FQ!TypeOK'
    BY <1>0, <1>17 DEF SyncMediaShow, TypeOK, FQ!TypeOK
  <2>3. crashed' \in BOOLEAN
    BY <1>17 DEF SyncMediaShow, Follow
  <2> QED
    BY <1>17, <2>1, <2>2, <2>3, PacketsSame
    DEF SyncMediaShow, TypeOK, mediaVars, readerVars, requestVars
<1> QED
  BY <1>1, <1>2, <1>3, <1>4, <1>5, <1>6, <1>7, <1>8, <1>9, <1>10, <1>11, <1>12, <1>13, <1>14,
     <1>15, <1>16, <1>17 DEF User, GuiContinues

LEMMA FollowType ==
  ASSUME NEW p, Follow(p) \/ FollowOrDie(p)
  PROVE  crashed' \in BOOLEAN
  BY DEF Follow, FollowOrDie

LEMMA PacketRead ==
  ASSUME PlayerInv, Valid(readerCtx), pos < Len(File)
  PROVE  Packet \in Packets
  BY PlayerAssumption DEF Packet, Packets, Valid, PlayerInv, TypeOK

LEMMA ReaderType ==
  ASSUME PlayerInv, Reader
  PROVE  TypeOK'
<1> USE DEF PlayerInv, ReaderAt, ReaderTo, ReaderUnchanged
<1>0. /\ "reader" \in Threads /\ "audio" \in Streams /\ "video" \in Streams
      /\ Len(File) \in Nat /\ MaxOpens \in Nat /\ MaxSeeks \in Nat /\ MaxErrors \in Nat
  BY PlayerAssumption DEF Threads, Streams
<1>1. CASE ReaderTop
  <2>1. crashed' \in BOOLEAN
    BY <1>1, FollowType DEF ReaderTop, TypeOK
  <2> QED
    BY <1>1, <2>1, PacketsSame, FramesSame DEF ReaderTop, TypeOK, guiVars
<1>2. CASE ReaderGetContext
  BY <1>2, PacketsSame, FramesSame DEF ReaderGetContext, TypeOK, guiVars
<1>3. CASE ReaderSeek
  <2>1. crashed' \in BOOLEAN
    BY <1>3, FollowType DEF ReaderSeek
  <2>2. pos' \in 0 .. Len(File)
    BY <1>0, <1>3 DEF ReaderSeek, TypeOK
  <2>3. era < seeks
    BY <1>3 DEF ReaderSeek, SeekInv, Clearing
  <2>4. era' \in 0 .. MaxSeeks
    BY <1>0, <1>3, <2>3 DEF ReaderSeek, TypeOK
  <2>5. PQ!TypeOK' /\ FQ!TypeOK'
    BY <1>0, <1>3, PacketFlushType, FramesSame DEF ReaderSeek, TypeOK
  <2> QED
    BY <1>3, <2>1, <2>2, <2>4, <2>5 DEF ReaderSeek, TypeOK, guiVars
<1>4. CASE ReaderClearPackets
  BY <1>0, <1>4, PacketFlushType, FramesSame DEF ReaderClearPackets, TypeOK, guiVars
<1>5. CASE ReaderClearFrames
  BY <1>0, <1>5, PacketsSame, FrameFlushType DEF ReaderClearFrames, TypeOK, guiVars
<1>6. CASE ReaderSeekDone
  <2>1. isSeek' \in BOOLEAN
    BY <1>6 DEF ReaderSeekDone
  <2>2. readerPc' = "check" /\ PQ!TypeOK' /\ FQ!TypeOK'
    BY <1>6, PacketsSame, FramesSame DEF ReaderSeekDone, TypeOK
  <2> QED
    BY <1>6, <2>1, <2>2 DEF ReaderSeekDone, TypeOK, guiVars
<1>7. CASE ReaderCheck
  BY <1>7, PacketsSame, FramesSame DEF ReaderCheck, TypeOK, guiVars
<1>8. CASE ReaderRead
  <2>1. crashed' \in BOOLEAN
    BY <1>8, FollowType DEF ReaderRead
  <2>2. pos' \in 0 .. Len(File) /\ errors' \in 0 .. MaxErrors
    BY <1>0, <1>8 DEF ReaderRead, TypeOK
  <2>3. readerPc' \in {"dispatch", "done", "error"}
    BY <1>8 DEF ReaderRead
  <2>4. PQ!TypeOK'
    <3>1. CASE pkt' = pkt
      BY <1>8, <3>1, PacketsSame DEF ReaderRead, TypeOK, packetVars
    <3>2. CASE Valid(readerCtx) /\ pos < Len(File) /\ pkt' = [pkt EXCEPT !["reader"] = Packet]
      <4>1. Packet \in Packets
        BY <3>2, PacketRead
      <4> QED
        BY <1>0, <1>8, <3>2, <4>1, HandType DEF ReaderRead, TypeOK
    <3> QED
      BY <1>8, <3>1, <3>2 DEF ReaderRead
  <2> QED
    BY <1>8, <2>1, <2>2, <2>3, <2>4, FramesSame DEF ReaderRead, TypeOK, guiVars
<1>9. CASE ReaderError
  <2>1. crashed' \in BOOLEAN
    BY <1>9, FollowType DEF ReaderError
  <2> QED
    BY <1>9, <2>1, PacketsSame, FramesSame DEF ReaderError, TypeOK, guiVars
<1>10. CASE ReaderDispatch
  <2>1. PQ!TypeOK'
    <3>1. CASE UNCHANGED packetVars
      BY <3>1, PacketsSame DEF TypeOK
    <3>2. ASSUME NEW s \in indexes, PQ!EnQueue(s, pkt["reader"]) PROVE PQ!TypeOK'
      BY <1>10, <3>2, PacketEnQueueType DEF ReaderDispatch, HandInv, TypeOK
    <3> QED
      BY <1>10, <3>1, <3>2 DEF ReaderDispatch
  <2> QED
    BY <1>10, <2>1, FramesSame DEF ReaderDispatch, TypeOK, guiVars
<1> QED
  BY <1>1, <1>2, <1>3, <1>4, <1>5, <1>6, <1>7, <1>8, <1>9, <1>10 DEF Reader

LEMMA DecoderPictures ==
  ASSUME PlayerInv, Running("decoder"), decoderPc = "decode",
         NEW pictures \in {codec, Append(codec, pkt["decoder"])}
  PROVE  /\ pictures \in Seq(Packets)
         /\ pictures # << >> => /\ Head(pictures) \in Packets
                               /\ Tail(pictures) \in Seq(Packets)
                               /\ Len(Tail(pictures)) <= Delay
<1>1. pkt["decoder"] \in Packets
  BY DEF PlayerInv, HandInv, Running
<1>2. codec \in Seq(Packets) /\ Len(codec) <= Delay /\ Delay \in Nat
  BY PlayerAssumption DEF PlayerInv, TypeOK
<1>3. pictures \in Seq(Packets) /\ Len(pictures) <= Delay + 1
  BY <1>1, <1>2
<1>4. ASSUME pictures # << >>
      PROVE  /\ Head(pictures) \in Packets
             /\ Tail(pictures) \in Seq(Packets)
             /\ Len(Tail(pictures)) = Len(pictures) - 1
  BY <1>3, <1>4
<1> QED
  BY <1>2, <1>3, <1>4

LEMMA DecoderType ==
  ASSUME PlayerInv, Running("decoder"), Decoder
  PROVE  TypeOK'
<1> USE DEF PlayerInv, DecoderUnchanged
<1>0. "decoder" \in Threads /\ "video" \in Streams
  BY DEF Threads, Streams
<1>1. CASE DecoderCheck
  BY <1>1, PacketsSame, FramesSame
  DEF DecoderCheck, TypeOK, guiVars, mediaVars, readerVars, requestVars
<1>2. CASE DecoderDeQueue
  BY <1>0, <1>2, PacketDeQueueType, FramesSame
  DEF DecoderDeQueue, TypeOK, guiVars, mediaVars, readerVars, requestVars
<1>3. CASE DecoderDecode
  <2>1. PQ!TypeOK'
    BY <1>0, <1>3, HandType DEF DecoderDecode, TypeOK
  <2>2. ASSUME NEW pictures \in {codec, Append(codec, pkt["decoder"])}
        PROVE  /\ pictures \in Seq(Packets)
               /\ pictures # << >> => /\ Head(pictures) \in Packets
                                     /\ Tail(pictures) \in Seq(Packets)
                                     /\ Len(Tail(pictures)) <= Delay
    BY <1>3, DecoderPictures DEF DecoderDecode
  <2>3. codec' \in Seq(Packets) /\ Len(codec') <= Delay
    BY <1>3, <2>2 DEF DecoderDecode
  <2>4. FQ!TypeOK' /\ crashed' \in BOOLEAN
    <3>1. CASE UNCHANGED <<frameVars, crashed>>
      BY <3>1, FramesSame DEF TypeOK
    <3>2. ASSUME NEW pictures \in {codec, Append(codec, pkt["decoder"])}, pictures # << >>,
                 Follow(videoStream), FQ!EnQueue(Head(pictures))
          PROVE  FQ!TypeOK' /\ crashed' \in BOOLEAN
      BY <2>2, <3>2, FrameEnQueueType, FollowType DEF TypeOK
    <3> QED
      BY <1>3, <3>1, <3>2 DEF DecoderDecode
  <2> QED
    BY <1>3, <2>1, <2>3, <2>4 DEF DecoderDecode, TypeOK, guiVars, mediaVars, readerVars, requestVars
<1> QED
  BY <1>1, <1>2, <1>3 DEF Decoder

LEMMA AudioType ==
  ASSUME PlayerInv, Audio
  PROVE  TypeOK'
<1> USE DEF PlayerInv, AudioUnchanged
<1>0. "audio" \in Threads /\ "audio" \in Streams
  BY DEF Threads, Streams
<1>1. CASE AudioDeQueue
  BY <1>0, <1>1, PacketDeQueueType, FramesSame
  DEF AudioDeQueue, TypeOK, guiVars, mediaVars, readerVars, requestVars
<1>2. CASE AudioDecode
  <2>1. crashed' \in BOOLEAN
    BY <1>2, FollowType DEF AudioDecode
  <2>2. PQ!TypeOK' /\ FQ!TypeOK'
    BY <1>0, <1>2, HandType, FramesSame DEF AudioDecode, TypeOK
  <2> QED
    BY <1>2, <2>1, <2>2
    DEF AudioDecode, TypeOK, guiVars, mediaVars, readerVars, requestVars
<1>3. CASE AudioReturn
  BY <1>3, PacketsSame, FramesSame
  DEF AudioReturn, TypeOK, guiVars, mediaVars, readerVars, requestVars
<1> QED
  BY <1>1, <1>2, <1>3 DEF Audio

LEMMA CallType ==
  ASSUME PlayerInv, NEW t \in Threads, QueueCall(t)
  PROVE  TypeOK'
  BY PacketCallType, FrameCallType, PacketsSame, FramesSame
  DEF PlayerInv, QueueCall, TypeOK, guiVars, mediaVars, readerVars, requestVars

LEMMA TypeStep ==
  ASSUME PlayerInv, [Next]_vars
  PROVE  TypeOK'
<1>1. CASE UNCHANGED vars
  BY <1>1, PacketsSame, FramesSame
  DEF PlayerInv, TypeOK, vars, guiVars, mediaVars, readerVars, requestVars
<1> QED
  BY <1>1, GuiType, ReaderType, DecoderType, AudioType, CallType DEF Next, Step, Threads
-----------------------------------------------------------------------------
(***************************************************************************)
(* A queue operation of t changes the call and the packet of t only, and   *)
(* gives t a packet or leaves it the one it has.                           *)
(***************************************************************************)
LEMMA CallLocal ==
  ASSUME PQ!TypeOK, NEW t \in Threads, NEW q \in Streams,
         \/ PQ!CallFlush(t, q) \/ PQ!DeQueue(t, q) \/ PQ!Resume(t, q)
         \/ PQ!FlushTest(t, q) \/ PQ!FlushTake(t, q)
  PROVE  /\ \A u \in Threads \ {t} : call'[u] = call[u] /\ pkt'[u] = pkt[u]
         /\ pkt'[t] \in {pkt[t]} \cup Packets
<1> USE DEF PQ!TypeOK
<1>1. ASSUME PQ!Pop(q), PQ!Return(t, q, Head(queue[q]))
      PROVE  /\ \A u \in Threads \ {t} : call'[u] = call[u] /\ pkt'[u] = pkt[u]
             /\ pkt'[t] \in {pkt[t]} \cup Packets
  BY <1>1, PacketPopType DEF PQ!Return
<1>2. CASE PQ!CallFlush(t, q) \/ PQ!FlushTest(t, q)
  BY <1>2 DEF PQ!CallFlush, PQ!FlushTest
<1>3. CASE PQ!DeQueue(t, q)
  BY <1>1, <1>3 DEF PQ!DeQueue
<1>4. CASE PQ!Resume(t, q)
  BY <1>1, <1>4 DEF PQ!Resume
<1>5. CASE PQ!FlushTake(t, q)
  BY <1>1, <1>5 DEF PQ!FlushTake
<1> QED
  BY <1>2, <1>3, <1>4, <1>5

LEMMA HandSame ==
  ASSUME HandInv, UNCHANGED <<readerPc, decoderPc, call, pkt>>
  PROVE  HandInv'
  BY DEF HandInv

LEMMA HandOther ==
  ASSUME PlayerInv, NEW t \in Threads \ {"decoder"}, NEW q \in Streams,
         \/ PQ!CallFlush(t, q) \/ PQ!DeQueue(t, q) \/ PQ!Resume(t, q)
         \/ PQ!FlushTest(t, q) \/ PQ!FlushTake(t, q),
         readerPc' = readerPc \/ readerPc' # "dispatch", UNCHANGED decoderPc
  PROVE  HandInv'
<1>1. "decoder" \in Threads \ {t} /\ "reader" \in Threads
  BY DEF Threads
<1>2. call'["decoder"] = call["decoder"] /\ pkt'["decoder"] = pkt["decoder"]
  BY <1>1, CallLocal DEF PlayerInv, TypeOK
<1>3. pkt'["reader"] \in {pkt["reader"]} \cup Packets
  BY <1>1, CallLocal DEF PlayerInv, TypeOK
<1> QED
  BY <1>2, <1>3 DEF PlayerInv, HandInv

(***************************************************************************)
(* The decoder calls deQueue only, and comes back with a packet.           *)
(***************************************************************************)
LEMMA DecoderCall ==
  ASSUME PlayerInv, NEW q \in Streams,
         PQ!Resume("decoder", q) \/ PQ!FlushTest("decoder", q) \/ PQ!FlushTake("decoder", q)
  PROVE  \/ call'["decoder"] = PQ!Idle /\ pkt'["decoder"] \in Packets
         \/ UNCHANGED <<call, pkt>>
<1> USE DEF PlayerInv, TypeOK
<1>1. /\ "decoder" \in Threads
      /\ call["decoder"] \notin {PQ!In("empty", q), PQ!In("take", q)}
  BY DEF HandInv, PQ!Idle, PQ!In, Threads
<1>2. ASSUME PQ!Pop(q), PQ!Return("decoder", q, Head(queue[q]))
      PROVE  call'["decoder"] = PQ!Idle /\ pkt'["decoder"] \in Packets
  BY <1>1, <1>2, PacketPopType DEF PQ!Return, PQ!TypeOK
<1>3. CASE PQ!Resume("decoder", q)
  BY <1>2, <1>3 DEF PQ!Resume
<1>4. CASE PQ!FlushTest("decoder", q) \/ PQ!FlushTake("decoder", q)
  BY <1>1, <1>4 DEF PQ!FlushTest, PQ!FlushTake
<1> QED
  BY <1>3, <1>4

LEMMA HandStep ==
  ASSUME PlayerInv, [Next]_vars
  PROVE  HandInv'
<1>0. /\ HandInv /\ PQ!TypeOK
      /\ "decoder" \in Threads /\ "audio" \in Streams /\ "video" \in Streams
      /\ {"gui", "reader", "audio"} \subseteq Threads \ {"decoder"}
  BY DEF PlayerInv, TypeOK, Threads, Streams
<1>1. CASE User \/ GuiContinues
  <2>1. UNCHANGED <<readerPc, decoderPc>>
    BY <1>1 DEF User, OnOpenFileClicked, ReceivePos, GuiContinues, CloseJoin, CloseClearFrames,
       CloseClearPackets, CloseInput, ConfigOpen, ConfigInfo, ConfigStreams, ConfigAudio,
       ConfigVideo, ConfigStart, Play, PlayJoin, SyncMedia, SyncMediaDequeue, SyncMediaShow,
       ConfigUnchanged, readerVars
  <2>2. UNCHANGED <<call, pkt>> \/ PQ!CallFlush("gui", "audio") \/ PQ!CallFlush("gui", "video")
    BY <1>1 DEF User, OnOpenFileClicked, ReceivePos, GuiContinues, CloseJoin, CloseClearFrames,
       CloseClearPackets, CloseInput, ConfigOpen, ConfigInfo, ConfigStreams, ConfigAudio,
       ConfigVideo, ConfigStart, Play, PlayJoin, SyncMedia, SyncMediaDequeue, SyncMediaShow,
       ConfigUnchanged, packetVars
  <2> QED
    BY <1>0, <2>1, <2>2, HandSame, HandOther
<1>2. CASE Reader
  <2> USE DEF ReaderAt, ReaderTo, ReaderUnchanged
  <2>1. CASE ReaderRead
    <3>1. Packet \in Packets \/ readerPc' # "dispatch"
      BY <2>1, PacketRead DEF ReaderRead
    <3>2. UNCHANGED <<call, decoderPc>> /\ pkt'["decoder"] = pkt["decoder"]
      BY <1>0, <2>1 DEF ReaderRead, PQ!TypeOK
    <3>3. readerPc' = "dispatch" => pkt'["reader"] \in Packets
      BY <1>0, <2>1, <3>1 DEF ReaderRead, PQ!TypeOK
    <3> QED
      BY <1>0, <3>2, <3>3 DEF HandInv
  <2>2. CASE ReaderSeek \/ ReaderClearPackets
    BY <1>0, <2>2, HandOther DEF ReaderSeek, ReaderClearPackets
  <2>3. CASE ReaderDispatch
    <3>1. UNCHANGED <<call, pkt, decoderPc>> /\ readerPc' = "top"
      BY <2>3 DEF ReaderDispatch, PQ!EnQueue, packetVars
    <3> QED
      BY <1>0, <3>1 DEF HandInv
  <2>4. CASE \/ ReaderTop \/ ReaderGetContext \/ ReaderClearFrames \/ ReaderSeekDone
             \/ ReaderCheck \/ ReaderError
    BY <1>0, <2>4 DEF ReaderTop, ReaderGetContext, ReaderClearFrames, ReaderSeekDone, ReaderCheck,
                      ReaderError, HandInv, packetVars
  <2> QED
    BY <1>2, <2>1, <2>2, <2>3, <2>4 DEF Reader
<1>3. CASE Running("decoder") /\ Decoder
  <2> USE DEF DecoderUnchanged, readerVars
  <2>1. CASE DecoderCheck
    BY <1>0, <2>1 DEF DecoderCheck, HandInv, packetVars
  <2>2. CASE DecoderDeQueue
    <3>1. PQ!DeQueue("decoder", "video") /\ decoderPc' = "decode" /\ UNCHANGED readerPc
      BY <2>2 DEF DecoderDeQueue
    <3>2. pkt'["reader"] = pkt["reader"]
      BY <1>0, <3>1, CallLocal
    <3>3. \/ call'["decoder"] = PQ!Idle /\ pkt'["decoder"] \in Packets
          \/ call'["decoder"] = PQ!In("deQueue", "video")
      <4>1. PQ!Idle # PQ!In("deQueue", "video") /\ PQ!Idle # PQ!In("take", "video")
        BY DEF PQ!Idle, PQ!In
      <4> QED
        BY <1>0, <3>1, <4>1, PacketPopType DEF PQ!DeQueue, PQ!Return, PQ!TypeOK
    <3>4. PQ!Idle # PQ!In("deQueue", "video")
      BY DEF PQ!Idle, PQ!In
    <3> QED
      BY <1>0, <3>1, <3>2, <3>3, <3>4 DEF HandInv
  <2>3. CASE DecoderDecode
    <3>1. /\ UNCHANGED <<call, readerPc>> /\ decoderPc' = "check"
          /\ pkt'["reader"] = pkt["reader"]
      BY <1>0, <2>3 DEF DecoderDecode, PQ!TypeOK
    <3> QED
      BY <1>0, <3>1 DEF HandInv
  <2> QED
    BY <1>3, <2>1, <2>2, <2>3 DEF Decoder
<1>4. CASE Audio
  <2> USE DEF AudioUnchanged, readerVars
  <2>1. CASE AudioDeQueue
    BY <1>0, <2>1, HandOther DEF AudioDeQueue
  <2>2. CASE AudioDecode
    <3>1. /\ UNCHANGED <<call, readerPc, decoderPc>>
          /\ pkt'["reader"] = pkt["reader"] /\ pkt'["decoder"] = pkt["decoder"]
      BY <1>0, <2>2 DEF AudioDecode, PQ!TypeOK
    <3> QED
      BY <1>0, <3>1 DEF HandInv
  <2>3. CASE AudioReturn
    BY <1>0, <2>3, HandSame DEF AudioReturn, packetVars
  <2> QED
    BY <1>4, <2>1, <2>2, <2>3 DEF Audio
<1>5. ASSUME NEW t \in Threads, QueueCall(t) PROVE HandInv'
  <2>1. UNCHANGED <<readerPc, decoderPc>>
    BY <1>5 DEF QueueCall, readerVars
  <2>2. CASE UNCHANGED packetVars
    BY <1>0, <2>1, <2>2, HandSame DEF packetVars
  <2>3. ASSUME NEW q \in Streams, PQ!Resume(t, q) \/ PQ!FlushTest(t, q) \/ PQ!FlushTake(t, q)
        PROVE  HandInv'
    <3>1. CASE t # "decoder"
      BY <2>1, <2>3, <3>1, HandOther
    <3>2. CASE t = "decoder"
      <4>1. pkt'["reader"] = pkt["reader"]
        BY <1>0, <2>3, <3>2, CallLocal
      <4>2. PQ!Idle # PQ!In("deQueue", "video")
        BY DEF PQ!Idle, PQ!In
      <4> QED
        BY <1>0, <2>1, <2>3, <3>2, <4>1, <4>2, DecoderCall DEF HandInv
    <3> QED
      BY <3>1, <3>2
  <2> QED
    BY <1>5, <2>2, <2>3 DEF QueueCall, PQ!InCall
<1>6. CASE UNCHANGED vars
  BY <1>0, <1>6, HandSame DEF vars, packetVars, readerVars
<1> QED
  BY <1>1, <1>2, <1>3, <1>4, <1>5, <1>6 DEF Next, Step, Threads

LEMMA SeekStep ==
  ASSUME PlayerInv, [Next]_vars
  PROVE  SeekInv'
<1> USE DEF SeekInv, Clearing
<1>0. SeekInv /\ era \in Int /\ seeks \in Int
  BY PlayerAssumption DEF PlayerInv, TypeOK
<1>1. CASE Reader
  <2> USE DEF ReaderAt, ReaderTo, ReaderUnchanged
  <2>1. CASE ReaderTop \/ ReaderGetContext
    BY <1>0, <2>1 DEF ReaderTop, ReaderGetContext
  <2>2. CASE ReaderSeek
    BY <1>0, <2>2 DEF ReaderSeek
  <2>3. CASE ReaderClearPackets \/ ReaderClearFrames \/ ReaderSeekDone
    BY <1>0, <2>3 DEF ReaderClearPackets, ReaderClearFrames, ReaderSeekDone
  <2>4. CASE ReaderCheck \/ ReaderRead \/ ReaderError \/ ReaderDispatch
    BY <1>0, <2>4 DEF ReaderCheck, ReaderRead, ReaderError, ReaderDispatch
  <2> QED
    BY <1>1, <2>1, <2>2, <2>3, <2>4 DEF Reader
<1>2. CASE ReceivePos
  BY <1>0, <1>2 DEF ReceivePos, readerVars
<1>3. CASE OnOpenFileClicked \/ GuiContinues
  <2>1. UNCHANGED <<readerPc, era, isSeek, seeks>>
    BY <1>3 DEF OnOpenFileClicked, GuiContinues, CloseJoin, CloseClearFrames, CloseClearPackets,
       CloseInput, ConfigOpen, ConfigInfo, ConfigStreams, ConfigAudio, ConfigVideo, ConfigStart,
       Play, PlayJoin, SyncMedia, SyncMediaDequeue, SyncMediaShow, ConfigUnchanged, readerVars,
       requestVars
  <2> QED
    BY <1>0, <2>1
<1>4. CASE Decoder \/ Audio
  BY <1>0, <1>4 DEF Decoder, DecoderCheck, DecoderDeQueue, DecoderDecode, DecoderUnchanged, Audio,
     AudioDeQueue, AudioDecode, AudioReturn, AudioUnchanged, readerVars, requestVars
<1>5. ASSUME NEW t \in Threads, QueueCall(t) PROVE SeekInv'
  BY <1>0, <1>5 DEF QueueCall, readerVars, requestVars
<1>6. CASE UNCHANGED vars
  BY <1>0, <1>6 DEF vars, readerVars, requestVars
<1> QED
  BY <1>1, <1>2, <1>3, <1>4, <1>5, <1>6 DEF Next, Step, Threads, User

LEMMA PlayerStep == PlayerInv /\ [Next]_vars => PlayerInv'
  BY TypeStep, HandStep, SeekStep DEF PlayerInv

(***************************************************************************)
(* The program's state keeps its types: every packet in a queue or in      *)
(* hand comes from a context that was open and has a place in its file,    *)
(* the byte counters stay in their width, and the reader jumps at most     *)
(* once for each request (readpacketsthread.cpp 37-47, 61, 80-90).         *)
(***************************************************************************)
THEOREM TypeCorrect == Safety => []TypeOK
<1>1. Init => PlayerInv
  BY PlayerInit
<1>2. PlayerInv => TypeOK
  BY DEF PlayerInv
<1> QED
  BY <1>1, <1>2, PlayerStep, PTL DEF Safety

(***************************************************************************)
(* The reader jumps at most once for a request, and only for one, wherever *)
(* it is when the slot sets isSeek, also within a jump                     *)
(* (readpacketsthread.cpp 37-47, 143-146).                                 *)
(***************************************************************************)
THEOREM OneJumpPerRequest == Safety => []JumpsAreAsked
<1>1. Init => PlayerInv
  BY PlayerInit
<1>2. PlayerInv => JumpsAreAsked
  BY DEF PlayerInv, SeekInv, Clearing, JumpsAreAsked
<1> QED
  BY <1>1, <1>2, PlayerStep, PTL DEF Safety
-----------------------------------------------------------------------------
LEMMA FramesStep ==
  ASSUME PlayerInv, FramesInv, [Next]_vars
  PROVE  FramesInv'
<1> USE DEF FramesInv, FramesBounded
<1>0. /\ FramesInv /\ FQ!TypeOK /\ Len(frames) \in Nat /\ Capacity \in Nat
      /\ "gui" \in Threads
  BY PlayerAssumption DEF PlayerInv, TypeOK, FQ!TypeOK, Threads
<1>a. ASSUME UNCHANGED <<frames, decoderPc>> PROVE FramesInv'
  BY <1>0, <1>a
<1>b. ASSUME FQ!TypeOK', Len(frames') <= Len(frames), UNCHANGED decoderPc PROVE FramesInv'
  <2>1. Len(frames') \in Nat
    BY <1>b DEF FQ!TypeOK
  <2> QED
    BY <1>0, <1>b, <2>1
<1>1. CASE SyncMediaDequeue
  BY <1>0, <1>1, <1>b, FrameDeQueueType DEF SyncMediaDequeue
<1>2. CASE User \/ (GuiContinues /\ ~SyncMediaDequeue)
  <2>1. UNCHANGED <<frames, decoderPc>>
    BY <1>2 DEF User, OnOpenFileClicked, ReceivePos, GuiContinues, CloseJoin, CloseClearFrames,
       CloseClearPackets, CloseInput, ConfigOpen, ConfigInfo, ConfigStreams, ConfigAudio,
       ConfigVideo, ConfigStart, Play, PlayJoin, SyncMedia, SyncMediaShow, ConfigUnchanged,
       frameVars, FQ!CallFlush
  <2> QED
    BY <1>a, <2>1
<1>3. CASE Reader
  <2>1. UNCHANGED <<frames, decoderPc>>
    BY <1>3 DEF Reader, ReaderTop, ReaderGetContext, ReaderSeek, ReaderClearPackets,
       ReaderClearFrames, ReaderSeekDone, ReaderCheck, ReaderRead, ReaderError, ReaderDispatch,
       ReaderUnchanged, frameVars, FQ!CallFlush
  <2> QED
    BY <1>a, <2>1
<1>4. CASE Running("decoder") /\ Decoder
  <2>1. CASE DecoderCheck \/ DecoderDeQueue
    BY <1>0, <2>1 DEF DecoderCheck, DecoderDeQueue, frameVars, FQ!getQueueSize
  <2>2. CASE DecoderDecode
    <3>1. CASE UNCHANGED frameVars
      BY <1>0, <2>2, <3>1 DEF DecoderDecode, frameVars
    <3>2. ASSUME NEW pictures \in {codec, Append(codec, pkt["decoder"])}, pictures # << >>,
                 FQ!EnQueue(Head(pictures))
          PROVE  FramesInv'
      <4>1. Head(pictures) \in Packets
        BY <1>4, <2>2, <3>2, DecoderPictures DEF DecoderDecode
      <4>2. FQ!TypeOK' /\ Len(frames') <= Len(frames) + 1
        BY <1>0, <3>2, <4>1, FrameEnQueueType
      <4>3. Len(frames') \in Nat /\ Len(frames) < Capacity
        BY <1>0, <2>2, <4>2 DEF DecoderDecode, FQ!TypeOK
      <4> QED
        BY <1>0, <2>2, <4>2, <4>3 DEF DecoderDecode
    <3> QED
      BY <2>2, <3>1, <3>2 DEF DecoderDecode
  <2> QED
    BY <1>4, <2>1, <2>2 DEF Decoder
<1>5. CASE Audio
  BY <1>5, <1>a DEF Audio, AudioDeQueue, AudioDecode, AudioReturn, AudioUnchanged, frameVars
<1>6. ASSUME NEW t \in Threads, QueueCall(t) PROVE FramesInv'
  BY <1>0, <1>6, <1>a, <1>b, FrameCallType DEF QueueCall, frameVars
<1>7. CASE UNCHANGED vars
  BY <1>7, <1>a DEF vars, frameVars
<1> QED
  BY <1>1, <1>2, <1>3, <1>4, <1>5, <1>6, <1>7 DEF Next, Step, Threads

(***************************************************************************)
(* Never more than capacity frames, for any capacity and any number of     *)
(* opens, failures and jumps: the decoder's unlocked test still holds when *)
(* it adds a frame, because nobody else adds one (video.cpp 194-218).      *)
(***************************************************************************)
THEOREM FramesNeverExceed == Safety => []FramesBounded
<1>1. Init => PlayerInv /\ FramesInv
  BY PlayerInit
<1>2. (PlayerInv /\ FramesInv) /\ [Next]_vars => (PlayerInv /\ FramesInv)'
  BY PlayerStep, FramesStep
<1>3. FramesInv => FramesBounded
  BY DEF FramesInv
<1> QED
  BY <1>1, <1>2, <1>3, PTL DEF Safety
=============================================================================
