--------------------------- MODULE EventLoopProofs ---------------------------
(***************************************************************************)
(* Three more theorems about Player: without jumps the event loop never    *)
(* sleeps for a frame, with them it is the only one that does or the       *)
(* reader is, and with one file that opens no thread follows a dead        *)
(* pointer.                                                                *)
(***************************************************************************)
EXTENDS PlayerProofs, FiniteSetTheorems

USE DEF decoderVars

(***************************************************************************)
(* EventLoopNeverSleepsForFrames is not inductive: the gui thread sleeps   *)
(* if the frame it saw is gone.  Without jumps no other thread takes or    *)
(* flushes frames, and while it flushes them itself it shows none.         *)
(***************************************************************************)
GuiAlone ==
  /\ ~isSeek /\ seeks = 0
  /\ readerPc \notin {"getContext", "seek"} \cup Clearing
  /\ fsleeping = {} /\ fwoken = {}
  /\ \A t \in Threads \ {"gui"} : fcall[t] = "idle"
  /\ fcall["gui"] \in {"idle", "empty", "take"}
  /\ fcall["gui"] # "idle" => guiPc = "clearFrames"
  /\ fcall["gui"] = "take" => frames # << >>
  /\ guiPc = "show" /\ frame["gui"] = NoPacket => frames # << >>

\* Steps that leave the frame queue alone, and do not begin a show or a jump.
LEMMA FramesLeftAlone ==
  ASSUME GuiAlone, UNCHANGED <<frameVars, isSeek, seeks>>,
         guiPc' = guiPc \/ (fcall["gui"] = "idle" /\ guiPc' # "show"),
         readerPc' \notin {"getContext", "seek"} \cup Clearing
  PROVE  GuiAlone'
  BY DEF GuiAlone, frameVars

LEMMA GuiAloneGui ==
  ASSUME MaxSeeks = 0, TypeOK, GuiAlone, Running("gui"), User \/ GuiContinues
  PROVE  GuiAlone'
<1>0. fcall["gui"] = "idle" /\ "gui" \in Threads
  BY DEF Running, Threads
<1>1. CASE OnOpenFileClicked \/ CloseJoin \/ CloseClearPackets \/ CloseInput \/ Play \/ PlayJoin
  BY <1>0, <1>1, FramesLeftAlone
  DEF OnOpenFileClicked, CloseJoin, CloseClearPackets, CloseInput, Play, PlayJoin, GoTo, readerVars,
      requestVars, GuiAlone
<1>2. CASE ConfigOpen \/ ConfigInfo \/ ConfigStreams \/ ConfigAudio \/ ConfigVideo \/ ConfigStart
  BY <1>0, <1>2, FramesLeftAlone
  DEF ConfigOpen, ConfigInfo, ConfigStreams, ConfigAudio, ConfigVideo, ConfigStart, ConfigFails,
      ConfigUnchanged, GoTo, readerVars, GuiAlone
<1>3. CASE ReceivePos
  BY <1>3 DEF ReceivePos, GuiAlone
<1>4. CASE CloseClearFrames
  BY <1>0, <1>4
  DEF CloseClearFrames, FQ!CallFlush, GoTo, readerVars, requestVars, GuiAlone, TypeOK, FQ!TypeOK
<1>5. CASE SyncMedia
  <2>1. frames # << >>
    BY <1>5 DEF SyncMedia, FQ!getQueueSize
  <2> QED
    BY <1>0, <1>5, <2>1 DEF SyncMedia, GoTo, readerVars, requestVars, frameVars, GuiAlone
<1>6. CASE SyncMediaDequeue
  <2>1. frames # << >> /\ Head(frames) \in Packets
    BY <1>6 DEF SyncMediaDequeue, GuiAlone, TypeOK, FQ!TypeOK
  <2>2. Head(frames) # NoPacket
    BY <2>1 DEF Packets, NoPacket
  <2>3. /\ fcall' = [fcall EXCEPT !["gui"] = "idle"]
        /\ frame' = [frame EXCEPT !["gui"] = Head(frames)]
        /\ UNCHANGED <<fsleeping, fwoken>>
    BY <1>0, <1>6, <2>1 DEF SyncMediaDequeue, FQ!DeQueue, FQ!Take, FQ!Wait
  <2>4. frame'["gui"] # NoPacket /\ fcall'["gui"] = "idle"
    BY <1>0, <2>2, <2>3 DEF TypeOK, FQ!TypeOK
  <2>5. UNCHANGED <<isSeek, seeks, readerPc>>
    BY <1>6 DEF SyncMediaDequeue, readerVars, requestVars
  <2> QED
    BY <2>3, <2>4, <2>5 DEF GuiAlone, TypeOK, FQ!TypeOK
<1>7. CASE SyncMediaShow
  BY <1>0, <1>7 DEF SyncMediaShow, GoTo, readerVars, requestVars, GuiAlone
<1> QED
  BY <1>1, <1>2, <1>3, <1>4, <1>5, <1>6, <1>7 DEF User, GuiContinues

LEMMA GuiAloneCall ==
  ASSUME TypeOK, GuiAlone, NEW t \in Threads, FQ!InCall(t),
         UNCHANGED <<guiPc, readerPc, isSeek, seeks>>
  PROVE  GuiAlone'
<1> USE DEF GuiAlone
<1>0. "gui" \in Threads
  BY DEF Threads
<1>1. t = "gui" /\ (FQ!FlushTest(t) \/ FQ!FlushTake(t))
  BY DEF FQ!InCall, FQ!Resume, FQ!FlushTest, FQ!FlushTake
<1>2. guiPc = "clearFrames"
  BY <1>1 DEF FQ!FlushTest, FQ!FlushTake
<1>3. CASE FQ!FlushTest("gui")
  BY <1>2, <1>3 DEF FQ!FlushTest, TypeOK, FQ!TypeOK
<1>4. CASE FQ!FlushTake("gui")
  <2>1. /\ fcall' = [fcall EXCEPT !["gui"] = "empty"]
        /\ UNCHANGED <<fsleeping, fwoken>>
    BY <1>4 DEF FQ!FlushTake, FQ!Take, FQ!Wait
  <2> QED
    BY <1>0, <1>2, <2>1 DEF TypeOK, FQ!TypeOK
<1> QED
  BY <1>1, <1>3, <1>4

LEMMA GuiAloneStep ==
  ASSUME MaxSeeks = 0, PlayerInv, GuiAlone, [Next]_vars
  PROVE  GuiAlone'
<1>0. TypeOK
  BY DEF PlayerInv
<1>1. CASE Running("gui") /\ (User \/ GuiContinues)
  BY <1>0, <1>1, GuiAloneGui
<1>2. CASE Reader
  BY <1>2, FramesLeftAlone
  DEF Reader, ReaderTop, ReaderGetContext, ReaderSeek, ReaderClearPackets, ReaderClearFrames,
      ReaderSeekDone, ReaderCheck, ReaderRead, ReaderError, ReaderDispatch, ReaderAt, ReaderTo,
      ReaderUnchanged, guiVars, GuiAlone, Clearing
<1>3. CASE Decoder
  <2>1. CASE UNCHANGED frameVars
    BY <1>3, <2>1, FramesLeftAlone
    DEF Decoder, DecoderCheck, DecoderDeQueue, DecoderDecode, DecoderUnchanged, guiVars, readerVars,
        requestVars, GuiAlone
  <2>2. ASSUME NEW f, FQ!EnQueue(f), DecoderUnchanged PROVE GuiAlone'
    <3>1. UNCHANGED <<fsleeping, fwoken, fcall, frame>>
      BY <2>2 DEF FQ!EnQueue, FQ!WakeOne, GuiAlone
    <3>2. frames' = frames \/ frames' # << >>
      <4>1. frames \in Seq(Packets)
        BY <1>0 DEF TypeOK, FQ!TypeOK
      <4> QED
        BY <2>2, <4>1 DEF FQ!EnQueue
    <3> QED
      BY <2>2, <3>1, <3>2 DEF DecoderUnchanged, guiVars, readerVars, requestVars, GuiAlone
  <2> QED
    BY <1>3, <2>1, <2>2 DEF Decoder, DecoderCheck, DecoderDeQueue, DecoderDecode
<1>4. CASE Audio
  BY <1>4, FramesLeftAlone
  DEF Audio, AudioDeQueue, AudioDecode, AudioReturn, AudioUnchanged, guiVars, readerVars,
      requestVars, GuiAlone
<1>5. ASSUME NEW t \in Threads, QueueCall(t) PROVE GuiAlone'
  <2>1. UNCHANGED <<guiPc, readerPc, isSeek, seeks>>
    BY <1>5 DEF QueueCall, guiVars, readerVars, requestVars
  <2>2. CASE UNCHANGED frameVars
    BY <2>1, <2>2, FramesLeftAlone DEF GuiAlone
  <2>3. CASE FQ!InCall(t)
    BY <1>0, <2>1, <2>3, GuiAloneCall
  <2> QED
    BY <1>5, <2>2, <2>3 DEF QueueCall
<1>6. CASE UNCHANGED vars
  BY <1>6, FramesLeftAlone DEF vars, guiVars, readerVars, requestVars, GuiAlone
<1> QED
  BY <1>1, <1>2, <1>3, <1>4, <1>5, <1>6 DEF Next, Step, Threads

(***************************************************************************)
(* Without jumps the event loop never sleeps in the frame queue, for any   *)
(* number of files that open or fail: the unlocked test of syncMedia, and  *)
(* that of queueFlush in close, hold until the frame is taken              *)
(* (mediaplayer.cpp 37-61, framequeue.cpp 78-85).                          *)
(***************************************************************************)
THEOREM EventLoopAwake ==
  ASSUME MaxSeeks = 0
  PROVE  Safety => []EventLoopNeverSleepsForFrames
<1>1. Init => PlayerInv /\ GuiAlone
  <2>1. Init => GuiAlone
    BY DEF Init, FQ!Init, GuiAlone, Threads, Clearing
  <2> QED
    BY <2>1, PlayerInit
<1>2. (PlayerInv /\ GuiAlone) /\ [Next]_vars => (PlayerInv /\ GuiAlone)'
  BY PlayerStep, GuiAloneStep
<1>3. GuiAlone => EventLoopNeverSleepsForFrames
  BY DEF GuiAlone, EventLoopNeverSleepsForFrames, FQ!Waiting
<1> QED
  BY <1>1, <1>2, <1>3, PTL DEF Safety
-----------------------------------------------------------------------------
(***************************************************************************)
(* OneWaitsForFrames is not inductive: what keeps the second thread from   *)
(* waiting is the frame it saw.  A thread is sure of a frame from its test *)
(* to its deQueue.  If two are sure, or one is and the other waits, there  *)
(* is a frame; the first to take it is sure no longer.                     *)
(***************************************************************************)
Sure(t) ==
  /\ ~FQ!Waiting(t)
  /\ \/ fcall[t] = "take"
     \/ t = "gui" /\ fcall[t] = "idle" /\ guiPc = "show" /\ frame[t] = NoPacket

Consumers == {"gui", "reader"}

\* Who calls what.
CallInv ==
  /\ fsleeping \cup fwoken \subseteq Consumers
  /\ \A t \in Threads \ Consumers : fcall[t] = "idle"
  /\ \A t \in Consumers : FQ!Waiting(t) => fcall[t] \in {"deQueue", "take"}
  /\ fcall["reader"] # "deQueue"
  /\ fcall["gui"] = "deQueue" => FQ!Waiting("gui")
  /\ guiPc = "show" => fcall["gui"] \in {"idle", "deQueue"}

SureInv ==
  /\ fsleeping # {} => frames = << >>
  /\ ~(FQ!Waiting("gui") /\ FQ!Waiting("reader"))
  /\ Sure("gui") /\ (Sure("reader") \/ FQ!Waiting("reader")) => frames # << >>
  /\ Sure("reader") /\ FQ!Waiting("gui") => frames # << >>

WaitInv == CallInv /\ SureInv

LEMMA WaitLeftAlone ==
  ASSUME WaitInv, UNCHANGED frameVars, guiPc' = guiPc \/ guiPc' # "show"
  PROVE  WaitInv'
  BY DEF WaitInv, CallInv, SureInv, Sure, FQ!Waiting, frameVars, Consumers

LEMMA ConsumerTypes ==
  ASSUME TypeOK, NEW t \in Consumers
  PROVE  /\ t \in Threads
         /\ fcall \in [Threads -> FQ!Calls] /\ frame \in [Threads -> Packets \cup {NoPacket}]
  BY DEF TypeOK, FQ!TypeOK, Threads, Consumers

\* A flush begins or tests.
LEMMA WaitFlush ==
  ASSUME TypeOK, WaitInv, NEW t \in Consumers, FQ!CallFlush(t) \/ FQ!FlushTest(t),
         guiPc' # "show" \/ (guiPc' = guiPc /\ (t = "gui" => fcall[t] # "idle"))
  PROVE  WaitInv'
<1>0. t \in Threads /\ fcall \in [Threads -> FQ!Calls]
  BY ConsumerTypes
<1>1. PICK c \in {"empty", "idle", "take"} :
         /\ fcall' = [fcall EXCEPT ![t] = c]
         /\ c = "take" => frames # << >>
         /\ c = "idle" => frames = << >>
  BY DEF FQ!CallFlush, FQ!FlushTest
<1>2. UNCHANGED <<frames, fsleeping, fwoken, frame>>
  BY DEF FQ!CallFlush, FQ!FlushTest
<1>3. ~FQ!Waiting(t)
  BY DEF FQ!CallFlush, FQ!FlushTest, WaitInv, CallInv
<1>4. fcall'[t] = c /\ \A u \in Threads \ {t} : fcall'[u] = fcall[u]
  BY <1>0, <1>1
<1>5. guiPc' = "show" => guiPc = "show" /\ t # "gui"
  BY DEF FQ!CallFlush, FQ!FlushTest, WaitInv, CallInv
<1>6. CallInv'
  BY <1>0, <1>2, <1>3, <1>4, <1>5 DEF WaitInv, CallInv, FQ!Waiting, Consumers, Threads
<1>7. \A u \in Consumers : FQ!Waiting(u)' <=> FQ!Waiting(u)
  BY <1>2 DEF FQ!Waiting
<1>8. Sure(t)' => frames # << >>
  BY <1>1, <1>4, <1>5 DEF Sure
<1>9. \A u \in Consumers \ {t} : Sure(u)' => Sure(u)
  BY <1>2, <1>4, <1>5, <1>7 DEF Sure, Consumers, Threads
<1>10. SureInv'
  BY <1>2, <1>3, <1>7, <1>8, <1>9 DEF WaitInv, SureInv, Consumers
<1> QED
  BY <1>6, <1>10 DEF WaitInv

\* The thread that takes a frame is sure of none any more, and no thread sleeps.
LEMMA WaitTake ==
  ASSUME TypeOK, WaitInv, NEW t \in Consumers, FQ!Take(t),
         fcall[t] = "idle" \/ fcall[t] = "deQueue" => t = "gui",
         fsleeping' = fsleeping, fwoken' = fwoken \ {t}, guiPc' = guiPc
  PROVE  WaitInv'
<1>0. /\ t \in Threads /\ fcall \in [Threads -> FQ!Calls]
      /\ frame \in [Threads -> Packets \cup {NoPacket}]
  BY ConsumerTypes
<1>1. frames # << >> /\ fsleeping = {} /\ ~FQ!Waiting(t)' /\ Head(frames) # NoPacket
  <2>1. frames # << >> /\ fsleeping = {}
    BY DEF FQ!Take, WaitInv, SureInv
  <2>2. Head(frames) \in Packets
    BY <2>1 DEF TypeOK, FQ!TypeOK
  <2> QED
    BY <2>1, <2>2 DEF FQ!Waiting, Packets, NoPacket
<1>2. \/ fcall'[t] = "idle" /\ frame'[t] = Head(frames)
      \/ fcall'[t] = "empty" /\ fcall[t] = "take"
  BY <1>0 DEF FQ!Take
<1>3. \A u \in Threads \ {t} : fcall'[u] = fcall[u] /\ frame'[u] = frame[u]
  BY <1>0 DEF FQ!Take
<1>4. ~Sure(t)'
  BY <1>1, <1>2 DEF Sure
<1>5. \A u \in Threads \ {t} : FQ!Waiting(u)' <=> FQ!Waiting(u)
  BY <1>0 DEF FQ!Waiting
<1>6. CallInv'
  <2>1. fsleeping' \cup fwoken' \subseteq Consumers
    BY DEF WaitInv, CallInv
  <2>2. \A u \in Consumers : FQ!Waiting(u)' => fcall'[u] \in {"deQueue", "take"}
    BY <1>1, <1>3, <1>5 DEF WaitInv, CallInv, Consumers, Threads
  <2>3. /\ fcall'["reader"] # "deQueue"
        /\ fcall'["gui"] = "deQueue" => FQ!Waiting("gui")'
    BY <1>2, <1>3, <1>5 DEF WaitInv, CallInv, Consumers, Threads
  <2>4. guiPc' = "show" => fcall'["gui"] \in {"idle", "deQueue"}
    BY <1>2, <1>3 DEF WaitInv, CallInv, Consumers, Threads
  <2>5. \A u \in Threads \ Consumers : fcall'[u] = "idle"
    BY <1>3 DEF WaitInv, CallInv
  <2> QED
    BY <2>1, <2>2, <2>3, <2>4, <2>5 DEF CallInv
<1>7. SureInv'
  BY <1>0, <1>1, <1>4 DEF SureInv, FQ!Waiting, Consumers
<1> QED
  BY <1>6, <1>7 DEF WaitInv

\* The thread that waits is the only one that does: the frame it saw is gone,
\* so that the other thread is neither waiting nor sure.
LEMMA WaitSleep ==
  ASSUME TypeOK, WaitInv, NEW t \in Consumers, FQ!Wait(t), Sure(t) \/ FQ!Waiting(t),
         fcall' = [fcall EXCEPT ![t] = IF @ = "idle" THEN "deQueue" ELSE @], guiPc' = guiPc
  PROVE  WaitInv'
<1>0. /\ t \in Threads /\ fcall \in [Threads -> FQ!Calls]
  BY ConsumerTypes
<1>1. frames = << >> /\ UNCHANGED <<frames, frame>>
  BY DEF FQ!Wait
<1>2. /\ fcall'[t] = IF fcall[t] = "idle" THEN "deQueue" ELSE fcall[t]
      /\ \A u \in Threads \ {t} : fcall'[u] = fcall[u]
  BY <1>0
<1>3. /\ FQ!Waiting(t)'
      /\ \A u \in Threads \ {t} : FQ!Waiting(u)' <=> FQ!Waiting(u)
  BY <1>0 DEF FQ!Wait, FQ!Waiting
<1>4. \A u \in Consumers \ {t} : ~FQ!Waiting(u) /\ ~Sure(u)
  BY <1>1 DEF WaitInv, SureInv, Consumers
<1>5. \A u \in Consumers \ {t} : ~FQ!Waiting(u)' /\ ~Sure(u)'
  BY <1>1, <1>2, <1>3, <1>4 DEF Sure, Consumers, Threads
<1>6. ~Sure(t)' /\ fcall'[t] \in {"deQueue", "take"} /\ (t = "reader" => fcall[t] = "take")
  BY <1>2, <1>3 DEF Sure, WaitInv, CallInv
<1>7. CallInv'
  <2>1. fsleeping' \cup fwoken' \subseteq Consumers
    BY DEF FQ!Wait, WaitInv, CallInv
  <2>2. \A u \in Consumers : FQ!Waiting(u)' => fcall'[u] \in {"deQueue", "take"}
    BY <1>5, <1>6
  <2>3. /\ fcall'["reader"] # "deQueue"
        /\ fcall'["gui"] = "deQueue" => FQ!Waiting("gui")'
    BY <1>2, <1>3, <1>6 DEF WaitInv, CallInv, Consumers, Threads
  <2>4. guiPc' = "show" => fcall'["gui"] \in {"idle", "deQueue"}
    BY <1>2 DEF WaitInv, CallInv, Consumers, Threads
  <2>5. \A u \in Threads \ Consumers : fcall'[u] = "idle"
    BY <1>2 DEF WaitInv, CallInv
  <2> QED
    BY <2>1, <2>2, <2>3, <2>4, <2>5 DEF CallInv
<1>8. SureInv'
  BY <1>1, <1>5, <1>6 DEF SureInv, Consumers
<1> QED
  BY <1>7, <1>8 DEF WaitInv

LEMMA WaitCall ==
  ASSUME TypeOK, WaitInv, NEW t \in Threads, FQ!InCall(t), guiPc' = guiPc
  PROVE  WaitInv'
<1>0. t \in Consumers
  BY DEF FQ!InCall, FQ!Resume, FQ!FlushTest, FQ!FlushTake, WaitInv, CallInv
<1>1. t \in Threads /\ fcall \in [Threads -> FQ!Calls]
  BY DEF TypeOK, FQ!TypeOK
<1>2. CASE FQ!Resume(t)
  <2>1. FQ!Waiting(t) /\ fcall[t] \in {"deQueue", "take"} /\ (fcall[t] = "deQueue" => t = "gui")
    BY <1>0, <1>2 DEF FQ!Resume, FQ!Waiting, WaitInv, CallInv, Consumers
  <2>2. CASE FQ!Take(t) /\ fwoken' = fwoken \ {t} /\ UNCHANGED fsleeping
    BY <1>0, <2>1, <2>2, WaitTake
  <2>3. CASE FQ!Wait(t) /\ UNCHANGED fcall
    <3>1. fcall' = [fcall EXCEPT ![t] = IF @ = "idle" THEN "deQueue" ELSE @]
      BY <1>1, <2>1, <2>3
    <3> QED
      BY <1>0, <2>1, <2>3, <3>1, WaitSleep
  <2> QED
    BY <1>2, <2>2, <2>3 DEF FQ!Resume
<1>3. CASE FQ!FlushTest(t)
  BY <1>0, <1>3, WaitFlush DEF FQ!FlushTest
<1>4. CASE FQ!FlushTake(t)
  <2>1. Sure(t) /\ fcall[t] = "take" /\ t \notin fwoken
    BY <1>4 DEF FQ!FlushTake, Sure, FQ!Waiting
  <2>2. CASE FQ!Take(t) /\ UNCHANGED <<fsleeping, fwoken>>
    <3>1. fwoken' = fwoken \ {t}
      BY <2>1, <2>2
    <3> QED
      BY <1>0, <2>1, <2>2, <3>1, WaitTake
  <2>3. CASE FQ!Wait(t) /\ UNCHANGED fcall
    <3>1. fcall' = [fcall EXCEPT ![t] = IF @ = "idle" THEN "deQueue" ELSE @]
      BY <1>1, <2>1, <2>3
    <3> QED
      BY <1>0, <2>1, <2>3, <3>1, WaitSleep
  <2> QED
    BY <1>4, <2>2, <2>3 DEF FQ!FlushTake
<1> QED
  BY <1>2, <1>3, <1>4 DEF FQ!InCall

\* A new frame wakes the one who sleeps.
LEMMA WaitEnQueue ==
  ASSUME TypeOK, WaitInv, NEW f, FQ!EnQueue(f), guiPc' = guiPc
  PROVE  WaitInv'
<1>1. CASE UNCHANGED frames
  <2>1. CASE UNCHANGED <<fsleeping, fwoken>>
    BY <1>1, <2>1, WaitLeftAlone DEF FQ!EnQueue, frameVars
  <2>2. CASE frames' = Append(frames, f)
    BY <1>1, <2>2 DEF TypeOK, FQ!TypeOK
  <2> QED
    BY <2>1, <2>2 DEF FQ!EnQueue
<1>2. CASE frames' = Append(frames, f) /\ FQ!WakeOne
  <2>1. UNCHANGED <<fcall, frame>> /\ frames' # << >>
    BY <1>2 DEF FQ!EnQueue, TypeOK, FQ!TypeOK
  <2>2. fsleeping' \cup fwoken' = fsleeping \cup fwoken
    BY <1>2 DEF FQ!WakeOne
  <2>3. fsleeping' = {}
    BY <1>2 DEF FQ!WakeOne, WaitInv, CallInv, SureInv, FQ!Waiting, Consumers
  <2>4. CallInv'
    BY <2>1, <2>2 DEF WaitInv, CallInv, FQ!Waiting
  <2>5. SureInv'
    BY <2>1, <2>2, <2>3 DEF WaitInv, SureInv, FQ!Waiting
  <2> QED
    BY <2>4, <2>5 DEF WaitInv
<1> QED
  BY <1>1, <1>2 DEF FQ!EnQueue

LEMMA WaitGui ==
  ASSUME TypeOK, WaitInv, Running("gui"), User \/ GuiContinues
  PROVE  WaitInv'
<1>0. fcall["gui"] = "idle" /\ ~FQ!Waiting("gui") /\ "gui" \in Consumers
  BY DEF Running, WaitInv, CallInv, Consumers
<1>1. CASE OnOpenFileClicked \/ CloseJoin \/ CloseClearPackets \/ CloseInput \/ Play \/ PlayJoin
  BY <1>1, WaitLeftAlone
  DEF OnOpenFileClicked, CloseJoin, CloseClearPackets, CloseInput, Play, PlayJoin, GoTo
<1>2. CASE ConfigOpen \/ ConfigInfo \/ ConfigStreams \/ ConfigAudio \/ ConfigVideo \/ ConfigStart
  BY <1>2, WaitLeftAlone
  DEF ConfigOpen, ConfigInfo, ConfigStreams, ConfigAudio, ConfigVideo, ConfigStart, ConfigFails,
      ConfigUnchanged, GoTo
<1>3. CASE ReceivePos
  BY <1>3, WaitLeftAlone DEF ReceivePos, guiVars
<1>4. CASE CloseClearFrames
  BY <1>0, <1>4, WaitFlush DEF CloseClearFrames, GoTo
<1>5. CASE SyncMedia
  <2>1. UNCHANGED frameVars /\ frames # << >>
    BY <1>5 DEF SyncMedia, FQ!getQueueSize
  <2> QED
    BY <1>0, <2>1 DEF WaitInv, CallInv, SureInv, Sure, FQ!Waiting, frameVars, Consumers
<1>6. CASE SyncMediaDequeue
  <2>1. Sure("gui") /\ UNCHANGED guiPc /\ fcall \in [Threads -> FQ!Calls] /\ "gui" \notin fwoken
    BY <1>0, <1>6 DEF SyncMediaDequeue, Sure, guiVars, TypeOK, FQ!TypeOK, FQ!Waiting
  <2>2. CASE FQ!Take("gui") /\ UNCHANGED <<fsleeping, fwoken>>
    <3>1. fwoken' = fwoken \ {"gui"}
      BY <2>1, <2>2
    <3> QED
      BY <1>0, <2>1, <2>2, <3>1, WaitTake
  <2>3. CASE FQ!Wait("gui") /\ fcall' = [fcall EXCEPT !["gui"] = "deQueue"]
    <3>1. fcall' = [fcall EXCEPT !["gui"] = IF @ = "idle" THEN "deQueue" ELSE @]
      BY <1>0, <2>3
    <3> QED
      BY <1>0, <2>1, <2>3, <3>1, WaitSleep
  <2> QED
    BY <1>6, <2>2, <2>3 DEF SyncMediaDequeue, FQ!DeQueue
<1>7. CASE SyncMediaShow
  <2>1. /\ guiPc' = "idle" /\ UNCHANGED <<frames, fsleeping, fwoken, fcall>>
    BY <1>7 DEF SyncMediaShow, GoTo
  <2> QED
    BY <2>1 DEF WaitInv, CallInv, SureInv, Sure, FQ!Waiting, Consumers
<1> QED
  BY <1>1, <1>2, <1>3, <1>4, <1>5, <1>6, <1>7 DEF User, GuiContinues

LEMMA WaitStep ==
  ASSUME PlayerInv, WaitInv, [Next]_vars
  PROVE  WaitInv'
<1>0. TypeOK
  BY DEF PlayerInv
<1>1. CASE Running("gui") /\ (User \/ GuiContinues)
  BY <1>0, <1>1, WaitGui
<1>2. CASE Reader
  <2>1. CASE ReaderClearFrames
    BY <1>0, <2>1, WaitFlush DEF ReaderClearFrames, ReaderUnchanged, guiVars, Consumers
  <2>2. CASE ~ReaderClearFrames
    BY <1>2, <2>2, WaitLeftAlone
    DEF Reader, ReaderTop, ReaderGetContext, ReaderSeek, ReaderClearPackets, ReaderSeekDone,
        ReaderCheck, ReaderRead, ReaderError, ReaderDispatch, ReaderUnchanged, guiVars
  <2> QED
    BY <2>1, <2>2
<1>3. CASE Running("decoder") /\ Decoder
  <2>1. CASE UNCHANGED frameVars
    BY <1>3, <2>1, WaitLeftAlone
    DEF Decoder, DecoderCheck, DecoderDeQueue, DecoderDecode, DecoderUnchanged, guiVars
  <2>2. CASE DecoderDecode
    BY <1>0, <2>1, <2>2, WaitEnQueue DEF DecoderDecode, DecoderUnchanged, guiVars
  <2> QED
    BY <1>3, <2>1, <2>2 DEF Decoder, DecoderCheck, DecoderDeQueue
<1>4. CASE Audio
  BY <1>4, WaitLeftAlone
  DEF Audio, AudioDeQueue, AudioDecode, AudioReturn, AudioUnchanged, guiVars
<1>5. ASSUME NEW t \in Threads, QueueCall(t) PROVE WaitInv'
  <2>1. guiPc' = guiPc
    BY <1>5 DEF QueueCall, guiVars
  <2> QED
    BY <1>0, <1>5, <2>1, WaitLeftAlone, WaitCall DEF QueueCall
<1>6. CASE UNCHANGED vars
  BY <1>6, WaitLeftAlone DEF vars, guiVars
<1> QED
  BY <1>1, <1>2, <1>3, <1>4, <1>5, <1>6 DEF Next, Step, Threads

(***************************************************************************)
(* One thread at most waits for a frame, and none sleeps while there is    *)
(* one, for any number of opens, jumps and failures: the unlocked tests of *)
(* syncMedia and queueFlush leave a thread waiting only if the other one   *)
(* took the frame (framequeue.cpp 22-27, 51-54, 78-85).                    *)
(***************************************************************************)
THEOREM FrameWaits == Safety => []OneWaitsForFrames
<1>1. Init => PlayerInv /\ WaitInv
  <2>1. Init => WaitInv
    BY DEF Init, FQ!Init, WaitInv, CallInv, SureInv, Sure, FQ!Waiting, Consumers, Threads
  <2> QED
    BY <2>1, PlayerInit
<1>2. (PlayerInv /\ WaitInv) /\ [Next]_vars => (PlayerInv /\ WaitInv)'
  BY PlayerStep, WaitStep
<1>3. WaitInv => OneWaitsForFrames
  <2>1. ASSUME WaitInv PROVE OneWaitsForFrames
    <3> DEFINE W == fsleeping \cup fwoken
    <3>1. W = {} \/ \E t : W = {t}
      BY <2>1 DEF WaitInv, CallInv, SureInv, FQ!Waiting, Consumers
    <3>2. Cardinality(W) = 0 \/ Cardinality(W) = 1
      BY <3>1, FS_EmptySet, FS_Singleton
    <3> QED
      BY <2>1, <3>2 DEF WaitInv, SureInv, OneWaitsForFrames
  <2> QED
    BY <2>1
<1> QED
  BY <1>1, <1>2, <1>3, PTL DEF Safety
-----------------------------------------------------------------------------
(***************************************************************************)
(* With one file that opens: the context and the streams are set before    *)
(* anything is started, and stay.                                          *)
(***************************************************************************)
Ready == ctx = 1 /\ audioStream = 1 /\ videoStream = 1

Started ==
  \/ showing \/ readerPlay \/ device # "closed"
  \/ decoderPc # "check" \/ audioPc # "idle" \/ readerPc # "top"

ConfigInv ==
  /\ opens = 0 => guiPc = "idle" /\ ctx = 0
  /\ opens \in {0, 1}
  /\ guiPc \in {"join", "clearAudio", "clearFrames", "clearVideo", "open"} => ctx = 0
  /\ guiPc \in {"info", "streams", "audio", "video"} => ctx = 1
  /\ guiPc = "video" => audioStream = 1
  /\ guiPc \in {"start", "play", "pause", "show"} \/ (guiPc = "idle" /\ opens = 1) => Ready
  /\ Started => opens = 1 /\ guiPc \in {"play", "pause", "show", "idle"}

ReadInv ==
  /\ readerPc # "top" => readerPlay
  /\ readerPc \in {"seek", "read"} => readerCtx = 1
  /\ ~readerPlay => \A s \in Streams : queue[s] = << >> /\ size[s] = 0

OneFileInv == ConfigInv /\ ReadInv /\ NeverCrashes

LEMMA StartedReady ==
  ASSUME ConfigInv, Started
  PROVE  Ready /\ Valid(1)
  BY DEF ConfigInv, Ready, Valid

LEMMA ConfigGui ==
  ASSUME CanFail = {}, MaxOpens = 1, ConfigInv, User \/ GuiContinues
  PROVE  ConfigInv'
<1> USE DEF ConfigInv, Ready, Started, GoTo, mediaVars, requestVars, readerVars, guiVars
<1>1. CASE OnOpenFileClicked
  BY <1>1 DEF OnOpenFileClicked
<1>2. CASE CloseJoin \/ CloseClearFrames \/ CloseClearPackets \/ CloseInput
  BY <1>2 DEF CloseJoin, CloseClearFrames, CloseClearPackets, CloseInput, AudioThreadEnds
<1>3. CASE ConfigOpen \/ ConfigInfo \/ ConfigStreams
  BY <1>3 DEF ConfigOpen, ConfigInfo, ConfigStreams, ConfigFails, ConfigUnchanged
<1>4. CASE ConfigAudio \/ ConfigVideo
  BY <1>4 DEF ConfigAudio, ConfigVideo, ConfigFails, ConfigUnchanged
<1>5. CASE ConfigStart
  BY <1>5 DEF ConfigStart, ConfigUnchanged
<1>6. CASE Play
  BY <1>6 DEF Play
<1>7. CASE PlayJoin
  BY <1>7 DEF PlayJoin, AudioThreadEnds
<1>8. CASE SyncMedia \/ SyncMediaDequeue \/ SyncMediaShow
  BY <1>8 DEF SyncMedia, SyncMediaDequeue, SyncMediaShow
<1>9. CASE ReceivePos
  BY <1>9 DEF ReceivePos
<1> QED
  BY <1>1, <1>2, <1>3, <1>4, <1>5, <1>6, <1>7, <1>8, <1>9 DEF User, GuiContinues

LEMMA ReadGui ==
  ASSUME ReadInv, User \/ GuiContinues
  PROVE  ReadInv'
<1>1. /\ UNCHANGED <<queue, size, readerPc, readerCtx>>
      /\ readerPlay => readerPlay'
  BY DEF User, OnOpenFileClicked, ReceivePos, GuiContinues, CloseJoin, CloseClearFrames,
     CloseClearPackets, CloseInput, ConfigOpen, ConfigInfo, ConfigStreams, ConfigAudio,
     ConfigVideo, ConfigStart, Play, PlayJoin, SyncMedia, SyncMediaDequeue, SyncMediaShow,
     ConfigUnchanged, packetVars, requestVars, readerVars, PQ!CallFlush, PQ!content
<1> QED
  BY <1>1 DEF ReadInv

LEMMA NoCrashGui ==
  ASSUME CanFail = {}, ConfigInv, NeverCrashes, User \/ GuiContinues
  PROVE  NeverCrashes'
<1> USE DEF NeverCrashes, ConfigInv, Ready
<1>1. CASE Play
  BY <1>1 DEF Play
<1>2. CASE SyncMediaShow
  BY <1>2 DEF SyncMediaShow, Follow, Valid
<1>3. CASE User \/ (GuiContinues /\ ~Play /\ ~SyncMediaShow)
  BY <1>3 DEF User, OnOpenFileClicked, ReceivePos, GuiContinues, CloseJoin, CloseClearFrames,
     CloseClearPackets, CloseInput, ConfigOpen, ConfigInfo, ConfigStreams, ConfigAudio,
     ConfigVideo, ConfigStart, PlayJoin, SyncMedia, SyncMediaDequeue, ConfigUnchanged
<1> QED
  BY <1>1, <1>2, <1>3

LEMMA OneFileReader ==
  ASSUME OneFileInv, Reader
  PROVE  OneFileInv'
<1> USE DEF ReaderAt, ReaderTo
<1>1. readerPlay /\ Ready /\ Valid(1)
  <2>1. readerPlay
    BY DEF OneFileInv, ReadInv, Reader, ReaderTop, ReaderGetContext, ReaderSeek, ReaderClearPackets,
       ReaderClearFrames, ReaderSeekDone, ReaderCheck, ReaderRead, ReaderError, ReaderDispatch
  <2> QED
    BY <2>1, StartedReady DEF OneFileInv, Started
<1>2. ConfigInv'
  <2>1. ReaderUnchanged
    BY DEF Reader, ReaderTop, ReaderGetContext, ReaderSeek, ReaderClearPackets,
       ReaderClearFrames, ReaderSeekDone, ReaderCheck, ReaderRead, ReaderError, ReaderDispatch
  <2> QED
    BY <1>1, <2>1 DEF ReaderUnchanged, guiVars, OneFileInv, ConfigInv, Ready, Started
<1>3. ReadInv'
  BY <1>1 DEF OneFileInv, ReadInv, Ready, Reader, ReaderTop, ReaderGetContext, ReaderSeek,
     ReaderClearPackets, ReaderClearFrames, ReaderSeekDone, ReaderCheck, ReaderRead, ReaderError,
     ReaderDispatch, ReaderUnchanged
<1>4. NeverCrashes'
  BY <1>1 DEF OneFileInv, ReadInv, Ready, NeverCrashes, Follow, FollowOrDie, Valid, Reader, ReaderTop,
     ReaderGetContext, ReaderSeek, ReaderClearPackets, ReaderClearFrames, ReaderSeekDone,
     ReaderCheck, ReaderRead, ReaderError, ReaderDispatch
<1> QED
  BY <1>2, <1>3, <1>4 DEF OneFileInv

\* From empty queues nothing is taken.
LEMMA NothingTaken ==
  ASSUME ReadInv, NEW t \in Threads, UNCHANGED <<readerPc, readerCtx, readerPlay>>,
         \/ UNCHANGED <<queue, size>>
         \/ PQ!InCall(t)
         \/ \E s \in Streams : PQ!DeQueue(t, s)
  PROVE  ReadInv'
<1>1. ASSUME ~readerPlay PROVE UNCHANGED <<queue, size>>
  BY <1>1 DEF ReadInv, PQ!InCall, PQ!DeQueue, PQ!Resume, PQ!FlushTest, PQ!FlushTake, PQ!Pop,
     PQ!Wait, PQ!content
<1> QED
  BY <1>1 DEF ReadInv

LEMMA OneFileDecoder ==
  ASSUME OneFileInv, Decoder
  PROVE  OneFileInv'
<1> USE DEF DecoderUnchanged, guiVars, mediaVars, readerVars, requestVars
<1>0. "decoder" \in Threads /\ "video" \in Streams
  BY DEF Threads, Streams
<1>1. opens = 1 /\ guiPc \in {"play", "pause", "show", "idle"} /\ Ready /\ Valid(1)
  <2>1. Started
    BY <1>0 DEF OneFileInv, ReadInv, Started, Decoder, DecoderCheck, DecoderDeQueue, DecoderDecode
  <2> QED
    BY <2>1, StartedReady DEF OneFileInv, ConfigInv
<1>2. ConfigInv'
  BY <1>1 DEF OneFileInv, ConfigInv, Ready, Started, Decoder, DecoderCheck, DecoderDeQueue,
     DecoderDecode
<1>3. ReadInv'
  BY <1>0, NothingTaken DEF OneFileInv, Decoder, DecoderCheck, DecoderDeQueue, DecoderDecode,
     packetVars
<1>4. NeverCrashes'
  BY <1>1 DEF OneFileInv, Ready, NeverCrashes, Follow, Valid, Decoder, DecoderCheck, DecoderDeQueue,
     DecoderDecode
<1> QED
  BY <1>2, <1>3, <1>4 DEF OneFileInv

LEMMA OneFileAudio ==
  ASSUME OneFileInv, Audio
  PROVE  OneFileInv'
<1> USE DEF AudioUnchanged, guiVars, mediaVars, readerVars, requestVars
<1>0. "audio" \in Threads /\ "audio" \in Streams
  BY DEF Threads, Streams
<1>1. opens = 1 /\ guiPc \in {"play", "pause", "show", "idle"} /\ Ready /\ Valid(1)
  <2>1. Started
    BY DEF Started, Audio, AudioDeQueue, AudioDecode, AudioReturn
  <2> QED
    BY <2>1, StartedReady DEF OneFileInv, ConfigInv
<1>2. ConfigInv'
  BY <1>1 DEF OneFileInv, ConfigInv, Ready, Started, Audio, AudioDeQueue, AudioDecode, AudioReturn
<1>3. ReadInv'
  BY <1>0, NothingTaken DEF OneFileInv, Audio, AudioDeQueue, AudioDecode, AudioReturn, packetVars
<1>4. NeverCrashes'
  BY <1>1 DEF OneFileInv, Ready, NeverCrashes, Follow, Valid, Audio, AudioDeQueue, AudioDecode,
     AudioReturn
<1> QED
  BY <1>2, <1>3, <1>4 DEF OneFileInv

LEMMA OneFileStep ==
  ASSUME CanFail = {}, MaxOpens = 1, OneFileInv, [Next]_vars
  PROVE  OneFileInv'
<1>1. CASE User \/ GuiContinues
  BY <1>1, ConfigGui, ReadGui, NoCrashGui DEF OneFileInv
<1>2. ASSUME NEW t \in Threads, QueueCall(t) PROVE OneFileInv'
  <2>1. ReadInv'
    BY <1>2, NothingTaken DEF QueueCall, OneFileInv, packetVars, readerVars, requestVars
  <2> QED
    BY <1>2, <2>1 DEF QueueCall, OneFileInv, ConfigInv, Ready, Started, NeverCrashes, guiVars, mediaVars,
       readerVars, requestVars
<1>3. CASE UNCHANGED vars
  BY <1>3 DEF vars, packetVars, guiVars, mediaVars, readerVars, requestVars, OneFileInv, ConfigInv,
     ReadInv, NeverCrashes, Ready, Started
<1> QED
  BY <1>1, <1>2, <1>3, OneFileReader, OneFileDecoder, OneFileAudio DEF Next, Step, Threads

(***************************************************************************)
(* With one file that opens nobody ever follows a pointer that is null or  *)
(* dead, with jumps, read errors and lost pictures: config sets all the    *)
(* pointers before it starts anybody, and nothing closes the context       *)
(* (media.cpp 47-113, readpacketsthread.cpp 28-67, video.cpp 203-215).     *)
(***************************************************************************)
THEOREM OneFileSafe ==
  ASSUME CanFail = {}, MaxOpens = 1
  PROVE  Safety => []NeverCrashes
<1>1. Init => OneFileInv
  BY DEF Init, PQ!Init, OneFileInv, ConfigInv, ReadInv, NeverCrashes, Ready, Started
<1>2. OneFileInv /\ [Next]_vars => OneFileInv'
  BY OneFileStep
<1>3. OneFileInv => NeverCrashes
  BY DEF OneFileInv
<1> QED
  BY <1>1, <1>2, <1>3, PTL DEF Safety
=============================================================================
