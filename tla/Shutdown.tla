------------------------------ MODULE Shutdown ------------------------------
(***************************************************************************)
(* The end of the program.  main returns from a.exec(), and the static     *)
(* objects are destroyed in the reverse order of their construction: Media *)
(* with its Audio and Video, ReadPacketsThread, MediaPlayer.  Meanwhile    *)
(* the reader, the decoder and SDL's audio thread go on with what they do; *)
(* each destructor stops one of them.                                      *)
(*                                                                         *)
(* The session before is abstracted to what it can leave behind: files are *)
(* opened, one after the other, as often as the user likes, and each open  *)
(* closes the one before and flushes the queues under the other threads;   *)
(* the file may end at any read, and so the reader.  Packets have a stream *)
(* and nothing else.  Streams, codecs and the order of pictures are in     *)
(* Player; nothing in the program asks for a jump.                         *)
(***************************************************************************)
EXTENDS Integers, Sequences, FiniteSets

CONSTANTS
  MaxQueued,   \* MaxQueued[s]: MAX_AUDIOQ_SIZE and MAX_VIDEOQ_SIZE, in packets
  Capacity     \* FrameQueue::capacity

Streams == {"audio", "video"}
Threads == {"main", "reader", "decoder", "audio"}

ASSUME ShutdownAssumption ==
  /\ MaxQueued \in [Streams -> Nat]
  /\ Capacity \in Nat \ {0}

VARIABLES
  \* the two PacketQueues; they live in Audio and in Video
  queue, size, sleeping, woken, alive, isExit, call, pkt,
  frames,      \* the number of frames in the FrameQueue
  context,     \* Media::pFormatCtx
  mainPc,      \* where the main thread is
  audioSet,    \* Media::audio is not null
  videoExit,   \* isExit of video.cpp
  readerExit,  \* isExit of readpacketsthread.cpp
  device,      \* SDL's audio device: closed, open or closing
  audioPc,     \* idle between two callbacks, callback inside one
  decoderPc,
  readerPc,
  readerPlay,  \* ReadPacketsThread::isPlay: a file was opened
  packet,      \* the local variable of run: the packet read last
  inHand,      \* the context run got from getAVFormatContext
  crashed      \* the process died of an object that was destroyed

packetVars == <<queue, size, sleeping, woken, alive, isExit, call, pkt>>
mainVars == <<mainPc, audioSet, videoExit, readerExit>>
readerVars == <<readerPc, packet, inHand>>
vars == <<packetVars, frames, context, mainVars, device, audioPc, decoderPc, readerVars, readerPlay, crashed>>

\* A packet in a queue: its stream, or freed when its data was.
Packets == Streams \cup {"freed"}

PQ == INSTANCE PacketQueue WITH
  Queues <- Streams, NoPacket <- "none",
  Bytes <- [p \in Packets |-> 1], Modulus <- 2 + MaxQueued["audio"] + MaxQueued["video"]

(***************************************************************************)
(* Where the main thread is: in the event loop; in Media::close, which     *)
(* joins the audio thread and flushes the queues; before and in the rest   *)
(* of Media::config; in the pause of PlayerUi::play; in the destructors.   *)
(***************************************************************************)
Closing == {"closeJoin", "flushAudio", "flushVideo"}
Session == {"running", "open", "config", "pause"} \cup Closing
DestroyingMedia == {"join", "destroyAudio", "nullAudio", "video", "waitVideo"}

TypeOK ==
  /\ PQ!TypeOK
  /\ frames \in 0 .. Capacity
  /\ context \in {"null", "open"} /\ inHand \in {"null", "open", "freed"}
  /\ mainPc \in Session \cup DestroyingMedia \cup {"reader", "waitReader", "done"}
  /\ audioSet \in BOOLEAN /\ videoExit \in BOOLEAN /\ readerExit \in BOOLEAN
  /\ device \in {"closed", "open", "closing"}
  /\ audioPc \in {"idle", "callback"}
  /\ decoderPc \in {"test", "lock", "held", "deQueue", "decode", "ended"}
  /\ readerPc \in {"test", "lock", "check", "context", "again", "read", "error", "dispatch",
                   "enqueue", "unref", "ended"}
  /\ readerPlay \in BOOLEAN
  /\ packet \in Streams \cup {"read", "flushed", "blank", "uninitialised"}
  /\ crashed \in BOOLEAN

Init ==
  /\ PQ!Init
  /\ frames = 0 /\ context = "null" /\ inHand = "null"
  /\ mainPc = "running" /\ audioSet = TRUE /\ videoExit = FALSE /\ readerExit = FALSE
  /\ readerPlay = FALSE /\ device = "closed"
  /\ audioPc = "idle" /\ decoderPc = "test" /\ readerPc = "test" /\ packet = "uninitialised"
  /\ crashed = FALSE
-----------------------------------------------------------------------------
Running(t) == call[t] = PQ!Idle

\* The mutexes, by the places of the code that hold them.
MediaLocked == mainPc \in Closing \cup {"config"} \cup DestroyingMedia
VideoLocked == decoderPc \in {"held", "deQueue", "decode"}
ReaderLocked == readerPc \in {"check", "context", "again", "read", "error", "dispatch"}

\* What is not destroyed yet.
MediaAlive == mainPc \in Session \cup DestroyingMedia
AudioAlive == "audio" \in alive
VideoPacketsAlive == "video" \in alive

\* Using an object that was destroyed or freed kills the process, or does not.
Use(isAlive) == crashed' \in IF isAlive THEN {FALSE} ELSE BOOLEAN
-----------------------------------------------------------------------------
(***************************************************************************)
(* The main thread.                                                        *)
(***************************************************************************)
MainAt(pc) == mainPc = pc
MainTo(pc) == mainPc' = pc
MainUnchanged == UNCHANGED <<audioPc, decoderPc, readerPc, packet, crashed>>
DestructorUnchanged == UNCHANGED <<frames, context, inHand, readerPlay>> /\ MainUnchanged
SessionUnchanged == UNCHANGED <<audioSet, videoExit, readerExit>> /\ MainUnchanged

\* The event loop shows the frames (Player!SyncMedia).
SyncMedia ==
  /\ MainAt("running") /\ frames > 0
  /\ frames' = frames - 1
  /\ UNCHANGED <<packetVars, context, inHand, readerPlay, mainPc, device>>
  /\ SessionUnchanged

\* SDL_CloseAudio tells the audio thread to end, and waits for it.
TellAudio == device' = IF device = "open" THEN "closing" ELSE device
AudioJoined == (device = "closing" => audioPc = "idle") /\ device' = "closed"

\* onOpenFileClicked and config lead to close, which locks Media::mutex.
OpenFile ==
  /\ MainAt("running")
  /\ TellAudio
  /\ MainTo("closeJoin")
  /\ UNCHANGED <<packetVars, frames, context, inHand, readerPlay>>
  /\ SessionUnchanged

CloseJoin ==
  /\ MainAt("closeJoin")
  /\ AudioJoined
  /\ PQ!CallFlush("main", "audio")
  /\ MainTo("flushAudio")
  /\ UNCHANGED <<frames, context, inHand, readerPlay>>
  /\ SessionUnchanged

\* The frames are flushed, here at once, and then the video packets.
CloseFlush ==
  /\ MainAt("flushAudio")
  /\ frames' = 0
  /\ PQ!CallFlush("main", "video")
  /\ MainTo("flushVideo")
  /\ UNCHANGED <<context, inHand, readerPlay, device>>
  /\ SessionUnchanged

\* avformat_close_input, also under the reader.
CloseInput ==
  /\ MainAt("flushVideo")
  /\ context' = "null"
  /\ inHand' = IF inHand = "open" THEN "freed" ELSE inHand
  /\ MainTo("open")
  /\ UNCHANGED <<packetVars, frames, readerPlay, device>>
  /\ SessionUnchanged

\* config locks Media::mutex again and opens the file.
ConfigOpen ==
  /\ MainAt("open")
  /\ \/ context' = "open" /\ MainTo("config")
     \/ UNCHANGED context /\ MainTo("running")
  /\ UNCHANGED <<packetVars, frames, inHand, readerPlay, device>>
  /\ SessionUnchanged

\* The rest of config, which may fail on the way, and PlayerUi::play, which
\* opens the device again or pauses.
ConfigAndPlay ==
  /\ MainAt("config")
  /\ readerPlay' \in {readerPlay, TRUE}
  /\ \/ MainTo("running") /\ device' \in {device, "open"}
     \/ MainTo("pause") /\ device' \in {device, "closing"}
  /\ UNCHANGED <<packetVars, frames, context, inHand>>
  /\ SessionUnchanged

PauseJoin ==
  /\ MainAt("pause")
  /\ AudioJoined
  /\ MainTo("running")
  /\ UNCHANGED <<packetVars, frames, context, inHand, readerPlay>>
  /\ SessionUnchanged

InSession ==
  \/ SyncMedia \/ OpenFile \/ CloseJoin \/ CloseFlush \/ CloseInput
  \/ ConfigOpen \/ ConfigAndPlay \/ PauseJoin

\* A faulty form of Quit: ~Audio does not call audioClose.
QuitWithoutClose ==
  /\ MainAt("running")
  /\ MainTo("destroyAudio")
  /\ UNCHANGED <<packetVars, device, audioSet, videoExit, readerExit>>
  /\ DestructorUnchanged

\* ~Media locks Media::mutex, ~Audio tells the audio thread to end.
Quit ==
  /\ MainAt("running")
  /\ MainTo("join")
  /\ TellAudio
  /\ UNCHANGED <<packetVars, audioSet, videoExit, readerExit>>
  /\ DestructorUnchanged

\* SDL_CloseAudio waits for the audio thread.
CloseAudio ==
  /\ MainAt("join")
  /\ AudioJoined
  /\ MainTo("destroyAudio")
  /\ UNCHANGED <<packetVars, audioSet, videoExit, readerExit>>
  /\ DestructorUnchanged

\* The buffer and the audio queue go; Media::audio still points there.
DestroyAudio ==
  /\ MainAt("destroyAudio")
  /\ PQ!Destroy("audio")
  /\ MainTo("nullAudio")
  /\ UNCHANGED <<device, audioSet, videoExit, readerExit>>
  /\ DestructorUnchanged

NullAudio ==
  /\ MainAt("nullAudio")
  /\ audioSet' = FALSE
  /\ MainTo("video")
  /\ UNCHANGED <<packetVars, device, videoExit, readerExit>>
  /\ DestructorUnchanged

\* A faulty form of DestroyVideo: the flag is set after the wait.
DestroyVideoLate ==
  /\ MainAt("video") /\ ~VideoLocked
  /\ PQ!Destroy("video")
  /\ MainTo("waitVideo")
  /\ UNCHANGED <<device, audioSet, videoExit, readerExit>>
  /\ DestructorUnchanged

\* ~Video, with Video::mutex, which the decoder holds while it sleeps, also in
\* deQueue, and leaves for the time of its loop test only.
DestroyVideo ==
  /\ MainAt("video") /\ ~VideoLocked
  /\ PQ!Destroy("video")
  /\ videoExit' = TRUE
  /\ MainTo("waitVideo")
  /\ UNCHANGED <<device, audioSet, readerExit>>
  /\ DestructorUnchanged

\* wait(); then Video is deleted, Media::video keeps pointing there, and Media
\* and its mutex are gone.
JoinDecoder ==
  /\ MainAt("waitVideo") /\ decoderPc = "ended"
  /\ MainTo("reader")
  /\ UNCHANGED <<packetVars, device, audioSet, videoExit, readerExit>>
  /\ DestructorUnchanged

\* ~ReadPacketsThread, with ReadPacketsThread::mutex.
StopReader ==
  /\ MainAt("reader") /\ ~ReaderLocked
  /\ readerExit' = TRUE
  /\ MainTo("waitReader")
  /\ UNCHANGED <<packetVars, device, audioSet, videoExit>>
  /\ DestructorUnchanged

JoinReader ==
  /\ MainAt("waitReader") /\ readerPc = "ended"
  /\ MainTo("done")
  /\ UNCHANGED <<packetVars, device, audioSet, videoExit, readerExit>>
  /\ DestructorUnchanged

Exiting == CloseAudio \/ DestroyAudio \/ NullAudio \/ DestroyVideo \/ JoinDecoder \/ StopReader \/ JoinReader
-----------------------------------------------------------------------------
(***************************************************************************)
(* The reader thread.                                                      *)
(***************************************************************************)
ReaderAt(pc) == readerPc = pc
ReaderTo(pc) == readerPc' = pc
ReaderUnchanged == UNCHANGED <<frames, context, mainVars, device, audioPc, decoderPc, readerPlay>>

\* while (!isExit), without the mutex.
ReaderTest ==
  /\ ReaderAt("test")
  /\ ReaderTo(IF readerExit THEN "unref" ELSE "lock")
  /\ UNCHANGED <<packetVars, packet, inHand, crashed>>
  /\ ReaderUnchanged

\* Before the first file the reader lets go of the mutex and polls; without
\* Audio it leaves the loop (Media::video is never null).
ReaderLock ==
  /\ ReaderAt("lock")
  /\ ReaderTo(IF ~readerPlay THEN "test" ELSE IF audioSet THEN "check" ELSE "unref")
  /\ UNCHANGED <<packetVars, packet, inHand, crashed>>
  /\ ReaderUnchanged

\* checkMediaSizeValid asks both queues for their sizes; what it hears from one
\* that was destroyed can be anything.
Full == \E s \in Streams : size[s] > MaxQueued[s]

ReaderCheck ==
  /\ ReaderAt("check")
  /\ \/ ~audioSet /\ ReaderTo("test") /\ UNCHANGED crashed
     \/ /\ audioSet
        /\ Use(AudioAlive /\ VideoPacketsAlive)
        /\ \/ ReaderTo("test") /\ (AudioAlive /\ VideoPacketsAlive => Full)
           \/ ReaderTo("context") /\ (AudioAlive /\ VideoPacketsAlive => ~Full)
  /\ UNCHANGED <<packetVars, packet, inHand>>
  /\ ReaderUnchanged

\* A faulty form of ReaderContext: the pointer is read without the mutex.
ReaderContextUnlocked ==
  /\ Use(MediaAlive)
  /\ \/ ReaderAt("context") /\ ReaderTo(IF context = "null" THEN "test" ELSE "again") /\ UNCHANGED inHand
     \/ ReaderAt("again") /\ ReaderTo("read") /\ inHand' = context
  /\ UNCHANGED <<packetVars, packet>>
  /\ ReaderUnchanged

\* getAVFormatContext, which waits for Media::mutex, also for what is left of
\* it: whether there is a file, and once more for av_read_frame.
ReaderContext ==
  /\ ~MediaLocked
  /\ Use(MediaAlive)
  /\ \/ ReaderAt("context") /\ ReaderTo(IF context = "null" THEN "test" ELSE "again") /\ UNCHANGED inHand
     \/ ReaderAt("again") /\ ReaderTo("read") /\ inHand' = context
  /\ UNCHANGED <<packetVars, packet>>
  /\ ReaderUnchanged

\* av_read_frame, which null kills for certain: a packet; or the end of the
\* file, or an error, when it blanks the packet or leaves it alone.
ReaderRead ==
  /\ ReaderAt("read")
  /\ IF inHand = "null" THEN crashed' = TRUE ELSE Use(inHand = "open")
  /\ \/ packet' = "read" /\ ReaderTo("dispatch")
     \/ packet' \in {packet, "blank"} /\ (ReaderTo("unref") \/ ReaderTo("error"))
  /\ UNCHANGED <<packetVars, inHand>>
  /\ ReaderUnchanged

\* getAVFormatContext()->pb->error: try again or give up.
ReaderError ==
  /\ ReaderAt("error") /\ ~MediaLocked
  /\ IF context = "null" THEN crashed' = TRUE ELSE Use(MediaAlive)
  /\ ReaderTo("test") \/ ReaderTo("unref")
  /\ UNCHANGED <<packetVars, packet, inHand>>
  /\ ReaderUnchanged

\* Whose packet is it?  Audio, if Media::audio is not null, and then Video are
\* asked for their stream indexes.
ReaderDispatch ==
  /\ ReaderAt("dispatch")
  /\ \/ packet' = "audio" /\ audioSet /\ Use(AudioAlive) /\ ReaderTo("enqueue")
     \/ /\ Use((audioSet => AudioAlive) /\ MediaAlive)
        /\ \/ packet' = "video" /\ ReaderTo("enqueue")
           \/ packet' = "blank" /\ ReaderTo("test")
  /\ UNCHANGED <<packetVars, inHand>>
  /\ ReaderUnchanged

\* enqueueAudioPacket and enqueueVideoPacket, without a mutex: null is certain
\* death.
ReaderEnqueue ==
  /\ ReaderAt("enqueue")
  /\ IF packet \in alive
       THEN PQ!EnQueue(packet, packet) /\ UNCHANGED crashed
       ELSE /\ crashed' \in IF packet = "audio" /\ ~audioSet THEN {TRUE} ELSE BOOLEAN
            /\ UNCHANGED packetVars
  /\ ReaderTo("test")
  /\ UNCHANGED <<packet, inHand>>
  /\ ReaderUnchanged

\* The loop is over, and the last packet is released unless its size is
\* negative: one that was never set, that is blank, or whose copy loses its
\* data in the queue or in the hand of its consumer, or was freed by a flush.
ReaderUnref ==
  /\ ReaderAt("unref")
  /\ Use(packet \notin {"uninitialised", "flushed"})
  /\ LET queued == packet \in Streams /\ queue[packet] # << >> IN
       /\ queue' = IF queued THEN [queue EXCEPT ![packet] = [@ EXCEPT ![Len(@)] = "freed"]]
                             ELSE queue
       /\ pkt' = [t \in Threads |-> IF ~queued /\ pkt[t] = packet THEN "freed" ELSE pkt[t]]
  /\ packet' = "blank"
  /\ ReaderTo("ended")
  /\ UNCHANGED <<size, sleeping, woken, alive, isExit, call, inHand>>
  /\ ReaderUnchanged

Reader ==
  \/ ReaderTest \/ ReaderLock \/ ReaderCheck \/ ReaderContext \/ ReaderRead \/ ReaderError
  \/ ReaderDispatch \/ ReaderEnqueue \/ ReaderUnref
-----------------------------------------------------------------------------
(***************************************************************************)
(* The decoder thread.                                                     *)
(***************************************************************************)
DecoderAt(pc) == decoderPc = pc
DecoderTo(pc) == decoderPc' = pc
DecoderUnchanged == UNCHANGED <<context, mainVars, device, audioPc, readerVars, readerPlay>>

DecoderTest ==
  /\ DecoderAt("test")
  /\ DecoderTo(IF videoExit THEN "ended" ELSE "lock")
  /\ UNCHANGED <<packetVars, frames, crashed>>
  /\ DecoderUnchanged

DecoderLock ==
  /\ DecoderAt("lock")
  /\ DecoderTo("held")
  /\ UNCHANGED <<packetVars, frames, crashed>>
  /\ DecoderUnchanged

\* A faulty form of DecoderPoll: one frame too many.
DecoderPollLate ==
  /\ DecoderAt("held")
  /\ IF frames > Capacity THEN DecoderTo("test") /\ UNCHANGED crashed
     ELSE /\ Use(VideoPacketsAlive)
          /\ \/ DecoderTo("test") /\ (VideoPacketsAlive => size["video"] = 0)
             \/ DecoderTo("deQueue") /\ (VideoPacketsAlive => size["video"] # 0)
  /\ UNCHANGED <<packetVars, frames>>
  /\ DecoderUnchanged

\* Enough frames or no packet: the decoder sleeps with the mutex.  The packet it
\* sees may be flushed before it takes it.
DecoderPoll ==
  /\ DecoderAt("held")
  /\ IF frames >= Capacity THEN DecoderTo("test") /\ UNCHANGED crashed
     ELSE /\ Use(VideoPacketsAlive)
          /\ \/ DecoderTo("test") /\ (VideoPacketsAlive => size["video"] = 0)
             \/ DecoderTo("deQueue") /\ (VideoPacketsAlive => size["video"] # 0)
  /\ UNCHANGED <<packetVars, frames>>
  /\ DecoderUnchanged

DecoderDeQueue ==
  /\ DecoderAt("deQueue")
  /\ IF VideoPacketsAlive THEN PQ!DeQueue("decoder", "video") /\ UNCHANGED crashed
                          ELSE Use(FALSE) /\ UNCHANGED packetVars
  /\ DecoderTo("decode")
  /\ UNCHANGED frames
  /\ DecoderUnchanged

\* One picture or none (Player!DecoderDecode).  What deQueue returns when it was
\* sent away was never set.
DecoderDecode ==
  /\ DecoderAt("decode")
  /\ frames' \in {frames, frames + 1}
  /\ Use(pkt["decoder"] = "video")
  /\ pkt' = [pkt EXCEPT !["decoder"] = "none"]
  /\ DecoderTo("test")
  /\ UNCHANGED <<queue, size, sleeping, woken, alive, isExit, call>>
  /\ DecoderUnchanged

Decoder == DecoderTest \/ DecoderLock \/ DecoderPoll \/ DecoderDeQueue \/ DecoderDecode
-----------------------------------------------------------------------------
(***************************************************************************)
(* The audio thread: the callback takes packets until it has filled SDL's  *)
(* buffer, and is called again while the device is open.                   *)
(***************************************************************************)
AudioUnchanged == UNCHANGED <<frames, context, mainVars, device, decoderPc, readerVars, readerPlay>>

AudioDeQueue ==
  /\ \/ audioPc = "idle" /\ device = "open"
     \/ audioPc = "callback" /\ pkt["audio"] = "none"
  /\ PQ!DeQueue("audio", "audio")
  /\ audioPc' = "callback"
  /\ UNCHANGED crashed
  /\ AudioUnchanged

AudioDecode ==
  /\ audioPc = "callback" /\ pkt["audio"] # "none"
  /\ Use(pkt["audio"] # "freed")
  /\ pkt' = [pkt EXCEPT !["audio"] = "none"]
  /\ UNCHANGED <<queue, size, sleeping, woken, alive, isExit, call, audioPc>>
  /\ AudioUnchanged

AudioReturn ==
  /\ audioPc = "callback" /\ pkt["audio"] = "none"
  /\ audioPc' = "idle"
  /\ UNCHANGED <<packetVars, crashed>>
  /\ AudioUnchanged

Audio == AudioDeQueue \/ AudioDecode \/ AudioReturn
-----------------------------------------------------------------------------
\* A flush frees the packet it takes: the reader may have freed it before, or
\* has a copy of it, if it is the one it put there last.
Flushes(q) == call["main"] = PQ!In("take", q) /\ Len(queue'[q]) < Len(queue[q])

QueueCall(t) ==
  /\ PQ!InCall(t)
  /\ Use(\A q \in Streams : Flushes(q) => Head(queue[q]) # "freed")
  /\ packet' = IF \E q \in Streams : packet = q /\ readerPc # "enqueue"
                                       /\ Flushes(q) /\ queue'[q] = << >>
                 THEN "flushed" ELSE packet
  /\ UNCHANGED <<frames, context, mainVars, device, audioPc, decoderPc, readerPc, inHand, readerPlay>>

Step(t, action) == ~crashed /\ ((Running(t) /\ action) \/ QueueCall(t))

Next ==
  \/ Step("main", InSession \/ Quit \/ Exiting)
  \/ Step("reader", Reader)
  \/ Step("decoder", Decoder)
  \/ Step("audio", Audio)

(***************************************************************************)
(* Every thread runs, and a thread that is next at a mutex that stays free *)
(* gets it.  A QMutex promises no more, so that fairness is weak: a thread *)
(* that unlocks and locks again may be first every time.                   *)
(***************************************************************************)
Fairness ==
  /\ WF_vars(Step("main", Exiting))
  /\ WF_vars(Step("reader", Reader))
  /\ WF_vars(Step("decoder", Decoder))
  /\ WF_vars(Step("audio", Audio))

Spec == Init /\ [][Next]_vars /\ Fairness
-----------------------------------------------------------------------------
(***************************************************************************)
(* Audio outlives its callback: nothing the callback uses is destroyed     *)
(* while one runs or can still be called (audio.cpp 36-42: SDL_CloseAudio  *)
(* comes first).                                                           *)
(***************************************************************************)
CallbackOutlived ==
  audioPc = "callback" \/ device # "closed" => AudioAlive

\* Thread t is inside the wait of a deQueue of queue q.
Blocked(t, q) == t \in sleeping[q] \cup woken[q] /\ call[t] = PQ!In("deQueue", q)

\* The reader has no packet in hand and has yet to pass Media::mutex for one.
ReaderKeptOut == readerPc \notin {"read", "dispatch", "enqueue"}

\* ~Audio waits for a callback that waits for a packet.
CallbackStuck ==
  /\ mainPc = "join" /\ audioPc = "callback"
  /\ Blocked("audio", "audio") /\ queue["audio"] = << >>
  /\ ReaderKeptOut

\* ~Video waits for the mutex of a decoder that waits for a packet: the one it
\* saw was flushed by the last open.
DecoderStuck ==
  /\ mainPc = "video" /\ decoderPc = "decode"
  /\ Blocked("decoder", "video") /\ "decoder" \in sleeping["video"]
  /\ ReaderKeptOut

(***************************************************************************)
(* The two ways to hang are final: ~Media keeps Media::mutex locked until  *)
(* Audio and Video are gone, so that the reader, the one thread that could *)
(* wake the callback or the decoder with a packet, cannot read one; and    *)
(* the flag isExit, which ~Audio sets for both queues, reaches only a      *)
(* decoder that somebody wakes (media.cpp 218, 253-267, packetqueue.cpp    *)
(* 10-15, 41-46, video.cpp 202).                                           *)
(***************************************************************************)
HangsAreFinal ==
  [][(CallbackStuck => CallbackStuck') /\ (DecoderStuck => DecoderStuck')]_vars

\* The decoder locks Video::mutex again whenever ~Video could have it.
Overtaken == <>[](mainPc = "video") /\ []<>~VideoLocked

(***************************************************************************)
(* The exit comes to its end, or the process dies of an object that was    *)
(* destroyed or freed, or it hangs in one of three ways: in the join of    *)
(* the callback, behind a decoder asleep in deQueue, or overtaken at       *)
(* Video::mutex for ever (media.cpp 253-267, audio.cpp 36-42, video.cpp    *)
(* 19-26, 188-202, readpacketsthread.cpp 101-107).  In particular neither  *)
(* wait() hangs, nor does the lock in ~ReadPacketsThread.                  *)
(***************************************************************************)
ExitEnds ==
  \/ Overtaken
  \/ ((mainPc = "join") ~> (mainPc = "done" \/ crashed \/ CallbackStuck \/ DecoderStuck))
=============================================================================
