------------------------------- MODULE Player -------------------------------
(***************************************************************************)
(* The player while its window is open: the four threads of the program,   *)
(* the three queues between them, and the demuxer context they share.      *)
(*                                                                         *)
(*   gui      PlayerUi, Media::config and Media::close, and the timer slot *)
(*            MediaPlayer::syncMedia that shows the frames                 *)
(*   reader   ReadPacketsThread::run: av_read_frame into the packet queues *)
(*   decoder  Video::run: video packets into frames                        *)
(*   audio    SDL's callback thread: audioCallback takes audio packets     *)
(*                                                                         *)
(* A pointer to a demuxer context, or to a stream inside one, is the       *)
(* number of the open that made it; 0 is no pointer.  It may be followed   *)
(* as long as it equals ctx, the context that is open now.                 *)
(***************************************************************************)
EXTENDS Integers, Sequences, FiniteSets

CONSTANTS
  File,        \* the streams of the packets of a file, in file order
  Bytes,       \* Bytes[s]: the size of a packet of stream s
  MaxQueued,   \* MaxQueued[s]: MAX_AUDIOQ_SIZE and MAX_VIDEOQ_SIZE
  Capacity,    \* FrameQueue::capacity
  Modulus,     \* 2^32
  Delay,       \* the pictures the video codec holds back
  CanFail,     \* what may fail: subset of Failures
  MaxOpens,    \* bound: files the user opens
  MaxSeeks,    \* bound: jumps the user makes
  MaxErrors    \* bound: reads of the file that fail

Failures == {"open", "info", "streams", "audio", "video", "device"}
Threads == {"gui", "reader", "decoder", "audio"}
Streams == {"audio", "video"}
Packets == [file : 1 .. MaxOpens, era : 0 .. MaxSeeks, n : 1 .. Len(File)]
NoPacket == [file |-> 0, era |-> 0, n |-> 0]

ASSUME PlayerAssumption ==
  /\ File \in Seq(Streams \cup {"other"})
  /\ Bytes \in [Streams \cup {"other"} -> Nat]
  /\ MaxQueued \in [Streams -> Nat]
  /\ Modulus \in Nat \ {0}
  /\ \A s \in Streams : MaxQueued[s] + Bytes[s] < Modulus
  /\ Capacity \in Nat \ {0}
  /\ Delay \in Nat
  /\ CanFail \subseteq Failures
  /\ MaxOpens \in Nat /\ MaxSeeks \in Nat /\ MaxErrors \in Nat

VARIABLES
  \* the audio and the video PacketQueue and the FrameQueue
  queue, size, sleeping, woken, call, pkt,
  frames, fsleeping, fwoken, fcall, frame,
  \* gui
  guiPc,         \* where the gui thread is
  uiPlay,        \* PlayerUi::isPlay
  showing,       \* MediaPlayer::isPlay
  shown,         \* the last frame shown
  opens,         \* the number of files opened so far
  \* Media, Audio, Video
  ctx,           \* Media::pFormatCtx
  pos,           \* the packets already read from it
  indexes,       \* the streams whose streamIndex is set
  audioStream,   \* Audio::stream; Audio::audioContext is set with it
  videoStream,   \* Video::stream; Video::videoContext is set with it
  device,        \* SDL's audio device: closed, open or closing
  audioPc,       \* idle between two callbacks, callback inside one
  decoderPc,     \* where Video::run is
  codec,         \* the pictures inside Video::videoContext, oldest first
  \* ReadPacketsThread
  readerPc,      \* where run is
  readerPlay,    \* isPlay
  isSeek,
  currentPos,
  readerCtx,     \* the context run got from getAVFormatContext
  era,           \* the jumps run has made
  seeks,         \* the jumps the user has asked for
  errors,        \* the reads that failed
  crashed        \* the process died of an invalid pointer

packetVars == <<queue, size, sleeping, woken, call, pkt>>
frameVars == <<frames, fsleeping, fwoken, fcall, frame>>
guiVars == <<guiPc, uiPlay, showing, shown, opens>>
mediaVars == <<ctx, pos, indexes, audioStream, videoStream>>
decoderVars == <<decoderPc, codec>>
readerVars == <<readerPc, readerCtx, era, errors>>
requestVars == <<readerPlay, isSeek, currentPos, seeks>>
vars == <<packetVars, frameVars, guiVars, mediaVars, device, audioPc, decoderVars,
          readerVars, requestVars, crashed>>

\* The queues outlive the threads modelled here: no destructor runs.
PQ == INSTANCE PacketQueue WITH
  Queues <- Streams, Bytes <- [p \in Packets |-> Bytes[File[p.n]]],
  alive <- Streams, isExit <- FALSE

FQ == INSTANCE FrameQueue WITH Frames <- Packets, NoFrame <- NoPacket

TypeOK ==
  /\ PQ!TypeOK
  /\ FQ!TypeOK
  /\ guiPc \in {"idle", "join", "clearAudio", "clearFrames", "clearVideo",
                "open", "info", "streams", "audio", "video", "start", "play", "pause", "show"}
  /\ uiPlay \in BOOLEAN /\ showing \in BOOLEAN
  /\ shown \in Packets \cup {NoPacket}
  /\ opens \in 0 .. MaxOpens
  /\ {ctx, audioStream, videoStream, readerCtx} \subseteq 0 .. MaxOpens
  /\ pos \in 0 .. Len(File) /\ currentPos \in 0 .. Len(File)
  /\ indexes \subseteq Streams
  /\ device \in {"closed", "open", "closing"}
  /\ audioPc \in {"idle", "callback"}
  /\ decoderPc \in {"check", "deQueue", "decode"}
  /\ codec \in Seq(Packets) /\ Len(codec) <= Delay
  /\ readerPc \in {"top", "getContext", "seek", "clearAudio", "clearVideo", "clearFrames",
                   "check", "context", "read", "dispatch", "error", "done"}
  /\ readerPlay \in BOOLEAN /\ isSeek \in BOOLEAN
  /\ era \in 0 .. MaxSeeks /\ seeks \in 0 .. MaxSeeks /\ errors \in 0 .. MaxErrors
  /\ crashed \in BOOLEAN

Init ==
  /\ PQ!Init
  /\ FQ!Init
  /\ guiPc = "idle" /\ uiPlay = FALSE /\ showing = FALSE /\ shown = NoPacket /\ opens = 0
  /\ ctx = 0 /\ pos = 0 /\ indexes = {} /\ audioStream = 0 /\ videoStream = 0
  /\ device = "closed" /\ audioPc = "idle" /\ decoderPc = "check" /\ codec = << >>
  /\ readerPc = "top" /\ readerPlay = FALSE /\ isSeek = FALSE /\ currentPos = 0
  /\ readerCtx = 0 /\ era = 0 /\ seeks = 0 /\ errors = 0
  /\ crashed = FALSE
-----------------------------------------------------------------------------
\* Thread t is in no queue call: its own code runs.
Running(t) == call[t] = PQ!Idle /\ fcall[t] = "idle"

(***************************************************************************)
(* Media::mutex is held by the gui thread from the first to the last line  *)
(* of close, and of config after that.  The only other holder is           *)
(* getAVFormatContext, for one step.                                       *)
(***************************************************************************)
MediaLocked == guiPc \in {"join", "clearAudio", "clearFrames", "clearVideo",
                          "info", "streams", "audio", "video", "start"}

\* Following a pointer that is not null: into memory that was freed, or never
\* set, the process may die or may find what it hopes for.
Valid(p) == p # 0 /\ p = ctx
Follow(p) == crashed' \in IF Valid(p) THEN {FALSE} ELSE BOOLEAN

\* Following p where null is possible: null is certain death.
FollowOrDie(p) == IF p = 0 THEN crashed' = TRUE ELSE Follow(p)
-----------------------------------------------------------------------------
(***************************************************************************)
(* The gui thread: PlayerUi::onOpenFileClicked calls Media::config, which  *)
(* calls Media::close, and PlayerUi::play after it.                        *)
(***************************************************************************)
GoTo(pc) == guiPc' = pc

\* The user chooses a file.  close locks Media::mutex and calls
\* SDL_CloseAudio, which tells the audio thread to end.
OnOpenFileClicked ==
  /\ guiPc = "idle"
  /\ opens < MaxOpens
  /\ opens' = opens + 1
  /\ device' = IF device = "open" THEN "closing" ELSE device
  /\ GoTo("join")
  /\ UNCHANGED <<packetVars, frameVars, uiPlay, showing, shown, mediaVars, audioPc, decoderVars,
                 readerVars, requestVars, crashed>>

\* SDL_CloseAudio waits for the audio thread to end, in close (join) or in play
\* (pause); a device that is closed has none.
AudioThreadEnds ==
  /\ device = "closing" => audioPc = "idle"
  /\ device' = "closed"

CloseJoin ==
  /\ guiPc = "join"
  /\ AudioThreadEnds
  /\ PQ!CallFlush("gui", "audio")
  /\ GoTo("clearAudio")
  /\ UNCHANGED <<frameVars, uiPlay, showing, shown, opens, mediaVars, audioPc, decoderVars,
                 readerVars, requestVars, crashed>>

CloseClearFrames ==
  /\ guiPc = "clearAudio"
  /\ FQ!CallFlush("gui")
  /\ GoTo("clearFrames")
  /\ UNCHANGED <<packetVars, uiPlay, showing, shown, opens, mediaVars, device, audioPc, decoderVars,
                 readerVars, requestVars, crashed>>

CloseClearPackets ==
  /\ guiPc = "clearFrames"
  /\ PQ!CallFlush("gui", "video")
  /\ GoTo("clearVideo")
  /\ UNCHANGED <<frameVars, uiPlay, showing, shown, opens, mediaVars, device, audioPc, decoderVars,
                 readerVars, requestVars, crashed>>

\* avformat_close_input frees the context and its streams; nothing resets the
\* pointers Audio and Video keep to the streams.  close releases Media::mutex.
CloseInput ==
  /\ guiPc = "clearVideo"
  /\ ctx' = 0
  /\ GoTo("open")
  /\ UNCHANGED <<packetVars, frameVars, uiPlay, showing, shown, opens, pos, indexes, audioStream,
                 videoStream, device, audioPc, decoderVars, readerVars, requestVars, crashed>>

ConfigUnchanged == UNCHANGED <<packetVars, frameVars, uiPlay, shown, opens, audioPc, decoderPc,
                               readerVars, isSeek, currentPos, seeks, crashed>>

\* config returns nullptr, which onOpenFileClicked does not look at.
ConfigFails(what) == what \in CanFail /\ GoTo("play")

\* config locks Media::mutex and opens the file; pFormatCtx stays null when
\* avformat_open_input fails.
ConfigOpen ==
  /\ guiPc = "open"
  /\ \/ ConfigFails("open") /\ UNCHANGED <<ctx, pos>>
     \/ GoTo("info") /\ ctx' = opens /\ pos' = 0
  /\ UNCHANGED <<indexes, audioStream, videoStream, codec, showing, device, readerPlay>>
  /\ ConfigUnchanged

ConfigInfo ==
  /\ guiPc = "info"
  /\ \/ ConfigFails("info") /\ UNCHANGED indexes
     \/ GoTo("streams") /\ indexes' = {}
  /\ UNCHANGED <<ctx, pos, audioStream, videoStream, codec, showing, device, readerPlay>>
  /\ ConfigUnchanged

\* A file without audio or without video is given up.
ConfigStreams ==
  /\ guiPc = "streams"
  /\ \/ ConfigFails("streams") /\ \E s \in Streams : indexes' \in SUBSET {s}
     \/ GoTo("audio") /\ indexes' = Streams
  /\ UNCHANGED <<ctx, pos, audioStream, videoStream, codec, showing, device, readerPlay>>
  /\ ConfigUnchanged

\* Faulty forms of ConfigAudio and ConfigVideo: the streams of the first file
\* stay, or are never set.
ConfigAudioOnce ==
  /\ guiPc = "audio"
  /\ \/ ConfigFails("audio") /\ UNCHANGED audioStream
     \/ GoTo("video") /\ audioStream' = IF audioStream = 0 THEN ctx ELSE audioStream
  /\ UNCHANGED <<ctx, pos, indexes, videoStream, codec, showing, device, readerPlay>>
  /\ ConfigUnchanged

ConfigVideoForgotten ==
  /\ guiPc = "video"
  /\ ConfigFails("video") \/ GoTo("start")
  /\ UNCHANGED <<mediaVars, codec, showing, device, readerPlay>>
  /\ ConfigUnchanged

\* No decoder leaves the old stream in place; a context that cannot be copied
\* is found out when the new one is set.  A new codec context holds no picture.
ConfigAudio ==
  /\ guiPc = "audio"
  /\ \/ ConfigFails("audio") /\ audioStream' \in {audioStream, ctx}
     \/ GoTo("video") /\ audioStream' = ctx
  /\ UNCHANGED <<ctx, pos, indexes, videoStream, codec, showing, device, readerPlay>>
  /\ ConfigUnchanged

ConfigVideo ==
  /\ guiPc = "video"
  /\ \/ ConfigFails("video") /\ UNCHANGED <<videoStream, codec>>
     \/ /\ ConfigFails("video") \/ GoTo("start")
        /\ videoStream' = ctx /\ codec' = << >>
  /\ UNCHANGED <<ctx, pos, indexes, audioStream, showing, device, readerPlay>>
  /\ ConfigUnchanged

\* A faulty form of AudioPlay: the device is not started.
AudioPlayForgotten == UNCHANGED device

\* SDL_OpenAudio opens a closed device, unless it fails, which nobody looks at;
\* it refuses to open one that is open.
AudioPlay ==
  \/ device' = IF device = "closed" THEN "open" ELSE device
  \/ "device" \in CanFail /\ UNCHANGED device

ConfigStart ==
  /\ guiPc = "start"
  /\ AudioPlay
  /\ readerPlay' = TRUE
  /\ showing' = TRUE
  /\ GoTo("play")
  /\ UNCHANGED <<mediaVars, codec>>
  /\ ConfigUnchanged

\* PlayerUi::play: the flag is toggled, whatever became of the file.
Play ==
  /\ guiPc = "play"
  /\ uiPlay' = ~uiPlay
  /\ showing' = uiPlay'
  /\ \/ ctx = 0 /\ GoTo("idle") /\ UNCHANGED <<device, crashed>>
     \/ ctx # 0 /\ uiPlay' /\ GoTo("idle") /\ AudioPlay
          /\ crashed' = (audioStream = 0)     \* audioContext->sample_rate
     \/ ctx # 0 /\ ~uiPlay' /\ GoTo("pause") /\ UNCHANGED crashed
          /\ device' = IF device = "open" THEN "closing" ELSE device
  /\ UNCHANGED <<packetVars, frameVars, shown, opens, mediaVars, audioPc, decoderVars,
                 readerVars, requestVars>>

PlayJoin ==
  /\ guiPc = "pause"
  /\ AudioThreadEnds
  /\ GoTo("idle")
  /\ UNCHANGED <<packetVars, frameVars, uiPlay, showing, shown, opens, mediaVars, audioPc,
                 decoderVars, readerVars, requestVars, crashed>>

\* A faulty form of SyncMedia: it does not look before it takes.
SyncMediaBlindly ==
  /\ guiPc = "idle"
  /\ showing
  /\ GoTo("show")
  /\ UNCHANGED <<packetVars, frameVars, uiPlay, showing, shown, opens, mediaVars, device, audioPc,
                 decoderVars, readerVars, requestVars, crashed>>

\* MediaPlayer::syncMedia, in the event loop: a frame is seen, then taken.
SyncMedia ==
  /\ guiPc = "idle"
  /\ showing
  /\ FQ!getQueueSize # 0
  /\ GoTo("show")
  /\ UNCHANGED <<packetVars, frameVars, uiPlay, showing, shown, opens, mediaVars, device, audioPc,
                 decoderVars, readerVars, requestVars, crashed>>

SyncMediaDequeue ==
  /\ guiPc = "show"
  /\ frame["gui"] = NoPacket
  /\ FQ!DeQueue("gui")
  /\ UNCHANGED <<packetVars, guiVars, mediaVars, device, audioPc, decoderVars, readerVars,
                 requestVars, crashed>>

\* The frame is scaled with the sizes in video->getVideoStream()->codec, shown
\* and freed.
SyncMediaShow ==
  /\ guiPc = "show"
  /\ frame["gui"] # NoPacket
  /\ Follow(videoStream)
  /\ shown' = frame["gui"]
  /\ frame' = [frame EXCEPT !["gui"] = NoPacket]
  /\ GoTo("idle")
  /\ UNCHANGED <<packetVars, frames, fsleeping, fwoken, fcall, uiPlay, showing, opens, mediaVars,
                 device, audioPc, decoderVars, readerVars, requestVars>>

\* The slot ReadPacketsThread::receivePos: two plain assignments.  Nothing in
\* the build connects a signal to it or calls it, so that there are jumps only
\* with MaxSeeks > 0: for the caller the slot is written for, in the gui thread.
ReceivePos ==
  /\ guiPc = "idle"
  /\ seeks < MaxSeeks
  /\ seeks' = seeks + 1
  /\ isSeek' = TRUE
  /\ currentPos' \in 0 .. Len(File)
  /\ UNCHANGED <<packetVars, frameVars, guiVars, mediaVars, device, audioPc, decoderVars,
                 readerVars, readerPlay, crashed>>

GuiContinues ==
  \/ CloseJoin \/ CloseClearFrames \/ CloseClearPackets \/ CloseInput
  \/ ConfigOpen \/ ConfigInfo \/ ConfigStreams \/ ConfigAudio \/ ConfigVideo \/ ConfigStart
  \/ Play \/ PlayJoin
  \/ SyncMedia \/ SyncMediaDequeue \/ SyncMediaShow

User == OnOpenFileClicked \/ ReceivePos
-----------------------------------------------------------------------------
(***************************************************************************)
(* The reader thread.  ReadPacketsThread::mutex is not modelled: only the  *)
(* destructor takes it besides run.  A msleep is a step that may take its  *)
(* time, so that polling is waiting for the guard.                         *)
(***************************************************************************)
ReaderAt(pc) == readerPc = pc
ReaderTo(pc) == readerPc' = pc

ReaderUnchanged == UNCHANGED <<guiVars, audioStream, videoStream, indexes, ctx, device, audioPc,
                               decoderVars, readerPlay, currentPos, seeks>>

\* Once it is set readerPlay stays set, so that it and isSeek are read at once.
ReaderTop ==
  /\ ReaderAt("top")
  /\ readerPlay
  /\ IF isSeek THEN Follow(videoStream) /\ ReaderTo("getContext")      \* ->duration
               ELSE UNCHANGED crashed /\ ReaderTo("check")
  /\ UNCHANGED <<packetVars, frameVars, pos, readerCtx, era, errors, isSeek>>
  /\ ReaderUnchanged

\* getAVFormatContext, for av_seek_frame and for av_read_frame: the pointer is
\* read under Media::mutex and used without it.
ReaderGetContext ==
  /\ \/ ReaderAt("getContext") /\ ReaderTo("seek")
     \/ ReaderAt("context") /\ ReaderTo("read")
  /\ ~MediaLocked
  /\ readerCtx' = ctx
  /\ UNCHANGED <<packetVars, frameVars, pos, era, errors, isSeek, crashed>>
  /\ ReaderUnchanged

\* av_seek_frame goes to a key frame at or before the target, or fails, which
\* run does not look at; then the audio packets are cleared.
ReaderSeek ==
  /\ ReaderAt("seek")
  /\ FollowOrDie(readerCtx)
  /\ pos' \in IF Valid(readerCtx) THEN {pos} \cup 0 .. currentPos ELSE {pos}
  /\ era' = era + 1
  /\ PQ!CallFlush("reader", "audio")
  /\ ReaderTo("clearAudio")
  /\ UNCHANGED <<frameVars, readerCtx, errors, isSeek>>
  /\ ReaderUnchanged

\* A faulty form of ReaderClearPackets: the wrong queue.
ReaderClearAudioTwice ==
  /\ ReaderAt("clearAudio")
  /\ PQ!CallFlush("reader", "audio")
  /\ ReaderTo("clearVideo")
  /\ UNCHANGED <<frameVars, pos, readerCtx, era, errors, isSeek, crashed>>
  /\ ReaderUnchanged

ReaderClearPackets ==
  /\ ReaderAt("clearAudio")
  /\ PQ!CallFlush("reader", "video")
  /\ ReaderTo("clearVideo")
  /\ UNCHANGED <<frameVars, pos, readerCtx, era, errors, isSeek, crashed>>
  /\ ReaderUnchanged

ReaderClearFrames ==
  /\ ReaderAt("clearVideo")
  /\ FQ!CallFlush("reader")
  /\ ReaderTo("clearFrames")
  /\ UNCHANGED <<packetVars, pos, readerCtx, era, errors, isSeek, crashed>>
  /\ ReaderUnchanged

\* A faulty form of ReaderSeekDone: the request stays.
ReaderSeekKept ==
  /\ ReaderAt("clearFrames")
  /\ ReaderTo("check")
  /\ UNCHANGED <<packetVars, frameVars, pos, readerCtx, era, errors, isSeek, crashed>>
  /\ ReaderUnchanged

ReaderSeekDone ==
  /\ ReaderAt("clearFrames")
  /\ isSeek' = FALSE
  /\ ReaderTo("check")
  /\ UNCHANGED <<packetVars, frameVars, pos, readerCtx, era, errors, crashed>>
  /\ ReaderUnchanged

\* A faulty form of checkMediaSizeValid: both queues have to be full.
checkBothSizes == \A s \in Streams : size[s] > MaxQueued[s]

\* Media::checkMediaSizeValid.  The two sizes are read one after the other;
\* they only get smaller while the reader, their one producer, looks at them.
checkMediaSizeValid == \E s \in Streams : size[s] > MaxQueued[s]

ReaderCheck ==
  /\ ReaderAt("check")
  /\ IF checkMediaSizeValid THEN ReaderTo("top")
     ELSE ~MediaLocked /\ ReaderTo(IF ctx = 0 THEN "top" ELSE "context")
  /\ UNCHANGED <<packetVars, frameVars, pos, readerCtx, era, errors, isSeek, crashed>>
  /\ ReaderUnchanged

\* A faulty form of Packet: numbered from 0.
PacketFromZero == [file |-> readerCtx, era |-> era, n |-> pos]

Packet == [file |-> readerCtx, era |-> era, n |-> pos + 1]

\* av_read_frame: a packet, the end of the file or an error.
ReaderRead ==
  /\ ReaderAt("read")
  /\ FollowOrDie(readerCtx)
  /\ \/ /\ Valid(readerCtx) /\ pos < Len(File)
        /\ pkt' = [pkt EXCEPT !["reader"] = Packet]
        /\ pos' = pos + 1
        /\ ReaderTo("dispatch")
        /\ UNCHANGED errors
     \/ /\ Valid(readerCtx) => pos = Len(File)
        /\ ReaderTo("done")
        /\ UNCHANGED <<pkt, pos, errors>>
     \/ /\ errors < MaxErrors
        /\ errors' = errors + 1
        /\ ReaderTo("error")
        /\ UNCHANGED <<pkt, pos>>
  /\ UNCHANGED <<queue, size, sleeping, woken, call, frameVars, readerCtx, era, isSeek>>
  /\ ReaderUnchanged

\* getAVFormatContext()->pb->error tells whether to wait or to give up.
ReaderError ==
  /\ ReaderAt("error")
  /\ ~MediaLocked
  /\ FollowOrDie(ctx)
  /\ ReaderTo("top") \/ ReaderTo("done")
  /\ UNCHANGED <<packetVars, frameVars, pos, readerCtx, era, errors, isSeek>>
  /\ ReaderUnchanged

\* The packet goes to the queue of its stream, or is freed.  The stream index
\* is read just before the queue's mutex is taken.
ReaderDispatch ==
  /\ ReaderAt("dispatch")
  /\ LET p == pkt["reader"]
         s == File[p.n]
     IN  IF s \in indexes THEN PQ!EnQueue(s, p) ELSE UNCHANGED packetVars
  /\ ReaderTo("top")
  /\ UNCHANGED <<frameVars, pos, readerCtx, era, errors, isSeek, crashed>>
  /\ ReaderUnchanged

Reader ==
  \/ ReaderTop \/ ReaderGetContext \/ ReaderSeek \/ ReaderClearPackets \/ ReaderClearFrames
  \/ ReaderSeekDone \/ ReaderCheck \/ ReaderRead \/ ReaderError \/ ReaderDispatch
-----------------------------------------------------------------------------
(***************************************************************************)
(* The decoder thread.  Video::mutex is not modelled: only the destructor  *)
(* takes it besides run.                                                   *)
(***************************************************************************)
DecoderUnchanged == UNCHANGED <<guiVars, mediaVars, device, audioPc, readerVars, requestVars>>

\* A faulty form of DecoderCheck: one frame too many.
DecoderCheckLate ==
  /\ decoderPc = "check"
  /\ FQ!getQueueSize <= Capacity
  /\ size["video"] # 0
  /\ decoderPc' = "deQueue"
  /\ UNCHANGED <<packetVars, frameVars, codec, crashed>>
  /\ DecoderUnchanged

\* The two tests before deQueue; no other thread adds a frame, so that the
\* first still holds at the second.
DecoderCheck ==
  /\ decoderPc = "check"
  /\ FQ!getQueueSize < Capacity
  /\ size["video"] # 0
  /\ decoderPc' = "deQueue"
  /\ UNCHANGED <<packetVars, frameVars, codec, crashed>>
  /\ DecoderUnchanged

DecoderDeQueue ==
  /\ decoderPc = "deQueue"
  /\ PQ!DeQueue("decoder", "video")
  /\ decoderPc' = "decode"
  /\ UNCHANGED <<frameVars, codec, crashed>>
  /\ DecoderUnchanged

\* avcodec_send_packet accepts the packet or refuses it; avcodec_receive_frame
\* wants more packets, loses the oldest picture, or gives it: its time comes
\* from the time bases in stream, and it is queued.  Nothing ever flushes the
\* codec.
DecoderDecode ==
  /\ decoderPc = "decode"
  /\ pkt' = [pkt EXCEPT !["decoder"] = NoPacket]
  /\ \E pictures \in {codec, Append(codec, pkt["decoder"])} :
       \/ /\ Len(pictures) <= Delay
          /\ codec' = pictures
          /\ UNCHANGED <<frameVars, crashed>>
       \/ /\ pictures # << >>
          /\ codec' = Tail(pictures)
          /\ \/ UNCHANGED <<frameVars, crashed>>
             \/ Follow(videoStream) /\ FQ!EnQueue(Head(pictures))
  /\ decoderPc' = "check"
  /\ UNCHANGED <<queue, size, sleeping, woken, call>>
  /\ DecoderUnchanged

Decoder == DecoderCheck \/ DecoderDeQueue \/ DecoderDecode
-----------------------------------------------------------------------------
(***************************************************************************)
(* The audio thread, which SDL runs from SDL_OpenAudio to SDL_CloseAudio.  *)
(* A callback whose buffer still has enough sound takes no packet, and is  *)
(* left out.                                                               *)
(***************************************************************************)
AudioUnchanged == UNCHANGED <<frameVars, guiVars, mediaVars, device, decoderVars, readerVars,
                              requestVars>>

\* audioCallback calls audioDecodeFrame, which takes a packet and waits for one
\* if need be: for the first time in this callback, or once more.
AudioDeQueue ==
  /\ \/ audioPc = "idle" /\ device = "open"
     \/ audioPc = "callback" /\ pkt["audio"] = NoPacket
  /\ PQ!DeQueue("audio", "audio")
  /\ audioPc' = "callback"
  /\ UNCHANGED crashed
  /\ AudioUnchanged

\* audioDecodeFrame follows the stream pointer for the time of the packet.
AudioDecode ==
  /\ audioPc = "callback"
  /\ pkt["audio"] # NoPacket
  /\ pkt' = [pkt EXCEPT !["audio"] = NoPacket]
  /\ Follow(audioStream)
  /\ UNCHANGED <<queue, size, sleeping, woken, call, audioPc>>
  /\ AudioUnchanged

\* SDL's buffer is full.
AudioReturn ==
  /\ audioPc = "callback"
  /\ pkt["audio"] = NoPacket
  /\ audioPc' = "idle"
  /\ UNCHANGED <<packetVars, crashed>>
  /\ AudioUnchanged

Audio == AudioDeQueue \/ AudioDecode \/ AudioReturn
-----------------------------------------------------------------------------
\* A thread inside a member function of a queue.
QueueCall(t) ==
  /\ \/ PQ!InCall(t) /\ UNCHANGED frameVars
     \/ FQ!InCall(t) /\ UNCHANGED packetVars
  /\ UNCHANGED <<guiVars, mediaVars, device, audioPc, decoderVars, readerVars, requestVars,
                 crashed>>

Step(t, action) == ~crashed /\ ((Running(t) /\ action) \/ QueueCall(t))

Next ==
  \/ ~crashed /\ Running("gui") /\ User
  \/ Step("gui", GuiContinues)
  \/ Step("reader", Reader)
  \/ Step("decoder", Decoder)
  \/ Step("audio", Audio)

Safety == Init /\ [][Next]_vars

(***************************************************************************)
(* The operating system runs every thread that can run.  The user owes     *)
(* nothing.                                                                *)
(***************************************************************************)
Spec ==
  /\ Safety
  /\ WF_vars(Step("gui", GuiContinues))
  /\ WF_vars(Step("reader", Reader))
  /\ WF_vars(Step("decoder", Decoder))
  /\ WF_vars(Step("audio", Audio))
-----------------------------------------------------------------------------
(***************************************************************************)
(* Back-pressure on the pictures: never more than capacity frames, though  *)
(* the decoder tests the length well before it adds a frame and tests      *)
(* without the mutex of the queue (video.cpp 194-218).                     *)
(***************************************************************************)
FramesBounded == Len(frames) <= Capacity

(***************************************************************************)
(* Back-pressure on the packets: a queue exceeds its limit by one packet   *)
(* at most, so that its 32-bit counter does not wrap around (media.cpp     *)
(* 137-145, readpacketsthread.cpp 49-54).                                  *)
(***************************************************************************)
BytesBounded ==
  \A s \in Streams : PQ!QueuedBytes(queue[s]) <= MaxQueued[s] + Bytes[s]

(***************************************************************************)
(* Without jumps the event loop never sleeps in the frame queue: it asks   *)
(* for a frame after it saw one, or empties the queue, and nobody else     *)
(* takes frames (mediaplayer.cpp 37-61, media.cpp 235).                    *)
(***************************************************************************)
EventLoopNeverSleepsForFrames == ~FQ!Waiting("gui")

(***************************************************************************)
(* With jumps it may sleep there, and so may the reader, but never both:   *)
(* each looks before it takes, without the mutex, and only the other one   *)
(* can take what it saw.  So one wakeOne per frame is enough, and nobody   *)
(* sleeps over a frame (framequeue.cpp 22-27, 51-54, 78-85;                *)
(* mediaplayer.cpp 37-61; readpacketsthread.cpp 45).                       *)
(***************************************************************************)
OneWaitsForFrames ==
  /\ Cardinality(fsleeping \cup fwoken) <= 1
  /\ fsleeping # {} => frames = << >>

(***************************************************************************)
(* The packet queues are the channels of PacketChannel here, too: a step   *)
(* that touches a queue or those who wait for it adds a packet at the end  *)
(* or takes the oldest one, to keep or to discard it; nobody waits in both *)
(* queues or is sent away, whoever flushes what meanwhile (packetqueue.cpp *)
(* 17-64, media.cpp 234-236, readpacketsthread.cpp 44).                    *)
(***************************************************************************)
QueuesAreChannels ==
  /\ PQ!Channel!Init
  /\ [][PQ!Channel!Next]_<<queue, [s \in Streams |-> sleeping[s] \cup woken[s]]>>

(***************************************************************************)
(* When every file opens, the audio callback only ever sees the stream of  *)
(* the file that is open (audio.cpp 414-454 against media.cpp 83, 239).    *)
(***************************************************************************)
CallbackUsesOpenStream == audioPc = "callback" => audioStream = ctx

(***************************************************************************)
(* With one file no thread ever follows a dead pointer, though none of     *)
(* them holds Media::mutex while it follows one.                           *)
(***************************************************************************)
NeverCrashes == ~crashed

(***************************************************************************)
(* Frames are shown in the order of the files, of the jumps in a file, and *)
(* of the packets between jumps, and none twice, whatever is flushed.      *)
(***************************************************************************)
Before(f, g) ==
  \/ f.file < g.file
  \/ f.file = g.file /\ f.era < g.era
  \/ f.file = g.file /\ f.era = g.era /\ f.n < g.n

ShownInOrder == [][SyncMediaShow => Before(shown, shown')]_vars

(***************************************************************************)
(* Once a jump has cleared the queues no sound from before the jump is     *)
(* left in them, and few pictures: the packet the decoder had in hand and  *)
(* what the codec holds back, which no jump flushes (readpacketsthread.cpp *)
(* 43-46; video.cpp 202-218).                                              *)
(***************************************************************************)
Elements(s) == {s[i] : i \in 1 .. Len(s)}
OldIn(packets) == {p \in packets : p # NoPacket /\ p.era < era}
OnTheWay == Elements(queue["video"]) \cup Elements(codec) \cup Elements(frames)
              \cup {pkt["decoder"]}

SeekLeavesFewPictures ==
  readerPc \notin {"clearAudio", "clearVideo", "clearFrames"} =>
    /\ OldIn(Elements(queue["audio"])) = {}
    /\ Cardinality(OldIn(OnTheWay)) <= Delay + 1

(***************************************************************************)
(* The reader jumps for a request of its own only: no request makes two    *)
(* jumps, and while isSeek is set outside a jump one is due, though the    *)
(* slot sets it and the reader resets it without a lock.  A request made   *)
(* during a jump may get none (readpacketsthread.cpp 37-47, 143-146).      *)
(***************************************************************************)
JumpsAreAsked ==
  /\ era <= seeks
  /\ isSeek /\ readerPc \notin {"clearAudio", "clearVideo", "clearFrames"} => era < seeks

(***************************************************************************)
(* A file that was opened, on a device that works, is played to where the  *)
(* reader stops, which is its end or a read that failed: everything queued *)
(* until then is consumed, whatever waits on whatever in between.          *)
(***************************************************************************)
PlaybackCompletes ==
  opens = 1 ~> /\ readerPc = "done"
               /\ \A s \in Streams : queue[s] = << >>
               /\ frames = << >>
-----------------------------------------------------------------------------
(***************************************************************************)
(* "Close, reclaim the resources" (media.cpp 228): close, and the open it  *)
(* begins, come to an end.  The code does not keep this: SDL_CloseAudio    *)
(* waits for a callback that waits for a packet while close holds the      *)
(* mutex the reader needs to read one.                                     *)
(***************************************************************************)
OpenReturns == guiPc = "join" ~> guiPc = "idle" \/ crashed

(***************************************************************************)
(* "Different files have to be opened several times" (media.cpp 62): after *)
(* a file was opened it plays.  The code does not keep this: play toggles  *)
(* a flag that the first open left set, and the second file is paused.     *)
(***************************************************************************)
PlaysAfterOpen == guiPc = "idle" /\ opens > 0 => showing

(***************************************************************************)
(* "All queues must be emptied" (readpacketsthread.cpp 43): a jump that    *)
(* has begun to clear the queues ends with the queues cleared.  The code   *)
(* does not keep this: queueFlush sees that a queue is not empty, its      *)
(* consumer takes the last element, and the reader, which is the producer  *)
(* of all that could come, waits in deQueue for good.                      *)
(***************************************************************************)
SeekClearsQueues == readerPc = "clearAudio" ~> readerPc = "check"
=============================================================================
