# The media player: specification, model checking and proofs

This directory holds a TLA+ development of the media player in `src/src`: a Qt
program that demuxes a file with FFmpeg, decodes sound in SDL's audio callback
and pictures in a thread of its own, and shows the pictures from the event loop.
Its own logic is small in lines and large in interleavings: four threads, three
blocking queues, and one demuxer context that one thread frees while the others
hold pointers into it. That is what is specified here, with what surrounds it: how the
program ends, how sound and pictures are kept in step, and the logger every thread
writes to.

## 1. Inventory

### Threads

| thread | code | what it does |
|---|---|---|
| gui | `playerui.cpp`, `media.cpp` (config, close), `mediaplayer.cpp` | opens and closes files, plays and pauses, takes frames from a timer slot and shows them |
| reader | `readpacketsthread.cpp` run | reads packets with `av_read_frame` and puts them into the packet queues; makes jumps |
| decoder | `video.cpp` run | takes video packets, decodes them, puts frames into the frame queue |
| audio | `audio.cpp` audioCallback, audioDecodeFrame | SDL's callback, alive from `SDL_OpenAudio` to `SDL_CloseAudio`; takes audio packets and decodes them |

### Components

| component | state | operations | correct when | modelled |
|---|---|---|---|---|
| `PacketQueue` | `queue`, `size`, `mutex`, `cond`; the static `isExit` | enQueue, deQueue, getPacketSize, queueFlush, destructor | FIFO; no lost wakeup; `size` counts the bytes queued | `PacketQueue` |
| `FrameQueue` | `queue`, `mutex`, `cond`, `capacity` | enQueue, deQueue, getQueueSize, queueFlush | FIFO; never more than `capacity` frames, which the producer and not the queue ensures | `FrameQueue` |
| `ReadPacketsThread` | `isPlay`, `isSeek`, `currentPos`, the packet in hand, its mutex | run, setPlaying, receivePos, destructor | back-pressure; packets go to the queue of their stream; after a jump nothing old is played; it has ended when the program has | `Player`; the destructor in `Shutdown` |
| `Media` | `pFormatCtx`, `mutex`, `audio`, `video`, `filename` | config, close, checkMediaSizeValid, getAVFormatContext, enqueue functions, destructor | the context is not freed while it is used; open and close return; a failed open leaves a usable player | `Player`; the destructor in `Shutdown` |
| `Video` | packet queue, frame queue, `stream`, `streamIndex`, `videoContext`, clocks, its mutex | run, queue access, synchronizeVideo, destructor | frames bounded and in order; uses the open stream; the times of the pictures increase | `Player` (run), `AVSync` (clocks), `Shutdown` (destructor) |
| `Audio` | packet queue, `stream`, `audioContext`, `audioBuff`, `audioBuffSize`, `audioBuffIndex`, `audioClock` | audioPlay, audioClose, audioCallback, audioDecodeFrame, clearPacket, destructor | no callback outlives the device; the sound is complete and in order; the buffer is not overrun | `Player` (device, callback, packets), `AudioOutput` (buffer, clock), `Shutdown` (destructor) |
| `MediaPlayer` | `isPlay`, the timer, `frameTimer`, `frameLastPts`, `frameLastDelay` | play, syncMedia | the event loop never blocks; frames shown in order and in step with the sound | `Player`; the delays in `AVSync` |
| `PlayerUi` | `isPlay` | onOpenFileClicked, play | a file that was opened plays | `Player` |
| `PlayerOpenGL` | a pointer to the picture | setVideoImage, paint | - | no: runs in one thread and has no protocol |
| Logging (`src/logging`) | `LogStreamCache`, the `LogStreamEntity` objects with their counters and buffers, the handlers | make, copy, assign and destroy a `LogRecord`; release; logMessage | an entity in use is not handed out again; none is lost; a record is delivered once, with its own text | `LogRecords` |
| FFmpeg log bridge (`avcommon.cpp`) | none | formats a message | - | no: character level, and only `main_old.cpp` installs it |
| `sigslot`, `scoped_refptr`, ref counters | lists of slots, counts | connect, emit, AddRef, Release | - | no: no target of the build uses them |
| `main_old.cpp`, `mainwindow.cpp` | - | - | - | no: not part of the build |

### How they interact

* *Calls.* `onOpenFileClicked` -> `Media::config` -> `Media::close`; then `play`.
  The timer slot `syncMedia` and every other slot runs in the event loop, so that
  none of them interleaves with an open.
* *Queues.* reader -> audio packets -> audio thread; reader -> video packets ->
  decoder -> frames -> gui. The gui (close) and the reader (a jump) also flush the
  queues, so that each queue has up to three consumers.
* *Jumps.* The reader makes a jump when `isSeek` is set, and only the slot
  `ReadPacketsThread::receivePos` sets it. Nothing in the build connects a signal to that slot
  or calls it: the code of the jump is there, the control that would start one is not. What is
  said of jumps below is about that code as the slot would run it, for `MaxSeeks > 0`; with
  `MaxSeeks = 0` the model is the program as it is built.
* *Shared memory without a lock.* The stream pointers and indexes, `isPlay`,
  `isSeek`, `currentPos`, the context after `getAVFormatContext` has returned it.
* *Locks.* `Media::mutex` is held through close, through config, and for one read
  in `getAVFormatContext`. `SDL_CloseAudio` joins the audio thread under it. The
  mutexes of `Video` and of `ReadPacketsThread` meet only their destructors.
* *Time.* The audio callback writes `audioClock`, the timer slot reads it to decide when
  the next picture is due.
* *Logging.* Every thread makes records; they share a cache of stream entities.

### What is hard here

Every wait is for another thread, and the waits are nested: the audio thread waits in `deQueue`,
close waits for the audio thread, the reader waits for close. The tests that are to make a
blocking call safe (`queue.empty()` in queueFlush, `getQueueSize` in `syncMedia` and in the
decoder, `getPacketSize` in the decoder) are made without the lock of the call. Pointers into
the context are used after the lock was released, files are opened again and opens fail half
way. At the end the objects go one after the other while the threads still use them. Two clocks
that nobody resets decide when a picture is shown. The full list, at the lines where it bites,
is `hazards` in `PROJECT.json`.

## 2. Modules

    PacketChannel         what a packet queue promises (abstract)
    PacketQueue           packetqueue.cpp; refines PacketChannel
      MCPacketQueue       instance for TLC
      ByteSums            lemmas: sums of sizes, counters modulo a width, induction
      PacketQueueProofs   theorems
    FrameQueue            framequeue.cpp
    Player                gui, reader, decoder, audio; two PacketQueues, a FrameQueue
      MCPlayer            instances for TLC, one .cfg per question
      PlayerProofs        theorems
      EventLoopProofs     theorems that build on those of PlayerProofs
      PipelineProofs      theorems about what flows through the queues
    Shutdown              the destructors against the threads; two PacketQueues
      MCShutdown          instance for TLC
      ShutdownProofs      theorems
    AudioOutput           the buffer between decoder and SDL, and audioClock
    AVSync                the clocks of the pictures and the timer; extends AudioOutput
      AVSyncProofs        theorems
    LogSink               what the logger promises (abstract)
    LogRecords            log.h, log.cc, loghandler.cc; refines LogSink
      MCLogRecords        instance for TLC
      LogRecordsProofs    theorems

**PacketQueue.** The queue is a monitor: each member function but `queueFlush`
holds the mutex throughout, so that a call is one step, cut where `cond.wait`
releases the mutex. `sleeping` are the threads in the wait, `woken` those that
`wakeOne` has released and that still have to get the mutex; other threads may
get it first. `Resume` is the code after the wait: the test of `isExit`, then the
loop. `queueFlush` does not lock, so that its test (`FlushTest`) and its `deQueue`
(`FlushTake`) are separate steps. `Destroy` is the destructor; `isExit` is one
flag for all queues, as in the code. The counter is taken modulo `Modulus` (2^32).

**PacketChannel** says the same to a caller: packets arrive in order and once, a
waiting thread is served if a packet stays, and a closed channel may send a
waiting thread away with nothing. The refinement maps `waiting` to the threads
sleeping or woken, and the branch that sends threads away to `isExit`.

**FrameQueue** is the same monitor without counter and flag. Its `enQueue` may
drop the frame, when `av_frame_ref` has no memory.

**Player** composes the threads. One action stands for the code between two
points where another thread can matter: a lock that may be held, a blocking call,
or a read or write of something shared. Every thread has a program counter
(`guiPc`, `readerPc`, `decoderPc`, `audioPc`), and a thread inside a queue call
(`call`, `fcall`) does what the queue's module says before its own code goes on
(`Running`, `QueueCall`). What is abstracted:

* A packet is `[file, era, n]`: which open made its context, how many jumps came
  before, its place in the file. A frame has the identity of its packet.
* A pointer to a context or a stream is the number of the open that made it.
  `Follow(p)` is a dereference: of a pointer that is dead the process may crash or
  go on. After a crash there are no more steps.
* `Media::mutex` is a state predicate, `MediaLocked`: the gui holds it exactly
  between two lines of close and config, and the reader takes it only for one read.
* Polling with `msleep` is a guard: a thread whose test fails has no step until it
  holds. Two tests in a row whose first cannot be falsified by another thread are
  one step (a comment at the action says which and why).
* The mutexes of the reader, of Video and of the static flags serve only the
  destructors: they are in `Shutdown`. In `Player` the queues live as long as the model.
* The video codec is a sequence of at most `Delay` pictures: a packet is accepted or
  refused, and a picture comes out, is lost, or is held back. A new codec context
  (config) is empty; a jump does not empty it. A callback that has enough sound in its
  buffer touches nothing shared and is left out.
* FFmpeg, SDL and Qt are modelled from how the code uses them: `av_read_frame`
  gives the next packet, the end or an error; `av_seek_frame` goes to some place at
  or before the target, or fails; `SDL_OpenAudio` fails on an open device and may
  fail on a closed one; `SDL_CloseAudio` joins the callback.

**Shutdown** is the end of the program. The main thread is the event loop (`InSession`) until
`Quit`, then the destructors, one action for each stretch between two points where it waits or
destroys something: `Quit` and `CloseAudio` (`~Media` with its mutex, `SDL_CloseAudio`),
`DestroyAudio`, `NullAudio`, `DestroyVideo` and `JoinDecoder` (`~Video`), `StopReader` and
`JoinReader`. The reader and the decoder are those of `Player`, with their loop tests,
with the mutexes only the destructors compete for (`VideoLocked`, `ReaderLocked`), and
with the packet the reader releases after its loop (`ReaderUnref`). The session before is
abstracted to what it can leave behind: files are opened any number of times, each open joins
the audio thread, flushes the queues under the decoder and frees the context under the reader
(`OpenFile`, `CloseJoin`, `CloseFlush`, `CloseInput`), and may then fail, play or pause
(`ConfigOpen`, `ConfigAndPlay`, `PauseJoin`); the file may end at any read, and the reader with
it. Packets are known by their stream, frames are counted; the order of pictures, streams and
codecs stay in `Player`, and there are no jumps. `Use(FALSE)` is the use of something that was
destroyed or freed: the process dies or goes on with any answer. Whether SDL drops what is
already mixed when it closes makes no difference to the threads and is left out.

**AudioOutput** is the data path of the sound: `Fetch` (`audioDecodeFrame`, which succeeds
or fails before or after it has set the clock), `NoFetch` and `Mix` (one turn of the loop of
`audioCallback`). A unit of sound is known by its time in the file and stands for the bytes
played in it. `stream` is SDL's buffer in the callback that runs: the set of the units that
`SDL_MixAudio` has mixed at each place, of which it gets `len` and not `len1` (`MixedFrom`).
`output` is a history variable, the sound that is due place by place, by which `stream` is
judged. A file begins with what the file before left in `audioBuff`, its size and its index,
which config does not reset: units before 0. The resampler is a number of units: it gives
`FrameLen` for every packet. `buffer` is the memory from `audioBuff` on as far as the mixer
gets; the code never compares that, or a packet, with `BUFFERSIZE`, and neither does the model.

**AVSync** puts that on a time line with the pictures. `SynchronizeVideo` is
`Video::synchronizeVideo` (a picture without a time gets the one the clock guesses),
`SyncMedia` is a timeout that finds a picture: `Delay`, `Correction` against
`audioClock`, `frameTimer`, and the next timeout. The reader feeds both streams, and a full
audio queue stops it: a picture can be decoded when no more than `MaxAhead` packets of sound
that come before it in the file are still queued (`WasRead`). The other direction, a full video
queue that holds up the sound, is left out: `Fetch` always finds its packet, so that time and
sound do not part company; that waiting is in `Player`. There is no pause: the only call of
`PlayerUi::play` follows a config, which closes, flushes and sets `frameTimer`. A unit of time
is 10 ms, the shortest interval the code sets; time passes in `Tick`, when nobody is due.
Instants are kept relative to now (`lag` is `frameTimer` minus now, `due` the time to the
timeout), which makes the states finite. Punctuality is a bound of its own: the event loop is
late by `MaxLate` at most, and the frame queue may be empty for `MaxStall` in all, besides what
the back-pressure makes it wait.

**LogRecords.** A thread makes, writes, copies, assigns and destroys records (`Construct`,
`Write`, `Copy`, `Assign` and `AssignRef`, `Destroy`); the one that drops the last reference
releases the entity, step by step, because other threads come in between: `Release`,
`Log4cxx`, the two writes to `std::cout`, `Put`. The cache has a mutex, so that get and put
are one step each; the counter is atomic; nothing else is protected. Texts are the
sequence of the writes, each marked with the record it was meant for, and there is one
level that the handlers show and one they do not. A `CommonLog` may hold a null handler:
`logHandler` is a static of `main.cpp`, copied by statics of other files, in an order the
language does not fix. No record is assigned to itself (`operator=` would give
the entity back and use it), which no code does. log4cxx is external: it is told the record.

**LogSink** says the same to a caller: a record is open, grows by its own writes, and is
delivered or dropped, once. The refinement hides the entities: `open` is read off those
that are held or on their way out, `output` off the lines of the console.

## 3. Runs

| run | configuration | what it shows |
|---|---|---|
| `packet_queue` | `MCPacketQueue.cfg` | types, exact counter, no lost wakeup, refinement of `PacketChannel!Spec` with its liveness |
| `play` | `MCPlay.cfg` | one file longer than all queues together, with a read error: played to where the reader stops, the event loop never sleeps, no dead pointer is followed |
| `reopen` | `MCReopen.cfg` | three files, opened at any moment: frames stay within capacity, pictures are shown in order, the packet queues keep what `PacketChannel` promises, the callback sees only the open stream |
| `failed_opens` | `MCFail.cfg` | three opens that may fail at every step, and a missing audio device: types, packets bounded in bytes, frames shown in order |
| `seek` | `MCSeek.cfg` | two jumps, the second at any moment of the first too: afterwards no old sound is left, and no old picture but the decoder's one and those the codec holds back; at most one thread waits for a frame, and never over one; each jump was asked for by a request of its own |
| `shutdown` | `MCShutdown.cfg` | the program ends at any moment of a session with any number of opens: no callback outlives `Audio`, and the exit ends but for three ways to hang (the callback or the decoder waits for a packet nobody can read, which is for good; the decoder overtakes `~Video` for ever) and for a destroyed object that kills the process |
| `sync` | `MCSync.cfg` | SDL is given the sound complete and in order, with nothing newer beside it; how far the mixer reads, the clock where it should be, picture times that increase, pictures in step with the sound: with undecodable packets, missing times, clocks and sound of another file, late threads, an audio queue that stops the reader |
| `log_records` | `MCLogRecords.cfg` | entities have one owner and none is lost, every record that should be is delivered once and in full, a console line is torn by other threads only, refinement of `LogSink!Spec` |
| `open_returns` | `MCOpenReturns.cfg` | *violated*: opening a second file can deadlock |
| `plays_after_open` | `MCPlaysAfterOpen.cfg` | *violated*: the second file opened is paused |
| `seek_clears` | `MCSeekClears.cfg` | *violated*: a jump can block the reader for good |
| `silence_on_error` | `MCSilence.cfg` | *violated*: after a packet that cannot be decoded the sound before it is played once more, not silence |

The four violations are disagreements between the code and its comments.

1. `OpenReturns`. A callback waits in `deQueue` for a packet. The gui enters close,
   takes `Media::mutex` and calls `SDL_CloseAudio`, which waits for the callback. The
   reader, the only thread that could send the packet, needs `Media::mutex` to get
   the context (or has already left its loop at the end of the file). The window is
   frozen. `media.cpp:228` calls close "close, reclaim the resources".
2. `PlaysAfterOpen`. `onOpenFileClicked` ends with `play()`, which toggles
   `PlayerUi::isPlay`. After the first open it is true; after the second it is false,
   and the pictures that config has started are stopped and the device is closed.
   `media.cpp:62` speaks of opening several files.
3. `SeekClearsQueues`. In a jump, `queueFlush` finds a packet, the consumer takes it,
   and the reader waits in `deQueue` for a packet that only the reader could read.
   `readpacketsthread.cpp:43` says "all queues must be emptied". The program as it is built has
   no caller of `receivePos` and so no jump; this is what the first one will meet.
4. `SilenceOnError`. When `audioDecodeFrame` fails, the callback sets `audioBuffSize` to 0 and
   then clears `audioBuffSize` bytes, which is none; `SDL_MixAudio` gets `len` bytes all the same
   and mixes the packet decoded last once more, from its start. `audio.cpp:374` says "nothing
   decoded or an error: fill with 0".

### Bounds

* `packet_queue`: two queues (the flag they share matters), two consumers, packets of
  two sizes, at most `MaxLen = 2` packets in a queue, `Modulus = 4` so that the counter
  wraps around. A second consumer is enough for a stolen wakeup, a second packet for
  two wakeups at once; for more of either there are the theorems.
* `Player`: a video packet has 2 bytes and a limit of 2, an audio packet 1 and 1, so that
  each queue can be over its limit with two packets; `Capacity = 2`. `LongFile` has more
  video than the frame queue and the packet queue hold together, so that every producer
  is stopped by back-pressure, and a packet of a third stream. `ShortFile` still
  fills the audio queue. `Delay = 1`, but
  0 in `failed_opens`, which is the largest run; `reopen` has the order of the pictures
  with a delay.
* `MaxOpens = 3`: the second open meets the pointers, frames and flags of the first; the
  third meets a player whose flag was toggled twice and whose device was closed by
  pause. `MaxSeeks = 2` in `seek`, so that the second request meets every line of the first jump,
  and 1 in `seek_clears`. `MaxErrors` read errors.
* `Shutdown`: `Capacity = 1` and limits of one audio and two video packets, so that
  every queue is found empty, in use and full when the destructors come. A deeper queue adds no
  place where a thread could be.
* `sync` and `silence_on_error`: a packet of 3 units and SDL's buffer of 4, so that a callback
  needs parts of two packets and `SDL_MixAudio` reads beyond each; 14 packets, one of
  which may be lost and one has no time; 10 pictures of 4 units, some without a time, one
  repeated. The clocks start at 0 or at 30, which is in the middle of the file, and the buffer is
  empty or has all or a part of a packet of the file before. `MaxAhead = 3` packets in the audio
  queue stop the reader, so that pictures wait for the sound to be played. `NoSync = 25` units for
  `NOSYNC_THRESHOLD` (1000 in the code, out of reach here) is above what back-pressure lets the
  pictures gain, as it is for sound at ordinary rates in the code. `Settle = 4` pictures and
  `Drift = 18` units (180 ms) are not constants of the code: they say after how many pictures,
  and how closely, the two must agree under these bounds on lateness; that there is a bound at
  all below `NoSync` is the point, not its value.
* `log_records`: two threads, the first opens two records, the second one, in two variables
  each, so that a thread can copy, assign and hold two entities while the other releases one;
  five entities, more than can be in use; a buffer of one write and two writes per record, so that
  it overflows. The variables of a thread are symmetric; the threads are not.
* `CHECK_DEADLOCK FALSE` in all runs: after the last file is played every thread polls or
  waits, after the last destructor or record nothing is left to do, and such a state has
  no steps in the model. That nothing stops *too early* is what the liveness properties say.

### Fairness

`PacketQueue!Spec` asks for weak fairness of what a thread does inside a call
(`InCall`), `Player!Spec` for weak fairness of each thread's next step. Both say no more than
that the operating system runs every thread that can run and that a free mutex is
taken by somebody who wants it; a blocked thread (no packet, mutex held, callback
alive) owes nothing. The user's actions, opening a file and jumping, have no
fairness. Weak fairness is enough because no thread's step is disabled again and again by others in
the runs that check liveness. The safety runs use `Safety`, without fairness.

`Shutdown!Spec` has weak fairness of each thread and of the destructors, and none of what the
user does. The decoder sleeps with `Video::mutex` locked and lets go of it for its loop test
only, so that `~Video` finds the mutex free again and again but not for long. A `QMutex` does not
promise that the main thread ever gets it; strong fairness would, but the code does not justify
it, so `ExitEnds` excepts the behaviours where the decoder comes first for ever (`Overtaken`).
The reader unlocks its own mutex before every sleep, and once `Media::audio` is null it leaves
its loop or, before the first file, holds the mutex only to look at `isPlay` between two sleeps:
`~ReadPacketsThread` needs no such exception. `sync`,
`silence_on_error`, `seek` and `log_records` check safety only.

## 4. Proofs

`PacketQueueProofs` proves, for any set of queues, any finite set of threads, any packets with
sizes in Nat and any modulus above 0 (`PacketQueueAssumption`):

* `TypeCorrect`: `Safety => []TypeOK`. The interesting part is the counter, which stays in `0 ..
  Modulus - 1` though it is subtracted from.
* `WakeupsNotLost`: `Safety => []NoLostWakeup`. The property is not inductive: it bounds a
  queue's length by the number of its woken threads, and must know that a woken thread that
  leaves takes a packet with it and that a thread is in the wait set of one queue at most. The
  invariant is `IInv = TypeOK /\ WaitersInCall /\ NoLostWakeup`, where `WaitersInCall` says that
  a thread in a wait set of `q` executes a `deQueue` of `q` and is not in both sets. Each
  enQueue adds one packet and moves one sleeper to `woken`; each packet taken by somebody who
  was not woken can only help; each woken thread that resumes removes itself and one packet, or
  finds the queue empty and the bound is 0.
* `QueuesAreChannels`: `Safety => Channel!Safety`, the safety half of the refinement: every step
  is a step of `PacketChannel` or a stutter.
* `CounterIsSum`: `Safety => []SizeIsSum`. The counter is inductive by itself; what takes work
  is the sum, a recursive function of a sequence: it grows by the packet appended and shrinks by
  the packet at the head. `ByteSums` proves that by induction over the length. The induction
  theorems of the library take an operator, so `Induction` there is stated for a set of numbers
  and proved from the least element of a set (`WFMin`). The rest is that a number reduced modulo
  `Modulus` at every change is the exact number reduced once.

`PlayerProofs` proves, for any file, sizes, limits, capacity and any number of opens, jumps and
read errors (`PlayerAssumption`, whose only demand of substance is that a limit plus one packet
fits the counter, which only `QueuesBounded` needs):

* `TypeCorrect`: `Safety => []TypeOK`. Not inductive as it stands: a frame is a packet (and a
  picture in the codec) only if the decoder comes back from `deQueue` with one, and `era` stays
  in its range only because a jump uses up a request. `PlayerInv = TypeOK /\ HandInv /\ SeekInv`
  says so: the decoder is in no call but `deQueue`, what the reader and the decoder go on with
  is a packet, and `era < seeks` while a request is open.
* `FramesNeverExceed`: `Safety => []FramesBounded`, with `FramesInv`: from the decoder's test to
  its enQueue there is room for a frame. No other step adds a frame, and takes and flushes only
  make more room. This is the argument the code rests on when it tests the length without the
  mutex.
* `OneJumpPerRequest`: `Safety => []JumpsAreAsked`, from `SeekInv`, whatever the slot and the
  reader do to `isSeek` without a lock. That each request is served is not true.
* `CallbackSafe`: if no open fails, `Safety => []CallbackUsesOpenStream`. `DeviceInv` says that a
  closed device has no callback and that no join begins with an open one; `CallbackInv` follows
  the open: the device is closed from the join to the end of config, the stream is that of the
  context from `setStream` on, and an open device has the open stream.

`EventLoopProofs` goes on from `PlayerInv`:

* `EventLoopAwake`: without jumps (`MaxSeeks = 0`), `Safety => []EventLoopNeverSleepsForFrames`,
  for any number of files that open or fail. `GuiAlone` says why the unlocked `getQueueSize` of
  `syncMedia` is enough: no other thread takes or flushes frames, and between the test and the
  deQueue a frame is there.
* `FrameWaits`: with any jumps and opens, `Safety => []OneWaitsForFrames`. This is what the unlocked
  tests leave: the event loop or the reader may sleep in the frame queue, if the other one took
  the frame it saw. `WaitInv = CallInv /\ SureInv`: only the gui and the reader take frames, and
  a thread is *sure* of a frame from its test to its deQueue. If both are sure, or one is and
  the other waits, there is a frame; the first to take it is sure no longer. So the two never
  wait at once, and one `wakeOne` per frame is enough.
* `OneFileSafe`: with one file that opens (`CanFail = {}`, `MaxOpens = 1`), `Safety =>
  []NeverCrashes`, with any jumps, read errors and lost pictures. `OneFileInv` follows the open:
  nothing is started before context and streams are set, and the reader has a context in hand
  only then. With a second open it is false, and that is the hazard at `media.cpp:239`.

`PipelineProofs` is about what flows from the reader to the screen. It takes over what is proved
of `PacketQueue` by instantiating `PacketQueueProofs` with the player's two queues: every step
of the player is a step of theirs or leaves them alone (`QueueStep`), so that `SizeIsSum` and
`WaitersInCall` hold here too.

* `PlayerQueuesAreChannels`: `Safety => QueuesAreChannels`, the refinement of `PacketChannel` in the
  larger system: a step of the player that touches a packet queue or its waiters is a step of
  the channel. It follows from `QueueStep` and from the step lemma behind
  `PacketQueueProofs!QueuesAreChannels`, with the hands (`pkt`) left out of the subscript, because
  the threads change what they hold without the queues.
* `PlayerWakeupsNotLost`: `Safety => []PQ!NoLostWakeup`, carried over in the same way.
* `ReaderStuckForGood` and `OpenStuckForGood` complete two of the violations in section 3. TLC
  shows that the threads get stuck; the theorems show that nothing gets them out: a reader
  asleep in the flush of a jump stays asleep (`FlushWaitIsFinal`), because only the reader
  wakes, and a close that waits for a sleeping callback while the reader has no packet in hand
  keeps waiting (`CloseWaitIsFinal`), because close holds the mutex the reader needs. Both are
  action properties of `PipelineProofs`; the runs `seek_clears` and `open_returns` reach the states.
* `QueuesBounded`: `Safety => []BytesBounded`. `BytesInv` adds that between its test and its
  enQueue the reader, the one producer, has room for a packet in both queues. The test reads the
  counter and not the sum; the argument is not circular because `BytesBounded` and
  `PlayerAssumption` say that the sum is below `Modulus`, where both agree (`CounterExact`).
* `PicturesInOrder`: `Safety => ShownInOrder`. `PipelineInOrder` puts the places a picture can
  be at in a line: the screen, the gui's hand, the frame queue, the codec, the decoder's hand,
  the video queue, and last the reader's hand with `Future`, what can still be read. All in one
  place comes before all in the next, and the three sequences are sorted. Operations of a queue
  take the first element and move it on or drop it; a jump and an open only make `Future`
  smaller (`FutureShrinks`), because they raise `era` and `file`. `ReaderOnlyFlushes` rules out
  that the reader's hand is changed by a deQueue; `FileInv` orders the contexts.
* `JumpLeavesFewPictures`: `Safety => []SeekLeavesFewPictures`. `JumpInv` says of each of the
  three queues that it is clear once its flush has returned, in the order of the code.
  `FlushInv` says where the reader is in its flushes, and that the packet in its hand is of the
  latest jump. A flush returns only when it has seen the queue empty; after that nothing old
  gets in, because the packet queues have no other producer, and what is old on the way from the
  video queue to the frames can only move or vanish. When the frames are seen empty, what is old
  is in the codec or in the decoder's hand, `Delay + 1` pictures at most.

`ShutdownProofs` proves, for any limits of the queues (`ShutdownAssumption`):

* `AudioOutlivesCallback`: `Spec => []CallbackOutlived`, from `ExitInv`, the order of the
  destructors: the device is closed before anything of `Audio` goes and is not opened again.
* `ExitTypesKept`: `Spec => []TypeOK`. `TypeInv` adds what the types rest on: the decoder tests
  before it adds a frame, and a packet has one of the two streams when it is queued. What the
  operations of the packet queues do to their types comes from `PacketQueueProofs`, here with
  the `alive` and `isExit` that the destructors change.
* `ExitHangsForGood`: `Spec => HangsAreFinal`. TLC reaches both ways to hang; the theorem says
  that neither ends, for any limits. While `~Media` holds its mutex, a reader that has no packet
  in hand does not get one, so nobody calls `wakeOne`; the sleeper cannot move, and the main
  thread waits for it. What takes work is the reader that has read a packet just before, which
  can still wake them: hence `ReaderKeptOut`.

`LogRecordsProofs` proves, for any finite sets of threads and variables, any entities, modules
and sizes (`LogRecordsAssumption`), from one invariant `Inv = TypeOK /\ Where /\ Owner`:

* `LogTypeCorrect`: `Spec => []TypeOK`; a counter could get negative.
* `EntitiesNotShared`: `Spec => []OneOwner`, and `EntitiesKept`: `Spec => []NoEntityLost`.
  `Where` says what a thread between two steps of release or of `operator=` has in hand; `Owner`
  that the counter is the number of records, that an entity is with one thread, being released
  or once in the cache, and made exactly when it is at one of these places. The two need each
  other: only the exact counter makes the release happen once, and only then is the cache free
  of duplicates.
* `LogImplementsSink`: `Spec => ImplementsLogSink`. The mapping reads the open records off the
  entities in use (`InUse`, `Served`) and the output off the writes to the console, of which a
  message is two (`Delivered`). `SinkInv` says that no two entities in use serve the same
  record, and that what is on the console is of records that were opened. A release maps to one
  step of the sink, the second write or the drop; its other steps are stutters.
* `NothingLost`: `Spec => []NothingLostWithoutOverflow`. `DeliveryInv` follows a record for as
  long as no buffer has overflowed (`Whole`): the entity in use has exactly the text written to
  its record, its level and its handler (`Faithful`), the thread that releases it has said so
  far what it should have (`AtConsole`), and a record that is over was delivered in full, once,
  to both handlers, or was not to be (`Finished`).

* `OwnLinesWhole`: `Spec => []TornByOthersOnly`. `LineInv` says that a thread between the two
  writes of a message has written the module of the record last, with the text its entity still
  has (`ModuleWritten`), and that the entities a thread holds or releases serve records of its
  own (`OwnRecords`), so that nobody else writes a piece of them. Other threads do write in between, so that `std::cout` shows torn lines.

`AVSyncProofs` proves, for all sizes of packets and of SDL's buffer, which
`AudioOutputAssumption` does not relate, and for all numbers of packets and pictures, delays and
bounds on lateness (`AVSyncAssumption`):

* `MixStaysInside`: `SyncSpec => []MixInBounds`: the mixer reads less than a packet and an SDL
  buffer from `audioBuff` on, though it is given the wrong length. It mixes from the start of the
  buffer or from a place where there is sound (`BufferInv`). Whether that is inside the 192000
  bytes depends on FFmpeg's frames and is not said.
* `SoundOnceInOrder`: `SyncSpec => []SoundInOrder`. `BufferHolds` says that the buffer has the
  sound of the packet fetched last or nothing, so that the output, with what is not sent yet
  appended, is the sound up to there; a fetch appends a packet, and `Mix` moves units from one
  part to the other. `StreamInv` is about what SDL has been given: the places that were passed
  have the units that are due there, and what was mixed in beside them, at those places and at
  the ones to come, was in the buffer behind the sound: nothing newer than what is due.
* `ClockFollowsSound`: `SyncSpec => []ClockAhead`. `ClockInv` relates the clock and the last
  unit heard to the time of the packet that comes next; the distance is a multiple of the
  packets lost, which are counted as a set.
* `SyncTypesKept`: `SyncSpec => []SyncTypeOK`: the delay stays positive and below a second, and
  the timer within its bounds, whatever times the pictures have.
* `PictureTimesIncrease`: `SyncSpec => []TimesIncrease`. `TimeInv` says that the guess for the
  next picture (`videoClock`) is after the last time given and not after the right one; without
  `TimeBase <= FrameDelay` a guessed time could overtake the time that follows it.

### What only TLC checks

* Liveness: `PlaybackCompletes`, `ExitEnds`, the fairness half of `ImplementsChannel`, and the
  violations of liveness. The prover has no rule for fairness and ENABLED.
* `InStep`. That picture and sound agree after `Settle` pictures to within `Drift` is a
  statement about numbers chosen for the run; how they depend on lateness, delays and losses in
  general is not known, so there is no theorem to state.

Every other property of a passing run is a theorem. Induction over data is within reach only in
the set form of `ByteSums`; the modules with theorems have no RECURSIVE operator, and the sums
and outputs are recursive functions.

## 5. Not modelled, and why

* **Vendored code**: nearly all lines of the repository are copies of apr, apr-util, expat and
  log4cxx under `src/3rd`. They are not this program's logic; log4cxx is modelled by what the
  logger asks of it, FFmpeg, SDL and Qt by how the player uses them.
* **sigslot, scoped_refptr and the ref counters**: no target of the build uses them.
* **`main_old.cpp`, `mainwindow.cpp`** are not built, and with the first the FFmpeg log bridge
  has no caller.
* **setLogLevel** has no caller either: both handlers keep the level they begin with.
* **Formatting of the log, OpenGL, menus, file dialogs, scaling, codec internals**: data, input
  and output.
* **Weak memory**: a read or write of a shared flag or pointer is one step, and all threads see
  the same order of them.

## 6. Plan

1. Done: all modules of section 2, their runs, a theorem for every safety property of a passing
   run but `InStep`, and the theorems about `Player` that go beyond one module: its queues lose
   no wakeup and its packet queues are the channels of `PacketChannel`.
2. Next, which of that survives the exit. `Shutdown` has no such refinement, because the
   reader's last `av_packet_unref` frees the data of a packet that is queued.
3. A bound of `Drift` for punctual threads in terms of the delays and of the packets lost, for
   which `InStep` could be proved.
4. The hazards of `PROJECT.json` that have no property yet, each with its reason in `note`; a
   ReadPacketsThread that starts again would need a change of the code first.
