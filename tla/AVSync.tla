------------------------------- MODULE AVSync -------------------------------
(***************************************************************************)
(* How the pictures are kept in step with the sound: the decoder stamps a  *)
(* picture with its time (Video::synchronizeVideo), and the timer of       *)
(* MediaPlayer shows it and decides from the clock of the sound when to    *)
(* show the next one (MediaPlayer::syncMedia).  The sound is AudioOutput.  *)
(*                                                                         *)
(* A unit of time is 10 ms, the shortest interval syncMedia sets.  Time    *)
(* passes in Tick; the timer and SDL's callback are punctual up to a bound.*)
(* Instants are kept relative to now, so that nothing grows with time.     *)
(***************************************************************************)
EXTENDS AudioOutput

CONSTANTS
  Frames,      \* the number of pictures in the file
  FrameDelay,  \* from one picture to the next
  TimeBase,    \* codec->time_base, all of FrameDelay or a part of it
  Unstamped,   \* the pictures without a pts
  Repeated,    \* the pictures with repeat_pict = 1
  NoSync,      \* NOSYNC_THRESHOLD
  OneSecond,   \* beyond which two pts are not taken for a delay
  MaxQueued,   \* FrameQueue::capacity
  MaxAhead,    \* packets the audio queue holds when it stops the reader
  MaxLate,     \* bound: by how much the event loop is late for the timer
  MaxStall,    \* bound: how long the frame queue is empty, in all
  Settle,      \* the pictures it may take to get in step
  Drift        \* how far apart picture and sound may then be

\* The repeated pictures last half as long again; FrameDelay is even.
ASSUME AVSyncAssumption ==
  /\ Frames \in Nat /\ Unstamped \subseteq 1 .. Frames - 1 /\ Repeated \subseteq 0 .. Frames - 1
  /\ FrameDelay \in Nat /\ FrameDelay % 2 = 0
  /\ TimeBase \in 1 .. FrameDelay /\ TimeBase % 2 = 0
  /\ OneSecond \in Nat /\ OneSecond > 3 * FrameDelay /\ NoSync \in Nat
  /\ MaxQueued \in Nat \ {0} /\ MaxAhead \in Nat /\ MaxLate \in Nat /\ MaxStall \in Nat

VARIABLES
  device,         \* the time to SDL's next callback
  due,            \* the time to the timer's timeout
  lag,            \* frameTimer, as seen from now
  decoded,        \* the pictures decoded so far
  queue,          \* the frame queue, of the times of the pictures
  videoClock,
  frameLastPts,
  frameLastDelay,
  stall,          \* the time the frame queue was empty
  settled         \* the pictures shown, up to Settle

videoVars == <<lag, decoded, queue, videoClock, frameLastPts, frameLastDelay, settled>>
syncVars == <<vars, videoVars, device, due, stall>>

ShortestDelay == 1  \* SYNC_THRESHOLD, and the shortest interval
IdleInterval == 2   \* 20 ms
Bigger(a, b) == IF a < b THEN b ELSE a
Stamp(f) == FrameDelay * f + (FrameDelay \div 2) * Cardinality(Repeated \cap 0 .. f - 1)

SyncTypeOK ==
  /\ TypeOK
  /\ device \in 0 .. Length
  /\ due \in -MaxLate .. Bigger(IdleInterval, lag + MaxLate + 1)
  /\ decoded \in 0 .. Frames
  /\ queue \in Seq(Nat) /\ Len(queue) <= MaxQueued
  /\ {videoClock, frameLastPts} \subseteq Nat
  /\ frameLastDelay \in 1 .. OneSecond - 1

\* What config leaves: frameTimer is now, the delay 40 ms and the timeout
\* at once; the clocks and frameLastPts still show the file before.
SyncInit ==
  /\ Init
  /\ device = 0 /\ due = 0 /\ lag = 0
  /\ decoded = 0 /\ queue = << >>
  /\ videoClock \in Clocks /\ frameLastPts \in Clocks
  /\ frameLastDelay = FrameDelay
  /\ stall = 0 /\ settled = 0
-----------------------------------------------------------------------------
Duration(f) == TimeBase + (IF f \in Repeated THEN TimeBase \div 2 ELSE 0)

\* A faulty form of SynchronizeVideo: the clock is not advanced.
SynchronizeVideoOnly(f) ==
  LET pts == IF f \in Unstamped THEN 0 ELSE Stamp(f)
      time == IF pts # 0 THEN pts ELSE videoClock
  IN /\ queue' = Append(queue, time)
     /\ videoClock' = time

\* A picture without a pts, or with a pts of 0, gets the time the pictures
\* before it lead to.
SynchronizeVideo(f) ==
  LET pts == IF f \in Unstamped THEN 0 ELSE Stamp(f)
      time == IF pts # 0 THEN pts ELSE videoClock
  IN /\ queue' = Append(queue, time)
     /\ videoClock' = time + Duration(f)

\* The packets the audio queue holds when the reader gets to the picture f: it
\* reads what comes earlier in the file first, and the full queue stops it.
ReadAhead(f) == {p \in next .. Packets : Pts(p) < Stamp(f)}
WasRead(f) == Cardinality(ReadAhead(f)) <= MaxAhead

\* The decoder thread gets to its next picture.
Decode ==
  /\ decoded < Frames
  /\ WasRead(decoded)
  /\ Len(queue) < MaxQueued
  /\ SynchronizeVideo(decoded)
  /\ decoded' = decoded + 1
  /\ UNCHANGED <<vars, device, due, lag, frameLastPts, frameLastDelay, stall, settled>>

\* The timer's timeout finds no picture.
SyncMediaIdle ==
  /\ due <= 0
  /\ queue = << >>
  /\ due' = IdleInterval
  /\ UNCHANGED <<vars, videoVars, device, stall>>

\* A faulty form of Correction: slow and fast are confused.
CorrectionInverted(delay, diff) ==
  LET threshold == Bigger(delay, ShortestDelay) IN
    IF diff \notin 1 - NoSync .. NoSync - 1 THEN delay
    ELSE IF diff <= -threshold THEN 2 * delay
    ELSE IF diff >= threshold THEN 0
    ELSE delay

\* A picture that is late shortens the delay to nothing, one that is early
\* doubles it, and one that is out of all proportion leaves it alone.
Correction(delay, diff) ==
  LET threshold == Bigger(delay, ShortestDelay) IN
    IF diff \notin 1 - NoSync .. NoSync - 1 THEN delay
    ELSE IF diff <= -threshold THEN 0
    ELSE IF diff >= threshold THEN 2 * delay
    ELSE delay

\* A faulty form of Delay: a jump of the clocks is taken for a delay.
DelayAsIs(pts) == pts - frameLastPts

\* The time between two pictures, or the last one that made sense.
Delay(pts) ==
  IF pts - frameLastPts \in 1 .. OneSecond - 1 THEN pts - frameLastPts ELSE frameLastDelay

\* The timer's timeout shows a picture and sets the timer for the next.
SyncMedia ==
  /\ due <= 0
  /\ queue # << >>
  /\ queue' = Tail(queue)
  /\ frameLastPts' = Head(queue)
  /\ frameLastDelay' = Delay(Head(queue))
  /\ lag' = lag + Correction(Delay(Head(queue)), Head(queue) - clock)
  /\ due' = Bigger(lag', ShortestDelay)
  /\ settled' = Smaller(settled + 1, Settle)
  /\ UNCHANGED <<vars, device, decoded, videoClock, stall>>

SoundStarts ==
  /\ device = 0
  /\ CallbackStarts
  /\ device' = Length
  /\ UNCHANGED <<videoVars, due, stall>>

Sound == Callback /\ UNCHANGED <<videoVars, device, due, stall>>

\* Time passes when nobody is due: a callback takes no time, the event loop
\* is late by MaxLate at most, and MaxStall bounds how long the decoder may
\* leave the frame queue empty.  Without sound time does not matter any more.
Tick ==
  /\ callback = "idle" /\ device > 0
  /\ due > -MaxLate
  /\ IF queue = << >> /\ decoded < Frames /\ WasRead(decoded)
       THEN stall < MaxStall /\ stall' = stall + 1
       ELSE UNCHANGED stall
  /\ device' = device - 1
  /\ due' = due - 1
  /\ lag' = lag - 1
  /\ UNCHANGED <<vars, decoded, queue, videoClock, frameLastPts, frameLastDelay, settled>>

SyncNext ==
  \/ Decode \/ SyncMedia \/ SyncMediaIdle
  \/ SoundStarts \/ Sound \/ Tick

SyncSpec == SyncInit /\ [][SyncNext]_syncVars
-----------------------------------------------------------------------------
Apart == IF decoded = Frames /\ queue = << >> THEN 0 ELSE frameLastPts - clock

(***************************************************************************)
(* Once Settle pictures were shown, picture and sound are no more than     *)
(* Drift apart, whatever the clocks showed at first, with decoder and      *)
(* event loop late, packets lost and without time stamps, and a full audio *)
(* queue in the way of the pictures (mediaplayer.cpp 63-86, video.cpp      *)
(* 99-110, media.cpp 144).                                                 *)
(***************************************************************************)
InStep == settled = Settle => Apart \in -Drift .. Drift

\* The first picture has no time of its own, nor have those that follow it
\* without a pts.
Timed(f) == \E g \in 1 .. f : g \notin Unstamped

(***************************************************************************)
(* The times of the pictures increase and are never later than they should *)
(* be, guessed or not, from the first one with a pts on; only those before *)
(* it may follow the clock of the file before (video.cpp 102-108).         *)
(***************************************************************************)
TimesIncrease ==
  \A i \in 1 .. Len(queue) :
    LET f == decoded - Len(queue) + i - 1 IN
      /\ Timed(f) => queue[i] <= Stamp(f)
      /\ Timed(f - 1) => queue[i] > (IF i = 1 THEN frameLastPts ELSE queue[i - 1])

=============================================================================
