----------------------------- MODULE FrameQueue -----------------------------
(***************************************************************************)
(* The FrameQueue of the decoded pictures (framequeue.h, framequeue.cpp):  *)
(* the same monitor as PacketQueue for pointers to AVFrame, without a byte *)
(* counter and without an exit flag.  getQueueSize and the test of         *)
(* queueFlush read std::queue::size and empty, one word, without the mutex.*)
(* The bound FrameQueue::capacity is a constant its one producer tests     *)
(* before it calls enQueue; the queue does not enforce it.                 *)
(***************************************************************************)
EXTENDS Naturals, Sequences, FiniteSets

CONSTANTS
  Threads,     \* the threads that call it
  Frames,      \* the frames
  NoFrame      \* an uninitialised pointer

VARIABLES
  frames,      \* the frames queued, oldest first
  fsleeping,   \* the threads inside cond.wait
  fwoken,      \* the threads woken that have not got the mutex yet
  fcall,       \* fcall[t]: the member function t is executing
  frame        \* frame[t]: the frame deQueue returned to t

vars == <<frames, fsleeping, fwoken, fcall, frame>>

\* As in PacketQueue: idle, blocked in deQueue, at the test of queueFlush, in
\* the deQueue of queueFlush.
Calls == {"idle", "deQueue", "empty", "take"}

Waiting(t) == t \in fsleeping \cup fwoken

TypeOK ==
  /\ frames \in Seq(Frames)
  /\ fsleeping \subseteq Threads
  /\ fwoken \subseteq Threads
  /\ fcall \in [Threads -> Calls]
  /\ frame \in [Threads -> Frames \cup {NoFrame}]

Init ==
  /\ frames = << >>
  /\ fsleeping = {}
  /\ fwoken = {}
  /\ fcall = [t \in Threads |-> "idle"]
  /\ frame = [t \in Threads |-> NoFrame]
-----------------------------------------------------------------------------
getQueueSize == Len(frames)

WakeOne ==
  \/ fsleeping = {} /\ UNCHANGED <<fsleeping, fwoken>>
  \/ \E t \in fsleeping : fsleeping' = fsleeping \ {t} /\ fwoken' = fwoken \cup {t}

\* The new reference (av_frame_ref) and its copy of the time stamp are made
\* before the mutex is taken; when there is no memory for the reference the
\* frame is not queued and nobody is woken.
EnQueue(f) ==
  /\ \/ frames' = Append(frames, f) /\ WakeOne
     \/ UNCHANGED <<frames, fsleeping, fwoken>>
  /\ UNCHANGED <<fcall, frame>>

Wait(t) ==
  /\ frames = << >>
  /\ fsleeping' = fsleeping \cup {t}
  /\ fwoken' = fwoken \ {t}
  /\ UNCHANGED <<frames, frame>>

\* A faulty form of Take: front without pop.
TakeWithoutPop(t) ==
  /\ frames # << >>
  /\ UNCHANGED frames
  /\ \/ /\ fcall[t] # "take"
        /\ fcall' = [fcall EXCEPT ![t] = "idle"]
        /\ frame' = [frame EXCEPT ![t] = Head(frames)]
     \/ /\ fcall[t] = "take"
        /\ fcall' = [fcall EXCEPT ![t] = "empty"]
        /\ UNCHANGED frame

\* deQueue finds a frame and returns it to its caller, or to queueFlush, which
\* drops it and goes on to its next test.
Take(t) ==
  /\ frames # << >>
  /\ frames' = Tail(frames)
  /\ \/ /\ fcall[t] # "take"
        /\ fcall' = [fcall EXCEPT ![t] = "idle"]
        /\ frame' = [frame EXCEPT ![t] = Head(frames)]
     \/ /\ fcall[t] = "take"
        /\ fcall' = [fcall EXCEPT ![t] = "empty"]
        /\ UNCHANGED frame

DeQueue(t) ==
  /\ fcall[t] = "idle"
  /\ \/ Take(t) /\ UNCHANGED <<fsleeping, fwoken>>
     \/ Wait(t) /\ fcall' = [fcall EXCEPT ![t] = "deQueue"]

Resume(t) ==
  /\ t \in fwoken
  /\ \/ Take(t) /\ fwoken' = fwoken \ {t} /\ UNCHANGED fsleeping
     \/ Wait(t) /\ UNCHANGED fcall

CallFlush(t) ==
  /\ fcall[t] = "idle"
  /\ fcall' = [fcall EXCEPT ![t] = "empty"]
  /\ UNCHANGED <<frames, fsleeping, fwoken, frame>>

FlushTest(t) ==
  /\ fcall[t] = "empty"
  /\ fcall' = [fcall EXCEPT ![t] = IF frames = << >> THEN "idle" ELSE "take"]
  /\ UNCHANGED <<frames, fsleeping, fwoken, frame>>

FlushTake(t) ==
  /\ fcall[t] = "take"
  /\ ~Waiting(t)
  /\ \/ Take(t) /\ UNCHANGED <<fsleeping, fwoken>>
     \/ Wait(t) /\ UNCHANGED fcall

\* What a thread does inside a call it has begun.
InCall(t) == Resume(t) \/ FlushTest(t) \/ FlushTake(t)
=============================================================================
