----------------------------- MODULE AudioOutput -----------------------------
(***************************************************************************)
(* The sound from the decoded packets to SDL's buffer (audio.cpp 361-458): *)
(* audioCallback fills the stream SDL gives it from Audio::audioBuff, and  *)
(* audioDecodeFrame fills audioBuff.  One unit of data is one unit of time *)
(* and stands for as many bytes as are played in it; it is known by its    *)
(* time in the file; those before 0 are what the file before left in the   *)
(* buffer.  deQueue, which may wait for a packet, is in Player.  AVSync    *)
(* adds the passing of time and composes this with the pictures.           *)
(***************************************************************************)
EXTENDS Integers, Sequences, FiniteSets

CONSTANTS
  Length,      \* len, what SDL asks for
  FrameLen,    \* what one packet decodes to
  Packets,     \* the number of packets in the file
  Untimed,     \* the packets that have no pts
  MaxErrors,   \* bound: packets that cannot be decoded
  Clocks       \* what the clocks may show when a file is opened

ASSUME AudioOutputAssumption ==
  /\ Length \in Nat \ {0} /\ FrameLen \in Nat \ {0}
  /\ Packets \in Nat /\ Untimed \subseteq 1 .. Packets /\ MaxErrors \in Nat
  /\ Clocks \subseteq Nat

VARIABLES
  buffer,      \* the memory from audioBuff on
  size,        \* audioBuffSize
  index,       \* audioBuffIndex
  callback,    \* where audioCallback is: idle, top of its loop or mix
  len,         \* what is still to be sent in this callback
  stream,      \* SDL's buffer: at each place the units mixed there
  next,        \* the packet that comes next
  clock,       \* audioClock
  lost,        \* the packets that could not be decoded
  output       \* what was sent so far, one unit for each place SDL played

vars == <<buffer, size, index, callback, len, stream, next, clock, lost, output>>

Garbage == -FrameLen - 1  \* what is behind the sound in the buffer
Units == -FrameLen .. Packets * FrameLen - 1
Pts(p) == (p - 1) * FrameLen
Places == 0 .. Length - 1

\* As far as the mixer can get.  Nothing in the code compares this with
\* BUFFERSIZE: audioDecodeFrame is given the size of a pointer as that of the
\* buffer, and does not look at it.
Memory == 0 .. FrameLen + Length - 2
Smaller(a, b) == IF a < b THEN a ELSE b

TypeOK ==
  /\ buffer \in [Memory -> Units \cup {Garbage}]
  /\ size \in 0 .. FrameLen /\ index \in 0 .. size
  /\ callback \in {"idle", "top", "mix"}
  /\ len \in 0 .. Length
  /\ stream \in [Places -> SUBSET (Units \cup {Garbage})]
  /\ next \in 1 .. Packets + 1
  /\ clock \in Nat
  /\ lost \subseteq 1 .. Packets /\ Cardinality(lost) <= MaxErrors
  /\ output \in Seq(Units)

\* The sound of a file begins; config resets neither the clock nor the buffer,
\* which still has the last packet of the file before.
Init ==
  /\ buffer = [i \in Memory |-> IF i < FrameLen THEN Pts(0) + i ELSE Garbage]
  /\ size \in {0, FrameLen} /\ index \in 0 .. size
  /\ callback = "idle" /\ len = 0 /\ stream = [i \in Places |-> {}]
  /\ next = 1 /\ clock \in Clocks /\ lost = {} /\ output = << >>
-----------------------------------------------------------------------------
\* SDL calls: SDL_memset(stream, 0, len).
CallbackStarts ==
  /\ callback = "idle"
  /\ callback' = "top"
  /\ len' = Length
  /\ stream' = [i \in Places |-> {}]
  /\ UNCHANGED <<buffer, size, index, next, clock, lost, output>>

\* A faulty form of Decoded: the clock is advanced, but never set.
DecodedClockKept(p) ==
  /\ buffer' = [i \in Memory |-> IF i < FrameLen THEN Pts(p) + i ELSE buffer[i]]
  /\ size' = FrameLen
  /\ index' = 0
  /\ clock' = clock + FrameLen
  /\ UNCHANGED lost

\* audioDecodeFrame succeeds: the clock is the time of the packet, or what it
\* was, plus the length of the sound.
Decoded(p) ==
  /\ buffer' = [i \in Memory |-> IF i < FrameLen THEN Pts(p) + i ELSE buffer[i]]
  /\ size' = FrameLen
  /\ index' = 0
  /\ clock' = (IF p \in Untimed THEN clock ELSE Pts(p)) + FrameLen
  /\ UNCHANGED lost

\* A faulty form of Failed: the index is reset for new sound only.
FailedIndexKept(p) ==
  /\ Cardinality(lost) < MaxErrors
  /\ lost' = lost \cup {p}
  /\ size' = 0
  /\ clock' \in IF p \in Untimed THEN {clock} ELSE {clock, Pts(p)}
  /\ UNCHANGED <<index, buffer>>

\* It fails, before or after the clock was set: no byte of the buffer is
\* cleared, since the size is 0 when memset gets it.
Failed(p) ==
  /\ Cardinality(lost) < MaxErrors
  /\ lost' = lost \cup {p}
  /\ size' = 0
  /\ index' = 0
  /\ clock' \in IF p \in Untimed THEN {clock} ELSE {clock, Pts(p)}
  /\ UNCHANGED buffer

Fetch ==
  /\ callback = "top" /\ index >= size
  /\ next <= Packets
  /\ next' = next + 1
  /\ Decoded(next) \/ Failed(next)
  /\ callback' = "mix"
  /\ UNCHANGED <<len, stream, output>>

\* There is still sound in the buffer.
NoFetch ==
  /\ callback = "top" /\ index < size
  /\ callback' = "mix"
  /\ UNCHANGED <<buffer, size, index, len, stream, next, clock, lost, output>>

\* len1: what is in the buffer, or as much of it as is asked for.
Sent == Smaller(size - index, len)

\* A faulty form of MixedFrom: stream is not advanced.
MixedFromStart(place) ==
  [i \in Places |-> IF i < len THEN stream[i] \cup {buffer[index + i]} ELSE stream[i]]

\* SDL_MixAudio is given len, where len1 is sent: what lies behind in the
\* buffer is mixed in, too, and mixed over by the next packet.
MixedFrom(place) ==
  [i \in Places |->
     IF i < place THEN stream[i] ELSE stream[i] \cup {buffer[index + (i - place)]}]

Mix ==
  /\ callback = "mix"
  /\ stream' = MixedFrom(Length - len)
  /\ output' = output \o [i \in 1 .. Sent |-> buffer[index + i - 1]]
  /\ len' = len - Sent
  /\ index' = index + Sent
  /\ callback' = IF len' = 0 THEN "idle" ELSE "top"
  /\ UNCHANGED <<buffer, size, next, clock, lost>>

Callback == Fetch \/ NoFetch \/ Mix
-----------------------------------------------------------------------------
(***************************************************************************)
(* The mixer reads less than a packet and one SDL buffer from audioBuff    *)
(* on, though it reads more than the buffer says it holds (audio.cpp 388): *)
(* it is as much as BUFFERSIZE has to have, which no line checks.          *)
(***************************************************************************)
MixInBounds == callback = "mix" => index + len < FrameLen + Length

\* What a packet decodes to, and what of the sound is still in the buffer.
UnitsOf(p) == Pts(p) .. Pts(p) + FrameLen - 1
Unsent == [i \in 1 .. size - index |-> buffer[index + i - 1]]

\* The unit that is due at a place of SDL's buffer that was passed, and what
\* is mixed in there with it.
Passed == 0 .. Length - len - 1
Due(place) == output[Len(output) - (Length - len) + place + 1]
Beside(place) == stream[place] \ {Due(place)}

\* What is sent and what is left in the buffer is what was decoded.
OutputInOrder ==
  LET sound == output \o Unsent IN
    /\ \A i \in 1 .. Len(sound) - 1 : sound[i] < sound[i + 1]
    /\ {sound[i] : i \in 1 .. Len(sound)} \cap Nat = UNION {UnitsOf(p) : p \in (1 .. next - 1) \ lost}

\* SDL was given what is sent, with older sound beside it or none.
StreamHasOutput ==
  output # << >> =>
    \A place \in Passed :
      /\ Due(place) \in stream[place]
      /\ \A unit \in Beside(place) : unit < Due(place)
      /\ lost = {} => Beside(place) \subseteq {Garbage}

(***************************************************************************)
(* Whatever the sizes of packets and of SDL's buffer, every unit that was  *)
(* decoded is due at one place of what SDL plays, in order and without a   *)
(* gap, and SDL is given it there.  What is mixed in with it is older      *)
(* sound, and while no packet has failed it is no sound of the file at all *)
(* but what lies behind the packet in the buffer (audio.cpp 366-393).      *)
(***************************************************************************)
SoundInOrder == OutputInOrder /\ StreamHasOutput

(***************************************************************************)
(* After a packet that could not be decoded the mixer is given silence:    *)
(* audio.cpp 374 says that the buffer is filled with 0 then.  The code     *)
(* does not keep it: the size memset gets is 0, set one line above, and    *)
(* the packet decoded before is mixed in once more.                        *)
(***************************************************************************)
SilenceOnError ==
  callback = "mix" /\ size = 0 => \A i \in index .. index + len - 1 : buffer[i] \notin Nat

(***************************************************************************)
(* The clock the pictures are synchronised to runs ahead of the sound that *)
(* was sent, by no more than one packet and those that were lost, also     *)
(* when it began with the time of another file: the first packet that has  *)
(* a time and is decoded sets it (audio.cpp 413-454; mediaplayer.cpp 71    *)
(* reads it).                                                              *)
(***************************************************************************)
ClockSet == (1 .. next - 1) \ (lost \cup Untimed) # {}
Heard == IF output = << >> THEN 0 ELSE output[Len(output)] + 1
ClockAhead ==
  ClockSet => clock - Heard \in -FrameLen * Cardinality(lost) .. FrameLen * (1 + Cardinality(lost))

=============================================================================
