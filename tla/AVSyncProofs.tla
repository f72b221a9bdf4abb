---------------------------- MODULE AVSyncProofs ----------------------------
(***************************************************************************)
(* Theorems about AVSync and the sound it runs with, for any sizes of      *)
(* buffers and packets.                                                    *)
(***************************************************************************)
EXTENDS AVSync, FiniteSetTheorems, SequenceTheorems, TLAPS

USE AudioOutputAssumption, AVSyncAssumption

(***************************************************************************)
(* MixInBounds needs to know that the callback mixes from the start of the *)
(* buffer or from a place where there is sound, and never asks for more    *)
(* than SDL did.                                                           *)
(***************************************************************************)
BufferInv ==
  /\ size \in 0 .. FrameLen /\ index \in 0 .. size /\ len \in 0 .. Length
  /\ callback = "mix" => index < size \/ index = 0

LEMMA BufferStep ==
  ASSUME BufferInv, [SyncNext]_syncVars
  PROVE  BufferInv'
<1> USE DEF BufferInv
<1>1. CASE Sound
  <2>1. CASE Fetch
    <3>1. CASE Decoded(next)
      BY <2>1, <3>1 DEF Fetch, Decoded
    <3>2. CASE Failed(next)
      BY <2>1, <3>2 DEF Fetch, Failed
    <3> QED
      BY <2>1, <3>1, <3>2 DEF Fetch
  <2>2. CASE NoFetch
    BY <2>2 DEF NoFetch
  <2>3. CASE Mix
    <3>1. Sent \in Nat /\ Sent <= size - index /\ Sent <= len
      BY DEF Sent, Smaller
    <3>2. /\ len' = len - Sent /\ index' = index + Sent /\ size' = size
          /\ callback' \in {"idle", "top"}
      BY <2>3 DEF Mix
    <3> QED
      BY <3>1, <3>2
  <2> QED
    BY <1>1, <2>1, <2>2, <2>3 DEF Sound, Callback
<1>2. CASE SoundStarts
  BY <1>2 DEF SoundStarts, CallbackStarts
<1>3. CASE Decode \/ SyncMedia \/ SyncMediaIdle \/ Tick
  BY <1>3 DEF Decode, SyncMedia, SyncMediaIdle, Tick, vars
<1>4. CASE UNCHANGED syncVars
  BY <1>4 DEF syncVars, vars
<1> QED
  BY <1>1, <1>2, <1>3, <1>4 DEF SyncNext

(***************************************************************************)
(* SDL_MixAudio is given len where the buffer holds less, and reads at     *)
(* most a packet and an SDL buffer less one from audioBuff on, whatever    *)
(* their sizes are (audio.cpp 384-388).                                    *)
(***************************************************************************)
THEOREM MixStaysInside == SyncSpec => []MixInBounds
<1>1. SyncInit => BufferInv
  BY DEF SyncInit, Init, BufferInv
<1>2. BufferInv => MixInBounds
  BY DEF BufferInv, MixInBounds
<1> QED
  BY <1>1, <1>2, BufferStep, PTL DEF SyncSpec
-----------------------------------------------------------------------------
(***************************************************************************)
(* The sound.  What AVSync adds leaves it alone, so that an invariant of   *)
(* the callback is one of the whole.                                       *)
(***************************************************************************)
LEMMA SoundOnly ==
  ASSUME [SyncNext]_syncVars
  PROVE  CallbackStarts \/ Callback \/ UNCHANGED vars
  BY DEF SyncNext, syncVars, Decode, SyncMedia, SyncMediaIdle, SoundStarts, Sound, Tick

\* The times of the packets: one follows the other, from the one the file
\* before has left.
LEMMA PtsSteps ==
  ASSUME NEW p \in 0 .. Packets
  PROVE  /\ Pts(0) = -FrameLen /\ Pts(1) = 0 /\ Pts(p) \in Int /\ (p > 0 => Pts(p) \in Nat)
         /\ Pts(p + 1) = Pts(p) + FrameLen
         /\ \A i \in 0 .. FrameLen - 1 : Pts(p) + i \in Units
<1>0. /\ (1 - 1) * FrameLen = 0 /\ (0 - 1) * FrameLen = -FrameLen /\ Packets * FrameLen \in Nat
      /\ Pts(0) = -FrameLen /\ Pts(1) = 0
  BY DEF Pts
<1>1. CASE p = 0
  BY <1>0, <1>1 DEF Units
<1>2. CASE p \in 1 .. Packets
  <2> DEFINE k == p - 1
             rest == Packets - p
  <2>1. k \in Nat /\ rest \in Nat /\ Packets = k + 1 + rest
    BY <1>2
  <2>2. k * FrameLen \in Nat /\ rest * FrameLen \in Nat
    BY <2>1
  <2>3. Packets * FrameLen = k * FrameLen + FrameLen + rest * FrameLen
    BY <2>1
  <2>4. (p + 1 - 1) * FrameLen = k * FrameLen + FrameLen
    BY <1>2
  <2> QED
    BY <1>0, <2>2, <2>3, <2>4 DEF Pts, Units
<1> QED
  BY <1>1, <1>2

LEMMA PtsGrows ==
  ASSUME NEW p \in 1 .. Packets + 1, NEW q \in 1 .. Packets + 1, p < q
  PROVE  Pts(p + 1) <= Pts(q)
<1> DEFINE a == p
           b == q - p - 1
<1>1. a \in Nat /\ b \in Nat /\ q - 1 = a + b /\ p + 1 - 1 = a
  OBVIOUS
<1>2. a * FrameLen \in Nat /\ b * FrameLen \in Nat /\ (a + b) * FrameLen = a * FrameLen + b * FrameLen
  BY <1>1
<1> QED
  BY <1>1, <1>2 DEF Pts

LEMMA PtsIsNat ==
  ASSUME NEW p \in 1 .. Packets + 1
  PROVE  Pts(p) \in Nat
<1>1. p - 1 \in Nat /\ FrameLen \in Nat
  OBVIOUS
<1>2. (p - 1) * FrameLen \in Nat
  BY <1>1
<1> QED
  BY <1>2 DEF Pts

(***************************************************************************)
(* What the buffer holds is the packet decoded last; nothing is in it when *)
(* that one was lost.                                                      *)
(***************************************************************************)
BufferHolds ==
  /\ lost \subseteq 1 .. next - 1
  /\ size # 0 => /\ size = FrameLen
                 /\ \A i \in 0 .. FrameLen - 1 : buffer[i] = Pts(next - 1) + i

AudioInv == TypeOK /\ BufferInv /\ BufferHolds

\* What is sent next.
LEMMA UnsentIsSound ==
  ASSUME AudioInv
  PROVE  /\ size - index \in Nat /\ size <= FrameLen
         /\ \A i \in 0 .. size - 1 : buffer[i] \in Units
         /\ size # 0 => size = FrameLen /\ next - 1 \in 0 .. Packets /\ Pts(next - 1) \in Int
                        /\ Pts(next) = Pts(next - 1) + FrameLen
<1>1. size - index \in Nat /\ size <= FrameLen
  BY DEF AudioInv, BufferInv
<1>2. CASE size = 0
  BY <1>1, <1>2
<1>3. CASE size # 0
  <2>1. size = FrameLen /\ next - 1 \in 0 .. Packets /\ (next - 1) + 1 = next
    BY <1>3 DEF AudioInv, TypeOK, BufferHolds
  <2>2. /\ Pts(next - 1) \in Int /\ Pts(next) = Pts(next - 1) + FrameLen
        /\ \A i \in 0 .. FrameLen - 1 : Pts(next - 1) + i \in Units
    BY <2>1, PtsSteps
  <2> QED
    BY <1>1, <1>3, <2>1, <2>2 DEF AudioInv, BufferHolds
<1> QED
  BY <1>2, <1>3

\* What Mix sends.
LEMMA MixSends ==
  ASSUME AudioInv, Mix
  PROVE  /\ Sent \in 0 .. size - index
         /\ output' = output \o [i \in 1 .. Sent |-> buffer[index + i - 1]]
         /\ [i \in 1 .. Sent |-> buffer[index + i - 1]] \in Seq(Units)
         /\ index' = index + Sent
         /\ UNCHANGED <<buffer, size, next, clock, lost>>
<1>1. Sent \in 0 .. size - index
  BY UnsentIsSound DEF AudioInv, BufferInv, Sent, Smaller
<1>2. ASSUME NEW i \in 1 .. Sent PROVE buffer[index + i - 1] \in Units
  <2>1. index + i - 1 \in 0 .. size - 1
    BY <1>1 DEF AudioInv, BufferInv
  <2> QED
    BY <2>1, UnsentIsSound
<1>3. Sent \in Nat
  BY <1>1, UnsentIsSound
<1> HIDE DEF Sent
<1>4. [i \in 1 .. Sent |-> buffer[index + i - 1]] \in Seq(Units)
  BY <1>2, <1>3
<1> QED
  BY <1>1, <1>4 DEF Mix

\* audioDecodeFrame fills the buffer from its start, or leaves it as it was.
LEMMA AudioFetch ==
  ASSUME AudioInv, Fetch
  PROVE  AudioInv'
<1>1. /\ next \in 1 .. Packets /\ next' = next + 1 /\ callback' = "mix"
      /\ UNCHANGED <<len, stream, output>>
  BY DEF Fetch, AudioInv, TypeOK
<1>2. Pts(next) \in Nat /\ \A i \in 0 .. FrameLen - 1 : Pts(next) + i \in Units
  BY <1>1, PtsSteps
<1>3. BufferInv'
  <2>1. CASE Decoded(next)
    BY <1>1, <2>1 DEF Decoded, AudioInv, BufferInv
  <2>2. CASE Failed(next)
    BY <1>1, <2>2 DEF Failed, AudioInv, BufferInv
  <2> QED
    BY <2>1, <2>2 DEF Fetch
<1>4. CASE Decoded(next)
  <2>1. buffer' = [i \in Memory |-> IF i < FrameLen THEN Pts(next) + i ELSE buffer[i]]
    BY <1>4 DEF Decoded
  <2>2. buffer' \in [Memory -> Units \cup {Garbage}]
    <3>1. ASSUME NEW i \in Memory, i < FrameLen PROVE Pts(next) + i \in Units
      BY <1>2, <3>1 DEF Memory
    <3> QED
      BY <2>1, <3>1 DEF AudioInv, TypeOK
  <2>3. \A i \in 0 .. FrameLen - 1 : buffer'[i] = Pts(next) + i
    <3>1. \A i \in 0 .. FrameLen - 1 : i \in Memory
      BY DEF Memory
    <3> QED
      BY <2>1, <3>1
  <2>4. clock' \in Nat
    BY <1>2, <1>4 DEF Decoded, AudioInv, TypeOK
  <2>5. size' = FrameLen /\ index' = 0 /\ lost' = lost
    BY <1>4 DEF Decoded
  <2>6. TypeOK'
    BY <1>1, <2>2, <2>4, <2>5 DEF AudioInv, TypeOK
  <2>7. BufferHolds'
    <3>1. next' - 1 = next
      BY <1>1
    <3> QED
      BY <1>1, <2>3, <2>5, <3>1 DEF AudioInv, BufferHolds
  <2> QED
    BY <1>3, <2>6, <2>7 DEF AudioInv
<1>5. CASE Failed(next)
  <2>1. /\ lost' = lost \cup {next} /\ size' = 0 /\ index' = 0 /\ buffer' = buffer
        /\ Cardinality(lost) < MaxErrors
    BY <1>5 DEF Failed
  <2>2. IsFiniteSet(lost) /\ Cardinality(lost) \in Nat
    <3>1. lost \subseteq 1 .. Packets
      BY DEF AudioInv, TypeOK
    <3>2. IsFiniteSet(1 .. Packets)
      BY FS_Interval
    <3>3. IsFiniteSet(lost)
      BY <3>1, <3>2, FS_Subset
    <3> QED
      BY <3>3, FS_CardinalityType
  <2>3. Cardinality(lost') <= MaxErrors
    <3>1. Cardinality(lost \cup {next}) \in {Cardinality(lost), Cardinality(lost) + 1}
      BY <2>2, FS_AddElement
    <3> QED
      BY <2>1, <2>2, <3>1
  <2>4. clock' \in Nat
    BY <1>2, <1>5 DEF Failed, AudioInv, TypeOK
  <2>5. TypeOK'
    BY <1>1, <2>1, <2>3, <2>4 DEF AudioInv, TypeOK
  <2>6. BufferHolds'
    BY <1>1, <2>1 DEF AudioInv, BufferHolds
  <2> QED
    BY <1>3, <2>5, <2>6 DEF AudioInv
<1> QED
  BY <1>4, <1>5 DEF Fetch

LEMMA AudioMix ==
  ASSUME AudioInv, BufferInv', Mix
  PROVE  AudioInv'
<1>1. /\ Sent \in 0 .. size - index /\ index' = index + Sent
      /\ [i \in 1 .. Sent |-> buffer[index + i - 1]] \in Seq(Units)
      /\ output' = output \o [i \in 1 .. Sent |-> buffer[index + i - 1]]
      /\ UNCHANGED <<buffer, size, next, clock, lost>>
  BY MixSends
<1>2. output' \in Seq(Units)
  <2> DEFINE sent == [i \in 1 .. Sent |-> buffer[index + i - 1]]
  <2>1. output \in Seq(Units) /\ sent \in Seq(Units) /\ output' = output \o sent
    BY <1>1 DEF AudioInv, TypeOK
  <2> HIDE DEF sent
  <2> QED
    BY <2>1
<1>3. stream' \in [Places -> SUBSET (Units \cup {Garbage})]
  <2>1. index + len < FrameLen + Length /\ index \in Nat /\ len \in 0 .. Length
    BY DEF Mix, AudioInv, BufferInv
  <2>2. ASSUME NEW i \in Places, i >= Length - len
        PROVE  buffer[index + (i - (Length - len))] \in Units \cup {Garbage}
    <3>1. index + (i - (Length - len)) \in Memory
      BY <2>1, <2>2 DEF Places, Memory
    <3> QED
      BY <3>1 DEF AudioInv, TypeOK
  <2>3. stream \in [Places -> SUBSET (Units \cup {Garbage})]
    BY DEF AudioInv, TypeOK
  <2>4. stream' = [i \in Places |->
                     IF i < Length - len THEN stream[i]
                     ELSE stream[i] \cup {buffer[index + (i - (Length - len))]}]
    BY DEF Mix, MixedFrom
  <2>5. Places \subseteq Int /\ Length - len \in Int
    BY <2>1 DEF Places
  <2> HIDE DEF Units, Places
  <2>6. ASSUME NEW i \in Places PROVE stream'[i] \subseteq Units \cup {Garbage}
    <3>1. CASE i < Length - len
      BY <2>3, <2>4, <3>1
    <3>2. CASE i >= Length - len
      BY <2>2, <2>3, <2>4, <2>5, <3>2
    <3> QED
      BY <2>5, <3>1, <3>2
  <2> QED
    BY <2>4, <2>6
<1>4. callback' \in {"idle", "top", "mix"}
  BY DEF Mix
<1>5. TypeOK'
  BY <1>1, <1>2, <1>3, <1>4 DEF AudioInv, TypeOK, BufferInv
<1>6. BufferHolds'
  BY <1>1 DEF AudioInv, BufferHolds
<1> QED
  BY <1>5, <1>6 DEF AudioInv

LEMMA AudioStep ==
  ASSUME AudioInv, [SyncNext]_syncVars
  PROVE  AudioInv'
<1>1. BufferInv'
  BY BufferStep DEF AudioInv
<1>2. CASE CallbackStarts
  BY <1>1, <1>2 DEF CallbackStarts, AudioInv, TypeOK, BufferHolds
<1>3. CASE NoFetch
  BY <1>1, <1>3 DEF NoFetch, AudioInv, TypeOK, BufferHolds
<1>4. CASE UNCHANGED vars
  BY <1>1, <1>4 DEF vars, AudioInv, TypeOK, BufferHolds
<1> QED
  BY <1>1, <1>2, <1>3, <1>4, SoundOnly, AudioFetch, AudioMix DEF Callback

LEMMA AudioInit == SyncInit => AudioInv
<1> SUFFICES ASSUME SyncInit PROVE AudioInv
  OBVIOUS
<1>1. BufferInv
  BY DEF SyncInit, Init, BufferInv
<1>2. Cardinality(lost) <= MaxErrors
  BY FS_EmptySet DEF SyncInit, Init
<1>4. \A i \in 0 .. FrameLen - 1 : Pts(0) + i \in Units /\ i \in Memory
  BY PtsSteps DEF Memory
<1>5. buffer = [i \in Memory |-> IF i < FrameLen THEN Pts(0) + i ELSE Garbage] /\ next = 1
  BY DEF SyncInit, Init
<1>6. buffer \in [Memory -> Units \cup {Garbage}]
  <2>1. ASSUME NEW i \in Memory, i < FrameLen PROVE Pts(0) + i \in Units
    BY <1>4, <2>1 DEF Memory
  <2> QED
    BY <1>5, <2>1
<1>7. \A i \in 0 .. FrameLen - 1 : buffer[i] = Pts(next - 1) + i
  BY <1>4, <1>5
<1> QED
  BY <1>1, <1>2, <1>6, <1>7 DEF SyncInit, Init, AudioInv, TypeOK, BufferHolds

(***************************************************************************)
(* The sound that was sent, and that in the buffer behind it.              *)
(***************************************************************************)
AllSound == output \o Unsent
Increasing(s) == \A i \in 1 .. Len(s) - 1 : s[i] < s[i + 1]
Values(s) == {s[i] : i \in 1 .. Len(s)}
Kept == UNION {UnitsOf(p) : p \in (1 .. next - 1) \ lost}

\* A part of an array, of length n from place m.
Part(f, m, n) == [i \in 1 .. n |-> f[m + i - 1]]

LEMMA PartIsSeq ==
  ASSUME NEW S, NEW f, NEW m \in Int, NEW n \in Nat, \A i \in m .. m + n - 1 : f[i] \in S
  PROVE  Part(f, m, n) \in Seq(S) /\ Len(Part(f, m, n)) = n
<1>1. ASSUME NEW i \in 1 .. n PROVE f[m + i - 1] \in S
  <2>1. m + i - 1 \in m .. m + n - 1
    OBVIOUS
  <2> QED
    BY <2>1
<1> QED
  BY <1>1 DEF Part

\* Two parts, one behind the other, are one part.
Joined(S, f, m, k, mid, rest, n) ==
  /\ Part(f, m, k) \in Seq(S) /\ Part(f, mid, rest) \in Seq(S)
  /\ Part(f, m, n) = Part(f, m, k) \o Part(f, mid, rest)

LEMMA Split ==
  ASSUME NEW S, NEW f, NEW m \in Int, NEW k \in Nat, NEW mid \in Int, NEW rest \in Nat, NEW n \in Nat,
         mid = m + k, n = k + rest, \A i \in m .. m + n - 1 : f[i] \in S
  PROVE  Joined(S, f, m, k, mid, rest, n)
<1> DEFINE a == Part(f, m, k)
           b == Part(f, mid, rest)
           c == Part(f, m, n)
           ab == a \o b
<1>0. /\ \A i \in m .. m + k - 1 : f[i] \in S
      /\ \A i \in mid .. mid + rest - 1 : f[i] \in S
  OBVIOUS
<1>1. a \in Seq(S) /\ Len(a) = k
  BY <1>0, PartIsSeq
<1>2. b \in Seq(S) /\ Len(b) = rest
  BY <1>0, PartIsSeq
<1>3. c \in Seq(S) /\ Len(c) = n
  BY PartIsSeq
<1>4. \A i \in 1 .. k : a[i] = c[i]
  BY DEF Part
<1>5. ASSUME NEW i \in 1 .. n, i > k PROVE b[i - k] = c[i]
  <2>1. i - k \in 1 .. rest /\ mid + (i - k) - 1 = m + i - 1
    BY <1>5
  <2> QED
    BY <2>1 DEF Part
<1> HIDE DEF a, b, c
<1>6. /\ ab \in Seq(S) /\ Len(ab) = n
      /\ \A i \in 1 .. n : ab[i] = IF i <= k THEN a[i] ELSE b[i - k]
  BY <1>1, <1>2, ConcatProperties
<1> HIDE DEF ab
<1>7. ASSUME NEW i \in 1 .. n PROVE ab[i] = c[i]
  <2>1. CASE i <= k
    <3>1. i \in 1 .. k
      BY <2>1
    <3> QED
      BY <1>4, <1>6, <2>1, <3>1
  <2>2. CASE i > k
    <3>1. ~(i <= k)
      BY <2>2
    <3> QED
      BY <1>5, <1>6, <2>2, <3>1
  <2> QED
    BY <2>1, <2>2
<1>8. ab = c
  BY <1>3, <1>6, <1>7, SeqEqual
<1> QED
  BY <1>1, <1>2, <1>8 DEF a, b, c, ab, Joined

\* Mix moves sound from the buffer to the output.
LEMMA MixMovesSound ==
  ASSUME AudioInv, Mix
  PROVE  AllSound' = AllSound
<1>1. /\ Sent \in 0 .. size - index /\ index \in Nat /\ size - index \in Nat /\ size \in Nat
      /\ buffer' = buffer /\ size' = size /\ index' = index + Sent
      /\ output' = output \o Part(buffer, index, Sent)
  <2>1. Sent \in 0 .. size - index /\ index \in Nat /\ size - index \in Nat /\ size \in Nat
    BY MixSends, UnsentIsSound DEF AudioInv, BufferInv
  <2>2. buffer' = buffer /\ size' = size /\ index' = index + Sent
    BY MixSends
  <2>3. output' = output \o Part(buffer, index, Sent)
    BY MixSends DEF Part
  <2> QED
    BY <2>1, <2>2, <2>3
<1>2. PICK k \in Nat : k = Sent
  BY <1>1
<1>3. PICK n \in Nat : n = size - index
  BY <1>1
<1>4. PICK rest \in Nat : n = k + rest
  BY <1>1, <1>2, <1>3
<1>5. PICK m \in Nat : m = index
  BY <1>1
<1>6. PICK mid \in Nat : mid = m + k
  OBVIOUS
<1>7. PICK b : b = buffer
  OBVIOUS
<1>8. \A i \in m .. m + n - 1 : b[i] \in Units
  BY <1>1, <1>3, <1>5, <1>7, UnsentIsSound
<1>9. Unsent' = Part(b, mid, rest)
  <2>1. index' = mid /\ size' - index' = rest /\ buffer' = b
    BY <1>1, <1>2, <1>3, <1>4, <1>5, <1>6, <1>7
  <2> QED
    BY <2>1 DEF Unsent, Part
<1>10. Unsent = Part(b, m, n)
  BY <1>3, <1>5, <1>7 DEF Unsent, Part
<1>11. output' = output \o Part(b, m, k)
  BY <1>1, <1>2, <1>5, <1>7
<1>12. /\ Part(b, m, k) \in Seq(Units) /\ Part(b, mid, rest) \in Seq(Units)
       /\ Part(b, m, n) = Part(b, m, k) \o Part(b, mid, rest)
  <2>1. Joined(Units, b, m, k, mid, rest, n)
    <3>1. m \in Int /\ mid \in Int /\ k \in Nat /\ rest \in Nat /\ n \in Nat /\ mid = m + k /\ n = k + rest
      BY <1>4, <1>6
    <3> QED
      BY <3>1, <1>8, Split
  <2> QED
    BY <2>1 DEF Joined
<1>13. output \in Seq(Units)
  BY DEF AudioInv, TypeOK
<1>14. (output \o Part(b, m, k)) \o Part(b, mid, rest) = output \o (Part(b, m, k) \o Part(b, mid, rest))
  <2>1. PICK s \in Seq(Units) : s = output
    BY <1>13
  <2>2. PICK t \in Seq(Units) : t = Part(b, m, k)
    BY <1>12
  <2>3. PICK u \in Seq(Units) : u = Part(b, mid, rest)
    BY <1>12
  <2>4. (s \o t) \o u = s \o (t \o u)
    BY ConcatAssociative
  <2> QED
    BY <2>1, <2>2, <2>3, <2>4
<1> QED
  BY <1>9, <1>10, <1>11, <1>12, <1>14 DEF AllSound

\* Fetch finds the buffer empty, and puts the next packet there, or nothing.
LEMMA FetchAddsSound ==
  ASSUME AudioInv, Fetch, OutputInOrder
  PROVE  OutputInOrder'
<1>1. /\ next \in 1 .. Packets /\ next' = next + 1 /\ output' = output /\ next \notin lost
      /\ output \in Seq(Units)
  BY DEF Fetch, AudioInv, TypeOK, BufferHolds
<1>2. AllSound = output
  <2>1. size - index = 0
    BY DEF Fetch, AudioInv, BufferInv
  <2>2. Unsent = << >>
    BY <2>1 DEF Unsent
  <2> QED
    BY <1>1, <2>2 DEF AllSound
<1>3. Increasing(output) /\ Values(output) \cap Nat = Kept
  BY <1>2 DEF OutputInOrder, AllSound, Increasing, Values, Kept
<1>4. CASE Decoded(next)
  <2> DEFINE new == [i \in 1 .. FrameLen |-> Pts(next) + i - 1]
  <2>1. /\ Pts(next) \in Nat /\ \A i \in 0 .. FrameLen - 1 : Pts(next) + i \in Units
    BY <1>1, PtsSteps
  <2>2. new \in Seq(Units) /\ Len(new) = FrameLen
    <3>1. ASSUME NEW i \in 1 .. FrameLen PROVE Pts(next) + i - 1 \in Units
      <4>1. i - 1 \in 0 .. FrameLen - 1 /\ Pts(next) + (i - 1) = Pts(next) + i - 1
        BY <2>1
      <4> QED
        BY <2>1, <4>1
    <3> QED
      BY <3>1
  <2>3. Unsent' = new
    <3>1. size' = FrameLen /\ index' = 0
      BY <1>4 DEF Decoded
    <3>2. \A i \in 1 .. FrameLen : buffer'[0 + i - 1] = Pts(next) + i - 1
      <4>1. buffer' = [i \in Memory |-> IF i < FrameLen THEN Pts(next) + i ELSE buffer[i]]
        BY <1>4 DEF Decoded
      <4> SUFFICES ASSUME NEW i \in 1 .. FrameLen PROVE buffer'[0 + i - 1] = Pts(next) + i - 1
        OBVIOUS
      <4>2. PICK j \in 0 .. FrameLen - 1 : j = 0 + i - 1 /\ Pts(next) + j = Pts(next) + i - 1
        BY <2>1
      <4>3. j \in Memory /\ j < FrameLen
        BY DEF Memory
      <4> QED
        BY <4>1, <4>2, <4>3
    <3>3. Unsent' = [i \in 1 .. FrameLen - 0 |-> buffer'[0 + i - 1]]
      BY <3>1 DEF Unsent
    <3> QED
      BY <3>2, <3>3
  <2>4. AllSound' = output \o new
    BY <1>1, <2>3 DEF AllSound
  <2>5. Kept' = Kept \cup UnitsOf(next)
    <3>1. lost' = lost
      BY <1>4 DEF Decoded
    <3>2. (1 .. next' - 1) \ lost' = ((1 .. next - 1) \ lost) \cup {next}
      BY <1>1, <3>1
    <3> QED
      BY <3>2 DEF Kept
  <2> DEFINE n == Len(output)
             sound == output \o new
  <2>6. /\ n \in Nat /\ Len(sound) = n + FrameLen
        /\ \A i \in 1 .. n : sound[i] = output[i]
        /\ \A i \in 1 .. FrameLen : sound[n + i] = Pts(next) + i - 1
    <3>1. \A i \in 1 .. FrameLen : new[i] = Pts(next) + i - 1
      OBVIOUS
    <3> HIDE DEF new
    <3>2. PICK s \in Seq(Units) : s = output
      BY <1>1
    <3>3. PICK t \in Seq(Units) : t = new
      BY <2>2
    <3>4. PICK l \in Nat : l = Len(s)
      OBVIOUS
    <3>5. Len(t) = FrameLen /\ FrameLen \in Nat
      BY <2>2, <3>3, AudioOutputAssumption
    <3>6. /\ Len(s \o t) = l + FrameLen
          /\ \A i \in 1 .. l + FrameLen : (s \o t)[i] = IF i <= l THEN s[i] ELSE t[i - l]
      BY <3>4, <3>5, ConcatProperties
    <3>7. \A i \in 1 .. l : (s \o t)[i] = s[i]
      BY <3>5, <3>6
    <3>8. ASSUME NEW i \in 1 .. FrameLen PROVE (s \o t)[l + i] = t[i]
      <4>1. l + i \in 1 .. l + FrameLen /\ ~(l + i <= l) /\ l + i - l = i
        BY <3>4, <3>5
      <4>2. (s \o t)[l + i] = IF l + i <= l THEN s[l + i] ELSE t[l + i - l]
        BY <3>6, <4>1
      <4> QED
        BY <4>1, <4>2
    <3> QED
      BY <3>1, <3>2, <3>3, <3>4, <3>6, <3>7, <3>8
  <2>7. \A i \in 1 .. n : output[i] \in Int /\ output[i] < Pts(next)
    <3>0. \A i \in 1 .. n : output[i] \in Int
      <4>1. \A i \in 1 .. n : output[i] \in Units
        BY <1>1
      <4>2. Units \subseteq Int
        BY DEF Units
      <4> QED
        BY <4>1, <4>2
    <3>1. \A i \in 1 .. n : output[i] \in Nat => output[i] \in Kept
      BY <1>3 DEF Values
    <3>2. ASSUME NEW u \in Kept PROVE u \in Nat /\ u < Pts(next)
      <4>1. PICK p \in (1 .. next - 1) \ lost : u \in UnitsOf(p)
        BY DEF Kept
      <4>2. p \in 1 .. Packets + 1 /\ p + 1 \in 1 .. Packets + 1 /\ p \in 1 .. Packets
        BY <1>1, <4>1
      <4>3. Pts(p) \in Nat /\ Pts(p + 1) = Pts(p) + FrameLen
        BY <4>2, PtsSteps
      <4>4. Pts(p + 1) <= Pts(next)
        BY <1>1, <4>1, PtsGrows
      <4> QED
        BY <2>1, <4>1, <4>3, <4>4 DEF UnitsOf
    <3>3. ASSUME NEW i \in 1 .. n PROVE output[i] < Pts(next)
      <4>1. output[i] \in Int /\ (output[i] \in Nat \/ output[i] < 0)
        BY <3>0
      <4> QED
        BY <2>1, <3>1, <3>2, <4>1
    <3> QED
      BY <3>0, <3>3
  <2> HIDE DEF n, sound
  <2>8. Values(sound) = Values(output) \cup UnitsOf(next)
    <3>1. ASSUME NEW i \in 1 .. n + FrameLen PROVE sound[i] \in Values(output) \cup UnitsOf(next)
      <4>1. CASE i <= n
        BY <2>6, <4>1 DEF Values, n
      <4>2. CASE i > n
        <5>1. PICK j \in 1 .. FrameLen : i = n + j
          BY <2>6, <4>2
        <5>2. sound[i] = Pts(next) + j - 1
          BY <2>6, <5>1
        <5> QED
          BY <2>1, <5>2 DEF UnitsOf
      <4> QED
        BY <2>6, <4>1, <4>2
    <3>2. ASSUME NEW i \in 1 .. n PROVE output[i] \in Values(sound)
      BY <2>6 DEF Values
    <3>3. ASSUME NEW u \in UnitsOf(next) PROVE u \in Values(sound)
      <4>1. PICK j \in 1 .. FrameLen : u = Pts(next) + j - 1
        <5>1. u - Pts(next) + 1 \in 1 .. FrameLen /\ u = Pts(next) + (u - Pts(next) + 1) - 1
          BY <2>1 DEF UnitsOf
        <5> QED
          BY <5>1
      <4>2. sound[n + j] = u /\ n + j \in 1 .. n + FrameLen
        BY <2>6, <4>1
      <4> QED
        BY <2>6, <4>2 DEF Values
    <3>4. Values(sound) = {sound[i] : i \in 1 .. n + FrameLen} /\ Values(output) = {output[i] : i \in 1 .. n}
      BY <2>6 DEF Values, n
    <3> QED
      BY <3>1, <3>2, <3>3, <3>4
  <2>9. Increasing(sound)
    <3> SUFFICES ASSUME NEW i \in 1 .. n + FrameLen - 1 PROVE sound[i] < sound[i + 1]
      BY <2>6 DEF Increasing
    <3>1. CASE i < n
      <4>1. i \in 1 .. n - 1 /\ i \in 1 .. n /\ i + 1 \in 1 .. n
        BY <2>6, <3>1
      <4> QED
        BY <1>3, <2>6, <4>1 DEF Increasing, n
    <3>2. CASE i = n
      <4>1. i \in 1 .. n /\ 1 \in 1 .. FrameLen
        BY <2>6, <3>2
      <4>2. sound[i + 1] = Pts(next) + 1 - 1
        BY <2>6, <3>2, <4>1
      <4> QED
        BY <2>1, <2>6, <2>7, <4>1, <4>2
    <3>3. CASE i > n
      <4>1. i - n \in 1 .. FrameLen /\ i - n + 1 \in 1 .. FrameLen /\ n + (i - n) = i /\ n + (i - n + 1) = i + 1
        BY <2>6, <3>3
      <4>2. sound[i] = Pts(next) + (i - n) - 1 /\ sound[i + 1] = Pts(next) + (i - n + 1) - 1
        BY <2>6, <4>1
      <4> QED
        BY <2>1, <2>6, <4>2
    <3> QED
      BY <2>6, <3>1, <3>2, <3>3
  <2>10. Values(sound) \cap Nat = Kept'
    <3>1. UnitsOf(next) \subseteq Nat
      BY <2>1 DEF UnitsOf
    <3> QED
      BY <1>3, <2>5, <2>8, <3>1
  <2> QED
    BY <2>4, <2>9, <2>10 DEF OutputInOrder, AllSound, Increasing, Values, Kept, sound
<1>5. CASE Failed(next)
  <2>1. lost' = lost \cup {next} /\ size' - index' = 0
    BY <1>5 DEF Failed
  <2>2. Unsent' = << >>
    BY <2>1 DEF Unsent
  <2>3. AllSound' = output
    BY <1>1, <2>2 DEF AllSound
  <2>4. (1 .. next' - 1) \ lost' = (1 .. next - 1) \ lost
    BY <1>1, <2>1
  <2>5. Kept' = Kept
    BY <2>4 DEF Kept
  <2> QED
    BY <1>3, <2>3, <2>5 DEF OutputInOrder, AllSound, Increasing, Values, Kept
<1> QED
  BY <1>4, <1>5 DEF Fetch

LEMMA OrderStep ==
  ASSUME AudioInv, OutputInOrder, [SyncNext]_syncVars
  PROVE  OutputInOrder'
<1>1. CASE UNCHANGED <<output, buffer, size, index, next, lost>>
  <2>1. AllSound' = AllSound
    BY <1>1 DEF AllSound, Unsent
  <2> QED
    BY <1>1, <2>1 DEF OutputInOrder, AllSound
<1>2. CASE Mix
  <2>1. AllSound' = AllSound
    BY <1>2, MixMovesSound
  <2>2. UNCHANGED <<next, lost>>
    BY <1>2, MixSends
  <2> QED
    BY <2>1, <2>2 DEF OutputInOrder, AllSound
<1>3. CallbackStarts \/ NoFetch \/ UNCHANGED vars => UNCHANGED <<output, buffer, size, index, next, lost>>
  BY DEF CallbackStarts, NoFetch, vars
<1> QED
  BY <1>1, <1>2, <1>3, SoundOnly, FetchAddsSound DEF Callback

LEMMA OrderInit == SyncInit => OutputInOrder
<1> SUFFICES ASSUME SyncInit PROVE OutputInOrder
  OBVIOUS
<1>1. /\ output = << >> /\ (1 .. next - 1) \ lost = {}
      /\ size \in {0, FrameLen} /\ index \in 0 .. size /\ next = 1
      /\ \A i \in 0 .. FrameLen - 1 : buffer[i] = Pts(0) + i
  BY DEF SyncInit, Init, Memory
<1>2. PICK n \in Nat : n = size - index
  BY <1>1
<1>3. \A i \in 1 .. n : buffer[index + i - 1] = index + i - 1 - FrameLen
  <2>1. Pts(0) = -FrameLen
    BY DEF Pts
  <2> SUFFICES ASSUME NEW i \in 1 .. n PROVE buffer[index + i - 1] = index + i - 1 - FrameLen
    OBVIOUS
  <2>2. index + i - 1 \in 0 .. FrameLen - 1
    BY <1>1, <1>2
  <2> QED
    BY <1>1, <2>1, <2>2
<1> DEFINE rest == [i \in 1 .. n |-> index + i - 1 - FrameLen]
<1>4. Unsent = rest
  BY <1>2, <1>3 DEF Unsent
<1>5. rest \in Seq(Int) /\ Len(rest) = n
  BY <1>1
<1>6. AllSound = rest
  <2> HIDE DEF rest
  <2> QED
    BY <1>1, <1>4, <1>5, ConcatEmptySeq DEF AllSound
<1>7. \A i \in 1 .. n : rest[i] < 0 /\ rest[i] = index + i - 1 - FrameLen
  BY <1>1, <1>2
<1> HIDE DEF rest
<1>8. Increasing(rest)
  <2> SUFFICES ASSUME NEW i \in 1 .. n - 1 PROVE rest[i] < rest[i + 1]
    BY <1>5 DEF Increasing
  <2>1. i \in 1 .. n /\ i + 1 \in 1 .. n
    OBVIOUS
  <2> QED
    BY <1>1, <1>7, <2>1
<1>9. Values(rest) \cap Nat = {}
  <2> SUFFICES ASSUME NEW u \in Values(rest), u \in Nat PROVE FALSE
    OBVIOUS
  <2>1. PICK i \in 1 .. n : u = rest[i]
    BY <1>5 DEF Values
  <2> QED
    BY <1>7, <2>1
<1>10. Kept = {}
  BY <1>1 DEF Kept
<1> QED
  BY <1>6, <1>8, <1>9, <1>10 DEF OutputInOrder, AllSound, Increasing, Values, Kept

LEMMA AudioInvHolds == SyncSpec => []AudioInv
  BY AudioInit, AudioStep, PTL DEF SyncSpec

(***************************************************************************)
(* What SDL is given.  Coming is the unit that is due next.  What was      *)
(* mixed in too early is older than that: it lies behind the sound in the  *)
(* buffer, or is a packet decoded before one that was lost.                *)
(***************************************************************************)
Coming == Pts(next) - (size - index)

StreamInv ==
  /\ \A i \in Memory : i >= FrameLen => buffer[i] = Garbage
  /\ \A i \in Memory : buffer[i] < Pts(next)
  /\ callback = "mix" => index < size \/ lost # {}
  /\ callback # "idle" /\ output = << >> => len = Length
  /\ output # << >> => Length - len <= Len(output)
  /\ callback # "idle" =>
       \A i \in Places : i >= Length - len =>
         \A u \in stream[i] : u < Coming /\ (lost = {} => u = Garbage)

LEMMA BufferIsInt ==
  ASSUME AudioInv
  PROVE  /\ Garbage \in Int /\ Units \subseteq Int
         /\ \A i \in Memory : buffer[i] \in Int
         /\ \A i \in Places : stream[i] \subseteq Int
<1>1. Garbage \in Int /\ Units \subseteq Int
  BY DEF Garbage, Units
<1>2. buffer \in [Memory -> Units \cup {Garbage}] /\ stream \in [Places -> SUBSET (Units \cup {Garbage})]
  BY DEF AudioInv, TypeOK
<1> HIDE DEF Units, Garbage, Memory, Places
<1> QED
  BY <1>1, <1>2

\* What is due is never older than the packet of the file before.
LEMMA ComingIsNew ==
  ASSUME AudioInv
  PROVE  /\ Pts(next) \in Nat /\ Coming \in Int /\ Garbage < Coming
         /\ size # 0 => Coming = Pts(next - 1) + index
<1>1. Pts(next) \in Nat /\ index \in Nat /\ size \in Nat /\ size <= FrameLen /\ index <= size
  BY PtsIsNat DEF AudioInv, TypeOK
<1>2. Garbage = -FrameLen - 1
  BY DEF Garbage
<1> QED
  BY <1>1, <1>2, UnsentIsSound DEF Coming

LEMMA StreamFetch ==
  ASSUME AudioInv, StreamInv, StreamHasOutput, Fetch
  PROVE  StreamInv' /\ StreamHasOutput'
<1>1. /\ next \in 1 .. Packets /\ next' = next + 1 /\ callback' = "mix" /\ callback = "top"
      /\ UNCHANGED <<len, stream, output>> /\ size - index = 0
  BY DEF Fetch, AudioInv, TypeOK
<1>2. /\ Pts(next) \in Nat /\ Pts(next') = Pts(next) + FrameLen
  BY <1>1, PtsSteps
<1>3. lost \subseteq lost' /\ size' - index' \in {0, FrameLen} /\ (size' - index' = 0 => lost' # {} /\ buffer' = buffer)
      /\ (size' - index' # 0 => index' < size' /\ Decoded(next))
  <2>1. CASE Decoded(next)
    BY <2>1 DEF Decoded
  <2>2. CASE Failed(next)
    BY <2>2 DEF Failed
  <2> QED
    BY <2>1, <2>2 DEF Fetch
<1>4. Coming = Pts(next) /\ Coming' >= Coming /\ Coming \in Int /\ Coming' \in Int
  BY <1>1, <1>2, <1>3 DEF Coming
<1>5. /\ \A i \in Memory : i >= FrameLen => buffer'[i] = Garbage
      /\ \A i \in Memory : buffer'[i] < Pts(next')
  <2>1. ASSUME Decoded(next), NEW i \in Memory
        PROVE  (i >= FrameLen => buffer'[i] = Garbage) /\ buffer'[i] < Pts(next')
    <3>1. buffer'[i] = IF i < FrameLen THEN Pts(next) + i ELSE buffer[i]
      BY <2>1 DEF Decoded
    <3>2. i \in Nat /\ buffer[i] \in Int
      BY BufferIsInt DEF Memory
    <3> QED
      BY <1>2, <3>1, <3>2 DEF StreamInv
  <2>2. ASSUME buffer' = buffer, NEW i \in Memory
        PROVE  (i >= FrameLen => buffer'[i] = Garbage) /\ buffer'[i] < Pts(next')
    <3>1. buffer[i] \in Int
      BY BufferIsInt
    <3> QED
      BY <1>2, <2>2, <3>1 DEF StreamInv
  <2> QED
    BY <1>3, <2>1, <2>2
<1>6. ASSUME NEW i \in Places, i >= Length - len, NEW u \in stream[i]
      PROVE  u < Coming' /\ (lost' = {} => u = Garbage)
  <2>1. u < Coming /\ (lost = {} => u = Garbage) /\ u \in Int
    BY <1>1, <1>6, BufferIsInt DEF StreamInv
  <2> QED
    BY <1>3, <1>4, <2>1
<1>7. StreamInv'
  BY <1>1, <1>3, <1>5, <1>6 DEF StreamInv
<1>8. StreamHasOutput'
  BY <1>1, <1>3 DEF StreamHasOutput, Passed, Due, Beside
<1> QED
  BY <1>7, <1>8

LEMMA StreamMix ==
  ASSUME AudioInv, StreamInv, StreamHasOutput, Mix
  PROVE  StreamInv' /\ StreamHasOutput'
<1>1. PICK k \in Nat : k = Sent
  BY MixSends, UnsentIsSound
<1>2. PICK place \in Nat : place = Length - len
  BY DEF AudioInv, BufferInv
<1>3. PICK n \in Nat : n = Len(output)
  BY DEF AudioInv, TypeOK
<1>4. /\ index \in Nat /\ size \in Nat /\ size - index \in Nat /\ len \in 0 .. Length
      /\ k \in 0 .. size - index /\ k \in 0 .. len /\ (k = len \/ k = size - index)
      /\ index' = index + k /\ len' = len - k /\ size <= FrameLen
      /\ UNCHANGED <<buffer, size, next, clock, lost>> /\ callback = "mix"
  <2>1. /\ index \in Nat /\ size \in Nat /\ size - index \in Nat
        /\ len \in 0 .. Length /\ size <= FrameLen
    BY DEF AudioInv, BufferInv
  <2>2. k \in 0 .. size - index /\ k \in 0 .. len /\ (k = len \/ k = size - index)
    BY <1>1, <2>1 DEF Sent, Smaller
  <2> QED
    BY <1>1, <2>1, <2>2 DEF Mix
<1>5. place <= n
  BY <1>2, <1>3, <1>4 DEF StreamInv
<1>6. ASSUME NEW i \in Places
      PROVE  /\ i \in Nat /\ i < Length
             /\ i < place => stream'[i] = stream[i]
             /\ i >= place => /\ index + (i - place) \in Memory
                              /\ stream'[i] = stream[i] \cup {buffer[index + (i - place)]}
  <2>1. i \in Nat /\ i < Length
    BY DEF Places
  <2>2. stream' = [j \in Places |->
                     IF j < place THEN stream[j] ELSE stream[j] \cup {buffer[index + (j - place)]}]
    BY <1>2 DEF Mix, MixedFrom
  <2>3. index + len < FrameLen + Length
    BY <1>4 DEF AudioInv, BufferInv
  <2>4. i >= place => index + (i - place) \in Memory
    BY <1>2, <1>4, <2>1, <2>3 DEF Memory
  <2> QED
    BY <2>1, <2>2, <2>4
<1>7. /\ Len(output') = n + k /\ output' \in Seq(Units)
      /\ \A j \in 1 .. n : output'[j] = output[j]
      /\ \A j \in 1 .. k : output'[n + j] = buffer[index + j - 1]
  <2> DEFINE sent == [j \in 1 .. k |-> buffer[index + j - 1]]
  <2>1. output \in Seq(Units) /\ sent \in Seq(Units) /\ output' = output \o sent
    BY <1>1, MixSends DEF AudioInv, TypeOK
  <2>2. Len(sent) = k /\ \A j \in 1 .. k : sent[j] = buffer[index + j - 1]
    OBVIOUS
  <2> HIDE DEF sent
  <2>3. PICK s \in Seq(Units) : s = output
    BY <2>1
  <2>4. PICK t \in Seq(Units) : t = sent
    BY <2>1
  <2>5. /\ Len(s) = n /\ Len(t) = k /\ Len(s \o t) = n + k /\ s \o t \in Seq(Units)
        /\ \A j \in 1 .. n + k : (s \o t)[j] = IF j <= n THEN s[j] ELSE t[j - n]
    BY <1>3, <2>2, <2>3, <2>4, ConcatProperties
  <2>6. \A j \in 1 .. n : (s \o t)[j] = s[j]
    <3> SUFFICES ASSUME NEW j \in 1 .. n PROVE (s \o t)[j] = s[j]
      OBVIOUS
    <3>1. j \in 1 .. n + k /\ j <= n
      OBVIOUS
    <3> QED
      BY <2>5, <3>1
  <2>7. \A j \in 1 .. k : (s \o t)[n + j] = t[j]
    <3> SUFFICES ASSUME NEW j \in 1 .. k PROVE (s \o t)[n + j] = t[j]
      OBVIOUS
    <3>1. n + j \in 1 .. n + k /\ ~(n + j <= n) /\ n + j - n = j
      OBVIOUS
    <3>2. (s \o t)[n + j] = IF n + j <= n THEN s[n + j] ELSE t[n + j - n]
      BY <2>5, <3>1
    <3> QED
      BY <3>1, <3>2
  <2> QED
    BY <2>1, <2>2, <2>3, <2>4, <2>5, <2>6, <2>7
<1>8. /\ Pts(next) \in Nat /\ Coming \in Int /\ Garbage < Coming /\ Garbage \in Int
      /\ Coming' = Coming + k /\ (size # 0 => Coming = Pts(next - 1) + index)
  <2>1. /\ Pts(next) \in Nat /\ Coming \in Int /\ Garbage < Coming /\ Garbage \in Int
        /\ (size # 0 => Coming = Pts(next - 1) + index)
    BY ComingIsNew, BufferIsInt
  <2>2. Coming' = Coming + k
    <3>1. Pts(next)' = Pts(next)
      BY <1>4
    <3> QED
      BY <1>4, <2>1, <3>1 DEF Coming
  <2> QED
    BY <2>1, <2>2
<1>9. StreamInv'
  <2>1. ASSUME NEW i \in Places, i >= Length - len', NEW u \in stream'[i]
        PROVE  u < Coming' /\ (lost' = {} => u = Garbage)
    <3>1. i >= place /\ i >= place + k /\ i \in Nat /\ i < Length
      BY <1>2, <1>4, <1>6, <2>1
    <3>2. CASE u \in stream[i]
      <4>1. u < Coming /\ (lost = {} => u = Garbage) /\ u \in Int
        BY <1>2, <1>4, <3>1, <3>2, BufferIsInt DEF StreamInv
      <4> QED
        BY <1>4, <1>8, <4>1
    <3>3. CASE u = buffer[index + (i - place)]
      <4>1. index + (i - place) \in Memory
        BY <1>6, <3>1
      <4>2. k # len
        BY <1>2, <1>4, <3>1
      <4>3. CASE size # 0
        <5>1. size = FrameLen /\ k = size - index
          BY <1>4, <4>2, <4>3, UnsentIsSound
        <5>2. index + (i - place) >= FrameLen
          BY <1>4, <3>1, <5>1
        <5>3. u = Garbage
          BY <3>3, <4>1, <5>2 DEF StreamInv
        <5> QED
          BY <1>8, <5>3
      <4>4. CASE size = 0
        <5>1. lost # {} /\ k = 0 /\ Coming = Pts(next)
          BY <1>4, <4>2, <4>4, <1>8 DEF StreamInv, Coming
        <5>2. u < Pts(next)
          BY <3>3, <4>1 DEF StreamInv
        <5> QED
          BY <1>4, <1>8, <5>1, <5>2
      <4> QED
        BY <4>3, <4>4
    <3> QED
      BY <1>6, <2>1, <3>1, <3>2, <3>3
  <2>2. Length - len' <= Len(output')
    BY <1>2, <1>4, <1>5, <1>7
  <2>3. output' = << >> => len' = Length
    <3>1. output' = << >> => n + k = 0
      BY <1>7
    <3>2. n = 0 => output = << >>
      <4>1. output \in Seq(Units)
        BY DEF AudioInv, TypeOK
      <4>2. output # << >> => Len(output) \in Nat \ {0}
        BY <4>1, EmptySeq
      <4> QED
        BY <1>3, <4>2
    <3> QED
      BY <1>4, <3>1, <3>2 DEF StreamInv
  <2>4. callback' # "mix"
    BY DEF Mix
  <2>5. /\ \A i \in Memory : i >= FrameLen => buffer'[i] = Garbage
        /\ \A i \in Memory : buffer'[i] < Pts(next')
    BY <1>4 DEF StreamInv
  <2> QED
    BY <2>1, <2>2, <2>3, <2>4, <2>5 DEF StreamInv
<1>10. ASSUME NEW i \in 0 .. place + k - 1, NEW unit, unit = output'[n - place + i + 1]
       PROVE  /\ unit \in stream'[i]
              /\ \A u \in stream'[i] \ {unit} : u < unit
              /\ lost' = {} => stream'[i] \ {unit} \subseteq {Garbage}
  <2>1. i \in Places /\ i \in Nat
    BY <1>2, <1>4 DEF Places
  <2>2. CASE i < place
    <3>1. n - place + i + 1 \in 1 .. n /\ stream'[i] = stream[i] /\ i \in Passed
      BY <1>2, <1>5, <1>6, <2>1, <2>2 DEF Passed
    <3>2. unit = Due(i) /\ output # << >>
      <4>1. unit = output[n - place + i + 1]
        BY <1>7, <1>10, <3>1
      <4> QED
        BY <1>2, <1>3, <3>1, <4>1 DEF Due
    <3> QED
      BY <1>4, <3>1, <3>2 DEF StreamHasOutput, Beside
  <2>3. CASE i >= place
    <3>1. i - place + 1 \in 1 .. k /\ n + (i - place + 1) = n - place + i + 1
          /\ index + (i - place + 1) - 1 = index + (i - place) /\ size # 0
          /\ index + (i - place) \in 0 .. FrameLen - 1
      BY <1>4, <2>3
    <3>2. unit = buffer[index + (i - place)]
      BY <1>7, <1>10, <3>1
    <3>3. stream'[i] = stream[i] \cup {unit}
      BY <1>6, <2>1, <2>3, <3>2
    <3>4. unit = Pts(next - 1) + (index + (i - place)) /\ unit >= Coming /\ unit \in Int
      <4>1. unit = Pts(next - 1) + (index + (i - place)) /\ Pts(next - 1) \in Int
        BY <3>1, <3>2, UnsentIsSound DEF AudioInv, BufferHolds
      <4> QED
        BY <1>4, <1>8, <2>3, <3>1, <4>1
    <3>5. ASSUME NEW u \in stream[i] PROVE u < Coming /\ (lost = {} => u = Garbage) /\ u \in Int
      BY <1>2, <1>4, <2>1, <2>3, BufferIsInt DEF StreamInv
    <3>6. \A u \in stream[i] : u < unit
      BY <1>8, <3>4, <3>5
    <3> QED
      BY <1>4, <3>3, <3>5, <3>6
  <2> QED
    BY <2>1, <2>2, <2>3
<1>11. StreamHasOutput'
  <2> SUFFICES ASSUME NEW i \in (0 .. Length - len - 1)'
               PROVE  /\ Due(i)' \in stream'[i]
                      /\ \A u \in Beside(i)' : u < Due(i)'
                      /\ lost' = {} => Beside(i)' \subseteq {Garbage}
    BY DEF StreamHasOutput, Passed
  <2>1. i \in 0 .. place + k - 1
    BY <1>2, <1>4
  <2>2. Due(i)' = output'[n - place + i + 1]
    <3>1. Len(output') - (Length - len') + i + 1 = n - place + i + 1
      BY <1>2, <1>4, <1>7, <2>1
    <3> QED
      BY <3>1 DEF Due
  <2>3. Beside(i)' = stream'[i] \ {Due(i)'}
    BY DEF Beside
  <2> QED
    BY <1>10, <2>1, <2>2, <2>3
<1> QED
  BY <1>9, <1>11

LEMMA StreamStep ==
  ASSUME AudioInv, StreamInv, StreamHasOutput, [SyncNext]_syncVars
  PROVE  StreamInv' /\ StreamHasOutput'
<1>1. CASE CallbackStarts
  <2>1. /\ callback' = "top" /\ len' = Length /\ stream' = [i \in Places |-> {}]
        /\ UNCHANGED <<buffer, size, index, next, lost, output>>
    BY <1>1 DEF CallbackStarts
  <2>2. StreamInv'
    BY <2>1 DEF StreamInv, AudioInv, TypeOK
  <2>3. Passed' = {}
    BY <2>1 DEF Passed
  <2> QED
    BY <2>2, <2>3 DEF StreamHasOutput
<1>2. CASE NoFetch
  BY <1>2 DEF NoFetch, StreamInv, StreamHasOutput, Passed, Due, Beside, Coming
<1>3. CASE UNCHANGED vars
  BY <1>3 DEF vars, StreamInv, StreamHasOutput, Passed, Due, Beside, Coming
<1> QED
  BY <1>1, <1>2, <1>3, SoundOnly, StreamFetch, StreamMix DEF Callback

LEMMA StreamInit == SyncInit => StreamInv /\ StreamHasOutput
<1> SUFFICES ASSUME SyncInit PROVE StreamInv /\ StreamHasOutput
  OBVIOUS
<1>1. /\ output = << >> /\ callback = "idle" /\ next = 1
      /\ buffer = [i \in Memory |-> IF i < FrameLen THEN Pts(0) + i ELSE Garbage]
  BY DEF SyncInit, Init
<1>2. Pts(0) = -FrameLen /\ Pts(1) = 0 /\ Garbage = -FrameLen - 1
  BY DEF Pts, Garbage
<1>3. ASSUME NEW i \in Memory PROVE (i >= FrameLen => buffer[i] = Garbage) /\ buffer[i] < Pts(next)
  <2>1. i \in Nat
    BY DEF Memory
  <2>2. buffer[i] = IF i < FrameLen THEN Pts(0) + i ELSE Garbage
    BY <1>1
  <2> QED
    BY <1>1, <1>2, <2>1, <2>2
<1> QED
  BY <1>1, <1>3 DEF StreamInv, StreamHasOutput

(***************************************************************************)
(* For any sizes of the packets and of SDL's buffer, and whichever packets *)
(* get lost: every unit decoded is due at one place of what SDL plays, in  *)
(* order, and SDL is given it there with nothing newer beside it           *)
(* (audio.cpp 361-395).                                                    *)
(***************************************************************************)
THEOREM SoundOnceInOrder == SyncSpec => []SoundInOrder
<1>1. OutputInOrder /\ StreamHasOutput => SoundInOrder
  BY DEF SoundInOrder
<1> QED
  BY <1>1, OrderInit, OrderStep, StreamInit, StreamStep, AudioInvHolds, PTL DEF SyncSpec

(***************************************************************************)
(* The clock.  It was advanced by every packet that was decoded, and what  *)
(* was lost sets it back by one packet each at most; and of what was read  *)
(* from the file all was sent but for what is in the buffer and for what   *)
(* was lost.  Before the first packet nothing may have been sent at all.   *)
(***************************************************************************)
Behind == FrameLen * Cardinality(lost)

ClockInv ==
  /\ ClockSet => clock \in Pts(next) - Behind .. Pts(next)
  /\ \/ next = 1 /\ output = << >>
     \/ Heard \in Pts(next) - (size - index) - Behind .. Pts(next) - (size - index)

LEMMA LostIsFinite ==
  ASSUME AudioInv
  PROVE  /\ IsFiniteSet(lost) /\ Cardinality(lost) \in Nat /\ Behind \in Nat
         /\ next \in 1 .. Packets => Cardinality(lost \cup {next}) = Cardinality(lost) + 1
<1>1. lost \subseteq 1 .. Packets /\ next \notin lost
  BY DEF AudioInv, TypeOK, BufferHolds
<1>2. IsFiniteSet(1 .. Packets)
  BY FS_Interval
<1>3. IsFiniteSet(lost)
  BY <1>1, <1>2, FS_Subset
<1>4. Cardinality(lost) \in Nat
  BY <1>3, FS_CardinalityType
<1>5. FrameLen * Cardinality(lost) \in Nat
  BY <1>4
<1> QED
  BY <1>1, <1>3, <1>4, <1>5, FS_AddElement DEF Behind

LEMMA ClockFetch ==
  ASSUME AudioInv, ClockInv, Fetch
  PROVE  ClockInv'
<1>1. /\ next \in 1 .. Packets /\ next' = next + 1 /\ output' = output /\ next \notin lost
      /\ size - index = 0
  BY DEF Fetch, AudioInv, BufferInv, TypeOK, BufferHolds
<1>2. /\ Pts(next) \in Nat /\ Pts(next') = Pts(next) + FrameLen /\ clock \in Nat
  BY <1>1, PtsSteps DEF AudioInv, TypeOK
<1>3. Heard' = Heard
  BY <1>1 DEF Heard
<1>4. Behind \in Nat
  BY LostIsFinite
<1>7. Heard \in Pts(next) - Behind .. Pts(next)
  <2>1. CASE next = 1 /\ output = << >>
    <3>1. Heard = 0 /\ Pts(next) = 0
      BY <2>1 DEF Heard, Pts
    <3> QED
      BY <1>4, <3>1
  <2>2. CASE Heard \in Pts(next) - (size - index) - Behind .. Pts(next) - (size - index)
    BY <1>1, <1>2, <1>4, <2>2
  <2> QED
    BY <2>1, <2>2 DEF ClockInv
<1>5. CASE Decoded(next)
  <2>1. /\ size' = FrameLen /\ index' = 0 /\ lost' = lost
        /\ clock' = (IF next \in Untimed THEN clock ELSE Pts(next)) + FrameLen
    BY <1>5 DEF Decoded
  <2>2. Behind' = Behind
    BY <2>1 DEF Behind
  <2>3. ClockSet' => ClockSet \/ next \notin Untimed
    BY <1>1, <2>1 DEF ClockSet
  <2>4. ClockSet' => clock' \in Pts(next') - Behind' .. Pts(next')
    BY <1>2, <1>4, <2>1, <2>2, <2>3 DEF ClockInv
  <2>5. Heard' \in Pts(next') - (size' - index') - Behind' .. Pts(next') - (size' - index')
    BY <1>1, <1>2, <1>3, <1>4, <1>7, <2>1, <2>2
  <2> QED
    BY <2>4, <2>5 DEF ClockInv
<1>6. CASE Failed(next)
  <2>1. /\ size' = 0 /\ index' = 0 /\ lost' = lost \cup {next}
        /\ clock' \in {clock, Pts(next)}
    BY <1>6 DEF Failed
  <2>2. Behind' = Behind + FrameLen
    <3>1. Cardinality(lost') = Cardinality(lost) + 1 /\ Cardinality(lost) \in Nat
      BY <1>1, <2>1, LostIsFinite
    <3>2. FrameLen * (Cardinality(lost) + 1) = FrameLen * Cardinality(lost) + FrameLen
      BY <3>1
    <3> QED
      BY <3>1, <3>2 DEF Behind
  <2>3. ClockSet' => ClockSet
    BY <1>1, <2>1 DEF ClockSet
  <2>4. ClockSet' => clock' \in Pts(next') - Behind' .. Pts(next')
    BY <1>2, <1>4, <2>1, <2>2, <2>3 DEF ClockInv
  <2>5. Heard' \in Pts(next') - (size' - index') - Behind' .. Pts(next') - (size' - index')
    BY <1>1, <1>2, <1>3, <1>4, <1>7, <2>1, <2>2
  <2> QED
    BY <2>4, <2>5 DEF ClockInv
<1> QED
  BY <1>5, <1>6 DEF Fetch

LEMMA ClockMix ==
  ASSUME AudioInv, ClockInv, Mix
  PROVE  ClockInv'
<1>1. /\ Sent \in 0 .. size - index /\ index \in Nat /\ size - index \in Nat
      /\ index' = index + Sent /\ UNCHANGED <<buffer, size, next, clock, lost>>
  BY MixSends, UnsentIsSound DEF AudioInv, BufferInv
<1>2. Behind' = Behind /\ Behind \in Nat /\ (ClockSet' <=> ClockSet)
  BY <1>1, LostIsFinite DEF Behind, ClockSet
<1>3. CASE Sent = 0
  <2>1. output' = output
    <3>1. [i \in 1 .. Sent |-> buffer[index + i - 1]] = << >>
      BY <1>3
    <3>2. output' = output \o << >> /\ output \in Seq(Units)
      BY <3>1, MixSends DEF AudioInv, TypeOK
    <3> QED
      BY <3>2, ConcatEmptySeq
  <2> QED
    BY <1>1, <1>2, <1>3, <2>1 DEF ClockInv, Heard
<1>4. CASE Sent # 0
  <2>1. size = FrameLen /\ Pts(next - 1) \in Int /\ Pts(next) = Pts(next - 1) + FrameLen
    BY <1>1, <1>4, UnsentIsSound
  <2>2. buffer[index + Sent - 1] = Pts(next - 1) + index + Sent - 1
    <3>1. index + Sent - 1 \in 0 .. FrameLen - 1
      BY <1>1, <1>4, <2>1
    <3> QED
      BY <1>1, <2>1, <3>1 DEF AudioInv, BufferHolds
  <2>3. output' # << >> /\ output'[Len(output')] = buffer[index + Sent - 1]
    <3>1. PICK k \in Nat \ {0} : k = Sent
      BY <1>1, <1>4
    <3> DEFINE sent == [i \in 1 .. k |-> buffer[index + i - 1]]
    <3>2. output' = output \o sent /\ output \in Seq(Units) /\ sent \in Seq(Units)
      BY <3>1, MixSends DEF AudioInv, TypeOK
    <3>3. Len(sent) = k /\ sent[k] = buffer[index + k - 1]
      BY <3>1
    <3> HIDE DEF sent
    <3>4. Len(output \o sent) = Len(output) + k /\ (output \o sent)[Len(output) + k] = sent[k]
      <4>1. PICK s \in Seq(Units) : s = output
        BY <3>2
      <4>2. PICK t \in Seq(Units) : t = sent
        BY <3>2
      <4>3. PICK l \in Nat : l = Len(s)
        OBVIOUS
      <4>4. Len(t) = k /\ l + k \in 1 .. l + k /\ ~(l + k <= l) /\ l + k - l = k
        BY <3>1, <3>3, <4>2
      <4>5. /\ Len(s \o t) = l + Len(t)
            /\ \A i \in 1 .. l + Len(t) : (s \o t)[i] = IF i <= l THEN s[i] ELSE t[i - l]
        BY <4>3, ConcatProperties
      <4>6. Len(s \o t) = l + k
        BY <4>4, <4>5
      <4>7. (s \o t)[l + k] = IF l + k <= l THEN s[l + k] ELSE t[l + k - l]
        BY <4>4, <4>5
      <4>8. (s \o t)[l + k] = t[k]
        BY <4>4, <4>7
      <4> QED
        BY <4>1, <4>2, <4>3, <4>6, <4>8
    <3>5. Len(output) + k # 0
      BY <3>1, <3>2
    <3> QED
      BY <3>1, <3>2, <3>3, <3>4, <3>5
  <2>4. Heard' = Pts(next - 1) + index + Sent
    BY <1>1, <2>1, <2>2, <2>3 DEF Heard
  <2> QED
    BY <1>1, <1>2, <2>1, <2>4 DEF ClockInv
<1> QED
  BY <1>3, <1>4

LEMMA ClockStep ==
  ASSUME AudioInv, ClockInv, [SyncNext]_syncVars
  PROVE  ClockInv'
<1>1. CASE UNCHANGED <<output, buffer, size, index, next, lost, clock>>
  BY <1>1 DEF ClockInv, ClockSet, Heard, Behind
<1>2. CallbackStarts \/ NoFetch \/ UNCHANGED vars
        => UNCHANGED <<output, buffer, size, index, next, lost, clock>>
  BY DEF CallbackStarts, NoFetch, vars
<1> QED
  BY <1>1, <1>2, SoundOnly, ClockFetch, ClockMix DEF Callback

LEMMA ClockInit == SyncInit => ClockInv
<1> SUFFICES ASSUME SyncInit PROVE ClockInv
  OBVIOUS
<1>1. output = << >> /\ next = 1 /\ lost = {}
  BY DEF SyncInit, Init
<1> QED
  BY <1>1 DEF ClockInv, ClockSet

(***************************************************************************)
(* The clock the pictures follow is never further ahead of the sound than  *)
(* a packet, whatever it showed when the file was opened, as soon as one   *)
(* packet with a time was decoded (audio.cpp 413-454).                     *)
(***************************************************************************)
THEOREM ClockFollowsSound == SyncSpec => []ClockAhead
<1>1. AudioInv /\ ClockInv => ClockAhead
  <2> SUFFICES ASSUME AudioInv, ClockInv, ClockSet
               PROVE  clock - Heard \in -FrameLen * Cardinality(lost) .. FrameLen * (1 + Cardinality(lost))
    BY DEF ClockAhead
  <2>1. Behind \in Nat /\ Cardinality(lost) \in Nat
    BY LostIsFinite
  <2>2. /\ -FrameLen * Cardinality(lost) = -Behind
        /\ FrameLen * (1 + Cardinality(lost)) = FrameLen + Behind
    BY <2>1 DEF Behind
  <2>3. Pts(next) \in Nat /\ size - index \in 0 .. FrameLen
    BY PtsIsNat, UnsentIsSound DEF AudioInv, BufferInv, TypeOK
  <2>4. clock \in Nat
    BY DEF AudioInv, TypeOK
  <2>5. next # 1
    BY DEF ClockSet
  <2> QED
    BY <2>1, <2>2, <2>3, <2>4, <2>5 DEF ClockInv
<1> QED
  BY <1>1, ClockInit, ClockStep, AudioInvHolds, PTL DEF SyncSpec
-----------------------------------------------------------------------------
(***************************************************************************)
(* The pictures.  A picture is never stamped later than the next one is to *)
(* begin.                                                                  *)
(***************************************************************************)
LEMMA StampSteps ==
  ASSUME NEW f \in Nat
  PROVE  /\ Stamp(f) \in Nat /\ (f > 0 => Stamp(f) > 0)
         /\ Duration(f) \in Nat /\ Duration(f) > 0 /\ Stamp(f) + Duration(f) <= Stamp(f + 1)
<1> DEFINE half == FrameDelay \div 2
           S == Repeated \cap 0 .. f - 1
           T == Repeated \cap 0 .. f + 1 - 1
           c == Cardinality(S)
<1>1. half \in Nat /\ TimeBase \div 2 \in Nat /\ TimeBase \div 2 <= half /\ TimeBase \in Nat
      /\ 0 < TimeBase /\ TimeBase <= FrameDelay /\ FrameDelay \in Nat
  OBVIOUS
<1>2. IsFiniteSet(S) /\ c \in Nat
  <2>1. IsFiniteSet(0 .. f - 1)
    BY FS_Interval
  <2>2. S \in SUBSET (0 .. f - 1)
    OBVIOUS
  <2>3. IsFiniteSet(S)
    BY <2>1, <2>2, FS_Subset
  <2> QED
    BY <2>3, FS_CardinalityType
<1>3. Cardinality(T) = IF f \in Repeated THEN c + 1 ELSE c
  <2>1. T = IF f \in Repeated THEN S \cup {f} ELSE S
    OBVIOUS
  <2>2. f \notin S
    OBVIOUS
  <2> HIDE DEF S, T
  <2>3. f \in Repeated => Cardinality(T) = c + 1
    BY <1>2, <2>1, <2>2, FS_AddElement
  <2> QED
    BY <2>1, <2>3
<1>4. Stamp(f) = FrameDelay * f + half * c
  BY DEF Stamp
<1>5. Stamp(f + 1) = FrameDelay * (f + 1) + half * Cardinality(T)
  BY DEF Stamp
<1>6. Duration(f) = TimeBase + (IF f \in Repeated THEN TimeBase \div 2 ELSE 0)
  BY DEF Duration
<1> HIDE DEF half, c, T
<1>7. /\ FrameDelay * f \in Nat /\ half * c \in Nat
      /\ FrameDelay * (f + 1) = FrameDelay * f + FrameDelay
      /\ half * (c + 1) = half * c + half
  BY <1>1, <1>2
<1>8. f > 0 => FrameDelay * f > 0
  BY <1>1
<1> QED
  BY <1>1, <1>3, <1>4, <1>5, <1>6, <1>7, <1>8

SyncTypes ==
  /\ device \in 0 .. Length /\ lag \in Int
  /\ due \in -MaxLate .. Bigger(IdleInterval, lag + MaxLate + 1)
  /\ decoded \in 0 .. Frames
  /\ queue \in Seq(Nat) /\ Len(queue) <= MaxQueued
  /\ {videoClock, frameLastPts} \subseteq Nat
  /\ frameLastDelay \in 1 .. OneSecond - 1

\* The time given to the picture f.
TimeOf(f) == IF f \notin Unstamped /\ Stamp(f) # 0 THEN Stamp(f) ELSE videoClock

LEMMA DecodeTime ==
  ASSUME SyncTypes, Decode
  PROVE  /\ decoded \in Nat /\ TimeOf(decoded) \in Nat
         /\ queue' = Append(queue, TimeOf(decoded))
         /\ videoClock' = TimeOf(decoded) + Duration(decoded) /\ decoded' = decoded + 1
         /\ UNCHANGED frameLastPts
<1>1. decoded \in Nat /\ Stamp(decoded) \in Nat /\ videoClock \in Nat
  <2>1. decoded \in Nat /\ videoClock \in Nat
    BY DEF SyncTypes
  <2> QED
    BY <2>1, StampSteps
<1> QED
  BY <1>1 DEF Decode, SynchronizeVideo, TimeOf

LEMMA SyncTypesStep ==
  ASSUME SyncTypes, clock \in Nat, [SyncNext]_syncVars
  PROVE  SyncTypes'
<1> USE DEF Bigger, IdleInterval, ShortestDelay
<1>1. CASE Decode
  <2>1. /\ decoded \in Nat /\ TimeOf(decoded) \in Nat
        /\ queue' = Append(queue, TimeOf(decoded))
        /\ videoClock' = TimeOf(decoded) + Duration(decoded) /\ decoded' = decoded + 1
        /\ UNCHANGED frameLastPts
    BY <1>1, DecodeTime
  <2>2. Duration(decoded) \in Nat
    BY <2>1, StampSteps
  <2>3. decoded < Frames /\ Len(queue) < MaxQueued /\ UNCHANGED <<device, lag, due, frameLastDelay>>
    BY <1>1 DEF Decode
  <2>4. queue' \in Seq(Nat) /\ Len(queue') <= MaxQueued
    BY <2>1, <2>3 DEF SyncTypes
  <2>5. decoded' \in 0 .. Frames /\ videoClock' \in Nat
    BY <2>1, <2>2, <2>3 DEF SyncTypes
  <2> QED
    BY <2>1, <2>3, <2>4, <2>5 DEF SyncTypes
<1>2. CASE SyncMedia
  <2>1. /\ Head(queue) \in Nat /\ Tail(queue) \in Seq(Nat) /\ Len(Tail(queue)) <= MaxQueued
    BY <1>2 DEF SyncMedia, SyncTypes
  <2>2. PICK pts \in Nat : pts = Head(queue)
    BY <2>1
  <2>3. Delay(pts) \in 1 .. OneSecond - 1
    BY DEF Delay, SyncTypes
  <2>4. PICK delay \in 1 .. OneSecond - 1 : delay = Delay(pts)
    BY <2>3
  <2>5. Correction(delay, pts - clock) \in {delay, 0, 2 * delay}
    BY DEF Correction
  <2>6. lag' \in Int /\ due' = Bigger(lag', ShortestDelay)
    BY <1>2, <2>2, <2>4, <2>5 DEF SyncMedia, SyncTypes
  <2>7. frameLastDelay' \in 1 .. OneSecond - 1 /\ frameLastPts' \in Nat
        /\ queue' \in Seq(Nat) /\ Len(queue') <= MaxQueued
        /\ UNCHANGED <<device, decoded, videoClock>>
    BY <1>2, <2>1, <2>2, <2>3 DEF SyncMedia
  <2>8. due' \in -MaxLate .. Bigger(IdleInterval, lag' + MaxLate + 1)
    <3>1. PICK l \in Int : l = lag'
      BY <2>6
    <3>2. Bigger(l, ShortestDelay) \in -MaxLate .. Bigger(IdleInterval, l + MaxLate + 1)
      OBVIOUS
    <3> QED
      BY <2>6, <3>1, <3>2
  <2> QED
    BY <2>6, <2>7, <2>8 DEF SyncTypes
<1>3. CASE SyncMediaIdle
  BY <1>3 DEF SyncMediaIdle, SyncTypes, videoVars
<1>5. CASE SoundStarts
  BY <1>5 DEF SoundStarts, SyncTypes, videoVars
<1>6. CASE Sound \/ UNCHANGED syncVars
  BY <1>6 DEF Sound, SyncTypes, videoVars, syncVars
<1>7. CASE Tick
  <2>1. /\ device > 0 /\ due > -MaxLate
        /\ device' = device - 1 /\ due' = due - 1 /\ lag' = lag - 1
        /\ UNCHANGED <<decoded, queue, videoClock, frameLastPts, frameLastDelay>>
    BY <1>7 DEF Tick
  <2>2. device' \in 0 .. Length /\ lag' \in Int
    BY <2>1 DEF SyncTypes
  <2>3. due' \in -MaxLate .. Bigger(IdleInterval, lag' + MaxLate + 1)
    BY <2>1 DEF SyncTypes
  <2> QED
    BY <2>1, <2>2, <2>3 DEF SyncTypes
<1> QED
  BY <1>1, <1>2, <1>3, <1>5, <1>6, <1>7 DEF SyncNext

LEMMA SyncTypesHolds == SyncSpec => []SyncTypes
<1>1. SyncInit => SyncTypes
  BY DEF SyncInit, SyncTypes, Bigger, IdleInterval
<1>2. AudioInv => clock \in Nat
  BY DEF AudioInv, TypeOK
<1> QED
  BY <1>1, <1>2, SyncTypesStep, AudioInvHolds, PTL DEF SyncSpec

(***************************************************************************)
(* Every variable keeps its type, for any sizes, times and bounds:         *)
(* the delay between two pictures is positive and below a second, and the  *)
(* timer is never set to more than the shortest intervals or what          *)
(* frameTimer is ahead of now (mediaplayer.cpp 37-86).                     *)
(***************************************************************************)
THEOREM SyncTypesKept == SyncSpec => []SyncTypeOK
<1>1. AudioInv /\ SyncTypes => SyncTypeOK
  BY DEF AudioInv, SyncTypes, SyncTypeOK
<1> QED
  BY <1>1, AudioInvHolds, SyncTypesHolds, PTL

(***************************************************************************)
(* What TimesIncrease rests on: once a picture had a pts, the clock of the *)
(* decoder lies between the picture decoded last and the next one.         *)
(***************************************************************************)
LastTime == IF queue = << >> THEN frameLastPts ELSE queue[Len(queue)]

TimeInv ==
  Timed(decoded - 1) => LastTime < videoClock /\ videoClock <= Stamp(decoded)

LEMMA TimeDecode ==
  ASSUME SyncTypes, TimesIncrease, TimeInv, Decode
  PROVE  TimesIncrease' /\ TimeInv'
<1>1. PICK f \in Nat : f = decoded
  BY DEF SyncTypes
<1>2. PICK time \in Nat : time = TimeOf(f)
  BY <1>1, DecodeTime
<1>3. /\ queue' = Append(queue, time) /\ videoClock' = time + Duration(f) /\ decoded' = f + 1
      /\ frameLastPts' = frameLastPts
  BY <1>1, <1>2, DecodeTime
<1>4. PICK n \in Nat : n = Len(queue)
  BY DEF SyncTypes
<1>5. /\ Len(queue') = n + 1 /\ queue'[n + 1] = time /\ queue' # << >>
      /\ \A i \in 1 .. n : queue'[i] = queue[i]
  BY <1>3, <1>4 DEF SyncTypes
<1>6. LastTime \in Nat /\ LastTime = IF n = 0 THEN frameLastPts ELSE queue[n]
  BY <1>4 DEF LastTime, SyncTypes
<1>7. /\ Stamp(f) \in Nat /\ (f > 0 => Stamp(f) > 0) /\ Stamp(f + 1) \in Nat
      /\ Duration(f) \in Nat /\ Duration(f) > 0 /\ Stamp(f) + Duration(f) <= Stamp(f + 1)
  BY StampSteps
<1>8. videoClock \in Nat
  BY DEF SyncTypes
<1>9. Timed(f) => time <= Stamp(f)
  <2>1. Timed(f) /\ f \in Unstamped => Timed(f - 1)
    BY DEF Timed
  <2>2. Timed(f) => f > 0
    BY DEF Timed
  <2> QED
    BY <1>1, <1>2, <1>7, <1>8, <2>1, <2>2 DEF TimeOf, TimeInv
<1>10. Timed(f - 1) => time > LastTime
  <2>1. Timed(f - 1) => LastTime < videoClock /\ videoClock <= Stamp(f)
    BY <1>1 DEF TimeInv
  <2> QED
    BY <1>2, <1>6, <1>7, <1>8, <2>1 DEF TimeOf
<1>11. TimeInv'
  <2>1. LastTime' = time
    BY <1>5 DEF LastTime
  <2>2. decoded' - 1 = f
    BY <1>3
  <2>3. Timed(decoded - 1)' <=> Timed(f)
    BY <2>2 DEF Timed
  <2>4. Stamp(decoded)' = Stamp(f + 1)
    BY <1>3 DEF Stamp
  <2>5. Timed(f) => time < videoClock' /\ videoClock' <= Stamp(f + 1)
    BY <1>3, <1>7, <1>9
  <2> QED
    BY <2>1, <2>3, <2>4, <2>5 DEF TimeInv
<1>12. ASSUME NEW i \in 1 .. n + 1, NEW g \in Int, g = f + 1 - (n + 1) + i - 1
       PROVE  /\ Timed(g) => queue'[i] <= Stamp(g)
              /\ Timed(g - 1) => queue'[i] > (IF i = 1 THEN frameLastPts ELSE queue'[i - 1])
  <2>1. CASE i = n + 1
    <3>1. g = f
      BY <1>12, <2>1
    <3>2. LastTime = IF i = 1 THEN frameLastPts ELSE queue'[i - 1]
      BY <1>5, <1>6, <2>1
    <3> QED
      BY <1>5, <1>9, <1>10, <2>1, <3>1, <3>2
  <2>2. CASE i \in 1 .. n
    <3>1. g = decoded - Len(queue) + i - 1
      BY <1>1, <1>4, <1>12
    <3>2. /\ Timed(g) => queue[i] <= Stamp(g)
          /\ Timed(g - 1) => queue[i] > (IF i = 1 THEN frameLastPts ELSE queue[i - 1])
      BY <1>4, <2>2, <3>1 DEF TimesIncrease
    <3>3. i = 1 \/ i - 1 \in 1 .. n
      BY <2>2
    <3> QED
      BY <1>5, <2>2, <3>2, <3>3
  <2> QED
    BY <2>1, <2>2
<1>13. \A i \in 1 .. Len(queue') :
         LET g == decoded' - Len(queue') + i - 1 IN
           /\ Timed(g) => queue'[i] <= Stamp(g)
           /\ Timed(g - 1) => queue'[i] > (IF i = 1 THEN frameLastPts' ELSE queue'[i - 1])
  BY <1>3, <1>5, <1>12
<1>14. TimesIncrease'
  BY <1>13 DEF TimesIncrease
<1> QED
  BY <1>11, <1>14

LEMMA TimeShow ==
  ASSUME SyncTypes, TimesIncrease, TimeInv, SyncMedia
  PROVE  TimesIncrease' /\ TimeInv'
<1>1. PICK n \in Nat \ {0} : n = Len(queue)
  BY DEF SyncMedia, SyncTypes
<1>2. /\ queue' \in Seq(Nat) /\ Len(queue') = n - 1 /\ frameLastPts' = queue[1]
      /\ \A i \in 1 .. n - 1 : queue'[i] = queue[i + 1]
      /\ UNCHANGED <<decoded, videoClock>>
  BY <1>1 DEF SyncMedia, SyncTypes
<1>3. decoded \in Nat
  BY DEF SyncTypes
<1>4. TimeInv'
  <2>1. LastTime = queue[n]
    BY <1>1 DEF LastTime
  <2>2. LastTime' = IF n = 1 THEN frameLastPts' ELSE queue'[n - 1]
    <3>1. queue' = << >> <=> n = 1
      BY <1>1, <1>2
    <3> QED
      BY <1>1, <1>2, <3>1 DEF LastTime
  <2>3. LastTime' = LastTime
    BY <1>1, <1>2, <2>1, <2>2
  <2>4. (Timed(decoded - 1) <=> Timed(decoded - 1)') /\ Stamp(decoded)' = Stamp(decoded)
    BY <1>2
  <2> QED
    BY <1>2, <2>3, <2>4 DEF TimeInv
<1>5. ASSUME NEW i \in 1 .. n - 1, NEW g \in Int, g = decoded - (n - 1) + i - 1
      PROVE  /\ Timed(g) => queue'[i] <= Stamp(g)
             /\ Timed(g - 1) => queue'[i] > (IF i = 1 THEN frameLastPts' ELSE queue'[i - 1])
  <2>1. PICK j \in 2 .. n : j = i + 1
    BY <1>5
  <2>2. g = decoded - Len(queue) + j - 1
    BY <1>1, <1>3, <1>5, <2>1
  <2>3. /\ Timed(g) => queue[j] <= Stamp(g)
        /\ Timed(g - 1) => queue[j] > (IF j = 1 THEN frameLastPts ELSE queue[j - 1])
    BY <1>1, <2>1, <2>2 DEF TimesIncrease
  <2>4. queue'[i] = queue[j] /\ (i # 1 => queue'[i - 1] = queue[j - 1]) /\ j - 1 = i /\ j # 1
    <3>1. j - 1 = i /\ j # 1 /\ (i # 1 => i - 1 \in 1 .. n - 1 /\ (i - 1) + 1 = j - 1)
      BY <2>1
    <3>2. i # 1 => queue'[i - 1] = queue[(i - 1) + 1]
      BY <1>2, <3>1
    <3> QED
      BY <1>2, <2>1, <3>1, <3>2
  <2> QED
    BY <1>2, <2>3, <2>4
<1>6. \A i \in 1 .. Len(queue') :
        LET g == decoded' - Len(queue') + i - 1 IN
          /\ Timed(g) => queue'[i] <= Stamp(g)
          /\ Timed(g - 1) => queue'[i] > (IF i = 1 THEN frameLastPts' ELSE queue'[i - 1])
  <2> SUFFICES ASSUME NEW i \in 1 .. n - 1
               PROVE  LET g == decoded - (n - 1) + i - 1 IN
                        /\ Timed(g) => queue'[i] <= Stamp(g)
                        /\ Timed(g - 1) => queue'[i] > (IF i = 1 THEN frameLastPts' ELSE queue'[i - 1])
    BY <1>2
  <2>1. decoded - (n - 1) + i - 1 \in Int
    BY <1>3
  <2> QED
    BY <1>5, <2>1
<1>7. TimesIncrease'
  BY <1>6 DEF TimesIncrease
<1> QED
  BY <1>4, <1>7

LEMMA TimeStep ==
  ASSUME SyncTypes, TimesIncrease, TimeInv, [SyncNext]_syncVars
  PROVE  TimesIncrease' /\ TimeInv'
<1>1. CASE UNCHANGED <<decoded, queue, videoClock, frameLastPts>>
  BY <1>1 DEF TimesIncrease, TimeInv, LastTime
<1>2. Decode \/ SyncMedia \/ UNCHANGED <<decoded, queue, videoClock, frameLastPts>>
  BY DEF SyncNext, syncVars, videoVars, SyncMediaIdle, SoundStarts, Sound, Tick
<1> QED
  BY <1>1, <1>2, TimeDecode, TimeShow

(***************************************************************************)
(* For any delays, repeated pictures and missing time stamps: from the     *)
(* first picture with a pts on the times increase and are never later than *)
(* they should be (video.cpp 99-110, mediaplayer.cpp 61-66).               *)
(***************************************************************************)
THEOREM PictureTimesIncrease == SyncSpec => []TimesIncrease
<1>1. SyncInit => TimesIncrease /\ TimeInv
  <2> SUFFICES ASSUME SyncInit PROVE TimesIncrease /\ TimeInv
    OBVIOUS
  <2>1. queue = << >> /\ decoded = 0
    BY DEF SyncInit
  <2> QED
    BY <2>1 DEF TimesIncrease, TimeInv, Timed
<1> QED
  BY <1>1, TimeStep, SyncTypesHolds, PTL DEF SyncSpec
=============================================================================
