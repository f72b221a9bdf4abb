------------------------------ MODULE ByteSums ------------------------------
(***************************************************************************)
(* What the byte counter of a PacketQueue is proved from: the sum of the   *)
(* sizes of a sequence of packets grows by the packet appended             *)
(* (packetqueue.cpp 21) and shrinks by the packet taken at its head (37),  *)
(* and a counter that is reduced modulo 2^32 at every change is the exact  *)
(* sum modulo 2^32.                                                        *)
(*                                                                         *)
(* The sum is a recursive function, and what it is for every sequence      *)
(* needs induction.  The induction theorems of the library take an         *)
(* operator; Induction below is about a set instead, and is proved from    *)
(* the least element of a set of natural numbers (WFMin).                  *)
(***************************************************************************)
EXTENDS Integers, Sequences, WellFoundedInduction, TLAPS

(***************************************************************************)
(* The bytes of a sequence of packets, and the function of its beginnings  *)
(* they are read from; bytes[p] is the size of packet p.                   *)
(***************************************************************************)
SumUpTo(bytes, packets) ==
  LET upTo[i \in 0 .. Len(packets)] ==
        IF i = 0 THEN 0 ELSE upTo[i - 1] + bytes[packets[i]]
  IN  upTo

BytesOf(bytes, packets) ==
  LET upTo[i \in 0 .. Len(packets)] ==
        IF i = 0 THEN 0 ELSE upTo[i - 1] + bytes[packets[i]]
  IN  upTo[Len(packets)]

(***************************************************************************)
(* The sum of all is the last of the sums of the beginnings.               *)
(***************************************************************************)
LEMMA SumIsLast ==
  ASSUME NEW bytes, NEW packets
  PROVE  BytesOf(bytes, packets) = SumUpTo(bytes, packets)[Len(packets)]
  BY DEF BytesOf, SumUpTo

(***************************************************************************)
(* Induction over the natural numbers: a set of them that contains 0 and   *)
(* the successor of each of its elements below n contains all up to n.     *)
(***************************************************************************)
LEMMA Induction ==
  ASSUME NEW n \in Nat, NEW S, 0 \in S, \A i \in 0 .. n - 1 : i \in S => i + 1 \in S
  PROVE  0 .. n \subseteq S
<1> SUFFICES ASSUME (0 .. n) \ S # {} PROVE FALSE
  OBVIOUS
<1> DEFINE R == OpToRel(<, Nat)
<1>1. IsWellFoundedOn(R, Nat)
  BY NatLessThanWellFounded
<1>2. (0 .. n) \ S \subseteq Nat
  OBVIOUS
<1> HIDE DEF R
<1>3. PICK i \in (0 .. n) \ S : \A j \in (0 .. n) \ S : ~ (<<j, i>> \in R)
  BY <1>1, <1>2, WFMin
<1>4. i \in 1 .. n
  BY <1>3
<1>5. <<i - 1, i>> \in R
  BY <1>4 DEF R, OpToRel
<1> QED
  BY <1>3, <1>4, <1>5

IsSum(f, bytes, packets) ==
  f = [i \in 0 .. Len(packets) |-> IF i = 0 THEN 0 ELSE f[i - 1] + bytes[packets[i]]]

(***************************************************************************)
(* There is a function that satisfies the recursive definition: by         *)
(* induction there is one on 0 .. k for every k.                           *)
(***************************************************************************)
LEMMA SumDefined ==
  ASSUME NEW bytes, NEW packets, Len(packets) \in Nat
  PROVE  IsSum(SumUpTo(bytes, packets), bytes, packets)
<1> DEFINE n == Len(packets)
           Sum(f, k) == f = [i \in 0 .. k |-> IF i = 0 THEN 0 ELSE f[i - 1] + bytes[packets[i]]]
           S == {k \in Nat : \E f : Sum(f, k)}
<1>1. 0 \in S
  <2>1. Sum([i \in 0 .. 0 |-> 0], 0)
    OBVIOUS
  <2> QED
    BY <2>1
<1>2. ASSUME NEW k \in Nat, k \in S PROVE k + 1 \in S
  <2>1. PICK f : Sum(f, k)
    BY <1>2
  <2> DEFINE g == [i \in 0 .. k + 1 |-> IF i <= k THEN f[i] ELSE f[k] + bytes[packets[k + 1]]]
  <2>2. ASSUME NEW i \in 0 .. k + 1
        PROVE  g[i] = IF i = 0 THEN 0 ELSE g[i - 1] + bytes[packets[i]]
    BY <2>1
  <2>3. Sum(g, k + 1)
    BY <2>2
  <2>4. \E h : Sum(h, k + 1)
    <3> HIDE DEF g, Sum
    <3> QED
      BY <2>3
  <2> QED
    BY <2>4
<1>3. n \in S
  <2> HIDE DEF S
  <2>1. 0 .. n \subseteq S
    BY <1>1, <1>2, Induction
  <2> QED
    BY <2>1
<1>4. \E f : IsSum(f, bytes, packets)
  BY <1>3 DEF IsSum
<1> QED
  BY <1>4 DEF SumUpTo, IsSum

(***************************************************************************)
(* The sums of the beginnings of a sequence: numbers, each the one before  *)
(* it and one packet more.                                                 *)
(***************************************************************************)
LEMMA SumSteps ==
  ASSUME NEW P, NEW bytes \in [P -> Nat], NEW packets \in Seq(P)
  PROVE  /\ SumUpTo(bytes, packets) \in [0 .. Len(packets) -> Nat]
         /\ SumUpTo(bytes, packets)[0] = 0
         /\ \A i \in 0 .. Len(packets) - 1 :
              SumUpTo(bytes, packets)[i + 1] = SumUpTo(bytes, packets)[i] + bytes[packets[i + 1]]
<1> DEFINE f == SumUpTo(bytes, packets)
           n == Len(packets)
           S == {i \in 0 .. n : f[i] \in Nat}
<1>1. f = [i \in 0 .. n |-> IF i = 0 THEN 0 ELSE f[i - 1] + bytes[packets[i]]]
  BY SumDefined DEF IsSum
<1> HIDE DEF f
<1>2. f[0] = 0
  BY <1>1
<1>3. \A i \in 0 .. n - 1 : f[i + 1] = f[i] + bytes[packets[i + 1]]
  BY <1>1
<1>4. 0 .. n \subseteq S
  <2>1. 0 \in S
    BY <1>2
  <2>2. ASSUME NEW i \in 0 .. n - 1, i \in S PROVE i + 1 \in S
    <3>1. bytes[packets[i + 1]] \in Nat
      OBVIOUS
    <3> QED
      BY <1>3, <2>2, <3>1
  <2>3. n \in Nat
    OBVIOUS
  <2> HIDE DEF S, n
  <2> QED
    BY <2>1, <2>2, <2>3, Induction
<1>5. f \in [0 .. n -> Nat]
  BY <1>1, <1>4
<1> QED
  BY <1>2, <1>3, <1>5 DEF f

(***************************************************************************)
(* An empty queue holds no bytes.                                          *)
(***************************************************************************)
LEMMA SumEmpty ==
  ASSUME NEW bytes
  PROVE  BytesOf(bytes, << >>) = 0
  BY SumDefined, SumIsLast DEF IsSum

(***************************************************************************)
(* The bytes of a sequence are a natural number.                           *)
(***************************************************************************)
LEMMA SumType ==
  ASSUME NEW P, NEW bytes \in [P -> Nat], NEW packets \in Seq(P)
  PROVE  BytesOf(bytes, packets) \in Nat
  BY SumSteps, SumIsLast

(***************************************************************************)
(* enQueue adds the bytes of its packet to the sum.                        *)
(***************************************************************************)
LEMMA SumAppend ==
  ASSUME NEW P, NEW bytes \in [P -> Nat], NEW packets \in Seq(P), NEW p \in P
  PROVE  BytesOf(bytes, Append(packets, p)) = BytesOf(bytes, packets) + bytes[p]
<1> DEFINE longer == Append(packets, p)
           n == Len(packets)
           f == SumUpTo(bytes, packets)
           g == SumUpTo(bytes, longer)
           S == {i \in 0 .. n : g[i] = f[i]}
<1>1. /\ longer \in Seq(P) /\ Len(longer) = n + 1 /\ longer[n + 1] = p /\ n \in Nat
      /\ \A i \in 1 .. n : longer[i] = packets[i]
  OBVIOUS
<1>2. f[0] = 0 /\ \A i \in 0 .. n - 1 : f[i + 1] = f[i] + bytes[packets[i + 1]]
  BY SumSteps
<1>3. g[0] = 0 /\ \A i \in 0 .. n : g[i + 1] = g[i] + bytes[longer[i + 1]]
  <2>a. longer \in Seq(P)
    BY <1>1
  <2> HIDE DEF longer, n, S, f
  <2>1. g[0] = 0 /\ \A i \in 0 .. Len(longer) - 1 : g[i + 1] = g[i] + bytes[longer[i + 1]]
    BY <2>a, SumSteps
  <2> HIDE DEF g
  <2> QED
    BY <1>1, <2>1
<1> HIDE DEF f, g, longer, n
<1>4. 0 .. n \subseteq S
  <2>1. 0 \in S
    BY <1>1, <1>2, <1>3
  <2>2. ASSUME NEW i \in 0 .. n - 1, i \in S PROVE i + 1 \in S
    <3>1. g[i] = f[i] /\ i + 1 \in 1 .. n /\ i \in 0 .. n
      BY <1>1, <2>2
    <3>2. g[i + 1] = f[i] + bytes[longer[i + 1]]
      BY <1>3, <3>1
    <3>3. longer[i + 1] = packets[i + 1]
      BY <1>1, <3>1
    <3>4. f[i + 1] = f[i] + bytes[packets[i + 1]]
      BY <1>2
    <3> QED
      BY <1>1, <3>1, <3>2, <3>3, <3>4
  <2> HIDE DEF S
  <2> QED
    BY <1>1, <2>1, <2>2, Induction
<1>5. g[n + 1] = f[n] + bytes[p]
  BY <1>1, <1>3, <1>4
<1> QED
  BY <1>1, <1>5, SumIsLast DEF f, g, longer, n

(***************************************************************************)
(* deQueue takes the bytes of the first packet off the sum.                *)
(***************************************************************************)
LEMMA SumTail ==
  ASSUME NEW P, NEW bytes \in [P -> Nat], NEW packets \in Seq(P), packets # << >>
  PROVE  BytesOf(bytes, packets) = BytesOf(bytes, Tail(packets)) + bytes[Head(packets)]
<1> DEFINE tail == Tail(packets)
           n == Len(tail)
           f == SumUpTo(bytes, packets)
           g == SumUpTo(bytes, tail)
           S == {i \in 0 .. n : f[i + 1] = g[i] + bytes[Head(packets)]}
<1>1. /\ tail \in Seq(P) /\ Len(packets) = n + 1 /\ packets[1] = Head(packets) /\ n \in Nat
      /\ \A i \in 1 .. n : tail[i] = packets[i + 1] /\ tail[i] \in P
      /\ Head(packets) \in P
  OBVIOUS
<1>2. f[0] = 0 /\ \A i \in 0 .. n : f[i + 1] = f[i] + bytes[packets[i + 1]]
  BY <1>1, SumSteps
<1>3. /\ g \in [0 .. n -> Nat] /\ g[0] = 0
      /\ \A i \in 0 .. n - 1 : g[i + 1] = g[i] + bytes[tail[i + 1]]
  <2>a. tail \in Seq(P)
    BY <1>1
  <2> HIDE DEF tail, n, S, f
  <2>1. /\ g \in [0 .. Len(tail) -> Nat] /\ g[0] = 0
        /\ \A i \in 0 .. Len(tail) - 1 : g[i + 1] = g[i] + bytes[tail[i + 1]]
    BY <2>a, SumSteps
  <2> QED
    BY <2>1 DEF n
<1> HIDE DEF f, g, tail, n
<1>4. 0 .. n \subseteq S
  <2>1. 0 \in S
    <3>1. bytes[Head(packets)] \in Nat
      BY <1>1
    <3> QED
      BY <1>1, <1>2, <1>3, <3>1
  <2>2. ASSUME NEW i \in 0 .. n - 1, i \in S PROVE i + 1 \in S
    <3>1. /\ f[i + 1] = g[i] + bytes[Head(packets)]
          /\ f[i + 2] = f[i + 1] + bytes[packets[i + 2]]
          /\ g[i + 1] = g[i] + bytes[tail[i + 1]]
      <4>1. i \in 0 .. n /\ i + 1 \in 0 .. n /\ (i + 1) + 1 = i + 2
        BY <1>1
      <4>2. f[i + 1] = g[i] + bytes[Head(packets)]
        BY <2>2
      <4>3. f[i + 2] = f[i + 1] + bytes[packets[i + 2]]
        BY <1>2, <4>1
      <4> QED
        BY <1>3, <4>2, <4>3
    <3>2. packets[i + 2] = tail[i + 1] /\ tail[i + 1] \in P
      BY <1>1
    <3>3. bytes[Head(packets)] \in Nat /\ bytes[tail[i + 1]] \in Nat /\ g[i] \in Nat
      <4>1. i \in 0 .. n
        BY <1>1
      <4> QED
        BY <1>1, <1>3, <3>2, <4>1
    <3>4. f[i + 2] = g[i + 1] + bytes[Head(packets)]
      BY <3>1, <3>2, <3>3
    <3>5. i + 1 \in 0 .. n /\ (i + 1) + 1 = i + 2
      BY <1>1
    <3> QED
      BY <3>4, <3>5
  <2> HIDE DEF S
  <2> QED
    BY <1>1, <2>1, <2>2, Induction
<1>5. f[n + 1] = g[n] + bytes[Head(packets)]
  <2>1. n \in 0 .. n
    BY <1>1
  <2>2. n \in S
    BY <1>4, <2>1
  <2> QED
    BY <2>2
<1> QED
  BY <1>1, <1>5, SumIsLast DEF f, g, tail, n
-----------------------------------------------------------------------------
(***************************************************************************)
(* Quotient and remainder, with their types.                               *)
(***************************************************************************)
LEMMA DivMod ==
  ASSUME NEW m \in Nat \ {0}, NEW x \in Int
  PROVE  /\ x \div m \in Int /\ x % m \in 0 .. m - 1
         /\ x = m * (x \div m) + (x % m)
<1>1. x \div m \in Int
  OBVIOUS
<1>2. x % m \in 0 .. m - 1
  OBVIOUS
<1>3. x = m * (x \div m) + (x % m)
  OBVIOUS
<1> QED
  BY <1>1, <1>2, <1>3

(***************************************************************************)
(* A remainder is unique.                                                  *)
(***************************************************************************)
LEMMA ModUnique ==
  ASSUME NEW m \in Nat \ {0}, NEW k \in Int, NEW q \in Int, NEW r \in 0 .. m - 1,
         NEW s \in 0 .. m - 1, m * q + r = m * k + s
  PROVE  r = s
<1>2. m * (q - k) = s - r
  OBVIOUS
<1>3. CASE q - k >= 1
  <2>1. m * (q - k) >= m
    BY <1>3
  <2> QED
    BY <1>2, <2>1
<1>4. CASE q - k <= -1
  <2>1. m * (q - k) <= -m
    BY <1>4
  <2> QED
    BY <1>2, <2>1
<1>5. CASE q - k = 0
  BY <1>2, <1>5
<1> QED
  BY <1>3, <1>4, <1>5

(***************************************************************************)
(* A counter that is reduced at every change is the exact one, reduced     *)
(* once: adding b to a number already taken modulo m comes to the same as  *)
(* adding it before.                                                       *)
(***************************************************************************)
LEMMA ModPlus ==
  ASSUME NEW m \in Nat \ {0}, NEW x \in Int, NEW b \in Int
  PROVE  ((x % m) + b) % m = (x + b) % m
<1> DEFINE y == (x % m) + b
           z == x + b
           k == x \div m
           i == y \div m
           j == z \div m
<1>1. k \in Int /\ x % m \in Int /\ x = m * k + (x % m)
  BY DivMod
<1>2. y \in Int /\ z \in Int
  BY <1>1
<1> HIDE DEF y, z
<1>3. i \in Int /\ y % m \in 0 .. m - 1 /\ y = m * i + (y % m)
  BY <1>2, DivMod
<1>4. j \in Int /\ z % m \in 0 .. m - 1 /\ z = m * j + (z % m)
  BY <1>2, DivMod
<1> HIDE DEF i, j, k
<1>5. z = y + m * k
  <2>1. m * k \in Int
    BY <1>1
  <2> DEFINE r == x % m
             p == m * k
  <2>2. r \in Int /\ p \in Int /\ x = p + r /\ y = r + b /\ z = x + b
    BY <1>1, <2>1 DEF y, z
  <2> HIDE DEF r, p
  <2>3. z = y + p
    BY <2>2
  <2> QED
    BY <2>3 DEF p
<1>6. m * (i + k) + (y % m) = m * j + (z % m)
  <2>1. m * (i + k) = m * i + m * k
    BY <1>1, <1>3
  <2> QED
    BY <1>1, <1>3, <1>4, <1>5, <2>1
<1>7. y % m = z % m
  <2>1. i + k \in Int
    BY <1>1, <1>3
  <2> QED
    BY <1>3, <1>4, <1>6, <2>1, ModUnique
<1> QED
  BY <1>7 DEF y, z

(***************************************************************************)
(* A number that fits is its own remainder.                                *)
(***************************************************************************)
LEMMA ModSmall ==
  ASSUME NEW m \in Nat \ {0}, NEW x \in 0 .. m - 1
  PROVE  x % m = x
<1>1. x \div m \in Int /\ x % m \in 0 .. m - 1 /\ x = m * (x \div m) + (x % m)
  BY DivMod
<1>2. m * 0 + x = x
  OBVIOUS
<1> QED
  BY <1>1, <1>2, ModUnique
=============================================================================
