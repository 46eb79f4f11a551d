-------------------------- MODULE TouchInput_proofs --------------------------
(***************************************************************************)
(* The proofs about TouchInput, for any fingers, positions, room in the     *)
(* flow and number of events: types, that reports show the fingers that    *)
(* are there, and what alone can bring the listener down.                  *)
(***************************************************************************)
EXTENDS TouchInput, FiniteSetTheorems, SequenceTheorems, TLAPS

-----------------------------------------------------------------------------
(* Twelve bits. *)

\* The weight of each bit of a coordinate.
LEMMA Powers ==
    /\ 2^0 = 1
    /\ 2^1 = 2
    /\ 2^2 = 4
    /\ 2^3 = 8
    /\ 2^4 = 16
    /\ 2^5 = 32
    /\ 2^6 = 64
    /\ 2^7 = 128
    /\ 2^8 = 256
    /\ 2^9 = 512
    /\ 2^10 = 1024
    /\ 2^11 = 2048
OBVIOUS

LEMMA Halved == \A m \in Nat : m \div 2 \in Nat /\ m % 2 \in {0, 1} /\ m = 2 * (m \div 2) + (m % 2)
OBVIOUS

LEMMA HalvedAgain ==
    ASSUME NEW n \in Nat
    PROVE  /\ n \div 4 = (n \div 2) \div 2
           /\ n \div 8 = (n \div 4) \div 2
           /\ n \div 16 = (n \div 8) \div 2
           /\ n \div 32 = (n \div 16) \div 2
           /\ n \div 64 = (n \div 32) \div 2
           /\ n \div 128 = (n \div 64) \div 2
           /\ n \div 256 = (n \div 128) \div 2
           /\ n \div 512 = (n \div 256) \div 2
           /\ n \div 1024 = (n \div 512) \div 2
           /\ n \div 2048 = (n \div 1024) \div 2
           /\ n \div 4096 = (n \div 2048) \div 2
<1> QED OBVIOUS

\* The twelve bits from some place on are the lowest twelve of n.
Spells(bits, from, n) == \A i \in 0..11 : from + i \in bits <=> (n \div (2^i)) % 2 = 1

\* Twelve bits are enough for a number below 4096.
LEMMA Decoded ==
    ASSUME NEW n \in Nat, NEW bits, NEW from \in Int, n <= 4095, Spells(bits, from, n)
    PROVE  Number(bits, from) = n
<1> DEFINE D(i) == IF from + i \in bits THEN 1 ELSE 0
<1>1. /\ from + 0 \in bits <=> (n \div 1) % 2 = 1
      /\ from + 1 \in bits <=> (n \div 2) % 2 = 1
      /\ from + 2 \in bits <=> (n \div 4) % 2 = 1
      /\ from + 3 \in bits <=> (n \div 8) % 2 = 1
      /\ from + 4 \in bits <=> (n \div 16) % 2 = 1
      /\ from + 5 \in bits <=> (n \div 32) % 2 = 1
      /\ from + 6 \in bits <=> (n \div 64) % 2 = 1
      /\ from + 7 \in bits <=> (n \div 128) % 2 = 1
      /\ from + 8 \in bits <=> (n \div 256) % 2 = 1
      /\ from + 9 \in bits <=> (n \div 512) % 2 = 1
      /\ from + 10 \in bits <=> (n \div 1024) % 2 = 1
      /\ from + 11 \in bits <=> (n \div 2048) % 2 = 1
  BY Powers DEF Spells
<1>2. /\ D(0) = (n \div 1) % 2
      /\ D(1) = (n \div 2) % 2
      /\ D(2) = (n \div 4) % 2
      /\ D(3) = (n \div 8) % 2
      /\ D(4) = (n \div 16) % 2
      /\ D(5) = (n \div 32) % 2
      /\ D(6) = (n \div 64) % 2
      /\ D(7) = (n \div 128) % 2
      /\ D(8) = (n \div 256) % 2
      /\ D(9) = (n \div 512) % 2
      /\ D(10) = (n \div 1024) % 2
      /\ D(11) = (n \div 2048) % 2
  BY <1>1
<1> DEFINE q(i) == n \div i
<1>3. \A i \in {1, 2, 4, 8, 16, 32, 64, 128, 256, 512, 1024, 2048, 4096} : q(i) \in Nat
  OBVIOUS
<1>4. /\ q(1) = 2 * q(2) + ((n \div 1) % 2)
      /\ q(2) = 2 * q(4) + ((n \div 2) % 2)
      /\ q(4) = 2 * q(8) + ((n \div 4) % 2)
      /\ q(8) = 2 * q(16) + ((n \div 8) % 2)
      /\ q(16) = 2 * q(32) + ((n \div 16) % 2)
      /\ q(32) = 2 * q(64) + ((n \div 32) % 2)
      /\ q(64) = 2 * q(128) + ((n \div 64) % 2)
      /\ q(128) = 2 * q(256) + ((n \div 128) % 2)
      /\ q(256) = 2 * q(512) + ((n \div 256) % 2)
      /\ q(512) = 2 * q(1024) + ((n \div 512) % 2)
      /\ q(1024) = 2 * q(2048) + ((n \div 1024) % 2)
      /\ q(2048) = 2 * q(4096) + ((n \div 2048) % 2)
  BY Halved, HalvedAgain
<1>5. q(1) = n /\ q(4096) = 0
  OBVIOUS
<1>6. /\ D(0) \in Nat
      /\ D(1) \in Nat
      /\ D(2) \in Nat
      /\ D(3) \in Nat
      /\ D(4) \in Nat
      /\ D(5) \in Nat
      /\ D(6) \in Nat
      /\ D(7) \in Nat
      /\ D(8) \in Nat
      /\ D(9) \in Nat
      /\ D(10) \in Nat
      /\ D(11) \in Nat
  OBVIOUS
<1>7. Number(bits, from) = D(0) + 2 * D(1) + 4 * D(2) + 8 * D(3) + 16 * D(4) + 32 * D(5)
          + 64 * D(6) + 128 * D(7) + 256 * D(8) + 512 * D(9) + 1024 * D(10) + 2048 * D(11)
  BY DEF Number
<1> HIDE DEF D, q
<1>8. /\ q(1) = 2 * q(2) + D(0)
      /\ q(2) = 2 * q(4) + D(1)
      /\ q(4) = 2 * q(8) + D(2)
      /\ q(8) = 2 * q(16) + D(3)
      /\ q(16) = 2 * q(32) + D(4)
      /\ q(32) = 2 * q(64) + D(5)
      /\ q(64) = 2 * q(128) + D(6)
      /\ q(128) = 2 * q(256) + D(7)
      /\ q(256) = 2 * q(512) + D(8)
      /\ q(512) = 2 * q(1024) + D(9)
      /\ q(1024) = 2 * q(2048) + D(10)
      /\ q(2048) = 2 * q(4096) + D(11)
  BY <1>2, <1>4
<1>9. q(256) = D(8) + 2 * D(9) + 4 * D(10) + 8 * D(11)
  BY <1>3, <1>5, <1>6, <1>8
<1>10. q(16) = D(4) + 2 * D(5) + 4 * D(6) + 8 * D(7) + 16 * q(256)
  BY <1>3, <1>6, <1>8
<1>11. q(1) = D(0) + 2 * D(1) + 4 * D(2) + 8 * D(3) + 16 * q(16)
  BY <1>3, <1>6, <1>8
<1> QED BY <1>5, <1>6, <1>7, <1>9, <1>10, <1>11

-----------------------------------------------------------------------------
(* Packing. *)

LEMMA ShlMembers ==
    ASSUME NEW bits \in SUBSET Int, NEW k \in Int, NEW e \in Int
    PROVE  e \in Shl(bits, k) <=> e - k \in bits
BY DEF Shl

LEMMA LowBitsMembers ==
    ASSUME NEW n \in Int
    PROVE  /\ LowBits(n, 12) \in SUBSET (0..11)
           /\ \A k \in 0..11 : k \in LowBits(n, 12) <=> (n \div (2^k)) % 2 = 1
BY DEF LowBits

Touched == [Slots -> [x : Int, y : Int, state : BOOLEAN]]

\* A bit of a packed Long belongs to one coordinate or to one state.
LEMMA PackedMembers ==
    ASSUME NEW touch \in Touched, NEW e
    PROVE  e \in Packed(touch) <=>
             /\ e \in Int
             /\ \E i \in Slots : \/ e - Base(i) \in LowBits(touch[i].x, 12)
                                 \/ e - (Base(i) + 12) \in LowBits(touch[i].y, 12)
                                 \/ e - (Base(i) + 24) \in Flag(touch[i].state)
<1> DEFINE X(i) == LowBits(touch[i].x, 12)
           Y(i) == LowBits(touch[i].y, 12)
           F(i) == Flag(touch[i].state)
           Part(i) == Shl(X(i), Base(i)) \cup Shl(Y(i), Base(i) + 12) \cup Shl(F(i), Base(i) + 24)
<1>1. \A i \in Slots : /\ X(i) \in SUBSET Int /\ Y(i) \in SUBSET Int /\ F(i) \in SUBSET Int
                       /\ Base(i) \in Int /\ Base(i) + 12 \in Int /\ Base(i) + 24 \in Int
  <2> TAKE i \in Slots
  <2>1. touch[i].x \in Int /\ touch[i].y \in Int
    BY DEF Touched
  <2>2. X(i) \in SUBSET Int /\ Y(i) \in SUBSET Int
    BY <2>1, LowBitsMembers
  <2> QED BY <2>2 DEF Flag, Base, Slots
<1>2. Packed(touch) = UNION {Part(i) : i \in Slots}
  BY DEF Packed
<1> HIDE DEF X, Y, F
<1>3. \A i \in Slots : Part(i) \subseteq Int
  BY <1>1 DEF Shl
<1>4. ASSUME NEW i \in Slots, e \in Int
      PROVE  e \in Part(i) <=>
               e - Base(i) \in X(i) \/ e - (Base(i) + 12) \in Y(i) \/ e - (Base(i) + 24) \in F(i)
  <2>1. e \in Shl(X(i), Base(i)) <=> e - Base(i) \in X(i)
    BY <1>1, <1>4, ShlMembers
  <2>2. e \in Shl(Y(i), Base(i) + 12) <=> e - (Base(i) + 12) \in Y(i)
    BY <1>1, <1>4, ShlMembers
  <2>3. e \in Shl(F(i), Base(i) + 24) <=> e - (Base(i) + 24) \in F(i)
    BY <1>1, <1>4, ShlMembers
  <2> QED BY <2>1, <2>2, <2>3
<1>5. e \in Packed(touch) <=> \E i \in Slots : e \in Part(i)
  BY <1>2
<1> HIDE DEF Part
<1>6. e \in Packed(touch) <=>
             /\ e \in Int
             /\ \E i \in Slots :
                   e - Base(i) \in X(i) \/ e - (Base(i) + 12) \in Y(i) \/ e - (Base(i) + 24) \in F(i)
  BY <1>3, <1>4, <1>5
<1> QED BY <1>6 DEF X, Y, F

\* The two slots do not overlap, nor do the parts of one.
LEMMA SlotsApart ==
    ASSUME NEW touch \in Touched, NEW i \in Slots
    PROVE  /\ \A k \in 0..11 : Base(i) + k \in Packed(touch) <=> k \in LowBits(touch[i].x, 12)
           /\ \A k \in 0..11 : Base(i) + 12 + k \in Packed(touch) <=> k \in LowBits(touch[i].y, 12)
           /\ Pressed(Packed(touch), i) <=> touch[i].state
           /\ Packed(touch) \in SUBSET (0..63)
<1> DEFINE X(j) == LowBits(touch[j].x, 12)
           Y(j) == LowBits(touch[j].y, 12)
           F(j) == Flag(touch[j].state)
           Bits == Packed(touch)
<1>1. \A j \in Slots : X(j) \in SUBSET (0..11) /\ Y(j) \in SUBSET (0..11) /\ F(j) \in SUBSET {0}
  <2> TAKE j \in Slots
  <2>1. touch[j].x \in Int /\ touch[j].y \in Int
    BY DEF Touched
  <2> QED BY <2>1, LowBitsMembers DEF Flag
<1>2. \A e : e \in Bits <=>
             /\ e \in Int
             /\ \/ e \in X(1) \/ e - 12 \in Y(1) \/ e - 24 \in F(1)
                \/ e - 25 \in X(2) \/ e - 37 \in Y(2) \/ e - 49 \in F(2)
  <2> TAKE e
  <2>1. e \in Bits <=>
             /\ e \in Int
             /\ \E j \in Slots : e - Base(j) \in X(j) \/ e - (Base(j) + 12) \in Y(j)
                                   \/ e - (Base(j) + 24) \in F(j)
    BY PackedMembers
  <2> HIDE DEF X, Y, F, Bits
  <2>2. Base(1) = 0 /\ Base(2) = 25 /\ Slots = {1, 2}
    BY DEF Base, Slots
  <2>3. e \in Int => e - 0 = e
    OBVIOUS
  <2> QED BY <2>1, <2>2, <2>3
<1>3. touch[i].state <=> 0 \in F(i)
  BY DEF Flag, Touched
<1> HIDE DEF X, Y, F, Bits
<1>4. i \in {1, 2} /\ Base(1) = 0 /\ Base(2) = 25
  BY DEF Base, Slots
<1>5. \A k \in 0..11 : Base(i) + k \in Bits <=> k \in X(i)
  <2>1. \A j \in {1, 2}, k \in 0..11 : 25 * (j - 1) + k \in Bits <=> k \in X(j)
    <3>1. \A k \in 0..11 : k \in Bits <=> k \in X(1)
      BY <1>1, <1>2 DEF Slots
    <3>2. \A k \in 0..11 : 25 + k \in Bits <=> k \in X(2)
      <4> TAKE k \in 0..11
      <4>1. 25 + k \in Int /\ (25 + k) - 25 = k
        OBVIOUS
      <4> QED BY <4>1, <1>1, <1>2 DEF Slots
    <3> QED BY <3>1, <3>2
  <2> QED BY <2>1, <1>4 DEF Base
<1>6. \A k \in 0..11 : Base(i) + 12 + k \in Bits <=> k \in Y(i)
  <2>1. \A k \in 0..11 : 12 + k \in Bits <=> k \in Y(1)
    <3> TAKE k \in 0..11
    <3>1. 12 + k \in Int /\ (12 + k) - 12 = k
      OBVIOUS
    <3> QED BY <3>1, <1>1, <1>2 DEF Slots
  <2>2. \A k \in 0..11 : 37 + k \in Bits <=> k \in Y(2)
    <3> TAKE k \in 0..11
    <3>1. 37 + k \in Int /\ (37 + k) - 37 = k
      OBVIOUS
    <3> QED BY <3>1, <1>1, <1>2 DEF Slots
  <2>3. \A k \in 0..11 : Base(1) + 12 + k = 12 + k /\ Base(2) + 12 + k = 37 + k
    BY <1>4
  <2> QED BY <2>1, <2>2, <2>3, <1>4
<1>7. Pressed(Bits, i) <=> 0 \in F(i)
  <2>1. 24 \in Bits <=> 0 \in F(1)
    BY <1>1, <1>2 DEF Slots
  <2>2. 49 \in Bits <=> 0 \in F(2)
    BY <1>1, <1>2 DEF Slots
  <2> QED BY <2>1, <2>2, <1>4 DEF Pressed
<1>8. Bits \in SUBSET (0..63)
  BY <1>1, <1>2 DEF Slots
<1> QED BY <1>3, <1>5, <1>6, <1>7, <1>8 DEF X, Y, Bits

\* A reader of a packed Long finds every coordinate that fits.
LEMMA PackedShows ==
    ASSUME NEW touch \in Touched, NEW i \in Slots, NEW pointer,
           touch[i].x = pointer.x, touch[i].y = pointer.y
    PROVE  Shows(Packed(touch), i, pointer)
<1>1. Base(i) \in Int /\ Base(i) + 12 \in Int
  BY DEF Base, Slots
<1>2. touch[i].x \in Int /\ touch[i].y \in Int
  BY DEF Touched
<1>3. ASSUME Fits(pointer.x) PROVE PackedX(Packed(touch), i) = pointer.x
  <2> DEFINE n == pointer.x
             bits == Packed(touch)
  <2>1. n \in Nat /\ n <= 4095
    <3>1. n \in 0..4095
      BY <1>3 DEF Fits
    <3> HIDE DEF n
    <3> QED BY <3>1
  <2>2. Spells(bits, Base(i), n)
    <3>1. \A k \in 0..11 : k \in LowBits(n, 12) <=> (n \div (2^k)) % 2 = 1
      BY DEF LowBits
    <3>2. \A k \in 0..11 : Base(i) + k \in bits <=> k \in LowBits(n, 12)
      <4>1. \A k \in 0..11 : Base(i) + k \in Packed(touch) <=> k \in LowBits(touch[i].x, 12)
        BY SlotsApart
      <4> QED BY <4>1
    <3> HIDE DEF n, bits
    <3> QED BY <3>1, <3>2 DEF Spells
  <2> HIDE DEF n, bits
  <2>3. Number(bits, Base(i)) = n
    BY <2>1, <2>2, <1>1, Decoded
  <2> QED BY <2>3 DEF PackedX, n, bits
<1>4. ASSUME Fits(pointer.y) PROVE PackedY(Packed(touch), i) = pointer.y
  <2> DEFINE n == pointer.y
             bits == Packed(touch)
  <2>1. n \in Nat /\ n <= 4095
    <3>1. n \in 0..4095
      BY <1>4 DEF Fits
    <3> HIDE DEF n
    <3> QED BY <3>1
  <2>2. Spells(bits, Base(i) + 12, n)
    <3>1. \A k \in 0..11 : k \in LowBits(n, 12) <=> (n \div (2^k)) % 2 = 1
      BY DEF LowBits
    <3>2. \A k \in 0..11 : Base(i) + 12 + k \in bits <=> k \in LowBits(n, 12)
      <4>1. \A k \in 0..11 : Base(i) + 12 + k \in Packed(touch) <=> k \in LowBits(touch[i].y, 12)
        BY SlotsApart
      <4> QED BY <4>1
    <3> HIDE DEF n, bits
    <3> QED BY <3>1, <3>2 DEF Spells
  <2> HIDE DEF n, bits
  <2>3. Number(bits, Base(i) + 12) = n
    BY <2>1, <2>2, <1>1, Decoded
  <2> QED BY <2>3 DEF PackedY, n, bits
<1> QED BY <1>3, <1>4 DEF Shows

-----------------------------------------------------------------------------
(* Inductive strengthening. *)

Finger == [id : Fingers, x : Int, y : Int]

\* More than TypeOK: the fingers and the Longs are of their types, whatever
\* their number.
Typed ==
    /\ pointers \in Seq(Finger) /\ Ordered(pointers)
    /\ events \in 0..MaxEvents
    /\ {crowd, bound, target, crashed, subscribed, missed} \subseteq BOOLEAN
    /\ flow \in Seq(SUBSET (0..63)) /\ Len(flow) <= Capacity
    /\ shown \in SUBSET (0..63) /\ peer \in SUBSET (0..63)
    /\ calling = None \/ calling \in SUBSET (0..63)

\* The listener that took the first event of a gesture is bound, so that it
\* reports each further one, and a gesture of two fingers has two.
Gesture ==
    /\ target => bound
    /\ ~crowd => Len(pointers) <= 2

IInv == Typed /\ Gesture /\ ReportsShowFingers

-----------------------------------------------------------------------------
(* Lists of fingers. *)

LEMMA PointerIsFinger ==
    ASSUME NEW id \in Fingers, NEW p \in Positions
    PROVE  Pointer(id, p) \in Finger
BY TouchAssumption DEF Pointer, Finger

LEMMA Inserted ==
    ASSUME NEW T, NEW s \in Seq(T), NEW e \in T, NEW i \in 1..Len(s) + 1
    PROVE  InsertAt(s, i, e) \in Seq(T) /\ Len(InsertAt(s, i, e)) = Len(s) + 1
<1>1. /\ SubSeq(s, 1, i - 1) \in Seq(T) /\ Len(SubSeq(s, 1, i - 1)) = i - 1
      /\ SubSeq(s, i, Len(s)) \in Seq(T) /\ Len(SubSeq(s, i, Len(s))) = Len(s) - i + 1
  <2>1. SubSeq(s, 1, i - 1) \in Seq(T) /\ Len(SubSeq(s, 1, i - 1)) = i - 1
    OBVIOUS
  <2>2. SubSeq(s, i, Len(s)) \in Seq(T) /\ Len(SubSeq(s, i, Len(s))) = Len(s) - i + 1
    OBVIOUS
  <2> QED BY <2>1, <2>2
<1> DEFINE a == SubSeq(s, 1, i - 1)
           b == SubSeq(s, i, Len(s))
<1>0. InsertAt(s, i, e) = a \o <<e>> \o b
  BY DEF InsertAt
<1> HIDE DEF a, b
<1>2. <<e>> \in Seq(T) /\ Len(<<e>>) = 1 /\ a \in Seq(T) /\ b \in Seq(T)
  BY <1>1 DEF a, b
<1>3. a \o <<e>> \in Seq(T) /\ Len(a \o <<e>>) = Len(a) + 1
  BY <1>2
<1>4. a \o <<e>> \o b \in Seq(T) /\ Len(a \o <<e>> \o b) = Len(a) + 1 + Len(b)
  BY <1>2, <1>3
<1>5. Len(a) = i - 1 /\ Len(b) = Len(s) - i + 1
  BY <1>1 DEF a, b
<1> QED BY <1>0, <1>4, <1>5

LEMMA Removed ==
    ASSUME NEW T, NEW s \in Seq(T), NEW i \in 1..Len(s)
    PROVE  /\ RemoveAt(s, i) \in Seq(T) /\ Len(RemoveAt(s, i)) = Len(s) - 1
           /\ \A j \in 1..Len(s) - 1 : RemoveAt(s, i)[j] = IF j < i THEN s[j] ELSE s[j + 1]
<1> DEFINE a == SubSeq(s, 1, i - 1)
           b == SubSeq(s, i + 1, Len(s))
<1>1. a \in Seq(T) /\ Len(a) = i - 1 /\ \A j \in 1..i - 1 : a[j] = s[j]
  OBVIOUS
<1>2. b \in Seq(T) /\ Len(b) = Len(s) - i /\ \A j \in 1..Len(s) - i : b[j] = s[i + j]
  OBVIOUS
<1>3. RemoveAt(s, i) = a \o b
  BY DEF RemoveAt
<1> HIDE DEF a, b
<1>4. /\ a \o b \in Seq(T) /\ Len(a \o b) = Len(a) + Len(b)
      /\ \A j \in 1..Len(a) + Len(b) : (a \o b)[j] = IF j <= Len(a) THEN a[j] ELSE b[j - Len(a)]
  <2>1. a \in Seq(T) /\ b \in Seq(T)
    BY <1>1, <1>2
  <2> QED BY <2>1, ConcatProperties
<1>5. ASSUME NEW j \in 1..Len(s) - 1
      PROVE  (a \o b)[j] = IF j < i THEN s[j] ELSE s[j + 1]
  <2>1. CASE j < i
    BY <2>1, <1>1, <1>2, <1>4
  <2>2. CASE ~(j < i)
    <3>1. (a \o b)[j] = b[j - (i - 1)]
      BY <2>2, <1>1, <1>2, <1>4
    <3>2. j - (i - 1) \in 1..Len(s) - i /\ i + (j - (i - 1)) = j + 1
      BY <2>2
    <3> QED BY <3>1, <3>2, <2>2, <1>2
  <2> QED BY <2>1, <2>2
<1> QED BY <1>1, <1>2, <1>3, <1>4, <1>5

\* Identities increase along the indices, so that there are not more fingers
\* on the surface than identities.
LEMMA FewFingers ==
    ASSUME NEW ps \in Seq(Finger), Ordered(ps)
    PROVE  Len(ps) <= Cardinality(Fingers) /\ Ids(ps) \subseteq Fingers
<1> DEFINE f == [i \in 1..Len(ps) |-> ps[i].id]
<1>1. DOMAIN ps = 1..Len(ps) /\ \A i \in 1..Len(ps) : ps[i].id \in Fingers
  <2>1. DOMAIN ps = 1..Len(ps) /\ \A i \in 1..Len(ps) : ps[i] \in Finger
    OBVIOUS
  <2> QED BY <2>1 DEF Finger
<1>2. Fingers \subseteq Nat /\ IsFiniteSet(Fingers)
  BY TouchAssumption
<1>3. f \in Injection(1..Len(ps), Fingers)
  <2>1. f \in [1..Len(ps) -> Fingers]
    BY <1>1
  <2>2. \A i, j \in 1..Len(ps) : i < j => f[i] < f[j]
    BY <1>1 DEF Ordered
  <2>3. \A i, j \in 1..Len(ps) : f[i] = f[j] => i = j
    <3> SUFFICES ASSUME NEW i \in 1..Len(ps), NEW j \in 1..Len(ps), i # j PROVE f[i] # f[j]
      OBVIOUS
    <3>1. f[i] \in Nat /\ f[j] \in Nat
      BY <1>1, <1>2
    <3>2. i < j \/ j < i
      OBVIOUS
    <3> HIDE DEF f
    <3> QED BY <2>2, <3>1, <3>2
  <2> QED BY <2>1, <2>3 DEF Injection, IsInjective
<1>4. Cardinality(1..Len(ps)) <= Cardinality(Fingers)
  BY <1>2, <1>3, FS_Injection
<1>5. Cardinality(1..Len(ps)) = Len(ps)
  <2>1. Cardinality(1..Len(ps)) = IF 1 > Len(ps) THEN 0 ELSE Len(ps) - 1 + 1
    BY FS_Interval
  <2> QED BY <2>1
<1> QED BY <1>1, <1>4, <1>5 DEF Ids

-----------------------------------------------------------------------------
(* The listener. *)

Actions == {"down", "pointerDown", "move", "pointerUp", "up", "cancel"}
Longs == SUBSET (0..63)

\* The listener looks at the first pointer, or the first two.
LEMMA ReportedSlots ==
    ASSUME NEW ps \in Seq(Finger), Len(ps) > 0
    PROVE  /\ 1..Reported(ps) = IF Len(ps) = 1 THEN {1} ELSE {1, 2}
           /\ Slots = {1, 2}
           /\ Len(ps) <= 2 => Reported(ps) = Len(ps)
<1> DEFINE n == Len(ps)
<1>1. n \in Nat /\ n > 0
  OBVIOUS
<1>2. Reported(ps) = IF n > 2 THEN 2 ELSE n
  BY DEF Reported
<1> HIDE DEF n
<1>3. CASE n = 1
  BY <1>2, <1>3 DEF Slots, n
<1>4. CASE n # 1
  <2>1. Reported(ps) = 2
    BY <1>1, <1>2, <1>4
  <2>2. 1..2 = {1, 2}
    OBVIOUS
  <2>3. n <= 2 => n = 2
    BY <1>1, <1>4
  <2> QED BY <2>1, <2>2, <2>3, <1>4 DEF Slots, n
<1> QED BY <1>3, <1>4

LEMMA ReportedTwo ==
    ASSUME NEW ps \in Seq(Finger), Len(ps) > 1
    PROVE  1..Reported(ps) = {1, 2} /\ Slots = {1, 2}
<1>1. Reported(ps) = 2
  <2> DEFINE n == Len(ps)
  <2>1. n \in Nat /\ n > 1 /\ Reported(ps) = IF n > 2 THEN 2 ELSE n
    BY DEF Reported
  <2> HIDE DEF n
  <2> QED BY <2>1
<1>2. 1..2 = {1, 2}
  OBVIOUS
<1> QED BY <1>1, <1>2 DEF Slots

\* What the listener copies is there, if it stays within its arrays.
LEMMA WrittenIsThere ==
    ASSUME NEW action \in Actions, NEW ps \in Seq(Finger), NEW index \in 1..Len(ps)
    PROVE  Written(action, index, ps) \subseteq 1..Len(ps)
<1> DEFINE n == Len(ps)
           D == 1..n
<1>1. n \in Nat /\ n > 0 /\ index \in D
  OBVIOUS
<1>2. 1..Reported(ps) = IF n = 1 THEN {1} ELSE {1, 2}
  BY <1>1, ReportedSlots
<1> HIDE DEF n
<1>3. 1 \in D /\ (n # 1 => 2 \in D)
  BY <1>1
<1> HIDE DEF D
<1>4. 1..Reported(ps) \subseteq D
  BY <1>2, <1>3
<1>5. Written(action, index, ps) \in {{1}, {index} \cup 1..Reported(ps), 1..Reported(ps)}
  BY DEF Written
<1>6. Written(action, index, ps) \subseteq D
  BY <1>1, <1>3, <1>4, <1>5
<1> QED BY <1>6 DEF D, n

LEMMA TouchIsTouched ==
    ASSUME NEW action \in Actions, NEW ps \in Seq(Finger), NEW index \in 1..Len(ps)
    PROVE  /\ Touch(action, index, ps) \in Touched
           /\ \A i \in Slots :
                 /\ i \in Written(action, index, ps) =>
                       /\ Touch(action, index, ps)[i].x = ps[i].x
                       /\ Touch(action, index, ps)[i].y = ps[i].y
                 /\ Touch(action, index, ps)[i].state
                      <=> i \in Written(action, index, ps) /\ State(action, index, i)
<1> DEFINE W == Written(action, index, ps)
           S(i) == State(action, index, i)
<1>1. W \subseteq 1..Len(ps)
  BY WrittenIsThere
<1>2. \A i \in Slots : S(i) \in BOOLEAN
  BY DEF State
<1>3. \A i \in W : ps[i].x \in Int /\ ps[i].y \in Int
  <2>1. \A i \in W : ps[i] \in Finger
    BY <1>1
  <2> QED BY <2>1 DEF Finger
<1>4. Touch(action, index, ps) =
         [i \in Slots |-> IF i \in W THEN [x |-> ps[i].x, y |-> ps[i].y, state |-> S(i)]
                          ELSE [x |-> 0, y |-> 0, state |-> FALSE]]
  BY DEF Touch
<1> HIDE DEF W, S
<1>5. Touch(action, index, ps) \in Touched
  BY <1>2, <1>3, <1>4 DEF Touched
<1>6. \A i \in Slots : Touch(action, index, ps)[i] =
         IF i \in W THEN [x |-> ps[i].x, y |-> ps[i].y, state |-> S(i)]
         ELSE [x |-> 0, y |-> 0, state |-> FALSE]
  BY <1>4
<1>7. ASSUME NEW i \in Slots
      PROVE  /\ i \in W => /\ Touch(action, index, ps)[i].x = ps[i].x
                           /\ Touch(action, index, ps)[i].y = ps[i].y
             /\ Touch(action, index, ps)[i].state <=> i \in W /\ S(i)
  <2>1. CASE i \in W
    <3>1. Touch(action, index, ps)[i] = [x |-> ps[i].x, y |-> ps[i].y, state |-> S(i)]
      BY <2>1, <1>6
    <3>2. Touch(action, index, ps)[i].x = ps[i].x /\ Touch(action, index, ps)[i].y = ps[i].y
          /\ Touch(action, index, ps)[i].state = S(i)
      BY <3>1
    <3> QED BY <2>1, <3>2
  <2>2. CASE i \notin W
    <3>1. Touch(action, index, ps)[i] = [x |-> 0, y |-> 0, state |-> FALSE]
      BY <2>2, <1>6
    <3>2. Touch(action, index, ps)[i].state = FALSE
      BY <3>1
    <3> QED BY <2>2, <3>2
  <2> QED BY <2>1, <2>2
<1> QED BY <1>5, <1>7 DEF W, S

\* The pressed touches of a report are those that it copies as pressed, and it
\* shows where they are.
LEMMA ReportIsExact ==
    ASSUME NEW action \in Actions, NEW ps \in Seq(Finger), NEW index \in 1..Len(ps)
    PROVE  /\ Packed(Touch(action, index, ps)) \in Longs
           /\ \A i \in Slots :
                 /\ Pressed(Packed(Touch(action, index, ps)), i)
                      <=> i \in Written(action, index, ps) /\ State(action, index, i)
                 /\ i \in Written(action, index, ps)
                      => Shows(Packed(Touch(action, index, ps)), i, ps[i])
<1> DEFINE touch == Touch(action, index, ps)
           W == Written(action, index, ps)
<1>1. touch \in Touched
  BY TouchIsTouched
<1>2. \A i \in Slots : i \in W => touch[i].x = ps[i].x /\ touch[i].y = ps[i].y
  BY TouchIsTouched
<1>3. \A i \in Slots : touch[i].state <=> i \in W /\ State(action, index, i)
  BY TouchIsTouched
<1> HIDE DEF touch, W
<1>4. ASSUME NEW i \in Slots PROVE Pressed(Packed(touch), i) <=> i \in W /\ State(action, index, i)
  BY <1>1, <1>3, SlotsApart
<1>5. ASSUME NEW i \in Slots, i \in W PROVE Shows(Packed(touch), i, ps[i])
  BY <1>1, <1>2, <1>5, PackedShows
<1>6. Packed(touch) \in Longs
  <2>1. 1 \in Slots
    BY DEF Slots
  <2> QED BY <2>1, <1>1, SlotsApart DEF Longs
<1> QED BY <1>4, <1>5, <1>6 DEF touch, W

\* The flow keeps its bound and its type, whoever collects.
LEMMA Emitted ==
    ASSUME Typed, NEW bits \in Longs, Emit(bits)
    PROVE  flow' \in Seq(Longs) /\ Len(flow') <= Capacity /\ missed' \in BOOLEAN
<1>1. flow \in Seq(Longs) /\ Len(flow) <= Capacity /\ subscribed \in BOOLEAN /\ Capacity \in Nat \ {0}
  BY TouchAssumption DEF Typed, Longs
<1>2. missed' \in BOOLEAN
  BY <1>1 DEF Emit
<1>3. CASE ~subscribed
  BY <1>1, <1>2, <1>3 DEF Emit
<1>4. CASE subscribed /\ Len(flow) = Capacity
  <2>1. flow' = Append(Tail(flow), bits)
    BY <1>4 DEF Emit
  <2>2. Tail(flow) \in Seq(Longs) /\ Len(Tail(flow)) = Len(flow) - 1
    BY <1>1, <1>4
  <2> QED BY <1>1, <1>2, <1>4, <2>1, <2>2
<1>5. CASE subscribed /\ Len(flow) # Capacity
  <2>1. flow' = Append(flow, bits)
    BY <1>5 DEF Emit
  <2> QED BY <1>1, <1>2, <1>5, <2>1
<1> QED BY <1>1, <1>3, <1>4, <1>5

LEMMA Dispatched ==
    ASSUME Typed, NEW action \in Actions, NEW ps \in Seq(Finger), NEW index \in 1..Len(ps),
           Dispatch(action, index, ps)
    PROVE  /\ flow' \in Seq(Longs) /\ Len(flow') <= Capacity /\ shown' \in Longs
           /\ missed' \in BOOLEAN /\ crashed' \in BOOLEAN
<1> DEFINE bits == Packed(Touch(action, index, ps))
<1>1. /\ flow \in Seq(Longs) /\ Len(flow) <= Capacity /\ shown \in Longs
      /\ missed \in BOOLEAN /\ crashed \in BOOLEAN
  BY DEF Typed, Longs
<1>2. bits \in Longs
  BY ReportIsExact
<1>3. \/ UNCHANGED <<flow, missed, shown, crashed>>
      \/ Emit(bits) /\ shown' = bits /\ UNCHANGED crashed
      \/ crashed' = TRUE /\ UNCHANGED <<flow, missed, shown>>
  BY DEF Dispatch, Listener
<1> HIDE DEF bits
<1>4. CASE UNCHANGED <<flow, missed, shown, crashed>>
  BY <1>1, <1>4
<1>5. CASE Emit(bits) /\ shown' = bits /\ UNCHANGED crashed
  BY <1>1, <1>2, <1>5, Emitted
<1>6. CASE crashed' = TRUE /\ UNCHANGED <<flow, missed, shown>>
  BY <1>1, <1>6
<1> QED BY <1>3, <1>4, <1>5, <1>6

\* A listener that is asked, is bound and does not fail reports.
LEMMA Reports ==
    ASSUME NEW action \in Actions, NEW ps, NEW index, Dispatch(action, index, ps),
           action = "down" \/ target, bound, ~crashed'
    PROVE  /\ shown' = Packed(Touch(action, index, ps))
           /\ Written(action, index, ps) \subseteq Slots
BY DEF Dispatch, Listener

-----------------------------------------------------------------------------
(* What a report says of the fingers. *)

\* The two claims of ReportsShowFingers about one report: what is pressed are
\* fingers, and all of them.
Truthful(bits, ps) ==
    LET touched == {i \in Slots : Pressed(bits, i)}
    IN \E finger \in [touched -> DOMAIN ps] :
          /\ \A i \in touched : Shows(bits, i, ps[finger[i]])
          /\ \A i, j \in touched : i # j => finger[i] # finger[j]
Complete(bits, ps) == Cardinality({i \in Slots : Pressed(bits, i)}) = Len(ps)

LEMMA Interval == ASSUME NEW n \in Nat PROVE Cardinality(1..n) = n
<1>1. Cardinality(1..n) = IF 1 > n THEN 0 ELSE n - 1 + 1
  BY FS_Interval
<1> QED BY <1>1

\* A report of fingers that are there.
LEMMA PresenceIsTruthful ==
    ASSUME NEW action \in {"down", "pointerDown", "move"}, NEW ps \in Seq(Finger),
           NEW index \in 1..Len(ps), action = "down" => Len(ps) = 1
    PROVE  /\ Truthful(Packed(Touch(action, index, ps)), ps)
           /\ Len(ps) <= 2 => Complete(Packed(Touch(action, index, ps)), ps)
<1> DEFINE bits == Packed(Touch(action, index, ps))
           touched == {i \in Slots : Pressed(bits, i)}
           W == Written(action, index, ps)
           n == Len(ps)
<1>1. n \in Nat /\ n > 0 /\ DOMAIN ps = 1..n
  OBVIOUS
<1>2. W = (IF n = 1 THEN {1} ELSE {1, 2}) /\ Slots = {1, 2}
  <2>1. 1..Reported(ps) = (IF n = 1 THEN {1} ELSE {1, 2}) /\ Slots = {1, 2}
    BY <1>1, ReportedSlots
  <2>2. CASE action = "down"
    BY <2>1, <2>2 DEF Written
  <2>3. CASE action \in {"pointerDown", "move"}
    BY <2>1, <2>3 DEF Written
  <2> QED BY <2>2, <2>3
<1>3. action \in Actions /\ \A i \in Slots : State(action, index, i)
  BY DEF Actions, State
<1>4. /\ \A i \in Slots : Pressed(bits, i) <=> i \in W /\ State(action, index, i)
      /\ \A i \in Slots : i \in W => Shows(bits, i, ps[i])
  BY <1>3, ReportIsExact
<1> HIDE DEF bits, W, n
<1>6. touched = W /\ W \subseteq 1..n
  BY <1>1, <1>2, <1>3, <1>4
<1> HIDE DEF touched
<1>7. \E finger \in [touched -> DOMAIN ps] :
         /\ \A i \in touched : Shows(bits, i, ps[finger[i]])
         /\ \A i, j \in touched : i # j => finger[i] # finger[j]
  <2> DEFINE finger == [i \in touched |-> i]
  <2>1. finger \in [touched -> DOMAIN ps] /\ \A i \in touched : finger[i] = i
    BY <1>1, <1>6
  <2> HIDE DEF finger
  <2>2. \A i \in touched : Shows(bits, i, ps[i])
    BY <1>2, <1>4, <1>6
  <2> QED BY <2>1, <2>2
<1>8. n <= 2 => Cardinality(touched) = n
  <2> SUFFICES ASSUME n <= 2 PROVE Cardinality(touched) = n
    OBVIOUS
  <2>1. Cardinality(1..n) = n
    BY <1>1, Interval
  <2>2. n = 1 \/ n = 2
    BY <1>1
  <2>3. 1..1 = {1} /\ 1..2 = {1, 2}
    OBVIOUS
  <2> QED BY <2>1, <2>2, <2>3, <1>2, <1>6
<1> QED BY <1>7, <1>8 DEF Truthful, Complete, touched, bits, n

\* Of the first two elements, the one that stays is the first that is left.
LEMMA OtherStays ==
    ASSUME NEW T, NEW s \in Seq(T), NEW i \in {1, 2}, Len(s) > 1
    PROVE  /\ RemoveAt(s, i)[1] = s[IF i = 1 THEN 2 ELSE 1]
           /\ 1 \in DOMAIN RemoveAt(s, i)
           /\ Len(RemoveAt(s, i)) = Len(s) - 1
<1> DEFINE rest == RemoveAt(s, i)
<1>1. Len(s) \in Nat /\ i \in 1..Len(s)
  OBVIOUS
<1>2. rest \in Seq(T) /\ Len(rest) = Len(s) - 1
  BY <1>1, Removed
<1>3. 1 \in 1..Len(s) - 1
  BY <1>1
<1>4. rest[1] = IF 1 < i THEN s[1] ELSE s[1 + 1]
  BY <1>1, <1>3, Removed
<1> HIDE DEF rest
<1>5. 1 \in DOMAIN rest
  BY <1>2, <1>3
<1>6. rest[1] = s[IF i = 1 THEN 2 ELSE 1]
  BY <1>4
<1> QED BY <1>2, <1>5, <1>6 DEF rest

\* A report of the finger that is lifted from among others: what is left of the
\* two slots shows the other one, wherever its index has moved to.
LEMMA LiftIsTruthful ==
    ASSUME NEW ps \in Seq(Finger), Len(ps) > 1, NEW index \in Slots
    PROVE  /\ Truthful(Packed(Touch("pointerUp", index, ps)), RemoveAt(ps, index))
           /\ Len(ps) <= 2
                => Complete(Packed(Touch("pointerUp", index, ps)), RemoveAt(ps, index))
<1> DEFINE bits == Packed(Touch("pointerUp", index, ps))
           touched == {i \in Slots : Pressed(bits, i)}
           W == Written("pointerUp", index, ps)
           rest == RemoveAt(ps, index)
           n == Len(ps)
<1>1. n \in Nat /\ n > 1
  OBVIOUS
<1>2. W = {1, 2} /\ index \in {1, 2} /\ Slots = {1, 2}
  <2>1. 1..Reported(ps) = {1, 2} /\ Slots = {1, 2}
    BY ReportedTwo
  <2>2. W = {index} \cup 1..Reported(ps)
    BY DEF Written
  <2> QED BY <2>1, <2>2
<1>0. index \in 1..n
  BY <1>1, <1>2
<1>3. "pointerUp" \in Actions /\ \A i \in Slots : State("pointerUp", index, i) <=> i # index
  BY DEF Actions, State
<1>4. /\ \A i \in Slots : Pressed(bits, i) <=> i \in W /\ State("pointerUp", index, i)
      /\ \A i \in Slots : i \in W => Shows(bits, i, ps[i])
  BY <1>3, <1>0, ReportIsExact
<1> DEFINE other == IF index = 1 THEN 2 ELSE 1
<1>5. rest[1] = ps[other] /\ 1 \in DOMAIN rest /\ Len(rest) = n - 1
  BY <1>1, <1>2, OtherStays
<1> HIDE DEF bits, W, rest, n
<1>6. touched = {other} /\ other \in Slots
  BY <1>2, <1>3, <1>4
<1> HIDE DEF touched, other
<1>8. Shows(bits, other, rest[1])
  BY <1>2, <1>4, <1>5, <1>6
<1>9. \E finger \in [touched -> DOMAIN rest] :
         /\ \A i \in touched : Shows(bits, i, rest[finger[i]])
         /\ \A i, j \in touched : i # j => finger[i] # finger[j]
  <2> DEFINE finger == [i \in touched |-> 1]
  <2>1. finger \in [touched -> DOMAIN rest] /\ \A i \in touched : finger[i] = 1
    BY <1>5
  <2> HIDE DEF finger
  <2> QED BY <2>1, <1>6, <1>8
<1>10. n <= 2 => Cardinality(touched) = Len(rest)
  <2>1. Cardinality({other}) = 1
    BY FS_Singleton
  <2>2. n <= 2 => Len(rest) = 1
    BY <1>1, <1>5
  <2> QED BY <2>1, <2>2, <1>6
<1> QED BY <1>9, <1>10 DEF Truthful, Complete, touched, bits, rest, n

\* A report of the end of a gesture.
LEMMA EndIsTruthful ==
    ASSUME NEW action \in {"up", "cancel"}, NEW ps \in Seq(Finger), NEW index \in 1..Len(ps)
    PROVE  /\ Truthful(Packed(Touch(action, index, ps)), <<>>)
           /\ Complete(Packed(Touch(action, index, ps)), <<>>)
<1> DEFINE bits == Packed(Touch(action, index, ps))
           touched == {i \in Slots : Pressed(bits, i)}
<1>1. \A i \in Slots : ~Pressed(bits, i)
  <2>1. action \in Actions /\ \A i \in Slots : ~State(action, index, i)
    BY DEF Actions, State
  <2> QED BY <2>1, ReportIsExact
<1> HIDE DEF bits
<1>2. touched = {}
  BY <1>1
<1> HIDE DEF touched
<1>3. \E finger \in [touched -> DOMAIN <<>>] :
         /\ \A i \in touched : Shows(bits, i, <<>>[finger[i]])
         /\ \A i, j \in touched : i # j => finger[i] # finger[j]
  <2> DEFINE finger == [i \in touched |-> 1]
  <2>1. finger \in [touched -> DOMAIN <<>>]
    BY <1>2
  <2> HIDE DEF finger
  <2> QED BY <2>1, <1>2
<1>4. Cardinality(touched) = 0
  BY <1>2, FS_EmptySet
<1>5. Len(<<>>) = 0
  OBVIOUS
<1> QED BY <1>3, <1>4, <1>5 DEF Truthful, Complete, touched, bits

-----------------------------------------------------------------------------
(* The steps. *)

\* What every event does to types, and what is left to show for it.
LEMMA EventTyped ==
    ASSUME Typed, Event, NEW action \in Actions, NEW ps \in Seq(Finger),
           NEW index \in 1..Len(ps), Dispatch(action, index, ps),
           pointers' \in Seq(Finger), Ordered(pointers'),
           crowd' \in BOOLEAN, target' \in BOOLEAN
    PROVE  Typed'
<1>1. /\ flow' \in Seq(Longs) /\ Len(flow') <= Capacity /\ shown' \in Longs
      /\ missed' \in BOOLEAN /\ crashed' \in BOOLEAN
  BY Dispatched
<1>2. events' \in 0..MaxEvents /\ UNCHANGED <<bound, subscribed, calling, peer>>
  BY TouchAssumption DEF Event, Typed
<1>3. bound' \in BOOLEAN /\ subscribed' \in BOOLEAN
  BY <1>2 DEF Typed
<1>4. Ordered(pointers)'
  BY DEF Ordered
<1> QED BY <1>1, <1>2, <1>3, <1>4 DEF Typed, Longs

LEMMA OneIsOrdered == ASSUME NEW f PROVE Ordered(<<f>>) /\ Ordered(<<>>)
BY DEF Ordered

LEMMA DownKeeps ==
    ASSUME IInv, NEW id \in Fingers, NEW p \in Positions, Down(id, p)
    PROVE  IInv'
<1> DEFINE f == Pointer(id, p)
<1>1. f \in Finger
  BY PointerIsFinger
<1>2. /\ Event /\ pointers' = <<f>> /\ crowd' = FALSE /\ target' = bound
      /\ Dispatch("down", 1, <<f>>)
  BY DEF Down
<1> HIDE DEF f
<1>3. <<f>> \in Seq(Finger) /\ Len(<<f>>) = 1 /\ 1 \in 1..Len(<<f>>)
  BY <1>1
<1>4. "down" \in Actions /\ bound \in BOOLEAN
  BY DEF Actions, IInv, Typed
<1>5. Typed'
  BY <1>2, <1>3, <1>4, OneIsOrdered, EventTyped DEF IInv
<1>6. Gesture'
  BY <1>2, <1>3 DEF Gesture, Event
<1>7. ASSUME target', ~crashed' PROVE Truthful(shown', <<f>>) /\ Complete(shown', <<f>>)
  <2>1. shown' = Packed(Touch("down", 1, <<f>>))
    BY <1>2, <1>4, <1>7, Reports
  <2> DEFINE ps == <<f>>
  <2>2. ps \in Seq(Finger) /\ Len(ps) = 1 /\ 1 \in 1..Len(ps) /\ shown' = Packed(Touch("down", 1, ps))
    BY <1>3, <2>1
  <2> HIDE DEF ps
  <2>3. /\ Truthful(Packed(Touch("down", 1, ps)), ps)
        /\ Len(ps) <= 2 => Complete(Packed(Touch("down", 1, ps)), ps)
    BY <2>2, PresenceIsTruthful
  <2> QED BY <2>2, <2>3 DEF ps
<1>8. ReportsShowFingers'
  BY <1>2, <1>7 DEF ReportsShowFingers, Truthful, Complete
<1> QED BY <1>5, <1>6, <1>8 DEF IInv

LEMMA PointerDownKeeps ==
    ASSUME IInv, NEW id \in Fingers, NEW p \in Positions, NEW index \in 1..Len(pointers) + 1,
           PointerDown(id, p, index)
    PROVE  IInv'
<1> DEFINE ps == pointers'
<1>1. /\ Event /\ ps = InsertAt(pointers, index, Pointer(id, p)) /\ Ordered(ps)
      /\ crowd' = (crowd \/ Len(ps) > 2) /\ target' = target
      /\ Dispatch("pointerDown", index, ps)
  BY DEF PointerDown
<1>2. pointers \in Seq(Finger) /\ target \in BOOLEAN /\ crowd \in BOOLEAN
  BY DEF IInv, Typed
<1>3. ps \in Seq(Finger) /\ Len(ps) = Len(pointers) + 1
  BY <1>1, <1>2, PointerIsFinger, Inserted
<1>4. index \in 1..Len(ps) /\ "pointerDown" \in Actions /\ Len(ps) \in Nat
  BY <1>2, <1>3 DEF Actions
<1>5. crowd' \in BOOLEAN /\ target' \in BOOLEAN
  BY <1>1, <1>2
<1> HIDE DEF ps
<1>6. Typed'
  <2>1. Typed
    BY DEF IInv
  <2> QED BY <2>1, <1>1, <1>3, <1>4, <1>5, EventTyped DEF ps
<1>7. Len(ps) > 2 => crowd'
  BY <1>1, <1>2
<1>8. Gesture'
  BY <1>1, <1>4, <1>7 DEF Gesture, Event, IInv, ps
<1>9. ASSUME target', ~crashed' PROVE Truthful(shown', ps) /\ (~crowd' => Complete(shown', ps))
  <2>1. bound /\ target
    BY <1>1, <1>9 DEF IInv, Gesture
  <2>2. shown' = Packed(Touch("pointerDown", index, ps))
    BY <1>1, <1>4, <1>9, <2>1, Reports
  <2>3. Truthful(shown', ps) /\ (Len(ps) <= 2 => Complete(shown', ps))
    BY <2>2, <1>3, <1>4, PresenceIsTruthful
  <2> QED BY <2>3, <1>4, <1>7
<1>10. ReportsShowFingers'
  BY <1>9 DEF ps, ReportsShowFingers, Truthful, Complete
<1> QED BY <1>6, <1>8, <1>10 DEF IInv

LEMMA MoveKeeps ==
    ASSUME IInv, NEW to \in [DOMAIN pointers -> Positions], Move(to)
    PROVE  IInv'
<1> DEFINE ps == pointers'
<1>1. /\ Event /\ pointers # <<>>
      /\ ps = [i \in DOMAIN pointers |-> Pointer(pointers[i].id, to[i])]
      /\ crowd' = crowd /\ target' = target
      /\ Dispatch("move", 1, ps)
  BY DEF Move
<1>2. pointers \in Seq(Finger) /\ target \in BOOLEAN /\ crowd \in BOOLEAN /\ Ordered(pointers)
  BY DEF IInv, Typed
<1>3. DOMAIN pointers = 1..Len(pointers) /\ \A i \in DOMAIN pointers : pointers[i] \in Finger
  BY <1>2
<1>4. \A i \in DOMAIN pointers : Pointer(pointers[i].id, to[i]) \in Finger
  <2> TAKE i \in DOMAIN pointers
  <2>1. pointers[i].id \in Fingers
    BY <1>3 DEF Finger
  <2> QED BY <2>1, PointerIsFinger
<1>5. ps \in Seq(Finger) /\ Len(ps) = Len(pointers) /\ DOMAIN ps = DOMAIN pointers
  BY <1>1, <1>2, <1>3, <1>4
<1>6. \A i \in DOMAIN ps : ps[i].id = pointers[i].id
  BY <1>1, <1>5 DEF Pointer
<1> HIDE DEF ps
<1>7. Ordered(ps)
  BY <1>2, <1>5, <1>6 DEF Ordered
<1>8. 1 \in 1..Len(ps) /\ "move" \in Actions
  BY <1>1, <1>2, <1>5 DEF Actions
<1>9. Typed'
  <2>1. Typed
    BY DEF IInv
  <2> QED BY <2>1, <1>1, <1>2, <1>5, <1>7, <1>8, EventTyped DEF ps
<1>10. ~crowd' => Len(ps) <= 2
  BY <1>1, <1>5 DEF IInv, Gesture
<1>11. Gesture'
  BY <1>1, <1>10 DEF Gesture, Event, IInv, ps
<1>12. ASSUME target', ~crashed' PROVE Truthful(shown', ps) /\ (~crowd' => Complete(shown', ps))
  <2>1. bound /\ target
    BY <1>1, <1>12 DEF IInv, Gesture
  <2>2. shown' = Packed(Touch("move", 1, ps))
    BY <1>1, <1>8, <1>12, <2>1, Reports
  <2>3. Truthful(shown', ps) /\ (Len(ps) <= 2 => Complete(shown', ps))
    BY <2>2, <1>5, <1>8, PresenceIsTruthful
  <2> QED BY <2>3, <1>10
<1>13. ReportsShowFingers'
  BY <1>12 DEF ps, ReportsShowFingers, Truthful, Complete
<1> QED BY <1>9, <1>11, <1>13 DEF IInv

LEMMA PointerUpKeeps ==
    ASSUME IInv, NEW index \in DOMAIN pointers, PointerUp(index)
    PROVE  IInv'
<1> DEFINE rest == RemoveAt(pointers, index)
<1>1. /\ Event /\ Len(pointers) > 1 /\ pointers' = rest
      /\ crowd' = crowd /\ target' = target
      /\ Dispatch("pointerUp", index, pointers)
  BY DEF PointerUp
<1>2. pointers \in Seq(Finger) /\ target \in BOOLEAN /\ crowd \in BOOLEAN /\ Ordered(pointers)
      /\ Typed
  BY DEF IInv, Typed
<1>3. index \in 1..Len(pointers) /\ "pointerUp" \in Actions /\ DOMAIN pointers = 1..Len(pointers)
  BY <1>2 DEF Actions
<1>4. /\ rest \in Seq(Finger) /\ Len(rest) = Len(pointers) - 1
      /\ \A j \in 1..Len(pointers) - 1 :
            rest[j] = IF j < index THEN pointers[j] ELSE pointers[j + 1]
  BY <1>2, <1>3, Removed
<1> HIDE DEF rest
<1>5. Ordered(rest)
  <2> SUFFICES ASSUME NEW i \in DOMAIN rest, NEW j \in DOMAIN rest, i < j
               PROVE  rest[i].id < rest[j].id
    BY DEF Ordered
  <2>1. i \in 1..Len(pointers) - 1 /\ j \in 1..Len(pointers) - 1 /\ Len(pointers) \in Nat
    BY <1>2, <1>4
  <2> DEFINE a == IF i < index THEN i ELSE i + 1
             b == IF j < index THEN j ELSE j + 1
  <2>2. a \in DOMAIN pointers /\ b \in DOMAIN pointers /\ a < b
    BY <2>1, <1>3
  <2>3. rest[i] = pointers[a] /\ rest[j] = pointers[b]
    BY <2>1, <1>4
  <2> QED BY <2>2, <2>3, <1>2 DEF Ordered
<1>6. Typed'
  BY <1>1, <1>2, <1>3, <1>4, <1>5, EventTyped
<1>7. Gesture'
  <2>1. ~crowd => Len(pointers) <= 2
    BY DEF IInv, Gesture
  <2>2. Len(pointers) \in Nat
    BY <1>2
  <2>3. ~crowd => Len(rest) <= 2
    BY <2>1, <2>2, <1>4
  <2> QED BY <2>3, <1>1 DEF Gesture, Event, IInv
<1>8. ASSUME target', ~crashed' PROVE Truthful(shown', rest) /\ (~crowd' => Complete(shown', rest))
  <2>1. bound /\ target
    BY <1>1, <1>8 DEF IInv, Gesture
  <2>2. /\ shown' = Packed(Touch("pointerUp", index, pointers))
        /\ Written("pointerUp", index, pointers) \subseteq Slots
    BY <1>1, <1>3, <1>8, <2>1, Reports
  <2>3. index \in Slots
    BY <2>2 DEF Written
  <2>4. Truthful(shown', rest) /\ (Len(pointers) <= 2 => Complete(shown', rest))
    BY <2>2, <2>3, <1>1, <1>2, LiftIsTruthful DEF rest
  <2> QED BY <2>4, <1>1 DEF IInv, Gesture
<1>9. ReportsShowFingers'
  BY <1>1, <1>8 DEF ReportsShowFingers, Truthful, Complete
<1> QED BY <1>6, <1>7, <1>9 DEF IInv

LEMMA EndKeeps ==
    ASSUME IInv, NEW action \in {"up", "cancel"}, End(action)
    PROVE  IInv'
<1>1. /\ Event /\ pointers # <<>> /\ pointers' = <<>>
      /\ crowd' = crowd /\ target' = target
      /\ Dispatch(action, 1, pointers)
  <2>1. Len(<<>>) = 0
    OBVIOUS
  <2> QED BY <2>1 DEF End
<1>2. pointers \in Seq(Finger) /\ target \in BOOLEAN /\ crowd \in BOOLEAN /\ Typed
  BY DEF IInv, Typed
<1>3. 1 \in 1..Len(pointers) /\ action \in Actions /\ action # "down"
  BY <1>1, <1>2 DEF Actions
<1>4. <<>> \in Seq(Finger) /\ Len(<<>>) = 0
  OBVIOUS
<1>5. Typed'
  BY <1>1, <1>2, <1>3, <1>4, OneIsOrdered, EventTyped
<1>6. Gesture'
  BY <1>1, <1>4 DEF Gesture, Event, IInv
<1>7. ASSUME target', ~crashed' PROVE Truthful(shown', <<>>) /\ Complete(shown', <<>>)
  <2>1. bound /\ target
    BY <1>1, <1>7 DEF IInv, Gesture
  <2>2. shown' = Packed(Touch(action, 1, pointers))
    BY <1>1, <1>3, <1>7, <2>1, Reports
  <2> QED BY <2>2, <1>2, <1>3, EndIsTruthful
<1>8. ReportsShowFingers'
  BY <1>1, <1>7 DEF ReportsShowFingers, Truthful, Complete
<1> QED BY <1>5, <1>6, <1>8 DEF IInv

\* The steps of the services leave the fingers and the last report alone.
LEMMA OthersKeep ==
    ASSUME IInv, BindUiService \/ Subscribe \/ Collector \/ UNCHANGED vars
    PROVE  IInv'
<1>1. UNCHANGED <<pointers, events, crowd, target, crashed, shown>> /\ (bound' \/ bound' = bound)
  BY DEF BindUiService, Subscribe, Collector, Collect, CallReturns, vars
<1>2. /\ bound' \in BOOLEAN /\ subscribed' \in BOOLEAN /\ missed' \in BOOLEAN
      /\ flow' \in Seq(Longs) /\ Len(flow') <= Capacity /\ peer' \in Longs
      /\ calling' = None \/ calling' \in Longs
  <2>1. /\ bound \in BOOLEAN /\ subscribed \in BOOLEAN /\ missed \in BOOLEAN
        /\ flow \in Seq(Longs) /\ Len(flow) <= Capacity /\ peer \in Longs
        /\ calling = None \/ calling \in Longs
    BY DEF IInv, Typed, Longs
  <2>2. CASE BindUiService \/ Subscribe \/ UNCHANGED vars
    BY <2>1, <2>2 DEF BindUiService, Subscribe, vars
  <2>3. CASE Collect
    <3>1. flow # <<>> /\ calling' = Head(flow) /\ flow' = Tail(flow)
          /\ UNCHANGED <<bound, subscribed, missed, peer>>
      BY <2>3 DEF Collect
    <3>2. Head(flow) \in Longs /\ Tail(flow) \in Seq(Longs) /\ Len(Tail(flow)) = Len(flow) - 1
      BY <2>1, <3>1
    <3>3. Len(flow) \in Nat /\ Capacity \in Nat
      BY <2>1, TouchAssumption
    <3> QED BY <2>1, <3>1, <3>2, <3>3
  <2>4. CASE \E arrived \in BOOLEAN : CallReturns(arrived)
    BY <2>1, <2>4 DEF CallReturns
  <2> QED BY <2>2, <2>3, <2>4 DEF Collector
<1>3. Typed'
  <2>1. Ordered(pointers)'
    BY <1>1 DEF IInv, Typed, Ordered
  <2> QED BY <1>1, <1>2, <2>1 DEF IInv, Typed, Longs
<1>4. Gesture'
  BY <1>1 DEF IInv, Gesture
<1>5. ReportsShowFingers'
  BY <1>1 DEF IInv, ReportsShowFingers
<1> QED BY <1>3, <1>4, <1>5 DEF IInv

LEMMA InitTyped == Init => IInv
<1> SUFFICES ASSUME Init PROVE IInv
  OBVIOUS
<1>1. <<>> \in Seq(Finger) /\ <<>> \in Seq(Longs) /\ Len(<<>>) = 0
  OBVIOUS
<1>2. Typed
  <2>1. pointers \in Seq(Finger) /\ Ordered(pointers)
    BY <1>1, OneIsOrdered DEF Init
  <2>2. flow \in Seq(Longs) /\ Len(flow) <= Capacity
    BY <1>1, TouchAssumption DEF Init
  <2>3. events \in 0..MaxEvents
    BY TouchAssumption DEF Init
  <2>4. shown \in Longs /\ peer \in Longs
    BY DEF Init, Released, Longs
  <2>5. {crowd, bound, target, crashed, subscribed, missed} \subseteq BOOLEAN /\ calling = None
    BY DEF Init
  <2> QED BY <2>1, <2>2, <2>3, <2>4, <2>5 DEF Typed, Longs
<1> QED BY <1>1, <1>2 DEF Init, IInv, Gesture, ReportsShowFingers

LEMMA StepKeeps == IInv /\ [Next]_vars => IInv'
<1> SUFFICES ASSUME IInv, [Next]_vars PROVE IInv'
  OBVIOUS
<1>1. CASE Touches
  BY <1>1, DownKeeps, PointerDownKeeps, MoveKeeps, PointerUpKeeps, EndKeeps DEF Touches
<1>2. CASE BindUiService \/ Subscribe \/ Collector \/ UNCHANGED vars
  BY <1>2, OthersKeep
<1> QED BY <1>1, <1>2 DEF Next

LEMMA AlwaysInvariant == Spec => []IInv
BY InitTyped, StepKeeps, PTL DEF Spec

\* Whatever is not the lifting of one of several fingers stays within the arrays.
LEMMA OtherEventsAreSafe ==
    ASSUME NEW action \in Actions, action # "pointerUp", NEW ps \in Seq(Finger), Len(ps) > 0,
           NEW index, Dispatch(action, index, ps)
    PROVE  crashed' = crashed
<1>1. 1..Reported(ps) = (IF Len(ps) = 1 THEN {1} ELSE {1, 2}) /\ Slots = {1, 2}
  BY ReportedSlots
<1>2. 1..Reported(ps) \subseteq Slots /\ {1} \subseteq Slots
  BY <1>1
<1>3. Written(action, index, ps) \in {{1}, 1..Reported(ps)}
  BY DEF Written
<1>4. Written(action, index, ps) \subseteq Slots
  BY <1>2, <1>3
<1> QED BY <1>4 DEF Dispatch, Listener

-----------------------------------------------------------------------------
(* Theorems. *)

\* The types of TouchInput, for any fingers, positions, number of events and room in
\* the flow: among them that tryEmit never lets the flow outgrow its buffer, and that
\* a packed Long stays within its 64 bits whatever the coordinates are.
THEOREM TypeCorrect == Spec => []TypeOK
<1>1. IInv => TypeOK
  <2> SUFFICES ASSUME Typed PROVE TypeOK
    BY DEF IInv
  <2>1. Len(pointers) <= Cardinality(Fingers) /\ Ids(pointers) \subseteq Fingers
    BY FewFingers DEF Typed
  <2>2. \A i \in DOMAIN flow : flow[i] \subseteq 0..63
    <3>1. flow \in Seq(Longs)
      BY DEF Typed, Longs
    <3>2. \A i \in DOMAIN flow : flow[i] \in Longs
      BY <3>1
    <3> QED BY <3>2 DEF Longs
  <2> QED BY <2>1, <2>2 DEF Typed, TypeOK
<1> QED BY <1>1, AlwaysInvariant, PTL

\* What updateUiMotionEventChanged reports are fingers on the surface, for any number
\* of fingers, wherever they are and in whatever order they come and go: each pressed
\* slot shows another one, exactly if its coordinate fits, and all of them are shown
\* as long as no third finger was down.
THEOREM ReportsAreFingers == Spec => []ReportsShowFingers
<1>1. IInv => ReportsShowFingers
  BY DEF IInv
<1> QED BY <1>1, AlwaysInvariant, PTL

\* The touch listener leaves its arrays of two only when one of more than two fingers
\* is lifted: no other event of any gesture can bring it down.
THEOREM ListenerOnlyFailsOnLift == Spec => ListenerSurvives
<1>1. IInv /\ [Next]_vars => CrashNeedsThird
  <2> SUFFICES ASSUME IInv, [Next]_vars, crashed' # crashed PROVE ThirdFingerLifted
    BY DEF CrashNeedsThird
  <2>1. pointers \in Seq(Finger)
    BY DEF IInv, Typed
  <2>2. ASSUME NEW index \in DOMAIN pointers, PointerUp(index) PROVE ThirdFingerLifted
    <3>1. /\ Len(pointers) > 1 /\ pointers' = RemoveAt(pointers, index)
          /\ Dispatch("pointerUp", index, pointers)
      BY <2>2 DEF PointerUp
    <3>2. index \in 1..Len(pointers)
      BY <2>1
    <3>3. index \notin Slots
      <4>1. 1..Reported(pointers) = {1, 2} /\ Slots = {1, 2}
        BY <2>1, <3>1, ReportedTwo
      <4>2. ~(Written("pointerUp", index, pointers) \subseteq Slots)
        BY <3>1 DEF Dispatch, Listener
      <4> QED BY <4>1, <4>2 DEF Written
    <3>4. Len(pointers) > 2
      BY <2>1, <3>2, <3>3 DEF Slots
    <3>5. Len(pointers') = Len(pointers) - 1
      BY <2>1, <3>1, <3>2, Removed
    <3> QED BY <2>1, <3>4, <3>5 DEF ThirdFingerLifted
  <2>3. ASSUME NEW id \in Fingers, NEW p \in Positions, Down(id, p) PROVE FALSE
    <3> DEFINE ps == <<Pointer(id, p)>>
    <3>1. ps \in Seq(Finger) /\ Len(ps) = 1
      BY PointerIsFinger
    <3>2. Dispatch("down", 1, ps)
      BY <2>3 DEF Down
    <3> HIDE DEF ps
    <3>3. Len(ps) > 0 /\ "down" \in Actions
      BY <3>1 DEF Actions
    <3> QED BY <3>1, <3>2, <3>3, OtherEventsAreSafe
  <2>4. ASSUME NEW id \in Fingers, NEW p \in Positions, NEW index \in 1..Len(pointers) + 1,
               PointerDown(id, p, index)
        PROVE  FALSE
    <3> DEFINE ps == pointers'
    <3>1. ps \in Seq(Finger) /\ Len(ps) = Len(pointers) + 1
      BY <2>1, <2>4, PointerIsFinger, Inserted DEF PointerDown
    <3>2. Dispatch("pointerDown", index, ps)
      BY <2>4 DEF PointerDown
    <3> HIDE DEF ps
    <3>3. Len(ps) > 0 /\ "pointerDown" \in Actions
      BY <2>1, <3>1 DEF Actions
    <3> QED BY <3>1, <3>2, <3>3, OtherEventsAreSafe
  <2>5. ASSUME NEW to \in [DOMAIN pointers -> Positions], Move(to) PROVE FALSE
    <3> DEFINE ps == pointers'
    <3>1. IInv'
      BY <2>5, MoveKeeps
    <3>2. ps \in Seq(Finger) /\ Dispatch("move", 1, ps)
      BY <2>5, <3>1 DEF IInv, Typed, Move
    <3>3. DOMAIN ps = DOMAIN pointers /\ pointers # <<>>
      BY <2>5 DEF Move
    <3> HIDE DEF ps
    <3>4. Len(ps) > 0 /\ "move" \in Actions
      BY <2>1, <3>2, <3>3 DEF Actions
    <3> QED BY <3>2, <3>4, OtherEventsAreSafe
  <2>6. ASSUME NEW action \in {"up", "cancel"}, End(action) PROVE FALSE
    <3>1. Dispatch(action, 1, pointers) /\ Len(pointers) > 0
      BY <2>1, <2>6 DEF End
    <3>2. action \in Actions /\ action # "pointerUp"
      BY DEF Actions
    <3> QED BY <2>1, <3>1, <3>2, OtherEventsAreSafe
  <2>7. ASSUME BindUiService \/ Subscribe \/ Collector \/ UNCHANGED vars PROVE FALSE
    BY <2>7 DEF BindUiService, Subscribe, Collector, Collect, CallReturns, vars
  <2> QED BY <2>2, <2>3, <2>4, <2>5, <2>6, <2>7 DEF Next, Touches
<1> QED BY <1>1, AlwaysInvariant, PTL DEF Spec, ListenerSurvives
=============================================================================
