--------------------------- MODULE RpcMessages_proofs ---------------------------
(***************************************************************************)
(* Proofs about RpcMessages: for any values and any initial sizes, the two  *)
(* regions of a builder's block stay apart, what was pushed stays where the *)
(* offsets handed out say it is, a message reads back as it was built, and  *)
(* no accessor reads beyond bytes that were verified.                       *)
(*                                                                         *)
(* The argument follows a byte string from the push to the read.  Holds(v,  *)
(* o, bytes) says that a vector has the bytes at offset o, Keeps(v, w) that *)
(* w still holds all that v held, at the same distance from the end; every  *)
(* operation of the builder keeps what is there and says what it adds.      *)
(* TableSoFar, TableWith and MessageIn say what the block of a message has, *)
(* while fields are added, with the vtable, and with the root offset: those *)
(* are the inductive invariant.  MessageReads then evaluates the verifier   *)
(* and the accessors on it.  The reader alone, on any bytes, is the subject *)
(* of VerifiedReads.                                                        *)
(***************************************************************************)
EXTENDS RpcMessages, SequenceTheorems, TLAPS

\* Bytes to be stored.
IsBytes(s) == Len(s) \in Nat /\ \A i \in 1..Len(s) : s[i] \in Int

IsVector(v) ==
    /\ v \in [initial : Nat, reserved : Nat, size : Nat, scratch : Nat, mem : {v.mem}]
    /\ v.size + v.scratch <= v.reserved
    /\ v.mem \in [0..v.reserved - 1 -> Int]

Keeps(v, w) ==
    /\ w.size >= v.size
    /\ \A i \in 1..v.size : w.mem[w.reserved - i] = v.mem[v.reserved - i]

KeepsScratch(v, w) ==
    /\ w.scratch >= v.scratch
    /\ \A a \in 0..v.scratch - 1 : w.mem[a] = v.mem[a]

\* The bytes lie at an offset, or at an address of the scratch pad.
Holds(v, offset, bytes) ==
    /\ Len(bytes) <= offset /\ offset <= v.size
    /\ \A i \in 1..Len(bytes) : v.mem[v.reserved - (offset + 1 - i)] = bytes[i]

HoldsScratch(v, at, bytes) ==
    /\ 0 <= at /\ at + Len(bytes) <= v.scratch
    /\ \A i \in 1..Len(bytes) : v.mem[at + (i - 1)] = bytes[i]

\* What is kept by two operations is kept by both together.
LEMMA KeepsTransitive ==
    ASSUME NEW u, NEW v, NEW w, u.size \in Nat, v.size \in Nat, w.size \in Nat,
           Keeps(u, v), Keeps(v, w)
    PROVE  Keeps(u, w)
BY DEF Keeps

\* The same for the scratch pad.
LEMMA KeepsScratchTransitive ==
    ASSUME NEW u, NEW v, NEW w, u.scratch \in Nat, v.scratch \in Nat, w.scratch \in Nat,
           KeepsScratch(u, v), KeepsScratch(v, w)
    PROVE  KeepsScratch(u, w)
BY DEF KeepsScratch

\* What is kept can still be found.
LEMMA HoldsKept ==
    ASSUME NEW v, NEW w, v.size \in Nat, w.size \in Nat, Keeps(v, w),
           NEW offset \in Nat, NEW bytes, IsBytes(bytes), Holds(v, offset, bytes)
    PROVE  Holds(w, offset, bytes)
<1>1. ASSUME NEW i \in 1..Len(bytes)
      PROVE  w.mem[w.reserved - (offset + 1 - i)] = bytes[i]
  <2> DEFINE k == offset + 1 - i
  <2>1. k \in 1..v.size
    BY DEF Holds, IsBytes
  <2>2. v.mem[v.reserved - k] = bytes[i]
    BY DEF Holds
  <2> HIDE DEF k
  <2>3. w.mem[w.reserved - k] = v.mem[v.reserved - k]
    BY <2>1 DEF Keeps
  <2> QED  BY <2>2, <2>3 DEF k
<1>2. Len(bytes) <= offset /\ offset <= w.size
  BY DEF Holds, Keeps
<1> QED  BY <1>1, <1>2 DEF Holds

LEMMA HoldsScratchKept ==
    ASSUME NEW v, NEW w, v.scratch \in Nat, w.scratch \in Nat, KeepsScratch(v, w),
           NEW at \in Nat, NEW bytes, IsBytes(bytes), HoldsScratch(v, at, bytes)
    PROVE  HoldsScratch(w, at, bytes)
<1>1. ASSUME NEW i \in 1..Len(bytes)
      PROVE  w.mem[at + (i - 1)] = bytes[i]
  <2>1. at + (i - 1) \in 0..v.scratch - 1
    BY DEF HoldsScratch, IsBytes
  <2>2. v.mem[at + (i - 1)] = bytes[i]
    BY DEF HoldsScratch
  <2> QED  BY <2>1, <2>2 DEF KeepsScratch
<1>2. 0 <= at /\ at + Len(bytes) <= w.scratch
  BY DEF HoldsScratch, KeepsScratch, IsBytes
<1> QED  BY <1>1, <1>2 DEF HoldsScratch

-----------------------------------------------------------------------------
(* The vector. *)

LEMMA EmptyVector ==
    ASSUME NEW n \in Nat
    PROVE  IsVector(Empty(n)) /\ Empty(n).size = 0 /\ Empty(n).scratch = 0
<1>1. [i \in {} |-> Junk] \in [0..0 - 1 -> Int]
  OBVIOUS
<1> QED  BY <1>1 DEF IsVector, Empty

\* A larger block has room for the request beside both regions.
LEMMA GrownEnough ==
    ASSUME NEW v, IsVector(v), NEW len \in Nat
    PROVE  Grown(v, len) \in Nat /\ Grown(v, len) >= v.reserved + len
<1> DEFINE half == IF v.reserved > 0 THEN v.reserved \div 2 ELSE v.initial
           wanted == v.reserved + Larger(len, half)
<1>1. half \in Nat
  BY DEF IsVector
<1>2. wanted \in Nat /\ wanted >= v.reserved + len
  BY <1>1 DEF IsVector, Larger
<1>3. Grown(v, len) = ((wanted + 7) \div 8) * 8
  BY <1>2 DEF Grown, BufferMinAlign
<1> HIDE DEF wanted
<1>4. ((wanted + 7) \div 8) * 8 \in Nat /\ ((wanted + 7) \div 8) * 8 >= wanted
  BY <1>2
<1> QED  BY <1>2, <1>3, <1>4 DEF IsVector

\* memcpy_downward keeps both regions, each at its own end of the block.
LEMMA ReallocateKeeps ==
    ASSUME NEW v, IsVector(v), NEW len \in Nat
    PROVE  LET w == Reallocate(v, len)
           IN /\ IsVector(w) /\ Keeps(v, w) /\ KeepsScratch(v, w)
              /\ w.size = v.size /\ w.scratch = v.scratch
              /\ w.reserved >= v.reserved + len
<1> DEFINE g == Grown(v, len)
           m == CopyDownward(v, g)
           w == [v EXCEPT !.reserved = g, !.mem = m]
<1>1. g \in Nat /\ g >= v.reserved + len
  BY GrownEnough
<1>2. Reallocate(v, len) = w
  BY DEF Reallocate
<1> HIDE DEF g
<1>3. m \in [0..g - 1 -> Int]
  <2> SUFFICES ASSUME NEW i \in 0..g - 1
               PROVE  (IF i < v.scratch THEN v.mem[i]
                       ELSE IF i >= g - v.size THEN v.mem[i - (g - v.reserved)]
                       ELSE Junk) \in Int
    BY DEF CopyDownward
  <2>1. CASE i < v.scratch
    <3>1. i \in 0..v.reserved - 1
      BY <2>1 DEF IsVector
    <3> QED  BY <2>1, <3>1 DEF IsVector
  <2>2. CASE ~(i < v.scratch) /\ i >= g - v.size
    <3>1. i - (g - v.reserved) \in 0..v.reserved - 1
      BY <1>1, <2>2 DEF IsVector
    <3> QED  BY <2>2, <3>1 DEF IsVector
  <2>3. CASE ~(i < v.scratch) /\ ~(i >= g - v.size)
    BY <2>3 DEF Junk
  <2> QED  BY <2>1, <2>2, <2>3
<1>4. ASSUME NEW i \in 1..v.size
      PROVE  m[g - i] = v.mem[v.reserved - i]
  <2>1. g - i \in 0..g - 1 /\ ~(g - i < v.scratch) /\ g - i >= g - v.size
    BY <1>1 DEF IsVector
  <2>2. (g - i) - (g - v.reserved) = v.reserved - i
    BY <1>1 DEF IsVector
  <2> QED  BY <2>1, <2>2 DEF CopyDownward
<1>s. ASSUME NEW a \in 0..v.scratch - 1
      PROVE  m[a] = v.mem[a]
  <2>1. a \in 0..g - 1 /\ a < v.scratch
    BY <1>1 DEF IsVector
  <2> QED  BY <2>1 DEF CopyDownward
<1> HIDE DEF m
<1>5. w.reserved = g /\ w.mem = m /\ w.size = v.size /\ w.scratch = v.scratch
  BY DEF IsVector
<1>6. w \in [initial : Nat, reserved : Nat, size : Nat, scratch : Nat, mem : {w.mem}]
  BY <1>1 DEF IsVector
<1> HIDE DEF w
<1>7. IsVector(w)
  BY <1>1, <1>3, <1>5, <1>6 DEF IsVector
<1>8. Keeps(v, w)
  BY <1>4, <1>5 DEF Keeps, IsVector
<1>9. KeepsScratch(v, w)
  BY <1>s, <1>5 DEF KeepsScratch, IsVector
<1> QED  BY <1>1, <1>2, <1>5, <1>7, <1>8, <1>9

\* After ensure_space there is room, and nothing was lost.
LEMMA EnsureSpaceKeeps ==
    ASSUME NEW v, IsVector(v), NEW len \in Nat
    PROVE  LET w == EnsureSpace(v, len)
           IN /\ IsVector(w) /\ Keeps(v, w) /\ KeepsScratch(v, w)
              /\ w.size = v.size /\ w.scratch = v.scratch
              /\ w.size + w.scratch + len <= w.reserved
<1>1. CASE len > Unused(v)
  BY <1>1, ReallocateKeeps DEF EnsureSpace, IsVector
<1>2. CASE ~(len > Unused(v))
  BY <1>2 DEF EnsureSpace, IsVector, Unused, Keeps, KeepsScratch
<1> QED  BY <1>1, <1>2

\* make_space takes its bytes from the unused middle of the block.
LEMMA MakeSpaceKeeps ==
    ASSUME NEW v, IsVector(v), NEW len \in Nat
    PROVE  LET w == MakeSpace(v, len)
           IN /\ IsVector(w) /\ Keeps(v, w) /\ KeepsScratch(v, w)
              /\ w.size = v.size + len /\ w.scratch = v.scratch
<1>1. CASE len = 0
  BY <1>1 DEF MakeSpace, IsVector, Keeps, KeepsScratch
<1>2. CASE len # 0
  <2> DEFINE e == EnsureSpace(v, len)
             n == e.size + len
             w == [e EXCEPT !.size = n]
  <2>1. /\ IsVector(e) /\ Keeps(v, e) /\ KeepsScratch(v, e)
        /\ e.size = v.size /\ e.scratch = v.scratch
        /\ e.size + e.scratch + len <= e.reserved
    BY EnsureSpaceKeeps
  <2>2. MakeSpace(v, len) = w
    BY <1>2 DEF MakeSpace
  <2> HIDE DEF e
  <2>n. n \in Nat /\ n = v.size + len
    BY <2>1 DEF IsVector
  <2> HIDE DEF n
  <2>3. /\ w.reserved = e.reserved /\ w.mem = e.mem /\ w.size = n /\ w.scratch = e.scratch
        /\ w \in [initial : Nat, reserved : Nat, size : Nat, scratch : Nat, mem : {w.mem}]
    BY <2>1, <2>n DEF IsVector
  <2> HIDE DEF w
  <2>4. IsVector(w) /\ w.size = v.size + len /\ w.scratch = v.scratch
    BY <2>1, <2>3, <2>n DEF IsVector
  <2>5. Keeps(v, w) /\ KeepsScratch(v, w)
    BY <2>1, <2>3, <2>n DEF Keeps, KeepsScratch, IsVector
  <2> QED  BY <2>2, <2>4, <2>5
<1> QED  BY <1>1, <1>2

\* w is v with the bytes stored at an address.
Written(v, at, bytes, w) ==
    /\ IsVector(w)
    /\ w.size = v.size /\ w.scratch = v.scratch /\ w.reserved = v.reserved
    /\ \A a \in 0..v.reserved - 1 :
          a < at \/ a >= at + Len(bytes) => w.mem[a] = v.mem[a]
    /\ \A i \in 1..Len(bytes) :
          at + (i - 1) < v.reserved => w.mem[at + (i - 1)] = bytes[i]

\* A store changes the bytes of its range and no others.
LEMMA StoreWrites ==
    ASSUME NEW v, IsVector(v), NEW at \in Nat, NEW bytes, IsBytes(bytes)
    PROVE  Written(v, at, bytes, Store(v, at, bytes))
<1> DEFINE B(i) == IF at <= i /\ i < at + Len(bytes) THEN bytes[i - at + 1] ELSE v.mem[i]
           m == [i \in 0..v.reserved - 1 |-> B(i)]
           w == [v EXCEPT !.mem = m]
<1>0. DOMAIN v.mem = 0..v.reserved - 1
  BY DEF IsVector
<1>1. Store(v, at, bytes) = w
  BY <1>0 DEF Store
<1>2. ASSUME NEW i \in 0..v.reserved - 1
      PROVE  B(i) \in Int
  <2>1. CASE at <= i /\ i < at + Len(bytes)
    <3>1. i - at + 1 \in 1..Len(bytes)
      BY <2>1 DEF IsBytes
    <3> QED  BY <2>1, <3>1 DEF IsBytes
  <2>2. CASE ~(at <= i /\ i < at + Len(bytes))
    BY <2>2 DEF IsVector
  <2> QED  BY <2>1, <2>2
<1>3. m \in [0..v.reserved - 1 -> Int]
  <2> HIDE DEF B
  <2> QED  BY <1>2
<1>4. ASSUME NEW a \in 0..v.reserved - 1, a < at \/ a >= at + Len(bytes)
      PROVE  m[a] = v.mem[a]
  BY <1>4 DEF IsBytes
<1>5. ASSUME NEW i \in 1..Len(bytes), at + (i - 1) < v.reserved
      PROVE  m[at + (i - 1)] = bytes[i]
  <2> DEFINE a == at + (i - 1)
  <2>1. a \in 0..v.reserved - 1 /\ at <= a /\ a < at + Len(bytes) /\ a - at + 1 = i
    BY <1>5 DEF IsBytes, IsVector
  <2> HIDE DEF a
  <2>2. m[a] = bytes[a - at + 1]
    BY <2>1
  <2> QED  BY <2>1, <2>2 DEF a
<1> HIDE DEF m
<1>6. /\ w.reserved = v.reserved /\ w.mem = m /\ w.size = v.size /\ w.scratch = v.scratch
      /\ w \in [initial : Nat, reserved : Nat, size : Nat, scratch : Nat, mem : {w.mem}]
  BY DEF IsVector
<1> HIDE DEF w
<1>7. IsVector(w)
  BY <1>3, <1>6 DEF IsVector
<1> QED  BY <1>1, <1>4, <1>5, <1>6, <1>7 DEF Written

\* A push holds its bytes at the new size and keeps all that was there.
LEMMA PushKeeps ==
    ASSUME NEW v, IsVector(v), NEW bytes, IsBytes(bytes)
    PROVE  LET w == Push(v, bytes)
           IN /\ IsVector(w) /\ Keeps(v, w) /\ KeepsScratch(v, w)
              /\ w.size = v.size + Len(bytes) /\ w.scratch = v.scratch
              /\ Holds(w, w.size, bytes)
<1> DEFINE e == MakeSpace(v, Len(bytes))
           w == Store(e, Data(e), bytes)
<1>0. Len(bytes) \in Nat
  BY DEF IsBytes
<1>1. /\ IsVector(e) /\ Keeps(v, e) /\ KeepsScratch(v, e) /\ e.size = v.size + Len(bytes)
      /\ e.scratch = v.scratch
  BY <1>0, MakeSpaceKeeps
<1>2. Push(v, bytes) = w
  BY DEF Push
<1> HIDE DEF e
<1>3. Data(e) \in Nat /\ Data(e) = e.reserved - e.size
  BY <1>1 DEF Data, IsVector
<1>4. Written(e, Data(e), bytes, w)
  BY <1>1, <1>3, StoreWrites
<1> HIDE DEF w
<1>t. /\ e.reserved \in Nat /\ e.size \in Nat /\ e.scratch \in Nat /\ v.size \in Nat
      /\ v.scratch \in Nat /\ e.size + e.scratch <= e.reserved
      /\ w.reserved = e.reserved /\ w.size = e.size /\ w.scratch = e.scratch
  BY <1>1, <1>4 DEF IsVector, Written
<1>5. ASSUME NEW i \in 1..v.size
      PROVE  w.mem[w.reserved - i] = v.mem[v.reserved - i]
  <2>1. e.reserved - i \in 0..e.reserved - 1 /\ e.reserved - i >= Data(e) + Len(bytes)
    BY <1>0, <1>1, <1>3, <1>t
  <2>2. w.mem[e.reserved - i] = e.mem[e.reserved - i]
    BY <1>4, <2>1 DEF Written
  <2> QED  BY <1>1, <1>t, <2>2 DEF Keeps
<1>6. Keeps(v, w)
  BY <1>0, <1>1, <1>t, <1>5 DEF Keeps
<1>7. ASSUME NEW a \in 0..v.scratch - 1
      PROVE  w.mem[a] = v.mem[a]
  <2>1. a \in 0..e.reserved - 1 /\ a < Data(e)
    BY <1>1, <1>3, <1>t
  <2>2. w.mem[a] = e.mem[a]
    BY <1>4, <2>1 DEF Written
  <2> QED  BY <1>1, <2>2 DEF KeepsScratch
<1>8. KeepsScratch(v, w)
  BY <1>1, <1>t, <1>7 DEF KeepsScratch
<1>9. ASSUME NEW i \in 1..Len(bytes)
      PROVE  w.mem[w.reserved - (w.size + 1 - i)] = bytes[i]
  <2>1. Data(e) + (i - 1) < e.reserved /\ Data(e) + (i - 1) = w.reserved - (w.size + 1 - i)
    BY <1>0, <1>1, <1>3, <1>t
  <2>2. w.mem[Data(e) + (i - 1)] = bytes[i]
    BY <1>4, <2>1 DEF Written
  <2> QED  BY <2>1, <2>2
<1>10. Holds(w, w.size, bytes)
  BY <1>0, <1>1, <1>t, <1>9 DEF Holds
<1>11. IsVector(w)
  BY <1>4 DEF Written
<1> QED  BY <1>1, <1>2, <1>t, <1>6, <1>8, <1>10, <1>11

LEMMA ZerosBytes ==
    ASSUME NEW n \in Nat
    PROVE  Len(Zeros(n)) = n /\ IsBytes(Zeros(n)) /\ \A i \in 1..n : Zeros(n)[i] = 0
<1>1. Zeros(n) \in Seq({0})
  BY DEF Zeros
<1>2. Len(Zeros(n)) = n
  BY <1>1 DEF Zeros
<1>3. \A i \in 1..n : Zeros(n)[i] = 0
  BY DEF Zeros
<1> QED  BY <1>2, <1>3 DEF IsBytes

\* A push onto the scratch pad does the same at the other end.
LEMMA ScratchPushKeeps ==
    ASSUME NEW v, IsVector(v), NEW bytes, IsBytes(bytes)
    PROVE  LET w == ScratchPush(v, bytes)
           IN /\ IsVector(w) /\ Keeps(v, w) /\ KeepsScratch(v, w)
              /\ w.size = v.size /\ w.scratch = v.scratch + Len(bytes)
              /\ HoldsScratch(w, v.scratch, bytes)
<1> DEFINE e == EnsureSpace(v, Len(bytes))
           s == Store(e, e.scratch, bytes)
           n == s.scratch + Len(bytes)
           w == [s EXCEPT !.scratch = n]
<1>0. Len(bytes) \in Nat
  BY DEF IsBytes
<1>1. /\ IsVector(e) /\ Keeps(v, e) /\ KeepsScratch(v, e) /\ e.size = v.size
      /\ e.scratch = v.scratch /\ e.size + e.scratch + Len(bytes) <= e.reserved
  BY <1>0, EnsureSpaceKeeps
<1>2. ScratchPush(v, bytes) = w
  BY DEF ScratchPush
<1> HIDE DEF e
<1>3. e.scratch \in Nat
  BY <1>1 DEF IsVector
<1>4. Written(e, e.scratch, bytes, s)
  BY <1>1, <1>3, StoreWrites
<1> HIDE DEF s
<1>t. /\ e.reserved \in Nat /\ e.size \in Nat /\ v.size \in Nat /\ v.scratch \in Nat
      /\ s.reserved = e.reserved /\ s.size = e.size /\ s.scratch = e.scratch /\ IsVector(s)
  BY <1>1, <1>4 DEF IsVector, Written
<1>n. n \in Nat /\ n = v.scratch + Len(bytes)
  BY <1>0, <1>1, <1>t
<1> HIDE DEF n
<1>5. /\ w.reserved = s.reserved /\ w.mem = s.mem /\ w.size = s.size /\ w.scratch = n
      /\ w \in [initial : Nat, reserved : Nat, size : Nat, scratch : Nat, mem : {w.mem}]
  BY <1>n, <1>t DEF IsVector
<1> HIDE DEF w
<1>6. IsVector(w)
  <2>1. w.size + w.scratch <= w.reserved
    BY <1>0, <1>1, <1>5, <1>n, <1>t
  <2>2. w.mem \in [0..w.reserved - 1 -> Int]
    BY <1>5, <1>t DEF IsVector
  <2> QED  BY <1>5, <2>1, <2>2 DEF IsVector
<1>7. ASSUME NEW i \in 1..v.size
      PROVE  w.mem[w.reserved - i] = v.mem[v.reserved - i]
  <2>1. e.reserved - i \in 0..e.reserved - 1 /\ e.reserved - i >= e.scratch + Len(bytes)
    BY <1>0, <1>1, <1>3, <1>t
  <2>2. s.mem[e.reserved - i] = e.mem[e.reserved - i]
    BY <1>4, <2>1 DEF Written
  <2> QED  BY <1>1, <1>5, <1>t, <2>2 DEF Keeps
<1>8. Keeps(v, w)
  BY <1>1, <1>5, <1>t, <1>7 DEF Keeps
<1>9. ASSUME NEW a \in 0..v.scratch - 1
      PROVE  w.mem[a] = v.mem[a]
  <2>1. a \in 0..e.reserved - 1 /\ a < e.scratch
    BY <1>0, <1>1, <1>t
  <2>2. s.mem[a] = e.mem[a]
    BY <1>4, <2>1 DEF Written
  <2> QED  BY <1>1, <1>5, <2>2 DEF KeepsScratch
<1>10. KeepsScratch(v, w)
  BY <1>0, <1>5, <1>n, <1>t, <1>9 DEF KeepsScratch
<1>11. ASSUME NEW i \in 1..Len(bytes)
       PROVE  w.mem[v.scratch + (i - 1)] = bytes[i]
  <2>1. e.scratch + (i - 1) < e.reserved
    BY <1>0, <1>1, <1>3, <1>t
  <2>2. s.mem[e.scratch + (i - 1)] = bytes[i]
    BY <1>4, <2>1 DEF Written
  <2> QED  BY <1>1, <1>5, <2>2
<1>12. HoldsScratch(w, v.scratch, bytes)
  BY <1>0, <1>5, <1>n, <1>t, <1>11 DEF HoldsScratch
<1> QED  BY <1>1, <1>2, <1>5, <1>n, <1>t, <1>6, <1>8, <1>10, <1>12

\* Popping or clearing the scratch pad leaves the data alone.
LEMMA ScratchFreed ==
    ASSUME NEW v, IsVector(v)
    PROVE  /\ \A n \in 0..v.scratch :
                /\ IsVector(ScratchPop(v, n)) /\ Keeps(v, ScratchPop(v, n))
                /\ ScratchPop(v, n).size = v.size
                /\ ScratchPop(v, n).scratch = v.scratch - n
           /\ IsVector(ClearScratch(v)) /\ Keeps(v, ClearScratch(v))
           /\ ClearScratch(v).size = v.size /\ ClearScratch(v).scratch = 0
<1> DEFINE W(s) == [v EXCEPT !.scratch = s]
<1>1. ASSUME NEW s \in 0..v.scratch
      PROVE  IsVector(W(s)) /\ Keeps(v, W(s)) /\ W(s).size = v.size /\ W(s).scratch = s
  <2> DEFINE w == W(s)
  <2>1. /\ w.reserved = v.reserved /\ w.mem = v.mem /\ w.size = v.size /\ w.scratch = s
        /\ w \in [initial : Nat, reserved : Nat, size : Nat, scratch : Nat, mem : {w.mem}]
    BY DEF IsVector
  <2> HIDE DEF w
  <2>2. IsVector(w) /\ Keeps(v, w)
    BY <2>1 DEF IsVector, Keeps
  <2> QED  BY <2>1, <2>2 DEF w
<1>2. \A n \in 0..v.scratch : ScratchPop(v, n) = W(v.scratch - n)
  BY DEF ScratchPop
<1>3. ClearScratch(v) = W(0)
  BY DEF ClearScratch
<1> HIDE DEF W
<1>4. \A n \in 0..v.scratch : v.scratch - n \in 0..v.scratch
  BY DEF IsVector
<1>5. 0 \in 0..v.scratch
  BY DEF IsVector
<1> QED  BY <1>1, <1>2, <1>3, <1>4, <1>5

IsBuilder(b) ==
    /\ b \in [vec : {b.vec}, fields : Nat, maxVoffset : Nat, minAlign : {1, 4, 8}]
    /\ IsVector(b.vec)

\* One operation of the builder: it keeps what was pushed and leaves the fields
\* of the table alone.
Extends(b, c) ==
    /\ IsBuilder(c)
    /\ Keeps(b.vec, c.vec) /\ KeepsScratch(b.vec, c.vec)
    /\ c.vec.scratch = b.vec.scratch
    /\ c.fields = b.fields /\ c.maxVoffset = b.maxVoffset
    /\ c.minAlign >= b.minAlign

\* The types of a builder, one by one.
LEMMA BuilderTypes ==
    ASSUME NEW b, IsBuilder(b)
    PROVE  /\ b.vec.size \in Nat /\ b.vec.scratch \in Nat /\ b.vec.reserved \in Nat
           /\ b.fields \in Nat /\ b.maxVoffset \in Nat /\ b.minAlign \in {1, 4, 8}
           /\ IsVector(b.vec)
BY DEF IsBuilder, IsVector

LEMMA ExtendsTransitive ==
    ASSUME NEW b, NEW c, NEW d, IsBuilder(b), Extends(b, c), Extends(c, d)
    PROVE  Extends(b, d)
<1>0. IsBuilder(c) /\ IsBuilder(d)
  BY DEF Extends
<1>1. Keeps(b.vec, d.vec)
  BY <1>0, BuilderTypes, KeepsTransitive DEF Extends
<1>2. KeepsScratch(b.vec, d.vec)
  BY <1>0, BuilderTypes, KeepsScratchTransitive DEF Extends
<1>3. d.minAlign >= b.minAlign
  BY <1>0, BuilderTypes DEF Extends
<1> QED  BY <1>1, <1>2, <1>3 DEF Extends

LEMMA ExtendsReflexive ==
    ASSUME NEW b, IsBuilder(b)
    PROVE  Extends(b, b)
<1>1. b.vec.size >= b.vec.size /\ b.vec.scratch >= b.vec.scratch /\ b.minAlign >= b.minAlign
  BY BuilderTypes
<1> QED  BY <1>1 DEF Extends, Keeps, KeepsScratch

\* The lengths of the scalars that are stored.
LEMMA ScalarBytes ==
    ASSUME NEW n \in Int
    PROVE  /\ IsBytes(LE2(n)) /\ Len(LE2(n)) = 2
           /\ IsBytes(LE4(n)) /\ Len(LE4(n)) = 4
           /\ IsBytes(Signed4(n)) /\ Len(Signed4(n)) = 4
<1>1. ASSUME NEW m \in Int PROVE IsBytes(LE4(m)) /\ Len(LE4(m)) = 4
  <2>1. m % 256 \in Int /\ (m \div 256) % 256 \in Int /\ m \div 65536 \in Int
    OBVIOUS
  <2> QED  BY <2>1 DEF LE4, IsBytes
<1>2. IsBytes(LE2(n)) /\ Len(LE2(n)) = 2
  <2>1. n % 256 \in Int /\ n \div 256 \in Int
    OBVIOUS
  <2> QED  BY <2>1 DEF LE2, IsBytes
<1>3. IsBytes(Signed4(n)) /\ Len(Signed4(n)) = 4
  <2> DEFINE l == LE4(-(n + 1))
             f == [i \in 1..4 |-> 255 - l[i]]
  <2>0. -(n + 1) \in Int
    OBVIOUS
  <2>1. IsBytes(l) /\ Len(l) = 4
    BY <2>0, <1>1
  <2>2. \A i \in 1..4 : l[i] \in Int
    BY <2>1 DEF IsBytes
  <2> HIDE DEF l
  <2>3. f \in Seq(Int)
    BY <2>2
  <2>4. Len(f) = 4
    BY <2>3
  <2>5. IsBytes(f)
    BY <2>2, <2>4 DEF IsBytes
  <2>6. Signed4(n) = IF n >= 0 THEN LE4(n) ELSE f
    BY DEF Signed4, l
  <2> QED  BY <1>1, <2>4, <2>5, <2>6
<1> QED  BY <1>1, <1>2, <1>3

\* The eight bytes of a location, each of its parts at its place.
LEMMA FieldLocBytes ==
    ASSUME NEW n \in Int, NEW m \in Int
    PROVE  /\ IsBytes(FieldLoc(n, m)) /\ Len(FieldLoc(n, m)) = 8
           /\ \A i \in 1..4 : FieldLoc(n, m)[i] = LE4(n)[i]
           /\ \A i \in 1..2 : FieldLoc(n, m)[4 + i] = LE2(m)[i]
<1> DEFINE a == LE4(n)
           c == LE2(m)
           z == <<0, 0>>
<1>1. a \in Seq(Int) /\ Len(a) = 4
  <2>1. n % 256 \in Int /\ (n \div 256) % 256 \in Int /\ n \div 65536 \in Int
    OBVIOUS
  <2> QED  BY <2>1 DEF LE4
<1>2. c \in Seq(Int) /\ Len(c) = 2
  <2>1. m % 256 \in Int /\ m \div 256 \in Int
    OBVIOUS
  <2> QED  BY <2>1 DEF LE2
<1>3. z \in Seq(Int) /\ Len(z) = 2 /\ z[1] = 0 /\ z[2] = 0
  OBVIOUS
<1>4. FieldLoc(n, m) = (a \o c) \o z
  BY DEF FieldLoc
<1> HIDE DEF a, c, z
<1>5. a \o c \in Seq(Int) /\ Len(a \o c) = Len(a) + Len(c)
  BY <1>1, <1>2, ConcatProperties
<1>6. \A i \in 1..Len(a) + Len(c) :
        (a \o c)[i] = IF i <= Len(a) THEN a[i] ELSE c[i - Len(a)]
  BY <1>1, <1>2, ConcatProperties
<1> DEFINE d == a \o c
           t == d \o z
<1>d. d \in Seq(Int)
  BY <1>5
<1> HIDE DEF d
<1>7. /\ t \in Seq(Int) /\ Len(t) = Len(d) + Len(z)
      /\ \A i \in 1..Len(d) + Len(z) : t[i] = IF i <= Len(d) THEN d[i] ELSE z[i - Len(d)]
  BY <1>3, <1>d, ConcatProperties
<1> HIDE DEF t
<1>9. Len(d) = 6 /\ Len(t) = 8 /\ t \in Seq(Int)
  <2>1. Len(d) = Len(a) + Len(c)
    BY <1>5 DEF d
  <2> QED  BY <1>1, <1>2, <1>3, <1>7, <2>1
<1>10. \A i \in 1..6 : t[i] = d[i]
  BY <1>3, <1>7, <1>9
<1>11. \A i \in 1..6 : d[i] = IF i <= 4 THEN a[i] ELSE c[i - 4]
  <2>1. \A i \in 1..Len(a) + Len(c) : d[i] = IF i <= Len(a) THEN a[i] ELSE c[i - Len(a)]
    BY <1>6 DEF d
  <2> QED  BY <1>1, <1>2, <2>1
<1>12. FieldLoc(n, m) = t
  BY <1>4 DEF d, t
<1>13. \A i \in 1..4 : t[i] = a[i]
  BY <1>10, <1>11
<1>14. \A i \in 1..2 : t[4 + i] = c[i]
  <2> SUFFICES ASSUME NEW i \in 1..2 PROVE t[4 + i] = c[i]
    OBVIOUS
  <2>1. 4 + i \in 1..6 /\ ~(4 + i <= 4) /\ (4 + i) - 4 = i
    OBVIOUS
  <2>2. t[4 + i] = c[(4 + i) - 4]
    BY <1>10, <1>11, <2>1
  <2> QED  BY <2>1, <2>2
<1>15. IsBytes(t)
  <2>1. \A i \in 1..Len(t) : t[i] \in Int
    BY <1>9, ElementOfSeq
  <2> QED  BY <1>9, <2>1 DEF IsBytes
<1> QED  BY <1>9, <1>12, <1>13, <1>14, <1>15 DEF a, c

\* Padding makes a multiple of what is aligned to.
LEMMA PaddingAligns ==
    ASSUME NEW size \in Nat, NEW n \in {1, 4, 8}
    PROVE  /\ PaddingBytes(size, n) \in Nat
           /\ (size + PaddingBytes(size, n)) % n = 0
           /\ size % n = 0 => PaddingBytes(size, n) = 0
<1>1. CASE n = 1
  BY <1>1 DEF PaddingBytes
<1>2. CASE n = 4
  BY <1>2 DEF PaddingBytes
<1>3. CASE n = 8
  BY <1>3 DEF PaddingBytes
<1> QED  BY <1>1, <1>2, <1>3

\* What each operation of the builder adds, and that it keeps the rest.
LEMMA PushBytesExtends ==
    ASSUME NEW b, IsBuilder(b), NEW bytes, IsBytes(bytes)
    PROVE  LET c == PushBytes(b, bytes)
           IN /\ Extends(b, c) /\ c.minAlign = b.minAlign
              /\ c.vec.size = b.vec.size + Len(bytes)
              /\ Holds(c.vec, c.vec.size, bytes)
<1> DEFINE w == Push(b.vec, bytes)
           c == [b EXCEPT !.vec = w]
<1>1. /\ IsVector(w) /\ Keeps(b.vec, w) /\ KeepsScratch(b.vec, w)
      /\ w.size = b.vec.size + Len(bytes)
      /\ w.scratch = b.vec.scratch /\ Holds(w, w.size, bytes)
  BY PushKeeps DEF IsBuilder
<1>2. PushBytes(b, bytes) = c
  BY DEF PushBytes
<1> HIDE DEF w
<1>3. /\ c.vec = w /\ c.fields = b.fields /\ c.maxVoffset = b.maxVoffset
      /\ c.minAlign = b.minAlign
      /\ c \in [vec : {c.vec}, fields : Nat, maxVoffset : Nat, minAlign : {1, 4, 8}]
  BY DEF IsBuilder
<1> HIDE DEF c
<1>4. c.minAlign >= b.minAlign
  BY <1>3, BuilderTypes
<1> QED  BY <1>1, <1>2, <1>3, <1>4 DEF Extends, IsBuilder

LEMMA PadExtends ==
    ASSUME NEW b, IsBuilder(b), NEW n \in Nat
    PROVE  LET c == Pad(b, n)
           IN /\ Extends(b, c) /\ c.minAlign = b.minAlign
              /\ c.vec.size = b.vec.size + n
              /\ Holds(c.vec, c.vec.size, Zeros(n))
<1>1. Pad(b, n) = PushBytes(b, Zeros(n))
  BY DEF Pad, PushBytes, Fill
<1>2. Len(Zeros(n)) = n /\ IsBytes(Zeros(n))
  BY ZerosBytes
<1> QED  BY <1>1, <1>2, PushBytesExtends

LEMMA TrackMinAlignExtends ==
    ASSUME NEW b, IsBuilder(b), NEW n \in {1, 4, 8}
    PROVE  LET c == TrackMinAlign(b, n)
           IN Extends(b, c) /\ c.vec = b.vec /\ c.minAlign >= n
<1> DEFINE m == Larger(b.minAlign, n)
           c == [b EXCEPT !.minAlign = m]
<1>1. m \in {1, 4, 8} /\ m >= n /\ m >= b.minAlign
  BY BuilderTypes DEF Larger
<1>2. TrackMinAlign(b, n) = c
  BY DEF TrackMinAlign
<1> HIDE DEF m
<1>3. /\ c.vec = b.vec /\ c.fields = b.fields /\ c.maxVoffset = b.maxVoffset
      /\ c.minAlign = m
      /\ c \in [vec : {c.vec}, fields : Nat, maxVoffset : Nat, minAlign : {1, 4, 8}]
  BY <1>1 DEF IsBuilder
<1> HIDE DEF c
<1>4. Keeps(b.vec, c.vec) /\ KeepsScratch(b.vec, c.vec)
  BY <1>3, ExtendsReflexive DEF Extends
<1> QED  BY <1>1, <1>2, <1>3, <1>4 DEF Extends, IsBuilder

LEMMA AlignExtends ==
    ASSUME NEW b, IsBuilder(b), NEW n \in {1, 4, 8}
    PROVE  LET a == Align(b, n)
           IN /\ Extends(b, a) /\ a.minAlign >= n
              /\ a.vec.size % n = 0
              /\ b.vec.size % n = 0 => a.vec.size = b.vec.size
<1> DEFINE c == TrackMinAlign(b, n)
           p == PaddingBytes(Size(b), n)
           a == Pad(c, p)
<1>0. b.vec.size \in Nat
  BY BuilderTypes
<1>1. Extends(b, c) /\ c.vec = b.vec /\ c.minAlign >= n
  BY TrackMinAlignExtends
<1>2. p \in Nat /\ (b.vec.size + p) % n = 0 /\ (b.vec.size % n = 0 => p = 0)
  BY <1>0, PaddingAligns DEF Size
<1>3. Align(b, n) = a
  BY DEF Align
<1> HIDE DEF c, p
<1>4. Extends(c, a) /\ a.minAlign = c.minAlign /\ a.vec.size = b.vec.size + p
  BY <1>1, <1>2, PadExtends DEF Extends
<1> HIDE DEF a
<1>5. Extends(b, a)
  BY <1>1, <1>4, ExtendsTransitive
<1>6. b.vec.size % n = 0 => a.vec.size = b.vec.size
  BY <1>0, <1>2, <1>4
<1> QED  BY <1>1, <1>2, <1>3, <1>4, <1>5, <1>6

LEMMA PreAlignExtends ==
    ASSUME NEW b, IsBuilder(b), NEW len \in Nat, NEW n \in {1, 4, 8}
    PROVE  LET a == PreAlign(b, len, n)
           IN /\ Extends(b, a)
              /\ len # 0 => (a.vec.size + len) % n = 0 /\ a.minAlign >= n
<1>1. CASE len = 0
  BY <1>1, ExtendsReflexive DEF PreAlign
<1>2. CASE len # 0
  <2> DEFINE c == TrackMinAlign(b, n)
             s == Size(b) + len
             p == PaddingBytes(s, n)
             a == Pad(c, p)
  <2>1. Extends(b, c) /\ c.vec = b.vec /\ c.minAlign >= n
    BY TrackMinAlignExtends
  <2>s. s \in Nat /\ s = b.vec.size + len
    BY BuilderTypes DEF Size
  <2>3. PreAlign(b, len, n) = a
    BY <1>2 DEF PreAlign
  <2> HIDE DEF c, s
  <2>2. p \in Nat /\ (s + p) % n = 0
    BY <2>s, PaddingAligns
  <2> HIDE DEF p
  <2>4. Extends(c, a) /\ a.minAlign = c.minAlign /\ a.vec.size = b.vec.size + p
    BY <2>1, <2>2, PadExtends DEF Extends
  <2> HIDE DEF a
  <2>5. Extends(b, a)
    BY <2>1, <2>4, ExtendsTransitive
  <2>6. a.vec.size + len = s + p
    BY <2>2, <2>4, <2>s, BuilderTypes
  <2> QED  BY <2>1, <2>2, <2>3, <2>4, <2>5, <2>6
<1> QED  BY <1>1, <1>2

\* A scalar is aligned on its own size: offsets count from the aligned end.
LEMMA PushElementExtends ==
    ASSUME NEW b, IsBuilder(b), NEW bytes, IsBytes(bytes), Len(bytes) \in {1, 4, 8}
    PROVE  LET c == PushElement(b, bytes)
           IN /\ Extends(b, c) /\ c.minAlign >= Len(bytes)
              /\ c.vec.size >= b.vec.size + Len(bytes)
              /\ c.vec.size % Len(bytes) = 0
              /\ b.vec.size % Len(bytes) = 0 => c.vec.size = b.vec.size + Len(bytes)
              /\ Holds(c.vec, c.vec.size, bytes)
<1> DEFINE n == Len(bytes)
           a == Align(b, n)
           c == PushBytes(a, bytes)
<1>n. n \in {1, 4, 8}
  OBVIOUS
<1>2. PushElement(b, bytes) = c
  BY DEF PushElement
<1> HIDE DEF n
<1>1. /\ Extends(b, a) /\ a.minAlign >= n /\ a.vec.size % n = 0
      /\ b.vec.size % n = 0 => a.vec.size = b.vec.size
  BY <1>n, AlignExtends
<1> HIDE DEF a
<1>3. /\ Extends(a, c) /\ c.minAlign = a.minAlign /\ c.vec.size = a.vec.size + n
      /\ Holds(c.vec, c.vec.size, bytes)
  BY <1>1, PushBytesExtends DEF Extends, n
<1> HIDE DEF c
<1>4. a.vec.size >= b.vec.size /\ a.vec.size \in Nat /\ b.vec.size \in Nat
  BY <1>1, BuilderTypes DEF Extends, Keeps
<1>5. c.vec.size >= b.vec.size + n
  BY <1>n, <1>3, <1>4
<1>6. c.vec.size % n = 0
  <2>1. CASE n = 1
    BY <1>1, <1>3, <1>4, <2>1
  <2>2. CASE n = 4
    BY <1>1, <1>3, <1>4, <2>2
  <2>3. CASE n = 8
    BY <1>1, <1>3, <1>4, <2>3
  <2> QED  BY <1>n, <2>1, <2>2, <2>3
<1>7. Extends(b, c)
  BY <1>1, <1>3, ExtendsTransitive
<1> QED  BY <1>1, <1>2, <1>3, <1>5, <1>6, <1>7 DEF n

\* A string or vector as a reader finds it at its offset: its length, then its
\* bytes; a string is followed by a zero.
ReferenceAt(v, offset, bytes) ==
    /\ offset \in Nat /\ offset >= 4 + Len(bytes) /\ offset % 4 = 0
    /\ Holds(v, offset, LE4(Len(bytes)))
    /\ Holds(v, offset - 4, bytes)

TerminatedAt(v, offset, bytes) ==
    offset - 4 - Len(bytes) \in Nat /\ Holds(v, offset - 4 - Len(bytes), <<0>>)

\* A string or vector stays readable at the offset handed out for it.
LEMMA ReferenceKept ==
    ASSUME NEW v, NEW w, v.size \in Nat, w.size \in Nat, Keeps(v, w),
           NEW offset, NEW bytes, IsBytes(bytes)
    PROVE  /\ ReferenceAt(v, offset, bytes) => ReferenceAt(w, offset, bytes)
           /\ TerminatedAt(v, offset, bytes) => TerminatedAt(w, offset, bytes)
<1>1. ASSUME ReferenceAt(v, offset, bytes)
      PROVE  ReferenceAt(w, offset, bytes)
  <2>1. Len(bytes) \in Nat /\ Len(bytes) \in Int /\ offset \in Nat /\ offset - 4 \in Nat
    BY <1>1 DEF ReferenceAt, IsBytes
  <2>2. IsBytes(LE4(Len(bytes)))
    BY <2>1, ScalarBytes
  <2>3. Holds(w, offset, LE4(Len(bytes)))
    BY <1>1, <2>1, <2>2, HoldsKept DEF ReferenceAt
  <2>4. Holds(w, offset - 4, bytes)
    BY <1>1, <2>1, HoldsKept DEF ReferenceAt
  <2> QED  BY <1>1, <2>3, <2>4 DEF ReferenceAt
<1>2. ASSUME TerminatedAt(v, offset, bytes)
      PROVE  TerminatedAt(w, offset, bytes)
  <2>1. IsBytes(<<0>>)
    BY DEF IsBytes
  <2>2. offset - 4 - Len(bytes) \in Nat /\ Holds(v, offset - 4 - Len(bytes), <<0>>)
    BY <1>2 DEF TerminatedAt
  <2>3. Holds(w, offset - 4 - Len(bytes), <<0>>)
    BY <2>1, <2>2, HoldsKept
  <2> QED  BY <2>2, <2>3 DEF TerminatedAt
<1> QED  BY <1>1, <1>2

\* A created string has its length, its bytes and its terminator in place.
LEMMA CreateStringExtends ==
    ASSUME NEW b, IsBuilder(b), NEW str, IsBytes(str)
    PROVE  LET f == CreateString(b, str)
           IN /\ Extends(b, f) /\ f.minAlign >= 4
              /\ ReferenceAt(f.vec, f.vec.size, str)
              /\ TerminatedAt(f.vec, f.vec.size, str)
<1> DEFINE len == Len(str)
           c == PreAlign(b, len + 1, 4)
           d == Pad(c, 1)
           e == PushBytes(d, str)
           f == PushElement(e, LE4(len))
<1>0. len \in Nat /\ len \in Int /\ len + 1 \in Nat /\ len + 1 # 0
  BY DEF IsBytes
<1>l. IsBytes(LE4(len)) /\ Len(LE4(len)) = 4
  BY <1>0, ScalarBytes
<1>1. Extends(b, c) /\ (c.vec.size + (len + 1)) % 4 = 0 /\ c.minAlign >= 4
  BY <1>0, PreAlignExtends
<1>2. CreateString(b, str) = f
  BY DEF CreateString
<1> HIDE DEF c
<1>c. IsBuilder(c)
  BY <1>1 DEF Extends
<1>3. /\ Extends(c, d) /\ d.vec.size = c.vec.size + 1
      /\ Holds(d.vec, d.vec.size, Zeros(1))
  BY <1>c, PadExtends
<1> HIDE DEF d
<1>d. IsBuilder(d)
  BY <1>3 DEF Extends
<1>4. /\ Extends(d, e) /\ e.vec.size = d.vec.size + len /\ Holds(e.vec, e.vec.size, str)
  BY <1>d, PushBytesExtends
<1> HIDE DEF e
<1>e. IsBuilder(e)
  BY <1>4 DEF Extends
<1> HIDE DEF len
<1>t. c.vec.size \in Nat /\ d.vec.size \in Nat /\ e.vec.size \in Nat
  BY <1>c, <1>d, <1>e, BuilderTypes
<1>s. /\ c.vec.size \in Nat /\ d.vec.size \in Nat /\ e.vec.size \in Nat
      /\ e.vec.size = c.vec.size + (len + 1) /\ e.vec.size % 4 = 0
  <2>1. e.vec.size = c.vec.size + (len + 1)
    BY <1>0, <1>3, <1>4, <1>t
  <2> QED  BY <1>1, <1>t, <2>1
<1>5. /\ Extends(e, f) /\ f.vec.size = e.vec.size + 4
      /\ Holds(f.vec, f.vec.size, LE4(len))
  BY <1>e, <1>s, <1>l, PushElementExtends
<1> HIDE DEF f
<1>f. IsBuilder(f) /\ f.vec.size \in Nat /\ f.vec.size - 4 = e.vec.size
  BY <1>5, <1>s, BuilderTypes DEF Extends
<1>6. Extends(b, d)
  BY <1>1, <1>3, ExtendsTransitive
<1>7. Extends(b, e)
  BY <1>4, <1>6, ExtendsTransitive
<1>8. Extends(b, f)
  BY <1>5, <1>7, ExtendsTransitive
<1>9. f.minAlign >= 4
  BY <1>1, <1>3, <1>4, <1>5, <1>c, <1>d, <1>e, <1>f, BuilderTypes DEF Extends
<1>10. ReferenceAt(f.vec, f.vec.size, str)
  <2>1. Keeps(e.vec, f.vec)
    BY <1>5 DEF Extends
  <2>2. Holds(f.vec, e.vec.size, str)
    BY <1>4, <1>f, <1>s, <2>1, HoldsKept
  <2>3. f.vec.size >= 4 + len /\ f.vec.size % 4 = 0
    BY <1>0, <1>5, <1>s
  <2> QED  BY <1>5, <1>f, <2>2, <2>3 DEF ReferenceAt, len
<1>11. TerminatedAt(f.vec, f.vec.size, str)
  <2>1. Extends(d, f)
    BY <1>d, <1>4, <1>5, ExtendsTransitive
  <2>2. Zeros(1) = <<0>>
    <3>1. Zeros(1) \in Seq({0}) /\ Len(Zeros(1)) = 1
      BY ZerosBytes DEF Zeros
    <3>2. <<0>> \in Seq({0}) /\ Len(<<0>>) = 1
      OBVIOUS
    <3>3. Zeros(1)[1] = 0 /\ <<0>>[1] = 0
      BY ZerosBytes
    <3> QED  BY <3>1, <3>2, <3>3, SeqEqual
  <2>3. IsBytes(<<0>>)
    BY DEF IsBytes
  <2>4. Holds(d.vec, d.vec.size, <<0>>)
    BY <1>3, <2>2
  <2>5. Holds(f.vec, d.vec.size, <<0>>)
    BY <1>f, <1>s, <2>1, <2>3, <2>4, HoldsKept DEF Extends
  <2>6. f.vec.size - 4 - len = d.vec.size
    BY <1>0, <1>3, <1>f, <1>s
  <2> QED  BY <1>s, <2>5, <2>6 DEF TerminatedAt, len
<1> QED  BY <1>2, <1>8, <1>9, <1>10, <1>11

\* A created vector has its length and its bytes in place.
LEMMA CreateVectorExtends ==
    ASSUME NEW b, IsBuilder(b), NEW bytes, IsBytes(bytes)
    PROVE  LET f == CreateVector(b, bytes)
           IN /\ Extends(b, f) /\ f.minAlign >= 4
              /\ ReferenceAt(f.vec, f.vec.size, bytes)
<1> DEFINE len == Len(bytes)
           c == PreAlign(b, len, 4)
           d == PushBytes(c, bytes)
           f == PushElement(d, LE4(len))
<1>0. len \in Nat /\ len \in Int
  BY DEF IsBytes
<1>l. IsBytes(LE4(len)) /\ Len(LE4(len)) = 4
  BY <1>0, ScalarBytes
<1>1. Extends(b, c) /\ (len # 0 => (c.vec.size + len) % 4 = 0)
  BY <1>0, PreAlignExtends
<1>2. CreateVector(b, bytes) = f
  BY DEF CreateVector
<1> HIDE DEF c
<1>c. IsBuilder(c)
  BY <1>1 DEF Extends
<1>3. Extends(c, d) /\ d.vec.size = c.vec.size + len /\ Holds(d.vec, d.vec.size, bytes)
  BY <1>c, PushBytesExtends
<1> HIDE DEF d
<1>d. IsBuilder(d) /\ d.vec.size \in Nat /\ c.vec.size \in Nat
  BY <1>c, <1>3, BuilderTypes DEF Extends
<1> HIDE DEF len
<1>4. /\ Extends(d, f) /\ f.minAlign >= 4 /\ f.vec.size >= d.vec.size + 4
      /\ f.vec.size % 4 = 0 /\ (d.vec.size % 4 = 0 => f.vec.size = d.vec.size + 4)
      /\ Holds(f.vec, f.vec.size, LE4(len))
  BY <1>d, <1>l, PushElementExtends
<1> HIDE DEF f
<1>f. IsBuilder(f) /\ f.vec.size \in Nat
  BY <1>4, BuilderTypes DEF Extends
<1>5. Extends(b, d)
  BY <1>1, <1>3, ExtendsTransitive
<1>6. Extends(b, f)
  BY <1>4, <1>5, ExtendsTransitive
<1>7. Holds(f.vec, f.vec.size - 4, bytes)
  <2>1. CASE len = 0
    <3>1. 0 <= f.vec.size - 4 /\ f.vec.size - 4 <= f.vec.size
      BY <1>4, <1>d, <1>f
    <3>2. Len(bytes) = 0 /\ \A i \in 1..Len(bytes) : FALSE
      BY <2>1 DEF len
    <3> QED  BY <3>1, <3>2 DEF Holds
  <2>2. CASE len # 0
    <3>1. d.vec.size % 4 = 0
      BY <1>0, <1>1, <1>3, <1>d, <2>2
    <3>2. f.vec.size - 4 = d.vec.size
      BY <1>4, <1>d, <3>1
    <3> QED  BY <1>3, <1>4, <1>d, <1>f, <3>2, HoldsKept DEF Extends
  <2> QED  BY <2>1, <2>2
<1>8. f.vec.size >= 4 + len
  BY <1>0, <1>3, <1>4, <1>d, <1>f
<1>9. ReferenceAt(f.vec, f.vec.size, bytes)
  BY <1>4, <1>f, <1>7, <1>8 DEF ReferenceAt, len
<1> QED  BY <1>2, <1>4, <1>6, <1>9

-----------------------------------------------------------------------------
(* The reader, on any bytes. *)

\* Reads are integers, whatever the bytes.
LEMMA ReadsAreInts ==
    ASSUME NEW s, IsBytes(s), NEW i \in Int
    PROVE  /\ At(s, i) \in Int /\ U2(s, i) \in Int /\ I4(s, i) \in Int
<1>1. \A j \in Int : At(s, j) \in Int
  <2> SUFFICES ASSUME NEW j \in Int PROVE At(s, j) \in Int
    OBVIOUS
  <2>1. CASE 0 <= j /\ j < Len(s)
    <3>1. j + 1 \in 1..Len(s)
      BY <2>1 DEF IsBytes
    <3> QED  BY <2>1, <3>1 DEF At, IsBytes
  <2>2. CASE ~(0 <= j /\ j < Len(s))
    BY <2>2 DEF At
  <2> QED  BY <2>1, <2>2
<1>2. At(s, i) \in Int /\ At(s, i + 1) \in Int /\ At(s, i + 2) \in Int /\ At(s, i + 3) \in Int
  BY <1>1
<1> HIDE DEF At
<1>3. U2(s, i) \in Int
  BY <1>2 DEF U2
<1>4. I4(s, i) \in Int
  BY <1>2 DEF I4
<1> QED  BY <1>2, <1>3, <1>4

\* A field of a schema, as far as the verifier depends on it.
IsField(f) ==
    /\ f.vt \in {4, 6, 8, 10, 12}
    /\ f.type \in {"int8", "int32", "int64", "string", "bytes"}

\* A range of bytes that lies within the buffer.
Within(s, at, n) == 0 <= at /\ 0 <= n /\ at + n <= Len(s)

LEMMA InRangeIsWithin ==
    ASSUME NEW s, IsBytes(s), NEW at \in Int, NEW n \in Int, n >= 0, InRange(s, at, n)
    PROVE  Within(s, at, n)
BY DEF InRange, Within, IsBytes

\* A vtable of even length that is larger than an even position has both bytes
\* of the entry there: checking its parity is what this needs.
LEMMA EntryWithin ==
    ASSUME NEW s, IsBytes(s), NEW table \in Int, TableStart(s, table),
           NEW vt \in {4, 6, 8, 10, 12}, vt < U2(s, VTableOf(s, table))
    PROVE  Within(s, VTableOf(s, table) + vt, 2)
<1> DEFINE v == VTableOf(s, table)
           n == U2(s, v)
<1>1. v \in Int
  BY ReadsAreInts DEF VTableOf
<1> HIDE DEF v
<1>2. n \in Int
  BY <1>1, ReadsAreInts
<1>3. n % 2 = 0 /\ InRange(s, v, n)
  BY DEF TableStart, v
<1>4. vt < n
  BY DEF v
<1> HIDE DEF n
<1>5. vt + 2 <= n
  BY <1>2, <1>3, <1>4
<1> QED  BY <1>1, <1>2, <1>3, <1>5 DEF InRange, Within, IsBytes, v

\* The bytes the accessor of one field reads lie within a verified buffer.
FieldAccesses(s, f) ==
    LET table == Root(s)
        vtable == VTableOf(s, table)
        off == FieldOffset(s, table, f.vt)
        at == Target(s, table, f.vt)
    IN {<<vtable, 2>>}
       \cup (IF f.vt < U2(s, vtable) THEN {<<vtable + f.vt, 2>>} ELSE {})
       \cup (IF off = 0 THEN {}
             ELSE IF IsReference(f)
             THEN {<<table + off, 4>>, <<at, 4>>, <<at + 4, I4(s, at)>>}
                  \cup (IF f.type = "string" THEN {<<at + 4 + I4(s, at), 1>>} ELSE {})
             ELSE {<<table + off, Width(f)>>})

\* All that the accessor of a verified field reads is within the buffer.
LEMMA FieldReadsWithin ==
    ASSUME NEW s, IsBytes(s), TableStart(s, Root(s)),
           NEW f, IsField(f), FieldVerified(s, Root(s), f),
           NEW a \in FieldAccesses(s, f)
    PROVE  Within(s, a[1], a[2])
<1> DEFINE table == Root(s)
           v == VTableOf(s, table)
           off == FieldOffset(s, table, f.vt)
           at == Target(s, table, f.vt)
           n == I4(s, at)
<1>1. table \in Int
  BY ReadsAreInts DEF Root
<1> HIDE DEF table
<1>2. v \in Int
  BY <1>1, ReadsAreInts DEF VTableOf
<1> HIDE DEF v
<1>t. f.vt \in Int /\ v + f.vt \in Int
  BY <1>2 DEF IsField
<1>3. off \in Int
  <2>1. off = IF f.vt < U2(s, v) THEN U2(s, v + f.vt) ELSE 0
    BY DEF FieldOffset, v
  <2> QED  BY <1>t, <2>1, ReadsAreInts
<1>4. table + off \in Int
  BY <1>1, <1>3
<1>5. at = (table + off) + I4(s, table + off)
  BY DEF Target
<1>6. at \in Int
  BY <1>4, <1>5, ReadsAreInts
<1>7. n \in Int
  BY <1>6, ReadsAreInts
<1>8. CASE a = <<v, 2>>
  <2>1. InRange(s, v, 2)
    BY DEF TableStart, Scalar, v, table
  <2> QED  BY <1>2, <1>8, <2>1, InRangeIsWithin
<1>9. CASE f.vt < U2(s, v) /\ a = <<v + f.vt, 2>>
  <2>1. TableStart(s, table)
    BY DEF table
  <2>2. Within(s, v + f.vt, 2)
    BY <1>1, <1>9, <2>1, EntryWithin DEF IsField, v
  <2> QED  BY <1>9, <2>2
<1> HIDE DEF off, at, n
<1>10. CASE off # 0 /\ IsReference(f)
  <2>0. f.type \in {"string", "bytes"} /\ FieldVerified(s, table, f)
    BY <1>10 DEF IsReference, table
  <2>1. Offset(s, table + off) /\ ByteVector(s, at)
    BY <1>10, <2>0 DEF FieldVerified, String, off, at
  <2>2. /\ InRange(s, table + off, 4) /\ InRange(s, at, 4) /\ n >= 0
        /\ InRange(s, at, 4 + n)
    BY <2>1 DEF Offset, ByteVector, Scalar, n
  <2>3. Within(s, table + off, 4) /\ Within(s, at, 4) /\ Within(s, at + 4, n)
    <3>1. Within(s, table + off, 4)
      BY <1>4, <2>2, InRangeIsWithin
    <3>2. Within(s, at, 4)
      BY <1>6, <2>2, InRangeIsWithin
    <3> QED  BY <1>6, <1>7, <2>2, <3>1, <3>2 DEF InRange, Within, IsBytes
  <2>4. f.type = "string" => Within(s, at + 4 + n, 1)
    <3> SUFFICES ASSUME f.type = "string" PROVE Within(s, at + 4 + n, 1)
      OBVIOUS
    <3>1. String(s, at)
      BY <1>10, <2>0 DEF FieldVerified, off, at
    <3>2. InRange(s, at + 4 + n, 1)
      BY <3>1 DEF String, n
    <3> QED  BY <1>6, <1>7, <3>2, InRangeIsWithin
  <2>5. \/ a = <<v, 2>> \/ (f.vt < U2(s, v) /\ a = <<v + f.vt, 2>>)
        \/ a = <<table + off, 4>> \/ a = <<at, 4>> \/ a = <<at + 4, n>>
        \/ (f.type = "string" /\ a = <<at + 4 + n, 1>>)
    BY <1>10 DEF FieldAccesses, table, v, off, at, n
  <2> QED  BY <1>8, <1>9, <2>3, <2>4, <2>5
<1>11. CASE off # 0 /\ ~IsReference(f)
  <2>1. f.type \in {"int8", "int32", "int64"} /\ FieldVerified(s, table, f)
    BY <1>11 DEF IsReference, IsField, table
  <2>2. Width(f) \in {1, 4, 8}
    BY <2>1 DEF Width
  <2>3. Scalar(s, table + off, Width(f))
    BY <1>11, <2>1 DEF FieldVerified, off
  <2>4. Within(s, table + off, Width(f))
    BY <1>4, <2>2, <2>3, InRangeIsWithin DEF Scalar
  <2>5. \/ a = <<v, 2>> \/ (f.vt < U2(s, v) /\ a = <<v + f.vt, 2>>)
        \/ a = <<table + off, Width(f)>>
    BY <1>11 DEF FieldAccesses, table, v, off
  <2> QED  BY <1>8, <1>9, <2>4, <2>5
<1>12. CASE off = 0
  <2>1. a = <<v, 2>> \/ (f.vt < U2(s, v) /\ a = <<v + f.vt, 2>>)
    BY <1>12 DEF FieldAccesses, table, v, off
  <2> QED  BY <1>8, <1>9, <2>1
<1> QED  BY <1>10, <1>11, <1>12

\* So is all that the accessors of a verified buffer read.
LEMMA VerifiedReads ==
    ASSUME NEW s, IsBytes(s), NEW fields, \A i \in DOMAIN fields : IsField(fields[i]),
           VerifyBuffer(s, fields), NEW a \in Accesses(s, fields)
    PROVE  Within(s, a[1], a[2])
<1>1. \/ a = <<0, 4>> \/ a = <<Root(s), 4>>
      \/ \E i \in DOMAIN fields : a \in FieldAccesses(s, fields[i])
  BY DEF Accesses, FieldAccesses
<1>2. Root(s) \in Int
  BY ReadsAreInts DEF Root
<1>3. InRange(s, 0, 4) /\ InRange(s, Root(s), 4)
  BY DEF VerifyBuffer, Offset, TableStart, Scalar
<1>4. CASE a = <<0, 4>>
  BY <1>3, <1>4, InRangeIsWithin
<1>5. CASE a = <<Root(s), 4>>
  BY <1>2, <1>3, <1>5, InRangeIsWithin
<1>6. ASSUME NEW i \in DOMAIN fields, a \in FieldAccesses(s, fields[i])
      PROVE  Within(s, a[1], a[2])
  <2>1. FieldVerified(s, Root(s), fields[i]) /\ TableStart(s, Root(s)) /\ IsField(fields[i])
    BY DEF VerifyBuffer
  <2> QED  BY <1>6, <2>1, FieldReadsWithin
<1> QED  BY <1>1, <1>4, <1>5, <1>6

-----------------------------------------------------------------------------
(* The fields of a table. *)

\* While a table is built, the scratch pad holds one location per field.
FieldsInScratch(b) == IsBuilder(b) /\ b.vec.scratch = 8 * b.fields

\* Reading back what LE2 and LE4 wrote.
LEMMA LittleEndian ==
    ASSUME NEW n \in Nat
    PROVE  /\ LE2(n)[1] + 256 * LE2(n)[2] = n
           /\ LE4(n)[1] + 256 * LE4(n)[2] + 65536 * LE4(n)[3] = n
           /\ LE4(n)[4] = 0
<1>1. n = 256 * (n \div 256) + (n % 256)
  OBVIOUS
<1> DEFINE q == n \div 256
           r == n % 256
<1>2. q \in Nat /\ r \in Nat /\ n = 256 * q + r /\ r < 256
  OBVIOUS
<1>3. n \div 65536 = q \div 256
  OBVIOUS
<1>4. LE2(n) = <<r, q>> /\ LE4(n) = <<r, q % 256, n \div 65536, 0>>
  BY DEF LE2, LE4
<1> HIDE DEF q, r
<1>5. q = 256 * (q \div 256) + (q % 256)
  BY <1>2
<1> DEFINE x == q \div 256
           y == q % 256
<1>6. x \in Nat /\ y \in Nat /\ q = 256 * x + y
  BY <1>2, <1>5
<1>7. LE4(n) = <<r, y, x, 0>>
  BY <1>3, <1>4
<1> HIDE DEF x, y
<1>8. LE4(n)[1] = r /\ LE4(n)[2] = y /\ LE4(n)[3] = x /\ LE4(n)[4] = 0
  BY <1>7
<1>9. LE2(n)[1] = r /\ LE2(n)[2] = q
  BY <1>4
<1>10. r + 256 * y + 65536 * x = n
  BY <1>2, <1>6
<1> QED  BY <1>2, <1>8, <1>9, <1>10

\* Locations in the scratch pad are where they were, counted from its start.
LEMMA FieldsKept ==
    ASSUME NEW b, FieldsInScratch(b), NEW v, IsVector(v), KeepsScratch(b.vec, v),
           NEW d \in Nat, v.scratch = b.vec.scratch + 8 * d, NEW k \in 1..b.fields
    PROVE  /\ FieldOff(v, k + d) = FieldOff(b.vec, k) /\ FieldOff(v, k + d) \in Int
           /\ FieldId(v, k + d) = FieldId(b.vec, k) /\ FieldId(v, k + d) \in Int
<1> DEFINE n == b.vec.scratch
           a == n - 8 * k
<1>0. n \in Nat /\ b.fields \in Nat /\ n = 8 * b.fields /\ IsVector(b.vec)
  BY BuilderTypes DEF FieldsInScratch
<1>1. a \in Nat /\ a + 7 <= n - 1 /\ k \in Nat
  BY <1>0
<1>2. v.scratch - (k + d) * 8 = a /\ n - k * 8 = a
  BY <1>0, <1>1
<1>3. \A i \in 0..7 : a + i \in 0..n - 1
  BY <1>0, <1>1
<1> HIDE DEF a
<1>4. \A i \in 0..7 : v.mem[a + i] = b.vec.mem[a + i]
  BY <1>3 DEF KeepsScratch
<1>5. \A i \in 0..7 : v.mem[a + i] \in Int
  <2>1. v.reserved \in Nat /\ v.scratch \in Nat /\ v.scratch <= v.reserved
    BY DEF IsVector
  <2>2. n <= v.reserved
    BY <1>0, <2>1
  <2>3. \A i \in 0..n - 1 : i \in 0..v.reserved - 1
    BY <1>0, <2>1, <2>2
  <2>4. \A i \in 0..v.reserved - 1 : v.mem[i] \in Int
    BY DEF IsVector
  <2> QED  BY <1>3, <2>3, <2>4
<1>6. /\ v.mem[a + 0] = b.vec.mem[a + 0] /\ v.mem[a + 1] = b.vec.mem[a + 1]
      /\ v.mem[a + 2] = b.vec.mem[a + 2] /\ v.mem[a + 4] = b.vec.mem[a + 4]
      /\ v.mem[a + 5] = b.vec.mem[a + 5]
      /\ v.mem[a + 0] \in Int /\ v.mem[a + 1] \in Int /\ v.mem[a + 2] \in Int
      /\ v.mem[a + 4] \in Int /\ v.mem[a + 5] \in Int
  BY <1>4, <1>5
<1>7. a + 0 = a /\ (a + 4) + 1 = a + 5
  BY <1>1
<1>8. /\ FieldOff(v, k + d) = ReadLE(v, a, 4) /\ FieldOff(b.vec, k) = ReadLE(b.vec, a, 4)
      /\ FieldId(v, k + d) = ReadLE(v, a + 4, 2) /\ FieldId(b.vec, k) = ReadLE(b.vec, a + 4, 2)
  BY <1>2 DEF FieldOff, FieldId, FieldLocSize
<1>9. /\ ReadLE(v, a, 4) = ReadLE(b.vec, a, 4) /\ ReadLE(v, a, 4) \in Int
  BY <1>6, <1>7 DEF ReadLE
<1>10. ReadLE(v, a + 4, 2) = ReadLE(b.vec, a + 4, 2) /\ ReadLE(v, a + 4, 2) \in Int
  BY <1>6, <1>7 DEF ReadLE
<1> QED  BY <1>8, <1>9, <1>10

\* The last location pushed is the first one read.
LEMMA FirstField ==
    ASSUME NEW v, IsVector(v), NEW at \in Nat, v.scratch = at + 8,
           NEW off \in Nat, NEW id \in Nat, HoldsScratch(v, at, FieldLoc(off, id))
    PROVE  FieldOff(v, 1) = off /\ FieldId(v, 1) = id
<1> DEFINE l == FieldLoc(off, id)
<1>1. Len(l) = 8 /\ (\A i \in 1..4 : l[i] = LE4(off)[i]) /\ (\A i \in 1..2 : l[4 + i] = LE2(id)[i])
  BY FieldLocBytes
<1>2. \A i \in 1..Len(l) : v.mem[at + (i - 1)] = l[i]
  BY DEF HoldsScratch
<1> HIDE DEF l
<1>3. \A i \in 1..8 : v.mem[at + (i - 1)] = l[i]
  BY <1>1, <1>2
<1>4. /\ v.mem[at + (1 - 1)] = l[1] /\ v.mem[at + (2 - 1)] = l[2] /\ v.mem[at + (3 - 1)] = l[3]
      /\ v.mem[at + (5 - 1)] = l[5] /\ v.mem[at + (6 - 1)] = l[6]
  BY <1>3
<1>5. l[1] = LE4(off)[1] /\ l[2] = LE4(off)[2] /\ l[3] = LE4(off)[3]
  BY <1>1
<1>6. l[5] = LE2(id)[1] /\ l[6] = LE2(id)[2]
  <2>1. l[4 + 1] = LE2(id)[1] /\ l[4 + 2] = LE2(id)[2]
    BY <1>1
  <2> QED  BY <2>1
<1>7. /\ at + (1 - 1) = at /\ at + (2 - 1) = at + 1 /\ at + (3 - 1) = at + 2
      /\ at + (5 - 1) = at + 4 /\ at + (6 - 1) = (at + 4) + 1
  OBVIOUS
<1>8. /\ v.mem[at] = LE4(off)[1] /\ v.mem[at + 1] = LE4(off)[2] /\ v.mem[at + 2] = LE4(off)[3]
      /\ v.mem[at + 4] = LE2(id)[1] /\ v.mem[(at + 4) + 1] = LE2(id)[2]
  BY <1>4, <1>5, <1>6, <1>7
<1>9. v.scratch - 1 * 8 = at
  OBVIOUS
<1>10. FieldOff(v, 1) = ReadLE(v, at, 4) /\ FieldId(v, 1) = ReadLE(v, at + 4, 2)
  BY <1>9 DEF FieldOff, FieldId, FieldLocSize
<1>11. ReadLE(v, at, 4) = LE4(off)[1] + 256 * LE4(off)[2] + 65536 * LE4(off)[3]
  BY <1>8 DEF ReadLE
<1>12. ReadLE(v, at + 4, 2) = LE2(id)[1] + 256 * LE2(id)[2]
  BY <1>8 DEF ReadLE
<1> QED  BY <1>10, <1>11, <1>12, LittleEndian

\* c is b with one more field, these bytes at its end.
Adds(b, c, field, bytes) ==
    /\ FieldsInScratch(c) /\ Keeps(b.vec, c.vec)
    /\ c.fields = b.fields + 1
    /\ c.maxVoffset = Larger(b.maxVoffset, field)
    /\ c.minAlign >= b.minAlign /\ c.minAlign >= Len(bytes)
    /\ FieldOff(c.vec, 1) = c.vec.size /\ FieldId(c.vec, 1) = field
    /\ \A k \in 1..b.fields :
          FieldOff(c.vec, k + 1) = FieldOff(b.vec, k) /\ FieldId(c.vec, k + 1) = FieldId(b.vec, k)
    /\ c.vec.size % Len(bytes) = 0
    /\ Holds(c.vec, c.vec.size, bytes)

\* A pushed field and its location on the scratch pad are one more field.
LEMMA TrackFieldAdds ==
    ASSUME NEW b, FieldsInScratch(b), NEW field \in Nat, NEW bytes,
           b.minAlign >= Len(bytes), b.vec.size % Len(bytes) = 0,
           IsBytes(bytes), Holds(b.vec, b.vec.size, bytes)
    PROVE  Adds(b, TrackField(b, field), field, bytes)
<1> DEFINE loc == FieldLoc(Size(b), field)
           w == ScratchPush(b.vec, loc)
           n == b.fields + 1
           max == Larger(b.maxVoffset, field)
           c == [b EXCEPT !.vec = w, !.fields = n, !.maxVoffset = max]
<1>0. /\ IsBuilder(b) /\ b.vec.size \in Nat /\ b.vec.scratch \in Nat /\ b.fields \in Nat
      /\ b.maxVoffset \in Nat /\ b.minAlign \in {1, 4, 8} /\ IsVector(b.vec)
      /\ b.vec.scratch = 8 * b.fields
  BY BuilderTypes DEF FieldsInScratch
<1>s. Size(b) = b.vec.size /\ Size(b) \in Int /\ field \in Int
  BY <1>0 DEF Size
<1>1. Len(loc) = 8 /\ IsBytes(loc)
  BY <1>s, FieldLocBytes
<1>2. TrackField(b, field) = c
  BY DEF TrackField
<1> HIDE DEF loc
<1>3. /\ IsVector(w) /\ Keeps(b.vec, w) /\ KeepsScratch(b.vec, w) /\ w.size = b.vec.size
      /\ w.scratch = b.vec.scratch + 8 /\ HoldsScratch(w, b.vec.scratch, loc)
  <2>1. /\ IsVector(w) /\ Keeps(b.vec, w) /\ KeepsScratch(b.vec, w) /\ w.size = b.vec.size
        /\ w.scratch = b.vec.scratch + Len(loc) /\ HoldsScratch(w, b.vec.scratch, loc)
    BY <1>0, <1>1, ScratchPushKeeps
  <2> HIDE DEF w
  <2> QED  BY <1>1, <2>1
<1> HIDE DEF w
<1>n. n \in Nat /\ n = b.fields + 1 /\ max \in Nat
  BY <1>0 DEF Larger
<1> HIDE DEF n, max
<1>4. /\ c.vec = w /\ c.fields = n /\ c.maxVoffset = max /\ c.minAlign = b.minAlign
      /\ c \in [vec : {c.vec}, fields : Nat, maxVoffset : Nat, minAlign : {1, 4, 8}]
  BY <1>0, <1>n DEF IsBuilder
<1> HIDE DEF c
<1>5. FieldsInScratch(c)
  BY <1>0, <1>3, <1>4, <1>n DEF FieldsInScratch, IsBuilder
<1>6. FieldOff(w, 1) = b.vec.size /\ FieldId(w, 1) = field
  BY <1>0, <1>3, <1>s, FirstField DEF loc
<1>7. \A k \in 1..b.fields :
         FieldOff(w, k + 1) = FieldOff(b.vec, k) /\ FieldId(w, k + 1) = FieldId(b.vec, k)
  <2> SUFFICES ASSUME NEW k \in 1..b.fields
               PROVE  FieldOff(w, k + 1) = FieldOff(b.vec, k)
                      /\ FieldId(w, k + 1) = FieldId(b.vec, k)
    OBVIOUS
  <2>1. w.scratch = b.vec.scratch + 8 * 1 /\ 1 \in Nat
    BY <1>3
  <2> QED  BY <1>3, <2>1, FieldsKept
<1>8. Holds(w, w.size, bytes)
  BY <1>0, <1>3, HoldsKept
<1>9. c.minAlign >= b.minAlign /\ c.minAlign >= Len(bytes)
  BY <1>0, <1>4
<1> QED  BY <1>2, <1>3, <1>4, <1>5, <1>6, <1>7, <1>8, <1>9, <1>n DEF Adds, max

\* A scalar that differs from its default is added.
LEMMA AddElementKeeps ==
    ASSUME NEW b, FieldsInScratch(b), NEW field \in Nat, NEW bytes, NEW default,
           IsBytes(bytes), Len(bytes) \in {1, 4, 8}, bytes # default
    PROVE  /\ Adds(b, AddElement(b, field, bytes, default), field, bytes)
           /\ b.vec.size % Len(bytes) = 0 =>
                 AddElement(b, field, bytes, default).vec.size = b.vec.size + Len(bytes)
<1> DEFINE c == PushElement(b, bytes)
           d == TrackField(c, field)
           n == Len(bytes)
<1>0. IsBuilder(b) /\ b.fields \in Nat /\ b.vec.scratch = 8 * b.fields
  BY BuilderTypes DEF FieldsInScratch
<1>1. /\ Extends(b, c) /\ c.minAlign >= n /\ c.vec.size % n = 0
      /\ b.vec.size % n = 0 => c.vec.size = b.vec.size + n
      /\ Holds(c.vec, c.vec.size, bytes)
  BY <1>0, PushElementExtends
<1>2. AddElement(b, field, bytes, default) = d
  BY DEF AddElement
<1> HIDE DEF c
<1>3. FieldsInScratch(c) /\ c.fields = b.fields /\ c.maxVoffset = b.maxVoffset
  BY <1>0, <1>1 DEF Extends, FieldsInScratch
<1>4. Adds(c, d, field, bytes)
  BY <1>1, <1>3, TrackFieldAdds
<1>5. d.vec.size = c.vec.size
  <2> DEFINE w == ScratchPush(c.vec, FieldLoc(Size(c), field))
  <2>1. Size(c) \in Int /\ field \in Int /\ IsVector(c.vec) /\ IsBuilder(c)
    BY <1>3, BuilderTypes DEF FieldsInScratch, Size
  <2>2. IsBytes(FieldLoc(Size(c), field))
    BY <2>1, FieldLocBytes
  <2>3. w.size = c.vec.size
    BY <2>1, <2>2, ScratchPushKeeps
  <2>4. d = [c EXCEPT !.vec = w, !.fields = @ + 1, !.maxVoffset = Larger(@, field)]
    BY DEF TrackField
  <2> HIDE DEF w, d
  <2>5. d.vec = w
    BY <2>1, <2>4 DEF IsBuilder
  <2> QED  BY <2>3, <2>5
<1> HIDE DEF d
<1>6. IsBuilder(d) /\ IsBuilder(c)
  BY <1>3, <1>4 DEF Adds, FieldsInScratch
<1>7. Keeps(b.vec, d.vec)
  BY <1>0, <1>1, <1>4, <1>6, BuilderTypes, KeepsTransitive DEF Adds, Extends
<1>8. \A k \in 1..b.fields : FieldOff(c.vec, k) = FieldOff(b.vec, k) /\ FieldId(c.vec, k) = FieldId(b.vec, k)
  <2> SUFFICES ASSUME NEW k \in 1..b.fields
               PROVE  FieldOff(c.vec, k) = FieldOff(b.vec, k) /\ FieldId(c.vec, k) = FieldId(b.vec, k)
    OBVIOUS
  <2>1. IsVector(c.vec) /\ KeepsScratch(b.vec, c.vec) /\ c.vec.scratch = b.vec.scratch + 8 * 0
    BY <1>0, <1>1, <1>6, BuilderTypes DEF Extends
  <2>2. FieldOff(c.vec, k + 0) = FieldOff(b.vec, k) /\ FieldId(c.vec, k + 0) = FieldId(b.vec, k)
    BY <2>1, FieldsKept
  <2>3. k + 0 = k
    BY <1>0
  <2> QED  BY <2>2, <2>3
<1>9. \A k \in 1..b.fields :
         FieldOff(d.vec, k + 1) = FieldOff(b.vec, k) /\ FieldId(d.vec, k + 1) = FieldId(b.vec, k)
  BY <1>3, <1>4, <1>8 DEF Adds
<1>10. d.minAlign >= b.minAlign
  <2>1. d.minAlign >= c.minAlign /\ c.minAlign >= b.minAlign
    BY <1>1, <1>4 DEF Adds, Extends
  <2>2. b.minAlign \in Nat /\ c.minAlign \in Nat /\ d.minAlign \in Nat
    BY <1>0, <1>6, BuilderTypes
  <2> QED  BY <2>1, <2>2
<1>11. Adds(b, d, field, bytes)
  BY <1>3, <1>4, <1>7, <1>9, <1>10 DEF Adds
<1> QED  BY <1>1, <1>2, <1>5, <1>11

\* A reference is stored as the distance from where it lies to where it points.
LEMMA AddOffsetKeeps ==
    ASSUME NEW b, FieldsInScratch(b), NEW field \in Nat, NEW off \in Nat, off # 0,
           off <= b.vec.size
    PROVE  LET c == AddOffset(b, field, off)
           IN /\ c.vec.size - off \in Nat /\ off < c.vec.size
              /\ Adds(b, c, field, LE4(c.vec.size - off))
<1> DEFINE d == Align(b, 4)
           n == ReferTo(b, off)
           c == AddElement(d, field, LE4(n), LE4(0))
<1>0. IsBuilder(b) /\ b.vec.size \in Nat /\ b.fields \in Nat /\ b.vec.scratch = 8 * b.fields
  BY BuilderTypes DEF FieldsInScratch
<1>1. Extends(b, d) /\ d.vec.size % 4 = 0
  BY <1>0, AlignExtends
<1>2. AddOffset(b, field, off) = c
  BY DEF AddOffset
<1>3. n = d.vec.size - off + 4
  BY DEF ReferTo, Size
<1> HIDE DEF d, n
<1>d. IsBuilder(d) /\ d.vec.size \in Nat /\ d.vec.size >= b.vec.size
  BY <1>1, BuilderTypes DEF Extends, Keeps
<1>4. n \in Nat /\ n >= 4 /\ n \in Int
  BY <1>0, <1>3, <1>d
<1>5. IsBytes(LE4(n)) /\ Len(LE4(n)) = 4 /\ LE4(n) # LE4(0)
  <2>1. /\ LE4(n)[1] + 256 * LE4(n)[2] + 65536 * LE4(n)[3] = n
        /\ LE4(0)[1] + 256 * LE4(0)[2] + 65536 * LE4(0)[3] = 0
    BY <1>4, LittleEndian
  <2>2. n # 0
    BY <1>4
  <2> QED  BY <1>4, <2>1, <2>2, ScalarBytes
<1> DEFINE bytes == LE4(n)
<1>b. /\ IsBytes(bytes) /\ Len(bytes) = 4 /\ bytes # LE4(0) /\ Len(bytes) \in {1, 4, 8}
  BY <1>5
<1>6. FieldsInScratch(d) /\ d.fields = b.fields /\ d.maxVoffset = b.maxVoffset
  BY <1>0, <1>1 DEF Extends, FieldsInScratch
<1> HIDE DEF bytes
<1>c. c = AddElement(d, field, bytes, LE4(0))
  BY DEF bytes
<1> HIDE DEF c
<1>7. /\ Adds(d, c, field, bytes)
      /\ d.vec.size % Len(bytes) = 0 => c.vec.size = d.vec.size + Len(bytes)
  BY <1>b, <1>c, <1>6, AddElementKeeps
<1>8. c.vec.size = d.vec.size + 4
  BY <1>1, <1>7, <1>b
<1>9. c.vec.size - off = n /\ off < c.vec.size
  BY <1>0, <1>3, <1>8, <1>d
<1>10. IsBuilder(c)
  BY <1>7 DEF Adds, FieldsInScratch
<1>11. Keeps(b.vec, c.vec)
  BY <1>0, <1>1, <1>7, <1>10, <1>d, BuilderTypes, KeepsTransitive DEF Adds, Extends
<1>12. \A k \in 1..b.fields : FieldOff(d.vec, k) = FieldOff(b.vec, k) /\ FieldId(d.vec, k) = FieldId(b.vec, k)
  <2> SUFFICES ASSUME NEW k \in 1..b.fields
               PROVE  FieldOff(d.vec, k) = FieldOff(b.vec, k) /\ FieldId(d.vec, k) = FieldId(b.vec, k)
    OBVIOUS
  <2>1. IsVector(d.vec) /\ KeepsScratch(b.vec, d.vec) /\ d.vec.scratch = b.vec.scratch + 8 * 0
    BY <1>0, <1>1, <1>d, BuilderTypes DEF Extends
  <2>2. FieldOff(d.vec, k + 0) = FieldOff(b.vec, k) /\ FieldId(d.vec, k + 0) = FieldId(b.vec, k)
    BY <2>1, FieldsKept
  <2>3. k + 0 = k
    BY <1>0
  <2> QED  BY <2>2, <2>3
<1>13. \A k \in 1..b.fields :
          FieldOff(c.vec, k + 1) = FieldOff(b.vec, k) /\ FieldId(c.vec, k + 1) = FieldId(b.vec, k)
  BY <1>6, <1>7, <1>12 DEF Adds
<1>14. c.minAlign >= b.minAlign
  <2>1. c.minAlign >= d.minAlign /\ d.minAlign >= b.minAlign
    BY <1>1, <1>7 DEF Adds, Extends
  <2>2. b.minAlign \in Nat /\ c.minAlign \in Nat /\ d.minAlign \in Nat
    BY <1>0, <1>10, <1>d, BuilderTypes
  <2> QED  BY <2>1, <2>2
<1>15. Adds(b, c, field, bytes)
  BY <1>6, <1>7, <1>11, <1>13, <1>14 DEF Adds
<1> QED  BY <1>2, <1>4, <1>9, <1>15 DEF bytes

\* What a message is made of: its fields, the value of each and, for one that
\* is a reference, the offset it was created at.
IsMessage(fs, vals, rs) ==
    /\ \A i \in DOMAIN fs :
          /\ IsField(fs[i])
          /\ vals[i] \in Seq(Int)
          /\ ~IsReference(fs[i]) => Len(vals[i]) = Width(fs[i])
          /\ rs[i] \in Nat
    /\ \A i, j \in DOMAIN fs : fs[i].vt = fs[j].vt => i = j

IsStored(f, value) == IF IsReference(f) THEN value # Absent ELSE value # f.default

\* The bytes of a field in the table, if they end at an offset, and how many.
Content(f, value, ref, off) == IF IsReference(f) THEN LE4(off - ref) ELSE value
SizeOf(f) == IF IsReference(f) THEN 4 ELSE Width(f)

PlacedAt(v, off, f, value, ref) ==
    /\ off \in Nat /\ off % SizeOf(f) = 0
    /\ IsReference(f) => ref < off
    /\ Holds(v, off, Content(f, value, ref, off))

LEMMA SequencesAreBytes == \A s \in Seq(Int) : IsBytes(s)
<1> SUFFICES ASSUME NEW s \in Seq(Int) PROVE IsBytes(s)
  OBVIOUS
<1>1. Len(s) \in Nat
  OBVIOUS
<1>2. \A i \in 1..Len(s) : s[i] \in Int
  BY ElementOfSeq
<1> QED  BY <1>1, <1>2 DEF IsBytes

\* What is stored for a field has the size of the field.
LEMMA ContentBytes ==
    ASSUME NEW fs, NEW vals, NEW rs, IsMessage(fs, vals, rs), NEW i \in DOMAIN fs,
           NEW off \in Nat
    PROVE  /\ IsBytes(Content(fs[i], vals[i], rs[i], off))
           /\ Len(Content(fs[i], vals[i], rs[i], off)) = SizeOf(fs[i])
           /\ SizeOf(fs[i]) \in {1, 4, 8}
<1>1. CASE IsReference(fs[i])
  <2>1. off - rs[i] \in Int
    BY DEF IsMessage
  <2> QED  BY <1>1, <2>1, ScalarBytes DEF Content, SizeOf
<1>2. CASE ~IsReference(fs[i])
  <2>1. IsBytes(vals[i]) /\ Len(vals[i]) = Width(fs[i])
    BY <1>2, SequencesAreBytes DEF IsMessage
  <2>2. fs[i].type \in {"int8", "int32", "int64"}
    BY <1>2 DEF IsMessage, IsField, IsReference
  <2>3. Width(fs[i]) \in {1, 4, 8}
    BY <2>2 DEF Width
  <2> QED  BY <1>2, <2>1, <2>3 DEF Content, SizeOf
<1> QED  BY <1>1, <1>2

\* A field stays where it was placed.
LEMMA PlacedKept ==
    ASSUME NEW fs, NEW vals, NEW rs, IsMessage(fs, vals, rs), NEW i \in DOMAIN fs,
           NEW v, NEW w, v.size \in Nat, w.size \in Nat, Keeps(v, w), NEW off,
           PlacedAt(v, off, fs[i], vals[i], rs[i])
    PROVE  PlacedAt(w, off, fs[i], vals[i], rs[i])
<1> DEFINE bytes == Content(fs[i], vals[i], rs[i], off)
<1>1. off \in Nat /\ Holds(v, off, bytes)
  BY DEF PlacedAt
<1>2. IsBytes(bytes)
  BY <1>1, ContentBytes
<1> HIDE DEF bytes
<1>3. Holds(w, off, bytes)
  BY <1>1, <1>2, HoldsKept
<1> QED  BY <1>3 DEF PlacedAt, bytes

\* The table as far as it is built: each location of the scratch pad is that of
\* a field that was added, and says where its bytes are.
TableSoFar(b, fs, vals, rs, done) ==
    /\ \A k \in 1..b.fields : \E i \in done :
          /\ IsStored(fs[i], vals[i])
          /\ FieldId(b.vec, k) = fs[i].vt
          /\ PlacedAt(b.vec, FieldOff(b.vec, k), fs[i], vals[i], rs[i])
    /\ \A i \in done : IsStored(fs[i], vals[i]) =>
          /\ fs[i].vt <= b.maxVoffset
          /\ SizeOf(fs[i]) <= b.minAlign
          /\ \E k \in 1..b.fields : FieldId(b.vec, k) = fs[i].vt
    /\ b.maxVoffset % 2 = 0

\* A stored field is added with its content.
LEMMA StoredFieldAdded ==
    ASSUME NEW fs, NEW vals, NEW rs, IsMessage(fs, vals, rs),
           NEW done, done \subseteq DOMAIN fs, NEW i \in DOMAIN fs,
           IsStored(fs[i], vals[i]), NEW b, FieldsInScratch(b),
           TableSoFar(b, fs, vals, rs, done), NEW c,
           IsReference(fs[i]) => rs[i] < c.vec.size,
           Adds(b, c, fs[i].vt, Content(fs[i], vals[i], rs[i], c.vec.size))
    PROVE  TableSoFar(c, fs, vals, rs, done \cup {i})
<1> DEFINE bytes == Content(fs[i], vals[i], rs[i], c.vec.size)
           Of(a, k, j) == /\ IsStored(fs[j], vals[j])
                          /\ FieldId(a.vec, k) = fs[j].vt
                          /\ PlacedAt(a.vec, FieldOff(a.vec, k), fs[j], vals[j], rs[j])
<1>0. /\ IsBuilder(b) /\ IsBuilder(c) /\ b.fields \in Nat /\ b.vec.size \in Nat
      /\ c.vec.size \in Nat /\ b.maxVoffset \in Nat /\ b.minAlign \in Nat /\ c.minAlign \in Nat
      /\ c.fields = b.fields + 1
  <2>1. IsBuilder(b) /\ IsBuilder(c) /\ c.fields = b.fields + 1
    BY DEF Adds, FieldsInScratch
  <2>2. b.minAlign \in {1, 4, 8} /\ c.minAlign \in {1, 4, 8}
    BY <2>1, BuilderTypes
  <2>3. /\ b.fields \in Nat /\ b.vec.size \in Nat /\ c.vec.size \in Nat
        /\ b.maxVoffset \in Nat
    BY <2>1, BuilderTypes
  <2> QED  BY <2>1, <2>2, <2>3
<1>1. IsBytes(bytes) /\ Len(bytes) = SizeOf(fs[i]) /\ SizeOf(fs[i]) \in {1, 4, 8}
  BY <1>0, ContentBytes
<1>2. Of(c, 1, i)
  <2>1. FieldOff(c.vec, 1) = c.vec.size /\ FieldId(c.vec, 1) = fs[i].vt
    BY DEF Adds
  <2>2. c.vec.size % Len(bytes) = 0 /\ Holds(c.vec, c.vec.size, bytes)
    BY DEF Adds
  <2>3. PlacedAt(c.vec, c.vec.size, fs[i], vals[i], rs[i])
    BY <1>0, <1>1, <2>2 DEF PlacedAt
  <2> QED  BY <2>1, <2>3
<1>3. ASSUME NEW k \in 1..c.fields
      PROVE  \E j \in done \cup {i} : Of(c, k, j)
  <2>1. CASE k = 1
    BY <1>2, <2>1
  <2>2. CASE k # 1
    <3> DEFINE l == k - 1
    <3>1. l \in 1..b.fields /\ k = l + 1
      BY <1>0, <2>2
    <3> HIDE DEF l
    <3>2. PICK j \in done : Of(b, l, j)
      BY <3>1 DEF TableSoFar
    <3>3. FieldOff(c.vec, l + 1) = FieldOff(b.vec, l) /\ FieldId(c.vec, l + 1) = FieldId(b.vec, l)
      BY <3>1 DEF Adds
    <3>4. PlacedAt(c.vec, FieldOff(b.vec, l), fs[j], vals[j], rs[j])
      BY <1>0, <3>2, PlacedKept DEF Adds
    <3>5. Of(c, k, j)
      BY <3>1, <3>2, <3>3, <3>4
    <3> QED  BY <3>5
  <2> QED  BY <2>1, <2>2
<1>4. ASSUME NEW j \in done \cup {i}, IsStored(fs[j], vals[j])
      PROVE  /\ fs[j].vt <= c.maxVoffset /\ SizeOf(fs[j]) <= c.minAlign
             /\ \E k \in 1..c.fields : FieldId(c.vec, k) = fs[j].vt
  <2>0. /\ c.maxVoffset = Larger(b.maxVoffset, fs[i].vt) /\ c.minAlign >= b.minAlign
        /\ c.minAlign >= Len(bytes)
    BY DEF Adds
  <2>1. CASE j = i
    <3>1. fs[i].vt \in Nat
      BY DEF IsMessage, IsField
    <3>2. 1 \in 1..c.fields
      BY <1>0
    <3> QED  BY <1>0, <1>1, <1>2, <2>0, <2>1, <3>1, <3>2 DEF Larger
  <2>2. CASE j \in done
    <3>0. fs[i].vt \in Nat /\ fs[j].vt \in Nat /\ SizeOf(fs[j]) \in {1, 4, 8}
      <4>1. j \in DOMAIN fs
        BY <2>2
      <4>2. fs[i].vt \in Nat /\ fs[j].vt \in Nat
        BY <4>1 DEF IsMessage, IsField
      <4>3. SizeOf(fs[j]) \in {1, 4, 8}
        BY <1>0, <4>1, ContentBytes
      <4> QED  BY <4>2, <4>3
    <3>1. /\ fs[j].vt <= b.maxVoffset /\ SizeOf(fs[j]) <= b.minAlign
          /\ \E k \in 1..b.fields : FieldId(b.vec, k) = fs[j].vt
      BY <1>4, <2>2 DEF TableSoFar
    <3>2. PICK k \in 1..b.fields : FieldId(b.vec, k) = fs[j].vt
      BY <3>1
    <3>3. k + 1 \in 1..c.fields /\ FieldId(c.vec, k + 1) = fs[j].vt
      BY <1>0, <3>2 DEF Adds
    <3>4. fs[j].vt <= c.maxVoffset
      BY <1>0, <2>0, <3>0, <3>1 DEF Larger
    <3>5. SizeOf(fs[j]) <= c.minAlign
      BY <1>0, <2>0, <3>0, <3>1
    <3> QED  BY <3>3, <3>4, <3>5
  <2> QED  BY <2>1, <2>2
<1>5. c.maxVoffset % 2 = 0
  <2>1. c.maxVoffset = Larger(b.maxVoffset, fs[i].vt)
    BY DEF Adds
  <2>2. b.maxVoffset % 2 = 0
    BY DEF TableSoFar
  <2>3. fs[i].vt % 2 = 0
    BY DEF IsMessage, IsField
  <2> QED  BY <2>1, <2>2, <2>3 DEF Larger
<1> QED  BY <1>3, <1>4, <1>5 DEF TableSoFar

\* A field with its default, or a reference that is absent, adds nothing.
LEMMA UnstoredFieldSkipped ==
    ASSUME NEW fs, NEW vals, NEW rs, NEW done, NEW i, ~IsStored(fs[i], vals[i]),
           NEW b, TableSoFar(b, fs, vals, rs, done)
    PROVE  TableSoFar(b, fs, vals, rs, done \cup {i})
BY DEF TableSoFar

\* An operation that adds no field leaves the table as far as it is.
LEMMA TableExtended ==
    ASSUME NEW fs, NEW vals, NEW rs, IsMessage(fs, vals, rs), NEW done,
           done \subseteq DOMAIN fs, NEW b, FieldsInScratch(b), NEW c, Extends(b, c),
           TableSoFar(b, fs, vals, rs, done)
    PROVE  TableSoFar(c, fs, vals, rs, done) /\ FieldsInScratch(c)
<1>0. /\ IsBuilder(b) /\ IsBuilder(c) /\ b.fields \in Nat /\ b.vec.size \in Nat
      /\ c.vec.size \in Nat /\ b.minAlign \in Nat /\ c.minAlign \in Nat
      /\ c.fields = b.fields /\ c.maxVoffset = b.maxVoffset /\ IsVector(c.vec)
      /\ c.vec.scratch = b.vec.scratch /\ b.vec.scratch \in Nat
  BY BuilderTypes DEF Extends, FieldsInScratch
<1>1. FieldsInScratch(c)
  BY <1>0 DEF FieldsInScratch
<1>2. \A k \in 1..b.fields : FieldOff(c.vec, k) = FieldOff(b.vec, k) /\ FieldId(c.vec, k) = FieldId(b.vec, k)
  <2> SUFFICES ASSUME NEW k \in 1..b.fields
               PROVE  FieldOff(c.vec, k) = FieldOff(b.vec, k) /\ FieldId(c.vec, k) = FieldId(b.vec, k)
    OBVIOUS
  <2>1. KeepsScratch(b.vec, c.vec) /\ c.vec.scratch = b.vec.scratch + 8 * 0
    BY <1>0 DEF Extends
  <2>2. FieldOff(c.vec, k + 0) = FieldOff(b.vec, k) /\ FieldId(c.vec, k + 0) = FieldId(b.vec, k)
    BY <1>0, <2>1, FieldsKept
  <2>3. k + 0 = k
    BY <1>0
  <2> QED  BY <2>2, <2>3
<1>3. ASSUME NEW k \in 1..c.fields
      PROVE  \E i \in done :
                /\ IsStored(fs[i], vals[i]) /\ FieldId(c.vec, k) = fs[i].vt
                /\ PlacedAt(c.vec, FieldOff(c.vec, k), fs[i], vals[i], rs[i])
  <2>1. PICK i \in done :
                /\ IsStored(fs[i], vals[i]) /\ FieldId(b.vec, k) = fs[i].vt
                /\ PlacedAt(b.vec, FieldOff(b.vec, k), fs[i], vals[i], rs[i])
    BY <1>0 DEF TableSoFar
  <2>2. PlacedAt(c.vec, FieldOff(b.vec, k), fs[i], vals[i], rs[i])
    BY <1>0, <2>1, PlacedKept DEF Extends
  <2> QED  BY <1>0, <1>2, <2>1, <2>2
<1>4. ASSUME NEW i \in done, IsStored(fs[i], vals[i])
      PROVE  /\ fs[i].vt <= c.maxVoffset /\ SizeOf(fs[i]) <= c.minAlign
             /\ \E k \in 1..c.fields : FieldId(c.vec, k) = fs[i].vt
  <2>1. /\ fs[i].vt <= b.maxVoffset /\ SizeOf(fs[i]) <= b.minAlign
        /\ \E k \in 1..b.fields : FieldId(b.vec, k) = fs[i].vt
    BY <1>4 DEF TableSoFar
  <2>2. SizeOf(fs[i]) \in {1, 4, 8}
    BY <1>0, ContentBytes
  <2>3. c.minAlign >= b.minAlign
    BY DEF Extends
  <2>4. SizeOf(fs[i]) <= c.minAlign
    BY <1>0, <2>1, <2>2, <2>3
  <2> QED  BY <1>0, <1>2, <2>1, <2>4
<1>5. c.maxVoffset % 2 = 0
  BY <1>0 DEF TableSoFar
<1> QED  BY <1>1, <1>3, <1>4, <1>5 DEF TableSoFar

-----------------------------------------------------------------------------
(* The finished table. *)

\* The entry of a field in the vtable that begins at an offset: where the field
\* lies, counted from the table, or 0.
EntryWith(v, tableAt, vtable, f, value, ref) ==
    IF IsStored(f, value)
    THEN /\ f.vt < vtable - tableAt
         /\ \E off \in Nat : /\ off < tableAt
                             /\ PlacedAt(v, off, f, value, ref)
                             /\ Holds(v, vtable - f.vt, LE2(tableAt - off))
    ELSE f.vt < vtable - tableAt => Holds(v, vtable - f.vt, LE2(0))

TableWith(v, tableAt, vtable, fs, vals, rs) ==
    /\ tableAt \in Nat /\ tableAt % 4 = 0 /\ vtable \in Nat
    /\ vtable >= tableAt + 4 /\ (vtable - tableAt) % 2 = 0
    /\ Holds(v, tableAt, LE4(vtable - tableAt)) /\ Holds(v, vtable, LE2(vtable - tableAt))
    /\ \A i \in DOMAIN fs : EntryWith(v, tableAt, vtable, fs[i], vals[i], rs[i])

\* A finished table stays readable.
LEMMA TableKept ==
    ASSUME NEW fs, NEW vals, NEW rs, IsMessage(fs, vals, rs),
           NEW v, NEW w, v.size \in Nat, w.size \in Nat, Keeps(v, w),
           NEW tableAt, NEW vtable, TableWith(v, tableAt, vtable, fs, vals, rs)
    PROVE  TableWith(w, tableAt, vtable, fs, vals, rs)
<1>1. /\ tableAt \in Nat /\ vtable \in Nat /\ vtable - tableAt \in Int
      /\ Holds(v, tableAt, LE4(vtable - tableAt)) /\ Holds(v, vtable, LE2(vtable - tableAt))
  BY DEF TableWith
<1>2. Holds(w, tableAt, LE4(vtable - tableAt)) /\ Holds(w, vtable, LE2(vtable - tableAt))
  BY <1>1, ScalarBytes, HoldsKept
<1>3. ASSUME NEW i \in DOMAIN fs
      PROVE  EntryWith(w, tableAt, vtable, fs[i], vals[i], rs[i])
  <2>0. EntryWith(v, tableAt, vtable, fs[i], vals[i], rs[i])
    BY DEF TableWith
  <2>f. fs[i].vt \in Nat
    BY DEF IsMessage, IsField
  <2>1. CASE IsStored(fs[i], vals[i])
    <3>1. /\ fs[i].vt < vtable - tableAt
          /\ \E off \in Nat : /\ off < tableAt
                              /\ PlacedAt(v, off, fs[i], vals[i], rs[i])
                              /\ Holds(v, vtable - fs[i].vt, LE2(tableAt - off))
      BY <2>0, <2>1 DEF EntryWith
    <3>2. PICK off \in Nat : /\ off < tableAt
                             /\ PlacedAt(v, off, fs[i], vals[i], rs[i])
                             /\ Holds(v, vtable - fs[i].vt, LE2(tableAt - off))
      BY <3>1
    <3>3. PlacedAt(w, off, fs[i], vals[i], rs[i])
      BY <3>2, PlacedKept
    <3>4. vtable - fs[i].vt \in Nat /\ tableAt - off \in Int
      BY <1>1, <2>f, <3>1
    <3>5. Holds(w, vtable - fs[i].vt, LE2(tableAt - off))
      BY <3>2, <3>4, ScalarBytes, HoldsKept
    <3> QED  BY <2>1, <3>1, <3>2, <3>3, <3>5 DEF EntryWith
  <2>2. CASE ~IsStored(fs[i], vals[i])
    <3> SUFFICES ASSUME fs[i].vt < vtable - tableAt
                 PROVE  Holds(w, vtable - fs[i].vt, LE2(0))
      BY <2>2 DEF EntryWith
    <3>1. Holds(v, vtable - fs[i].vt, LE2(0))
      BY <2>0, <2>2 DEF EntryWith
    <3>2. vtable - fs[i].vt \in Nat /\ IsBytes(LE2(0))
      BY <1>1, <2>f, ScalarBytes
    <3> QED  BY <3>1, <3>2, HoldsKept
  <2> QED  BY <2>1, <2>2
<1> QED  BY <1>2, <1>3 DEF TableWith

\* The value PushVTable writes for a position of the vtable.
EntryOf(v, vsize, begin, loc, fields, id) ==
    LET At_(x) == {k \in 1..fields : FieldId(v, k) = x}
    IN IF id = 0 THEN vsize
       ELSE IF id = 2 THEN loc - begin
       ELSE IF At_(id) = {} THEN 0
       ELSE loc - FieldOff(v, CHOOSE k \in At_(id) : TRUE)

\* The locations of a number of fields can be read, and are those of another
\* vector.
FieldsReadable(v, fields) == \A k \in 1..fields : FieldOff(v, k) \in Int

SameFields(u, v, fields) ==
    \A k \in 1..fields :
       FieldOff(v, k) = FieldOff(u, k) /\ FieldId(v, k) = FieldId(u, k)

\* A vtable is its entries, two bytes each.
EntriesOf(v, vsize, begin, loc, fields) ==
    /\ \A id \in Nat : EntryOf(v, vsize, begin, loc, fields, id) \in Int
    /\ \A i \in 1..vsize :
          VTable(v, vsize, begin, loc, fields)[i] =
             LE2(EntryOf(v, vsize, begin, loc, fields, 2 * ((i - 1) \div 2)))[1 + ((i - 1) % 2)]

\* The bytes of the vtable, two per entry.
LEMMA VTableBytes ==
    ASSUME NEW v, NEW vsize \in Nat, NEW begin \in Int, NEW loc \in Int, NEW fields \in Nat,
           FieldsReadable(v, fields)
    PROVE  /\ IsBytes(VTable(v, vsize, begin, loc, fields))
           /\ Len(VTable(v, vsize, begin, loc, fields)) = vsize
           /\ EntriesOf(v, vsize, begin, loc, fields)
<1> DEFINE Entry(id) == EntryOf(v, vsize, begin, loc, fields, id)
           t == VTable(v, vsize, begin, loc, fields)
<1>1. ASSUME NEW id \in Nat PROVE Entry(id) \in Int
  <2> DEFINE S == {k \in 1..fields : FieldId(v, k) = id}
  <2>1. CASE S = {}
    BY <2>1 DEF EntryOf
  <2>2. CASE S # {}
    <3>1. (CHOOSE k \in S : TRUE) \in S
      BY <2>2
    <3>2. FieldOff(v, CHOOSE k \in S : TRUE) \in Int
      BY <3>1 DEF FieldsReadable
    <3> QED  BY <3>2 DEF EntryOf
  <2> QED  BY <2>1, <2>2
<1>2. t = [i \in 1..vsize |-> LE2(Entry(2 * ((i - 1) \div 2)))[1 + ((i - 1) % 2)]]
  BY DEF VTable, EntryOf
<1> HIDE DEF Entry
<1>3. ASSUME NEW i \in 1..vsize
      PROVE  LE2(Entry(2 * ((i - 1) \div 2)))[1 + ((i - 1) % 2)] \in Int
  <2> DEFINE id == 2 * ((i - 1) \div 2)
             x == 1 + ((i - 1) % 2)
  <2>1. id \in Nat
    OBVIOUS
  <2>2. x \in 1..2
    OBVIOUS
  <2> HIDE DEF id, x
  <2>3. IsBytes(LE2(Entry(id))) /\ Len(LE2(Entry(id))) = 2
    BY <1>1, <2>1, ScalarBytes
  <2>4. LE2(Entry(id))[x] \in Int
    BY <2>2, <2>3 DEF IsBytes
  <2> QED  BY <2>4 DEF id, x
<1> DEFINE B(i) == LE2(Entry(2 * ((i - 1) \div 2)))[1 + ((i - 1) % 2)]
           u == [i \in 1..vsize |-> B(i)]
<1>4. t = u
  BY <1>2
<1>5. \A i \in 1..vsize : B(i) \in Int
  BY <1>3
<1> HIDE DEF B
<1>6. u \in Seq(Int) /\ Len(u) = vsize
  <2>1. u \in Seq(Int)
    BY <1>5
  <2> QED  BY <2>1
<1>7. \A i \in 1..vsize : u[i] = B(i)
  OBVIOUS
<1> HIDE DEF u
<1>8. IsBytes(u)
  BY <1>6, SequencesAreBytes
<1>9. EntriesOf(v, vsize, begin, loc, fields)
  BY <1>1, <1>4, <1>7 DEF EntriesOf, B, Entry
<1> QED  BY <1>4, <1>6, <1>8, <1>9

\* The two bytes at an even position of a vtable are its entry.
LEMMA VTableEntry ==
    ASSUME NEW w, w.size \in Nat, NEW v, NEW vsize \in Nat, NEW begin \in Int, NEW loc \in Int,
           NEW fields \in Nat, FieldsReadable(v, fields),
           NEW top \in Nat, Holds(w, top, VTable(v, vsize, begin, loc, fields)),
           NEW id \in Nat, id % 2 = 0, id + 2 <= vsize
    PROVE  Holds(w, top - id, LE2(EntryOf(v, vsize, begin, loc, fields, id)))
<1> DEFINE t == VTable(v, vsize, begin, loc, fields)
           e == LE2(EntryOf(v, vsize, begin, loc, fields, id))
<1>1. /\ Len(t) = vsize
      /\ \A i \in 1..vsize :
            t[i] = LE2(EntryOf(v, vsize, begin, loc, fields, 2 * ((i - 1) \div 2)))[1 + ((i - 1) % 2)]
  BY VTableBytes DEF EntriesOf
<1>2. /\ vsize <= top /\ top <= w.size
      /\ \A i \in 1..vsize : w.mem[w.reserved - (top + 1 - i)] = t[i]
  BY <1>1 DEF Holds
<1> HIDE DEF t
<1>3. t[id + 1] = e[1]
  <2>1. id + 1 \in 1..vsize /\ 2 * (((id + 1) - 1) \div 2) = id /\ 1 + (((id + 1) - 1) % 2) = 1
    OBVIOUS
  <2> QED  BY <1>1, <2>1
<1>4. t[id + 2] = e[2]
  <2>1. id + 2 \in 1..vsize /\ 2 * (((id + 2) - 1) \div 2) = id /\ 1 + (((id + 2) - 1) % 2) = 2
    OBVIOUS
  <2> QED  BY <1>1, <2>1
<1>5. Len(e) = 2
  BY DEF LE2
<1> HIDE DEF e
<1>6. ASSUME NEW i \in 1..2
      PROVE  w.mem[w.reserved - ((top - id) + 1 - i)] = e[i]
  <2>1. id + i \in 1..vsize /\ (top - id) + 1 - i = top + 1 - (id + i)
    OBVIOUS
  <2>2. w.mem[w.reserved - (top + 1 - (id + i))] = t[id + i]
    BY <1>2, <2>1
  <2>3. t[id + i] = e[i]
    BY <1>3, <1>4
  <2> QED  BY <2>1, <2>2, <2>3
<1>7. 2 <= top - id /\ top - id <= w.size
  BY <1>2
<1> QED  BY <1>5, <1>6, <1>7 DEF Holds, e

\* w is v with the bytes that end at an offset replaced.
Rewritten(v, offset, bytes, w) ==
    /\ IsVector(w) /\ w.size = v.size /\ w.scratch = v.scratch
    /\ Holds(w, offset, bytes)
    /\ \A i \in 1..v.size :
          i <= offset - Len(bytes) \/ i > offset =>
              w.mem[w.reserved - i] = v.mem[v.reserved - i]

\* Writing over an offset of the block leaves the rest.
LEMMA StoreRewrites ==
    ASSUME NEW v, IsVector(v), NEW offset \in Nat, NEW bytes, IsBytes(bytes),
           Len(bytes) <= offset, offset <= v.size
    PROVE  Rewritten(v, offset, bytes, Store(v, DataAt(v, offset), bytes))
<1> DEFINE at == DataAt(v, offset)
           w == Store(v, at, bytes)
<1>1. /\ v.reserved \in Nat /\ v.size \in Nat /\ v.size <= v.reserved
      /\ at = v.reserved - offset /\ at \in Nat /\ Len(bytes) \in Nat
  BY DEF IsVector, DataAt, IsBytes
<1> HIDE DEF at
<1>2. Written(v, at, bytes, w)
  BY <1>1, StoreWrites
<1> HIDE DEF w
<1>3. IsVector(w) /\ w.size = v.size /\ w.scratch = v.scratch /\ w.reserved = v.reserved
  BY <1>2 DEF Written
<1>4. ASSUME NEW i \in 1..v.size, i <= offset - Len(bytes) \/ i > offset
      PROVE  w.mem[w.reserved - i] = v.mem[v.reserved - i]
  <2>1. /\ v.reserved - i \in 0..v.reserved - 1
        /\ v.reserved - i < at \/ v.reserved - i >= at + Len(bytes)
    BY <1>1, <1>4
  <2> QED  BY <1>2, <1>3, <2>1 DEF Written
<1>5. ASSUME NEW i \in 1..Len(bytes)
      PROVE  w.mem[w.reserved - (offset + 1 - i)] = bytes[i]
  <2>1. at + (i - 1) < v.reserved /\ at + (i - 1) = w.reserved - (offset + 1 - i)
    BY <1>1, <1>3
  <2>2. w.mem[at + (i - 1)] = bytes[i]
    BY <1>2, <2>1 DEF Written
  <2> QED  BY <2>1, <2>2
<1>6. Holds(w, offset, bytes)
  BY <1>3, <1>5 DEF Holds
<1> QED  BY <1>3, <1>4, <1>6 DEF Rewritten, w, at

\* What lies beside the bytes that are replaced is still there.
LEMMA HoldsBeside ==
    ASSUME NEW v, v.size \in Nat, NEW offset \in Nat, NEW bytes, IsBytes(bytes), NEW w,
           Rewritten(v, offset, bytes, w), NEW off \in Nat, NEW x, IsBytes(x),
           Holds(v, off, x), off - Len(x) >= offset
    PROVE  Holds(w, off, x)
<1>1. ASSUME NEW i \in 1..Len(x)
      PROVE  w.mem[w.reserved - (off + 1 - i)] = x[i]
  <2> DEFINE k == off + 1 - i
  <2>1. k \in 1..v.size /\ k > offset
    BY DEF Holds, IsBytes
  <2>2. v.mem[v.reserved - k] = x[i]
    BY DEF Holds
  <2> HIDE DEF k
  <2>3. w.mem[w.reserved - k] = v.mem[v.reserved - k]
    BY <2>1 DEF Rewritten
  <2> QED  BY <2>2, <2>3 DEF k
<1>2. Len(x) <= off /\ off <= w.size
  BY DEF Holds, Rewritten
<1> QED  BY <1>1, <1>2 DEF Holds

\* What lies below the rewritten bytes is kept.
LEMMA KeepsBelow ==
    ASSUME NEW u, NEW v, u.size \in Nat, v.size \in Nat, Keeps(u, v),
           NEW offset \in Nat, NEW bytes, IsBytes(bytes),
           offset - Len(bytes) >= u.size, NEW w, Rewritten(v, offset, bytes, w)
    PROVE  Keeps(u, w)
<1>1. ASSUME NEW i \in 1..u.size
      PROVE  w.mem[w.reserved - i] = u.mem[u.reserved - i]
  <2>1. i \in 1..v.size /\ i <= offset - Len(bytes)
    BY DEF Keeps, IsBytes
  <2>2. w.mem[w.reserved - i] = v.mem[v.reserved - i]
    BY <2>1 DEF Rewritten
  <2> QED  BY <2>2 DEF Keeps
<1>2. w.size >= u.size
  BY DEF Keeps, Rewritten
<1> QED  BY <1>1, <1>2 DEF Keeps

\* What the scratch pad says of a field becomes its entry in the vtable.
EntryTells(e, loc, v, f, value, ref) ==
    IF IsStored(f, value)
    THEN \E off \in Nat : e = loc - off /\ PlacedAt(v, off, f, value, ref)
    ELSE e = 0

\* The entry of a field leads to where the field was placed, or says it is absent.
LEMMA EntryOfField ==
    ASSUME NEW fs, NEW vals, NEW rs, IsMessage(fs, vals, rs), NEW b, IsBuilder(b),
           TableSoFar(b, fs, vals, rs, DOMAIN fs), NEW v,
           SameFields(b.vec, v, b.fields), NEW vsize, NEW begin, NEW loc \in Nat, NEW i \in DOMAIN fs
    PROVE  EntryTells(EntryOf(v, vsize, begin, loc, b.fields, fs[i].vt), loc, b.vec,
                      fs[i], vals[i], rs[i])
<1> DEFINE id == fs[i].vt
           S == {k \in 1..b.fields : FieldId(v, k) = id}
<1>1. id \in Nat /\ id # 0 /\ id # 2
  BY DEF IsMessage, IsField
<1>2. EntryOf(v, vsize, begin, loc, b.fields, id) =
        IF S = {} THEN 0 ELSE loc - FieldOff(v, CHOOSE k \in S : TRUE)
  BY <1>1 DEF EntryOf
<1>3. ASSUME NEW k \in S
      PROVE  /\ IsStored(fs[i], vals[i])
             /\ FieldOff(v, k) \in Nat
             /\ PlacedAt(b.vec, FieldOff(v, k), fs[i], vals[i], rs[i])
  <2>1. PICK j \in DOMAIN fs :
          /\ IsStored(fs[j], vals[j]) /\ FieldId(b.vec, k) = fs[j].vt
          /\ PlacedAt(b.vec, FieldOff(b.vec, k), fs[j], vals[j], rs[j])
    BY DEF TableSoFar
  <2>2. j = i
    BY <2>1 DEF IsMessage, SameFields
  <2>3. FieldOff(v, k) = FieldOff(b.vec, k)
    BY DEF SameFields
  <2>4. PlacedAt(b.vec, FieldOff(v, k), fs[i], vals[i], rs[i])
    BY <2>1, <2>2, <2>3
  <2> QED  BY <2>1, <2>2, <2>4 DEF PlacedAt
<1>4. CASE IsStored(fs[i], vals[i])
  <2>1. \E k \in 1..b.fields : FieldId(b.vec, k) = id
    BY <1>4 DEF TableSoFar
  <2>2. S # {}
    BY <2>1 DEF SameFields
  <2> DEFINE k == CHOOSE k \in S : TRUE
  <2>3. k \in S
    BY <2>2
  <2>4. EntryOf(v, vsize, begin, loc, b.fields, id) = loc - FieldOff(v, k)
    BY <1>2, <2>2
  <2> HIDE DEF k, S
  <2>5. FieldOff(v, k) \in Nat /\ PlacedAt(b.vec, FieldOff(v, k), fs[i], vals[i], rs[i])
    BY <1>3, <2>3
  <2> QED  BY <1>4, <2>4, <2>5 DEF EntryTells
<1>5. CASE ~IsStored(fs[i], vals[i])
  <2>1. S = {}
    BY <1>3, <1>5
  <2> QED  BY <1>2, <1>5, <2>1 DEF EntryTells
<1> QED  BY <1>4, <1>5

\* EndTable finishes the table; what it writes over the soffset was pushed by
\* EndTable itself.
LEMMA EndTableKeeps ==
    ASSUME NEW fs, NEW vals, NEW rs, IsMessage(fs, vals, rs), NEW b, FieldsInScratch(b),
           TableSoFar(b, fs, vals, rs, DOMAIN fs), NEW begin \in Int
    PROVE  LET c == EndTable(b, begin)
           IN /\ IsBuilder(c) /\ Keeps(b.vec, c.vec)
              /\ c.minAlign >= b.minAlign /\ c.minAlign >= 4
              /\ TableOffset(b) \in Nat
              /\ TableWith(c.vec, TableOffset(b), c.vec.size, fs, vals, rs)
<1> DEFINE t == PushElement(b, LE4(0))
           loc == Size(t)
           vsize == Larger(t.maxVoffset + 2, FirstVoffset)
           g == Pad(t, vsize)
           bytes == VTable(g.vec, vsize, begin, loc, t.fields)
           w == Store(g.vec, Data(g.vec), bytes)
           p == ScratchPop(w, t.fields * FieldLocSize)
           kept == ScratchPush(p, LE4(w.size))
           link == Signed4(w.size - loc)
           s == Store(kept, DataAt(kept, loc), link)
           c == [t EXCEPT !.vec = s, !.fields = 0, !.maxVoffset = 0]
<1>0. /\ IsBuilder(b) /\ b.vec.size \in Nat /\ b.fields \in Nat /\ b.vec.scratch = 8 * b.fields
      /\ b.maxVoffset \in Nat /\ b.maxVoffset % 2 = 0
  BY BuilderTypes DEF FieldsInScratch, TableSoFar
<1>1. EndTable(b, begin) = c
  <2>1. IsBuilder(t)
    <3>1. IsBytes(LE4(0)) /\ Len(LE4(0)) = 4
      BY ScalarBytes
    <3> QED  BY <1>0, <3>1, PushElementExtends DEF Extends
  <2>2. g.vec = Fill(t.vec, vsize)
    <3> HIDE DEF t, vsize
    <3> QED  BY <2>1 DEF Pad, IsBuilder
  <2>3. w = PushVTable(t.vec, vsize, begin, loc, t.fields)
    BY <2>2 DEF PushVTable
  <2> QED  BY <2>3 DEF EndTable
<1>2. /\ Extends(b, t) /\ t.minAlign >= 4 /\ t.vec.size >= b.vec.size + 4
      /\ t.vec.size % 4 = 0
  <2>1. IsBytes(LE4(0)) /\ Len(LE4(0)) = 4
    BY ScalarBytes
  <2> QED  BY <1>0, <2>1, PushElementExtends
<1>r. TableOffset(b) = loc
  BY DEF TableOffset
<1> HIDE DEF t
<1>3. /\ IsBuilder(t) /\ t.vec.size \in Nat /\ t.fields = b.fields
      /\ t.maxVoffset = b.maxVoffset /\ t.vec.scratch = 8 * b.fields
  BY <1>0, <1>2, BuilderTypes DEF Extends
<1>4. /\ loc = t.vec.size /\ loc \in Nat /\ loc \in Int /\ loc % 4 = 0 /\ loc >= b.vec.size + 4
      /\ vsize \in Nat /\ vsize >= 4 /\ vsize % 2 = 0 /\ vsize >= b.maxVoffset + 2
  BY <1>0, <1>2, <1>3 DEF Size, Larger, FirstVoffset
<1> HIDE DEF loc, vsize
<1>5. /\ Extends(t, g) /\ g.vec.size = loc + vsize
  BY <1>3, <1>4, PadExtends
<1> HIDE DEF g
<1>6. /\ Extends(b, g) /\ IsBuilder(g) /\ IsVector(g.vec) /\ g.vec.size \in Nat
      /\ g.vec.reserved \in Nat /\ g.vec.scratch = 8 * b.fields
      /\ g.vec.size <= g.vec.reserved
  <2>1. Extends(b, g)
    BY <1>0, <1>2, <1>5, ExtendsTransitive
  <2>2. IsBuilder(g)
    BY <2>1 DEF Extends
  <2>3. IsVector(g.vec) /\ g.vec.size <= g.vec.reserved
    BY <2>2 DEF IsBuilder, IsVector
  <2>4. g.vec.size \in Nat /\ g.vec.reserved \in Nat
    BY <2>2, BuilderTypes
  <2>5. g.vec.scratch = 8 * b.fields
    BY <1>0, <2>1 DEF Extends
  <2> QED  BY <2>1, <2>2, <2>3, <2>4, <2>5
<1>7. ASSUME NEW k \in 1..b.fields
      PROVE  /\ FieldOff(g.vec, k) = FieldOff(b.vec, k) /\ FieldOff(g.vec, k) \in Int
             /\ FieldId(g.vec, k) = FieldId(b.vec, k)
  <2> DEFINE d == 0
  <2>1. d = 0 /\ d \in Nat /\ k + d = k
    BY <1>0
  <2>2. /\ IsVector(g.vec) /\ KeepsScratch(b.vec, g.vec)
        /\ g.vec.scratch = b.vec.scratch + 8 * d
    BY <1>0, <1>6 DEF Extends
  <2> HIDE DEF d
  <2>3. /\ FieldOff(g.vec, k + d) = FieldOff(b.vec, k) /\ FieldOff(g.vec, k + d) \in Int
        /\ FieldId(g.vec, k + d) = FieldId(b.vec, k)
    BY <2>1, <2>2, FieldsKept
  <2> QED  BY <2>1, <2>3
<1>i. FieldsReadable(g.vec, b.fields)
  BY <1>7 DEF FieldsReadable
<1>j. SameFields(b.vec, g.vec, b.fields)
  BY <1>7 DEF SameFields
<1>8. bytes = VTable(g.vec, vsize, begin, loc, b.fields)
  BY <1>3
<1>9. IsBytes(bytes) /\ Len(bytes) = vsize
  <2>1. /\ IsBytes(VTable(g.vec, vsize, begin, loc, b.fields))
        /\ Len(VTable(g.vec, vsize, begin, loc, b.fields)) = vsize
    BY <1>0, <1>4, <1>i, VTableBytes
  <2> QED  BY <1>8, <2>1
<1> HIDE DEF bytes
<1>10. Rewritten(g.vec, g.vec.size, bytes, w)
  <2>1. Data(g.vec) = DataAt(g.vec, g.vec.size)
    BY DEF Data, DataAt
  <2>2. Len(bytes) <= g.vec.size /\ g.vec.size <= g.vec.size
    BY <1>4, <1>5, <1>6, <1>9
  <2> QED  BY <1>6, <1>9, <2>1, <2>2, StoreRewrites
<1> HIDE DEF w
<1>11. /\ IsVector(w) /\ w.size = loc + vsize /\ w.scratch = 8 * b.fields /\ w.size \in Nat
       /\ Holds(w, w.size, bytes)
  BY <1>4, <1>5, <1>6, <1>10 DEF Rewritten
<1>12. Keeps(b.vec, w)
  <2>1. g.vec.size - Len(bytes) >= b.vec.size
    BY <1>0, <1>4, <1>5, <1>9
  <2>2. Keeps(b.vec, g.vec)
    BY <1>6 DEF Extends
  <2> QED  BY <1>0, <1>6, <1>9, <1>10, <2>1, <2>2, KeepsBelow
<1>13. t.fields * FieldLocSize \in 0..w.scratch
  BY <1>0, <1>3, <1>11 DEF FieldLocSize
<1>14. IsVector(p) /\ Keeps(w, p) /\ p.size = w.size
  BY <1>11, <1>13, ScratchFreed
<1> HIDE DEF p
<1>15. IsVector(kept) /\ Keeps(p, kept) /\ kept.size = w.size
  <2>1. IsBytes(LE4(w.size))
    BY <1>11, ScalarBytes
  <2> QED  BY <1>14, <2>1, ScratchPushKeeps
<1> HIDE DEF kept
<1>16. /\ p.size \in Nat /\ kept.size \in Nat /\ Keeps(w, kept) /\ Keeps(b.vec, kept)
  <2>1. p.size \in Nat /\ kept.size \in Nat
    BY <1>11, <1>14, <1>15
  <2>2. Keeps(w, kept)
    BY <1>11, <1>14, <1>15, <2>1, KeepsTransitive
  <2> QED  BY <1>0, <1>11, <1>12, <2>1, <2>2, KeepsTransitive
<1>17. IsBytes(link) /\ Len(link) = 4 /\ link = LE4(vsize)
  <2>1. w.size - loc = vsize /\ vsize >= 0 /\ vsize \in Int
    BY <1>4, <1>11
  <2> QED  BY <2>1, ScalarBytes DEF Signed4
<1> HIDE DEF link
<1>18. Rewritten(kept, loc, link, s)
  <2>1. Len(link) <= loc /\ loc <= kept.size
    BY <1>0, <1>4, <1>11, <1>15, <1>17
  <2> QED  BY <1>4, <1>15, <1>17, <2>1, StoreRewrites
<1> HIDE DEF s
<1>19. IsVector(s) /\ s.size = w.size /\ Holds(s, loc, link)
  BY <1>15, <1>18 DEF Rewritten
<1>20. Keeps(b.vec, s)
  <2>1. loc - Len(link) >= b.vec.size
    BY <1>0, <1>4, <1>17
  <2> QED  BY <1>0, <1>4, <1>16, <1>17, <1>18, <2>1, KeepsBelow
\* An entry of the vtable, as it is in the end.
<1>21. ASSUME NEW id \in Nat, id % 2 = 0, id + 2 <= vsize
       PROVE  Holds(s, s.size - id, LE2(EntryOf(g.vec, vsize, begin, loc, b.fields, id)))
  <2> DEFINE e == LE2(EntryOf(g.vec, vsize, begin, loc, b.fields, id))
  <2>1. Holds(w, w.size - id, e)
    BY <1>0, <1>4, <1>i, <1>8, <1>11, <1>21, VTableEntry
  <2>2. EntryOf(g.vec, vsize, begin, loc, b.fields, id) \in Int
    BY <1>0, <1>4, <1>i, VTableBytes DEF EntriesOf
  <2>3. IsBytes(e) /\ Len(e) = 2
    BY <2>2, ScalarBytes
  <2> HIDE DEF e
  <2>4. w.size - id \in Nat /\ (w.size - id) - Len(e) >= loc
    BY <1>4, <1>11, <1>21, <2>3
  <2>5. Holds(kept, w.size - id, e)
    BY <1>11, <1>16, <2>1, <2>3, <2>4, HoldsKept
  <2>6. Holds(s, w.size - id, e)
    BY <1>4, <1>16, <1>17, <1>18, <2>3, <2>4, <2>5, HoldsBeside
  <2> QED  BY <1>19, <2>6 DEF e
<1>22. Holds(s, s.size, LE2(vsize))
  <2>1. EntryOf(g.vec, vsize, begin, loc, b.fields, 0) = vsize
    BY DEF EntryOf
  <2>2. 0 \in Nat /\ 0 % 2 = 0 /\ 0 + 2 <= vsize /\ s.size - 0 = s.size
    BY <1>4, <1>11, <1>19
  <2> QED  BY <1>21, <2>1, <2>2
<1>23. ASSUME NEW i \in DOMAIN fs
       PROVE  EntryWith(s, loc, s.size, fs[i], vals[i], rs[i])
  <2> DEFINE id == fs[i].vt
             e == EntryOf(g.vec, vsize, begin, loc, b.fields, id)
  <2>1. id \in Nat /\ id % 2 = 0
    BY DEF IsMessage, IsField
  <2>2. s.size - loc = vsize
    BY <1>4, <1>11, <1>19
  <2>3. EntryTells(e, loc, b.vec, fs[i], vals[i], rs[i])
    BY <1>0, <1>4, <1>j, EntryOfField
  <2>4. id + 2 <= vsize => Holds(s, s.size - id, LE2(e))
    BY <1>21, <2>1
  <2> HIDE DEF e
  <2>5. CASE IsStored(fs[i], vals[i])
    <3>1. id <= b.maxVoffset
      BY <2>5 DEF TableSoFar
    <3>2. id + 2 <= vsize /\ id < vsize
      BY <1>0, <1>4, <2>1, <3>1
    <3>3. PICK off \in Nat : e = loc - off /\ PlacedAt(b.vec, off, fs[i], vals[i], rs[i])
      BY <2>3, <2>5 DEF EntryTells
    <3>4. off <= b.vec.size
      BY <3>3 DEF PlacedAt, Holds
    <3>5. off < loc
      BY <1>0, <1>4, <3>4
    <3>6. PlacedAt(s, off, fs[i], vals[i], rs[i])
      BY <1>0, <1>11, <1>19, <1>20, <3>3, PlacedKept
    <3>7. Holds(s, s.size - id, LE2(loc - off))
      BY <2>4, <3>2, <3>3
    <3> QED  BY <2>2, <2>5, <3>2, <3>5, <3>6, <3>7 DEF EntryWith
  <2>6. CASE ~IsStored(fs[i], vals[i])
    <3>1. id < vsize => id + 2 <= vsize
      BY <1>4, <2>1
    <3>2. id < vsize => Holds(s, s.size - id, LE2(0))
      BY <2>3, <2>4, <2>6, <3>1 DEF EntryTells
    <3> QED  BY <2>2, <2>6, <3>2 DEF EntryWith
  <2> QED  BY <2>5, <2>6
<1>24. TableWith(s, loc, s.size, fs, vals, rs)
  <2>1. s.size - loc = vsize /\ s.size \in Nat /\ s.size >= loc + 4
    BY <1>4, <1>11, <1>19
  <2> QED  BY <1>4, <1>17, <1>19, <1>22, <1>23, <2>1 DEF TableWith
<1>25. /\ c.vec = s /\ c.minAlign = t.minAlign
       /\ c \in [vec : {c.vec}, fields : Nat, maxVoffset : Nat, minAlign : {1, 4, 8}]
  BY <1>3 DEF IsBuilder
<1> HIDE DEF c
<1>26. IsBuilder(c)
  BY <1>19, <1>25 DEF IsBuilder
<1>27. c.minAlign >= b.minAlign /\ c.minAlign >= 4
  BY <1>2, <1>25 DEF Extends
<1> QED  BY <1>1, <1>4, <1>20, <1>24, <1>25, <1>26, <1>27, <1>r

\* Finish puts the offset of the table in front, and makes the whole a multiple
\* of its largest scalar.
LEMMA FinishKeeps ==
    ASSUME NEW b, IsBuilder(b), b.minAlign >= 4, NEW tableAt \in Nat, tableAt <= b.vec.size
    PROVE  LET c == Finish(b, tableAt)
           IN /\ IsBuilder(c) /\ Keeps(b.vec, c.vec)
              /\ c.vec.size >= b.vec.size + 4
              /\ c.vec.size % b.minAlign = 0
              /\ Holds(c.vec, c.vec.size, LE4(c.vec.size - tableAt))
<1> DEFINE v == ClearScratch(b.vec)
           c == [b EXCEPT !.vec = v]
           p == PreAlign(c, 4, c.minAlign)
           n == ReferTo(p, tableAt)
           f == PushElement(p, LE4(n))
<1>0. b.vec.size \in Nat /\ b.minAlign \in {4, 8} /\ IsVector(b.vec)
  BY BuilderTypes
<1>1. IsVector(v) /\ Keeps(b.vec, v) /\ v.size = b.vec.size
  BY <1>0, ScratchFreed
<1>2. Finish(b, tableAt) = f
  BY DEF Finish
<1> HIDE DEF v
<1>3. /\ c.vec = v /\ c.minAlign = b.minAlign
      /\ c \in [vec : {c.vec}, fields : Nat, maxVoffset : Nat, minAlign : {1, 4, 8}]
  BY DEF IsBuilder
<1> HIDE DEF c
<1>4. IsBuilder(c)
  BY <1>1, <1>3 DEF IsBuilder
<1>5. Extends(c, p) /\ (p.vec.size + 4) % b.minAlign = 0
  BY <1>0, <1>3, <1>4, PreAlignExtends
<1> HIDE DEF p
<1>6. /\ IsBuilder(p) /\ p.vec.size \in Nat /\ p.vec.size >= b.vec.size
      /\ p.vec.size % 4 = 0
  <2>1. IsBuilder(p) /\ p.vec.size \in Nat
    BY <1>5, BuilderTypes DEF Extends
  <2>2. p.vec.size >= b.vec.size
    BY <1>1, <1>3, <1>5 DEF Extends, Keeps
  <2>3. CASE b.minAlign = 4
    BY <1>5, <2>1, <2>2, <2>3
  <2>4. CASE b.minAlign = 8
    BY <1>5, <2>1, <2>2, <2>4
  <2> QED  BY <1>0, <2>3, <2>4
<1>7. Extends(p, Align(p, 4)) /\ Align(p, 4).vec.size = p.vec.size
  BY <1>6, AlignExtends
<1>8. n = p.vec.size - tableAt + 4 /\ n \in Int
  BY <1>6, <1>7 DEF ReferTo, Size
<1> HIDE DEF n
<1>9. IsBytes(LE4(n)) /\ Len(LE4(n)) = 4
  BY <1>8, ScalarBytes
<1>10. /\ Extends(p, f) /\ f.vec.size = p.vec.size + 4 /\ Holds(f.vec, f.vec.size, LE4(n))
  BY <1>6, <1>9, PushElementExtends
<1> HIDE DEF f
<1>11. n = f.vec.size - tableAt
  BY <1>6, <1>8, <1>10
<1>12. Extends(c, f) /\ IsBuilder(f)
  BY <1>4, <1>5, <1>10, ExtendsTransitive DEF Extends
<1>13. Keeps(b.vec, f.vec)
  BY <1>0, <1>1, <1>3, <1>4, <1>12, BuilderTypes, KeepsTransitive DEF Extends
<1>14. f.vec.size >= b.vec.size + 4 /\ f.vec.size % b.minAlign = 0
  BY <1>0, <1>5, <1>6, <1>10
<1> QED  BY <1>2, <1>10, <1>11, <1>12, <1>13, <1>14

-----------------------------------------------------------------------------
(* Reading what was written. *)

LEMMA FoursDiffer ==
    ASSUME NEW a \in Nat, NEW b \in Nat, a % 4 = 0, b % 4 = 0
    PROVE  (a - b) % 4 = 0
OBVIOUS

LEMMA EvensDiffer ==
    ASSUME NEW a \in Nat, NEW b \in Nat, NEW c \in Nat, a % 4 = 0, b % 4 = 0,
           (c - b) % 2 = 0
    PROVE  (a - c) % 2 = 0
<1>1. (a - b) % 4 = 0 /\ (a - b) \in Int
  BY FoursDiffer
<1> DEFINE x == a - b
           y == c - b
<1>2. x % 4 = 0 /\ y % 2 = 0 /\ x \in Int /\ y \in Int /\ a - c = x - y
  BY <1>1
<1> HIDE DEF x, y
<1> QED  BY <1>2

\* The bytes that are sent are the data of the block, lowest address first.
LEMMA ContentsBytes ==
    ASSUME NEW v, IsVector(v)
    PROVE  /\ IsBytes(Contents(v)) /\ Contents(v) \in Seq(Int) /\ Len(Contents(v)) = v.size
           /\ \A j \in 1..v.size : Contents(v)[j] = v.mem[(v.reserved - v.size) + j - 1]
<1> DEFINE B(j) == v.mem[(v.reserved - v.size) + j - 1]
           s == [j \in 1..v.size |-> B(j)]
<1>1. v.reserved \in Nat /\ v.size \in Nat /\ v.size <= v.reserved
  BY DEF IsVector
<1>2. Contents(v) = s
  BY DEF Contents, Data
<1>3. ASSUME NEW j \in 1..v.size PROVE B(j) \in Int
  <2>1. (v.reserved - v.size) + j - 1 \in 0..v.reserved - 1
    BY <1>1
  <2> QED  BY <2>1 DEF IsVector
<1>4. \A j \in 1..v.size : s[j] = B(j)
  OBVIOUS
<1> HIDE DEF B
<1>5. s \in Seq(Int) /\ Len(s) = v.size
  <2>1. s \in Seq(Int)
    BY <1>1, <1>3
  <2> QED  BY <1>1, <2>1
<1> HIDE DEF s
<1>6. IsBytes(s)
  BY <1>5, SequencesAreBytes
<1> QED  BY <1>2, <1>4, <1>5, <1>6 DEF B

\* The bytes at an offset of the block are those at the position as far from the
\* end of what a reader gets.
LEMMA ReadHeld ==
    ASSUME NEW v, IsVector(v), NEW o \in Nat, NEW bytes, IsBytes(bytes),
           Holds(v, o, bytes), NEW i \in 1..Len(bytes)
    PROVE  At(Contents(v), (v.size - o) + (i - 1)) = bytes[i]
<1> DEFINE s == Contents(v)
           j == (v.size - o) + i
<1>1. /\ v.reserved \in Nat /\ v.size \in Nat /\ Len(bytes) \in Nat
      /\ Len(bytes) <= o /\ o <= v.size
  BY DEF IsVector, IsBytes, Holds
<1>2. /\ Len(s) = v.size
      /\ \A k \in 1..v.size : s[k] = v.mem[(v.reserved - v.size) + k - 1]
  BY ContentsBytes
<1> HIDE DEF s
<1>3. /\ j \in 1..v.size /\ 0 <= (v.size - o) + (i - 1)
      /\ (v.size - o) + (i - 1) < v.size /\ ((v.size - o) + (i - 1)) + 1 = j
      /\ (v.reserved - v.size) + j - 1 = v.reserved - (o + 1 - i)
  BY <1>1
<1> HIDE DEF j
<1>4. At(s, (v.size - o) + (i - 1)) = s[j]
  BY <1>2, <1>3 DEF At
<1>5. s[j] = v.mem[v.reserved - (o + 1 - i)]
  BY <1>2, <1>3
<1>6. v.mem[v.reserved - (o + 1 - i)] = bytes[i]
  BY DEF Holds
<1> QED  BY <1>4, <1>5, <1>6 DEF s

\* A number reads as it was stored.
LEMMA ReadNumbers ==
    ASSUME NEW v, IsVector(v), NEW o \in Nat, NEW n \in Nat
    PROVE  /\ Holds(v, o, LE2(n)) => U2(Contents(v), v.size - o) = n
           /\ Holds(v, o, LE4(n)) => I4(Contents(v), v.size - o) = n
<1> DEFINE s == Contents(v)
           p == v.size - o
<1>0. v.size \in Nat /\ p \in Int /\ n \in Int
  BY DEF IsVector
<1>1. /\ IsBytes(LE2(n)) /\ Len(LE2(n)) = 2 /\ IsBytes(LE4(n)) /\ Len(LE4(n)) = 4
  BY <1>0, ScalarBytes
<1>2. ASSUME Holds(v, o, LE2(n)) PROVE U2(s, p) = n
  <2>1. \A i \in 1..2 : At(s, p + (i - 1)) = LE2(n)[i]
    BY <1>1, <1>2, ReadHeld
  <2> HIDE DEF s, p
  <2>2. At(s, p + (1 - 1)) = LE2(n)[1] /\ At(s, p + (2 - 1)) = LE2(n)[2]
    BY <2>1
  <2>3. p + (1 - 1) = p /\ p + (2 - 1) = p + 1
    BY <1>0
  <2>4. U2(s, p) = LE2(n)[1] + 256 * LE2(n)[2]
    BY <2>2, <2>3 DEF U2
  <2> QED  BY <2>4, LittleEndian
<1>3. ASSUME Holds(v, o, LE4(n)) PROVE I4(s, p) = n
  <2>1. ASSUME NEW i \in 1..4 PROVE At(s, p + (i - 1)) = LE4(n)[i]
    <3> DEFINE bytes == LE4(n)
    <3>1. IsBytes(bytes) /\ i \in 1..Len(bytes) /\ Holds(v, o, bytes)
      BY <1>1, <1>3
    <3> HIDE DEF bytes
    <3>2. At(Contents(v), (v.size - o) + (i - 1)) = bytes[i]
      BY <3>1, ReadHeld
    <3> QED  BY <3>2 DEF bytes
  <2> HIDE DEF s, p
  <2>2. /\ At(s, p + (1 - 1)) = LE4(n)[1] /\ At(s, p + (2 - 1)) = LE4(n)[2]
        /\ At(s, p + (3 - 1)) = LE4(n)[3] /\ At(s, p + (4 - 1)) = LE4(n)[4]
    BY <2>1
  <2>3. p + (1 - 1) = p /\ p + (2 - 1) = p + 1 /\ p + (3 - 1) = p + 2 /\ p + (4 - 1) = p + 3
    BY <1>0
  <2>4. /\ At(s, p) = LE4(n)[1] /\ At(s, p + 1) = LE4(n)[2]
        /\ At(s, p + 2) = LE4(n)[3] /\ At(s, p + 3) = 0
    BY <2>2, <2>3, LittleEndian
  <2>5. LE4(n)[1] + 256 * LE4(n)[2] + 65536 * LE4(n)[3] = n
    BY LittleEndian
  <2>6. LE4(n)[1] \in Int /\ LE4(n)[2] \in Int /\ LE4(n)[3] \in Int
    BY <1>1 DEF IsBytes
  <2>7. I4(s, p) = LE4(n)[1] + 256 * LE4(n)[2] + 65536 * LE4(n)[3] + 16777216 * 0
    BY <2>4 DEF I4
  <2> QED  BY <2>5, <2>6, <2>7
<1> QED  BY <1>2, <1>3

\* So does a string of bytes.
LEMMA ReadSlice ==
    ASSUME NEW v, IsVector(v), NEW o \in Nat, NEW bytes \in Seq(Int), Holds(v, o, bytes)
    PROVE  Slice(Contents(v), v.size - o, Len(bytes)) = bytes
<1> DEFINE s == Contents(v)
           n == Len(bytes)
           p == v.size - o
<1>1. IsBytes(bytes) /\ n \in Nat
  BY SequencesAreBytes
<1>0. p \in Int
  BY DEF IsVector
<1>2. \A i \in 1..n : At(s, p + (i - 1)) = bytes[i]
  BY <1>1, ReadHeld
<1>3. \A i \in 1..n : At(s, p + i - 1) = bytes[i]
  <2> HIDE DEF s, p
  <2>1. \A i \in 1..n : p + i - 1 = p + (i - 1)
    BY <1>0
  <2> QED  BY <1>2, <2>1
<1> HIDE DEF s, p, n
<1>4. Slice(s, p, n) = [i \in 1..n |-> bytes[i]]
  BY <1>3 DEF Slice
<1>5. bytes = [i \in 1..n |-> bytes[i]]
  BY DEF n
<1> QED  BY <1>4, <1>5 DEF s, p, n

-----------------------------------------------------------------------------
(* A message as it is sent. *)

Refers(v, f, value, ref) ==
    ReferenceAt(v, ref, value) /\ (f.type = "string" => TerminatedAt(v, ref, value))

ReferencesIn(v, fs, vals, rs) ==
    \A i \in DOMAIN fs : IsReference(fs[i]) /\ vals[i] # Absent =>
       Refers(v, fs[i], vals[i], rs[i])

MessageIn(v, tableAt, fs, vals, rs) ==
    /\ IsVector(v)
    /\ \E vtable \in Nat : TableWith(v, tableAt, vtable, fs, vals, rs) /\ vtable + 4 <= v.size
    /\ ReferencesIn(v, fs, vals, rs)
    /\ v.size % 4 = 0
    /\ \A i \in DOMAIN fs : IsStored(fs[i], vals[i]) => v.size % SizeOf(fs[i]) = 0
    /\ Holds(v, v.size, LE4(v.size - tableAt))

\* What the reader computes first: where the table and its vtable lie.
LEMMA TableFound ==
    ASSUME NEW fs, NEW vals, NEW rs, NEW v, NEW tableAt, NEW vtable, IsVector(v),
           TableWith(v, tableAt, vtable, fs, vals, rs), vtable + 4 <= v.size,
           v.size % 4 = 0, Holds(v, v.size, LE4(v.size - tableAt))
    PROVE  LET s == Contents(v)
           IN /\ Root(s) = v.size - tableAt
              /\ VTableOf(s, Root(s)) = v.size - vtable
              /\ U2(s, v.size - vtable) = vtable - tableAt
              /\ Len(s) >= MinBufferSize /\ Offset(s, 0) /\ TableStart(s, Root(s))
<1> DEFINE s == Contents(v)
           n == v.size
<1>0. /\ n \in Nat /\ tableAt \in Nat /\ vtable \in Nat /\ tableAt % 4 = 0 /\ vtable >= tableAt + 4
      /\ (vtable - tableAt) % 2 = 0 /\ vtable + 4 <= n /\ n % 4 = 0
      /\ Holds(v, tableAt, LE4(vtable - tableAt)) /\ Holds(v, vtable, LE2(vtable - tableAt))
  BY DEF IsVector, TableWith
<1>1. n - tableAt \in Nat /\ vtable - tableAt \in Nat /\ n - n = 0
  BY <1>0
<1>2. I4(s, 0) = n - tableAt
  BY <1>0, <1>1, ReadNumbers
<1>3. I4(s, n - tableAt) = vtable - tableAt
  BY <1>0, <1>1, ReadNumbers
<1>4. U2(s, n - vtable) = vtable - tableAt
  BY <1>0, <1>1, ReadNumbers
<1>5. Root(s) = n - tableAt
  BY <1>2 DEF Root
<1>6. VTableOf(s, n - tableAt) = n - vtable
  BY <1>0, <1>3 DEF VTableOf
<1>7. tableAt >= 4 /\ n - tableAt > 0
  <2> DEFINE len == vtable - tableAt
  <2>1. Len(LE4(len)) = 4
    <3>1. len \in Int
      BY <1>1
    <3> HIDE DEF len
    <3> QED  BY <3>1, ScalarBytes
  <2>2. Len(LE4(len)) <= tableAt
    BY <1>0 DEF Holds
  <2> HIDE DEF len, n
  <2> QED  BY <1>0, <2>1, <2>2
<1>8. Len(s) = n
  BY ContentsBytes
<1> HIDE DEF s, n
<1>9. Len(s) >= MinBufferSize
  BY <1>0, <1>7, <1>8 DEF MinBufferSize
<1>10. Offset(s, 0)
  <2>1. Scalar(s, 0, 4)
    BY <1>0, <1>7, <1>8 DEF Scalar, InRange
  <2>2. I4(s, 0) > 0 /\ 0 + I4(s, 0) = n - tableAt
    BY <1>0, <1>2, <1>7
  <2>3. InRange(s, n - tableAt, 1)
    BY <1>0, <1>7, <1>8 DEF InRange
  <2> QED  BY <2>1, <2>2, <2>3 DEF Offset
<1>11. TableStart(s, n - tableAt)
  <2>0. (n - tableAt) % 4 = 0 /\ (n - vtable) % 2 = 0
    <3>1. /\ n \in Nat /\ tableAt \in Nat /\ vtable \in Nat
          /\ n % 4 = 0 /\ tableAt % 4 = 0 /\ (vtable - tableAt) % 2 = 0
      BY <1>0
    <3>2. (n - tableAt) % 4 = 0
      BY <3>1, FoursDiffer
    <3>3. (n - vtable) % 2 = 0
      BY <3>1, EvensDiffer
    <3> QED  BY <3>2, <3>3
  <2>1. Scalar(s, n - tableAt, 4)
    <3>1. InRange(s, n - tableAt, 4)
      BY <1>0, <1>7, <1>8 DEF InRange
    <3> QED  BY <2>0, <3>1 DEF Scalar
  <2>2. Scalar(s, n - vtable, 2)
    <3>1. InRange(s, n - vtable, 2)
      BY <1>0, <1>7, <1>8 DEF InRange
    <3> QED  BY <2>0, <3>1 DEF Scalar
  <2>3. InRange(s, n - vtable, vtable - tableAt)
    BY <1>0, <1>7, <1>8 DEF InRange
  <2> QED  BY <1>0, <1>4, <1>6, <2>1, <2>2, <2>3 DEF TableStart
<1> QED  BY <1>4, <1>5, <1>6, <1>9, <1>10, <1>11 DEF s, n

\* Every field of a message that arrives whole passes the verification, and its
\* accessor returns the value the builder was given.
LEMMA FieldFound ==
    ASSUME NEW fs, NEW vals, NEW rs, IsMessage(fs, vals, rs), NEW v, NEW tableAt,
           MessageIn(v, tableAt, fs, vals, rs), NEW i \in DOMAIN fs
    PROVE  /\ FieldVerified(Contents(v), Root(Contents(v)), fs[i])
           /\ Get(Contents(v), fs[i]) = vals[i]
<1> DEFINE s == Contents(v)
           n == v.size
           f == fs[i]
           table == n - tableAt
           off == FieldOffset(s, table, f.vt)
           at == Target(s, table, f.vt)
<1>1. PICK vtable \in Nat : TableWith(v, tableAt, vtable, fs, vals, rs) /\ vtable + 4 <= n
  BY DEF MessageIn
<1>2. /\ Root(s) = table /\ VTableOf(s, Root(s)) = n - vtable
      /\ U2(s, n - vtable) = vtable - tableAt
  BY <1>1, TableFound DEF MessageIn
<1>3. /\ n \in Nat /\ tableAt \in Nat /\ vtable \in Nat /\ vtable >= tableAt + 4 /\ vtable + 4 <= n
      /\ n % 4 = 0 /\ IsVector(v) /\ Len(s) = n
      /\ EntryWith(v, tableAt, vtable, f, vals[i], rs[i])
  BY <1>1, ContentsBytes DEF TableWith, MessageIn, IsVector
<1>4. /\ IsField(f) /\ vals[i] \in Seq(Int) /\ rs[i] \in Nat
      /\ ~IsReference(f) => Len(vals[i]) = Width(f)
  BY DEF IsMessage
<1>5. f.vt \in Nat
  BY <1>4 DEF IsField
<1>6. off = IF f.vt < vtable - tableAt THEN U2(s, n - (vtable - f.vt)) ELSE 0
  <2>1. VTableOf(s, table) = n - vtable
    BY <1>2
  <2>2. (n - vtable) + f.vt = n - (vtable - f.vt)
    BY <1>3, <1>5
  <2> QED  BY <1>2, <2>1, <2>2 DEF FieldOffset
<1>7. CASE ~IsStored(f, vals[i])
  <2>1. f.vt < vtable - tableAt => Holds(v, vtable - f.vt, LE2(0))
    BY <1>3, <1>7 DEF EntryWith
  <2>2. f.vt < vtable - tableAt => U2(s, n - (vtable - f.vt)) = 0
    <3> SUFFICES ASSUME f.vt < vtable - tableAt
                 PROVE  U2(s, n - (vtable - f.vt)) = 0
      OBVIOUS
    <3>1. vtable - f.vt \in Nat
      BY <1>3, <1>5
    <3> QED  BY <1>3, <2>1, <3>1, ReadNumbers
  <2>3. off = 0
    BY <1>6, <2>2
  <2>4. vals[i] = IF IsReference(f) THEN Absent ELSE f.default
    BY <1>7 DEF IsStored
  <2>5. FieldVerified(s, table, f)
    BY <2>3 DEF FieldVerified
  <2>6. Get(s, f) = vals[i]
    BY <1>2, <2>3, <2>4 DEF Get
  <2> QED  BY <1>2, <2>5, <2>6
<1>8. CASE IsStored(f, vals[i])
  <2>1. PICK o \in Nat : /\ o < tableAt
                         /\ PlacedAt(v, o, f, vals[i], rs[i])
                         /\ Holds(v, vtable - f.vt, LE2(tableAt - o))
    BY <1>3, <1>8 DEF EntryWith
  <2>2. f.vt < vtable - tableAt
    BY <1>3, <1>8 DEF EntryWith
  <2>3. off = tableAt - o
    <3>1. vtable - f.vt \in Nat /\ tableAt - o \in Nat
      BY <1>3, <1>5, <2>1, <2>2
    <3> QED  BY <1>3, <1>6, <2>1, <2>2, <3>1, ReadNumbers
  <2>4. off # 0 /\ table + off = n - o
    BY <1>3, <2>1, <2>3
  <2>5. n % SizeOf(f) = 0 /\ o % SizeOf(f) = 0 /\ Holds(v, o, Content(f, vals[i], rs[i], o))
    BY <1>8, <2>1 DEF PlacedAt, MessageIn
  <2>6. SizeOf(f) \in {1, 4, 8} /\ Len(Content(f, vals[i], rs[i], o)) = SizeOf(f)
    BY ContentBytes
  <2>7. SizeOf(f) <= o
    BY <2>5, <2>6 DEF Holds
  <2> HIDE DEF off, s, n
  <2>8. Scalar(s, n - o, SizeOf(f))
    <3>1. InRange(s, n - o, SizeOf(f))
      BY <1>3, <2>1, <2>6, <2>7 DEF InRange
    <3>2. (n - o) % SizeOf(f) = 0
      <4>1. CASE SizeOf(f) = 1
        BY <1>3, <2>1, <4>1
      <4>2. CASE SizeOf(f) = 4
        BY <1>3, <2>1, <2>5, <4>2
      <4>3. CASE SizeOf(f) = 8
        BY <1>3, <2>1, <2>5, <4>3
      <4> QED  BY <2>6, <4>1, <4>2, <4>3
    <3> QED  BY <3>1, <3>2 DEF Scalar
  <2>9. CASE ~IsReference(f)
    <3>1. SizeOf(f) = Width(f) /\ Content(f, vals[i], rs[i], o) = vals[i]
      BY <2>9 DEF SizeOf, Content
    <3>2. FieldVerified(s, table, f)
      BY <2>4, <2>8, <2>9, <3>1 DEF FieldVerified, IsReference, off
    <3>3. Get(s, f) = Slice(s, n - o, Width(f))
      BY <1>2, <2>4, <2>9 DEF Get, off
    <3>4. Slice(s, n - o, Len(vals[i])) = vals[i]
      BY <1>3, <1>4, <2>5, <3>1, ReadSlice DEF s, n
    <3> QED  BY <1>2, <1>4, <2>9, <3>2, <3>3, <3>4 DEF s
  <2>10. CASE IsReference(f)
    <3> DEFINE r == rs[i]
               len == Len(vals[i])
    <3>1. /\ SizeOf(f) = 4 /\ Content(f, vals[i], rs[i], o) = LE4(o - r) /\ r < o
      BY <2>1, <2>10 DEF SizeOf, Content, PlacedAt
    <3>2. vals[i] # Absent
      BY <1>8, <2>10 DEF IsStored
    <3>3. /\ ReferenceAt(v, r, vals[i])
          /\ f.type = "string" => TerminatedAt(v, r, vals[i])
      BY <2>10, <3>2 DEF MessageIn, ReferencesIn, Refers
    <3>4. len \in Nat /\ IsBytes(vals[i])
      BY <1>4, SequencesAreBytes
    <3>5. /\ r \in Nat /\ r >= 4 + len /\ r % 4 = 0 /\ r - 4 \in Nat
          /\ Holds(v, r, LE4(len)) /\ Holds(v, r - 4, vals[i])
      BY <3>3, <3>4 DEF ReferenceAt
    <3> HIDE DEF r, len
    <3>6. I4(s, n - o) = o - r
      <4>1. o - r \in Nat
        BY <2>1, <3>1, <3>5
      <4> QED  BY <1>3, <2>1, <2>5, <3>1, <4>1, ReadNumbers DEF s, n
    <3>7. I4(s, n - r) = len
      BY <1>3, <3>4, <3>5, ReadNumbers DEF s, n
    <3>8. at = n - r
      <4>1. at = (n - o) + I4(s, n - o)
        BY <2>4 DEF Target, off
      <4> QED  BY <1>3, <2>1, <3>5, <3>6, <4>1
    <3> HIDE DEF at
    <3>9. Offset(s, n - o)
      <4>1. I4(s, n - o) > 0 /\ (n - o) + I4(s, n - o) = n - r
        BY <1>3, <2>1, <3>1, <3>5, <3>6
      <4>2. InRange(s, n - r, 1)
        BY <1>3, <2>1, <3>1, <3>4, <3>5 DEF InRange
      <4> QED  BY <2>8, <3>1, <4>1, <4>2 DEF Offset
    <3>10. ByteVector(s, n - r)
      <4>1. Scalar(s, n - r, 4)
        <5>1. InRange(s, n - r, 4)
          BY <1>3, <2>1, <3>1, <3>4, <3>5 DEF InRange
        <5>2. (n - r) % 4 = 0
          <6>1. n \in Nat /\ r \in Nat /\ n % 4 = 0 /\ r % 4 = 0
            BY <1>3, <3>5
          <6> QED  BY <6>1, FoursDiffer
        <5> QED  BY <5>1, <5>2 DEF Scalar
      <4>2. InRange(s, n - r, 4 + len)
        BY <1>3, <2>1, <3>1, <3>4, <3>5 DEF InRange
      <4> QED  BY <3>4, <3>7, <4>1, <4>2 DEF ByteVector
    <3>11. f.type = "string" => String(s, n - r)
      <4> SUFFICES ASSUME f.type = "string" PROVE String(s, n - r)
        OBVIOUS
      <4> DEFINE z == r - 4 - len
      <4>1. z \in Nat /\ Holds(v, z, <<0>>)
        BY <3>3 DEF TerminatedAt, len
      <4>2. 1 <= z
        BY <4>1 DEF Holds
      <4>3. (n - r) + 4 + I4(s, n - r) = n - z
        BY <1>3, <3>4, <3>5, <3>7
      <4>4. (n - z) + (1 - 1) = n - z
        BY <1>3, <4>1
      <4> HIDE DEF z
      <4>5. At(s, n - z) = 0
        <5>1. IsBytes(<<0>>) /\ Len(<<0>>) = 1 /\ <<0>>[1] = 0
          BY DEF IsBytes
        <5>2. At(s, (n - z) + (1 - 1)) = <<0>>[1]
          BY <1>3, <4>1, <5>1, ReadHeld DEF s, n
        <5> QED  BY <4>4, <5>1, <5>2
      <4>6. InRange(s, n - z, 1)
        <5>1. z <= n
          BY <4>1 DEF Holds, n
        <5> QED  BY <1>3, <4>1, <4>2, <5>1 DEF InRange
      <4> QED  BY <3>10, <4>3, <4>5, <4>6 DEF String
    <3>12. FieldVerified(s, table, f)
      <4>1. f.type \in {"string", "bytes"}
        BY <2>10 DEF IsReference
      <4> QED  BY <2>4, <3>8, <3>9, <3>10, <3>11, <4>1 DEF FieldVerified, off, at
    <3>13. Get(s, f) = Slice(s, at + 4, I4(s, at))
      BY <1>2, <2>4, <2>10 DEF Get, off, at
    <3>14. at + 4 = n - (r - 4)
      BY <1>3, <3>5, <3>8
    <3>15. Slice(s, n - (r - 4), len) = vals[i]
      BY <1>3, <1>4, <3>5, ReadSlice DEF s, n, len
    <3> QED  BY <1>2, <3>7, <3>8, <3>12, <3>13, <3>14, <3>15 DEF s
  <2> QED  BY <2>9, <2>10
<1> QED  BY <1>7, <1>8

\* A whole message is verified and reads as its values.
LEMMA MessageReads ==
    ASSUME NEW fs, NEW vals, NEW rs, IsMessage(fs, vals, rs), NEW v, NEW tableAt,
           MessageIn(v, tableAt, fs, vals, rs)
    PROVE  /\ VerifyBuffer(Contents(v), fs)
           /\ \A i \in DOMAIN fs : Get(Contents(v), fs[i]) = vals[i]
<1>1. PICK vtable \in Nat : TableWith(v, tableAt, vtable, fs, vals, rs) /\ vtable + 4 <= v.size
  BY DEF MessageIn
<1>2. /\ Len(Contents(v)) >= MinBufferSize /\ Offset(Contents(v), 0)
      /\ TableStart(Contents(v), Root(Contents(v)))
  BY <1>1, TableFound DEF MessageIn
<1> QED  BY <1>2, FieldFound DEF VerifyBuffer

-----------------------------------------------------------------------------
(* The inductive invariant. *)

\* The values of a message are those its schema allows.
ValuesInv ==
    /\ kind \in Kinds /\ reader \in Kinds
    /\ values \in MessageValues(kind)
    /\ pending \subseteq DOMAIN values
    /\ refs \in [DOMAIN Fields -> Nat]

\* The builder of a message, as far as it is.
BuilderInv ==
    /\ phase \in {"idle", "references", "fields", "finish", "sent", "accepted", "refused",
                  "crashed"}
    /\ IsBuilder(builder)
    /\ phase \in {"references", "fields"} => FieldsInScratch(builder)
    /\ phase = "references" => builder.fields = 0 /\ builder.maxVoffset = 0
    /\ start \in Nat /\ root \in Nat

\* The strings and vectors that have been created.
Created(i) ==
    /\ IsReference(Fields[i]) /\ values[i] # Absent
    /\ phase = "references" => i \notin pending

\* Every one of them still lies where its offset says; the others have no offset.
ReferencesInv ==
    /\ phase = "references" => \A i \in pending : IsReference(Fields[i]) /\ values[i] # Absent
    /\ \A i \in DOMAIN Fields :
          IF Created(i) THEN Refers(builder.vec, Fields[i], values[i], refs[i])
          ELSE refs[i] = 0

\* The table: the fields added so far; then with its vtable; then behind the
\* root offset of a whole message.
TableInv ==
    /\ phase = "fields" =>
          TableSoFar(builder, Fields, values, refs, DOMAIN Fields \ pending)
    /\ phase = "finish" =>
          /\ TableWith(builder.vec, root, builder.vec.size, Fields, values, refs)
          /\ builder.minAlign >= 4
          /\ \A i \in DOMAIN Fields :
                IsStored(Fields[i], values[i]) => SizeOf(Fields[i]) <= builder.minAlign
    /\ phase = "sent" \/ Delivered => MessageIn(builder.vec, root, Fields, values, refs)

\* The bytes: those of the builder as they are sent, any that a handler is let
\* see verified, and those of a whole message read as they were put in.
WireInv ==
    /\ phase = "sent" => wire = Contents(builder.vec)
    /\ Delivered /\ phase # "refused" => IsBytes(wire) /\ VerifyBuffer(wire, Schema[reader])
    /\ RoundTrip

IInv == ValuesInv /\ BuilderInv /\ ReferencesInv /\ TableInv /\ WireInv

-----------------------------------------------------------------------------
(* Schemas and values. *)

LEMMA FieldTypes ==
    ASSUME NEW vt \in {4, 6, 8, 10, 12},
           NEW type \in {"int8", "int32", "int64", "string", "bytes"}
    PROVE  IsField(Field(vt, type)) /\ Field(vt, type).vt = vt
BY DEF Field, IsField

\* No schema has more than five fields, and no two of one share their entry in
\* the vtable.
LEMMA SchemaFields ==
    ASSUME NEW k \in Kinds
    PROVE  /\ DOMAIN Schema[k] \subseteq 1..5
           /\ \A i \in DOMAIN Schema[k] : IsField(Schema[k][i])
           /\ \A i, j \in DOMAIN Schema[k] : Schema[k][i].vt = Schema[k][j].vt => i = j
<1> DEFINE Good(s) == /\ DOMAIN s \subseteq 1..5
                      /\ \A i \in DOMAIN s : IsField(s[i])
                      /\ \A i, j \in DOMAIN s : s[i].vt = s[j].vt => i = j
<1> DEFINE F(vt, type) == Field(vt, type)
<1>1. /\ IsField(F(4, "int64")) /\ F(4, "int64").vt = 4
      /\ IsField(F(4, "string")) /\ F(4, "string").vt = 4
      /\ IsField(F(4, "bytes")) /\ F(4, "bytes").vt = 4
      /\ IsField(F(6, "int32")) /\ F(6, "int32").vt = 6
      /\ IsField(F(10, "string")) /\ F(10, "string").vt = 10
      /\ IsField(F(6, "string")) /\ F(6, "string").vt = 6
      /\ IsField(F(8, "int8")) /\ F(8, "int8").vt = 8
      /\ IsField(F(4, "int8")) /\ F(4, "int8").vt = 4
      /\ IsField(F(12, "int32")) /\ F(12, "int32").vt = 12
      /\ IsField(F(8, "int32")) /\ F(8, "int32").vt = 8
  BY FieldTypes
<1> HIDE DEF F
<1>2. Good(VoidRequest) /\ Good(VoidResponse)
  BY DEF VoidRequest, VoidResponse
<1>3. Good(Int64Request)
  BY <1>1 DEF Int64Request, F
<1>4. Good(StringRequest)
  BY <1>1 DEF StringRequest, F
<1>5. Good(BytesRequest)
  BY <1>1 DEF BytesRequest, F
<1>6. Good(BtRfcommData)
  <2> DEFINE a == F(6, "int32")
             b == F(4, "bytes")
  <2>1. BtRfcommData = <<a, b>> /\ IsField(a) /\ IsField(b) /\ a.vt = 6 /\ b.vt = 4
    BY <1>1 DEF BtRfcommData, F
  <2> HIDE DEF a, b
  <2> QED  BY <2>1
<1>7. Good(CarPlayAvailability)
  <2> DEFINE a == F(10, "string")
             b == F(6, "string")
             c == F(8, "int8")
             d == F(4, "int8")
  <2>1. /\ CarPlayAvailability = <<a, b, c, d>>
        /\ IsField(a) /\ IsField(b) /\ IsField(c) /\ IsField(d)
        /\ a.vt = 10 /\ b.vt = 6 /\ c.vt = 8 /\ d.vt = 4
    BY <1>1 DEF CarPlayAvailability, F
  <2> HIDE DEF a, b, c, d
  <2> QED  BY <2>1
<1>8. Good(HostapdInfo)
  <2> DEFINE a == F(12, "int32")
             b == F(10, "string")
             c == F(8, "int32")
             d == F(6, "string")
             e == F(4, "string")
  <2>1. /\ HostapdInfo = <<a, b, c, d, e>>
        /\ IsField(a) /\ IsField(b) /\ IsField(c) /\ IsField(d) /\ IsField(e)
        /\ a.vt = 12 /\ b.vt = 10 /\ c.vt = 8 /\ d.vt = 6 /\ e.vt = 4
    BY <1>1 DEF HostapdInfo, F
  <2> HIDE DEF a, b, c, d, e
  <2> QED  BY <2>1
<1>9. Schema[k] \in {VoidRequest, VoidResponse, Int64Request, StringRequest, BytesRequest,
                     BtRfcommData, CarPlayAvailability, HostapdInfo}
  BY DEF Kinds, Schema
<1>10. Good(Schema[k])
  <2> HIDE DEF Good
  <2> QED  BY <1>2, <1>3, <1>4, <1>5, <1>6, <1>7, <1>8, <1>9
<1> QED  BY <1>10

LEMMA BytesAreIntegers ==
    ASSUME NEW s, s \in Seq(0..255) \/ s \in Seq(1..255)
    PROVE  s \in Seq(Int)
<1>1. 0..255 \subseteq Int /\ 1..255 \subseteq Int
  OBVIOUS
<1>2. Seq(0..255) \subseteq Seq(Int)
  BY <1>1, SeqMonotonic
<1>3. Seq(1..255) \subseteq Seq(Int)
  BY <1>1, SeqMonotonic
<1> QED  BY <1>2, <1>3

\* A value has the length of its field.
LEMMA ValueTypes ==
    ASSUME NEW f, IsField(f), NEW value \in ValuesOf(f)
    PROVE  value \in Seq(Int) /\ (~IsReference(f) => Len(value) = Width(f))
<1>1. Absent \in Seq(Int)
  BY DEF Absent
<1>2. CASE f.type = "string"
  <2>1. value \in Strings \cup {Absent}
    BY <1>2 DEF ValuesOf
  <2>2. value \in Seq(1..255) \/ value = Absent
    BY <2>1, ValuesAssumption
  <2> QED  BY <1>1, <1>2, <2>2, BytesAreIntegers DEF IsReference
<1>3. CASE f.type = "bytes"
  <2>1. value \in ByteVectors \cup {Absent}
    BY <1>3 DEF ValuesOf
  <2>2. value \in Seq(0..255) \/ value = Absent
    BY <2>1, ValuesAssumption
  <2> QED  BY <1>1, <1>3, <2>2, BytesAreIntegers DEF IsReference
<1>4. CASE f.type = "int8"
  <2>1. value \in Seq(0..255) /\ Len(value) = 1 /\ Width(f) = 1
    BY <1>4, ValuesAssumption DEF ValuesOf, Width
  <2> QED  BY <2>1, BytesAreIntegers
<1>5. CASE f.type = "int32"
  <2>1. value \in Seq(0..255) /\ Len(value) = 4 /\ Width(f) = 4
    BY <1>5, ValuesAssumption DEF ValuesOf, Width
  <2> QED  BY <2>1, BytesAreIntegers
<1>6. CASE f.type = "int64"
  <2>1. value \in Seq(0..255) /\ Len(value) = 8 /\ Width(f) = 8
    BY <1>6, ValuesAssumption DEF ValuesOf, Width
  <2> QED  BY <2>1, BytesAreIntegers
<1> QED  BY <1>2, <1>3, <1>4, <1>5, <1>6 DEF IsField

\* The message of a state is one the lemmas above are about.
LEMMA MessageTypes ==
    ASSUME ValuesInv
    PROVE  /\ IsMessage(Fields, values, refs)
           /\ DOMAIN values = DOMAIN Fields /\ DOMAIN Fields \subseteq 1..5
           /\ \A i \in DOMAIN Fields : IsField(Fields[i]) /\ IsBytes(values[i])
<1>1. /\ DOMAIN Fields \subseteq 1..5
      /\ \A i \in DOMAIN Fields : IsField(Fields[i])
      /\ \A i, j \in DOMAIN Fields : Fields[i].vt = Fields[j].vt => i = j
  BY SchemaFields DEF ValuesInv, Fields
<1>2. DOMAIN values = DOMAIN Fields /\ \A i \in DOMAIN Fields : values[i] \in ValuesOf(Fields[i])
  BY DEF ValuesInv, MessageValues, Fields
<1>3. ASSUME NEW i \in DOMAIN Fields
      PROVE  /\ values[i] \in Seq(Int) /\ IsBytes(values[i]) /\ refs[i] \in Nat
             /\ ~IsReference(Fields[i]) => Len(values[i]) = Width(Fields[i])
  <2>1. IsField(Fields[i]) /\ values[i] \in ValuesOf(Fields[i])
    BY <1>1, <1>2
  <2>2. values[i] \in Seq(Int) /\ (~IsReference(Fields[i]) => Len(values[i]) = Width(Fields[i]))
    BY <2>1, ValueTypes
  <2>3. refs[i] \in Nat
    BY DEF ValuesInv
  <2> QED  BY <2>2, <2>3, SequencesAreBytes
<1>4. IsMessage(Fields, values, refs)
  BY <1>1, <1>3 DEF IsMessage
<1> QED  BY <1>1, <1>2, <1>3, <1>4

\* The first and the last of a set of field numbers are in it.
LEMMA FirstAndLast ==
    ASSUME NEW S, S \subseteq 1..5, S # {}
    PROVE  First(S) \in S /\ Last(S) \in S
<1>0. S \subseteq {1, 2, 3, 4, 5}
  OBVIOUS
<1>1. \E i \in S : \A j \in S : i <= j
  <2>1. CASE 1 \in S
    BY <1>0, <2>1
  <2>2. CASE 1 \notin S /\ 2 \in S
    BY <1>0, <2>2
  <2>3. CASE S \subseteq {3, 4, 5} /\ 3 \in S
    BY <2>3
  <2>4. CASE S \subseteq {4, 5} /\ 4 \in S
    BY <2>4
  <2>5. CASE S \subseteq {5} /\ 5 \in S
    BY <2>5
  <2> QED  BY <1>0, <2>1, <2>2, <2>3, <2>4, <2>5
<1>2. \E i \in S : \A j \in S : i >= j
  <2>1. CASE 5 \in S
    BY <1>0, <2>1
  <2>2. CASE 5 \notin S /\ 4 \in S
    BY <1>0, <2>2
  <2>3. CASE S \subseteq {1, 2, 3} /\ 3 \in S
    BY <2>3
  <2>4. CASE S \subseteq {1, 2} /\ 2 \in S
    BY <2>4
  <2>5. CASE S \subseteq {1} /\ 1 \in S
    BY <2>5
  <2> QED  BY <1>0, <2>1, <2>2, <2>3, <2>4, <2>5
<1> QED  BY <1>1, <1>2 DEF First, Last

-----------------------------------------------------------------------------
(* The steps. *)

\* A builder starts without data and without fields.
LEMMA NewBuilder ==
    ASSUME NEW n \in Nat
    PROVE  /\ IsBuilder(New(n)) /\ FieldsInScratch(New(n))
           /\ New(n).fields = 0 /\ New(n).maxVoffset = 0
<1> DEFINE v == Empty(n)
<1>1. IsVector(v) /\ v.scratch = 0
  BY EmptyVector
<1>2. New(n) = [vec |-> v, fields |-> 0, maxVoffset |-> 0, minAlign |-> 1]
  BY DEF New
<1> HIDE DEF v
<1>3. New(n).vec = v /\ New(n).fields = 0 /\ New(n).maxVoffset = 0
      /\ New(n) \in [vec : {New(n).vec}, fields : Nat, maxVoffset : Nat, minAlign : {1, 4, 8}]
  BY <1>2
<1> QED  BY <1>1, <1>3 DEF IsBuilder, FieldsInScratch

LEMMA EmptyMessages ==
    /\ "VoidRequest" \in Kinds /\ Schema["VoidRequest"] = <<>>
    /\ "VoidResponse" \in Kinds /\ Schema["VoidResponse"] = <<>>
    /\ <<>> \in MessageValues("VoidRequest") /\ <<>> \in MessageValues("VoidResponse")
BY DEF Kinds, Schema, VoidRequest, VoidResponse, MessageValues

\* Between messages, nothing is promised but types.
LEMMA IdleEstablishes ==
    ASSUME phase = "idle", kind = "VoidRequest", reader = "VoidRequest", values = <<>>,
           builder = New(0), pending = {}, refs = <<>>, start = 0, root = 0
    PROVE  IInv
<1>1. Fields = <<>> /\ DOMAIN Fields = {} /\ values \in MessageValues(kind)
  BY EmptyMessages DEF Fields
<1>2. ValuesInv
  BY <1>1, EmptyMessages DEF ValuesInv
<1>3. BuilderInv
  BY NewBuilder DEF BuilderInv
<1>4. ReferencesInv
  BY <1>1 DEF ReferencesInv
<1>5. TableInv
  BY DEF TableInv, Delivered
<1>6. WireInv
  BY DEF WireInv, RoundTrip, Delivered
<1> QED  BY <1>2, <1>3, <1>4, <1>5, <1>6 DEF IInv

\* A new message, whoever composes it.
LEMMA ComposeKeepsInv ==
    ASSUME NEW k \in Kinds, NEW initial \in InitialSizes, NEW vals \in MessageValues(k),
           Compose(k, vals, initial)
    PROVE  IInv'
<1>1. initial \in Nat
  BY SizesAssumption
<1>2. /\ phase' = "references" /\ kind' = k /\ reader' = k /\ values' = vals
      /\ builder' = New(initial) /\ pending' = References(k, vals)
      /\ refs' = [i \in DOMAIN vals |-> 0] /\ start' = 0 /\ root' = 0
  BY DEF Compose
<1>3. DOMAIN vals = DOMAIN Schema[k] /\ Fields' = Schema[k]
  BY <1>2 DEF MessageValues, Fields
<1>4. /\ References(k, vals) \subseteq DOMAIN vals
      /\ \A i \in References(k, vals) : IsReference(Schema[k][i]) /\ vals[i] # Absent
      /\ \A i \in DOMAIN vals : IsReference(Schema[k][i]) /\ vals[i] # Absent =>
                                i \in References(k, vals)
  BY DEF References
<1>5. ValuesInv'
  BY <1>2, <1>3, <1>4 DEF ValuesInv
<1>6. BuilderInv'
  BY <1>1, <1>2, NewBuilder DEF BuilderInv
<1>7. ReferencesInv'
  <2>1. ASSUME NEW i \in DOMAIN Fields' PROVE ~Created(i)' /\ refs'[i] = 0
    BY <1>2, <1>3, <1>4 DEF Created
  <2> QED  BY <1>2, <1>3, <1>4, <2>1 DEF ReferencesInv
<1>8. TableInv'
  BY <1>2 DEF TableInv, Delivered
<1>9. WireInv'
  BY <1>2 DEF WireInv, RoundTrip, Delivered
<1> QED  BY <1>5, <1>6, <1>7, <1>8, <1>9 DEF IInv

\* An operation that adds to the builder; the rest of the message is untouched.
LEMMA BuilderStep ==
    ASSUME IInv, IsBuilder(builder'), Keeps(builder.vec, builder'.vec)
    PROVE  KeepsPushed
<1>1. builder.vec.size \in Nat
  BY BuilderTypes DEF IInv, BuilderInv
<1> QED  BY <1>1 DEF KeepsPushed, Keeps, ByteAt, DataAt

\* ReferenceKept, for a field.
LEMMA RefersKept ==
    ASSUME NEW b, NEW c, IsBuilder(b), IsBuilder(c), Keeps(b.vec, c.vec),
           NEW f, NEW value, IsBytes(value), NEW ref, Refers(b.vec, f, value, ref)
    PROVE  Refers(c.vec, f, value, ref)
<1>1. b.vec.size \in Nat /\ c.vec.size \in Nat
  BY BuilderTypes
<1> QED  BY <1>1, ReferenceKept DEF Refers

\* Strings and vectors stay referred to while the builder goes on.
LEMMA ReferencesCarried ==
    ASSUME IInv, IsBuilder(builder'), Keeps(builder.vec, builder'.vec),
           UNCHANGED <<kind, values, refs>>, phase' # "references",
           phase = "references" => pending = {}
    PROVE  ReferencesInv'
<1>1. Fields' = Fields
  BY DEF Fields
<1>2. ASSUME NEW i \in DOMAIN Fields
      PROVE  IF Created(i)' THEN Refers(builder'.vec, Fields[i], values[i], refs[i])
             ELSE refs[i] = 0
  <2>1. Created(i)' = Created(i)
    BY <1>1 DEF Created
  <2>2. IF Created(i) THEN Refers(builder.vec, Fields[i], values[i], refs[i]) ELSE refs[i] = 0
    BY DEF IInv, ReferencesInv
  <2>3. IsBuilder(builder) /\ IsBytes(values[i])
    BY MessageTypes DEF IInv, BuilderInv
  <2> QED  BY <2>1, <2>2, <2>3, RefersKept
<1> QED  BY <1>1, <1>2 DEF ReferencesInv

\* Each action keeps the invariant and what was pushed.
LEMMA CreateReferenceKeeps ==
    ASSUME IInv, CreateReference
    PROVE  IInv' /\ Keeps(builder.vec, builder'.vec)
<1> DEFINE i == Last(pending)
           b == IF Fields[i].type = "string" THEN CreateString(builder, values[i])
                ELSE CreateVector(builder, values[i])
<1>1. /\ phase = "references" /\ pending # {} /\ builder' = b
      /\ refs' = [refs EXCEPT ![i] = Size(b)] /\ pending' = pending \ {i}
      /\ UNCHANGED <<phase, kind, values, start, root, wire, reader, got>>
  BY DEF CreateReference
<1>2. /\ pending \subseteq 1..5 /\ pending \subseteq DOMAIN Fields
      /\ DOMAIN values = DOMAIN Fields
      /\ \A j \in DOMAIN Fields : IsBytes(values[j])
  BY MessageTypes DEF IInv, ValuesInv
<1>3. i \in pending /\ i \in DOMAIN Fields
  BY <1>1, <1>2, FirstAndLast
<1> HIDE DEF i
<1>4. IsBuilder(builder) /\ FieldsInScratch(builder) /\ builder.fields = 0 /\ builder.maxVoffset = 0
  BY <1>1 DEF IInv, BuilderInv
<1>5. Extends(builder, b) /\ Refers(b.vec, Fields[i], values[i], b.vec.size)
  <2>1. LET f == CreateString(builder, values[i])
        IN /\ Extends(builder, f) /\ ReferenceAt(f.vec, f.vec.size, values[i])
           /\ TerminatedAt(f.vec, f.vec.size, values[i])
    BY <1>2, <1>3, <1>4, CreateStringExtends
  <2>2. LET f == CreateVector(builder, values[i])
        IN Extends(builder, f) /\ ReferenceAt(f.vec, f.vec.size, values[i])
    BY <1>2, <1>3, <1>4, CreateVectorExtends
  <2> QED  BY <2>1, <2>2 DEF Refers
<1> HIDE DEF b
<1>6. IsBuilder(b) /\ Keeps(builder.vec, b.vec) /\ Size(b) = b.vec.size /\ b.vec.size \in Nat
  BY <1>5, BuilderTypes DEF Extends, Size
<1>7. Fields' = Fields
  BY <1>1 DEF Fields
<1>8. refs \in [DOMAIN Fields -> Nat] /\ refs' \in [DOMAIN Fields -> Nat]
  BY <1>1, <1>3, <1>6 DEF IInv, ValuesInv
<1>9. ValuesInv'
  BY <1>1, <1>7, <1>8 DEF IInv, ValuesInv
<1>10. BuilderInv'
  BY <1>1, <1>4, <1>5, <1>6 DEF IInv, BuilderInv, Extends, FieldsInScratch
<1>11. ReferencesInv'
  <2>1. ASSUME NEW j \in DOMAIN Fields
        PROVE  IF Created(j)' THEN Refers(b.vec, Fields[j], values[j], refs'[j])
               ELSE refs'[j] = 0
    <3>1. IF Created(j) THEN Refers(builder.vec, Fields[j], values[j], refs[j]) ELSE refs[j] = 0
      BY DEF IInv, ReferencesInv
    <3>2. CASE j = i
      <4>1. IsReference(Fields[i]) /\ values[i] # Absent
        BY <1>1, <1>3 DEF IInv, ReferencesInv
      <4>2. Created(j)'
        BY <1>1, <1>7, <3>2, <4>1 DEF Created
      <4>3. refs'[i] = b.vec.size
        BY <1>1, <1>3, <1>6, <1>8
      <4> QED  BY <1>5, <3>2, <4>2, <4>3
    <3>3. CASE j # i
      <4>1. Created(j)' = Created(j) /\ refs'[j] = refs[j]
        BY <1>1, <1>7, <1>8, <3>3 DEF Created
      <4>2. Refers(builder.vec, Fields[j], values[j], refs[j]) =>
               Refers(b.vec, Fields[j], values[j], refs[j])
        BY <1>2, <1>4, <1>6, RefersKept
      <4> QED  BY <3>1, <4>1, <4>2
    <3> QED  BY <3>2, <3>3
  <2> QED  BY <1>1, <1>7, <2>1 DEF IInv, ReferencesInv
<1>12. TableInv'
  BY <1>1 DEF TableInv, Delivered
<1>13. WireInv'
  BY <1>1 DEF WireInv, RoundTrip, Delivered
<1> QED  BY <1>1, <1>6, <1>9, <1>10, <1>11, <1>12, <1>13 DEF IInv

LEMMA StartTableKeeps ==
    ASSUME IInv, StartTable
    PROVE  IInv' /\ Keeps(builder.vec, builder'.vec)
<1>1. /\ phase = "references" /\ pending = {} /\ phase' = "fields" /\ start' = Size(builder)
      /\ pending' = DOMAIN values
      /\ UNCHANGED <<kind, values, builder, refs, root, wire, reader, got>>
  BY DEF StartTable
<1>2. Fields' = Fields /\ DOMAIN values = DOMAIN Fields
  BY <1>1, MessageTypes DEF Fields, IInv
<1>3. /\ IsBuilder(builder) /\ FieldsInScratch(builder)
      /\ builder.fields = 0 /\ builder.maxVoffset = 0
      /\ Size(builder) \in Nat /\ Keeps(builder.vec, builder.vec)
  BY <1>1, BuilderTypes, ExtendsReflexive DEF IInv, BuilderInv, Size, Extends
<1>4. ValuesInv'
  BY <1>1, <1>2 DEF IInv, ValuesInv
<1>5. BuilderInv'
  BY <1>1, <1>3 DEF IInv, BuilderInv
<1>6. ReferencesInv'
  BY <1>1, <1>3, ReferencesCarried
<1>7. TableInv'
  <2>1. TableSoFar(builder, Fields, values, refs, {})
    BY <1>3 DEF TableSoFar
  <2>2. DOMAIN Fields \ pending' = {}
    BY <1>1, <1>2
  <2>3. TableSoFar(builder', Fields', values', refs', DOMAIN Fields' \ pending')
    BY <1>1, <1>2, <2>1, <2>2
  <2> QED  BY <1>1, <2>3 DEF TableInv, Delivered
<1>8. WireInv'
  BY <1>1 DEF WireInv, RoundTrip, Delivered
<1> QED  BY <1>1, <1>3, <1>4, <1>5, <1>6, <1>7, <1>8 DEF IInv

\* What adding a field does to the table.
LEMMA FieldIsAdded ==
    ASSUME IInv, phase = "fields", NEW i \in pending
    PROVE  LET f == Fields[i]
               b == IF IsReference(f) THEN AddOffset(builder, f.vt, refs[i])
                    ELSE AddElement(builder, f.vt, values[i], f.default)
           IN /\ FieldsInScratch(b) /\ Keeps(builder.vec, b.vec)
              /\ TableSoFar(b, Fields, values, refs, (DOMAIN Fields \ pending) \cup {i})
<1> DEFINE f == Fields[i]
           done == DOMAIN Fields \ pending
           b == IF IsReference(f) THEN AddOffset(builder, f.vt, refs[i])
                ELSE AddElement(builder, f.vt, values[i], f.default)
<1>1. /\ IsMessage(Fields, values, refs) /\ i \in DOMAIN Fields /\ IsField(f)
      /\ IsBytes(values[i]) /\ done \subseteq DOMAIN Fields
  BY MessageTypes DEF IInv, ValuesInv
<1>2. /\ FieldsInScratch(builder) /\ IsBuilder(builder)
      /\ TableSoFar(builder, Fields, values, refs, done)
      /\ Keeps(builder.vec, builder.vec) /\ builder.vec.size \in Nat
  BY BuilderTypes, ExtendsReflexive DEF IInv, BuilderInv, TableInv, Extends
<1>3. IF IsReference(f) /\ values[i] # Absent
      THEN Refers(builder.vec, f, values[i], refs[i]) ELSE refs[i] = 0
  BY <1>1 DEF IInv, ReferencesInv, Created
<1>4. f.vt \in Nat
  BY <1>1 DEF IsField
<1> HIDE DEF done
<1>5. CASE ~IsStored(f, values[i])
  <2>1. b = builder
    BY <1>3, <1>5 DEF IsStored, AddOffset, AddElement
  <2>2. TableSoFar(builder, Fields, values, refs, done \cup {i})
    BY <1>2, <1>5, UnstoredFieldSkipped
  <2> QED  BY <1>2, <2>1, <2>2 DEF done
<1>6. CASE IsStored(f, values[i]) /\ IsReference(f)
  <2>1. /\ refs[i] \in Nat /\ refs[i] # 0 /\ refs[i] <= builder.vec.size
    <3>1. ReferenceAt(builder.vec, refs[i], values[i]) /\ Len(values[i]) \in Nat
      BY <1>1, <1>3, <1>6 DEF IsStored, Refers, IsBytes
    <3>2. /\ refs[i] \in Nat /\ refs[i] >= 4 + Len(values[i])
          /\ Holds(builder.vec, refs[i], LE4(Len(values[i])))
      BY <3>1 DEF ReferenceAt
    <3>3. refs[i] <= builder.vec.size
      BY <3>2 DEF Holds
    <3> QED  BY <3>1, <3>2, <3>3
  <2>2. b = AddOffset(builder, f.vt, refs[i])
    BY <1>6
  <2> HIDE DEF b
  <2>3. refs[i] < b.vec.size /\ Adds(builder, b, f.vt, LE4(b.vec.size - refs[i]))
    BY <1>2, <1>4, <2>1, <2>2, AddOffsetKeeps
  <2>4. Content(f, values[i], refs[i], b.vec.size) = LE4(b.vec.size - refs[i])
    BY <1>6 DEF Content
  <2>5. TableSoFar(b, Fields, values, refs, done \cup {i})
    BY <1>1, <1>2, <1>6, <2>3, <2>4, StoredFieldAdded
  <2> QED  BY <2>3, <2>5 DEF Adds, b, done
<1>7. CASE IsStored(f, values[i]) /\ ~IsReference(f)
  <2>1. values[i] # f.default /\ Len(values[i]) \in {1, 4, 8}
    BY <1>1, <1>7 DEF IsStored, IsMessage, IsField, Width, IsReference
  <2>2. b = AddElement(builder, f.vt, values[i], f.default)
    BY <1>7
  <2> HIDE DEF b
  <2>3. Adds(builder, b, f.vt, values[i])
    BY <1>1, <1>2, <1>4, <2>1, <2>2, AddElementKeeps
  <2>4. Content(f, values[i], refs[i], b.vec.size) = values[i]
    BY <1>7 DEF Content
  <2>5. TableSoFar(b, Fields, values, refs, done \cup {i})
    BY <1>1, <1>2, <1>7, <2>3, <2>4, StoredFieldAdded
  <2> QED  BY <2>3, <2>5 DEF Adds, b, done
<1> QED  BY <1>5, <1>6, <1>7

LEMMA AddFieldKeeps ==
    ASSUME IInv, AddField
    PROVE  IInv' /\ Keeps(builder.vec, builder'.vec)
<1> DEFINE i == First(pending)
           f == Fields[i]
           b == IF IsReference(f) THEN AddOffset(builder, f.vt, refs[i])
                ELSE AddElement(builder, f.vt, values[i], f.default)
<1>1. /\ phase = "fields" /\ pending # {} /\ builder' = b /\ pending' = pending \ {i}
      /\ UNCHANGED <<phase, kind, values, refs, start, root, wire, reader, got>>
  BY DEF AddField
<1>2. /\ pending \subseteq 1..5 /\ pending \subseteq DOMAIN Fields /\ Fields' = Fields
  BY <1>1, MessageTypes DEF IInv, ValuesInv, Fields
<1>3. i \in pending
  BY <1>1, <1>2, FirstAndLast
<1> HIDE DEF i
<1>4. /\ FieldsInScratch(b) /\ Keeps(builder.vec, b.vec)
      /\ TableSoFar(b, Fields, values, refs, (DOMAIN Fields \ pending) \cup {i})
  BY <1>1, <1>3, FieldIsAdded
<1> HIDE DEF b
<1>5. IsBuilder(b) /\ IsBuilder(builder')
  BY <1>1, <1>4 DEF FieldsInScratch
<1>6. ValuesInv'
  BY <1>1, <1>2 DEF IInv, ValuesInv
<1>7. BuilderInv'
  BY <1>1, <1>4, <1>5 DEF IInv, BuilderInv
<1>8. ReferencesInv'
  BY <1>1, <1>4, <1>5, ReferencesCarried
<1>9. TableInv'
  <2>1. (DOMAIN Fields \ pending) \cup {i} = DOMAIN Fields \ pending'
    BY <1>1, <1>2, <1>3
  <2> QED  BY <1>1, <1>2, <1>4, <2>1 DEF TableInv, Delivered
<1>10. WireInv'
  BY <1>1 DEF WireInv, RoundTrip, Delivered
<1> QED  BY <1>1, <1>4, <1>6, <1>7, <1>8, <1>9, <1>10 DEF IInv

LEMMA FinishTableKeeps ==
    ASSUME IInv, FinishTable
    PROVE  IInv' /\ Keeps(builder.vec, builder'.vec)
<1> DEFINE b == EndTable(builder, start)
           at == TableOffset(builder)
<1>1. /\ phase = "fields" /\ pending = {} /\ phase' = "finish"
      /\ builder' = b /\ root' = at
      /\ UNCHANGED <<kind, values, pending, refs, start, wire, reader, got>>
  BY DEF FinishTable
<1>2. IsMessage(Fields, values, refs) /\ Fields' = Fields
  BY <1>1, MessageTypes DEF IInv, Fields
<1>3. /\ FieldsInScratch(builder) /\ start \in Int
      /\ TableSoFar(builder, Fields, values, refs, DOMAIN Fields)
  <2>1. DOMAIN Fields \ pending = DOMAIN Fields
    BY <1>1
  <2> QED  BY <1>1, <2>1 DEF IInv, BuilderInv, TableInv
<1>4. /\ IsBuilder(b) /\ Keeps(builder.vec, b.vec)
      /\ b.minAlign >= builder.minAlign /\ b.minAlign >= 4 /\ at \in Nat
      /\ TableWith(b.vec, at, b.vec.size, Fields, values, refs)
  BY <1>2, <1>3, EndTableKeeps
<1> HIDE DEF b, at
<1>5. ValuesInv'
  BY <1>1, <1>2 DEF IInv, ValuesInv
<1>6. BuilderInv'
  BY <1>1, <1>4 DEF IInv, BuilderInv
<1>7. ReferencesInv'
  BY <1>1, <1>4, ReferencesCarried
<1>8. TableInv'
  <2>1. ASSUME NEW i \in DOMAIN Fields, IsStored(Fields[i], values[i])
        PROVE  SizeOf(Fields[i]) <= b.minAlign
    <3>1. SizeOf(Fields[i]) <= builder.minAlign
      BY <1>3, <2>1 DEF TableSoFar
    <3>2. SizeOf(Fields[i]) \in {1, 4, 8}
      BY <1>2, ContentBytes
    <3>3. builder.minAlign \in {1, 4, 8} /\ b.minAlign \in {1, 4, 8}
      BY <1>3, <1>4, BuilderTypes DEF FieldsInScratch
    <3>4. SizeOf(Fields[i]) \in Nat /\ builder.minAlign \in Nat /\ b.minAlign \in Nat
      BY <3>2, <3>3
    <3> QED  BY <1>4, <3>1, <3>4
  <2> QED  BY <1>1, <1>2, <1>4, <2>1 DEF TableInv, Delivered
<1>9. WireInv'
  BY <1>1 DEF WireInv, RoundTrip, Delivered
<1> QED  BY <1>1, <1>4, <1>5, <1>6, <1>7, <1>8, <1>9 DEF IInv

\* A multiple of the largest alignment is one of the smaller ones.
LEMMA MultipleOfSmaller ==
    ASSUME NEW n \in Nat, NEW a \in {1, 4, 8}, NEW b \in {1, 4, 8}, n % a = 0, b <= a
    PROVE  n % b = 0
<1>1. CASE b = 1
  BY <1>1
<1>2. CASE b = 4
  <2>1. a = 4 \/ a = 8
    BY <1>2
  <2>2. CASE a = 4
    BY <1>2, <2>2
  <2>3. CASE a = 8
    BY <1>2, <2>3
  <2> QED  BY <2>1, <2>2, <2>3
<1>3. CASE b = 8
  BY <1>3
<1> QED  BY <1>1, <1>2, <1>3

LEMMA FinishBufferKeeps ==
    ASSUME IInv, FinishBuffer
    PROVE  IInv' /\ Keeps(builder.vec, builder'.vec)
<1> DEFINE c == Finish(builder, root)
           size == builder.vec.size
<1>1. /\ phase = "finish" /\ phase' = "sent" /\ builder' = c /\ wire' = Contents(c.vec)
      /\ UNCHANGED <<kind, values, pending, refs, start, root, reader, got>>
  BY DEF FinishBuffer
<1>2. IsMessage(Fields, values, refs) /\ Fields' = Fields
  BY <1>1, MessageTypes DEF IInv, Fields
<1>3. /\ IsBuilder(builder) /\ builder.minAlign >= 4 /\ builder.minAlign \in {1, 4, 8}
      /\ TableWith(builder.vec, root, size, Fields, values, refs)
      /\ \A i \in DOMAIN Fields :
            IsStored(Fields[i], values[i]) => SizeOf(Fields[i]) <= builder.minAlign
  BY <1>1, BuilderTypes DEF IInv, BuilderInv, TableInv
<1>4. size \in Nat /\ root \in Nat /\ root <= size
  BY <1>3, BuilderTypes DEF TableWith
<1>5. /\ IsBuilder(c) /\ Keeps(builder.vec, c.vec) /\ c.vec.size >= size + 4
      /\ c.vec.size % builder.minAlign = 0
      /\ Holds(c.vec, c.vec.size, LE4(c.vec.size - root))
  BY <1>3, <1>4, FinishKeeps
<1> HIDE DEF c
<1>6. IsVector(c.vec) /\ c.vec.size \in Nat
  BY <1>5, BuilderTypes
<1>7. ReferencesIn(c.vec, Fields, values, refs)
  <2>1. ASSUME NEW i \in DOMAIN Fields, IsReference(Fields[i]), values[i] # Absent
        PROVE  Refers(c.vec, Fields[i], values[i], refs[i])
    <3>1. Refers(builder.vec, Fields[i], values[i], refs[i])
      BY <1>1, <2>1 DEF IInv, ReferencesInv, Created
    <3> QED  BY <1>3, <1>5, <3>1, MessageTypes, RefersKept DEF IInv
  <2> QED  BY <2>1 DEF ReferencesIn
<1>8. TableWith(c.vec, root, size, Fields, values, refs)
  BY <1>2, <1>3, <1>4, <1>5, <1>6, TableKept
<1>9. /\ c.vec.size % 4 = 0
      /\ \A i \in DOMAIN Fields : IsStored(Fields[i], values[i]) =>
            c.vec.size % SizeOf(Fields[i]) = 0
  <2>1. c.vec.size % 4 = 0
    BY <1>3, <1>5, <1>6, MultipleOfSmaller
  <2>2. ASSUME NEW i \in DOMAIN Fields, IsStored(Fields[i], values[i])
        PROVE  c.vec.size % SizeOf(Fields[i]) = 0
    <3>1. SizeOf(Fields[i]) \in {1, 4, 8} /\ SizeOf(Fields[i]) <= builder.minAlign
      BY <1>2, <1>3, <2>2, ContentBytes
    <3> QED  BY <1>3, <1>5, <1>6, <3>1, MultipleOfSmaller
  <2> QED  BY <2>1, <2>2
<1>10. MessageIn(c.vec, root, Fields, values, refs)
  BY <1>4, <1>5, <1>6, <1>7, <1>8, <1>9 DEF MessageIn
<1>11. ValuesInv'
  BY <1>1, <1>2 DEF IInv, ValuesInv
<1>12. BuilderInv'
  BY <1>1, <1>5 DEF IInv, BuilderInv
<1>13. ReferencesInv'
  BY <1>1, <1>5, ReferencesCarried
<1>14. TableInv'
  BY <1>1, <1>2, <1>10 DEF TableInv, Delivered
<1>15. WireInv'
  BY <1>1 DEF WireInv, RoundTrip, Delivered
<1> QED  BY <1>1, <1>5, <1>11, <1>12, <1>13, <1>14, <1>15 DEF IInv

\* The first bytes of what was sent, all of them included.
LEMMA SliceBytes ==
    ASSUME NEW s, IsBytes(s), NEW n \in Nat
    PROVE  /\ IsBytes(Slice(s, 0, n)) /\ Len(Slice(s, 0, n)) = n
           /\ n = Len(s) /\ s \in Seq(Int) => Slice(s, 0, n) = s
<1> DEFINE B(k) == At(s, 0 + k - 1)
           t == [k \in 1..n |-> B(k)]
<1>1. Slice(s, 0, n) = t
  BY DEF Slice
<1>2. \A k \in 1..n : B(k) \in Int
  BY ReadsAreInts
<1>3. ASSUME n = Len(s), NEW k \in 1..n PROVE B(k) = s[k]
  <2>1. 0 <= 0 + k - 1 /\ 0 + k - 1 < Len(s) /\ (0 + k - 1) + 1 = k
    BY <1>3
  <2> QED  BY <2>1 DEF At
<1> HIDE DEF B
<1>4. t \in Seq(Int) /\ Len(t) = n
  <2>1. t \in Seq(Int)
    BY <1>2
  <2> QED  BY <2>1
<1>5. n = Len(s) /\ s \in Seq(Int) => t = s
  BY <1>3, <1>4
<1> HIDE DEF t
<1> QED  BY <1>1, <1>4, <1>5, SequencesAreBytes

\* A message that is delivered whole to its own method reads as its values.
LEMMA WholeMessageReads ==
    ASSUME IInv, phase = "sent"
    PROVE  VerifyBuffer(wire, Fields) /\ ReadBy(wire, kind) = values
<1>1. MessageIn(builder.vec, root, Fields, values, refs) /\ wire = Contents(builder.vec)
  BY DEF IInv, TableInv, WireInv
<1>2. IsMessage(Fields, values, refs)
  BY MessageTypes DEF IInv
<1>3. VerifyBuffer(wire, Fields) /\ \A i \in DOMAIN Fields : Get(wire, Fields[i]) = values[i]
  BY <1>1, <1>2, MessageReads
<1>4. values = [i \in DOMAIN Fields |-> values[i]]
  BY DEF IInv, ValuesInv, MessageValues, Fields
<1>5. ReadBy(wire, kind) = [i \in DOMAIN Fields |-> Get(wire, Fields[i])]
  BY DEF ReadBy, Fields
<1> QED  BY <1>3, <1>4, <1>5

\* The wrapper reads only verified bytes, and a whole message as it was sent.
LEMMA DeliverKeeps ==
    ASSUME IInv, NEW k \in Requests, NEW n \in 0..Len(wire), Deliver(k, n)
    PROVE  IInv' /\ KeepsPushed
<1>1. /\ phase = "sent" /\ phase' \in {"accepted", "refused", "crashed"} /\ reader' = k
      /\ wire' = Slice(wire, 0, n)
      /\ phase' # "refused" => VerifyBuffer(wire', Schema[k])
      /\ UNCHANGED <<kind, values, builder, pending, refs, start, root>>
  BY DEF Deliver
<1>2. Fields' = Fields /\ k \in Kinds
  BY <1>1 DEF Fields, Requests
<1>3. /\ IsBytes(wire) /\ Len(wire) = builder.vec.size /\ wire \in Seq(Int) /\ n \in Nat
  <2>1. wire = Contents(builder.vec) /\ IsVector(builder.vec)
    BY <1>1, BuilderTypes DEF IInv, WireInv, BuilderInv
  <2> QED  BY <2>1, ContentsBytes
<1>4. IsBytes(wire') /\ Len(wire') = n /\ (n = Len(wire) => wire' = wire)
  BY <1>1, <1>3, SliceBytes
<1>5. ValuesInv'
  BY <1>1, <1>2 DEF IInv, ValuesInv
<1>6. BuilderInv'
  BY <1>1 DEF IInv, BuilderInv
<1>7. ReferencesInv'
  BY <1>1, ExtendsReflexive, ReferencesCarried DEF IInv, BuilderInv, Extends
<1>8. TableInv'
  BY <1>1, <1>2 DEF IInv, TableInv, Delivered
<1>9. RoundTrip'
  <2> SUFFICES ASSUME reader' = kind', Len(wire') = builder'.vec.size
               PROVE  /\ phase' # "refused" /\ got' = values'
                      /\ Complete' => phase' = "accepted"
    BY DEF RoundTrip
  <2>1. k = kind /\ wire' = wire
    BY <1>1, <1>3, <1>4
  <2>2. VerifyBuffer(wire', Schema[k]) /\ ReadBy(wire', k) = values
    BY <1>1, <2>1, WholeMessageReads DEF Fields
  <2>3. /\ got' = values
        /\ phase' = IF k \in Handled /\ Missing(got') THEN "crashed" ELSE "accepted"
    BY <2>2 DEF Deliver
  <2>4. Complete' => ~Missing(got')
    BY <1>1, <2>3 DEF Complete, Missing
  <2> QED  BY <1>1, <2>3, <2>4
<1>10. WireInv'
  BY <1>1, <1>4, <1>9 DEF WireInv
<1>11. KeepsPushed
  BY <1>1 DEF KeepsPushed
<1> QED  BY <1>5, <1>6, <1>7, <1>8, <1>10, <1>11 DEF IInv

\* Each step keeps the invariant and, while a message is built, what was pushed.
LEMMA StepKeeps ==
    ASSUME IInv, [Next]_vars
    PROVE  IInv' /\ KeepsPushed
<1>0. IsBuilder(builder) /\ Keeps(builder.vec, builder.vec)
  BY ExtendsReflexive DEF IInv, BuilderInv, Extends
<1>1. ASSUME NEW k \in Requests, NEW initial \in InitialSizes, NEW vals \in MessageValues(k),
             Call(k, vals, initial)
      PROVE  IInv' /\ KeepsPushed
  BY <1>1, ComposeKeepsInv DEF Call, KeepsPushed, Requests
<1>2. CASE CreateReference
  BY <1>2, CreateReferenceKeeps, BuilderStep DEF IInv, BuilderInv
<1>3. CASE StartTable
  BY <1>3, StartTableKeeps, BuilderStep DEF IInv, BuilderInv
<1>4. CASE AddField
  BY <1>4, AddFieldKeeps, BuilderStep DEF IInv, BuilderInv
<1>5. CASE FinishTable
  BY <1>5, FinishTableKeeps, BuilderStep DEF IInv, BuilderInv
<1>6. CASE FinishBuffer
  BY <1>6, FinishBufferKeeps, BuilderStep DEF IInv, BuilderInv
<1>7. ASSUME NEW k \in Requests, NEW n \in 0..Len(wire), Deliver(k, n)
      PROVE  IInv' /\ KeepsPushed
  BY <1>7, DeliverKeeps
<1>8. ASSUME NEW initial \in InitialSizes, Respond(initial)
      PROVE  IInv' /\ KeepsPushed
  BY <1>8, EmptyMessages, ComposeKeepsInv DEF Respond, KeepsPushed
<1>9. CASE Return
  <2>1. /\ phase \in {"refused", "sent"} /\ phase' = "idle" /\ kind' = "VoidRequest"
        /\ values' = <<>> /\ builder' = New(0) /\ pending' = {} /\ refs' = <<>>
        /\ start' = 0 /\ root' = 0 /\ reader' = "VoidRequest"
    BY <1>9 DEF Return
  <2>2. Fields' = <<>> /\ DOMAIN Fields' = {} /\ values' \in MessageValues(kind')
    BY <2>1, EmptyMessages DEF Fields
  <2>3. ValuesInv'
    BY <2>1, <2>2, EmptyMessages DEF ValuesInv
  <2>4. BuilderInv'
    BY <2>1, NewBuilder DEF BuilderInv
  <2>5. ReferencesInv'
    BY <2>1, <2>2 DEF ReferencesInv
  <2>6. TableInv' /\ WireInv'
    BY <2>1 DEF TableInv, WireInv, RoundTrip, Delivered
  <2>7. KeepsPushed
    BY <2>1 DEF KeepsPushed
  <2> QED  BY <2>3, <2>4, <2>5, <2>6, <2>7 DEF IInv
<1>10. CASE UNCHANGED vars
  <2>1. UNCHANGED <<phase, kind, values, builder, pending, refs, start, root, wire, reader, got>>
    BY <1>10 DEF vars
  <2>2. /\ ValuesInv' = ValuesInv /\ BuilderInv' = BuilderInv /\ Fields' = Fields
        /\ WireInv' = WireInv /\ TableInv' = TableInv
    BY <2>1 DEF ValuesInv, BuilderInv, WireInv, RoundTrip, TableInv, Delivered, Complete, Fields
  <2>3. ASSUME NEW i \in DOMAIN Fields PROVE Created(i)' = Created(i)
    BY <2>1, <2>2 DEF Created
  <2>4. ReferencesInv'
    BY <2>1, <2>2, <2>3 DEF IInv, ReferencesInv
  <2>5. IInv'
    BY <2>2, <2>4 DEF IInv
  <2>6. KeepsPushed
    BY <1>0, <2>1, <2>5, BuilderStep
  <2> QED  BY <2>5, <2>6
<1> QED  BY <1>1, <1>2, <1>3, <1>4, <1>5, <1>6, <1>7, <1>8, <1>9, <1>10 DEF Next

\* The invariant holds in every reachable state.
LEMMA InvariantHolds == Spec => []IInv
<1>1. Init => IInv
  BY IdleEstablishes DEF Init
<1>2. IInv /\ [Next]_vars => IInv'
  BY StepKeeps
<1> QED  BY <1>1, <1>2, PTL DEF Spec

-----------------------------------------------------------------------------
(* Theorems, for any strings, vectors and scalars put into the messages and any *)
(* initial sizes of the builders.                                               *)

\* Type correctness and, with it, that data and scratch pad share no byte of
\* the block.
THEOREM TypeCorrect == Spec => []TypeOK
<1>1. IInv => TypeOK
  <2> SUFFICES ASSUME IInv PROVE TypeOK
    OBVIOUS
  <2>1. RegionsApart
    BY DEF IInv, BuilderInv, IsBuilder, IsVector, RegionsApart
  <2>2. DOMAIN values = DOMAIN Fields /\ DOMAIN refs = DOMAIN Fields
    BY MessageTypes DEF IInv, ValuesInv
  <2> QED  BY <2>1, <2>2 DEF IInv, ValuesInv, BuilderInv, TypeOK
<1> QED  BY <1>1, InvariantHolds, PTL

\* No padding, push, growth of the block or rewritten soffset moves or changes
\* a byte that an offset handed out earlier points to.
THEOREM OffsetsRemainValid == Spec => OffsetsStayValid
<1>1. IInv /\ [Next]_vars => [KeepsPushed]_vars
  BY StepKeeps
<1> QED  BY <1>1, InvariantHolds, PTL DEF Spec, OffsetsStayValid

\* A message that reaches its own method whole is accepted by the verifier, and
\* every accessor returns what its builder was given: the layout written by
\* EndTable and Finish, with the alignment they add, is the one the verifier and
\* the accessors expect.
THEOREM MessagesReadBack == Spec => []RoundTrip
<1>1. IInv => RoundTrip
  BY DEF IInv, WireInv
<1> QED  BY <1>1, InvariantHolds, PTL

\* Whatever bytes reach a handler, its accessors read within them: the verifier
\* checks every position that depends on the bytes.
THEOREM VerifiedReadsStayInBounds == Spec => []ReadsInBounds
<1>1. IInv => ReadsInBounds
  <2> SUFFICES ASSUME IInv, Delivered, phase # "refused",
                      NEW a \in Accesses(wire, Schema[reader])
               PROVE  0 <= a[1] /\ 0 <= a[2] /\ a[1] + a[2] <= Len(wire)
    BY DEF ReadsInBounds
  <2>1. IsBytes(wire) /\ VerifyBuffer(wire, Schema[reader])
    BY DEF IInv, WireInv
  <2>2. \A i \in DOMAIN Schema[reader] : IsField(Schema[reader][i])
    BY SchemaFields DEF IInv, ValuesInv
  <2>3. Within(wire, a[1], a[2])
    BY <2>1, <2>2, VerifiedReads
  <2> QED  BY <2>3 DEF Within
<1> QED  BY <1>1, InvariantHolds, PTL
=============================================================================
