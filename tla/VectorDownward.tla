---------------------------- MODULE VectorDownward ----------------------------
(***************************************************************************)
(* The memory of a FlatBufferBuilder (flatbuffers/vector_downward.h with    *)
(* the default allocator): one block whose upper end holds the data, which  *)
(* grows downwards, and whose lower end holds the scratch pad, which grows  *)
(* upwards.  A block that is too small is replaced by a larger one.         *)
(*                                                                         *)
(* A vector is a record.  Addresses are those of its block, from 0.        *)
(***************************************************************************)
EXTENDS Naturals, Sequences

\* buffer_minalign_, the alignment of the largest scalar.
BufferMinAlign == 8

\* What uninitialised memory holds: anything, here a byte no message has.
Junk == 170

Empty(initial) ==
    [initial |-> initial, reserved |-> 0, size |-> 0, scratch |-> 0,
     mem |-> [i \in {} |-> Junk]]

Unused(v) == v.reserved - v.size - v.scratch

Larger(m, n) == IF m > n THEN m ELSE n

\* Mutant: the data is copied to the place it had in the smaller block.
CopyInPlace(v, reserved) ==
    [i \in 0..reserved - 1 |->
        IF i < v.reserved THEN v.mem[i] ELSE Junk]

\* memcpy_downward: the data keeps its distance from the end of the block, the
\* scratch pad that from its start.
CopyDownward(v, reserved) ==
    [i \in 0..reserved - 1 |->
        IF i < v.scratch THEN v.mem[i]
        ELSE IF i >= reserved - v.size THEN v.mem[i - (reserved - v.reserved)]
        ELSE Junk]

Grown(v, len) ==
    LET half == IF v.reserved > 0 THEN v.reserved \div 2 ELSE v.initial
        wanted == v.reserved + Larger(len, half)
    IN ((wanted + BufferMinAlign - 1) \div BufferMinAlign) * BufferMinAlign

Reallocate(v, len) ==
    [v EXCEPT !.reserved = Grown(v, len), !.mem = CopyDownward(v, Grown(v, len))]

\* Mutant: the scratch pad is not counted as used.
EnsureSpaceOverScratch(v, len) ==
    IF len > v.reserved - v.size THEN Reallocate(v, len) ELSE v

EnsureSpace(v, len) == IF len > Unused(v) THEN Reallocate(v, len) ELSE v

MakeSpace(v, len) ==
    IF len = 0 THEN v ELSE [EnsureSpace(v, len) EXCEPT !.size = @ + len]

Store(v, at, bytes) ==
    [v EXCEPT !.mem = [i \in DOMAIN v.mem |->
        IF at <= i /\ i < at + Len(bytes) THEN bytes[i - at + 1] ELSE v.mem[i]]]

\* data() and data_at(offset): offsets count from the end of the block.
Data(v) == v.reserved - v.size
DataAt(v, offset) == v.reserved - offset

Push(v, bytes) ==
    LET w == MakeSpace(v, Len(bytes)) IN Store(w, Data(w), bytes)

Zeros(n) == [i \in 1..n |-> 0]
Fill(v, n) == Push(v, Zeros(n))

ScratchPush(v, bytes) ==
    LET w == EnsureSpace(v, Len(bytes))
    IN [Store(w, w.scratch, bytes) EXCEPT !.scratch = @ + Len(bytes)]

ScratchPop(v, n) == [v EXCEPT !.scratch = @ - n]
ClearScratch(v) == [v EXCEPT !.scratch = 0]

\* The bytes a reader of the finished buffer gets.
Contents(v) == [i \in 1..v.size |-> v.mem[Data(v) + i - 1]]
=============================================================================
