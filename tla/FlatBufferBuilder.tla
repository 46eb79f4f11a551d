--------------------------- MODULE FlatBufferBuilder ---------------------------
(***************************************************************************)
(* What FlatBufferBuilder (flatbuffers/flatbuffer_builder.h) does for a     *)
(* message of one table: its strings and byte vectors first, then the table *)
(* with its vtable, then the root offset.  A builder is a record around its *)
(* vector; an offset is a distance from the end of the block.               *)
(*                                                                         *)
(* The assertions on the order of the calls are left out: the callers fix   *)
(* that order.  A builder makes one table here, as every caller's does, so  *)
(* EndTable finds no earlier vtable to share.                               *)
(***************************************************************************)
EXTENDS Integers, VectorDownward

New(initial) ==
    [vec |-> Empty(initial), fields |-> 0, maxVoffset |-> 0, minAlign |-> 1]

Size(b) == b.vec.size

\* Little-endian scalars of two and four bytes; no offset reaches 2^24.
LE2(n) == <<n % 256, n \div 256>>
LE4(n) == <<n % 256, (n \div 256) % 256, n \div 65536, 0>>

\* An soffset_t: negative ones in two's complement.
Signed4(n) == IF n >= 0 THEN LE4(n) ELSE [i \in 1..4 |-> 255 - LE4(-(n + 1))[i]]

PaddingBytes(size, scalar) == (scalar - (size % scalar)) % scalar

TrackMinAlign(b, n) == [b EXCEPT !.minAlign = Larger(@, n)]
Pad(b, n) == [b EXCEPT !.vec = Fill(@, n)]
PushBytes(b, bytes) == [b EXCEPT !.vec = Push(@, bytes)]

Align(b, n) == Pad(TrackMinAlign(b, n), PaddingBytes(Size(b), n))

\* Mutant: the bytes to come are not counted.
PreAlignHere(b, len, n) ==
    IF len = 0 THEN b ELSE Pad(TrackMinAlign(b, n), PaddingBytes(Size(b), n))

PreAlign(b, len, n) ==
    IF len = 0 THEN b ELSE Pad(TrackMinAlign(b, n), PaddingBytes(Size(b) + len, n))

PushElement(b, bytes) == PushBytes(Align(b, Len(bytes)), bytes)

\* A string is zero-terminated; a byte vector is not, and both begin with
\* their length.
CreateString(b, str) ==
    PushElement(PushBytes(Pad(PreAlign(b, Len(str) + 1, 4), 1), str), LE4(Len(str)))

CreateVector(b, bytes) ==
    PushElement(PushBytes(PreAlign(b, Len(bytes), 4), bytes), LE4(Len(bytes)))

\* A FieldLoc, eight bytes with its padding.
FieldLoc(off, id) == LE4(off) \o LE2(id) \o <<0, 0>>
FieldLocSize == 8

TrackField(b, field) ==
    [b EXCEPT !.vec = ScratchPush(@, FieldLoc(Size(b), field)),
              !.fields = @ + 1,
              !.maxVoffset = Larger(@, field)]

AddElement(b, field, bytes, default) ==
    IF bytes = default THEN b ELSE TrackField(PushElement(b, bytes), field)

\* The distance from where the offset will be stored, upwards.
ReferTo(b, off) == Size(Align(b, 4)) - off + 4

\* AddOffset: a null offset, 0, is not stored.
AddOffset(b, field, off) ==
    IF off = 0 THEN b ELSE AddElement(Align(b, 4), field, LE4(ReferTo(b, off)), LE4(0))

FirstVoffset == 4

ReadLE(v, at, n) ==
    IF n = 2 THEN v.mem[at] + 256 * v.mem[at + 1]
    ELSE v.mem[at] + 256 * v.mem[at + 1] + 65536 * v.mem[at + 2]

\* Where field number k of the scratch pad was stored and which one it is.
FieldOff(v, k) == ReadLE(v, v.scratch - k * FieldLocSize, 4)
FieldId(v, k) == ReadLE(v, v.scratch - k * FieldLocSize + 4, 2)

\* The vtable of a table whose soffset lies at offset loc: its own size, the
\* table's size and the position of each field in the table, 0 if absent.
VTable(v, vsize, start, loc, fields) ==
    LET At(id) == {k \in 1..fields : FieldId(v, k) = id}
        Entry(id) == IF id = 0 THEN vsize
                     ELSE IF id = 2 THEN loc - start
                     ELSE IF At(id) = {} THEN 0
                     ELSE loc - FieldOff(v, CHOOSE k \in At(id) : TRUE)
    IN [i \in 1..vsize |-> LE2(Entry(2 * ((i - 1) \div 2)))[1 + ((i - 1) % 2)]]

\* fill_big, then the entries, read from the scratch pad as it is by then.
PushVTable(v, vsize, start, loc, fields) ==
    LET w == Fill(v, vsize) IN Store(w, Data(w), VTable(w, vsize, start, loc, fields))

\* EndTable: the soffset, the vtable in front of it, then the distance between
\* the two written over the soffset.
EndTable(b, start) ==
    LET t == PushElement(b, LE4(0))
        loc == Size(t)
        vsize == Larger(t.maxVoffset + 2, FirstVoffset)
        w == PushVTable(t.vec, vsize, start, loc, t.fields)
        kept == ScratchPush(ScratchPop(w, t.fields * FieldLocSize), LE4(w.size))
    IN [t EXCEPT !.vec = Store(kept, DataAt(kept, loc), Signed4(w.size - loc)),
                 !.fields = 0,
                 !.maxVoffset = 0]

\* What EndTable returns, the offset of the table.
TableOffset(b) == Size(PushElement(b, LE4(0)))

\* Finish: the whole buffer becomes a multiple of its largest scalar.
Finish(b, root) ==
    LET c == [b EXCEPT !.vec = ClearScratch(@)]
        p == PreAlign(c, 4, c.minAlign)
    IN PushElement(p, LE4(ReferTo(p, root)))
=============================================================================
