---------------------------- MODULE FlatBufferReader ----------------------------
(***************************************************************************)
(* How a received buffer is verified (flatbuffers/verifier.h, the calls of  *)
(* it in table.h) and read (table.h, vector.h, string.h).  A buffer is a    *)
(* sequence of bytes; positions count from 0.                               *)
(*                                                                         *)
(* A field of a schema is a record: its vtable position, its type and its   *)
(* default.  Nesting is not bounded here: no message has a table in a table.*)
(***************************************************************************)
EXTENDS Integers, Sequences

\* A null pointer: no byte string has this byte.
Absent == <<-1>>

\* A byte beyond the end is whatever lies there.
At(s, i) == IF 0 <= i /\ i < Len(s) THEN s[i + 1] ELSE 170

\* ReadScalar: two bytes unsigned, four bytes signed (an unsigned offset or
\* length of 2^31 and more reads as a negative number).
U2(s, i) == At(s, i) + 256 * At(s, i + 1)
I4(s, i) ==
    At(s, i) + 256 * At(s, i + 1) + 65536 * At(s, i + 2)
        + 16777216 * (IF At(s, i + 3) >= 128 THEN At(s, i + 3) - 256 ELSE At(s, i + 3))

Slice(s, i, n) == [k \in 1..n |-> At(s, i + k - 1)]

\* GetRoot and GetVTable.
Root(s) == I4(s, 0)
VTableOf(s, table) == table - I4(s, table)

\* GetOptionalFieldOffset: 0 for a field the vtable has no room for.
FieldOffset(s, table, vt) ==
    LET vtable == VTableOf(s, table)
    IN IF vt < U2(s, vtable) THEN U2(s, vtable + vt) ELSE 0

\* GetPointer of a field that is there.
Target(s, table, vt) ==
    LET p == table + FieldOffset(s, table, vt) IN p + I4(s, p)

-----------------------------------------------------------------------------
(* Verifier. *)

\* Verify(elem, elem_len); negative positions stand for huge ones.
InRange(s, at, n) == n < Len(s) /\ 0 <= at /\ at <= Len(s) - n

Scalar(s, at, n) == at % n = 0 /\ InRange(s, at, n)

\* VerifyOffset: not null, not negative, and to a byte of the buffer.
Offset(s, at) == Scalar(s, at, 4) /\ I4(s, at) > 0 /\ InRange(s, at + I4(s, at), 1)

\* VerifyVectorOrString for elements of one byte.
ByteVector(s, at) ==
    Scalar(s, at, 4) /\ I4(s, at) >= 0 /\ InRange(s, at, 4 + I4(s, at))

\* VerifyString: the terminator is part of the buffer, and zero.
String(s, at) ==
    /\ ByteVector(s, at)
    /\ InRange(s, at + 4 + I4(s, at), 1)
    /\ At(s, at + 4 + I4(s, at)) = 0

\* VerifyTableStart: the soffset, then the vtable in its entirety.
TableStart(s, table) ==
    /\ Scalar(s, table, 4)
    /\ Scalar(s, VTableOf(s, table), 2)
    /\ U2(s, VTableOf(s, table)) % 2 = 0
    /\ InRange(s, VTableOf(s, table), U2(s, VTableOf(s, table)))

IsReference(field) == field.type \in {"string", "bytes"}
Width(field) == CASE field.type = "int8" -> 1 [] field.type = "int32" -> 4 [] field.type = "int64" -> 8

\* The calls a generated Verify makes for one field; an absent one passes.
FieldVerified(s, table, field) ==
    LET off == FieldOffset(s, table, field.vt)
    IN off = 0 \/
        CASE field.type = "string" -> /\ Offset(s, table + off)
                                      /\ String(s, Target(s, table, field.vt))
          [] field.type = "bytes" -> /\ Offset(s, table + off)
                                     /\ ByteVector(s, Target(s, table, field.vt))
          [] OTHER -> Scalar(s, table + off, Width(field))

\* FLATBUFFERS_MIN_BUFFER_SIZE: a root offset, an soffset and a vtable.
MinBufferSize == 12

\* VerifyBuffer of a table with these fields.
VerifyBuffer(s, fields) ==
    /\ Len(s) >= MinBufferSize
    /\ Offset(s, 0)
    /\ TableStart(s, Root(s))
    /\ \A i \in DOMAIN fields : FieldVerified(s, Root(s), fields[i])

-----------------------------------------------------------------------------
(* Accessors. *)

\* The value an accessor of the root table returns: the bytes of a scalar, of a
\* string or of a vector, or that the pointer is null.
Get(s, field) ==
    LET table == Root(s)
        off == FieldOffset(s, table, field.vt)
        at == Target(s, table, field.vt)
    IN IF off = 0 THEN (IF IsReference(field) THEN Absent ELSE field.default)
       ELSE IF IsReference(field) THEN Slice(s, at + 4, I4(s, at))
       ELSE Slice(s, table + off, Width(field))

\* Every range <<position, length>> those accessors read.
Accesses(s, fields) ==
    LET table == Root(s)
        vtable == VTableOf(s, table)
        Of(field) ==
            LET off == FieldOffset(s, table, field.vt)
                at == Target(s, table, field.vt)
            IN {<<vtable, 2>>}
               \cup (IF field.vt < U2(s, vtable) THEN {<<vtable + field.vt, 2>>} ELSE {})
               \cup (IF off = 0 THEN {}
                     ELSE IF IsReference(field)
                     THEN {<<table + off, 4>>, <<at, 4>>, <<at + 4, I4(s, at)>>}
                          \cup (IF field.type = "string" THEN {<<at + 4 + I4(s, at), 1>>} ELSE {})
                     ELSE {<<table + off, Width(field)>>})
    IN {<<0, 4>>, <<table, 4>>} \cup UNION {Of(fields[i]) : i \in DOMAIN fields}
=============================================================================
