------------------------------- MODULE RpcMessages -------------------------------
(***************************************************************************)
(* The messages of the RPC interface, from the values a caller puts in to   *)
(* those the other side gets out: the generated schemas, the calls a        *)
(* JNI function or a handler makes on its FlatBufferBuilder, and the        *)
(* wrapper register_method puts around a handler (NngUdsRpcPeerDial.hpp),   *)
(* which verifies the bytes, reads the root and builds the response.        *)
(*                                                                         *)
(* A builder is a local object of one thread: one message is followed at a  *)
(* time.  The bytes may reach the handler of another method than the one    *)
(* they were built for, or be fewer than were sent: that is what the        *)
(* verification is there for.                                               *)
(***************************************************************************)
EXTENDS FlatBufferBuilder, FlatBufferReader, FiniteSets

CONSTANTS Strings,      \* strings put into messages, without zero bytes
          ByteVectors,  \* byte vectors put into messages
          Int8s, Int32s, Int64s, \* scalars, as little-endian bytes
          InitialSizes  \* initial_size of a builder, 1024 in the code

ASSUME SizesAssumption == InitialSizes \subseteq Nat

ASSUME ValuesAssumption ==
    /\ \A s \in Strings : s \in Seq(1..255)
    /\ \A s \in ByteVectors : s \in Seq(0..255)
    /\ \A s \in Int8s : s \in Seq(0..255) /\ Len(s) = 1
    /\ \A s \in Int32s : s \in Seq(0..255) /\ Len(s) = 4
    /\ \A s \in Int64s : s \in Seq(0..255) /\ Len(s) = 8

\* A field: its vtable position, its type and, for a scalar, its default 0.
Field(vt, type) ==
    [vt |-> vt, type |-> type,
     default |-> Zeros(CASE type = "int8" -> 1 [] type = "int64" -> 8 [] OTHER -> 4)]

\* The schemas, each a sequence of fields in the order its Create function
\* adds them.
VoidRequest == <<>>
VoidResponse == <<>>
Int64Request == <<Field(4, "int64")>>
StringRequest == <<Field(4, "string")>>
BytesRequest == <<Field(4, "bytes")>>
BtRfcommData == <<Field(6, "int32"), Field(4, "bytes")>>
CarPlayAvailability ==
    <<Field(10, "string"), Field(6, "string"), Field(8, "int8"), Field(4, "int8")>>
HostapdInfo ==
    <<Field(12, "int32"), Field(10, "string"), Field(8, "int32"), Field(6, "string"),
      Field(4, "string")>>

Schema ==
    [VoidRequest |-> VoidRequest, VoidResponse |-> VoidResponse,
     Int64Request |-> Int64Request, StringRequest |-> StringRequest,
     BytesRequest |-> BytesRequest, BtRfcommData |-> BtRfcommData,
     CarPlayAvailability |-> CarPlayAvailability, HostapdInfo |-> HostapdInfo]

Kinds == DOMAIN Schema
Requests == Kinds \ {"VoidResponse"}

\* The requests whose handlers are registered on this side of the connection.
\* The handler of each calls every reference of its request without a test.
Handled == {"VoidRequest", "StringRequest", "BytesRequest", "BtRfcommData",
            "CarPlayAvailability"}

\* A reference may be left out by the one who builds the message; a scalar that
\* is not added has its default.
ValuesOf(field) ==
    CASE field.type = "string" -> Strings \cup {Absent}
      [] field.type = "bytes" -> ByteVectors \cup {Absent}
      [] field.type = "int8" -> Int8s
      [] field.type = "int32" -> Int32s
      [] field.type = "int64" -> Int64s

VARIABLES
    phase,    \* how far the message is
    kind,     \* its schema
    values,   \* what each field was given
    builder,  \* the FlatBufferBuilder
    pending,  \* references to create, or fields to add
    refs,     \* offset of each reference created, 0 before
    start,    \* start_ of the table builder
    root,     \* offset of the table
    wire,     \* the bytes sent
    reader,   \* the schema of the handler they reach
    got       \* what its accessors return, empty if the bytes are refused

vars == <<phase, kind, values, builder, pending, refs, start, root, wire, reader, got>>

Fields == Schema[kind]
First(S) == CHOOSE i \in S : \A j \in S : i <= j
Last(S) == CHOOSE i \in S : \A j \in S : i >= j
Complete == \A i \in DOMAIN values : values[i] # Absent

Init ==
    /\ phase = "idle"
    /\ kind = "VoidRequest"
    /\ values = <<>>
    /\ builder = New(0)
    /\ pending = {}
    /\ refs = <<>>
    /\ start = 0
    /\ root = 0
    /\ wire = <<>>
    /\ reader = "VoidRequest"
    /\ got = <<>>

References(k, vals) == {i \in DOMAIN vals : IsReference(Schema[k][i]) /\ vals[i] # Absent}

Compose(k, vals, initial) ==
    /\ phase' = "references"
    /\ kind' = k
    /\ values' = vals
    /\ builder' = New(initial)
    /\ pending' = References(k, vals)
    /\ refs' = [i \in DOMAIN vals |-> 0]
    /\ start' = 0
    /\ root' = 0
    /\ wire' = <<>>
    /\ reader' = k
    /\ got' = <<>>

\* A JNI function, or the peer, begins a call.
Call(k, vals, initial) == phase = "idle" /\ Compose(k, vals, initial)

\* Strings and vectors are created in the order of the schema's fields, which
\* Create adds in reverse.
CreateReference ==
    /\ phase = "references"
    /\ pending # {}
    /\ LET i == Last(pending)
           b == IF Fields[i].type = "string" THEN CreateString(builder, values[i])
                ELSE CreateVector(builder, values[i])
       IN /\ builder' = b
          /\ refs' = [refs EXCEPT ![i] = Size(b)]
          /\ pending' = pending \ {i}
    /\ UNCHANGED <<phase, kind, values, start, root, wire, reader, got>>

StartTable ==
    /\ phase = "references"
    /\ pending = {}
    /\ phase' = "fields"
    /\ start' = Size(builder)
    /\ pending' = DOMAIN values
    /\ UNCHANGED <<kind, values, builder, refs, root, wire, reader, got>>

AddField ==
    /\ phase = "fields"
    /\ pending # {}
    /\ LET i == First(pending)
           f == Fields[i]
       IN /\ builder' = IF IsReference(f) THEN AddOffset(builder, f.vt, refs[i])
                        ELSE AddElement(builder, f.vt, values[i], f.default)
          /\ pending' = pending \ {i}
    /\ UNCHANGED <<phase, kind, values, refs, start, root, wire, reader, got>>

FinishTable ==
    /\ phase = "fields"
    /\ pending = {}
    /\ phase' = "finish"
    /\ builder' = EndTable(builder, start)
    /\ root' = TableOffset(builder)
    /\ UNCHANGED <<kind, values, pending, refs, start, wire, reader, got>>

FinishBuffer ==
    /\ phase = "finish"
    /\ phase' = "sent"
    /\ builder' = Finish(builder, root)
    /\ wire' = Contents(builder'.vec)
    /\ UNCHANGED <<kind, values, pending, refs, start, root, reader, got>>

-----------------------------------------------------------------------------
(* The wrapper of register_method. *)

ReadBy(s, k) == [i \in DOMAIN Schema[k] |-> Get(s, Schema[k][i])]

Missing(read) == \E i \in DOMAIN read : read[i] = Absent

\* Mutant: the bytes are read as they are.
DeliverUnverified(k, n) ==
    /\ phase = "sent" /\ kind \in Requests
    /\ k = kind \/ n = Len(wire)
    /\ wire' = Slice(wire, 0, n)
    /\ reader' = k
    /\ got' = ReadBy(wire', k)
    /\ phase' = IF k \in Handled /\ Missing(got') THEN "crashed" ELSE "accepted"
    /\ UNCHANGED <<kind, values, builder, pending, refs, start, root>>

\* n of the bytes reach the handler of a method whose request is a k.  Bytes
\* the verifier refuses are answered with nothing.  A handler that calls a
\* reference the message does not have ends the process.
Deliver(k, n) ==
    /\ phase = "sent" /\ kind \in Requests
    /\ k = kind \/ n = Len(wire)
    /\ wire' = Slice(wire, 0, n)
    /\ reader' = k
    /\ IF VerifyBuffer(wire', Schema[k])
       THEN /\ got' = ReadBy(wire', k)
            /\ phase' = IF k \in Handled /\ Missing(got') THEN "crashed" ELSE "accepted"
       ELSE got' = <<>> /\ phase' = "refused"
    /\ UNCHANGED <<kind, values, builder, pending, refs, start, root>>

\* The handler's CreateVoidResponse, in a builder of its own.
Respond(initial) ==
    /\ phase = "accepted"
    /\ Compose("VoidResponse", <<>>, initial)

\* The call is over; the caller looks at no response.
Return ==
    /\ \/ phase = "refused"
       \/ phase = "sent" /\ kind = "VoidResponse"
    /\ phase' = "idle"
    /\ kind' = "VoidRequest"
    /\ values' = <<>>
    /\ builder' = New(0)
    /\ pending' = {}
    /\ refs' = <<>>
    /\ start' = 0
    /\ root' = 0
    /\ wire' = <<>>
    /\ reader' = "VoidRequest"
    /\ got' = <<>>

MessageValues(k) ==
    {vals \in [DOMAIN Schema[k] -> UNION {ValuesOf(Schema[k][i]) : i \in DOMAIN Schema[k]}] :
        \A i \in DOMAIN Schema[k] : vals[i] \in ValuesOf(Schema[k][i])}

Next ==
    \/ \E k \in Requests, initial \in InitialSizes :
          \E vals \in MessageValues(k) : Call(k, vals, initial)
    \/ CreateReference \/ StartTable \/ AddField \/ FinishTable \/ FinishBuffer
    \/ \E k \in Requests, n \in 0..Len(wire) : Deliver(k, n)
    \/ \E initial \in InitialSizes : Respond(initial)
    \/ Return

Spec == Init /\ [][Next]_vars

-----------------------------------------------------------------------------
(* Properties. *)

Delivered == phase \in {"accepted", "refused", "crashed"}

\* In one block, the data and the scratch pad never reach into each other: a
\* field location kept for the vtable is not overwritten by the field pushed
\* next, nor a string by a field location.
RegionsApart == builder.vec.size + builder.vec.scratch <= builder.vec.reserved

\* Every variable keeps its type, and the block of the builder its two regions.
TypeOK ==
    /\ phase \in {"idle", "references", "fields", "finish", "sent", "accepted", "refused",
                  "crashed"}
    /\ kind \in Kinds /\ reader \in Kinds
    /\ pending \subseteq DOMAIN values
    /\ DOMAIN values = DOMAIN Fields /\ DOMAIN refs = DOMAIN values
    /\ start \in Nat /\ root \in Nat
    /\ RegionsApart

ByteAt(b, offset) == b.vec.mem[DataAt(b.vec, offset)]

KeepsPushed ==
    phase \in {"references", "fields", "finish"} =>
        /\ builder'.vec.size >= builder.vec.size
        /\ \A i \in 1..builder.vec.size : ByteAt(builder', i) = ByteAt(builder, i)

\* What was pushed stays at its offset from the end, whatever is pushed,
\* padded, reallocated or written into a vtable after it: the offsets
\* CreateString and EndTable handed out remain valid.
OffsetsStayValid == [][KeepsPushed]_vars

\* A message that reaches its own method whole is verified, and every accessor
\* returns what the builder was given: defaults that were not stored, empty
\* strings, and an absent reference as such.
RoundTrip ==
    Delivered /\ reader = kind /\ Len(wire) = builder.vec.size =>
        /\ phase # "refused"
        /\ got = values
        /\ Complete => phase = "accepted"

\* Bytes that are fewer than were sent, or that were built for another method,
\* are refused, or read within their bounds.
ReadsInBounds ==
    Delivered /\ phase # "refused" =>
        \A a \in Accesses(wire, Schema[reader]) : 0 <= a[1] /\ 0 <= a[2] /\ a[1] + a[2] <= Len(wire)
=============================================================================
