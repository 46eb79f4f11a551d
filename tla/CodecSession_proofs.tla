--------------------------- MODULE CodecSession_proofs ---------------------------
(***************************************************************************)
(* Two results about the decoder's life, for any number of requests,       *)
(* feeders, access units and input buffers: who may use an input buffer    *)
(* when, and that a stream that is started once and not stopped cannot     *)
(* make a codec call that kills the process.                               *)
(***************************************************************************)
EXTENDS CodecSession, TLAPS

\* A feeder has an index exactly between the calls that dequeue and queue it,
\* and a pointer from AMediaCodec_getInputBuffer on.
HoldDiscipline ==
    \A f \in Feeders :
        /\ source[f] # Null <=> feedPc[f] \in {"get", "copy", "queue"}
        /\ source[f] # Null => index[f] \in Slots
        /\ pointer[f] # Null <=> feedPc[f] \in {"copy", "queue"}

\* Only a codec that was started gives out buffers and pointers, and none is
\* started twice.
InUse == {c \in Codecs : state[c] \in {"started", "stopped", "deleted"}}
HeldAreInUse == \A f \in Feeders : source[f] \in InUse \cup {Null} /\ pointer[f] \in InUse \cup {Null}

\* A codec has all its buffers to itself unless it is running, and the member only
\* ever points to one that was made.
IdleIsFree ==
    /\ \A c \in Codecs :
        /\ startPc[c] \in {"none", "create"} => state[c] = "none"
        /\ state[c] # "started" => buffer[c] = AllFree
    /\ codec \in Codecs => state[codec] # "none"

BuffersKept == SoleUse /\ LostToRefusals

BufferInv == TypeOK /\ HoldDiscipline /\ HeldAreInUse /\ IdleIsFree /\ BuffersKept

\* What a session that was started once and not stopped looks like: as soon as
\* the status leaves IDLE, the member points to a running codec; before that, it
\* is read only by the start thread, after that thread has set it.
SoleSessionInv ==
    /\ ~crashed
    /\ \A c \in Codecs \ {1} : startPc[c] = "none" /\ outPc[c] = "none"
    /\ startPc[1] = "configure" => codec = 1 /\ state[1] = "created" /\ status = "IDLE"
    /\ startPc[1] = "start" => codec = 1 /\ state[1] = "configured" /\ status = "IDLE"
    /\ startPc[1] = "spawn" => codec = 1 /\ state[1] = "started" /\ status = "IDLE"
    /\ startPc[1] \in {"none", "create"} => status = "IDLE"
    /\ status # "IDLE" => codec = 1 /\ state[1] = "started" /\ startPc[1] = "done"
    /\ status = "IDLE" => /\ outPc[1] = "none"
                          /\ \A f \in Feeders : feedPc[f] \in {"idle", "null", "status"}
    /\ status = "AVAILABLE" => 1 \in configured
    /\ status # "STOPPED"
    /\ \A f \in Feeders : /\ feedPc[f] = "available" => 1 \in configured
                          /\ feedPc[f] \in {"copy", "queue"} => pointer[f] = 1

IInv == TypeOK /\ (SoleSession => SoleSessionInv)

-----------------------------------------------------------------------------
(* Codecs, nulls and the pull thread are told apart. *)
LEMMA Names == /\ 1 \in Codecs
               /\ Codecs \subseteq Nat
               /\ Null \notin Codecs /\ Wild \notin Codecs /\ Null # Wild
               /\ Pull \in Feeders /\ Configs \subseteq Feeders
BY BoundsAssumption, NamesAssumption DEF Codecs, Feeders

(* The buffer invariant holds initially. *)
LEMMA InitBufferInv == Init => BufferInv
<1> SUFFICES ASSUME Init PROVE BufferInv
    OBVIOUS
<1>1. TypeOK
    <2>1. 0 \in 0..Frames
        BY BoundsAssumption
    <2> QED
        BY <2>1 DEF Init, TypeOK, AllFree
<1>2. HoldDiscipline /\ HeldAreInUse /\ IdleIsFree
    BY Names DEF Init, HoldDiscipline, HeldAreInUse, IdleIsFree
<1>3. BuffersKept
    BY DEF Init, BuffersKept, SoleUse, LostToRefusals, Running, Live
<1> QED
    BY <1>1, <1>2, <1>3 DEF BufferInv

(* Who may use which buffer is not touched by a step that leaves codecs, buffers *)
(* and indices alone.                                                            *)
LEMMA BuffersUntouched ==
    ASSUME BuffersKept, UNCHANGED <<codec, state, buffer, foreign, index, pointer, source>>,
           large \subseteq large'
    PROVE  BuffersKept'
BY DEF BuffersKept, SoleUse, SoleHolder, WritersHold, Holders, LostToRefusals, Lost, Running, Live

(* The buffers of running codecs stay in sole use when feeders only give up *)
(* indices and pointers, or get one together with its buffer.               *)
LEMMA LeavingKeepsSoleUse ==
    ASSUME TypeOK, SoleUse, NEW f \in Feeders, Leave(f), UNCHANGED <<state, buffer, foreign>>
    PROVE  SoleUse'
<1> SUFFICES ASSUME NEW c \in Codecs \ foreign, state[c] = "started"
             PROVE  SoleHolder(c)' /\ WritersHold(c)'
    BY DEF SoleUse
<1>1. SoleHolder(c) /\ WritersHold(c)
    BY DEF SoleUse
<1>2. Holders(c)' = Holders(c) \ {f}
    BY NamesAssumption DEF Leave, Holders, TypeOK
<1>3. \A g \in Feeders \ {f} : index'[g] = index[g] /\ pointer'[g] = pointer[g]
    BY DEF Leave, TypeOK
<1>4. pointer'[f] = Null
    BY DEF Leave, TypeOK
<1>5. Holders(c) \subseteq Feeders
    BY DEF Holders
<1> QED
    BY <1>1, <1>2, <1>3, <1>4, <1>5, NamesAssumption DEF SoleHolder, WritersHold

(* A feeder that starts again keeps the invariant, if its unit was not refused *)
(* for its size: the codec has taken the buffer from it before.                *)
LEMMA RetryKeeps ==
    ASSUME BufferInv, NEW f \in Feeders, Retry(f), feedPc[f] \in {"dequeue", "get", "queue"},
           UNCHANGED <<codecVars, bufferVars, unitVars, startPc, outPc, stopPc, crashed>>,
           Running /\ large = {} /\ source[f] = codec => buffer[codec][index[f]] # "client"
    PROVE  BufferInv'
<1> TypeOK /\ HoldDiscipline /\ HeldAreInUse /\ IdleIsFree /\ BuffersKept
    BY DEF BufferInv
<1> USE Names DEF Retry, codecVars, bufferVars, unitVars
<1>1. TypeOK' /\ HoldDiscipline' /\ HeldAreInUse' /\ IdleIsFree'
    BY DEF TypeOK, HoldDiscipline, HeldAreInUse, IdleIsFree, InUse, Leave
<1>2. SoleUse'
    BY LeavingKeepsSoleUse DEF BuffersKept
<1>3. LostToRefusals'
    <2> SUFFICES ASSUME Running, large = {}, NEW i \in Slots, i \in Lost(codec)'
                 PROVE  FALSE
        BY DEF LostToRefusals, Running, Live, Lost
    <2>1. buffer[codec][i] = "client" /\ i \notin Lost(codec)
        BY DEF LostToRefusals, BuffersKept, Lost
    <2>2. PICK g \in Holders(codec) : index[g] = i
        BY <2>1 DEF Lost
    <2>3. g \in Feeders /\ source[g] = codec /\ g # f
        BY <2>1, <2>2 DEF Holders
    <2>4. source'[g] = codec /\ index'[g] = i
        BY <2>2, <2>3 DEF Leave, TypeOK
    <2> QED
        BY <2>3, <2>4 DEF Lost, Holders
<1> QED
    BY <1>1, <1>2, <1>3 DEF BufferInv, BuffersKept

(* A feeder that dequeues gets a buffer nobody has. *)
LEMMA TakeFreeKeeps ==
    ASSUME BufferInv, NEW f \in Feeders, feedPc[f] = "dequeue", TakeFree(f)
    PROVE  BufferInv'
<1> TypeOK /\ HoldDiscipline /\ HeldAreInUse /\ IdleIsFree /\ BuffersKept
    BY DEF BufferInv
<1> USE Names
<1>1. PICK i \in Slots : /\ buffer[codec][i] = "free"
                         /\ buffer' = [buffer EXCEPT ![codec][i] = "client"]
                         /\ index' = [index EXCEPT ![f] = i]
    BY DEF TakeFree, FreeSlots
<1>2. /\ codec \in Codecs /\ state[codec] = "started"
      /\ source' = [source EXCEPT ![f] = codec]
      /\ feedPc' = [feedPc EXCEPT ![f] = "get"]
      /\ UNCHANGED <<codecVars, foreign, pointer, unitVars, startPc, outPc, stopPc, crashed>>
    BY DEF TakeFree, Running, Live
<1>3. source[f] = Null /\ pointer[f] = Null
    BY DEF HoldDiscipline
<1> USE <1>1, <1>2, <1>3 DEF codecVars, unitVars
<1>4. TypeOK' /\ HoldDiscipline' /\ HeldAreInUse' /\ IdleIsFree'
    BY DEF TypeOK, HoldDiscipline, HeldAreInUse, IdleIsFree, InUse
<1>5. ASSUME NEW c \in Codecs
      PROVE  Holders(c)' = IF c = codec THEN Holders(c) \cup {f} ELSE Holders(c)
    BY DEF Holders, TypeOK
<1>6. \A g \in Feeders \ {f} : index'[g] = index[g]
    BY DEF TypeOK
<1>7. /\ index'[f] = i
      /\ \A c \in Codecs : c # codec => buffer'[c] = buffer[c]
      /\ \A j \in Slots : buffer'[codec][j] = IF j = i THEN "client" ELSE buffer[codec][j]
    BY DEF TypeOK
<1>8. ASSUME NEW c \in Codecs \ foreign, state[c] = "started"
      PROVE  SoleHolder(c)' /\ WritersHold(c)'
    <2>1. SoleHolder(c) /\ WritersHold(c)
        BY <1>8 DEF BuffersKept, SoleUse
    <2>2. Holders(c) \subseteq Feeders \ {f}
        BY DEF Holders
    <2>3. CASE c = codec
        <3>1. \A g \in Holders(c) : index[g] # i /\ buffer[c][index[g]] = "client" /\ index[g] \in Slots
            BY <2>1, <2>3 DEF SoleHolder, Holders, HoldDiscipline
        <3>2. SoleHolder(c)'
            BY <1>5, <1>6, <1>7, <2>1, <2>2, <2>3, <3>1 DEF SoleHolder
        <3> QED
            BY <1>5, <2>1, <3>2 DEF WritersHold
    <2>4. CASE c # codec
        BY <1>5, <1>6, <1>7, <2>1, <2>2, <2>4 DEF SoleHolder, WritersHold
    <2> QED
        BY <2>3, <2>4
<1>9. LostToRefusals'
    <2> SUFFICES ASSUME large = {}, NEW j \in Slots, j \in Lost(codec)'
                 PROVE  FALSE
        BY DEF LostToRefusals, Lost
    <2>1. j # i
        BY <1>5, <1>7 DEF Lost
    <2>2. buffer[codec][j] = "client"
        BY <1>7, <2>1 DEF Lost
    <2>3. Lost(codec) = {}
        BY DEF BuffersKept, LostToRefusals, Running, Live
    <2>4. PICK g \in Holders(codec) : index[g] = j
        BY <2>2, <2>3 DEF Lost
    <2>5. g \in Feeders \ {f}
        BY DEF Holders
    <2> QED
        BY <1>5, <1>6, <2>4, <2>5 DEF Lost
<1> QED
    BY <1>4, <1>8, <1>9 DEF BufferInv, BuffersKept, SoleUse

(* Getting the pointer is harmless, or marks the codec as one that took a foreign *)
(* index.                                                                         *)
LEMMA GetKeeps ==
    ASSUME BufferInv, NEW f \in Feeders, feedPc[f] = "get", Takes(index[f]),
           pointer' = [pointer EXCEPT ![f] = codec], foreign' = ForeignWith(f),
           feedPc' = [feedPc EXCEPT ![f] = "copy"],
           UNCHANGED <<codecVars, buffer, index, source, unitVars, startPc, outPc, stopPc, crashed>>
    PROVE  BufferInv'
<1> TypeOK /\ HoldDiscipline /\ HeldAreInUse /\ IdleIsFree /\ BuffersKept
    BY DEF BufferInv
<1> codec \in Codecs /\ state[codec] = "started"
    BY DEF Takes, Running, Live
<1> USE Names DEF codecVars, unitVars, ForeignWith
<1>1. TypeOK' /\ HoldDiscipline' /\ HeldAreInUse' /\ IdleIsFree'
    <2>1. TypeOK'
        BY DEF TypeOK
    <2>2. HoldDiscipline'
        BY DEF TypeOK, HoldDiscipline
    <2>3. HeldAreInUse'
        BY DEF TypeOK, HeldAreInUse, InUse
    <2>4. IdleIsFree'
        BY DEF IdleIsFree
    <2> QED
        BY <2>1, <2>2, <2>3, <2>4
<1>2. LostToRefusals'
    BY DEF BuffersKept, LostToRefusals, Running, Live, Lost, Holders
<1>3. ASSUME NEW c \in Codecs \ foreign', state[c] = "started"
      PROVE  SoleHolder(c)' /\ WritersHold(c)'
    <2>1. SoleHolder(c) /\ WritersHold(c)
        BY <1>3 DEF BuffersKept, SoleUse
    <2>2. c = codec => source[f] = c
        BY <1>3
    <2> QED
        BY <2>1, <2>2 DEF SoleHolder, WritersHold, Holders, TypeOK
<1> QED
    BY <1>1, <1>2, <1>3 DEF BufferInv, BuffersKept, SoleUse

(* Queueing takes the buffer from the feeder that has it, or marks the codec. *)
LEMMA EnqueueKeeps ==
    ASSUME BufferInv, NEW f \in Feeders, feedPc[f] = "queue", Enqueue(f), Leave(f),
           feedPc' = [feedPc EXCEPT ![f] = Accepted(f)],
           UNCHANGED <<codec, status, state, unitVars, startPc, outPc, stopPc, crashed>>
    PROVE  BufferInv'
<1> TypeOK /\ HoldDiscipline /\ HeldAreInUse /\ IdleIsFree /\ BuffersKept
    BY DEF BufferInv
<1>1. /\ codec \in Codecs /\ state[codec] = "started"
      /\ buffer' = [buffer EXCEPT ![codec][index[f]] = "queued"]
      /\ foreign' = foreign \cup ({codec} \ {source[f]})
      /\ configured' \in {configured, configured \cup {codec}}
    BY DEF Enqueue, Takes, Running, Live, ForeignWith
<1>2. source[f] \in Codecs /\ index[f] \in Slots
    BY Names DEF HoldDiscipline, TypeOK
<1> USE Names, <1>1, <1>2 DEF unitVars
<1>3. TypeOK' /\ HoldDiscipline' /\ HeldAreInUse' /\ IdleIsFree'
    <2>1. TypeOK'
        BY DEF TypeOK, Leave, Accepted
    <2>2. HoldDiscipline'
        BY DEF TypeOK, HoldDiscipline, Leave, Accepted
    <2>3. HeldAreInUse'
        BY DEF TypeOK, HeldAreInUse, InUse, Leave
    <2>4. IdleIsFree'
        BY DEF TypeOK, IdleIsFree
    <2> QED
        BY <2>1, <2>2, <2>3, <2>4
<1>4. ASSUME NEW c \in Codecs
      PROVE  Holders(c)' = Holders(c) \ {f}
    BY DEF Leave, Holders, TypeOK
<1>5. /\ \A g \in Feeders \ {f} : index'[g] = index[g] /\ pointer'[g] = pointer[g]
      /\ pointer'[f] = Null
    BY DEF Leave, TypeOK
<1>6. /\ \A c \in Codecs : c # codec => buffer'[c] = buffer[c]
      /\ \A j \in Slots : buffer'[codec][j] = IF j = index[f] THEN "queued" ELSE buffer[codec][j]
    BY DEF TypeOK
<1>7. ASSUME NEW c \in Codecs \ foreign', state[c] = "started"
      PROVE  SoleHolder(c)' /\ WritersHold(c)'
    <2>1. SoleHolder(c) /\ WritersHold(c)
        BY <1>7 DEF BuffersKept, SoleUse
    <2>2. \A g \in Holders(c) : g \in Feeders /\ index[g] \in Slots
        BY <1>7 DEF Holders, HoldDiscipline
    <2>3. CASE c = codec
        <3>1. f \in Holders(c)
            BY <1>7, <2>3 DEF Holders
        <3>2. \A g \in Holders(c) \ {f} : index[g] # index[f]
            BY <2>1, <3>1 DEF SoleHolder
        <3> QED
            BY <1>4, <1>5, <1>6, <2>1, <2>2, <2>3, <3>2 DEF SoleHolder, WritersHold
    <2>4. CASE c # codec
        BY <1>4, <1>5, <1>6, <2>1, <2>2, <2>4 DEF SoleHolder, WritersHold
    <2> QED
        BY <2>3, <2>4
<1>8. LostToRefusals'
    <2> SUFFICES ASSUME large = {}, NEW j \in Slots, j \in Lost(codec)'
                 PROVE  FALSE
        BY DEF LostToRefusals, Lost
    <2>1. j # index[f] /\ buffer[codec][j] = "client"
        BY <1>6 DEF Lost
    <2>2. Lost(codec) = {}
        BY DEF BuffersKept, LostToRefusals, Running, Live
    <2>3. PICK g \in Holders(codec) : index[g] = j
        BY <2>1, <2>2 DEF Lost
    <2>4. g \in Feeders \ {f}
        BY <2>1, <2>3 DEF Holders
    <2> QED
        BY <1>4, <1>5, <2>3, <2>4 DEF Lost
<1> QED
    BY <1>3, <1>7, <1>8 DEF BufferInv, BuffersKept, SoleUse

(* A codec that is made, started or stopped has no buffer in anybody's hands *)
(* afterwards, and none that counts as lost.                                 *)
LEMMA StateChangeKeeps ==
    ASSUME BufferInv, UNCHANGED <<foreign, index, pointer, source, large>>, NEW k \in Codecs,
           NEW a, a # "none", state' = [state EXCEPT ![k] = a],
           a = "started" => state[k] = "configured" /\ buffer' = buffer /\ codec' = codec,
           \/ codec' = codec /\ buffer' \in {buffer, [buffer EXCEPT ![k] = AllFree]}
           \/ codec' = k /\ state[k] # "started" /\ buffer' = buffer
    PROVE  BuffersKept'
<1> TypeOK /\ HoldDiscipline /\ HeldAreInUse /\ IdleIsFree /\ BuffersKept
    BY DEF BufferInv
<1> USE Names
<1>1. \A c \in Codecs : c # k => state'[c] = state[c] /\ buffer'[c] = buffer[c]
    BY DEF TypeOK
<1>2. state'[k] = a
    BY DEF TypeOK
<1>3. a = "started" => Holders(k) = {} /\ buffer'[k] = AllFree /\ (\A f \in Feeders : pointer[f] # k)
    BY DEF HeldAreInUse, InUse, Holders, IdleIsFree
<1>4. ASSUME NEW c \in Codecs PROVE Holders(c)' = Holders(c)
    BY DEF Holders
<1>5. SoleUse'
    <2> SUFFICES ASSUME NEW c \in Codecs \ foreign, state'[c] = "started"
                 PROVE  SoleHolder(c)' /\ WritersHold(c)'
        BY DEF SoleUse
    <2>1. CASE c = k
        BY <1>2, <1>3, <1>4, <2>1 DEF SoleHolder, WritersHold
    <2>2. CASE c # k
        <3>1. SoleHolder(c) /\ WritersHold(c)
            BY <1>1, <2>2 DEF BuffersKept, SoleUse
        <3> QED
            BY <1>1, <1>4, <2>2, <3>1 DEF SoleHolder, WritersHold
    <2> QED
        BY <2>1, <2>2
<1>6. LostToRefusals'
    <2> SUFFICES ASSUME Running', large = {} PROVE Lost(codec)' = {}
        BY DEF LostToRefusals
    <2>1. codec' \in Codecs /\ state'[codec'] = "started"
        BY DEF Running, Live
    <2>2. CASE codec' = k
        <3>1. \A i \in Slots : buffer'[k][i] = "free"
            BY <1>2, <1>3, <2>1, <2>2 DEF AllFree
        <3> QED
            BY <2>2, <3>1 DEF Lost
    <2>3. CASE codec' # k
        <3>1. codec' = codec /\ Running
            BY <1>1, <2>1, <2>3 DEF Running, Live
        <3>2. Lost(codec) = {}
            BY <3>1 DEF BuffersKept, LostToRefusals
        <3> QED
            BY <1>1, <2>1, <2>3, <3>1, <3>2 DEF Lost, Holders
    <2> QED
        BY <2>2, <2>3
<1> QED
    BY <1>5, <1>6 DEF BuffersKept

(* Every step keeps the buffer invariant. *)
LEMMA NextBufferInv == BufferInv /\ [Next]_vars => BufferInv'
<1> SUFFICES ASSUME BufferInv, [Next]_vars PROVE BufferInv'
    OBVIOUS
<1> TypeOK /\ HoldDiscipline /\ HeldAreInUse /\ IdleIsFree /\ BuffersKept
    BY DEF BufferInv
<1> USE Names DEF codecVars, bufferVars, holdVars, unitVars, feedVars
<1>0. ASSUME UNCHANGED <<codec, state, buffer, foreign, index, pointer, source>>, large \subseteq large'
      PROVE  BuffersKept' /\ HeldAreInUse'
    BY <1>0, BuffersUntouched DEF HeldAreInUse, InUse
<1>a. ASSUME CallMayCrash PROVE BufferInv'
    BY <1>0, <1>a DEF CallMayCrash, TypeOK, BufferInv, HoldDiscipline, IdleIsFree
<1>1. ASSUME NEW c \in Codecs, ScreenStreamStart(c) PROVE BufferInv'
    BY <1>0, <1>1 DEF ScreenStreamStart, TypeOK, BufferInv,
       HoldDiscipline, IdleIsFree
<1>2. ASSUME NEW c \in Codecs, CreateCodec(c) PROVE BufferInv'
    <2>1. state[c] = "none"
        BY <1>2 DEF CreateCodec, IdleIsFree
    <2>2. BuffersKept'
        <3>1. CASE UNCHANGED state /\ codec' \in {codec, Null}
            <4>1. SoleUse'
                BY <1>2, <3>1 DEF CreateCodec, BuffersKept, SoleUse, SoleHolder, WritersHold,
                   Holders
            <4>2. LostToRefusals'
                BY <1>2, <3>1 DEF CreateCodec, BuffersKept, Holders, LostToRefusals, Lost,
                   Running, Live
            <4> QED
                BY <4>1, <4>2 DEF BuffersKept
        <3>2. CASE state' = [state EXCEPT ![c] = "created"]
            BY <1>2, <2>1, <3>2, StateChangeKeeps DEF CreateCodec, TypeOK
        <3> QED
            BY <1>2, <3>1, <3>2 DEF CreateCodec
    <2>3. TypeOK' /\ HoldDiscipline' /\ HeldAreInUse' /\ IdleIsFree'
        <3>1. TypeOK'
            BY <1>2 DEF CreateCodec, TypeOK
        <3>2. HoldDiscipline'
            BY <1>2 DEF CreateCodec, HoldDiscipline
        <3>3. HeldAreInUse'
            BY <1>2, <2>1 DEF CreateCodec, TypeOK, HeldAreInUse, InUse
        <3>4. IdleIsFree'
            BY <1>2, <2>1 DEF CreateCodec, TypeOK, IdleIsFree
        <3> QED
            BY <3>1, <3>2, <3>3, <3>4
    <2> QED
        BY <2>2, <2>3 DEF BufferInv
<1>b. ASSUME NEW c \in Codecs, NEW from \in {"configure", "start"}, NEW to \in {"start", "spawn"},
             NEW before, NEW after \in {"configured", "started"},
             after = "started" => before = "configured",
             after = "configured" => before = "created",
             CallInStart(c, from, to, before, after)
      PROVE  BufferInv'
    <2>1. CASE CallMayCrash
        BY <1>a, <2>1
    <2>2. CASE /\ startPc' = [startPc EXCEPT ![c] = "done"]
               /\ UNCHANGED <<codecVars, bufferVars, feedVars, outPc, stopPc, crashed>>
        BY <1>0, <2>2 DEF TypeOK, BufferInv, HoldDiscipline, IdleIsFree
    <2>3. CASE /\ codec \in Codecs /\ state[codec] = before
               /\ state' = [state EXCEPT ![codec] = after]
               /\ startPc' = [startPc EXCEPT ![c] = to]
               /\ UNCHANGED <<codec, status, configured, bufferVars, feedVars, outPc, stopPc, crashed>>
        <3>1. BuffersKept'
            BY <1>b, <2>3, StateChangeKeeps
        <3>2. TypeOK' /\ HoldDiscipline' /\ HeldAreInUse' /\ IdleIsFree'
            BY <1>b, <2>3 DEF TypeOK, HoldDiscipline, HeldAreInUse, InUse, IdleIsFree
        <3> QED
            BY <3>1, <3>2 DEF BufferInv
    <2> QED
        BY <1>b, <2>1, <2>2, <2>3 DEF CallInStart, Live
<1>3. ASSUME NEW c \in Codecs, ConfigureCodec(c) PROVE BufferInv'
    BY <1>b, <1>3 DEF ConfigureCodec
<1>4. ASSUME NEW c \in Codecs, StartCodec(c) PROVE BufferInv'
    BY <1>b, <1>4 DEF StartCodec
<1>5. ASSUME NEW c \in Codecs, SpawnOutputLoop(c) PROVE BufferInv'
    BY <1>0, <1>5 DEF SpawnOutputLoop, TypeOK, BufferInv,
       HoldDiscipline, IdleIsFree
<1>6. ASSUME NEW c \in Codecs, OutputNullCheck(c) PROVE BufferInv'
    BY <1>0, <1>6 DEF OutputNullCheck, TypeOK, BufferInv,
       HoldDiscipline, IdleIsFree
<1>7. ASSUME NEW c \in Codecs, DequeueOutput(c) PROVE BufferInv'
    <2>1. CASE CallMayCrash
        BY <1>a, <2>1
    <2>2. CASE ~CallMayCrash
        <3>1. PICK p \in {"output", "null"} : outPc' = [outPc EXCEPT ![c] = p]
            BY <1>7, <2>2 DEF DequeueOutput
        <3>2. /\ outPc' \in [Codecs -> {"none", "null", "dequeue", "output", "done"}]
              /\ UNCHANGED <<codecVars, bufferVars, feedVars, startPc, stopPc, crashed>>
            BY <1>7, <2>2, <3>1 DEF DequeueOutput, TypeOK
        <3>3. BuffersKept' /\ HeldAreInUse'
            BY <1>0, <3>2
        <3> QED
            BY <3>2, <3>3 DEF TypeOK, BufferInv, HoldDiscipline, IdleIsFree
    <2> QED
        BY <2>1, <2>2
<1>8. ASSUME NEW c \in Codecs, OutputCall(c) PROVE BufferInv'
    <2>1. CASE CallMayCrash
        BY <1>a, <2>1
    <2>2. CASE ~CallMayCrash
        <3>1. TypeOK'
            <4>1. outPc' \in [Codecs -> {"none", "null", "dequeue", "output", "done"}]
                BY <1>8, <2>2 DEF OutputCall, TypeOK
            <4>2. UNCHANGED <<codecVars, bufferVars, feedVars, startPc, stopPc, crashed>>
                BY <1>8, <2>2 DEF OutputCall
            <4> QED
                BY <4>1, <4>2 DEF TypeOK
        <3>2. HoldDiscipline'
            BY <1>8, <2>2 DEF OutputCall, HoldDiscipline
        <3>3. IdleIsFree'
            BY <1>8, <2>2 DEF OutputCall, IdleIsFree
        <3>4. BuffersKept' /\ HeldAreInUse'
            BY <1>0, <1>8, <2>2 DEF OutputCall
        <3> QED
            BY <3>1, <3>2, <3>3, <3>4 DEF BufferInv
    <2> QED
        BY <2>1, <2>2
<1>9. ASSUME NEW c \in Codecs, Decode(c) PROVE BufferInv'
    <2>1. PICK i \in Slots : /\ buffer[c][i] = "queued"
                             /\ buffer' = [buffer EXCEPT ![c][i] = "free"]
        BY <1>9 DEF Decode
    <2>2. /\ state[c] = "started"
          /\ UNCHANGED <<codecVars, foreign, feedVars, startPc, outPc, stopPc, crashed>>
        BY <1>9 DEF Decode
    <2>3. ASSUME NEW k \in Codecs, NEW j \in Slots
          PROVE  buffer'[k][j] = "client" <=> buffer[k][j] = "client"
        BY <2>1 DEF TypeOK
    <2>4. SoleUse'
        <3> SUFFICES ASSUME NEW k \in Codecs \ foreign, state[k] = "started"
                     PROVE  SoleHolder(k)' /\ WritersHold(k)'
            BY <2>2 DEF SoleUse
        <3>1. SoleHolder(k) /\ WritersHold(k)
            BY DEF BuffersKept, SoleUse
        <3>2. \A f \in Holders(k) : index[f] \in Slots
            BY DEF Holders, HoldDiscipline
        <3> QED
            BY <2>2, <2>3, <3>1, <3>2 DEF SoleHolder, WritersHold, Holders
    <2>5. LostToRefusals'
        BY <2>2, <2>3 DEF BuffersKept, LostToRefusals, Lost, Holders, Running, Live
    <2>6. TypeOK' /\ HoldDiscipline' /\ HeldAreInUse' /\ IdleIsFree'
        BY <2>1, <2>2 DEF TypeOK, HoldDiscipline, HeldAreInUse, InUse, IdleIsFree
    <2> QED
        BY <2>4, <2>5, <2>6 DEF BufferInv, BuffersKept
<1>10. CASE ReceiveFrame
    <2>1. TypeOK'
        <3>1. pulled' \in 0..Frames
            BY <1>10, BoundsAssumption DEF ReceiveFrame, TypeOK
        <3>2. large' \in SUBSET Feeders
            BY <1>10 DEF ReceiveFrame, MayBeLarge, TypeOK
        <3>3. feedPc' \in [Feeders -> {"idle", "null", "status", "dequeue", "get", "copy", "queue",
                                       "available", "done"}]
            BY <1>10 DEF ReceiveFrame, TypeOK
        <3>4. UNCHANGED <<codecVars, bufferVars, holdVars, startPc, outPc, stopPc, crashed>>
            BY <1>10 DEF ReceiveFrame
        <3> QED
            BY <3>1, <3>2, <3>3, <3>4 DEF TypeOK
    <2>2. HoldDiscipline'
        BY <1>10 DEF ReceiveFrame, MayBeLarge, HoldDiscipline
    <2>3. IdleIsFree'
        BY <1>10 DEF ReceiveFrame, MayBeLarge, IdleIsFree
    <2>4. BuffersKept' /\ HeldAreInUse'
        BY <1>0, <1>10 DEF ReceiveFrame, MayBeLarge
    <2> QED
        BY <2>1, <2>2, <2>3, <2>4 DEF BufferInv
<1>11. ASSUME NEW f \in Configs, ScreenStreamConfiguration(f) PROVE BufferInv'
    BY <1>0, <1>11 DEF ScreenStreamConfiguration, MayBeLarge, TypeOK, BufferInv,
       HoldDiscipline, IdleIsFree
<1>12. ASSUME NEW f \in Feeders, FeedNullCheck(f) PROVE BufferInv'
    BY <1>0, <1>12 DEF FeedNullCheck, TypeOK, BufferInv,
       HoldDiscipline, IdleIsFree
<1>13. ASSUME NEW f \in Feeders, FeedStatusCheck(f) PROVE BufferInv'
    BY <1>0, <1>13 DEF FeedStatusCheck, TypeOK, BufferInv,
       HoldDiscipline, IdleIsFree
<1>14. ASSUME NEW f \in Feeders, DequeueInput(f) PROVE BufferInv'
    <2>1. source[f] = Null
        BY <1>14 DEF DequeueInput, HoldDiscipline
    <2>2. CASE NoneFree /\ Retry(f)
               /\ UNCHANGED <<codecVars, bufferVars, unitVars, startPc, outPc, stopPc, crashed>>
        BY <1>14, <2>1, <2>2, RetryKeeps DEF DequeueInput, Running, Live
    <2> QED
        BY <1>a, <1>14, <2>2, TakeFreeKeeps DEF DequeueInput
<1>15. ASSUME NEW f \in Feeders, GetInputBuffer(f) PROVE BufferInv'
    <2>1. CASE /\ Refused(f) \/ (Takes(index[f]) /\ f \in large)
               /\ Retry(f)
               /\ UNCHANGED <<codecVars, bufferVars, unitVars, startPc, outPc, stopPc, crashed>>
        <3>1. Running /\ large = {} => buffer[codec][index[f]] # "client"
            BY <2>1 DEF Refused, Takes, CallReturnsError, Running, Live
        <3> QED
            BY <1>15, <2>1, <3>1, RetryKeeps DEF GetInputBuffer
    <2> QED
        BY <1>a, <1>15, <2>1, GetKeeps DEF GetInputBuffer
<1>16. ASSUME NEW f \in Feeders, CopyUnit(f) PROVE BufferInv'
    <2>1. TypeOK'
        <3>1. feedPc' \in [Feeders -> {"idle", "null", "status", "dequeue", "get", "copy", "queue",
                                       "available", "done"}]
            BY <1>16 DEF CopyUnit, TypeOK
        <3>2. crashed' \in BOOLEAN
            BY <1>16 DEF CopyUnit, TypeOK
        <3>3. UNCHANGED <<codecVars, bufferVars, holdVars, unitVars, startPc, outPc, stopPc>>
            BY <1>16 DEF CopyUnit
        <3> QED
            BY <3>1, <3>2, <3>3 DEF TypeOK
    <2>2. HoldDiscipline'
        BY <1>16 DEF CopyUnit, TypeOK, HoldDiscipline
    <2>3. IdleIsFree'
        BY <1>16 DEF CopyUnit, IdleIsFree
    <2>4. BuffersKept' /\ HeldAreInUse'
        BY <1>0, <1>16 DEF CopyUnit
    <2> QED
        BY <2>1, <2>2, <2>3, <2>4 DEF BufferInv
<1>17. ASSUME NEW f \in Feeders, QueueInput(f) PROVE BufferInv'
    <2>1. CASE /\ Refused(f)
               /\ Retry(f)
               /\ UNCHANGED <<codecVars, bufferVars, unitVars, startPc, outPc, stopPc, crashed>>
        <3>1. Running => buffer[codec][index[f]] # "client"
            BY <2>1 DEF Refused, Takes, CallReturnsError, Running, Live
        <3> QED
            BY <1>17, <2>1, <3>1, RetryKeeps DEF QueueInput
    <2> QED
        BY <1>a, <1>17, <2>1, EnqueueKeeps DEF QueueInput
<1>18. ASSUME NEW f \in Feeders, SetAvailable(f) PROVE BufferInv'
    BY <1>0, <1>18 DEF SetAvailable, TypeOK, BufferInv,
       HoldDiscipline, IdleIsFree
<1>19. ASSUME NEW s \in Handlers, ScreenStreamStop(s) PROVE BufferInv'
    BY <1>0, <1>19 DEF ScreenStreamStop, TypeOK, BufferInv,
       HoldDiscipline, IdleIsFree
<1>20. ASSUME NEW s \in Handlers, StopNullCheck(s) PROVE BufferInv'
    BY <1>0, <1>20 DEF StopNullCheck, TypeOK, BufferInv,
       HoldDiscipline, IdleIsFree
<1>c. ASSUME NEW s \in Handlers, NEW from, NEW to \in {"delete", "clear"},
             NEW after \in {"stopped", "deleted"}, CallInStop(s, from, to, after)
      PROVE  BufferInv'
    <2>1. CASE CallMayCrash
        BY <1>a, <2>1
    <2>2. CASE /\ stopPc' = [stopPc EXCEPT ![s] = to]
               /\ UNCHANGED <<state, buffer>>
               /\ UNCHANGED <<codec, status, configured, foreign, feedVars, startPc, outPc, crashed>>
        BY <1>0, <2>2 DEF TypeOK, BufferInv, HoldDiscipline, IdleIsFree
    <2>3. CASE /\ codec \in Codecs /\ state[codec] # "deleted"
               /\ state' = [state EXCEPT ![codec] = after]
               /\ buffer' = [buffer EXCEPT ![codec] = AllFree]
               /\ stopPc' = [stopPc EXCEPT ![s] = to]
               /\ UNCHANGED <<codec, status, configured, foreign, feedVars, startPc, outPc, crashed>>
        <3>1. BuffersKept'
            BY <1>c, <2>3, StateChangeKeeps
        <3>2. AllFree \in [Slots -> {"free", "client", "queued"}]
            BY DEF AllFree
        <3>3. TypeOK'
            BY <1>c, <2>3, <3>2 DEF TypeOK
        <3>4. HoldDiscipline' /\ HeldAreInUse'
            BY <1>c, <2>3 DEF TypeOK, HoldDiscipline, HeldAreInUse, InUse
        <3>5. IdleIsFree'
            <4>1. buffer'[codec] = AllFree /\ state'[codec] = after /\ after # "none"
                BY <1>c, <2>3 DEF TypeOK
            <4>2. startPc[codec] \notin {"none", "create"}
                BY <2>3 DEF IdleIsFree
            <4>3. \A k \in Codecs : k # codec => buffer'[k] = buffer[k] /\ state'[k] = state[k]
                BY <2>3 DEF TypeOK
            <4> QED
                BY <1>c, <2>3, <4>1, <4>2, <4>3 DEF IdleIsFree
        <3> QED
            BY <3>1, <3>3, <3>4, <3>5 DEF BufferInv
    <2> QED
        BY <1>c, <2>1, <2>2, <2>3 DEF CallInStop, Live
<1>21. ASSUME NEW s \in Handlers, StopCodec(s) PROVE BufferInv'
    BY <1>c, <1>21 DEF StopCodec
<1>22. ASSUME NEW s \in Handlers, DeleteCodec(s) PROVE BufferInv'
    BY <1>c, <1>22 DEF DeleteCodec
<1>23. ASSUME NEW s \in Handlers, ClearPointer(s) PROVE BufferInv'
    <2>1. BuffersKept'
        BY <1>23 DEF ClearPointer, BuffersKept, SoleUse, SoleHolder, WritersHold, Holders,
           LostToRefusals, Running, Live
    <2>2. TypeOK' /\ HoldDiscipline' /\ IdleIsFree'
        BY <1>23 DEF ClearPointer, TypeOK, HoldDiscipline, IdleIsFree
    <2>3. HeldAreInUse'
        BY <1>23 DEF ClearPointer, HeldAreInUse, InUse
    <2> QED
        BY <2>1, <2>2, <2>3 DEF BufferInv
<1>24. CASE UNCHANGED vars
    BY <1>0, <1>24 DEF vars, TypeOK, BufferInv,
       HoldDiscipline, IdleIsFree
<1> QED
    BY <1>1, <1>2, <1>3, <1>4, <1>5, <1>6, <1>7, <1>8, <1>9, <1>10, <1>11, <1>12,
       <1>13, <1>14, <1>15, <1>16, <1>17, <1>18, <1>19, <1>20, <1>21, <1>22, <1>23, <1>24
       DEF Next, StartThread, OutputLoop, Feeder, StopHandler

-----------------------------------------------------------------------------
(* A request that was made stays made. *)
LEMMA RequestsOnlyGrow ==
    TypeOK /\ [Next]_vars => Started \subseteq Started' /\ Stopped \subseteq Stopped'
<1> SUFFICES ASSUME TypeOK, [Next]_vars
             PROVE  Started \subseteq Started' /\ Stopped \subseteq Stopped'
    OBVIOUS
<1> USE DEF TypeOK, Started, Stopped
<1>1. ASSUME UNCHANGED <<startPc, stopPc>>
      PROVE  Started \subseteq Started' /\ Stopped \subseteq Stopped'
    BY <1>1
<1>2. ASSUME NEW c \in Codecs, ScreenStreamStart(c) \/ StartThread(c)
      PROVE  Started \subseteq Started' /\ Stopped \subseteq Stopped'
    BY <1>2 DEF ScreenStreamStart, StartThread, CreateCodec, ConfigureCodec, StartCodec,
       CallInStart, CallMayCrash, SpawnOutputLoop
<1>3. ASSUME NEW c \in Codecs, OutputLoop(c) \/ Decode(c)
      PROVE  UNCHANGED <<startPc, stopPc>>
    BY <1>3 DEF OutputLoop, OutputNullCheck, DequeueOutput, OutputCall, CallMayCrash, Decode
<1>4. ASSUME ReceiveFrame \/ \E f \in Configs : ScreenStreamConfiguration(f)
      PROVE  UNCHANGED <<startPc, stopPc>>
    BY <1>4 DEF ReceiveFrame, ScreenStreamConfiguration
<1>5. ASSUME NEW f \in Feeders, Feeder(f)
      PROVE  UNCHANGED <<startPc, stopPc>>
    BY <1>5 DEF Feeder, FeedNullCheck, FeedStatusCheck, DequeueInput, TakeFree, GetInputBuffer,
       CopyUnit, QueueInput, CallMayCrash, SetAvailable
<1>6. ASSUME NEW s \in Handlers, ScreenStreamStop(s) \/ StopHandler(s)
      PROVE  Started \subseteq Started' /\ Stopped \subseteq Stopped'
    BY <1>6 DEF ScreenStreamStop, StopHandler, StopNullCheck, StopCodec, DeleteCodec, CallInStop,
       CallMayCrash, ClearPointer
<1>7. CASE UNCHANGED vars
    BY <1>1, <1>7 DEF vars
<1> QED
    BY <1>1, <1>2, <1>3, <1>4, <1>5, <1>6, <1>7 DEF Next

(* Only a second start lets a codec take an index that another one had given: *)
(* without it there is no other one.                                          *)
LEMMA NextOnlyRestartMixes ==
    BufferInv /\ OnlyRestartMixes /\ [Next]_vars => OnlyRestartMixes'
<1> SUFFICES ASSUME BufferInv, OnlyRestartMixes, [Next]_vars, Started' \subseteq {1}
             PROVE  foreign' = {}
    BY DEF OnlyRestartMixes
<1>1. Started \subseteq {1} /\ foreign = {}
    BY RequestsOnlyGrow DEF BufferInv, OnlyRestartMixes
<1>2. \A c \in Codecs : state[c] # "none" => c = 1
    BY <1>1 DEF BufferInv, IdleIsFree, Started
<1>3. ASSUME NEW f \in Feeders, GetInputBuffer(f) \/ QueueInput(f)
      PROVE  foreign' = {}
    <2>1. source[f] = 1
        BY <1>2, <1>3, Names DEF GetInputBuffer, QueueInput, BufferInv, HoldDiscipline, HeldAreInUse, InUse
    <2>2. Running => codec = 1
        BY <1>2 DEF Running, Live
    <2> QED
        BY <1>1, <1>3, <2>1, <2>2 DEF GetInputBuffer, QueueInput, Enqueue, Takes, ForeignWith,
           CallMayCrash, bufferVars
<1>4. ASSUME NEW f \in Feeders, Feeder(f), ~(GetInputBuffer(f) \/ QueueInput(f))
      PROVE  foreign' = foreign
    BY <1>4 DEF Feeder, FeedNullCheck, FeedStatusCheck, DequeueInput, TakeFree, CallMayCrash,
       CopyUnit, SetAvailable, bufferVars
<1>5. ASSUME NEW c \in Codecs, ScreenStreamStart(c) \/ StartThread(c) \/ OutputLoop(c) \/ Decode(c)
      PROVE  foreign' = foreign
    BY <1>5 DEF ScreenStreamStart, StartThread, CreateCodec, ConfigureCodec, StartCodec,
       CallInStart, CallMayCrash, SpawnOutputLoop, OutputLoop, OutputNullCheck, DequeueOutput,
       OutputCall, Decode, bufferVars
<1>6. ASSUME ReceiveFrame \/ \E f \in Configs : ScreenStreamConfiguration(f)
      PROVE  foreign' = foreign
    BY <1>6 DEF ReceiveFrame, ScreenStreamConfiguration, bufferVars
<1>7. ASSUME NEW s \in Handlers, ScreenStreamStop(s) \/ StopHandler(s)
      PROVE  foreign' = foreign
    BY <1>7 DEF ScreenStreamStop, StopHandler, StopNullCheck, StopCodec, DeleteCodec, CallInStop,
       CallMayCrash, ClearPointer, bufferVars
<1>8. CASE UNCHANGED vars
    BY <1>1, <1>8 DEF vars, bufferVars
<1> QED
    BY <1>1, <1>3, <1>4, <1>5, <1>6, <1>7, <1>8 DEF Next

(* The invariant of a sole session holds initially. *)
LEMMA InitIInv == Init => IInv
<1> SUFFICES ASSUME Init PROVE IInv
    OBVIOUS
<1>1. TypeOK
    BY InitBufferInv DEF BufferInv
<1>2. SoleSessionInv
    BY Names DEF Init, SoleSessionInv
<1> QED
    BY <1>1, <1>2 DEF IInv

(* Every step of a sole session keeps its invariant. *)
LEMMA NextIInv == IInv /\ BufferInv' /\ [Next]_vars => IInv'
<1> SUFFICES ASSUME IInv, BufferInv', [Next]_vars, SoleSession' PROVE SoleSessionInv'
    BY DEF IInv, BufferInv
<1>1. TypeOK /\ SoleSession /\ SoleSessionInv
    BY RequestsOnlyGrow DEF IInv, SoleSession
<1>2. \A c \in Codecs : startPc'[c] # "none" => c = 1
    BY DEF SoleSession, Started
<1>3. \A s \in Handlers : stopPc'[s] = "none" /\ stopPc[s] = "none"
    BY <1>1 DEF SoleSession, Stopped
<1> USE <1>1, Names DEF SoleSessionInv, TypeOK, holdVars
<1>4. status # "IDLE" => ~CallMayCrash
    BY DEF CallMayCrash, Live
<1>5. CASE ScreenStreamStart(1)
    BY <1>5 DEF ScreenStreamStart, codecVars, feedVars
<1>6. CASE CreateCodec(1)
    BY <1>6 DEF CreateCodec, feedVars
<1>7. CASE ConfigureCodec(1)
    BY <1>7 DEF ConfigureCodec, CallInStart, CallMayCrash, Live, CallReturnsError, codecVars, feedVars
<1>8. CASE StartCodec(1)
    BY <1>8 DEF StartCodec, CallInStart, CallMayCrash, Live, CallReturnsError, codecVars, feedVars
<1>9. CASE SpawnOutputLoop(1)
    BY <1>9 DEF SpawnOutputLoop, feedVars
<1>10. CASE OutputNullCheck(1)
    BY <1>10 DEF OutputNullCheck, codecVars, feedVars
<1>11. CASE DequeueOutput(1)
    <2>1. PICK p \in {"output", "null"} : outPc' = [outPc EXCEPT ![1] = p]
        BY <1>4, <1>11 DEF DequeueOutput
    <2> QED
        BY <1>4, <1>11, <2>1 DEF DequeueOutput, codecVars, feedVars
<1>12. CASE OutputCall(1)
    BY <1>4, <1>12 DEF OutputCall, codecVars, feedVars
<1>13. ASSUME NEW c \in Codecs, Decode(c) PROVE SoleSessionInv'
    BY <1>13 DEF Decode, codecVars, feedVars
<1>14. CASE ReceiveFrame
    BY <1>14 DEF ReceiveFrame, codecVars
<1>15. ASSUME NEW f \in Configs, ScreenStreamConfiguration(f) PROVE SoleSessionInv'
    BY <1>15 DEF ScreenStreamConfiguration, codecVars
<1>16. ASSUME NEW f \in Feeders, FeedNullCheck(f) PROVE SoleSessionInv'
    BY <1>16 DEF FeedNullCheck, codecVars
<1>17. ASSUME NEW f \in Feeders, FeedStatusCheck(f) PROVE SoleSessionInv'
    BY <1>17 DEF FeedStatusCheck, codecVars
<1>18. ASSUME NEW f \in Feeders, DequeueInput(f) PROVE SoleSessionInv'
    <2>1. /\ status # "IDLE"
          /\ feedPc' \in {[feedPc EXCEPT ![f] = "null"], [feedPc EXCEPT ![f] = "get"]}
          /\ \A g \in Feeders : g # f => pointer'[g] = pointer[g]
          /\ UNCHANGED <<codecVars, startPc, outPc, stopPc, crashed>>
        BY <1>4, <1>18 DEF DequeueInput, TakeFree, Retry, Leave
    <2> QED
        BY <2>1 DEF codecVars
<1>19. ASSUME NEW f \in Feeders, GetInputBuffer(f) PROVE SoleSessionInv'
    <2>1. /\ status # "IDLE"
          /\ \/ feedPc' = [feedPc EXCEPT ![f] = "null"]
             \/ feedPc' = [feedPc EXCEPT ![f] = "copy"] /\ pointer'[f] = 1
          /\ \A g \in Feeders : g # f => pointer'[g] = pointer[g]
          /\ UNCHANGED <<codecVars, startPc, outPc, stopPc, crashed>>
        BY <1>4, <1>19 DEF GetInputBuffer, Retry, Leave
    <2> QED
        BY <2>1 DEF codecVars
<1>a. ASSUME NEW f \in Feeders, CopyUnit(f) PROVE SoleSessionInv'
    <2>1. status # "IDLE" /\ pointer[f] = 1 /\ state[1] = "started"
        BY <1>a DEF CopyUnit
    <2> QED
        BY <1>a, <2>1 DEF CopyUnit, codecVars, holdVars
<1>b. ASSUME NEW f \in Feeders, QueueInput(f) PROVE SoleSessionInv'
    <2>1. status # "IDLE" /\ codec = 1 /\ pointer[f] = 1
        BY <1>b DEF QueueInput
    <2>2. /\ UNCHANGED <<codec, status, state, startPc, outPc, stopPc, crashed>>
          /\ configured \subseteq configured'
          /\ \/ /\ feedPc' = [feedPc EXCEPT ![f] = Accepted(f)]
                /\ f # Pull => 1 \in configured'
             \/ feedPc' = [feedPc EXCEPT ![f] = "null"]
          /\ \A g \in Feeders : g # f => pointer'[g] = pointer[g]
        BY <1>4, <1>b, <2>1 DEF QueueInput, Enqueue, Retry, Leave, codecVars
    <2>3. /\ \A g \in Feeders : feedPc'[g] = "available" => 1 \in configured'
          /\ \A g \in Feeders : feedPc'[g] \in {"copy", "queue"} => pointer'[g] = 1
        BY <2>2 DEF Accepted
    <2> QED
        BY <2>1, <2>2, <2>3
<1>20. ASSUME NEW f \in Feeders, SetAvailable(f) PROVE SoleSessionInv'
    BY <1>20 DEF SetAvailable
<1>21. CASE UNCHANGED vars
    BY <1>21 DEF vars, codecVars, feedVars
<1>22. ASSUME NEW c \in Codecs, ScreenStreamStart(c) \/ StartThread(c) \/ OutputLoop(c)
       PROVE  c = 1
    <2>1. ScreenStreamStart(c) => startPc'[c] # "none"
        BY DEF ScreenStreamStart
    <2> QED
        BY <1>2, <1>22, <2>1 DEF StartThread, CreateCodec, ConfigureCodec, StartCodec, CallInStart,
           SpawnOutputLoop, OutputLoop, OutputNullCheck, DequeueOutput, OutputCall
<1>23. ASSUME NEW s \in Handlers PROVE ~(ScreenStreamStop(s) \/ StopHandler(s))
    <2>1. ScreenStreamStop(s) => stopPc'[s] # "none"
        BY DEF ScreenStreamStop
    <2> QED
        BY <1>3, <2>1 DEF StopHandler, StopNullCheck, StopCodec, DeleteCodec, CallInStop, ClearPointer
<1> QED
    BY <1>5, <1>6, <1>7, <1>8, <1>9, <1>10, <1>11, <1>12, <1>13, <1>14, <1>15, <1>16, <1>17,
       <1>18, <1>19, <1>20, <1>21, <1>22, <1>23,
       <1>a, <1>b DEF Next, StartThread, OutputLoop, Feeder

-----------------------------------------------------------------------------
(* Type correctness of the decoder's life, the bounds on the buffer counters included. *)
THEOREM TypeCorrect == Spec => []TypeOK
<1>1. BufferInv => TypeOK
    BY DEF BufferInv
<1> QED
    BY InitBufferInv, NextBufferInv, <1>1, PTL DEF Spec

(* Any number of threads may run queueInputBuffer, and the stream may be stopped  *)
(* and started again in the middle of it: only a codec that then took an index    *)
(* of another one can have a buffer that two of them, or one of them and the      *)
(* decoder, use at once.                                                          *)
THEOREM OnlyForeignIndicesShare == Spec => []BuffersAccountedFor
<1>1. Init => OnlyRestartMixes
    BY DEF Init, OnlyRestartMixes
<1>2. BufferInv /\ OnlyRestartMixes => BuffersAccountedFor
    BY DEF BufferInv, BuffersKept, BuffersAccountedFor
<1>3. Spec => []BufferInv
    BY InitBufferInv, NextBufferInv, PTL DEF Spec
<1> QED
    BY <1>1, <1>2, <1>3, NextOnlyRestartMixes, PTL DEF Spec

LEMMA SpecImpliesIInv == Spec => []IInv
<1>1. Spec => []BufferInv
    BY InitBufferInv, NextBufferInv, PTL DEF Spec
<1> QED
    BY InitIInv, NextIInv, <1>1, PTL DEF Spec

(* A stream started once and not stopped cannot crash on its codec pointer: the *)
(* status check shields every read of the pointer from the start thread.         *)
THEOREM SoleSessionIsSafe == Spec => []SoleSessionSafe
<1>1. IInv => SoleSessionSafe
    BY DEF IInv, SoleSessionInv, SoleSessionSafe
<1> QED
    BY SpecImpliesIInv, <1>1, PTL

(* handleScreenStreamConfiguration reports AVAILABLE, in such a stream, only for *)
(* a running codec that has taken its configuration.                             *)
THEOREM AvailableIsConfigured == Spec => []AvailableMeansConfigured
<1>1. IInv => AvailableMeansConfigured
    BY DEF IInv, SoleSessionInv, AvailableMeansConfigured
<1> QED
    BY SpecImpliesIInv, <1>1, PTL
=============================================================================
