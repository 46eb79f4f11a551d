------------------------------ MODULE CodecSession ------------------------------
(***************************************************************************)
(* The life of the H.264 decoder behind kScreenStreamMediaCodec            *)
(* (rpc/source/CarplayRpcRuntime.cpp): created by the thread of a          *)
(* screenStreamStart request, fed by the pull listener's thread and by the *)
(* RPC workers that handle screenStreamConfiguration, drained by one       *)
(* outputLoop thread per successful start, and torn down by the worker     *)
(* that handles screenStreamStop.                                          *)
(*                                                                         *)
(* The pointer is a plain member without a lock: every thread reads it     *)
(* again at each call.  A call on a pointer that is null or wild kills the *)
(* process; a call on a deleted codec is undefined, and either kills it or *)
(* returns an error.                                                       *)
(*                                                                         *)
(* An input buffer is known by its index, a small integer which nothing in *)
(* the code ties to the codec that gave it: the calls of queueInputBuffer  *)
(* pass it to whatever codec the member points to by then, and that codec  *)
(* takes it if its own buffer of that index is with the client.            *)
(***************************************************************************)
EXTENDS Integers, FiniteSets

CONSTANTS Starts,      \* bound on screenStreamStart requests: one codec each
          Stops,       \* bound on screenStreamStop requests
          Configs,     \* screenStreamConfiguration requests (one worker each)
          Frames,      \* bound on access units pulled from the video socket
          InputSlots,  \* input buffers of a codec
          Pull,        \* the pull listener's thread
          Null, Wild   \* the null and the uninitialised codec pointer

Codecs == 1..Starts
Handlers == 1..Stops
Feeders == Configs \cup {Pull}
Slots == 1..InputSlots

ASSUME BoundsAssumption ==
    /\ Starts \in Nat \ {0}
    /\ Stops \in Nat
    /\ Frames \in Nat
    /\ InputSlots \in Nat \ {0}
    /\ IsFiniteSet(Configs)

ASSUME NamesAssumption ==
    /\ Pull \notin Configs
    /\ Null \notin Codecs /\ Wild \notin Codecs /\ Null # Wild

VARIABLES
    codec,     \* member kScreenStreamMediaCodec
    status,    \* member kScreenStreamMediaCodecStatus
    state,     \* what became of each AMediaCodec
    buffer,    \* where each input buffer of each codec is
    startPc,   \* initMediaCodec in the thread of the c-th start request
    outPc,     \* the outputLoop thread that start spawned
    feedPc,    \* queueInputBuffer in each feeder
    index,     \* inputIndex in each feeder, 0 when it has none
    pointer,   \* the codec whose buffer the local variable buffer points into
    source,    \* history: the codec that gave the index
    foreign,   \* history: codecs that took an index another codec had given
    pulled,    \* access units received so far
    large,     \* feeders whose unit is larger than an input buffer
    stopPc,    \* stopMediaCodec in the worker of each stop request
    configured,\* codecs that accepted a configuration
    crashed    \* the process was killed by a codec call

codecVars == <<codec, status, state, configured>>
bufferVars == <<buffer, foreign>>
holdVars == <<index, pointer, source>>
unitVars == <<pulled, large>>
feedVars == <<feedPc, holdVars, unitVars>>
vars == <<codecVars, bufferVars, feedVars, startPc, outPc, stopPc, crashed>>

TypeOK ==
    /\ codec \in Codecs \cup {Null, Wild}
    /\ status \in {"IDLE", "STARTED", "AVAILABLE", "STOPPED"}
    /\ state \in [Codecs -> {"none", "created", "configured", "started", "stopped", "deleted"}]
    /\ buffer \in [Codecs -> [Slots -> {"free", "client", "queued"}]]
    /\ startPc \in [Codecs -> {"none", "create", "configure", "start", "spawn", "done"}]
    /\ outPc \in [Codecs -> {"none", "null", "dequeue", "output", "done"}]
    /\ feedPc \in [Feeders -> {"idle", "null", "status", "dequeue", "get", "copy", "queue",
                              "available", "done"}]
    /\ index \in [Feeders -> Slots \cup {0}]
    /\ pointer \in [Feeders -> Codecs \cup {Null}]
    /\ source \in [Feeders -> Codecs \cup {Null}]
    /\ foreign \in SUBSET Codecs
    /\ pulled \in 0..Frames
    /\ large \in SUBSET Feeders
    /\ stopPc \in [Handlers -> {"none", "check", "stop", "delete", "clear", "done"}]
    /\ configured \in SUBSET Codecs
    /\ crashed \in BOOLEAN

AllFree == [i \in Slots |-> "free"]

Init ==
    /\ codec \in {Null, Wild}
    /\ status = "IDLE"
    /\ state = [c \in Codecs |-> "none"]
    /\ buffer = [c \in Codecs |-> AllFree]
    /\ startPc = [c \in Codecs |-> "none"]
    /\ outPc = [c \in Codecs |-> "none"]
    /\ feedPc = [f \in Feeders |-> "idle"]
    /\ index = [f \in Feeders |-> 0]
    /\ pointer = [f \in Feeders |-> Null]
    /\ source = [f \in Feeders |-> Null]
    /\ foreign = {}
    /\ pulled = 0
    /\ large = {}
    /\ stopPc = [s \in Handlers |-> "none"]
    /\ configured = {}
    /\ crashed = FALSE

\* The codec the member points to, as a call through it finds it.
Live == codec \in Codecs /\ state[codec] # "deleted"

\* A call that may be the last one: certainly through a null or wild pointer,
\* possibly through a deleted codec.
CallMayCrash ==
    /\ ~Live
    /\ crashed' = TRUE
    /\ UNCHANGED <<codecVars, bufferVars, feedVars, startPc, outPc, stopPc>>

CallReturnsError == codec \in Codecs /\ state[codec] = "deleted"

-----------------------------------------------------------------------------
(* handleScreenStreamStart: screenLooper's call of initMediaCodec. *)

ScreenStreamStart(c) ==
    /\ startPc[c] = "none"
    /\ \A k \in Codecs : k < c => startPc[k] # "none"
    /\ startPc' = [startPc EXCEPT ![c] = "create"]
    /\ UNCHANGED <<codecVars, bufferVars, feedVars, outPc, stopPc, crashed>>

\* The surface steps before may return early; AMediaCodec_createDecoderByType
\* stores its result in the member, null when it fails.
CreateCodec(c) ==
    /\ startPc[c] = "create"
    /\ \/ /\ codec' = c
          /\ state' = [state EXCEPT ![c] = "created"]
          /\ startPc' = [startPc EXCEPT ![c] = "configure"]
       \/ /\ codec' \in {codec, Null}
          /\ startPc' = [startPc EXCEPT ![c] = "done"]
          /\ UNCHANGED state
    /\ UNCHANGED <<status, configured, bufferVars, feedVars, outPc, stopPc, crashed>>

\* AMediaCodec_configure and AMediaCodec_start: a failure leaves the codec in
\* the member and the status as it was.
CallInStart(c, from, to, before, after) ==
    /\ startPc[c] = from
    /\ \/ CallMayCrash
       \/ /\ Live /\ state[codec] = before
          /\ state' = [state EXCEPT ![codec] = after]
          /\ startPc' = [startPc EXCEPT ![c] = to]
          /\ UNCHANGED <<codec, status, configured, bufferVars, feedVars, outPc, stopPc, crashed>>
       \/ /\ Live \/ CallReturnsError
          /\ startPc' = [startPc EXCEPT ![c] = "done"]
          /\ UNCHANGED <<codecVars, bufferVars, feedVars, outPc, stopPc, crashed>>

ConfigureCodec(c) == CallInStart(c, "configure", "start", "created", "configured")
StartCodec(c) == CallInStart(c, "start", "spawn", "configured", "started")

SpawnOutputLoop(c) ==
    /\ startPc[c] = "spawn"
    /\ status' = "STARTED"
    /\ outPc' = [outPc EXCEPT ![c] = "null"]
    /\ startPc' = [startPc EXCEPT ![c] = "done"]
    /\ UNCHANGED <<codec, state, configured, bufferVars, feedVars, stopPc, crashed>>

-----------------------------------------------------------------------------
(* outputLoop.  Its condition, status >= STARTED, never turns false again    *)
(* once it held: STOPPED is the largest status.  Only a null pointer ends it. *)

\* Mutant: continue in the place of break.
OutputNullCheckContinues(c) ==
    /\ outPc[c] = "null"
    /\ outPc' = [outPc EXCEPT ![c] = IF codec = Null THEN "null" ELSE "dequeue"]
    /\ UNCHANGED <<codecVars, bufferVars, feedVars, startPc, stopPc, crashed>>

OutputNullCheck(c) ==
    /\ outPc[c] = "null"
    /\ outPc' = [outPc EXCEPT ![c] = IF codec = Null THEN "done" ELSE "dequeue"]
    /\ UNCHANGED <<codecVars, bufferVars, feedVars, startPc, stopPc, crashed>>

\* A decoded buffer, a format change, or nothing yet (or an error).
DequeueOutput(c) ==
    /\ outPc[c] = "dequeue"
    /\ \/ CallMayCrash
       \/ /\ \/ Live /\ state[codec] = "started" /\ outPc' \in
                    {[outPc EXCEPT ![c] = p] : p \in {"output", "null"}}
             \/ /\ CallReturnsError \/ (Live /\ state[codec] # "started")
                /\ outPc' = [outPc EXCEPT ![c] = "null"]
          /\ UNCHANGED <<codecVars, bufferVars, feedVars, startPc, stopPc, crashed>>

\* AMediaCodec_releaseOutputBuffer or AMediaCodec_getOutputFormat.
OutputCall(c) ==
    /\ outPc[c] = "output"
    /\ \/ CallMayCrash
       \/ /\ Live \/ CallReturnsError
          /\ outPc' = [outPc EXCEPT ![c] = "null"]
          /\ UNCHANGED <<codecVars, bufferVars, feedVars, startPc, stopPc, crashed>>

-----------------------------------------------------------------------------
(* queueInputBuffer, retried for ever by its two callers. *)

\* A unit that does not fit into an input buffer is refused each time it is
\* tried, so its feeder never gets to another one.
MayBeLarge(f) == large' \in {large, large \cup {f}}

ReceiveFrame ==
    /\ feedPc[Pull] = "idle"
    /\ pulled < Frames
    /\ pulled' = pulled + 1
    /\ MayBeLarge(Pull)
    /\ feedPc' = [feedPc EXCEPT ![Pull] = "null"]
    /\ UNCHANGED <<codecVars, bufferVars, holdVars, startPc, outPc, stopPc, crashed>>

\* Mutant: AVAILABLE is stored without the configuration having been queued.
ScreenStreamConfigurationUnfed(f) ==
    /\ feedPc[f] = "idle"
    /\ feedPc' = [feedPc EXCEPT ![f] = "available"]
    /\ UNCHANGED <<codecVars, bufferVars, holdVars, unitVars, startPc, outPc, stopPc, crashed>>

ScreenStreamConfiguration(f) ==
    /\ feedPc[f] = "idle"
    /\ MayBeLarge(f)
    /\ feedPc' = [feedPc EXCEPT ![f] = "null"]
    /\ UNCHANGED <<codecVars, bufferVars, holdVars, pulled, startPc, outPc, stopPc, crashed>>

FeedNullCheck(f) ==
    /\ feedPc[f] = "null"
    /\ codec # Null
    /\ feedPc' = [feedPc EXCEPT ![f] = "status"]
    /\ UNCHANGED <<codecVars, bufferVars, holdVars, unitVars, startPc, outPc, stopPc, crashed>>

\* Mutant: no test of the status.
FeedStatusUnchecked(f) ==
    /\ feedPc[f] = "status"
    /\ feedPc' = [feedPc EXCEPT ![f] = "dequeue"]
    /\ UNCHANGED <<codecVars, bufferVars, holdVars, unitVars, startPc, outPc, stopPc, crashed>>

\* Mutant: <= STARTED in the place of < STARTED.
FeedStatusTooStrict(f) ==
    /\ feedPc[f] = "status"
    /\ feedPc' = [feedPc EXCEPT ![f] =
                     IF status \in {"IDLE", "STARTED"} THEN "null" ELSE "dequeue"]
    /\ UNCHANGED <<codecVars, bufferVars, holdVars, unitVars, startPc, outPc, stopPc, crashed>>

\* status < STARTED sends the caller back; STOPPED passes.
FeedStatusCheck(f) ==
    /\ feedPc[f] = "status"
    /\ feedPc' = [feedPc EXCEPT ![f] = IF status = "IDLE" THEN "null" ELSE "dequeue"]
    /\ UNCHANGED <<codecVars, bufferVars, holdVars, unitVars, startPc, outPc, stopPc, crashed>>

\* queueInputBuffer returns: its locals are gone.
Leave(f) ==
    /\ index' = [index EXCEPT ![f] = 0]
    /\ pointer' = [pointer EXCEPT ![f] = Null]
    /\ source' = [source EXCEPT ![f] = Null]

\* It returns false, and the caller calls it again.  A buffer that was dequeued
\* is not given back.
Retry(f) == feedPc' = [feedPc EXCEPT ![f] = "null"] /\ Leave(f)

Running == Live /\ state[codec] = "started"
FreeSlots == {i \in Slots : buffer[codec][i] = "free"}

\* AMediaCodec_dequeueInputBuffer gives out some free buffer of the codec.
TakeFree(f) ==
    /\ Running
    /\ \E i \in FreeSlots : /\ buffer' = [buffer EXCEPT ![codec][i] = "client"]
                           /\ index' = [index EXCEPT ![f] = i]
    /\ source' = [source EXCEPT ![f] = codec]
    /\ feedPc' = [feedPc EXCEPT ![f] = "get"]
    /\ UNCHANGED <<codecVars, foreign, pointer, unitVars, startPc, outPc, stopPc, crashed>>

NoneFree == CallReturnsError \/ (Live /\ (state[codec] # "started" \/ FreeSlots = {}))

\* Mutant: a negative index is used like any other.
DequeueInputUnchecked(f) ==
    /\ feedPc[f] = "dequeue"
    /\ \/ CallMayCrash
       \/ TakeFree(f)
       \/ /\ NoneFree
          /\ index' = [index EXCEPT ![f] = -1]
          /\ feedPc' = [feedPc EXCEPT ![f] = "get"]
          /\ UNCHANGED <<codecVars, bufferVars, pointer, source, unitVars, startPc, outPc, stopPc, crashed>>

DequeueInput(f) ==
    /\ feedPc[f] = "dequeue"
    /\ \/ CallMayCrash
       \/ TakeFree(f)
       \/ /\ NoneFree
          /\ Retry(f)
          /\ UNCHANGED <<codecVars, bufferVars, unitVars, startPc, outPc, stopPc, crashed>>

\* The codec the member points to by now has a buffer of that index, and it is
\* with the client: all that AMediaCodec_getInputBuffer and
\* AMediaCodec_queueInputBuffer ask for.
Takes(i) == Running /\ buffer[codec][i] = "client"
Refused(f) == CallReturnsError \/ (Live /\ ~Takes(index[f]))

\* The codecs handed a foreign index, once the current one has taken the
\* index of f.
ForeignWith(f) == foreign \cup ({codec} \ {source[f]})

\* AMediaCodec_getInputBuffer and the test of its result.  A unit larger than
\* the buffer is refused.
GetInputBuffer(f) ==
    /\ feedPc[f] = "get"
    /\ \/ CallMayCrash
       \/ /\ Takes(index[f]) /\ f \notin large
          /\ pointer' = [pointer EXCEPT ![f] = codec]
          /\ foreign' = ForeignWith(f)
          /\ feedPc' = [feedPc EXCEPT ![f] = "copy"]
          /\ UNCHANGED <<codecVars, buffer, index, source, unitVars, startPc, outPc, stopPc, crashed>>
       \/ /\ Refused(f) \/ (Takes(index[f]) /\ f \in large)
          /\ Retry(f)
          /\ UNCHANGED <<codecVars, bufferVars, unitVars, startPc, outPc, stopPc, crashed>>

\* memcpy.  The memory of a codec that was stopped or deleted since is no
\* longer the feeder's to write to.
CopyUnit(f) ==
    /\ feedPc[f] = "copy"
    /\ \/ /\ state[pointer[f]] # "started"
          /\ crashed' = TRUE
          /\ UNCHANGED feedPc
       \/ /\ feedPc' = [feedPc EXCEPT ![f] = "queue"]
          /\ UNCHANGED crashed
    /\ UNCHANGED <<codecVars, bufferVars, holdVars, unitVars, startPc, outPc, stopPc>>

Accepted(f) == IF f = Pull THEN "idle" ELSE "available"

\* What AMediaCodec_queueInputBuffer does when it accepts the index of f.  The
\* bytes are those of f only if it copied them into this codec's buffer.
Enqueue(f) ==
    /\ Takes(index[f])
    /\ buffer' = [buffer EXCEPT ![codec][index[f]] = "queued"]
    /\ foreign' = ForeignWith(f)
    /\ configured' = IF f # Pull /\ pointer[f] = codec THEN configured \cup {codec} ELSE configured

\* Mutant: the test of the result is inverted, and the retry copies into the
\* buffer that was queued.
QueueInputInverted(f) ==
    /\ feedPc[f] = "queue"
    /\ \/ CallMayCrash
       \/ /\ Enqueue(f)
          /\ feedPc' = [feedPc EXCEPT ![f] = "copy"]
          /\ UNCHANGED <<codec, status, state, holdVars, unitVars, startPc, outPc, stopPc, crashed>>
       \/ /\ Refused(f)
          /\ feedPc' = [feedPc EXCEPT ![f] = Accepted(f)] /\ Leave(f)
          /\ UNCHANGED <<codecVars, bufferVars, unitVars, startPc, outPc, stopPc, crashed>>

QueueInput(f) ==
    /\ feedPc[f] = "queue"
    /\ \/ CallMayCrash
       \/ /\ Enqueue(f)
          /\ feedPc' = [feedPc EXCEPT ![f] = Accepted(f)] /\ Leave(f)
          /\ UNCHANGED <<codec, status, state, unitVars, startPc, outPc, stopPc, crashed>>
       \/ /\ Refused(f)
          /\ Retry(f)
          /\ UNCHANGED <<codecVars, bufferVars, unitVars, startPc, outPc, stopPc, crashed>>

\* handleScreenStreamConfiguration after its loop: whatever the status is by
\* now, STOPPED included, it becomes AVAILABLE.
SetAvailable(f) ==
    /\ feedPc[f] = "available"
    /\ status' = "AVAILABLE"
    /\ feedPc' = [feedPc EXCEPT ![f] = "done"]
    /\ UNCHANGED <<codec, state, configured, bufferVars, holdVars, unitVars, startPc, outPc, stopPc, crashed>>

\* The codec (external) decodes a queued buffer and offers it again.
Decode(c) ==
    /\ state[c] = "started"
    /\ \E i \in Slots : /\ buffer[c][i] = "queued"
                        /\ buffer' = [buffer EXCEPT ![c][i] = "free"]
    /\ UNCHANGED <<codecVars, foreign, feedVars, startPc, outPc, stopPc, crashed>>

-----------------------------------------------------------------------------
(* handleScreenStreamStop: stopMediaCodec. *)

ScreenStreamStop(s) ==
    /\ stopPc[s] = "none"
    /\ \A k \in Handlers : k < s => stopPc[k] # "none"
    /\ status' = "STOPPED"
    /\ stopPc' = [stopPc EXCEPT ![s] = "check"]
    /\ UNCHANGED <<codec, state, configured, bufferVars, feedVars, startPc, outPc, crashed>>

StopNullCheck(s) ==
    /\ stopPc[s] = "check"
    /\ stopPc' = [stopPc EXCEPT ![s] = IF codec = Null THEN "done" ELSE "stop"]
    /\ UNCHANGED <<codecVars, bufferVars, feedVars, startPc, outPc, crashed>>

\* AMediaCodec_stop and AMediaCodec_delete: the codec takes its buffers back,
\* those with the client included.
CallInStop(s, from, to, after) ==
    /\ stopPc[s] = from
    /\ \/ CallMayCrash
       \/ /\ \/ /\ Live
                /\ state' = [state EXCEPT ![codec] = after]
                /\ buffer' = [buffer EXCEPT ![codec] = AllFree]
             \/ CallReturnsError /\ UNCHANGED <<state, buffer>>
          /\ stopPc' = [stopPc EXCEPT ![s] = to]
          /\ UNCHANGED <<codec, status, configured, foreign, feedVars, startPc, outPc, crashed>>

StopCodec(s) == CallInStop(s, "stop", "delete", "stopped")
DeleteCodec(s) == CallInStop(s, "delete", "clear", "deleted")

ClearPointer(s) ==
    /\ stopPc[s] = "clear"
    /\ codec' = Null
    /\ stopPc' = [stopPc EXCEPT ![s] = "done"]
    /\ UNCHANGED <<status, state, configured, bufferVars, feedVars, startPc, outPc, crashed>>

-----------------------------------------------------------------------------
StartThread(c) == CreateCodec(c) \/ ConfigureCodec(c) \/ StartCodec(c) \/ SpawnOutputLoop(c)
OutputLoop(c) == OutputNullCheck(c) \/ DequeueOutput(c) \/ OutputCall(c)
Feeder(f) == \/ FeedNullCheck(f) \/ FeedStatusCheck(f) \/ DequeueInput(f) \/ GetInputBuffer(f)
             \/ CopyUnit(f) \/ QueueInput(f) \/ SetAvailable(f)
StopHandler(s) == StopNullCheck(s) \/ StopCodec(s) \/ DeleteCodec(s) \/ ClearPointer(s)

\* A crash ends the process and with it every thread.
Next ==
    /\ ~crashed
    /\ \/ \E c \in Codecs : ScreenStreamStart(c) \/ StartThread(c) \/ OutputLoop(c) \/ Decode(c)
       \/ ReceiveFrame
       \/ \E f \in Configs : ScreenStreamConfiguration(f)
       \/ \E f \in Feeders : Feeder(f)
       \/ \E s \in Handlers : ScreenStreamStop(s) \/ StopHandler(s)

\* Starts, stops and decoding are finitely many steps, each of which stays
\* enabled until it is taken or loses its purpose: one fairness condition for
\* all of them says as much as one for each.
Finite ==
    \/ \E c \in Codecs : StartThread(c) \/ Decode(c)
    \/ \E s \in Handlers : StopHandler(s)

\* Threads that can run do run, and the codec decodes; nothing forces requests
\* or access units to arrive.
Fairness ==
    /\ WF_vars(~crashed /\ Finite)
    /\ \A c \in Codecs : WF_vars(~crashed /\ OutputLoop(c))
    /\ \A f \in Feeders : WF_vars(~crashed /\ Feeder(f))

Spec == Init /\ [][Next]_vars /\ Fairness

-----------------------------------------------------------------------------
(* Properties. *)

Started == {c \in Codecs : startPc[c] # "none"}
Stopped == {s \in Handlers : stopPc[s] # "none"}
SoleSession == Started \subseteq {1} /\ Stopped = {}

\* The uninitialised pointer, the failures of create, configure and start, and
\* feeders that run before, during and after the start are all harmless as long
\* as the stream is started once and not stopped: no codec call can kill the
\* process.  (A stop or a restart does expose one.)
SoleSessionSafe == SoleSession => ~crashed

\* In such a session AVAILABLE is only reported for a codec that is running and
\* has accepted its configuration.
AvailableMeansConfigured ==
    SoleSession /\ status = "AVAILABLE" =>
        codec \in configured /\ state[codec] = "started"

\* The input buffers of a running codec are accounted for, across starts and
\* stops.  As long as it has taken no index that another codec had given, the
\* buffer behind an index a feeder has from it is with the client, not with the
\* decoder, no other feeder has that index, and who writes into one of its buffers
\* has the index from it: nobody else reads or writes where a feeder copies to.  A
\* restart in the middle of queueInputBuffer does make it take such an index, and
\* then two feeders can write into one buffer; nothing else does.  In any case, the
\* codec in the member misses a buffer only if some unit was refused for its size.
Holders(c) == {f \in Feeders : source[f] = c}
Lost(c) == {i \in Slots : buffer[c][i] = "client" /\ \A f \in Holders(c) : index[f] # i}

SoleHolder(c) ==
    \A f \in Holders(c) :
        /\ buffer[c][index[f]] = "client"
        /\ \A g \in Holders(c) \ {f} : index[g] # index[f]
WritersHold(c) == \A f \in Feeders : pointer[f] = c => f \in Holders(c)
SoleUse == \A c \in Codecs \ foreign : state[c] = "started" => SoleHolder(c) /\ WritersHold(c)
LostToRefusals == Running /\ large = {} => Lost(codec) = {}

OnlyRestartMixes == Started \subseteq {1} => foreign = {}

BuffersAccountedFor == SoleUse /\ LostToRefusals /\ OnlyRestartMixes

\* Once the pointer stays null, every output loop ends, those of earlier
\* sessions included.
OutputLoopsEnd ==
    <>[](codec = Null /\ ~crashed) => <>[](\A c \in Codecs : outPc[c] \in {"none", "done"})

\* A configuration request, which holds an RPC worker until it succeeds, gets
\* through once a started codec stays in place, unless the units refused for their
\* size cost it its last input buffer.
ConfigurationCompletes ==
    \A f \in Configs :
        <>[](Running /\ Lost(codec) # Slots /\ status # "IDLE" /\ ~crashed) =>
            []<>(feedPc[f] \in {"idle", "done"})
=============================================================================
