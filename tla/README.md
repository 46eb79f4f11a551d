# GrpcJniClient: a TLA+ model and its proofs

GrpcJniClient is the Android side of a wireless CarPlay receiver. A peer process
on the same machine speaks iAP2 and CarPlay; this program gives it what only
Android can give: Bluetooth (RFCOMM and the profiles), the WiFi access point, the
decoder and the screen, and touch input. Both talk flatbuffers over nng sockets in
the abstract UNIX name space.

This directory holds a verification development of the program: modules translated
from the Kotlin and C++ sources, TLC configurations that check them on small
instances, and TLAPS proofs about them for every value of their constants.
`PROJECT.json` maps every definition to the source lines it stands for, lists the
runs, the mutants that show a property can fail, the hazards and the theorems.

Paths below are relative to `src/app/src/main/`; `kt/` stands for
`java/com/kotlinx/grpcjniclient/`.

## 1. Inventory

### The parts and what they keep

| Part | Source | State | Operations |
|---|---|---|---|
| Composition | `kt/core/CarplayRuntime.kt`, `ServiceBinderManager.kt` | four binders, the RFCOMM device, four collectors | bind the services, then one coroutine per event flow |
| RPC service | `kt/rpc/CarplayRpcManager.kt` | a flow of 10 events, drop oldest | calls into native code, callbacks from it |
| RPC handlers and calls | `cpp/rpc/source/CarplayRpcRuntime.cpp` | `gRuntime`, `dialStarted`, the method map | register, dispatch on 16 workers, call the peer |
| RPC peer dial | `cpp/rpc/include/NngUdsRpcPeerDial.hpp` (body prebuilt) | pending promises by request identifier | start, dispatch, `call_remote`; the wrapper of a method |
| RPC messages | `cpp/rpc/include/flatbuffers/*.h`, `request_param_generated.h`, `response_param_generated.h`, `cpp/rpc/source/include/{bluetooth,carplay,wifi}_generated.h` | a builder per message: one growing block | build, finish, verify, read |
| Codec session | `CarplayRpcRuntime.cpp` 98-335, 590-631 | codec pointer, status | stream start, configuration, stop; feed, drain |
| Screen renderer | `CarplayRpcRuntime.cpp` 137-215, 270-535; `kt/screen/CarplayScreenStub.kt` | EGL context, surface, window, `updated` flag, frame flag, `SurfaceTexture` | looper threads, `surfaceAvailable`, frame signal |
| Netlink monitor | `cpp/rpc/source/net/NetLinkMonitor.{h,cpp}`, `kt/net/NetService.kt` | `running_`, socket, thread | start, stop, receive loop |
| Access point service | `kt/net/HostapdService.kt` | AP information, the IPv6 job | broadcast receiver, address job, reconfiguration requests |
| RFCOMM transport | `kt/bt/transport/*.kt`, `CarplayBluetoothService.kt` | list of channels, a mutex, one read loop per channel | start, stop, look up, send |
| Bluetooth broadcasts, profiles | `kt/bt/BluetoothService.kt`, `CarplayBluetoothService.kt`, `BluetoothProfileManager.kt` | observers, four profile proxies, a flow of 10 events | translate a broadcast, disconnect a profile |
| Touch input | `kt/ui/CarplayMainActivity.kt`, `UiService.kt` | a flow of 60 events | pack two pointers in 50 bits, emit |

`HostapdManager.kt` (all of it commented out), `CarplayService.kt` (started by
nobody), `native-lib.cpp` (not in the build), `MainActivity.kt` (a test screen), the
vendored libraries are left out, except for the part of flatbuffers that the
messages are built and read with.

### How they interact

1. A bonded phone is broadcast by Android; `CarplayBluetoothService` emits an event;
   the Bluetooth collector of `CarplayRuntime` calls `startBtIap2Link` at the peer
   (blocking), then launches the start of an RFCOMM channel.
2. iAP2 bytes go both ways: read loop, flow, collector, remote call; and RPC
   worker, flow, collector, `sendDataByRfcomm`.
3. The peer reports that wireless CarPlay is available; the RPC collector launches
   `getCarplayCompatSoftApConfigure`. When the AP is up and the kernel has told of
   its IPv6 address (netlink thread, flow, address job), the AP is announced and the
   hostapd collector calls `startCarplaySession`, which opens the video socket and
   registers the three screen methods.
4. The peer's `screenStreamStart` detaches a thread that becomes a screen looper and
   creates the codec; `screenStreamConfiguration` and the video socket feed it;
   `screenStreamStop` deletes it. A format change starts the activity, whose surface
   is handed to the loopers.
5. Touch events go activity, flow, collector, remote call.

Every call and every answer is a flatbuffer, which the receiving side verifies
before its handler reads it.

Threads: Android's main thread, coroutines on `Dispatchers.IO`, 16 RPC workers, the
video socket's thread, one looper and one output thread per stream start, the
netlink thread. Most state that two of them share has no lock.

### What is hard, and what makes each part correct

* Codec session: the pointer is read anew at each call while another thread creates,
  starts or deletes the codec. Correct: no call on a null, wild or deleted codec; an
  input buffer has one user; what waits for a codec gets it; output threads end.
* Screen renderer: window hand-over with a flag read outside the mutex; loopers that
  never end share context, texture and frame signal. Correct: no hand-over is lost,
  frames go on being latched, the newest window shows the stream.
* Netlink monitor: stop against a blocked `recv`, deletion against a running thread,
  overruns of the socket buffer. Correct: the thread never outlives its monitor, an
  address that was queued is reported, stop returns.
* RFCOMM transport: blocking connect, read and join under a coroutine mutex,
  cancellation that a blocked read ignores, destruction in the middle. Correct: no
  read loop that the list does not know, a stopped channel stays stopped, close only
  after the loop, look-ups find live channels, requests return.
* Access point service: broadcasts lag behind the AP, jobs replace each other,
  several requests stop and start the AP, callbacks race the calls they belong to.
  Correct: the waiting job is the AP's, restarts end with the AP up, no wait for a
  callback that has already come, no unsupported type is announced.
* RPC messages: offsets into a block that moves, a scratch pad at the other end of
  it, alignment decided before the bytes are written, and handlers that read what
  another program sent. Correct: what is accepted is what was sent, offsets remain
  valid, no accessor leaves the bytes.
* Touch input: pointer indices that shift, an event with more fingers than slots,
  coordinates cut to twelve bits, a flow that forgets. Correct: what is reported are
  fingers that are there; the peer learns that the last one left.
* Composition and flows: bounded flows that replay nothing and drop the oldest,
  behind collectors that block in remote calls and share the device. Correct: events
  are lost whole and nothing worse, no traffic before its link, no session before
  its handlers, an event that reaches its collector is carried through.

The hazards, at their lines, are `hazards` in `PROJECT.json`. Small things noted in
passing that are visible at one line and that no model adds anything to: windows and
codecs that a second hand-over or start leaks (`CarplayRpcRuntime.cpp:484`, `:320`), a
socket whose connect fails is not closed (`BluetoothRfcommChannel.kt:34`),
`destroyCarplayRpc` returns no value (`CarplayRpcRuntime.cpp:807`), the scope of
`NetService.kt:17` has no supervisor, addresses are compared in lower case
(`BluetoothProfileManager.kt:175`), a service that reconnects resumes a continuation
twice (`ServiceBinderManager.kt:24`). When the first of two fingers is lifted, the
other one is reported pressed in the second slot, and in the first by the next
event, as slots are pointer indices (`CarplayMainActivity.kt:77`): a finger does not
keep its slot.

## 2. Plan

| Step | Module | Composes | State |
|---|---|---|---|
| 1 | `ScreenLooper`, `ScreenLooper_proofs` | | done |
| 2 | `CodecSession`, `CodecSession_proofs` | | done |
| 3 | `NetLinkMonitor`, `NetLinkMonitor_proofs` | | done |
| 4 | `RfcommManager`, `RfcommManager_proofs` | | done |
| 5 | `HostapdService`, `HostapdService_proofs` | | done |
| 6 | `LossyPipe` (what a chain of flows promises), `CarplayRuntime` (start, flows, collectors, blocking calls), `CarplayRuntime_proofs` | `CarplayRuntime` instantiates `LossyPipe` three times | done |
| 7 | `VectorDownward`, `FlatBufferBuilder`, `FlatBufferReader` (operators), `RpcMessages` (the state machine over them), `RpcMessages_proofs` | `RpcMessages` extends the three | done |
| 8 | `TouchInput`, `TouchInput_proofs` | | done; its flow is the `ui` flow of `CarplayRuntime` in detail |
| 9 | in `RpcMessages_proofs`, the way of a message from the builder to the accessors | | done |

Every safety property that a run checks is now a theorem too; what is left to TLC is
in section 5. An earlier plan had a module for the peer dial: what the header has of
it is in `RpcMessages` and `CarplayRuntime`, and section 6 says why the rest is not
modelled.

The screen looper and the codec are separate modules although one thread runs both:
they share no variable but the thread's own position (`initMediaCodec` is called
once, between `initEGL` and the frame loop), and each is affected by the other only
through events its own module offers at any time (a frame released, a start).

## 3. Modules

Each module has one action per handler, thread step or system event. A step ends
where the code gives another thread the chance to interfere: at a lock, a call that
blocks, or an access to a shared field without a lock. Definitions whose comment
starts with "Mutant:" are not used by the specification; each is a plausible bug in
the definition that follows, and `PROJECT.json` says which property catches it.

### ScreenLooper

Loopers are numbered by their stream start. `pc` is the position in `screenLooper`,
`gContext`, `window`, `updated`, `eglSurface` are the members of the runtime,
`boundContext` and `boundSurface` are EGL's current context and surface per thread,
`texContext` the context that the only `SurfaceTexture` is attached to. `InitEGL`,
`MakeCurrent` and `AttachTexture` are the initialisation, with its ignored failures;
`WaitFrame`, `UpdateTexImage`, `CheckUpdated`, `RecreateSurface`, `BindSurface` one
turn of the loop; `SurfaceAvailable` and `RaiseUpdated` the UI thread. `ReleaseFrame`
stands for the output thread. EGL and `SurfaceTexture` are external; what is taken of
them is that a context is current in one thread at a time, and that a texture is
attached and updated only in a context that is current. The pixels, shaders and swap
results are left out.

### CodecSession

Codecs are numbered by the stream start that creates them. `codec` and `status` are
the two members; `state` is what became of each `AMediaCodec`, `buffer` where each of
its input buffers is: free, with the client, or queued. Start threads (`CreateCodec` to
`SpawnOutputLoop`), output loops, feeders (the video socket and configuration
workers, both in `queueInputBuffer`) and stop handlers each have a position and read
the pointer again at each call, as the code does. A call through a null or wild
pointer ends the process; a call on a deleted codec may end it or return an error.
The bytes of a unit are reduced to whether it fits the buffer; one that does not is
refused each time it is tried (`large`).

A feeder keeps the `index` of its buffer and, after `GetInputBuffer`, a `pointer` into
it, from one call to the next; dequeue, look-up, `memcpy` and queue are four actions.
The index is a small integer that nothing ties to its codec: after a restart it is
passed to the new one, which takes it if its own buffer of that index is with the
client, that is, held by another feeder. Both then write to that buffer and queue it.
The model does this; `source` and `foreign` record where an index came from and which
codecs took a stranger's.

### NetLinkMonitor

The main thread (`NetLinkStart`, `NetLinkStop`, `Shutdown`, `Join`,
`CloseAndDelete`), the thread (`TestRunning`, `RecvFails`, `RecvMessage`,
`OnIpv6Ready`) and the kernel (`KernelEvent`, with a bounded queue and an overrun
that `recv` reports once). `ShutdownUnblocksRecv` says what `shutdown` does to a
blocked `recv`: the proofs hold for both values; the runs take FALSE, which is
Linux's answer for netlink sockets.

### RfcommManager

A start request stands for the channel it creates. `mutex` is the coroutine mutex as
its holder and the queue behind it, `list` the transform list, `socket`, `link`,
`job` and `inbox` the channel, its connection, its read loop and received bytes. A
stop looks its channel up (`Query`) under the mutex. A send does not: `BeginSend` and
`EndSend` are the two ends of its iteration over the list, `seen` the entries of its
key that the list had at any time between, and if the list was changed the iteration
may end in an exception that nothing catches (`crashed`). The
service's destruction cancels coroutines in `lock` and `join`, and leaves read loops
alone, because each has a scope of its own.

### HostapdService

`ap`, `running`, `address`, `stopping` are Android's access point, `broadcasts` its
intents on the way to the main thread. `StoreInfo`, `LaunchJob` and `ReceiveDisabled`
are `onReceive`, in two steps where it hands over to the job. Every coroutine has a
position: jobs `launched`, `waiting`, `resumed`, `set`, `emit`; requests through
`CheckEnabled`, the type check, `SetConfig`, `RegisterCallback`, `StopTethering`,
`StartHotspot`, `TetheringCallback`, or through the wait for the address. Exceptions
that `runCatching` swallows are branches that set `disturbed`, as do the user's own
steps; the property about restarts speaks of undisturbed runs only. The one that is
thrown on, when the receiver cannot read the address of the interface, ends the process
(`ReceiveThrows`). The `n`-th time the AP comes up is session `n`, and an address
carries the session it belongs to. Left out: SSID, password and channel, and the states
between on and off, which the code ignores.

### CarplayRuntime and LossyPipe

`CarplayRuntime` is the program around the other parts. `bound` counts the services
`initCarplayRuntime` has bound; between the first and the second, `onCreate` of the
RPC service starts the dial (`dial`) and registers the methods (`methods`), whether
the dial has started or not. `subscribed` says which flows have a collector yet:
what is emitted before is lost. For each flow, `buffer` is what it holds, `hand` and
`at` are the event its collector handles and how far it is. A handler is one action
per access to something shared: `StartLink` (the blocking call), `StoreDevice`,
`LaunchRfcomm` for a bond; `ReadDevice` and then `WriteReply` or `StopRfcomm` and four
`DisableProfile` for what the peer sends; `InitPullListener`, `RegisterScreenMethods`,
`CallSession` for a configuration. `CallPeer` makes a call if the dial runs and
`CallReturns` is its end, which the code treats alike for an answer and a time-out.
`calls` records what each collector did to others.

The environment offers numbered events (`Offer`): broadcasts, requests of the peer,
format changes, events of the access point service, touches, packets from a channel.
Of `RfcommManager` only the state of a device's RFCOMM is kept, off, starting or up,
with a stop or a lost link at any time; of `HostapdService` only that it emits. The
broadcasts that the collector ignores are one kind of event, and so are the false
reports of availability. Left out: profile proxies and what they find, UUIDs, the
payload of packets and touches, services that are unbound again.

`LossyPipe` is what a chain of flows promises: items that are put in may be lost, the
others come out in their order and once. It is instantiated for packets from the
RFCOMM socket to the peer (two flows and the relay), for the peer's data to the
socket, and for touches; the refinement mapping takes the items in transit to be what
the collectors hold followed by what the flows hold. The two ends are where the
numbered event is offered and where the call is made.

### VectorDownward, FlatBufferBuilder, FlatBufferReader and RpcMessages

`VectorDownward` is the block of a builder: data that grows down from its end, the
scratch pad that grows up from its start, and reallocation, which moves both.
`FlatBufferBuilder` has the operations that the generated code calls (strings,
vectors, references, scalars that are left out when they equal their default, the
vtable of a table, `Finish`), `FlatBufferReader` the accessors of a table and the
verifier, each a test of bytes at an address. They have no state of their own.

In `RpcMessages` one message is built and read. `Compose` chooses its schema, its
values and the initial size of the block; `CreateReference`, `AddField`,
`FinishTable` and `FinishBuffer` are the calls that the program makes and the
generated `Create` functions make for it, until the bytes are sent. `Deliver` hands
them to the handler of some method, whole or cut short, as the wrapper of
`register_method` does: verify, read the root, let the handler read each field.
`Respond` builds its answer and `Return` ends the call. A reference that is absent and
that a handler follows without a test ends the process. Bytes that were never
written hold `Junk`. Left out: the deduplication of vtables, which needs a second
table in one message, file identifiers and size prefixes, none of which is used.

### TouchInput

`pointers` are the fingers on the surface in the order of their indices, which the
framework keeps without gaps; so lifting one shifts those behind it. `Down`,
`PointerDown`, `Move`, `PointerUp` and `End` are the motion events, each with the
whole listener (`Listener`): which slots it writes, what it says of each, and the
packing (`Packed`) into a Long, which is the set of its bits. An index beyond the two
slots ends the process (`crashed`). `target` is what the listener answered to the
first event of the gesture: without the service it is not asked again. `Emit` is the
flow that drops its oldest, `Collect` and `CallReturns` the collector of
`CarplayRuntime` with the call whose failure nobody looks at. `Number` and `Pressed`
are the unpacking that the peer is taken to do; `shown`, `crowd` and `missed` record
what the properties are about.

## 4. Runs

| Run | Constants | What it shows |
|---|---|---|
| `ScreenLooper` | 2 starts, 2 windows, 1 pending frame | hand-over (safety and progress), frames latched through a restart, a sole looper shows its window |
| `CodecSession` | 2 starts, 1 stop, 1 configuration, 1 frame, 1 input buffer | the sole session cannot crash, AVAILABLE means configured, buffers have one user and none is lost but by a refusal, except where a restart mixes the indices of two codecs, output loops end, configurations complete |
| `NetLink` | queue of 3 | the thread stays within the monitor, addresses are reported, stop returns on traffic, or without it if there is no socket |
| `NetLinkStop` (violation) | queue of 1 | stop does not return on a silent kernel |
| `Rfcomm` | 2 starts, 2 stops, 2 keys, sends for one of them | channels and list agree, stopped for good, stops and sends find live channels, requests return, a join ends with the device |
| `RfcommStop` (violation) | 1 start, 1 stop, 1 key, no sends | stop does not end the job of a silent device |
| `Hostapd` | 2 requests, 3 sessions, 1 user step | the job follows the AP, restarts leave it up, callbacks are still to come, an AP whose address keeps coming is announced |
| `HostapdType` (violation) | 1 request, 2 sessions, 3 user steps | an unsupported type is announced |
| `HostapdOff` (violation) | 1 request, 2 sessions, 1 user step | an AP that is off is not started |
| `Runtime` | 2 devices, flows of 1 or 2, 3 events in all | link before traffic, handlers before session, three pipes that only lose, a bond leads to an RFCOMM start, every configuration to a session |
| `RpcMessages` | 3 strings, 3 vectors, 2 or 3 scalars of each width, blocks of 8, 40 and 256 bytes | regions of the block apart, round trip of every message, reads within bounds for cut and misdirected bytes, offsets stay valid |
| `Touch` | 3 fingers, 2 positions, a flow of 2, 6 motion events | reported touches are fingers that are there, the listener survives but for a third finger lifted, the release reaches the peer |

### Bounds

Two stream starts are a restart, the least that makes two loopers or two codecs
share the runtime; a third adds another of the same. Two windows are the least that
can replace each other between the read of the flag and the lock. One pending frame
suffices because latching takes all there are. One frame and one
configuration make two feeders. One input buffer is enough for them to meet in it:
while a feeder of the old codec holds index 1, the other one gets the same index from
the new codec; it also makes one refusal the last one. The theorems are for any
number of buffers. Units are refused as long as they are tried: there is no bound on
refusals.
A netlink queue of three can hold an address between two other messages and overrun.
Two starts and two stops over two keys include two channels of one key, a stop of
either, and three requests behind one holder of the mutex. Sends are made one at a
time, so one key, which starts and stops may have or not, stands for each; none are
made in `RfcommStop`, where a crash would end the wait that the run is about.
Three sessions are the first, the restart by one request and the restart by the
other; the user acts once, which already separates each of the states a request can
see.
Three events are the least for two bonds and a packet between, a bond and two packets
or replies, and two configurations and something else; a flow of one loses whatever
its collector is too slow for, and the Bluetooth flow, with two, loses its oldest and
keeps the other. The code's flows hold 5, 10, 10, 5 and 60.
Strings and vectors are empty, shorter than the alignment and longer than it; a block
of 8 bytes is reallocated several times, one of 40 in the larger messages, one of 256
never. Absent references, empty ones and scalars equal to their default are among the
values.
Three fingers are one more than the listener has slots for; six events are enough to
put them down and lift them in any order. Of the two positions one has all bits of
x and none of y, the other is outside the view on the left. A flow of two overflows
while the collector is in its first call.
No symmetry is used, since most runs have liveness properties.

CHECK_DEADLOCK is off where the system really may stop: a crashed process, all requests
served, the service destroyed, all events over. It is on for the loopers and the netlink
monitor, which never stop for good.

### Fairness

Each thread or coroutine that can take a step does in the end (weak fairness, one
condition per thread; where all the parts of a service are finite sequences of steps
that stay enabled, as in `HostapdService` and for the starts and stops of
`CodecSession`, one condition for all of them says the same): the operating system and
`Dispatchers.IO` schedule runnable threads, and the blocking calls modelled as external
return (a connection attempt succeeds or fails, a pending stop of the AP takes effect, a
start calls back). The looper's way into the window mutex has strong fairness: the UI
thread holds that mutex for a moment per surface callback, so a looper that keeps asking
gets it. In `CarplayRuntime` each collector is one coroutine with one condition; that
includes the end of a call to the peer, which the prebuilt library bounds by waiting on
its future with a time limit (the object code calls `future::wait_for`). `TouchInput`
has the same condition for its collector. The start shares one condition, as it has
finitely many steps. Nothing forces the peer, the phone, the user, the kernel or Android
to act; `AddressAnnounced` and `StopReturnsOnTraffic` say in their own antecedent what
they need of the kernel, `JoinEndsOnTraffic` what it needs of the device.

### Findings

1. `NetLinkMonitor.h:57`: the comment says that `shutdown` unblocks `recv`. For a
   netlink socket it does not; `onDestroy` waits on the main thread for the kernel's
   next message (`NetLinkStop`).
2. `BluetoothRfcommManager.kt:70`: the stop joins the read loop before closing the
   channel, with the mutex held; on a silent device it never ends, and every later
   request waits (`RfcommStop`).
3. `HostapdService.kt:96`: the type is tested when the job is launched and the
   information read again when it announces; in between it may have become the
   unsupported one (`HostapdType`).
4. `HostapdService.kt:445`: an AP that is off is started only if its last known type
   was wrong, against the message of that branch (`HostapdOff`).

The models also reach defects that no document of the repository denies, and which
the properties therefore exclude by name: a stop of the stream can delete the codec
under a feeder or output loop (`SoleSessionSafe` speaks of sessions without stop), after a
restart two feeders can fill and queue the same input buffer (`BuffersAccountedFor` says
that nothing but a restart lets them), a unit larger than the input buffers takes them one
by one until the codec has none (`ConfigurationCompletes` excepts that codec), a send that
meets a change of the list throws where nothing catches it, as does the receiver that
cannot read the address of the interface, a
second stream start leaks the first codec, its looper never gets the texture, and a
restarted stream is decoded without being shown.

## 5. Proofs

All proofs are checked by TLAPS without assumptions but the named ASSUMEs of the
modules (bounds are naturals, names are distinct), which TLC evaluates in the runs.

* `ScreenLooper_proofs`. `TypeCorrect`; `WindowHandshakeHolds`, for any number of
  loopers and windows. `WindowHandshake` is not inductive: between
  `RecreateSurface` and `BindSurface` the surface depends on who holds the mutex.
  The invariant adds that a looper in `bind` holds the mutex and the UI thread in
  `flag` holds it (`LockDiscipline`), and that the surface a looper is about to bind
  is the current window's (`BindsCurrentWindow`). So the hand-over cannot slip
  between the creation of the surface and the lowering of the flag.
* `CodecSession_proofs`. `TypeCorrect`. `OnlyForeignIndicesShare`, for any number of
  codecs, buffers and feeders: on a codec that took no index of another one, a buffer is
  used by one feeder or by the decoder, whoever writes to it holds it, no buffer is lost
  without a refusal, and no codec takes such an index before a second one was started.
  The invariant says that a feeder has an index exactly from the call that dequeues to
  the one that queues, and a pointer in the last part of it (`HoldDiscipline`), that
  what it holds is of a codec that was started (`HeldAreInUse`), and that a codec that
  does not run has all its buffers (`IdleIsFree`), so that a stop takes them back and a
  start finds them free. What a restart does to the rule is not assumed away: `foreign`
  is set by the very calls that take the index, and only there. `SoleSessionIsSafe`,
  `AvailableIsConfigured`: the codec pointer is wild or null until the start thread
  stores it, and the status leaves IDLE only when that codec runs, so a feeder past the
  status test meets a started codec; SoleSession is anti-monotone, since a request once
  made stays made (`RequestsOnlyGrow`).
* `NetLinkMonitor_proofs`. `TypeCorrect`; `ThreadStaysWithinMonitor`, for every
  queue length and either behaviour of `shutdown`. The property is inductive with
  the type invariant: `Join` is the only way to `close`, and needs an exited thread.
* `RfcommManager_proofs`. `TypeCorrect`, `NoReadLoopIsLost`, `StopsAreFinal`,
  `LookupsFindLiveChannels`, for any requests and keys. The invariant says that only
  the head of the mutex is past `lock()` (`MutexHeld`), and ties each channel's
  position, entry, socket and job together (`Channels`): an entry and its loop come
  from the one start of the channel (`StartedOnce`), a stop closes only what it has
  found and joined (`TargetKnown`), the entry of a cancelled loop stays only as long
  as its stop is at work (`CancelledByStop`), and every other entry has a running
  loop or a lost link (`EntryLive`). A send is not under the mutex, so what it may come
  upon is said of every entry it has seen, removed or not (`SeenLive`), with the stop that
  has cancelled it (`CancelledHasStop`). The proofs about the list rest on lemmas about
  `RemoveFirst`, `SelectInSeq` and `Append`.

* `HostapdService_proofs`, for any number of requests, sessions and user steps.
  `ServiceTypeCorrect` needs that whoever stores an address has seen information that
  is replaced but never goes away (`InfoKnown`). `CallbackNeverMissed`: the AP is on
  from the registration of a callback to its call, and a stop is on its way after
  `stopTethering` (`CallbacksTold`). `RestartsComplete`: while nothing disturbs the
  requests they agree (`RequestsAgree`): each has set the configuration before it
  touches the AP, a pending stop has a request waiting for it, and a request whose
  start is over either finds the AP on or leaves another one that will start it.
  `JobAlwaysFollowsAp`: the property says nothing while broadcasts are on their way,
  so the invariant has to. The last intent tells the state of the AP
  (`IntentsCurrent`), the sessions on their way are increasing and newer than the
  stored one (`IntentsInOrder`), and jobs are launched and cancelled for sessions
  that have been stored (`JobsOfStored`), so that each session gets its job once.

* `CarplayRuntime_proofs`, for any devices, capacities and numbers of events.
  `RuntimeTypeCorrect` includes that no flow exceeds its capacity.
  `NoTrafficBeforeLink`: the property compares two logs, and what makes it true lies in
  between. A device whose RFCOMM is not off is linked (`RfcommLinked`), because the
  bond's handler passes the link first (`BondLinked`); so is the device of each packet
  in a flow or a collector's hand (`PacketsLinked`); and a reply came by a dial that
  runs (`RepliesNeedDial`), so that "linked" cannot mean the other case, a dial that
  failed and will never be told anything. `SessionFindsHandlers` needs what holds at
  each position of the session start (`SessionInv`) and that listener and methods are
  never taken back (`SessionSteps`).
  `FlowsImplementPipes` proves the refinement that the run checks, for flows of every
  capacity. A step acts on one flow and its collector, or relays between two, or on
  none (`FlowSteps`). Emitting puts a number behind those on their way and may lose
  the oldest of the flow (`EmitThinsTransit`), taking an event leaves them as they are
  (`TakeKeepsTransit`), and a handler passes the oldest on or loses it
  (`HandlerPassesOn`, `HandlerLeavesNothing`); the packets' way is two flows, and what
  is thinner on either is thinner joined (`ThinnedJoined`, `PacketsJoined`). `Numbers`,
  the part of the refinement mapping that picks the items of one kind out of a flow, is
  a recursive function: `NumbersOfAppend` and `NumbersOfTail` say what the two ends of a
  flow add to it, by induction over the numbers (`EveryNumber`). What the abstract pipe
  promises is proved in the same module: what is in transit is increasing and newer
  than what came out (`PipeSafe`), so `ItemsInOrder`: packets reach the peer, the peer's
  data the socket and touches the peer in order and once.
* `RpcMessages_proofs`, for any strings, vectors, scalars and initial sizes:
  `TypeCorrect`, which includes that data and scratch pad never share a byte;
  `OffsetsRemainValid`; `MessagesReadBack` (`RoundTrip`); `VerifiedReadsStayInBounds`.
  They rest on one predicate on vectors (`IsVector`: the two regions fit into the block)
  and two on what it holds: `Holds(v, o, bytes)`, the bytes are at offset o, and
  `Keeps(v, w)`, all that v held is in w at the same distance from the end. Each
  operation of the vector, then of the builder, keeps what was there and says what it
  adds, where, and how it is aligned (`ReallocateKeeps` has the arithmetic of the move,
  `CreateStringExtends` the padding decided before the bytes are written).
  The invariant says at each phase what the block holds. Every string and vector that
  has been created is at its offset with its length and terminator (`ReferencesInv`).
  While fields are added, each entry of the scratch pad is a stored field, and each
  stored field has an entry, below `maxVoffset` and no wider than the alignment of the
  buffer (`TableSoFar`). With its vtable, each entry leads to where the field is, or is 0
  (`TableWith`, established by `EndTableKeeps`: `EndTable` reads the scratch pad after
  pushing, and rewrites an soffset that it has pushed itself). `MessageIn` adds the root
  offset and that the size is a multiple of every stored scalar, which is what makes
  positions counted from the start as aligned as those counted from the end.
  `MessageReads` then evaluates verifier and accessors on it, field by field.
  `VerifiedReads` is about the reader alone, on any bytes: every range that an accessor
  reads was checked by `VerifyBuffer`, for the entries of the vtable because its length
  and their positions are both even. Numbers in the bytes are exact below 2^24, the
  bound that `FlatBufferBuilder` names for offsets; for longer buffers the statements
  are about the model only.
* `TouchInput_proofs`, for any fingers, coordinates, capacity and number of events:
  `TypeCorrect`, `ReportsAreFingers`, `ListenerOnlyFailsOnLift`. The invariant adds to the
  property that a gesture whose first event was taken has a bound service, so that each
  further event is reported, and that without a third finger there are at most two
  (`Gesture`). About the packing: the bits of two slots and of the parts of one do not
  meet (`SlotsApart`), and the twelve bits of a coordinate that fits are its value
  (`Decoded`); so a report shows exactly what was copied (`ReportIsExact`). About the
  listener, by the kind of event: a finger that is there (`PresenceIsTruthful`), one that
  is lifted from among others, whose index the next one takes (`LiftIsTruthful`), the end
  of the gesture (`EndIsTruthful`). That identities increase along the indices bounds the
  pointers (`FewFingers`).

All invariants and action properties of the passing runs are proved, and the refinement
of the pipes. Only model-checked are the liveness properties (progress of hand-overs and
frames, end of output loops, completion of configurations, report of addresses,
announcement of the AP, return of requests, bonds and configurations carried through,
the release of a touch), whose proofs need fairness and ENABLED, and the four violations.

## 6. Not modelled

* The peer dial beyond its header: its sources are not in the repository, only
  `libZmqIpcServer.a`. It appears as started or not, as methods that are registered,
  as calls that return, and as the wrapper of a method. The sixteen workers, the
  table of pending requests and the unlocked method map are hazards without a
  property: how the library looks a method up, what it answers when there is none,
  and what it does with a late answer cannot be read from the header.
* Most of the lines under `cpp/rpc/include` and `cpp/rpc/source/include`: flexbuffers,
  reflection, idl and the code generators of flatbuffers are included by nothing in
  the program; nng is a header of declarations with a prebuilt body; of
  `concurrentqueue.h` one queue is constructed (`CarplayRpcRuntime.h:150`) and nothing
  is ever put in or taken out. These headers are most of the repository's lines, so
  the share of lines that the map covers is small whatever is modelled of the program
  itself.
* The GL renderer (shader set-up and one draw call), the JNI helper (look-ups and
  forwarding, no state after its initialisation), the properties loader (logging),
  unused code, and within the modelled parts formatting, logging and the payload of
  messages, which only `RpcMessages` has.
* Profile proxies and their lists of connected devices; services that are unbound
  again, since they run in the process that binds them.
* The flow between the netlink thread and `HostapdService` delivers every event to who
  collects it then, and to nobody else; that a burst of more than five address events
  can drop one is not modelled, and no property rests on one event being delivered.
