----------------------------- MODULE CarplayRuntime -----------------------------
(***************************************************************************)
(* CarplayRuntime (core): it binds the four services one after another,    *)
(* then starts four coroutines, each of which collects the event flow of   *)
(* one service and calls the others.  A fifth coroutine, in                *)
(* CarplayBluetoothService, relays RFCOMM packets to the Bluetooth flow.   *)
(*                                                                         *)
(* A flow has one collector, replays nothing, holds a few events and drops *)
(* its oldest.  Emitting never waits; a collector handles one event at a   *)
(* time, calls to the peer included, which return an answer or time out.   *)
(*                                                                         *)
(* External: the flows of kotlinx.coroutines, the broadcasts, the peer and *)
(* its requests, the user, the RFCOMM channels (see RfcommManager) and the *)
(* events of HostapdService (see HostapdService).                          *)
(***************************************************************************)
EXTENDS Naturals, Sequences, SequencesExt

CONSTANTS Devices, None,
          Capacity,  \* of each flow: 5, 10, 10, 5 and 60 in the code
          Limit,     \* bounds of the model: events offered to each flow from outside,
          Total      \* and to all of them

Flows == {"rfcomm", "bt", "rpc", "hostapd", "ui"}

ASSUME DevicesAssumption == None \notin Devices
ASSUME CapacityAssumption == Capacity \in [Flows -> Nat \ {0}]
ASSUME LimitAssumption == Limit \in [Flows -> Nat] /\ Total \in Nat

VARIABLES
    bound,       \* how many services initCarplayRuntime has bound
    dial,        \* mRpc's dial: "new", "on" (dialStarted) or "failed"
    methods,     \* the RPC methods registered with the dial
    listener,    \* pullListener is set up and receives
    subscribed,  \* flows whose collector has subscribed
    buffer,      \* the events a flow holds for its collector
    hand,        \* the event a collector handles
    at,          \* where its handler is
    device,      \* mBtRfcommDevice
    target,      \* "it" of the RPC collector: the device it read
    rfcomm,      \* RFCOMM to each device: "off", "starting", "up"
    offered,     \* events offered to each flow from outside so far
    overrun,     \* events a full flow has dropped
    calls        \* what each collector has done to others, in its order

startVars == <<bound, dial, subscribed>>
sessionVars == <<methods, listener>>
btVars == <<device, target, rfcomm>>
flowVars == <<buffer, overrun>>
coVars == <<hand, at>>
vars == <<startVars, sessionVars, btVars, flowVars, coVars, offered, calls>>

RpcMethods == {"iap2", "available", "disable"}
ScreenMethods == {"streamStart", "streamStop", "streamConfigure"}

\* An event, or a call made for one: its kind, the device if any, its number if any.
Event(kind, d, n) == [kind |-> kind, device |-> d, n |-> n]

\* The order of CarplayRuntime.kt 122-125, and where it ends.
ProfileAfter == [hfp |-> "a2dp", a2dp |-> "pbap", pbap |-> "avrcp", avrcp |-> "idle"]
Profiles == DOMAIN ProfileAfter

KindsOf == [rfcomm |-> {"packet"},
            bt |-> {"packet", "bonded", "other"},
            rpc |-> {"reply", "available", "disable", "format", "other"},
            hostapd |-> {"configuration", "other"},
            ui |-> {"touch"}]

Init ==
    /\ bound = 0
    /\ dial = "new"
    /\ methods = {}
    /\ listener = FALSE
    /\ subscribed = {}
    /\ buffer = [f \in Flows |-> <<>>]
    /\ hand = [f \in Flows |-> None]
    /\ at = [f \in Flows |-> "idle"]
    /\ device = None
    /\ target = None
    /\ rfcomm = [d \in Devices |-> "off"]
    /\ offered = [f \in Flows |-> 0]
    /\ overrun = {}
    /\ calls = [f \in Flows |-> <<>>]

-----------------------------------------------------------------------------
(* Flows. *)

\* Mutant: no overflow policy, the buffer grows.
EmitUnbounded(f, e) ==
    IF f \in subscribed
    THEN buffer' = [buffer EXCEPT ![f] = Append(@, e)] /\ UNCHANGED overrun
    ELSE UNCHANGED flowVars

\* tryEmit: nothing is kept for a collector to come.
Emit(f, e) ==
    IF f \notin subscribed THEN UNCHANGED flowVars
    ELSE IF Len(buffer[f]) < Capacity[f]
    THEN buffer' = [buffer EXCEPT ![f] = Append(@, e)] /\ UNCHANGED overrun
    ELSE /\ buffer' = [buffer EXCEPT ![f] = Append(Tail(@), e)]
         /\ overrun' = overrun \cup {Head(buffer[f])}

\* Mutant: the event stays in the flow until it is handled, and is handled again.
TakePeeks(f) ==
    /\ f \in subscribed /\ at[f] = "idle"
    /\ buffer[f] # <<>>
    /\ hand' = [hand EXCEPT ![f] = Head(buffer[f])]
    /\ at' = [at EXCEPT ![f] = "handle"]
    /\ UNCHANGED <<startVars, sessionVars, btVars, flowVars, offered, calls>>

Take(f) ==
    /\ f \in subscribed /\ at[f] = "idle"
    /\ buffer[f] # <<>>
    /\ hand' = [hand EXCEPT ![f] = Head(buffer[f])]
    /\ buffer' = [buffer EXCEPT ![f] = Tail(@)]
    /\ at' = [at EXCEPT ![f] = "handle"]
    /\ UNCHANGED <<startVars, sessionVars, btVars, overrun, offered, calls>>

Handles(f, kind, place) == at[f] = place /\ hand[f].kind = kind
GoTo(f, place) == at' = [at EXCEPT ![f] = place] /\ UNCHANGED hand
Done(f) == at' = [at EXCEPT ![f] = "idle"] /\ hand' = [hand EXCEPT ![f] = None]
Record(f, e) == calls' = [calls EXCEPT ![f] = Append(@, e)]

\* A call to the peer, which only a dial that was started makes; its result is ignored.
CallPeer(f, e, otherwise) ==
    IF dial = "on" THEN Record(f, e) /\ GoTo(f, "calling")
    ELSE otherwise /\ UNCHANGED calls

\* The answer, or the timeout.
CallReturns(f) ==
    /\ at[f] = "calling"
    /\ IF hand[f].kind = "bonded" THEN GoTo(f, "store") ELSE Done(f)
    /\ UNCHANGED <<startVars, sessionVars, btVars, flowVars, offered, calls>>

\* The else branches.
Ignore(f) ==
    /\ Handles(f, "other", "handle")
    /\ Done(f)
    /\ UNCHANGED <<startVars, sessionVars, btVars, flowVars, offered, calls>>

-----------------------------------------------------------------------------
(* Start: initCarplayRuntime, and initCarplayRpc in the onCreate of the RPC service. *)

StartDial ==
    /\ bound = 1 /\ dial = "new"
    /\ dial' \in {"on", "failed"}
    /\ UNCHANGED <<bound, subscribed, sessionVars, btVars, flowVars, coVars, offered, calls>>

\* Whether the dial has started or not.
RegisterRpcMethods ==
    /\ bound = 1 /\ dial # "new"
    /\ methods' = methods \cup RpcMethods
    /\ UNCHANGED <<startVars, listener, btVars, flowVars, coVars, offered, calls>>

\* bindService: Bluetooth, RPC, hostapd, UI; each waits for onServiceConnected.
BindService ==
    /\ bound < 4
    /\ bound = 1 => RpcMethods \subseteq methods
    /\ bound' = bound + 1
    /\ UNCHANGED <<dial, subscribed, sessionVars, btVars, flowVars, coVars, offered, calls>>

\* collect, in a coroutine of its own: the four of CarplayRuntime are launched
\* once all services are bound, the relay by its service.
Subscribe(f) ==
    /\ f \notin subscribed
    /\ bound >= IF f = "rfcomm" THEN 1 ELSE 4
    /\ subscribed' = subscribed \cup {f}
    /\ UNCHANGED <<bound, dial, sessionVars, btVars, flowVars, coVars, offered, calls>>

-----------------------------------------------------------------------------
(* The Bluetooth flow, and the relay that feeds it. *)

\* Mutant: a link that cannot be started ends the handler.
StartLinkOrReturn ==
    /\ Handles("bt", "bonded", "handle")
    /\ CallPeer("bt", Event("link", hand["bt"].device, 0), Done("bt"))
    /\ UNCHANGED <<startVars, sessionVars, btVars, flowVars, offered>>

\* Mutant: the link is started for the first device only.
StartLinkOnce ==
    /\ Handles("bt", "bonded", "handle")
    /\ IF device = None
       THEN CallPeer("bt", Event("link", hand["bt"].device, 0), GoTo("bt", "store"))
       ELSE GoTo("bt", "store") /\ UNCHANGED calls
    /\ UNCHANGED <<startVars, sessionVars, btVars, flowVars, offered>>

\* startBtIap2LinkBinder, for a device that is bonded.
StartLink ==
    /\ Handles("bt", "bonded", "handle")
    /\ CallPeer("bt", Event("link", hand["bt"].device, 0), GoTo("bt", "store"))
    /\ UNCHANGED <<startVars, sessionVars, btVars, flowVars, offered>>

StoreDevice ==
    /\ at["bt"] = "store"
    /\ device' = hand["bt"].device
    /\ GoTo("bt", "launch")
    /\ UNCHANGED <<startVars, sessionVars, target, rfcomm, flowVars, offered, calls>>

\* startRfcommTransform launches the start and returns.
LaunchRfcomm ==
    /\ at["bt"] = "launch"
    /\ rfcomm' = [rfcomm EXCEPT ![hand["bt"].device] = IF @ = "off" THEN "starting" ELSE @]
    /\ Done("bt")
    /\ UNCHANGED <<startVars, sessionVars, device, target, flowVars, offered, calls>>

\* receiveBtIap2DataBinder.
ForwardPacket ==
    /\ Handles("bt", "packet", "handle")
    /\ CallPeer("bt", hand["bt"], Done("bt"))
    /\ UNCHANGED <<startVars, sessionVars, btVars, flowVars, offered>>

RelayPacket ==
    /\ Handles("rfcomm", "packet", "handle")
    /\ Emit("bt", hand["rfcomm"])
    /\ Done("rfcomm")
    /\ UNCHANGED <<startVars, sessionVars, btVars, offered, calls>>

-----------------------------------------------------------------------------
(* The RPC flow. *)

\* mBtRfcommDevice?.let: without a device the event is dropped.
ReadDevice ==
    /\ \E kind \in {"reply", "disable"} : Handles("rpc", kind, "handle")
    /\ IF device = None
       THEN Done("rpc") /\ UNCHANGED target
       ELSE GoTo("rpc", "device") /\ target' = device
    /\ UNCHANGED <<startVars, sessionVars, device, rfcomm, flowVars, offered, calls>>

\* sendDataByRfcomm: writes to the channel, or finds none, or a dead one.
WriteReply ==
    /\ Handles("rpc", "reply", "device")
    /\ \/ /\ rfcomm[target] = "up"
          /\ Record("rpc", Event("reply", target, hand["rpc"].n))
       \/ UNCHANGED calls
    /\ Done("rpc")
    /\ UNCHANGED <<startVars, sessionVars, btVars, flowVars, offered>>

\* stopRfcommTransform launches the stop of the device that was read ...
StopRfcomm ==
    /\ Handles("rpc", "disable", "device")
    /\ Record("rpc", Event("stop", target, 0))
    /\ GoTo("rpc", "hfp")
    /\ UNCHANGED <<startVars, sessionVars, btVars, flowVars, offered>>

\* ... and each profile in turn is to let go of the device that was named.  The
\* profile's proxy, if it is there and knows that device as connected, is asked
\* by reflection; whatever comes of it the handler goes on.
DisableProfile(p) ==
    /\ at["rpc"] = p
    /\ Record("rpc", Event(p, hand["rpc"].device, 0))
    /\ IF ProfileAfter[p] = "idle" THEN Done("rpc") ELSE GoTo("rpc", ProfileAfter[p])
    /\ UNCHANGED <<startVars, sessionVars, btVars, flowVars, offered>>

\* getCarplayCompatSoftApConfigureBinder launches HostapdService's Request.
ConfigureHostapd ==
    /\ Handles("rpc", "available", "handle")
    /\ Record("rpc", Event("configure", None, 0))
    /\ Done("rpc")
    /\ UNCHANGED <<startVars, sessionVars, btVars, flowVars, offered>>

StartActivity ==
    /\ Handles("rpc", "format", "handle")
    /\ Record("rpc", Event("activity", None, 0))
    /\ Done("rpc")
    /\ UNCHANGED <<startVars, sessionVars, btVars, flowVars, offered>>

-----------------------------------------------------------------------------
(* The flows of hostapd and of the user interface. *)

\* Mutant: a listener that is there already counts as a failure.
InitPullListenerOnce ==
    /\ Handles("hostapd", "configuration", "handle")
    /\ IF dial = "on" /\ ~listener
       THEN listener' = TRUE /\ GoTo("hostapd", "register")
       ELSE UNCHANGED listener /\ Done("hostapd")
    /\ UNCHANGED <<startVars, methods, btVars, flowVars, offered, calls>>

\* Mutant: what initPullListener returns is not looked at.
InitPullListenerUnchecked ==
    /\ Handles("hostapd", "configuration", "handle")
    /\ IF dial = "on"
       THEN listener' \in {listener, TRUE} /\ GoTo("hostapd", "register")
       ELSE UNCHANGED listener /\ Done("hostapd")
    /\ UNCHANGED <<startVars, methods, btVars, flowVars, offered, calls>>

\* startCarplaySession, which returns at once without a dial; initPullListener
\* does nothing when there is a listener, and may fail when there is none.
InitPullListener ==
    /\ Handles("hostapd", "configuration", "handle")
    /\ \/ /\ dial = "on"
          /\ listener' = TRUE
          /\ GoTo("hostapd", "register")
       \/ /\ dial # "on" \/ ~listener
          /\ UNCHANGED listener
          /\ Done("hostapd")
    /\ UNCHANGED <<startVars, methods, btVars, flowVars, offered, calls>>

\* Again for every session.
RegisterScreenMethods ==
    /\ at["hostapd"] = "register"
    /\ methods' = methods \cup ScreenMethods
    /\ GoTo("hostapd", "session")
    /\ UNCHANGED <<startVars, listener, btVars, flowVars, offered, calls>>

CallSession ==
    /\ Handles("hostapd", "configuration", "session")
    /\ CallPeer("hostapd", hand["hostapd"], Done("hostapd"))
    /\ UNCHANGED <<startVars, sessionVars, btVars, flowVars, offered>>

TouchScreen ==
    /\ Handles("ui", "touch", "handle")
    /\ CallPeer("ui", hand["ui"], Done("ui"))
    /\ UNCHANGED <<startVars, sessionVars, btVars, flowVars, offered>>

-----------------------------------------------------------------------------
(* The world around. *)

\* An event that comes from outside, numbered in the order of its flow.
Offer(f, kind, d) ==
    /\ offered[f] < Limit[f] /\ FoldFunction(+, 0, offered) < Total
    /\ offered' = [offered EXCEPT ![f] = @ + 1]
    /\ Emit(f, Event(kind, d, offered[f] + 1))
    /\ UNCHANGED <<startVars, sessionVars, btVars, coVars, calls>>

\* Each broadcast becomes one event; only a bond that is complete is acted on.
Broadcast(d) ==
    /\ bound >= 1
    /\ Offer("bt", "bonded", d) \/ Offer("bt", "other", None)

\* A request finds its handler only after the registration.
PeerRequest ==
    /\ dial = "on"
    /\ \/ "iap2" \in methods /\ Offer("rpc", "reply", None)
       \/ "available" \in methods /\ \E kind \in {"available", "other"} : Offer("rpc", kind, None)
       \/ "disable" \in methods /\ \E d \in Devices : Offer("rpc", "disable", d)

\* The codec's output loop, of a stream that the peer has started.
FormatChange == "streamStart" \in methods /\ Offer("rpc", "format", None)

\* A configuration that is ready, or an address the service waits for.
HostapdEvent ==
    /\ bound >= 3
    /\ \E kind \in {"configuration", "other"} : Offer("hostapd", kind, None)

UserTouches == bound = 4 /\ Offer("ui", "touch", None)

\* RfcommManager connects, and loses, or stops, a channel; a connected one reads.
ChannelConnects(d) ==
    /\ rfcomm[d] = "starting"
    /\ rfcomm' = [rfcomm EXCEPT ![d] = "up"]
    /\ UNCHANGED <<startVars, sessionVars, device, target, flowVars, coVars, offered, calls>>

ChannelGone(d) ==
    /\ rfcomm[d] # "off"
    /\ rfcomm' = [rfcomm EXCEPT ![d] = "off"]
    /\ UNCHANGED <<startVars, sessionVars, device, target, flowVars, coVars, offered, calls>>

ReadPacket(d) == rfcomm[d] = "up" /\ Offer("rfcomm", "packet", d)

-----------------------------------------------------------------------------
Start == StartDial \/ RegisterRpcMethods \/ BindService

BtCollector ==
    \/ Take("bt") \/ StartLink \/ StoreDevice \/ LaunchRfcomm \/ ForwardPacket
    \/ CallReturns("bt") \/ Ignore("bt")

Relay == Take("rfcomm") \/ RelayPacket

RpcCollector ==
    \/ Take("rpc") \/ ReadDevice \/ WriteReply \/ StopRfcomm \/ ConfigureHostapd
    \/ StartActivity \/ Ignore("rpc")
    \/ \E p \in Profiles : DisableProfile(p)

HostapdCollector ==
    \/ Take("hostapd") \/ InitPullListener \/ RegisterScreenMethods \/ CallSession
    \/ CallReturns("hostapd") \/ Ignore("hostapd")

UiCollector == Take("ui") \/ TouchScreen \/ CallReturns("ui")

World ==
    \/ PeerRequest \/ FormatChange \/ HostapdEvent \/ UserTouches
    \/ \E d \in Devices : Broadcast(d) \/ ChannelConnects(d) \/ ChannelGone(d) \/ ReadPacket(d)

Next ==
    \/ Start
    \/ \E f \in Flows : Subscribe(f)
    \/ BtCollector \/ Relay \/ RpcCollector \/ HostapdCollector \/ UiCollector
    \/ World

\* Coroutines that can go on do, and a remote call ends with its answer or its
\* timeout.  The start has finitely many steps: one condition for all is enough.
\* The world does what it likes.
Fairness ==
    /\ WF_vars(Start \/ \E f \in Flows : Subscribe(f))
    /\ WF_vars(BtCollector) /\ WF_vars(Relay) /\ WF_vars(RpcCollector)
    /\ WF_vars(HostapdCollector) /\ WF_vars(UiCollector)

Spec == Init /\ [][Next]_vars /\ Fairness

-----------------------------------------------------------------------------
(* Properties. *)

Places == {"idle", "handle", "calling", "store", "launch", "device", "register", "session"}
          \cup Profiles

Deeds == {"link", "packet", "reply", "stop", "configure", "activity", "configuration", "touch"}
         \cup Profiles

Events == [kind : UNION {KindsOf[f] : f \in Flows}, device : Devices \cup {None}, n : Nat]
Calls == [kind : Deeds, device : Devices \cup {None}, n : Nat]

TypeOK ==
    /\ bound \in 0..4
    /\ dial \in {"new", "on", "failed"}
    /\ methods \subseteq RpcMethods \cup ScreenMethods
    /\ listener \in BOOLEAN
    /\ subscribed \subseteq Flows
    /\ buffer \in [Flows -> Seq(Events)]
    /\ \A f \in Flows : Len(buffer[f]) <= Capacity[f]
    /\ \A f \in Flows : \A i \in DOMAIN buffer[f] : buffer[f][i].kind \in KindsOf[f]
    /\ hand \in [Flows -> Events \cup {None}]
    /\ \A f \in Flows :
          IF at[f] = "idle" THEN hand[f] = None
          ELSE hand[f] \in Events /\ hand[f].kind \in KindsOf[f]
    /\ at \in [Flows -> Places]
    /\ device \in Devices \cup {None}
    /\ target \in Devices \cup {None}
    /\ rfcomm \in [Devices -> {"off", "starting", "up"}]
    /\ offered \in [Flows -> Nat]
    /\ overrun \subseteq Events
    /\ calls \in [Flows -> Seq(Calls)]

Did(f, kind, d) == \E i \in DOMAIN calls[f] : calls[f][i].kind = kind /\ calls[f][i].device = d

\* No packet of a device reaches the peer, and nothing the peer sends reaches a
\* device, before the peer was told to start the iAP2 link with that device: the
\* link call comes before the RFCOMM start in one collector, and what the other
\* one reads of that, whenever it reads it, keeps the order.
LinkBeforeTraffic ==
    \A d \in Devices :
        Did("bt", "packet", d) \/ Did("rpc", "reply", d) => Did("bt", "link", d)

\* When the peer is told to start a session it can stream at once: its three
\* screen methods are registered and the listener for the stream receives.
HandlersBeforeSession ==
    calls["hostapd"] # <<>> => listener /\ ScreenMethods \subseteq methods

\* From the RFCOMM socket to the peer, from the peer to the RFCOMM socket, and
\* from the touch screen to the peer: the flows and the collectors between the
\* ends lose events whole, and do nothing worse to them.
Number(e, kind) == IF e.kind = kind THEN <<e.n>> ELSE <<>>

Numbers(s, kind) ==
    LET Upto[i \in 0..Len(s)] == IF i = 0 THEN <<>> ELSE Upto[i - 1] \o Number(s[i], kind)
    IN Upto[Len(s)]

InHand(f, kind) == IF at[f] \in {"handle", "device"} THEN Number(hand[f], kind) ELSE <<>>

Transit(f, kind) == InHand(f, kind) \o Numbers(buffer[f], kind)

PacketPipe == INSTANCE LossyPipe WITH
    put <- offered["rfcomm"],
    transit <- Transit("bt", "packet") \o Transit("rfcomm", "packet"),
    delivered <- Numbers(calls["bt"], "packet")

ReplyPipe == INSTANCE LossyPipe WITH
    put <- offered["rpc"],
    transit <- Transit("rpc", "reply"),
    delivered <- Numbers(calls["rpc"], "reply")

TouchPipe == INSTANCE LossyPipe WITH
    put <- offered["ui"],
    transit <- Transit("ui", "touch"),
    delivered <- Numbers(calls["ui"], "touch")

FlowsOnlyLose == PacketPipe!Spec /\ ReplyPipe!Spec /\ TouchPipe!Spec

\* A bond that reaches a collector in time leads to an RFCOMM start, whatever
\* the peer answers, unless newer events push it out of the flow.
BondStartsRfcomm ==
    \A n \in 1..Limit["bt"] :
        LET bonds == {Event("bonded", d, n) : d \in Devices} IN
        (\E bond \in bonds : Contains(buffer["bt"], bond)) ~>
            \E bond \in bonds : bond \in overrun \/ (at["bt"] = "launch" /\ hand["bt"] = bond)

\* Every configuration the access point service reports, not only the first,
\* starts a session, unless it is pushed out, or there is no dial or no listener.
ConfigurationStartsSession ==
    \A n \in 1..Limit["hostapd"] :
        LET configuration == Event("configuration", None, n) IN
        Contains(buffer["hostapd"], configuration) ~>
            \/ configuration \in overrun
            \/ Contains(calls["hostapd"], configuration)
            \/ dial # "on" \/ ~listener
=============================================================================
