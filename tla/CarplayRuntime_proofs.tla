-------------------------- MODULE CarplayRuntime_proofs --------------------------
(***************************************************************************)
(* The proofs about CarplayRuntime, for any devices, capacities and limits:*)
(* types, the link before all traffic, the handlers before each session,   *)
(* and that the chains of flows implement LossyPipe.                       *)
(***************************************************************************)
EXTENDS CarplayRuntime, SequenceTheorems, WellFoundedInduction, TLAPS

-----------------------------------------------------------------------------
(* Inductive strengthening. *)

\* The peer was told of the link with d, or never will be told of anything.
Linked(d) == Did("bt", "link", d) \/ dial = "failed"

\* What runs at which stage of the start.
StartOrder ==
    /\ bound >= 2 \/ methods # {} => dial # "new"
    /\ \A f \in Flows : f # "rfcomm" /\ f \in subscribed => bound = 4
    /\ \A f \in Flows : at[f] # "idle" => f \in subscribed

\* A bond is handled in order: its link first.
BondLinked ==
    (\/ at["bt"] \in {"store", "launch"}
     \/ at["bt"] = "calling" /\ hand["bt"].kind = "bonded")
        => hand["bt"].kind = "bonded" /\ Linked(hand["bt"].device)

RfcommLinked == \A d \in Devices : rfcomm[d] # "off" => Linked(d)

\* ... so what was read from a device is read after its link was started.
PacketsLinked ==
    \A f \in {"rfcomm", "bt"} :
        /\ \A i \in DOMAIN buffer[f] :
              buffer[f][i].kind = "packet" => Linked(buffer[f][i].device)
        /\ at[f] # "idle" /\ hand[f].kind = "packet" => Linked(hand[f].device)

\* Only a dial that runs receives something for a device.
RepliesNeedDial ==
    /\ \A i \in DOMAIN buffer["rpc"] : buffer["rpc"][i].kind = "reply" => dial = "on"
    /\ at["rpc"] # "idle" /\ hand["rpc"].kind = "reply" => dial = "on"

LinkInv ==
    /\ StartOrder
    /\ BondLinked /\ RfcommLinked /\ PacketsLinked /\ RepliesNeedDial
    /\ LinkBeforeTraffic

\* The steps of a session start, in their order.
SessionInv ==
    /\ at["hostapd"] \in {"register", "session", "calling"} => listener
    /\ at["hostapd"] \in {"session", "calling"} => ScreenMethods \subseteq methods
    /\ HandlersBeforeSession

-----------------------------------------------------------------------------
(* Flows. *)

\* Every event has the kind of an event.
LEMMA KindsAreKinds ==
    \A f \in Flows : KindsOf[f] \subseteq UNION {KindsOf[g] : g \in Flows}
BY Zenon

\* An event that is emitted joins its flow, or is lost; what it finds there stays
\* as it is or is dropped.
LEMMA EmitKeepsFlows ==
    ASSUME TypeOK, NEW f \in Flows, NEW e \in Events, e.kind \in KindsOf[f], Emit(f, e)
    PROVE  /\ buffer' \in [Flows -> Seq(Events)]
           /\ \A g \in Flows : Len(buffer'[g]) <= Capacity[g]
           /\ \A g \in Flows : \A i \in DOMAIN buffer'[g] :
                 \/ g = f /\ buffer'[g][i] = e /\ f \in subscribed
                 \/ \E j \in DOMAIN buffer[g] : buffer'[g][i] = buffer[g][j]
           /\ overrun' \subseteq Events
<1> USE DEF TypeOK
<1> DEFINE b == buffer[f]
<1>0. b \in Seq(Events) /\ Len(b) <= Capacity[f] /\ Capacity[f] \in Nat \ {0}
  BY CapacityAssumption
<1>1. CASE f \notin subscribed
  BY <1>1 DEF Emit, flowVars
<1>2. CASE f \in subscribed /\ Len(b) < Capacity[f]
  <2>1. buffer' = [buffer EXCEPT ![f] = Append(b, e)] /\ overrun' = overrun
    BY <1>2 DEF Emit
  <2>2. /\ Append(b, e) \in Seq(Events)
        /\ Len(Append(b, e)) <= Capacity[f]
        /\ \A i \in DOMAIN Append(b, e) :
              Append(b, e)[i] = e \/ \E j \in DOMAIN b : Append(b, e)[i] = b[j]
    BY <1>0, <1>2
  <2> QED BY <2>1, <2>2, <1>2
<1>3. CASE f \in subscribed /\ ~(Len(b) < Capacity[f])
  <2>1. /\ buffer' = [buffer EXCEPT ![f] = Append(Tail(b), e)]
        /\ overrun' = overrun \cup {Head(b)}
    BY <1>3 DEF Emit
  <2>2. b # <<>> /\ Len(b) = Capacity[f]
    BY <1>0, <1>3
  <2>3. Head(b) \in Events /\ Tail(b) \in Seq(Events) /\ Len(Tail(b)) = Len(b) - 1
    BY <1>0, <2>2
  <2>4. \A i \in DOMAIN Tail(b) : i + 1 \in DOMAIN b /\ Tail(b)[i] = b[i + 1]
    BY <1>0, <2>2
  <2>5. /\ Append(Tail(b), e) \in Seq(Events)
        /\ Len(Append(Tail(b), e)) <= Capacity[f]
        /\ \A i \in DOMAIN Append(Tail(b), e) :
              \/ Append(Tail(b), e)[i] = e
              \/ \E j \in DOMAIN b : Append(Tail(b), e)[i] = b[j]
    BY <1>0, <2>2, <2>3, <2>4
  <2> QED BY <2>1, <2>3, <2>5, <1>3
<1> QED BY <1>1, <1>2, <1>3

\* An event that is taken was in the flow, and the others stay.
LEMMA TakeKeepsFlows ==
    ASSUME TypeOK, NEW f \in Flows, Take(f)
    PROVE  /\ buffer' \in [Flows -> Seq(Events)]
           /\ \A g \in Flows : Len(buffer'[g]) <= Capacity[g]
           /\ \A g \in Flows : \A i \in DOMAIN buffer'[g] :
                 \E j \in DOMAIN buffer[g] : buffer'[g][i] = buffer[g][j]
           /\ hand' = [hand EXCEPT ![f] = buffer[f][1]]
           /\ 1 \in DOMAIN buffer[f] /\ buffer[f][1] \in Events
<1> USE DEF TypeOK
<1> DEFINE b == buffer[f]
<1>0. b \in Seq(Events) /\ Len(b) <= Capacity[f] /\ Capacity[f] \in Nat /\ b # <<>>
  BY CapacityAssumption DEF Take
<1>1. buffer' = [buffer EXCEPT ![f] = Tail(b)] /\ hand' = [hand EXCEPT ![f] = Head(b)]
  BY DEF Take
<1>2. /\ Tail(b) \in Seq(Events) /\ Len(Tail(b)) <= Capacity[f]
      /\ \A i \in DOMAIN Tail(b) : i + 1 \in DOMAIN b /\ Tail(b)[i] = b[i + 1]
      /\ 1 \in DOMAIN b /\ Head(b) = b[1] /\ b[1] \in Events
  BY <1>0
<1> QED BY <1>1, <1>2

\* What a collector has done stays done.
LEMMA RecordKeeps ==
    ASSUME TypeOK, NEW f \in Flows, NEW e \in Calls, Record(f, e)
    PROVE  /\ calls' \in [Flows -> Seq(Calls)]
           /\ \A g \in Flows : \A kind, d :
                 Did(g, kind, d)' <=>
                    Did(g, kind, d) \/ (g = f /\ e.kind = kind /\ e.device = d)
<1> USE DEF TypeOK
<1> DEFINE c == calls[f]
<1>1. calls' = [calls EXCEPT ![f] = Append(c, e)]
  BY DEF Record
<1>2. c \in Seq(Calls) /\ Append(c, e) \in Seq(Calls)
  OBVIOUS
<1>3. /\ DOMAIN Append(c, e) = DOMAIN c \cup {Len(c) + 1}
      /\ \A i \in DOMAIN c : Append(c, e)[i] = c[i]
      /\ Append(c, e)[Len(c) + 1] = e
  BY <1>2
<1> QED BY <1>1, <1>2, <1>3 DEF Did

-----------------------------------------------------------------------------
(* Types. *)

FlowsTyped ==
    /\ buffer \in [Flows -> Seq(Events)]
    /\ \A f \in Flows : Len(buffer[f]) <= Capacity[f]
    /\ \A f \in Flows : \A i \in DOMAIN buffer[f] : buffer[f][i].kind \in KindsOf[f]
    /\ overrun \subseteq Events

HandsTyped ==
    /\ hand \in [Flows -> Events \cup {None}]
    /\ \A f \in Flows :
          IF at[f] = "idle" THEN hand[f] = None
          ELSE hand[f] \in Events /\ hand[f].kind \in KindsOf[f]
    /\ at \in [Flows -> Places]

StartTyped ==
    /\ bound \in 0..4
    /\ dial \in {"new", "on", "failed"}
    /\ methods \subseteq RpcMethods \cup ScreenMethods
    /\ listener \in BOOLEAN
    /\ subscribed \subseteq Flows

BluetoothTyped ==
    /\ device \in Devices \cup {None}
    /\ target \in Devices \cup {None}
    /\ rfcomm \in [Devices -> {"off", "starting", "up"}]

CallsTyped == offered \in [Flows -> Nat] /\ calls \in [Flows -> Seq(Calls)]

LEMMA TypeParts ==
    TypeOK <=> FlowsTyped /\ HandsTyped /\ StartTyped /\ BluetoothTyped /\ CallsTyped
BY DEF TypeOK, FlowsTyped, HandsTyped, StartTyped, BluetoothTyped, CallsTyped

LEMMA TypePartsPrime ==
    FlowsTyped' /\ HandsTyped' /\ StartTyped' /\ BluetoothTyped' /\ CallsTyped' => TypeOK'
BY TypeParts, PTL

LEMMA EmitTyped ==
    ASSUME TypeOK, NEW f \in Flows, NEW e \in Events, e.kind \in KindsOf[f], Emit(f, e)
    PROVE  FlowsTyped'
<1>1. /\ buffer' \in [Flows -> Seq(Events)]
      /\ \A g \in Flows : Len(buffer'[g]) <= Capacity[g]
      /\ \A g \in Flows : \A i \in DOMAIN buffer'[g] :
            \/ g = f /\ buffer'[g][i] = e /\ f \in subscribed
            \/ \E j \in DOMAIN buffer[g] : buffer'[g][i] = buffer[g][j]
      /\ overrun' \subseteq Events
  BY EmitKeepsFlows
<1>2. \A g \in Flows : \A i \in DOMAIN buffer[g] : buffer[g][i].kind \in KindsOf[g]
  BY DEF TypeOK
<1>3. \A g \in Flows : \A i \in DOMAIN buffer'[g] : buffer'[g][i].kind \in KindsOf[g]
  BY <1>1, <1>2
<1> QED BY <1>1, <1>3 DEF FlowsTyped

LEMMA TakeTyped ==
    ASSUME TypeOK, NEW f \in Flows, Take(f)
    PROVE  TypeOK'
<1>0. /\ buffer' \in [Flows -> Seq(Events)]
      /\ \A g \in Flows : Len(buffer'[g]) <= Capacity[g]
      /\ \A g \in Flows : \A i \in DOMAIN buffer'[g] :
            \E j \in DOMAIN buffer[g] : buffer'[g][i] = buffer[g][j]
      /\ hand' = [hand EXCEPT ![f] = buffer[f][1]]
      /\ 1 \in DOMAIN buffer[f] /\ buffer[f][1] \in Events
  BY TakeKeepsFlows
<1>a. \A g \in Flows : \A i \in DOMAIN buffer[g] : buffer[g][i].kind \in KindsOf[g]
  BY DEF TypeOK
<1>b. \A g \in Flows : \A i \in DOMAIN buffer'[g] : buffer'[g][i].kind \in KindsOf[g]
  BY <1>0, <1>a
<1>1. FlowsTyped'
  BY <1>0, <1>b DEF TypeOK, FlowsTyped, Take
<1>2. HandsTyped'
  BY <1>0, <1>a DEF TypeOK, HandsTyped, Take, Places
<1>3. StartTyped' /\ BluetoothTyped' /\ CallsTyped'
  BY TypeParts DEF StartTyped, BluetoothTyped, CallsTyped, Take, startVars, sessionVars, btVars
<1> QED BY <1>1, <1>2, <1>3, TypePartsPrime

\* A handler that goes on or ends keeps an event in hand as long as it runs.
LEMMA MovesTyped ==
    ASSUME TypeOK, NEW f \in Flows,
           \/ Done(f)
           \/ at[f] # "idle" /\ \E place \in Places \ {"idle"} : GoTo(f, place)
    PROVE  HandsTyped'
BY DEF TypeOK, HandsTyped, Done, GoTo, Places

LEMMA FlowsSameTyped == TypeOK /\ UNCHANGED flowVars => FlowsTyped'
BY DEF TypeOK, FlowsTyped, flowVars

LEMMA HandsSameTyped == TypeOK /\ UNCHANGED coVars => HandsTyped'
BY DEF TypeOK, HandsTyped, coVars

LEMMA StartSameTyped == TypeOK /\ UNCHANGED <<startVars, sessionVars>> => StartTyped'
BY DEF TypeOK, StartTyped, startVars, sessionVars

LEMMA BluetoothSameTyped == TypeOK /\ UNCHANGED btVars => BluetoothTyped'
BY DEF TypeOK, BluetoothTyped, btVars

LEMMA CallsSameTyped == TypeOK /\ UNCHANGED <<offered, calls>> => CallsTyped'
BY DEF TypeOK, CallsTyped

LEMMA RecordTyped ==
    ASSUME TypeOK, NEW f \in Flows, NEW e \in Calls, Record(f, e), UNCHANGED offered
    PROVE  CallsTyped'
BY RecordKeeps DEF TypeOK, CallsTyped

\* A call to the peer is made, or the handler does what it does without a dial.
LEMMA CallPeerTyped ==
    ASSUME TypeOK, NEW f \in Flows, at[f] # "idle", NEW e \in Calls, UNCHANGED offered,
           \/ CallPeer(f, e, Done(f))
           \/ CallPeer(f, e, GoTo(f, "store"))
    PROVE  HandsTyped' /\ CallsTyped'
<1>1. CASE dial = "on"
  <2>1. Record(f, e) /\ GoTo(f, "calling")
    BY <1>1 DEF CallPeer
  <2> QED BY <2>1, RecordTyped, MovesTyped DEF Places
<1>2. CASE dial # "on"
  <2>1. UNCHANGED calls /\ (Done(f) \/ GoTo(f, "store"))
    BY <1>2 DEF CallPeer
  <2> QED BY <2>1, CallsSameTyped, MovesTyped DEF Places
<1> QED BY <1>1, <1>2

LEMMA FlowNames == {"rfcomm", "bt", "rpc", "hostapd", "ui"} = Flows
BY DEF Flows

\* An event from outside has a kind of its flow.
LEMMA OfferTyped ==
    ASSUME TypeOK, NEW f \in Flows, NEW kind \in KindsOf[f],
           NEW d \in Devices \cup {None}, Offer(f, kind, d)
    PROVE  TypeOK'
<1> DEFINE e == Event(kind, d, offered[f] + 1)
<1>1. e \in Events /\ e.kind \in KindsOf[f]
  BY KindsAreKinds DEF Event, Events, TypeOK
<1>2. FlowsTyped'
  BY <1>1, EmitTyped DEF Offer
<1>3. HandsTyped' /\ StartTyped' /\ BluetoothTyped'
  BY HandsSameTyped, StartSameTyped, BluetoothSameTyped DEF Offer
<1>4. CallsTyped'
  <2>1. offered' = [offered EXCEPT ![f] = offered[f] + 1] /\ calls' = calls
    BY DEF Offer
  <2> QED BY <2>1 DEF TypeOK, CallsTyped
<1> QED BY <1>2, <1>3, <1>4, TypePartsPrime

THEOREM RuntimeTypeCorrect == Spec => []TypeOK
<1>1. Init => TypeOK
  <2> SUFFICES ASSUME Init PROVE TypeOK
    OBVIOUS
  <2>1. FlowsTyped
    BY CapacityAssumption DEF Init, FlowsTyped
  <2>2. HandsTyped
    BY DEF Init, HandsTyped, Places
  <2>3. StartTyped
    <3>1. listener \in BOOLEAN
      BY Zenon DEF Init
    <3>2. bound \in 0..4
      BY DEF Init
    <3> QED BY <3>1, <3>2 DEF Init, StartTyped
  <2>4. BluetoothTyped
    BY DEF Init, BluetoothTyped
  <2>5. CallsTyped
    BY DEF Init, CallsTyped
  <2> QED BY <2>1, <2>2, <2>3, <2>4, <2>5, TypeParts
<1>2. TypeOK /\ [Next]_vars => TypeOK'
  <2> SUFFICES ASSUME TypeOK, [Next]_vars PROVE TypeOK'
    OBVIOUS
  <2> USE FlowNames
  <2>1. CASE Start \/ \E f \in Flows : Subscribe(f)
    <3>1. FlowsTyped' /\ HandsTyped' /\ BluetoothTyped' /\ CallsTyped'
      BY <2>1, FlowsSameTyped, HandsSameTyped, BluetoothSameTyped, CallsSameTyped
      DEF Start, StartDial, RegisterRpcMethods, BindService, Subscribe
    <3>2. StartTyped'
      BY <2>1 DEF TypeOK, StartTyped, startVars, sessionVars, Start, StartDial,
                  RegisterRpcMethods, BindService, Subscribe
    <3> QED BY <3>1, <3>2, TypePartsPrime
  <2>2. CASE \E f \in Flows : Take(f)
    BY <2>2, TakeTyped
  <2>3. CASE \E f \in Flows : CallReturns(f) \/ Ignore(f)
    <3>1. PICK f \in Flows : CallReturns(f) \/ Ignore(f)
      BY <2>3
    <3>2. HandsTyped'
      BY <3>1, MovesTyped DEF CallReturns, Ignore, Places
    <3> QED BY <3>1, <3>2, FlowsSameTyped, StartSameTyped, BluetoothSameTyped,
               CallsSameTyped, TypePartsPrime DEF CallReturns, Ignore
  <2>4. CASE StartLink
    <3>1. Event("link", hand["bt"].device, 0) \in Calls /\ at["bt"] # "idle"
      BY <2>4 DEF StartLink, Handles, Event, Calls, Deeds, TypeOK, Events
    <3>2. HandsTyped' /\ CallsTyped'
      BY <2>4, <3>1, CallPeerTyped DEF StartLink
    <3> QED BY <2>4, <3>2, FlowsSameTyped, StartSameTyped, BluetoothSameTyped,
               TypePartsPrime DEF StartLink
  <2>5. CASE StoreDevice \/ LaunchRfcomm
    <3>1. BluetoothTyped'
      BY <2>5 DEF StoreDevice, LaunchRfcomm, TypeOK, BluetoothTyped, Events
    <3>2. HandsTyped'
      BY <2>5, MovesTyped DEF StoreDevice, LaunchRfcomm, Places
    <3> QED BY <2>5, <3>1, <3>2, FlowsSameTyped, StartSameTyped, CallsSameTyped,
               TypePartsPrime DEF StoreDevice, LaunchRfcomm
  <2>6. CASE ForwardPacket \/ TouchScreen \/ CallSession
    <3>1. PICK f \in {"bt", "ui", "hostapd"} :
             /\ at[f] # "idle"
             /\ hand[f].kind \in {"packet", "touch", "configuration"}
             /\ CallPeer(f, hand[f], Done(f))
             /\ UNCHANGED <<startVars, sessionVars, btVars, flowVars, offered>>
      BY <2>6 DEF ForwardPacket, TouchScreen, CallSession, Handles
    <3>2. hand[f] \in Calls
      BY <3>1 DEF TypeOK, Events, Calls, Deeds
    <3>3. HandsTyped' /\ CallsTyped'
      BY <3>1, <3>2, CallPeerTyped
    <3> QED BY <3>1, <3>3, FlowsSameTyped, StartSameTyped, BluetoothSameTyped, TypePartsPrime
  <2>7. CASE RelayPacket
    <3>1. hand["rfcomm"] \in Events /\ hand["rfcomm"].kind \in KindsOf["bt"]
      BY <2>7 DEF RelayPacket, Handles, TypeOK, KindsOf
    <3>2. FlowsTyped' /\ HandsTyped'
      BY <2>7, <3>1, EmitTyped, MovesTyped DEF RelayPacket
    <3> QED BY <2>7, <3>2, StartSameTyped, BluetoothSameTyped, CallsSameTyped,
               TypePartsPrime DEF RelayPacket
  <2>8. CASE ReadDevice
    <3>1. BluetoothTyped'
      BY <2>8 DEF ReadDevice, TypeOK, BluetoothTyped
    <3>2. HandsTyped'
      BY <2>8, MovesTyped DEF ReadDevice, Handles, Places
    <3> QED BY <2>8, <3>1, <3>2, FlowsSameTyped, StartSameTyped, CallsSameTyped,
               TypePartsPrime DEF ReadDevice
  <2>9. CASE \/ WriteReply \/ StopRfcomm \/ ConfigureHostapd \/ StartActivity
             \/ \E p \in Profiles : DisableProfile(p)
    <3>1. HandsTyped'
      BY <2>9, MovesTyped DEF WriteReply, StopRfcomm, ConfigureHostapd, StartActivity,
             DisableProfile, Handles, Places, Profiles, ProfileAfter
    <3>2. /\ UNCHANGED <<startVars, sessionVars, btVars, flowVars, offered>>
          /\ UNCHANGED calls \/ \E e \in Calls : Record("rpc", e)
      <4>1. CASE WriteReply
        BY <4>1 DEF WriteReply, Handles, TypeOK, Events, Calls, Deeds, Event
      <4>2. CASE StopRfcomm \/ ConfigureHostapd \/ StartActivity
        BY <4>2 DEF StopRfcomm, ConfigureHostapd, StartActivity, TypeOK, Calls, Deeds, Event
      <4>3. CASE \E p \in Profiles : DisableProfile(p)
        <5>1. PICK p \in Profiles : DisableProfile(p)
          BY <4>3
        <5>2. hand["rpc"].device \in Devices \cup {None}
          BY <5>1 DEF DisableProfile, TypeOK, Events, Profiles, ProfileAfter
        <5>3. Event(p, hand["rpc"].device, 0) \in Calls
          BY <5>2 DEF Event, Calls, Deeds
        <5> QED BY <5>1, <5>3 DEF DisableProfile
      <4> QED BY <2>9, <4>1, <4>2, <4>3
    <3>3. CallsTyped'
      BY <3>2, CallsSameTyped, RecordTyped
    <3> QED BY <3>1, <3>2, <3>3, FlowsSameTyped, StartSameTyped, BluetoothSameTyped, TypePartsPrime
  <2>10. CASE InitPullListener \/ RegisterScreenMethods
    <3>1. StartTyped'
      BY <2>10 DEF InitPullListener, RegisterScreenMethods, TypeOK, StartTyped, startVars
    <3>2. HandsTyped'
      BY <2>10, MovesTyped DEF InitPullListener, RegisterScreenMethods, Handles, Places
    <3> QED BY <2>10, <3>1, <3>2, FlowsSameTyped, BluetoothSameTyped, CallsSameTyped,
               TypePartsPrime DEF InitPullListener, RegisterScreenMethods
  <2>11. CASE \E d \in Devices : ChannelConnects(d) \/ ChannelGone(d)
    <3>1. BluetoothTyped'
      BY <2>11 DEF ChannelConnects, ChannelGone, TypeOK, BluetoothTyped
    <3> QED BY <2>11, <3>1, FlowsSameTyped, HandsSameTyped, StartSameTyped, CallsSameTyped,
               TypePartsPrime DEF ChannelConnects, ChannelGone
  <2>12. CASE \/ PeerRequest \/ FormatChange \/ HostapdEvent \/ UserTouches
              \/ \E d \in Devices : Broadcast(d) \/ ReadPacket(d)
    <3>1. \E f \in Flows : \E kind \in KindsOf[f], d \in Devices \cup {None} : Offer(f, kind, d)
      BY <2>12 DEF PeerRequest, FormatChange, HostapdEvent, UserTouches, Broadcast,
                   ReadPacket, KindsOf
    <3> QED BY <3>1, OfferTyped
  <2>13. CASE UNCHANGED vars
    BY <2>13, FlowsSameTyped, HandsSameTyped, StartSameTyped, BluetoothSameTyped,
       CallsSameTyped, TypePartsPrime DEF vars
  <2> QED
    BY <2>1, <2>2, <2>3, <2>4, <2>5, <2>6, <2>7, <2>8, <2>9, <2>10, <2>11, <2>12, <2>13
    DEF Next, World, BtCollector, Relay, RpcCollector, HostapdCollector, UiCollector
<1> QED BY <1>1, <1>2, PTL DEF Spec

-----------------------------------------------------------------------------
(* The link comes before all traffic. *)

\* What a step may do to the dial and to what was done: nothing is taken back.
LEMMA NothingTakenBack ==
    ASSUME TypeOK, [Next]_vars
    PROVE  /\ dial' # dial => dial = "new"
           /\ UNCHANGED calls \/ \E f \in Flows, e \in Calls : Record(f, e)
<1> USE FlowNames
<1>1. CASE Start \/ \E f \in Flows : Subscribe(f)
  BY <1>1 DEF Start, StartDial, RegisterRpcMethods, BindService, Subscribe, startVars
<1>2. CASE \/ \E f \in Flows : Take(f) \/ CallReturns(f) \/ Ignore(f)
           \/ StoreDevice \/ LaunchRfcomm \/ RelayPacket \/ ReadDevice
           \/ InitPullListener \/ RegisterScreenMethods
           \/ \E d \in Devices : ChannelConnects(d) \/ ChannelGone(d)
  BY <1>2 DEF Take, CallReturns, Ignore, StoreDevice, LaunchRfcomm, RelayPacket, ReadDevice,
     InitPullListener, RegisterScreenMethods, ChannelConnects, ChannelGone, startVars
<1>3. CASE World
  <2>1. \/ \E f \in Flows : \E kind, d : Offer(f, kind, d)
        \/ \E d \in Devices : ChannelConnects(d) \/ ChannelGone(d)
    BY <1>3 DEF World, PeerRequest, FormatChange, HostapdEvent, UserTouches, Broadcast, ReadPacket
  <2> QED BY <2>1 DEF Offer, ChannelConnects, ChannelGone, startVars
<1>4. CASE StartLink
  <2>1. Event("link", hand["bt"].device, 0) \in Calls
    BY <1>4 DEF StartLink, Handles, Event, Calls, Deeds, TypeOK, Events
  <2> QED BY <1>4, <2>1 DEF StartLink, CallPeer, startVars
<1>5. CASE ForwardPacket \/ TouchScreen \/ CallSession
  <2>1. PICK f \in {"bt", "ui", "hostapd"} :
           /\ at[f] # "idle"
           /\ hand[f].kind \in {"packet", "touch", "configuration"}
           /\ CallPeer(f, hand[f], Done(f))
           /\ UNCHANGED startVars
    BY <1>5 DEF ForwardPacket, TouchScreen, CallSession, Handles
  <2>2. hand[f] \in Calls
    BY <2>1 DEF TypeOK, Events, Calls, Deeds
  <2> QED BY <2>1, <2>2 DEF CallPeer, startVars
<1>6. CASE WriteReply \/ StopRfcomm \/ ConfigureHostapd \/ StartActivity
  <2>1. /\ hand["rpc"] \in Events
        /\ \/ UNCHANGED calls
           \/ Record("rpc", Event("reply", target, hand["rpc"].n))
           \/ Record("rpc", Event("stop", target, 0))
           \/ Record("rpc", Event("configure", None, 0))
           \/ Record("rpc", Event("activity", None, 0))
    BY <1>6 DEF WriteReply, StopRfcomm, ConfigureHostapd, StartActivity, Handles, TypeOK
  <2>2. UNCHANGED dial
    BY <1>6 DEF WriteReply, StopRfcomm, ConfigureHostapd, StartActivity, startVars
  <2>3. /\ Event("reply", target, hand["rpc"].n) \in Calls
        /\ Event("stop", target, 0) \in Calls
        /\ Event("configure", None, 0) \in Calls
        /\ Event("activity", None, 0) \in Calls
    BY <2>1 DEF Event, Calls, Deeds, TypeOK, Events
  <2> QED BY <2>1, <2>2, <2>3
<1>7. CASE \E p \in Profiles : DisableProfile(p)
  <2>1. PICK p \in Profiles : DisableProfile(p)
    BY <1>7
  <2>2. hand["rpc"].device \in Devices \cup {None}
    BY <2>1 DEF DisableProfile, TypeOK, Events, Profiles, ProfileAfter
  <2>3. Event(p, hand["rpc"].device, 0) \in Calls
    BY <2>2 DEF Event, Calls, Deeds
  <2> QED BY <2>1, <2>3 DEF DisableProfile, startVars
<1>8. CASE UNCHANGED vars
  BY <1>8 DEF vars, startVars
<1> QED
  BY <1>1, <1>2, <1>3, <1>4, <1>5, <1>6, <1>7, <1>8
  DEF Next, BtCollector, Relay, RpcCollector, HostapdCollector, UiCollector

LEMMA DoneStaysDone ==
    ASSUME TypeOK, [Next]_vars
    PROVE  /\ \A f, kind, d : Did(f, kind, d) => Did(f, kind, d)'
           /\ \A d : Linked(d) => Linked(d)'
<1>1. \A f, kind, d : Did(f, kind, d) => Did(f, kind, d)'
  <2>1. CASE UNCHANGED calls
    BY <2>1 DEF Did
  <2>2. CASE \E f \in Flows, e \in Calls : Record(f, e)
    <3>1. PICK f \in Flows, e \in Calls : Record(f, e)
      BY <2>2
    <3>2. \A i \in DOMAIN calls[f] : i \in DOMAIN calls'[f] /\ calls'[f][i] = calls[f][i]
      <4>1. calls' = [calls EXCEPT ![f] = Append(calls[f], e)] /\ calls[f] \in Seq(Calls)
        BY <3>1 DEF Record, TypeOK
      <4>2. \A i \in DOMAIN calls[f] :
              i \in DOMAIN Append(calls[f], e) /\ Append(calls[f], e)[i] = calls[f][i]
        BY <4>1
      <4> QED BY <4>1, <4>2 DEF TypeOK
    <3>3. \A g : g # f => calls'[g] = calls[g]
      BY <3>1 DEF Record, TypeOK
    <3> QED BY <3>2, <3>3 DEF Did
  <2> QED BY <2>1, <2>2, NothingTakenBack
<1>2. dial = "failed" => dial' = "failed"
  BY NothingTakenBack
<1> QED BY <1>1, <1>2 DEF Linked

\* The parts of the invariant that a step leaves alone.
LEMMA LinkSame ==
    ASSUME TypeOK, [Next]_vars, LinkInv
    PROVE  /\ UNCHANGED <<at["bt"], hand["bt"]>> => BondLinked'
           /\ UNCHANGED rfcomm => RfcommLinked'
           /\ UNCHANGED <<buffer, hand, at>> => PacketsLinked'
           /\ UNCHANGED calls => LinkBeforeTraffic'
<1> USE DoneStaysDone DEF LinkInv
<1>1. UNCHANGED <<at["bt"], hand["bt"]>> => BondLinked'
  BY DEF BondLinked
<1>2. UNCHANGED rfcomm => RfcommLinked'
  BY DEF RfcommLinked
<1>3. UNCHANGED <<buffer, hand, at>> => PacketsLinked'
  BY DEF PacketsLinked
<1>4. UNCHANGED calls => LinkBeforeTraffic'
  BY DEF LinkBeforeTraffic, Did
<1> QED BY <1>1, <1>2, <1>3, <1>4

\* A collector other than that of the Bluetooth flow goes on.
LEMMA OtherMoves ==
    ASSUME TypeOK, NEW f \in Flows, f # "bt",
           Done(f) \/ \E place \in Places \ {"idle"} : GoTo(f, place)
    PROVE  UNCHANGED <<at["bt"], hand["bt"]>>
BY FlowNames DEF TypeOK, Done, GoTo

\* Handlers that go on, or end, without a new event in the flows.
LEMMA MovesKeepPackets ==
    ASSUME TypeOK, [Next]_vars, LinkInv, UNCHANGED buffer, NEW f \in Flows,
           \/ Done(f)
           \/ at[f] # "idle" /\ \E place \in Places \ {"idle"} : GoTo(f, place)
    PROVE  /\ PacketsLinked'
           /\ (dial = "on" => dial' = "on") => RepliesNeedDial'
<1>1. \A g \in Flows : at'[g] # "idle" => at[g] # "idle" /\ hand'[g] = hand[g]
  BY DEF TypeOK, Done, GoTo
<1>2. PacketsLinked'
  BY <1>1, DoneStaysDone, FlowNames DEF LinkInv, PacketsLinked
<1>3. (dial = "on" => dial' = "on") => RepliesNeedDial'
  BY <1>1, FlowNames DEF LinkInv, RepliesNeedDial
<1> QED BY <1>2, <1>3

\* A new event, if it is a packet, is a packet of a linked device, and if it is
\* a reply it came by a dial that runs.
LEMMA EmitKeepsPackets ==
    ASSUME TypeOK, [Next]_vars, LinkInv, NEW f \in Flows, NEW e \in Events,
           e.kind \in KindsOf[f], Emit(f, e), UNCHANGED dial,
           \A g \in Flows : at'[g] # "idle" => at[g] # "idle" /\ hand'[g] = hand[g],
           e.kind = "packet" => Linked(e.device),
           e.kind = "reply" => dial = "on"
    PROVE  PacketsLinked' /\ RepliesNeedDial'
<1>1. \A g \in Flows : \A i \in DOMAIN buffer'[g] :
         buffer'[g][i] = e \/ \E j \in DOMAIN buffer[g] : buffer'[g][i] = buffer[g][j]
  BY EmitKeepsFlows
<1>2. PacketsLinked'
  BY <1>1, DoneStaysDone, FlowNames DEF LinkInv, PacketsLinked
<1>3. RepliesNeedDial'
  BY <1>1, FlowNames DEF LinkInv, RepliesNeedDial
<1> QED BY <1>2, <1>3

LEMMA TakeKeepsPackets ==
    ASSUME TypeOK, [Next]_vars, LinkInv, NEW f \in Flows, Take(f)
    PROVE  PacketsLinked' /\ RepliesNeedDial' /\ BondLinked'
<1>1. \A g \in Flows : \A i \in DOMAIN buffer'[g] :
         \E j \in DOMAIN buffer[g] : buffer'[g][i] = buffer[g][j]
  BY TakeKeepsFlows
<1>2. /\ hand' = [hand EXCEPT ![f] = buffer[f][1]] /\ 1 \in DOMAIN buffer[f]
      /\ at' = [at EXCEPT ![f] = "handle"]
      /\ UNCHANGED dial
  BY TakeKeepsFlows DEF Take, startVars
<1>3. \A g \in Flows : at'[g] # "idle" =>
         \/ at[g] # "idle" /\ hand'[g] = hand[g]
         \/ 1 \in DOMAIN buffer[g] /\ hand'[g] = buffer[g][1]
  BY <1>2 DEF TypeOK
<1>4. PacketsLinked'
  BY <1>1, <1>3, DoneStaysDone, FlowNames DEF LinkInv, PacketsLinked
<1>5. RepliesNeedDial'
  BY <1>1, <1>2, <1>3, FlowNames DEF LinkInv, RepliesNeedDial
<1>6. BondLinked'
  BY <1>2, DoneStaysDone, FlowNames DEF LinkInv, BondLinked, TypeOK
<1> QED BY <1>4, <1>5, <1>6

\* What is done that is not traffic keeps traffic behind the link.
LEMMA RecordKeepsTraffic ==
    ASSUME TypeOK, [Next]_vars, LinkInv, NEW f \in Flows, NEW e \in Calls, Record(f, e),
           f = "bt" /\ e.kind = "packet" => Did("bt", "link", e.device),
           f = "rpc" /\ e.kind = "reply" /\ e.device \in Devices
              => Did("bt", "link", e.device)
    PROVE  LinkBeforeTraffic'
<1> SUFFICES ASSUME NEW d \in Devices, Did("bt", "packet", d)' \/ Did("rpc", "reply", d)'
             PROVE  Did("bt", "link", d)'
  BY DEF LinkBeforeTraffic
<1>1. \/ Did("bt", "packet", d) \/ Did("rpc", "reply", d)
      \/ f = "bt" /\ e.kind = "packet" /\ e.device = d
      \/ f = "rpc" /\ e.kind = "reply" /\ e.device = d
  <2>1. \A g \in Flows : \A kind : Did(g, kind, d)' =>
           Did(g, kind, d) \/ (g = f /\ e.kind = kind /\ e.device = d)
    BY RecordKeeps
  <2>2. "bt" \in Flows /\ "rpc" \in Flows
    BY FlowNames
  <2> QED BY <2>1, <2>2, Zenon
<1>2. Did("bt", "link", d)
  BY <1>1 DEF LinkInv, LinkBeforeTraffic
<1> QED BY <1>2, DoneStaysDone

\* What the RPC collector does with the events it knows, and what the world offers.
RpcActs ==
    \/ WriteReply \/ StopRfcomm \/ ConfigureHostapd \/ StartActivity
    \/ \E p \in Profiles : DisableProfile(p)

Offers ==
    \/ PeerRequest \/ FormatChange \/ HostapdEvent \/ UserTouches
    \/ \E d \in Devices : Broadcast(d) \/ ReadPacket(d)

LEMMA RpcActsMove ==
    ASSUME TypeOK, RpcActs
    PROVE  /\ at["rpc"] # "idle"
           /\ Done("rpc") \/ \E place \in Places \ {"idle"} : GoTo("rpc", place)
           /\ UNCHANGED <<bound, dial, methods, subscribed, rfcomm, buffer>>
<1>1. CASE WriteReply \/ StopRfcomm \/ ConfigureHostapd \/ StartActivity
  BY <1>1 DEF WriteReply, StopRfcomm, ConfigureHostapd, StartActivity, Handles, Places,
              startVars, sessionVars, btVars, flowVars, Profiles, ProfileAfter
<1>2. CASE \E p \in Profiles : DisableProfile(p)
  BY <1>2 DEF DisableProfile, Places, Profiles, ProfileAfter,
              startVars, sessionVars, btVars, flowVars
<1> QED BY <1>1, <1>2 DEF RpcActs

\* Only what the peer sent for a device is written, and only to a channel that is up.
LEMMA RpcActsRecord ==
    ASSUME TypeOK, RpcActs, ~UNCHANGED calls
    PROVE  \E e \in Calls :
              /\ Record("rpc", e)
              /\ e.kind = "reply" => hand["rpc"].kind = "reply" /\ rfcomm[e.device] = "up"
<1>1. CASE WriteReply
  <2> DEFINE e == Event("reply", target, hand["rpc"].n)
  <2>1. /\ Record("rpc", e) /\ hand["rpc"].kind = "reply" /\ rfcomm[target] = "up"
        /\ hand["rpc"] \in Events
    BY <1>1, FlowNames DEF WriteReply, Handles, TypeOK
  <2>2. e \in Calls /\ e.device = target
    BY <2>1 DEF Event, Calls, Deeds, TypeOK, Events
  <2> QED BY <2>1, <2>2
<1>2. CASE StopRfcomm \/ ConfigureHostapd \/ StartActivity
  <2>1. PICK e \in {Event("stop", target, 0), Event("configure", None, 0),
                    Event("activity", None, 0)} : Record("rpc", e)
    BY <1>2 DEF StopRfcomm, ConfigureHostapd, StartActivity
  <2>2. e \in Calls /\ e.kind # "reply"
    BY <2>1 DEF Event, Calls, Deeds, TypeOK
  <2> QED BY <2>1, <2>2
<1>3. CASE \E p \in Profiles : DisableProfile(p)
  <2>1. PICK p \in Profiles : DisableProfile(p)
    BY <1>3
  <2> DEFINE e == Event(p, hand["rpc"].device, 0)
  <2>2. hand["rpc"].device \in Devices \cup {None}
    BY <2>1, FlowNames DEF DisableProfile, TypeOK, Events, Profiles, ProfileAfter
  <2>3. e \in Calls /\ e.kind # "reply"
    BY <2>2 DEF Event, Calls, Deeds, Profiles, ProfileAfter
  <2> QED BY <2>1, <2>3 DEF DisableProfile
<1> QED BY <1>1, <1>2, <1>3 DEF RpcActs

\* A packet is read from a channel that is up; a reply comes by a dial that runs.
LEMMA OffersOffer ==
    ASSUME TypeOK, LinkInv, Offers
    PROVE  \E f \in Flows : \E kind \in KindsOf[f], d \in Devices \cup {None} :
              /\ Offer(f, kind, d)
              /\ kind = "packet" => Linked(d)
              /\ kind = "reply" => dial = "on"
<1> USE FlowNames DEF KindsOf
<1>1. CASE PeerRequest
  <2>1. dial = "on" /\ \E kind \in KindsOf["rpc"], d \in Devices \cup {None} :
           Offer("rpc", kind, d)
    BY <1>1 DEF PeerRequest
  <2> QED BY <2>1
<1>2. CASE FormatChange
  BY <1>2 DEF FormatChange
<1>3. CASE HostapdEvent
  BY <1>3 DEF HostapdEvent
<1>4. CASE UserTouches
  BY <1>4 DEF UserTouches
<1>5. CASE \E d \in Devices : Broadcast(d)
  <2>1. PICK d \in Devices : Offer("bt", "bonded", d) \/ Offer("bt", "other", None)
    BY <1>5 DEF Broadcast
  <2> QED BY <2>1
<1>6. CASE \E d \in Devices : ReadPacket(d)
  <2>1. PICK d \in Devices : Offer("rfcomm", "packet", d) /\ Linked(d)
    BY <1>6 DEF ReadPacket, LinkInv, RfcommLinked
  <2> QED BY <2>1
<1> QED BY <1>1, <1>2, <1>3, <1>4, <1>5, <1>6 DEF Offers

LEMMA LinkInvStep == TypeOK /\ TypeOK' /\ LinkInv /\ [Next]_vars => LinkInv'
<1> SUFFICES ASSUME TypeOK, TypeOK', LinkInv, [Next]_vars PROVE LinkInv'
  OBVIOUS
<1> USE FlowNames
<1>1. CASE Start \/ \E f \in Flows : Subscribe(f)
  <2>1. UNCHANGED <<at, hand, buffer, rfcomm, calls>>
    BY <1>1 DEF Start, StartDial, RegisterRpcMethods, BindService, Subscribe,
                flowVars, coVars, btVars
  <2>2. StartOrder'
    BY <1>1, <2>1 DEF Start, StartDial, RegisterRpcMethods, BindService, Subscribe, startVars,
                      sessionVars, LinkInv, StartOrder, TypeOK, RpcMethods
  <2>3. RepliesNeedDial'
    BY <2>1, NothingTakenBack DEF LinkInv, RepliesNeedDial
  <2> QED BY <2>1, <2>2, <2>3, LinkSame DEF LinkInv
<1>2. CASE \E f \in Flows : Take(f)
  <2>1. PICK f \in Flows : Take(f)
    BY <1>2
  <2>2. UNCHANGED <<bound, dial, methods, subscribed, rfcomm, calls>>
    BY <2>1 DEF Take, startVars, sessionVars, btVars
  <2>3. StartOrder'
    BY <2>1, <2>2 DEF Take, LinkInv, StartOrder, TypeOK
  <2> QED BY <2>1, <2>2, <2>3, LinkSame, TakeKeepsPackets DEF LinkInv
<1>3. CASE \E f \in Flows : CallReturns(f) \/ Ignore(f)
  <2>1. PICK f \in Flows : CallReturns(f) \/ Ignore(f)
    BY <1>3
  <2>2. UNCHANGED <<bound, dial, methods, subscribed, rfcomm, calls, buffer>>
    BY <2>1 DEF CallReturns, Ignore, startVars, sessionVars, btVars, flowVars
  <2>3. at[f] # "idle" /\ (Done(f) \/ \E place \in Places \ {"idle"} : GoTo(f, place))
    BY <2>1 DEF CallReturns, Ignore, Handles, Places
  <2>4. StartOrder'
    BY <2>2, <2>3 DEF Done, GoTo, LinkInv, StartOrder, TypeOK
  <2>5. BondLinked'
    <3>1. CASE f = "bt"
      BY <2>1, <2>2, <3>1, DoneStaysDone
      DEF CallReturns, Ignore, Handles, Done, GoTo, LinkInv, BondLinked, TypeOK
    <3>2. CASE f # "bt"
      BY <2>3, <3>2, OtherMoves, LinkSame
    <3> QED BY <3>1, <3>2
  <2> QED BY <2>2, <2>3, <2>4, <2>5, LinkSame, MovesKeepPackets DEF LinkInv
<1>4. CASE StartLink
  <2> DEFINE e == Event("link", hand["bt"].device, 0)
  <2>1. /\ at["bt"] = "handle" /\ hand["bt"].kind = "bonded"
        /\ CallPeer("bt", e, GoTo("bt", "store"))
        /\ UNCHANGED <<bound, dial, methods, subscribed, rfcomm, buffer>>
        /\ e \in Calls
    BY <1>4 DEF StartLink, Handles, startVars, sessionVars, btVars, flowVars,
                Event, Calls, Deeds, TypeOK, Events
  <2>2. dial # "new"
    <3>1. "bt" \in subscribed
      BY <2>1 DEF LinkInv, StartOrder
    <3>2. bound = 4
      BY <3>1 DEF LinkInv, StartOrder
    <3> QED BY <3>2 DEF LinkInv, StartOrder
  <2>3. \/ dial = "on" /\ Record("bt", e) /\ GoTo("bt", "calling")
        \/ dial = "failed" /\ UNCHANGED calls /\ GoTo("bt", "store")
    BY <2>1, <2>2 DEF CallPeer, TypeOK
  <2>4. Linked(hand["bt"].device)'
    <3>1. CASE dial = "on"
      <4>1. hand'["bt"] = hand["bt"]
        BY <2>3, <3>1 DEF GoTo
      <4>2. Did("bt", "link", hand["bt"].device)'
        <5> DEFINE d == hand["bt"].device
        <5>1. \A x : x = d => Did("bt", "link", x)'
          BY <2>1, <2>3, <3>1, RecordKeeps DEF Event
        <5> QED BY <5>1, <4>1
      <4> QED BY <4>2 DEF Linked
    <3>2. CASE dial = "failed"
      BY <2>1, <3>2 DEF Linked
    <3> QED BY <2>3, <3>1, <3>2
  <2>5. BondLinked'
    BY <2>1, <2>3, <2>4 DEF GoTo, BondLinked, TypeOK
  <2>6. StartOrder'
    BY <2>1, <2>3 DEF GoTo, LinkInv, StartOrder, TypeOK
  <2>7. LinkBeforeTraffic'
    BY <2>1, <2>3, RecordKeepsTraffic, LinkSame DEF Event
  <2>8. at["bt"] # "idle" /\ \E place \in Places \ {"idle"} : GoTo("bt", place)
    BY <2>1, <2>3 DEF Places
  <2>9. PacketsLinked' /\ RepliesNeedDial'
    BY <2>1, <2>8, MovesKeepPackets
  <2>10. RfcommLinked'
    BY <2>1, LinkSame
  <2> QED BY <2>5, <2>6, <2>7, <2>9, <2>10 DEF LinkInv

<1>5. CASE StoreDevice \/ LaunchRfcomm
  <2>1. /\ at["bt"] \in {"store", "launch"}
        /\ Done("bt") \/ GoTo("bt", "launch")
        /\ UNCHANGED <<bound, dial, methods, subscribed, calls, buffer>>
    BY <1>5 DEF StoreDevice, LaunchRfcomm, startVars, sessionVars, flowVars
  <2>2. StartOrder'
    BY <2>1 DEF Done, GoTo, LinkInv, StartOrder, TypeOK
  <2>3. BondLinked'
    BY <2>1, DoneStaysDone DEF Done, GoTo, LinkInv, BondLinked, TypeOK
  <2>4. Linked(hand["bt"].device)
    BY <2>1 DEF LinkInv, BondLinked
  <2>5. \A d \in Devices : rfcomm'[d] # "off" => rfcomm[d] # "off" \/ d = hand["bt"].device
    BY <1>5 DEF StoreDevice, LaunchRfcomm, TypeOK
  <2>6. RfcommLinked'
    BY <2>4, <2>5, DoneStaysDone DEF LinkInv, RfcommLinked
  <2>7. PacketsLinked' /\ RepliesNeedDial'
    BY <2>1, MovesKeepPackets DEF Places
  <2>8. LinkBeforeTraffic'
    BY <2>1, LinkSame
  <2> QED BY <2>2, <2>3, <2>6, <2>7, <2>8 DEF LinkInv
<1>6. CASE ForwardPacket \/ TouchScreen \/ CallSession
  <2>1. PICK f \in {"bt", "ui", "hostapd"} :
           /\ at[f] # "idle"
           /\ hand[f].kind \in {"packet", "touch", "configuration"}
           /\ CallPeer(f, hand[f], Done(f))
           /\ UNCHANGED <<bound, dial, methods, subscribed, rfcomm, buffer>>
    BY <1>6 DEF ForwardPacket, TouchScreen, CallSession, Handles,
                startVars, sessionVars, btVars, flowVars
  <2>2. hand[f] \in Calls
    BY <2>1 DEF TypeOK, Events, Calls, Deeds
  <2>3. \/ dial = "on" /\ Record(f, hand[f]) /\ GoTo(f, "calling")
        \/ UNCHANGED calls /\ Done(f)
    BY <2>1 DEF CallPeer
  <2>4. StartOrder'
    BY <2>1, <2>3 DEF Done, GoTo, LinkInv, StartOrder, TypeOK
  <2>5. BondLinked'
    <3>1. CASE f = "bt"
      BY <2>1, <2>3, <3>1 DEF Done, GoTo, BondLinked, TypeOK
    <3>2. CASE f # "bt"
      <4>1. UNCHANGED <<at["bt"], hand["bt"]>>
        BY <2>3, <3>2 DEF Done, GoTo, TypeOK
      <4> QED BY <4>1, LinkSame
    <3> QED BY <3>1, <3>2
  <2>6. RfcommLinked'
    BY <2>1, LinkSame
  <2>7. PacketsLinked' /\ RepliesNeedDial'
    <3>1. Done(f) \/ \E place \in Places \ {"idle"} : GoTo(f, place)
      BY <2>3 DEF Places
    <3> QED BY <2>1, <3>1, MovesKeepPackets
  <2>8. LinkBeforeTraffic'
    <3>1. CASE UNCHANGED calls
      BY <3>1, LinkSame
    <3>2. CASE dial = "on" /\ Record(f, hand[f])
      <4>1. f = "bt" /\ hand[f].kind = "packet" => Did("bt", "link", hand[f].device)
        BY <2>1, <3>2 DEF LinkInv, PacketsLinked, Linked
      <4>2. f # "rpc"
        BY <2>1
      <4> QED BY <2>1, <2>2, <3>2, <4>1, <4>2, RecordKeepsTraffic
    <3> QED BY <2>3, <3>1, <3>2
  <2> QED BY <2>4, <2>5, <2>6, <2>7, <2>8 DEF LinkInv
<1>7. CASE RelayPacket
  <2>1. /\ at["rfcomm"] # "idle" /\ hand["rfcomm"].kind = "packet"
        /\ Emit("bt", hand["rfcomm"]) /\ Done("rfcomm")
        /\ UNCHANGED <<bound, dial, methods, subscribed, rfcomm, calls>>
    BY <1>7 DEF RelayPacket, Handles, startVars, sessionVars, btVars
  <2>2. hand["rfcomm"] \in Events /\ hand["rfcomm"].kind \in KindsOf["bt"]
    BY <2>1 DEF TypeOK, KindsOf
  <2>3. Linked(hand["rfcomm"].device)
    BY <2>1 DEF LinkInv, PacketsLinked
  <2>4. StartOrder'
    BY <2>1 DEF Done, LinkInv, StartOrder, TypeOK
  <2>5. \A g \in Flows : at'[g] # "idle" => at[g] # "idle" /\ hand'[g] = hand[g]
    BY <2>1 DEF Done, TypeOK
  <2>6. PacketsLinked' /\ RepliesNeedDial'
    BY <2>1, <2>2, <2>3, <2>5, EmitKeepsPackets
  <2>7. BondLinked'
    BY <2>1, OtherMoves, LinkSame
  <2> QED BY <2>1, <2>4, <2>6, <2>7, LinkSame DEF LinkInv
<1>8. CASE ReadDevice \/ InitPullListener \/ RegisterScreenMethods
  <2>1. PICK f \in {"rpc", "hostapd"} :
           /\ at[f] # "idle"
           /\ Done(f) \/ \E place \in Places \ {"idle"} : GoTo(f, place)
           /\ UNCHANGED <<bound, dial, subscribed, rfcomm, calls, buffer>>
    BY <1>8 DEF ReadDevice, InitPullListener, RegisterScreenMethods, Handles, Places,
                startVars, btVars, flowVars
  <2>2. methods' = methods \/ (methods' = methods \cup ScreenMethods /\ at["hostapd"] # "idle")
    BY <1>8 DEF ReadDevice, InitPullListener, RegisterScreenMethods, sessionVars
  <2>3. StartOrder'
    <3>1. \A g \in Flows : at'[g] # "idle" => at[g] # "idle"
      BY <2>1 DEF Done, GoTo, TypeOK
    <3>2. at["hostapd"] # "idle" => bound = 4
      BY DEF LinkInv, StartOrder
    <3> QED BY <2>1, <2>2, <3>1, <3>2 DEF LinkInv, StartOrder, TypeOK
  <2>4. BondLinked'
    BY <2>1, OtherMoves, LinkSame
  <2>5. PacketsLinked' /\ RepliesNeedDial'
    BY <2>1, MovesKeepPackets
  <2>6. RfcommLinked' /\ LinkBeforeTraffic'
    BY <2>1, LinkSame
  <2> QED BY <2>3, <2>4, <2>5, <2>6 DEF LinkInv
<1>9. CASE RpcActs
  <2>1. /\ at["rpc"] # "idle"
        /\ Done("rpc") \/ \E place \in Places \ {"idle"} : GoTo("rpc", place)
        /\ UNCHANGED <<bound, dial, methods, subscribed, rfcomm, buffer>>
    BY <1>9, RpcActsMove
  <2>2. StartOrder'
    BY <2>1 DEF Done, GoTo, LinkInv, StartOrder, TypeOK
  <2>3. BondLinked'
    BY <2>1, OtherMoves, LinkSame
  <2>4. RfcommLinked'
    BY <2>1, LinkSame
  <2>5. PacketsLinked' /\ RepliesNeedDial'
    BY <2>1, MovesKeepPackets
  <2>6. CASE UNCHANGED calls
    BY <2>2, <2>3, <2>4, <2>5, <2>6, LinkSame DEF LinkInv
  <2>7. CASE ~UNCHANGED calls
    <3>1. PICK e \in Calls :
             /\ Record("rpc", e)
             /\ e.kind = "reply" => hand["rpc"].kind = "reply" /\ rfcomm[e.device] = "up"
      BY <1>9, <2>7, RpcActsRecord
    <3>2. e.kind = "reply" /\ e.device \in Devices => Did("bt", "link", e.device)
      <4>1. e.kind = "reply" => dial = "on"
        BY <2>1, <3>1 DEF LinkInv, RepliesNeedDial
      <4>2. e.kind = "reply" /\ e.device \in Devices => Linked(e.device)
        BY <3>1 DEF LinkInv, RfcommLinked
      <4> QED BY <4>1, <4>2 DEF Linked
    <3>3. LinkBeforeTraffic'
      BY <3>1, <3>2, RecordKeepsTraffic
    <3> QED BY <2>2, <2>3, <2>4, <2>5, <3>3 DEF LinkInv
  <2> QED BY <2>6, <2>7
<1>10. CASE \E d \in Devices : ChannelConnects(d) \/ ChannelGone(d)
  <2>1. UNCHANGED <<bound, dial, methods, subscribed, at, hand, buffer, calls>>
    BY <1>10 DEF ChannelConnects, ChannelGone, startVars, sessionVars, flowVars, coVars
  <2>2. \A d \in Devices : rfcomm'[d] # "off" => rfcomm[d] # "off"
    BY <1>10 DEF ChannelConnects, ChannelGone, TypeOK
  <2>3. StartOrder' /\ RepliesNeedDial'
    BY <2>1 DEF LinkInv, StartOrder, RepliesNeedDial
  <2>4. RfcommLinked'
    BY <2>2, DoneStaysDone DEF LinkInv, RfcommLinked
  <2>5. BondLinked' /\ PacketsLinked' /\ LinkBeforeTraffic'
    BY <2>1, LinkSame
  <2> QED BY <2>3, <2>4, <2>5 DEF LinkInv
<1>11. CASE Offers
  <2>0. PICK f \in Flows : \E kind \in KindsOf[f], d \in Devices \cup {None} :
           /\ Offer(f, kind, d)
           /\ kind = "packet" => Linked(d)
           /\ kind = "reply" => dial = "on"
    BY <1>11, OffersOffer
  <2>1. PICK kind \in KindsOf[f], d \in Devices \cup {None} :
           /\ Offer(f, kind, d)
           /\ kind = "packet" => Linked(d)
           /\ kind = "reply" => dial = "on"
    BY <2>0
  <2> DEFINE e == Event(kind, d, offered[f] + 1)
  <2>2. e \in Events /\ e.kind \in KindsOf[f] /\ e.kind = kind /\ e.device = d
    BY KindsAreKinds DEF Event, Events, TypeOK
  <2>3. Emit(f, e) /\ UNCHANGED <<bound, dial, methods, subscribed, rfcomm, at, hand, calls>>
    BY <2>1 DEF Offer, startVars, sessionVars, btVars, coVars
  <2>4. StartOrder'
    BY <2>3 DEF LinkInv, StartOrder
  <2>5. PacketsLinked' /\ RepliesNeedDial'
    BY <2>1, <2>2, <2>3, EmitKeepsPackets
  <2>6. BondLinked' /\ RfcommLinked' /\ LinkBeforeTraffic'
    BY <2>3, LinkSame
  <2> QED BY <2>4, <2>5, <2>6 DEF LinkInv
<1>12. CASE UNCHANGED vars
  <2>1. UNCHANGED <<bound, dial, methods, subscribed, rfcomm, at, hand, calls, buffer>>
    BY <1>12 DEF vars, startVars, sessionVars, btVars, coVars, flowVars
  <2>2. StartOrder' /\ RepliesNeedDial'
    BY <2>1 DEF LinkInv, StartOrder, RepliesNeedDial
  <2>3. BondLinked' /\ RfcommLinked' /\ PacketsLinked' /\ LinkBeforeTraffic'
    BY <2>1, LinkSame
  <2> QED BY <2>2, <2>3 DEF LinkInv
<1> QED
  BY <1>1, <1>2, <1>3, <1>4, <1>5, <1>6, <1>7, <1>8, <1>9, <1>10, <1>11, <1>12
  DEF Next, BtCollector, Relay, RpcCollector, HostapdCollector, UiCollector, World,
      RpcActs, Offers

\* No packet of a device reaches the peer, and no reply the device, before the
\* call that starts its link: the order in which the Bluetooth collector links and
\* then starts RFCOMM holds through the relay, both flows and the other collector.
THEOREM NoTrafficBeforeLink == Spec => []LinkBeforeTraffic
<1>1. Init => LinkInv
  BY FlowNames DEF Init, LinkInv, StartOrder, BondLinked, RfcommLinked, PacketsLinked,
                   RepliesNeedDial, LinkBeforeTraffic, Did
<1>2. LinkInv => LinkBeforeTraffic
  BY DEF LinkInv
<1> QED BY <1>1, <1>2, LinkInvStep, RuntimeTypeCorrect, PTL DEF Spec

\* A step either leaves the collector of hostapd's flow alone, or ends or begins
\* its handler, or is one of the three steps of a session start.
LEMMA SessionSteps ==
    ASSUME TypeOK, [Next]_vars
    PROVE  /\ methods \subseteq methods' /\ (listener => listener')
           /\ \/ UNCHANGED <<at["hostapd"], calls["hostapd"]>>
              \/ UNCHANGED calls /\ at'["hostapd"] \in {"idle", "handle", "store"}
              \/ InitPullListener \/ RegisterScreenMethods \/ CallSession
<1> USE FlowNames
<1>1. CASE Start \/ \E f \in Flows : Subscribe(f)
  BY <1>1 DEF Start, StartDial, RegisterRpcMethods, BindService, Subscribe, sessionVars, coVars
<1>2. CASE \E f \in Flows : Take(f) \/ CallReturns(f) \/ Ignore(f)
  <2>1. PICK f \in Flows : Take(f) \/ CallReturns(f) \/ Ignore(f)
    BY <1>2
  <2>2. UNCHANGED <<methods, listener, calls>>
    BY <2>1 DEF Take, CallReturns, Ignore, sessionVars
  <2>3. \E place \in {"idle", "handle", "store"} : at' = [at EXCEPT ![f] = place]
    BY <2>1 DEF Take, CallReturns, Ignore, Done, GoTo
  <2>4. at'["hostapd"] = at["hostapd"] \/ at'["hostapd"] \in {"idle", "handle", "store"}
    BY <2>3 DEF TypeOK
  <2> QED BY <2>2, <2>4
<1>3. CASE StartLink \/ ForwardPacket \/ TouchScreen
  <2>1. PICK f \in {"bt", "ui"} : \E e : CallPeer(f, e, Done(f)) \/ CallPeer(f, e, GoTo(f, "store"))
    BY <1>3 DEF StartLink, ForwardPacket, TouchScreen
  <2>2. UNCHANGED <<at["hostapd"], calls["hostapd"]>>
    BY <2>1 DEF CallPeer, Record, Done, GoTo, TypeOK
  <2>3. UNCHANGED <<methods, listener>>
    BY <1>3 DEF StartLink, ForwardPacket, TouchScreen, sessionVars
  <2> QED BY <2>2, <2>3
<1>4. CASE StoreDevice \/ LaunchRfcomm \/ RelayPacket \/ ReadDevice
  BY <1>4 DEF StoreDevice, LaunchRfcomm, RelayPacket, ReadDevice, Done, GoTo, sessionVars, TypeOK
<1>5. CASE RpcActs
  <2>1. UNCHANGED <<methods, listener>>
    BY <1>5 DEF RpcActs, WriteReply, StopRfcomm, ConfigureHostapd, StartActivity, DisableProfile,
                sessionVars
  <2>2. UNCHANGED at["hostapd"]
    BY <1>5, RpcActsMove DEF Done, GoTo, TypeOK
  <2>3. UNCHANGED calls["hostapd"]
    BY <1>5, RpcActsRecord DEF Record, TypeOK
  <2> QED BY <2>1, <2>2, <2>3
<1>6. CASE (\E d \in Devices : ChannelConnects(d) \/ ChannelGone(d)) \/ Offers
  <2>1. CASE \E d \in Devices : ChannelConnects(d) \/ ChannelGone(d)
    BY <2>1 DEF ChannelConnects, ChannelGone, sessionVars, coVars
  <2>2. CASE Offers
    <3>1. \E f, kind, d : Offer(f, kind, d)
      BY <2>2 DEF Offers, PeerRequest, FormatChange, HostapdEvent, UserTouches,
                  Broadcast, ReadPacket
    <3>2. UNCHANGED <<sessionVars, coVars, calls>>
      BY <3>1, Zenon DEF Offer
    <3> QED BY <3>2 DEF sessionVars, coVars
  <2> QED BY <1>6, <2>1, <2>2
<1>7. CASE InitPullListener \/ RegisterScreenMethods \/ CallSession
  BY <1>7 DEF InitPullListener, RegisterScreenMethods, CallSession, sessionVars
<1>8. CASE UNCHANGED vars
  BY <1>8 DEF vars, sessionVars, coVars
<1> QED
  BY <1>1, <1>2, <1>3, <1>4, <1>5, <1>6, <1>7, <1>8
  DEF Next, BtCollector, Relay, RpcCollector, HostapdCollector, UiCollector, World,
      RpcActs, Offers

LEMMA SessionInvStep == TypeOK /\ SessionInv /\ [Next]_vars => SessionInv'
<1> SUFFICES ASSUME TypeOK, SessionInv, [Next]_vars PROVE SessionInv'
  OBVIOUS
<1> USE FlowNames
<1>0. methods \subseteq methods' /\ (listener => listener')
  BY SessionSteps
<1>1. CASE UNCHANGED <<at["hostapd"], calls["hostapd"]>>
  BY <1>0, <1>1 DEF SessionInv, HandlersBeforeSession
<1>2. CASE UNCHANGED calls /\ at'["hostapd"] \in {"idle", "handle", "store"}
  BY <1>0, <1>2 DEF SessionInv, HandlersBeforeSession
<1>3. CASE InitPullListener
  <2>1. UNCHANGED calls /\ (at'["hostapd"] = "idle" \/ (at'["hostapd"] = "register" /\ listener'))
    BY <1>3 DEF InitPullListener, Done, GoTo, TypeOK
  <2> QED BY <1>0, <2>1 DEF SessionInv, HandlersBeforeSession
<1>4. CASE RegisterScreenMethods
  <2>1. UNCHANGED calls /\ at["hostapd"] = "register" /\ ScreenMethods \subseteq methods'
    BY <1>4 DEF RegisterScreenMethods
  <2> QED BY <1>0, <2>1 DEF SessionInv, HandlersBeforeSession
<1>5. CASE CallSession
  <2>1. at["hostapd"] = "session"
    BY <1>5 DEF CallSession, Handles
  <2> QED BY <1>0, <2>1 DEF SessionInv, HandlersBeforeSession
<1> QED BY <1>1, <1>2, <1>3, <1>4, <1>5, SessionSteps

\* Whenever the peer is told to start a session, the first or a later one, it finds
\* the screen methods registered and the listener receiving: the handler makes the
\* call only behind both, and nothing takes them back.
THEOREM SessionFindsHandlers == Spec => []HandlersBeforeSession
<1>1. Init => SessionInv
  BY FlowNames DEF Init, SessionInv, HandlersBeforeSession
<1>2. SessionInv => HandlersBeforeSession
  BY DEF SessionInv
<1> QED BY <1>1, <1>2, SessionInvStep, RuntimeTypeCorrect, PTL DEF Spec

-----------------------------------------------------------------------------
(* Sequences of numbers. *)

LEMMA Regroup ==
    ASSUME NEW a \in Seq(Nat), NEW b \in Seq(Nat), NEW c \in Seq(Nat)
    PROVE  (a \o b) \o c = a \o (b \o c)
BY ConcatAssociative

LEMMA Joined ==
    ASSUME NEW a \in Seq(Nat), NEW b \in Seq(Nat)
    PROVE  /\ a \o b \in Seq(Nat)
           /\ Len(a \o b) = Len(a) + Len(b)
           /\ \A i \in 1..Len(a) : (a \o b)[i] = a[i]
           /\ \A i \in 1..Len(b) : (a \o b)[Len(a) + i] = b[i]
OBVIOUS

LEMMA EmptyJoined ==
    ASSUME NEW a \in Seq(Nat)
    PROVE  a \o <<>> = a /\ <<>> \o a = a
BY ConcatEmptySeq

NatLess == {ss \in Nat \X Nat : ss[1] < ss[2]}

\* Induction over a set of numbers.
LEMMA EveryNumber ==
    ASSUME NEW I \in SUBSET Nat, 0 \in I, \A n \in I : n + 1 \in I
    PROVE  Nat \subseteq I
<1> SUFFICES ASSUME Nat \ I # {} PROVE FALSE
  OBVIOUS
<1>1. IsWellFoundedOn(NatLess, Nat)
  BY NatLessThanWellFounded DEF OpToRel, NatLess
<1>2. PICK n \in Nat \ I : \A j \in Nat \ I : ~(<<j, n>> \in NatLess)
  BY <1>1, WFMin
<1>3. n # 0 /\ n - 1 \in Nat /\ n - 1 < n
  OBVIOUS
<1>4. n - 1 \in I
  BY <1>2, <1>3 DEF NatLess
<1> QED BY <1>3, <1>4

\* The recursive function in Numbers, over the first n items.
Filters(u, n, s, kind) ==
    u = [i \in 0..n |-> IF i = 0 THEN <<>> ELSE u[i - 1] \o Number(s[i], kind)]

At(u, i) == u[i]

LEMMA FiltersSteps ==
    ASSUME NEW u, NEW n \in Nat, NEW s, NEW kind, Filters(u, n, s, kind)
    PROVE  /\ At(u, 0) = <<>>
           /\ \A i \in Nat : i < n => At(u, i + 1) = At(u, i) \o Number(s[i + 1], kind)
<1> DEFINE Step(i) == IF i = 0 THEN <<>> ELSE u[i - 1] \o Number(s[i], kind)
<1>1. u = [i \in 0..n |-> Step(i)]
  BY DEF Filters
<1>2. Step(0) = <<>>
  OBVIOUS
<1>3. ASSUME NEW i \in Nat, i < n
      PROVE  u[i + 1] = u[i] \o Number(s[i + 1], kind)
  <2> DEFINE j == i + 1
  <2>1. j \in 0..n /\ j # 0 /\ j - 1 = i
    BY <1>3
  <2> HIDE DEF j
  <2>2. Step(j) = u[i] \o Number(s[j], kind)
    BY <2>1
  <2> HIDE DEF Step
  <2>3. u[j] = Step(j)
    BY <1>1, <2>1
  <2> QED BY <2>2, <2>3 DEF j
<1> HIDE DEF Step
<1>4. u[0] = Step(0)
  BY <1>1
<1> QED BY <1>2, <1>3, <1>4 DEF At

\* There is one.
LEMMA NumbersDefined ==
    ASSUME NEW s, Len(s) \in Nat, NEW kind
    PROVE  \E u : Filters(u, Len(s), s, kind) /\ Numbers(s, kind) = u[Len(s)]
<1> DEFINE I == {n \in Nat : \E u : Filters(u, n, s, kind)}
<1>1. 0 \in I
  <2> DEFINE u == [i \in 0..0 |-> <<>>]
  <2>1. u = [i \in 0..0 |-> IF i = 0 THEN <<>> ELSE u[i - 1] \o Number(s[i], kind)]
    OBVIOUS
  <2>2. Filters(u, 0, s, kind)
    BY <2>1 DEF Filters
  <2> QED BY <2>2
<1>2. ASSUME NEW n \in I PROVE n + 1 \in I
  <2>1. PICK u : Filters(u, n, s, kind)
    BY <1>2
  <2> DEFINE w == [i \in 0..n + 1 |->
                      IF i = n + 1 THEN u[n] \o Number(s[n + 1], kind) ELSE u[i]]
  <2>2. n \in Nat /\ u = [i \in 0..n |-> IF i = 0 THEN <<>> ELSE u[i - 1] \o Number(s[i], kind)]
    BY <2>1 DEF Filters
  <2>3. ASSUME NEW i \in 0..n + 1
        PROVE  w[i] = IF i = 0 THEN <<>> ELSE w[i - 1] \o Number(s[i], kind)
    <3>1. CASE i = n + 1
      BY <2>2, <3>1
    <3>2. CASE i \in 1..n
      <4>1. w[i] = u[i] /\ w[i - 1] = u[i - 1] /\ i # 0
        BY <2>2, <3>2
      <4>2. i - 1 \in Nat /\ i - 1 < n /\ i - 1 + 1 = i
        BY <2>2, <3>2
      <4>3. At(u, i - 1 + 1) = At(u, i - 1) \o Number(s[i - 1 + 1], kind)
        BY <2>1, <2>2, <4>2, FiltersSteps
      <4> QED BY <4>1, <4>2, <4>3 DEF At
    <3>3. CASE i = 0
      BY <2>2, <3>3
    <3> QED BY <2>2, <3>1, <3>2, <3>3
  <2>4. w = [i \in 0..n + 1 |-> w[i]]
    OBVIOUS
  <2> HIDE DEF w
  <2>5. Filters(w, n + 1, s, kind)
    BY <2>3, <2>4 DEF Filters
  <2> QED BY <2>2, <2>5
<1> HIDE DEF I
<1>3. Len(s) \in I
  <2>1. I \subseteq Nat
    BY DEF I
  <2> QED BY <1>1, <1>2, <2>1, EveryNumber
<1>4. \E u : Filters(u, Len(s), s, kind)
  BY <1>3 DEF I
<1> DEFINE u == CHOOSE u : Filters(u, Len(s), s, kind)
<1>5. Filters(u, Len(s), s, kind)
  BY <1>4
<1>6. Numbers(s, kind) = u[Len(s)]
  BY DEF Numbers, Filters
<1> QED BY <1>5, <1>6

\* Counted(u, s, kind): u says what Numbers makes of the first items of s.
Counted(u, s, kind) ==
    /\ At(u, 0) = <<>>
    /\ \A i \in Nat : i < Len(s) => At(u, i + 1) = At(u, i) \o Number(s[i + 1], kind)
    /\ Numbers(s, kind) = At(u, Len(s))

LEMMA NumbersCounted ==
    ASSUME NEW E, NEW s \in Seq(E), NEW kind
    PROVE  \E u : Counted(u, s, kind)
<1>1. Len(s) \in Nat
  OBVIOUS
<1>2. PICK u : Filters(u, Len(s), s, kind) /\ Numbers(s, kind) = u[Len(s)]
  BY <1>1, NumbersDefined
<1>3. /\ At(u, 0) = <<>>
      /\ \A i \in Nat : i < Len(s) => At(u, i + 1) = At(u, i) \o Number(s[i + 1], kind)
  BY <1>1, <1>2, FiltersSteps
<1>4. Counted(u, s, kind)
  BY <1>2, <1>3 DEF Counted, At
<1> QED BY <1>4

LEMMA CountedEnds ==
    ASSUME NEW u, NEW s, NEW kind, Counted(u, s, kind)
    PROVE  At(u, 0) = <<>> /\ Numbers(s, kind) = At(u, Len(s))
BY DEF Counted

LEMMA CountedStep ==
    ASSUME NEW u, NEW s, NEW kind, Counted(u, s, kind), NEW i \in Nat, i < Len(s)
    PROVE  At(u, i + 1) = At(u, i) \o Number(s[i + 1], kind)
BY DEF Counted

LEMMA NoNumbers == ASSUME NEW kind PROVE Numbers(<<>>, kind) = <<>>
<1>1. <<>> \in Seq(Nat) /\ Len(<<>>) = 0
  OBVIOUS
<1>2. PICK u : Counted(u, <<>>, kind)
  BY <1>1, NumbersCounted
<1>3. At(u, 0) = <<>> /\ Numbers(<<>>, kind) = At(u, 0)
  BY <1>1, <1>2, CountedEnds
<1> QED BY <1>3

\* Numbers are numbers.
LEMMA NumbersAreNumbers ==
    ASSUME NEW E, \A e \in E : e.n \in Nat, NEW s \in Seq(E), NEW kind
    PROVE  Numbers(s, kind) \in Seq(Nat)
<1>1. PICK u : Counted(u, s, kind)
  BY NumbersCounted
<1> DEFINE I == {n \in Nat : n <= Len(s) => At(u, n) \in Seq(Nat)}
<1>2. 0 \in I
  <2>1. At(u, 0) = <<>> /\ <<>> \in Seq(Nat)
    BY <1>1, CountedEnds
  <2>2. At(u, 0) \in Seq(Nat)
    BY <2>1
  <2> QED BY <2>2
<1>3. ASSUME NEW n \in I PROVE n + 1 \in I
  <2> SUFFICES ASSUME n + 1 <= Len(s) PROVE At(u, n + 1) \in Seq(Nat)
    OBVIOUS
  <2>0. n \in Nat /\ n < Len(s)
    OBVIOUS
  <2>1. At(u, n + 1) = At(u, n) \o Number(s[n + 1], kind)
    BY <1>1, <2>0, CountedStep
  <2>2. At(u, n) \in Seq(Nat)
    OBVIOUS
  <2>3. s[n + 1] \in E
    OBVIOUS
  <2>4. Number(s[n + 1], kind) \in Seq(Nat)
    BY <2>3 DEF Number
  <2>5. At(u, n) \o Number(s[n + 1], kind) \in Seq(Nat)
    BY <2>2, <2>4, ConcatProperties
  <2> QED BY <2>1, <2>5
<1> HIDE DEF I
<1>4. Len(s) \in I
  <2>1. I \subseteq Nat
    BY DEF I
  <2> QED BY <1>2, <1>3, <2>1, EveryNumber
<1>5. Numbers(s, kind) = At(u, Len(s))
  BY <1>1, CountedEnds
<1> QED BY <1>4, <1>5 DEF I

\* An item at the end.
LEMMA NumbersOfAppend ==
    ASSUME NEW E, \A e \in E : e.n \in Nat, NEW s \in Seq(E), NEW e \in E, NEW kind
    PROVE  Numbers(Append(s, e), kind) = Numbers(s, kind) \o Number(e, kind)
<1> DEFINE t == Append(s, e)
<1>1. PICK u : Counted(u, s, kind)
  BY NumbersCounted
<1>2. t \in Seq(E) /\ Len(t) = Len(s) + 1 /\ t[Len(s) + 1] = e /\ \A i \in 1..Len(s) : t[i] = s[i]
  OBVIOUS
<1> HIDE DEF t
<1>3. PICK w : Counted(w, t, kind)
  BY <1>2, NumbersCounted
<1> DEFINE I == {n \in Nat : n <= Len(s) => At(w, n) = At(u, n)}
<1>4. 0 \in I
  <2>1. At(u, 0) = At(w, 0)
    BY <1>1, <1>3, CountedEnds
  <2> QED BY <2>1
<1>5. ASSUME NEW n \in I PROVE n + 1 \in I
  <2> SUFFICES ASSUME n + 1 <= Len(s) PROVE At(w, n + 1) = At(u, n + 1)
    OBVIOUS
  <2>0. n \in Nat /\ n < Len(s)
    OBVIOUS
  <2>1. At(u, n + 1) = At(u, n) \o Number(s[n + 1], kind)
    BY <1>1, <2>0, CountedStep
  <2>a. n < Len(t)
    BY <1>2
  <2>2. At(w, n + 1) = At(w, n) \o Number(t[n + 1], kind)
    BY <1>3, <2>0, <2>a, CountedStep
  <2>3. At(w, n) = At(u, n) /\ t[n + 1] = s[n + 1]
    BY <1>2
  <2> QED BY <2>1, <2>2, <2>3
<1> HIDE DEF I
<1>6. Len(s) \in I
  <2>1. I \subseteq Nat
    BY DEF I
  <2> QED BY <1>4, <1>5, <2>1, EveryNumber
<1>7. At(w, Len(s)) = At(u, Len(s))
  BY <1>6 DEF I
<1>8. At(w, Len(s) + 1) = At(w, Len(s)) \o Number(t[Len(s) + 1], kind)
  <2>1. Len(s) \in Nat /\ Len(s) < Len(t)
    BY <1>2
  <2> QED BY <1>3, <2>1, CountedStep
<1>9. Numbers(s, kind) = At(u, Len(s)) /\ Numbers(t, kind) = At(w, Len(t))
  BY <1>1, <1>3, CountedEnds
<1>10. Numbers(t, kind) = At(u, Len(s)) \o Number(e, kind)
  BY <1>2, <1>7, <1>8, <1>9
<1> QED BY <1>9, <1>10 DEF t

\* An item at the front.
LEMMA NumbersOfTail ==
    ASSUME NEW E, \A e \in E : e.n \in Nat, NEW s \in Seq(E), s # <<>>, NEW kind
    PROVE  Numbers(s, kind) = Number(Head(s), kind) \o Numbers(Tail(s), kind)
<1> DEFINE t == Tail(s)
           h == Number(Head(s), kind)
<1>1. PICK u : Counted(u, s, kind)
  BY NumbersCounted
<1>2. t \in Seq(E) /\ Len(t) = Len(s) - 1 /\ \A i \in 1..Len(t) : t[i] = s[i + 1]
  OBVIOUS
<1>3. Head(s) \in E /\ Head(s) = s[1]
  OBVIOUS
<1>4. h \in Seq(Nat)
  BY <1>3 DEF Number
<1> HIDE DEF t, h
<1>5. PICK w : Counted(w, t, kind)
  BY <1>2, NumbersCounted
<1> DEFINE I == {n \in Nat : n <= Len(t) => At(w, n) \in Seq(Nat) /\ At(u, n + 1) = h \o At(w, n)}
<1>6. 0 \in I
  <2>1. At(w, 0) = <<>> /\ At(u, 0) = <<>>
    BY <1>1, <1>5, CountedEnds
  <2>2. 0 < Len(s) /\ 0 \in Nat /\ 0 + 1 = 1
    OBVIOUS
  <2>3. At(u, 0 + 1) = At(u, 0) \o Number(s[0 + 1], kind)
    BY <1>1, <2>2, CountedStep
  <2>4. At(u, 1) = h
    BY <1>3, <1>4, <2>1, <2>2, <2>3, ConcatEmptySeq DEF h
  <2>5. h \o <<>> = h
    BY <1>4, ConcatEmptySeq
  <2>6. At(w, 0) \in Seq(Nat) /\ At(u, 0 + 1) = h \o At(w, 0)
    <3>1. <<>> \in Seq(Nat)
      OBVIOUS
    <3>2. At(w, 0) \in Seq(Nat)
      BY <2>1, <3>1
    <3> QED BY <2>1, <2>2, <2>4, <2>5, <3>2
  <2> QED BY <2>6
<1>7. ASSUME NEW n \in I PROVE n + 1 \in I
  <2> SUFFICES ASSUME n + 1 <= Len(t)
               PROVE  At(w, n + 1) \in Seq(Nat) /\ At(u, n + 1 + 1) = h \o At(w, n + 1)
    OBVIOUS
  <2>0. n \in Nat /\ n + 1 \in Nat /\ n < Len(t) /\ n + 1 < Len(s)
    BY <1>2
  <2>1. At(u, n + 1 + 1) = At(u, n + 1) \o Number(s[n + 1 + 1], kind)
    <3> DEFINE m == n + 1
    <3>1. m \in Nat /\ m < Len(s)
      BY <2>0
    <3> HIDE DEF m
    <3>2. At(u, m + 1) = At(u, m) \o Number(s[m + 1], kind)
      BY <1>1, <3>1, CountedStep
    <3> QED BY <3>2 DEF m
  <2>2. At(w, n + 1) = At(w, n) \o Number(t[n + 1], kind)
    BY <1>5, <2>0, CountedStep
  <2>3. At(w, n) \in Seq(Nat) /\ At(u, n + 1) = h \o At(w, n)
    BY <1>2
  <2>4. t[n + 1] = s[n + 1 + 1] /\ t[n + 1] \in E
    BY <1>2
  <2> DEFINE last == Number(t[n + 1], kind)
  <2>5. last \in Seq(Nat)
    BY <2>4 DEF Number
  <2>6. At(u, n + 1 + 1) = (h \o At(w, n)) \o last /\ At(w, n + 1) = At(w, n) \o last
    BY <2>1, <2>2, <2>3, <2>4
  <2> HIDE DEF last
  <2>7. (h \o At(w, n)) \o last = h \o (At(w, n) \o last)
    BY <1>4, <2>3, <2>5, Regroup
  <2>8. At(w, n) \o last \in Seq(Nat)
    BY <2>3, <2>5
  <2> QED BY <2>6, <2>7, <2>8
<1> HIDE DEF I
<1>8. Len(t) \in I
  <2>1. I \subseteq Nat
    BY DEF I
  <2>2. Len(t) \in Nat
    BY <1>2
  <2> QED BY <1>6, <1>7, <2>1, <2>2, EveryNumber
<1>9. At(u, Len(t) + 1) = h \o At(w, Len(t))
  BY <1>2, <1>8 DEF I
<1>10. Len(t) + 1 = Len(s)
  BY <1>2
<1>11. Numbers(s, kind) = At(u, Len(s)) /\ Numbers(t, kind) = At(w, Len(t))
  BY <1>1, <1>5, CountedEnds
<1> QED BY <1>9, <1>10, <1>11 DEF h, t

-----------------------------------------------------------------------------
(* Sequences that lose items. *)

Thinned(s, t) == PacketPipe!Thinned(s, t)

LEMMA ThinnedReflexive == ASSUME NEW s \in Seq(Nat) PROVE Thinned(s, s)
<1> DEFINE e == [i \in 1..Len(s) |-> i]
<1>1. e \in [1..Len(s) -> 1..Len(s)]
  OBVIOUS
<1> QED BY <1>1 DEF Thinned, PacketPipe!Thinned

LEMMA AllLost == ASSUME NEW s \in Seq(Nat) PROVE Thinned(s, <<>>)
<1> DEFINE e == [i \in 1..Len(<<>>) |-> i]
<1>1. 1..Len(<<>>) = {}
  OBVIOUS
<1>2. e \in [1..Len(<<>>) -> 1..Len(s)]
  BY <1>1
<1> QED BY <1>1, <1>2 DEF Thinned, PacketPipe!Thinned

LEMMA ThinnedJoined ==
    ASSUME NEW s \in Seq(Nat), NEW t \in Seq(Nat), NEW u \in Seq(Nat), NEW v \in Seq(Nat),
           Thinned(s, u), Thinned(t, v)
    PROVE  Thinned(s \o t, u \o v)
<1>1. PICK e \in [1..Len(u) -> 1..Len(s)] :
         /\ \A i, j \in 1..Len(u) : i < j => e[i] < e[j]
         /\ \A i \in 1..Len(u) : u[i] = s[e[i]]
  BY DEF Thinned, PacketPipe!Thinned
<1>2. PICK d \in [1..Len(v) -> 1..Len(t)] :
         /\ \A i, j \in 1..Len(v) : i < j => d[i] < d[j]
         /\ \A i \in 1..Len(v) : v[i] = t[d[i]]
  BY DEF Thinned, PacketPipe!Thinned
<1> DEFINE f == [i \in 1..Len(u \o v) |->
                    IF i <= Len(u) THEN e[i] ELSE Len(s) + d[i - Len(u)]]
<1>3. /\ Len(u) \in Nat /\ Len(v) \in Nat /\ Len(s) \in Nat /\ Len(t) \in Nat
      /\ Len(u \o v) = Len(u) + Len(v) /\ Len(s \o t) = Len(s) + Len(t)
  OBVIOUS
<1>4. \A i \in 1..Len(u) : e[i] \in 1..Len(s)
  BY <1>1
<1>5. \A i \in 1..Len(v) : d[i] \in 1..Len(t)
  BY <1>2
<1>6. ASSUME NEW i \in 1..Len(u \o v), i <= Len(u)
      PROVE  i \in 1..Len(u) /\ f[i] = e[i] /\ e[i] \in 1..Len(s)
  <2>1. i \in 1..Len(u)
    BY <1>3, <1>6
  <2> QED BY <1>4, <1>6, <2>1
<1>7. ASSUME NEW i \in 1..Len(u \o v), ~(i <= Len(u))
      PROVE  \E k \in 1..Len(v) :
                i = Len(u) + k /\ f[i] = Len(s) + d[k] /\ d[k] \in 1..Len(t)
  <2> DEFINE k == i - Len(u)
  <2>1. k \in 1..Len(v) /\ i = Len(u) + k
    BY <1>3, <1>7
  <2>2. f[i] = Len(s) + d[k]
    BY <1>7
  <2> QED BY <1>5, <2>1, <2>2
<1>8. f \in [1..Len(u \o v) -> 1..Len(s \o t)]
  <2>1. ASSUME NEW i \in 1..Len(u \o v) PROVE f[i] \in 1..Len(s \o t)
    <3> HIDE DEF f
    <3>1. CASE i <= Len(u)
      <4>1. f[i] = e[i] /\ e[i] \in 1..Len(s)
        BY <1>6, <3>1
      <4> QED BY <1>3, <4>1
    <3>2. CASE ~(i <= Len(u))
      <4>1. PICK k \in 1..Len(v) : f[i] = Len(s) + d[k] /\ d[k] \in 1..Len(t)
        BY <1>7, <3>2
      <4> QED BY <1>3, <4>1
    <3> QED BY <3>1, <3>2
  <2> QED BY <2>1
<1> HIDE DEF f
<1>9. ASSUME NEW i \in 1..Len(u \o v), NEW j \in 1..Len(u \o v), i < j
      PROVE  f[i] < f[j]
  <2>1. CASE j <= Len(u)
    <3>1. i <= Len(u)
      BY <1>3, <1>9, <2>1
    <3> QED BY <1>1, <1>6, <1>9, <2>1, <3>1
  <2>2. CASE i <= Len(u) /\ ~(j <= Len(u))
    <3>1. f[i] = e[i] /\ e[i] \in 1..Len(s)
      BY <1>6, <2>2
    <3>2. PICK k \in 1..Len(v) : f[j] = Len(s) + d[k] /\ d[k] \in 1..Len(t)
      BY <1>7, <2>2
    <3>3. f[i] <= Len(s) /\ f[i] \in Nat /\ Len(s) \in Nat
      BY <3>1
    <3>4. f[j] > Len(s)
      BY <3>2, <3>3
    <3> QED BY <3>2, <3>3, <3>4
  <2>3. CASE ~(i <= Len(u))
    <3>1. ~(j <= Len(u))
      BY <1>3, <1>9, <2>3
    <3>2. PICK k \in 1..Len(v) : /\ i = Len(u) + k
                                 /\ f[i] = Len(s) + d[k] /\ d[k] \in 1..Len(t)
      BY <1>7, <2>3
    <3>3. PICK l \in 1..Len(v) : /\ j = Len(u) + l
                                 /\ f[j] = Len(s) + d[l] /\ d[l] \in 1..Len(t)
      BY <1>7, <3>1
    <3>4. k < l
      BY <1>3, <1>9, <3>2, <3>3
    <3>5. d[k] < d[l]
      BY <1>2, <3>4
    <3> QED BY <1>3, <3>2, <3>3, <3>5
  <2> QED BY <2>1, <2>2, <2>3
<1>10. ASSUME NEW i \in 1..Len(u \o v) PROVE (u \o v)[i] = (s \o t)[f[i]]
  <2>1. CASE i <= Len(u)
    <3>1. (u \o v)[i] = u[i] /\ (s \o t)[e[i]] = s[e[i]]
      BY <1>4, <1>6, <2>1, Joined
    <3> QED BY <1>1, <1>6, <2>1, <3>1
  <2>2. CASE ~(i <= Len(u))
    <3>1. PICK k \in 1..Len(v) : /\ i = Len(u) + k
                                 /\ f[i] = Len(s) + d[k] /\ d[k] \in 1..Len(t)
      BY <1>7, <2>2
    <3>2. (u \o v)[Len(u) + k] = v[k] /\ (s \o t)[Len(s) + d[k]] = t[d[k]]
      BY <3>1, Joined
    <3> QED BY <1>2, <3>1, <3>2
  <2> QED BY <2>1, <2>2
<1> QED BY <1>8, <1>9, <1>10 DEF Thinned, PacketPipe!Thinned

-----------------------------------------------------------------------------
(* What a step does to the numbers on their way. *)

LEMMA EventsNumbered ==
    /\ \A e \in Events : e.n \in Nat
    /\ \A e \in Calls : e.n \in Nat
BY DEF Events, Calls

LEMMA NumberIsNumber ==
    ASSUME NEW e, e.n \in Nat, NEW kind
    PROVE  Number(e, kind) \in Seq(Nat)
BY DEF Number

LEMMA TransitTyped ==
    ASSUME TypeOK, NEW f \in Flows, NEW kind
    PROVE  /\ InHand(f, kind) \in Seq(Nat)
           /\ Numbers(buffer[f], kind) \in Seq(Nat)
           /\ Transit(f, kind) \in Seq(Nat)
           /\ Numbers(calls[f], kind) \in Seq(Nat)
<1>1. buffer[f] \in Seq(Events) /\ calls[f] \in Seq(Calls)
  BY DEF TypeOK
<1>2. Numbers(buffer[f], kind) \in Seq(Nat) /\ Numbers(calls[f], kind) \in Seq(Nat)
  BY <1>1, EventsNumbered, NumbersAreNumbers
<1>3. InHand(f, kind) \in Seq(Nat)
  <2>1. CASE at[f] \in {"handle", "device"}
    <3>1. hand[f].n \in Nat
      BY <2>1, EventsNumbered DEF TypeOK
    <3> QED BY <2>1, <3>1, NumberIsNumber DEF InHand
  <2>2. CASE at[f] \notin {"handle", "device"}
    <3>1. <<>> \in Seq(Nat)
      OBVIOUS
    <3> QED BY <2>2, <3>1 DEF InHand
  <2> QED BY <2>1, <2>2
<1> QED BY <1>2, <1>3, Joined DEF Transit

TransitsTyped ==
    \A f \in Flows : \A kind : /\ InHand(f, kind) \in Seq(Nat)
                           /\ Transit(f, kind) \in Seq(Nat)
                           /\ Numbers(calls[f], kind) \in Seq(Nat)

LEMMA TransitsAreTyped == TypeOK => TransitsTyped
BY TransitTyped DEF TransitsTyped

LEMMA TransitsAreTypedNext == TypeOK' => TransitsTyped'
BY TransitsAreTyped, PTL

\* Taking an event moves its number from the flow to the hand.
LEMMA TakeKeepsTransit ==
    ASSUME TypeOK, NEW f \in Flows, Take(f), NEW kind
    PROVE  Transit(f, kind)' = Transit(f, kind)
<1> DEFINE b == buffer[f]
<1>1. b \in Seq(Events) /\ b # <<>> /\ at[f] = "idle"
  BY DEF Take, TypeOK
<1>2. buffer'[f] = Tail(b) /\ hand'[f] = Head(b) /\ at'[f] = "handle"
  BY DEF Take, TypeOK
<1>3. Numbers(b, kind) = Number(Head(b), kind) \o Numbers(Tail(b), kind)
  BY <1>1, EventsNumbered, NumbersOfTail
<1>4. InHand(f, kind) = <<>> /\ InHand(f, kind)' = Number(Head(b), kind)
  BY <1>1, <1>2 DEF InHand
<1>5. Transit(f, kind) = Numbers(b, kind)
  <2>1. Numbers(b, kind) \in Seq(Nat)
    BY TransitTyped
  <2> QED BY <1>4, <2>1, EmptyJoined DEF Transit
<1> QED BY <1>2, <1>3, <1>4, <1>5 DEF Transit

\* Emitting puts a number behind the others; the oldest in the flow may be lost.
LEMMA EmitThinsTransit ==
    ASSUME TypeOK, NEW f \in Flows, NEW e \in Events, NEW kind, Emit(f, e),
           UNCHANGED <<hand[f], at[f]>>
    PROVE  Thinned(Transit(f, kind) \o Number(e, kind), Transit(f, kind)')
<1> DEFINE b == buffer[f]
           h == InHand(f, kind)
           n == Number(e, kind)
<1>1. b \in Seq(Events) /\ buffer \in [Flows -> Seq(Events)]
  BY DEF TypeOK
<1>2. h \in Seq(Nat) /\ Numbers(b, kind) \in Seq(Nat) /\ n \in Seq(Nat)
  BY TransitTyped, EventsNumbered, NumberIsNumber
<1>3. InHand(f, kind)' = h
  BY DEF InHand
<1>4. Transit(f, kind) = h \o Numbers(b, kind) /\ Transit(f, kind)' = h \o Numbers(buffer'[f], kind)
  BY <1>3 DEF Transit
<1> HIDE DEF n, h
<1>5. Thinned(h, h) /\ Thinned(n, n) /\ Thinned(n, <<>>)
  BY <1>2, ThinnedReflexive, AllLost
<1>6. CASE f \notin subscribed
  <2> DEFINE t == h \o Numbers(b, kind)
  <2>1. buffer' = buffer
    BY <1>6 DEF Emit, flowVars
  <2>2. t \in Seq(Nat) /\ Transit(f, kind) = t /\ Transit(f, kind)' = t
    BY <1>2, <1>4, <2>1, Joined
  <2> HIDE DEF t
  <2>3. Thinned(t \o n, t \o <<>>)
    <3>1. <<>> \in Seq(Nat)
      OBVIOUS
    <3> QED BY <1>2, <1>5, <2>2, <3>1, ThinnedReflexive, ThinnedJoined
  <2>4. t \o <<>> = t
    BY <2>2, EmptyJoined
  <2> QED BY <2>2, <2>3, <2>4 DEF n
<1>7. CASE f \in subscribed /\ Len(b) < Capacity[f]
  <2> DEFINE m == Numbers(b, kind)
  <2>1. buffer'[f] = Append(b, e)
    BY <1>1, <1>7 DEF Emit
  <2>2. Numbers(Append(b, e), kind) = m \o n
    BY <1>1, EventsNumbered, NumbersOfAppend DEF n
  <2>3. Transit(f, kind) = h \o m /\ Transit(f, kind)' = h \o (m \o n) /\ m \in Seq(Nat)
    BY <1>2, <1>4, <2>1, <2>2
  <2> HIDE DEF m
  <2>4. (h \o m) \o n = h \o (m \o n) /\ h \o (m \o n) \in Seq(Nat)
    BY <1>2, <2>3, Regroup, Joined
  <2>5. Thinned(h \o (m \o n), h \o (m \o n))
    BY <2>4, ThinnedReflexive
  <2> QED BY <2>3, <2>4, <2>5 DEF n
<1>8. CASE f \in subscribed /\ ~(Len(b) < Capacity[f])
  <2> DEFINE lost == Number(Head(b), kind)
             m == Numbers(Tail(b), kind)
  <2>1. b # <<>> /\ Head(b) \in Events /\ Tail(b) \in Seq(Events)
    BY <1>1, <1>8, CapacityAssumption
  <2>2. buffer'[f] = Append(Tail(b), e)
    BY <1>1, <1>8 DEF Emit
  <2>3. Numbers(b, kind) = lost \o m
    BY <1>1, <2>1, EventsNumbered, NumbersOfTail
  <2>4. Numbers(Append(Tail(b), e), kind) = m \o n
    BY <2>1, EventsNumbered, NumbersOfAppend DEF n
  <2>5. lost \in Seq(Nat) /\ m \in Seq(Nat) /\ <<>> \in Seq(Nat)
    <3>1. lost \in Seq(Nat)
      BY <2>1, EventsNumbered, NumberIsNumber
    <3>2. m \in Seq(Nat)
      BY <2>1, EventsNumbered, NumbersAreNumbers
    <3>3. <<>> \in Seq(Nat)
      OBVIOUS
    <3> QED BY <3>1, <3>2, <3>3
  <2>6. Transit(f, kind) = h \o (lost \o m) /\ Transit(f, kind)' = h \o (m \o n)
    BY <1>4, <2>2, <2>3, <2>4
  <2> HIDE DEF lost, m
  <2>7. Thinned(lost \o (m \o n), <<>> \o (m \o n))
    <3>1. m \o n \in Seq(Nat)
      BY <1>2, <2>5, Joined
    <3>2. Thinned(m \o n, m \o n) /\ Thinned(lost, <<>>)
      BY <2>5, <3>1, ThinnedReflexive, AllLost
    <3> QED BY <2>5, <3>1, <3>2, ThinnedJoined
  <2>8. /\ <<>> \o (m \o n) = m \o n /\ m \o n \in Seq(Nat)
        /\ (h \o (lost \o m)) \o n = h \o (lost \o (m \o n))
        /\ lost \o (m \o n) \in Seq(Nat)
    <3>1. m \o n \in Seq(Nat) /\ lost \o m \in Seq(Nat)
      BY <1>2, <2>5, Joined
    <3>2. (lost \o m) \o n = lost \o (m \o n)
      <4>1. lost \in Seq(Nat)
        BY <2>5
      <4>2. m \in Seq(Nat)
        BY <2>5
      <4>3. n \in Seq(Nat)
        BY <1>2
      <4> QED BY <4>1, <4>2, <4>3, Regroup
    <3>3. (h \o (lost \o m)) \o n = h \o ((lost \o m) \o n)
      BY <1>2, <3>1, Regroup
    <3>4. <<>> \o (m \o n) = m \o n
      BY <3>1, EmptyJoined
    <3>5. lost \o (m \o n) \in Seq(Nat)
      BY <2>5, <3>1, Joined
    <3> QED BY <3>1, <3>2, <3>3, <3>4, <3>5
  <2>9. Thinned(h \o (lost \o (m \o n)), h \o (m \o n))
    BY <1>2, <1>5, <2>7, <2>8, ThinnedJoined
  <2> QED BY <2>6, <2>8, <2>9 DEF n
<1> QED BY <1>6, <1>7, <1>8

\* An event of which nothing is passed on.
LEMMA EmitOtherThins ==
    ASSUME TypeOK, NEW f \in Flows, NEW e \in Events, NEW kind, e.kind # kind, Emit(f, e),
           UNCHANGED <<hand[f], at[f]>>
    PROVE  Thinned(Transit(f, kind), Transit(f, kind)')
<1>1. Number(e, kind) = <<>>
  BY DEF Number
<1>2. Transit(f, kind) \in Seq(Nat)
  BY TransitTyped
<1>3. Transit(f, kind) \o <<>> = Transit(f, kind)
  BY <1>2, EmptyJoined
<1> QED BY <1>1, <1>3, EmitThinsTransit

\* A handler that ends, or goes on, keeps or loses what it has in hand.
LEMMA HandThins ==
    ASSUME TypeOK, NEW f \in Flows, NEW kind, UNCHANGED buffer[f],
           InHand(f, kind)' = InHand(f, kind) \/ InHand(f, kind)' = <<>>
    PROVE  Thinned(Transit(f, kind), Transit(f, kind)')
<1> DEFINE h == InHand(f, kind)
           m == Numbers(buffer[f], kind)
<1>1. h \in Seq(Nat) /\ m \in Seq(Nat) /\ <<>> \in Seq(Nat)
  BY TransitTyped
<1>2. Transit(f, kind) = h \o m /\ Transit(f, kind)' = InHand(f, kind)' \o m
  BY DEF Transit
<1>3. InHand(f, kind)' = h \/ InHand(f, kind)' = <<>>
  OBVIOUS
<1> HIDE DEF h, m
<1>4. Thinned(h, h) /\ Thinned(h, <<>>) /\ Thinned(m, m)
  BY <1>1, ThinnedReflexive, AllLost
<1>5. Thinned(h \o m, h \o m) /\ Thinned(h \o m, <<>> \o m)
  BY <1>1, <1>4, ThinnedJoined
<1> QED BY <1>2, <1>3, <1>5

\* What is handed on was the oldest on its way.
LEMMA HandDelivers ==
    ASSUME TypeOK, NEW f \in Flows, NEW kind, UNCHANGED buffer[f], NEW n \in Nat,
           InHand(f, kind) = <<n>>, InHand(f, kind)' = <<>>
    PROVE  Transit(f, kind) = <<n>> \o Transit(f, kind)'
<1>1. Numbers(buffer[f], kind) \in Seq(Nat)
  BY TransitTyped
<1>2. Transit(f, kind)' = Numbers(buffer[f], kind)
  BY <1>1, EmptyJoined DEF Transit
<1> QED BY <1>2 DEF Transit

\* A call that is made is a number more, or none, at the end.
LEMMA RecordNumbers ==
    ASSUME TypeOK, NEW f \in Flows, NEW e \in Calls, Record(f, e), NEW kind
    PROVE  Numbers(calls[f], kind)' =
              IF e.kind = kind THEN Append(Numbers(calls[f], kind), e.n)
              ELSE Numbers(calls[f], kind)
<1> DEFINE c == calls[f]
<1>1. c \in Seq(Calls) /\ calls'[f] = Append(c, e)
  BY DEF TypeOK, Record
<1>2. Numbers(Append(c, e), kind) = Numbers(c, kind) \o Number(e, kind)
  BY <1>1, EventsNumbered, NumbersOfAppend
<1>3. Numbers(c, kind) \in Seq(Nat)
  BY TransitTyped
<1>4. e.n \in Nat
  BY EventsNumbered
<1>5. Numbers(calls[f], kind)' = Numbers(c, kind) \o Number(e, kind)
  BY <1>1, <1>2
<1> DEFINE m == Numbers(c, kind)
<1> HIDE DEF m
<1>6. m \in Seq(Nat)
  BY <1>3 DEF m
<1>7. m \o <<e.n>> = Append(m, e.n) /\ m \o <<>> = m
  BY <1>4, <1>6
<1>8. m \o Number(e, kind) = IF e.kind = kind THEN Append(m, e.n) ELSE m
  BY <1>7 DEF Number
<1> QED BY <1>5, <1>8 DEF m

-----------------------------------------------------------------------------
(* Whose step a step is. *)

Untouched(f) == UNCHANGED <<buffer[f], hand[f], at[f], calls[f], offered[f]>>

BtActs ==
    StartLink \/ StoreDevice \/ LaunchRfcomm \/ ForwardPacket \/ CallReturns("bt") \/ Ignore("bt")
ReplyActs == ReadDevice \/ Ignore("rpc") \/ RpcActs
SessionActs ==
    \/ InitPullListener \/ RegisterScreenMethods \/ CallSession
    \/ CallReturns("hostapd") \/ Ignore("hostapd")
TouchActs == TouchScreen \/ CallReturns("ui")

\* What happens to one flow and its collector; packets enter the Bluetooth flow
\* through the relay only.
Acts(g) ==
    \/ Take(g)
    \/ \E kind \in KindsOf[g], d \in Devices \cup {None} :
          Offer(g, kind, d) /\ (g = "bt" => kind # "packet")
    \/ g = "bt" /\ BtActs
    \/ g = "rpc" /\ ReplyActs
    \/ g = "hostapd" /\ SessionActs
    \/ g = "ui" /\ TouchActs

LEMMA OthersStay ==
    ASSUME TypeOK, NEW f \in Flows, NEW g \in Flows, f # g
    PROVE  /\ Done(g) \/ (\E place : GoTo(g, place)) => UNCHANGED <<hand[f], at[f]>>
           /\ (\E e : Record(g, e)) => UNCHANGED calls[f]
           /\ (\E e : Emit(g, e)) => UNCHANGED buffer[f]
<1>1. Done(g) \/ (\E place : GoTo(g, place)) => UNCHANGED <<hand[f], at[f]>>
  BY DEF TypeOK, Done, GoTo
<1>2. (\E e : Record(g, e)) => UNCHANGED calls[f]
  BY DEF TypeOK, Record
<1>3. (\E e : Emit(g, e)) => UNCHANGED buffer[f]
  BY DEF TypeOK, Emit, flowVars
<1> QED BY <1>1, <1>2, <1>3

\* A handler that ends or goes on, and what it calls on its way.
Handling(g) ==
    /\ UNCHANGED <<buffer, offered>>
    /\ Done(g) \/ \E place : GoTo(g, place)
    /\ UNCHANGED calls \/ \E e : Record(g, e)

LEMMA HandlingAlone ==
    ASSUME TypeOK, NEW f \in Flows, NEW g \in Flows, f # g, Handling(g)
    PROVE  Untouched(f)
BY OthersStay DEF Untouched, Handling

LEMMA ActsHandle ==
    /\ BtActs => Handling("bt")
    /\ ReplyActs => Handling("rpc")
    /\ SessionActs => Handling("hostapd")
    /\ TouchActs => Handling("ui")
<1>1. \A g, e : CallPeer(g, e, Done(g)) \/ CallPeer(g, e, GoTo(g, "store")) =>
                   /\ Done(g) \/ \E place : GoTo(g, place)
                   /\ UNCHANGED calls \/ \E c : Record(g, c)
  BY Zenon DEF CallPeer
<1>2. \A g \in {"bt", "rpc", "hostapd", "ui"} : CallReturns(g) \/ Ignore(g) => Handling(g)
  BY DEF CallReturns, Ignore, Handling, flowVars
<1>3. BtActs => Handling("bt")
  <2>1. StartLink \/ ForwardPacket => Handling("bt")
    BY <1>1 DEF StartLink, ForwardPacket, Handling, flowVars
  <2>2. StoreDevice \/ LaunchRfcomm => Handling("bt")
    BY DEF StoreDevice, LaunchRfcomm, Handling, flowVars
  <2> QED BY <1>2, <2>1, <2>2 DEF BtActs
<1>4. ReplyActs => Handling("rpc")
  <2>1. ReadDevice => Handling("rpc")
    BY DEF ReadDevice, Handling, flowVars
  <2>2. WriteReply \/ StopRfcomm \/ ConfigureHostapd \/ StartActivity => Handling("rpc")
    BY DEF WriteReply, StopRfcomm, ConfigureHostapd, StartActivity, Handling, flowVars
  <2>3. (\E p \in Profiles : DisableProfile(p)) => Handling("rpc")
    BY DEF DisableProfile, Handling, flowVars
  <2> QED BY <1>2, <2>1, <2>2, <2>3 DEF ReplyActs, RpcActs
<1>5. SessionActs => Handling("hostapd")
  <2>1. CallSession => Handling("hostapd")
    BY <1>1 DEF CallSession, Handling, flowVars
  <2>2. InitPullListener \/ RegisterScreenMethods => Handling("hostapd")
    BY DEF InitPullListener, RegisterScreenMethods, Handling, flowVars
  <2> QED BY <1>2, <2>1, <2>2 DEF SessionActs
<1>6. TouchActs => Handling("ui")
  <2>1. TouchScreen => Handling("ui")
    BY <1>1 DEF TouchScreen, Handling, flowVars
  <2> QED BY <1>2, <2>1 DEF TouchActs
<1> QED BY <1>3, <1>4, <1>5, <1>6

LEMMA ActsAlone ==
    ASSUME TypeOK, NEW g \in Flows, Acts(g), NEW f \in Flows, f # g
    PROVE  Untouched(f)
<1>1. CASE Take(g)
  BY <1>1 DEF Take, Untouched, TypeOK
<1>2. CASE \E kind, d : Offer(g, kind, d)
  <2>1. PICK kind, d : Offer(g, kind, d)
    BY <1>2
  <2>2. Emit(g, Event(kind, d, offered[g] + 1)) /\ UNCHANGED <<coVars, calls>>
    BY <2>1 DEF Offer
  <2>3. UNCHANGED buffer[f]
    BY <2>2, OthersStay
  <2>4. UNCHANGED offered[f]
    BY <2>1 DEF Offer, TypeOK
  <2> QED BY <2>2, <2>3, <2>4 DEF Untouched, coVars
<1>3. CASE Handling(g)
  BY <1>3, HandlingAlone
<1> QED BY <1>1, <1>2, <1>3, ActsHandle DEF Acts

\* A step acts on one flow, or relays between two, or on none.
LEMMA FlowSteps ==
    ASSUME TypeOK, [Next]_vars
    PROVE  \/ \A f \in Flows : Untouched(f)
           \/ \E g \in Flows : Acts(g)
           \/ RelayPacket
<1> USE FlowNames
<1>1. CASE Start \/ \E f \in Flows : Subscribe(f)
  BY <1>1 DEF Start, StartDial, RegisterRpcMethods, BindService, Subscribe, Untouched,
              flowVars, coVars
<1>2. CASE \E d \in Devices : ChannelConnects(d) \/ ChannelGone(d)
  BY <1>2 DEF ChannelConnects, ChannelGone, Untouched, flowVars, coVars
<1>3. CASE UNCHANGED vars
  BY <1>3 DEF vars, Untouched, flowVars, coVars
<1>4. CASE Offers
  <2>1. \E g \in Flows : \E kind \in KindsOf[g], d \in Devices \cup {None} :
           Offer(g, kind, d) /\ (g = "bt" => kind # "packet")
    BY <1>4 DEF Offers, PeerRequest, FormatChange, HostapdEvent, UserTouches, Broadcast,
                ReadPacket, KindsOf
  <2> QED BY <2>1 DEF Acts
<1>5. CASE BtCollector
  <2>1. Take("bt") \/ BtActs
    BY <1>5 DEF BtCollector, BtActs
  <2> QED BY <2>1 DEF Acts
<1>6. CASE RpcCollector
  <2>1. Take("rpc") \/ ReplyActs
    BY <1>6 DEF RpcCollector, ReplyActs, RpcActs
  <2> QED BY <2>1 DEF Acts
<1>7. CASE HostapdCollector
  <2>1. Take("hostapd") \/ SessionActs
    BY <1>7 DEF HostapdCollector, SessionActs
  <2> QED BY <2>1 DEF Acts
<1>8. CASE UiCollector
  <2>1. Take("ui") \/ TouchActs
    BY <1>8 DEF UiCollector, TouchActs
  <2> QED BY <2>1 DEF Acts
<1>9. CASE Relay
  BY <1>9 DEF Relay, Acts
<1> QED BY <1>1, <1>2, <1>3, <1>4, <1>5, <1>6, <1>7, <1>8, <1>9 DEF Next, World, Offers

-----------------------------------------------------------------------------
(* What a flow and its collector do to one kind of item. *)

KeepsOrLoses(f, kind) ==
    /\ Thinned(Transit(f, kind), Transit(f, kind)')
    /\ UNCHANGED <<Numbers(calls[f], kind), offered[f]>>

Enters(f, kind) ==
    /\ Thinned(Transit(f, kind) \o <<offered'[f]>>, Transit(f, kind)')
    /\ offered'[f] = offered[f] + 1
    /\ UNCHANGED Numbers(calls[f], kind)

Leaves(f, kind) ==
    /\ \E n \in Nat :
          /\ Transit(f, kind) = <<n>> \o Transit(f, kind)'
          /\ Numbers(calls[f], kind)' = Append(Numbers(calls[f], kind), n)
    /\ UNCHANGED offered[f]

LEMMA UntouchedKeeps ==
    ASSUME TypeOK, NEW f \in Flows, Untouched(f), NEW kind
    PROVE  Transit(f, kind)' = Transit(f, kind) /\ KeepsOrLoses(f, kind)
<1>1. Transit(f, kind)' = Transit(f, kind) /\ UNCHANGED <<Numbers(calls[f], kind), offered[f]>>
  BY DEF Untouched, Transit, InHand
<1> QED BY <1>1, TransitTyped, ThinnedReflexive DEF KeepsOrLoses

LEMMA TakeKeeps ==
    ASSUME TypeOK, NEW f \in Flows, Take(f), NEW kind
    PROVE  KeepsOrLoses(f, kind)
<1>1. UNCHANGED <<Numbers(calls[f], kind), offered[f]>>
  BY DEF Take
<1> QED BY <1>1, TakeKeepsTransit, TransitTyped, ThinnedReflexive DEF KeepsOrLoses

\* A handler that has done its part, or never had one.
LEMMA HandlerLeavesNothing ==
    ASSUME TypeOK, NEW f \in Flows, UNCHANGED <<buffer, offered>>, NEW kind,
           at'[f] \notin {"handle", "device"},
           \/ UNCHANGED calls
           \/ \E e \in Calls : Record(f, e) /\ e.kind # kind
    PROVE  KeepsOrLoses(f, kind)
<1>1. InHand(f, kind)' = <<>>
  BY DEF InHand
<1>2. Numbers(calls[f], kind)' = Numbers(calls[f], kind)
  BY RecordNumbers
<1> QED BY <1>1, <1>2, HandThins DEF KeepsOrLoses

\* The handler that passes the item on.
LEMMA HandlerPassesOn ==
    ASSUME TypeOK, NEW f \in Flows, UNCHANGED <<buffer, offered>>, NEW kind,
           at[f] \in {"handle", "device"}, hand[f].kind = kind,
           at'[f] \notin {"handle", "device"},
           NEW e \in Calls, Record(f, e), e.kind = kind, e.n = hand[f].n
    PROVE  Leaves(f, kind)
<1>1. hand[f] \in Events /\ e.n \in Nat
  BY EventsNumbered DEF TypeOK
<1>2. InHand(f, kind) = <<e.n>> /\ InHand(f, kind)' = <<>>
  BY DEF InHand, Number
<1>3. Transit(f, kind) = <<e.n>> \o Transit(f, kind)'
  BY <1>1, <1>2, HandDelivers
<1>4. Numbers(calls[f], kind)' = Append(Numbers(calls[f], kind), e.n)
  BY RecordNumbers
<1> QED BY <1>1, <1>3, <1>4 DEF Leaves

LEMMA OfferEnters ==
    ASSUME TypeOK, NEW f \in Flows, NEW k \in KindsOf[f], NEW d \in Devices \cup {None},
           Offer(f, k, d), NEW kind
    PROVE  /\ Enters(f, kind)
           /\ k # kind => /\ Thinned(Transit(f, kind), Transit(f, kind)')
                          /\ UNCHANGED Numbers(calls[f], kind)
<1> DEFINE e == Event(k, d, offered[f] + 1)
           t == Transit(f, kind)
<1>1. e \in Events /\ e.kind = k /\ e.n = offered[f] + 1
  BY KindsAreKinds DEF Event, Events, TypeOK
<1>2. Emit(f, e) /\ UNCHANGED <<hand[f], at[f]>> /\ UNCHANGED Numbers(calls[f], kind)
  BY DEF Offer, coVars
<1>3. offered'[f] = offered[f] + 1 /\ offered[f] \in Nat
  BY DEF Offer, TypeOK
<1>4. Thinned(t \o Number(e, kind), Transit(f, kind)')
  BY <1>1, <1>2, EmitThinsTransit
<1>5. k # kind => Thinned(t, Transit(f, kind)')
  BY <1>1, <1>2, EmitOtherThins
<1>6. t \in Seq(Nat)
  BY TransitTyped
<1>7. CASE k = kind
  BY <1>1, <1>2, <1>3, <1>4, <1>7 DEF Enters, Number
<1>8. CASE k # kind
  <2> DEFINE n == <<offered'[f]>>
             u == Transit(f, kind)'
  <2>1. n \in Seq(Nat) /\ <<>> \in Seq(Nat)
    BY <1>3
  <2>2. u \in Seq(Nat)
    BY TransitsAreTypedNext, OfferTyped DEF TransitsTyped
  <2>3. Thinned(t, u) /\ Thinned(n, <<>>)
    BY <1>5, <1>8, <2>1, AllLost
  <2> HIDE DEF n, u, t
  <2>4. Thinned(t \o n, u \o <<>>)
    BY <1>6, <2>1, <2>2, <2>3, ThinnedJoined
  <2>5. u \o <<>> = u
    BY <2>2, EmptyJoined
  <2>6. Thinned(t \o n, u)
    BY <2>4, <2>5
  <2> QED BY <1>2, <1>3, <1>5, <1>8, <2>6 DEF Enters, n, t, u
<1> QED BY <1>5, <1>2, <1>7, <1>8

LEMMA PacketsForwarded ==
    ASSUME TypeOK, BtActs
    PROVE  KeepsOrLoses("bt", "packet") \/ Leaves("bt", "packet")
<1> USE FlowNames
<1>1. CASE StoreDevice \/ LaunchRfcomm \/ CallReturns("bt") \/ Ignore("bt")
  <2>1. /\ at'["bt"] \notin {"handle", "device"}
        /\ UNCHANGED <<buffer, offered, calls>>
    BY <1>1 DEF StoreDevice, LaunchRfcomm, CallReturns, Ignore, Done, GoTo, TypeOK, flowVars
  <2> QED BY <2>1, HandlerLeavesNothing
<1>2. CASE StartLink \/ ForwardPacket
  <2>1. PICK e \in Calls :
           /\ \/ CallPeer("bt", e, Done("bt"))
              \/ CallPeer("bt", e, GoTo("bt", "store"))
           /\ e.kind = "packet" =>
                 e = hand["bt"] /\ at["bt"] = "handle" /\ hand["bt"].kind = "packet"
    <3>1. CASE StartLink
      <4>1. /\ Event("link", hand["bt"].device, 0) \in Calls
            /\ Event("link", hand["bt"].device, 0).kind # "packet"
        BY <3>1 DEF StartLink, Handles, Event, Calls, Deeds, TypeOK, Events
      <4> QED BY <3>1, <4>1 DEF StartLink
    <3>2. CASE ForwardPacket
      <4>1. hand["bt"] \in Calls
        BY <3>2 DEF ForwardPacket, Handles, TypeOK, Events, Calls, Deeds
      <4> QED BY <3>2, <4>1 DEF ForwardPacket, Handles
    <3> QED BY <1>2, <3>1, <3>2
  <2>2. UNCHANGED <<buffer, offered>>
    BY <1>2 DEF StartLink, ForwardPacket, flowVars
  <2>3. at'["bt"] \notin {"handle", "device"} /\ (UNCHANGED calls \/ Record("bt", e))
    BY <2>1 DEF CallPeer, Done, GoTo, TypeOK
  <2>4. CASE UNCHANGED calls \/ e.kind # "packet"
    BY <2>2, <2>3, <2>4, HandlerLeavesNothing
  <2>5. CASE Record("bt", e) /\ e.kind = "packet"
    BY <2>1, <2>2, <2>3, <2>5, HandlerPassesOn
  <2> QED BY <2>3, <2>4, <2>5
<1> QED BY <1>1, <1>2 DEF BtActs

LEMMA RepliesWritten ==
    ASSUME TypeOK, ReplyActs
    PROVE  KeepsOrLoses("rpc", "reply") \/ Leaves("rpc", "reply")
<1> USE FlowNames
<1>1. CASE ReadDevice
  <2>1. UNCHANGED <<buffer, offered, calls>> /\ at["rpc"] = "handle"
    BY <1>1 DEF ReadDevice, Handles, flowVars
  <2>2. \/ at'["rpc"] = "idle"
        \/ at'["rpc"] = "device" /\ hand'["rpc"] = hand["rpc"]
    BY <1>1 DEF ReadDevice, Done, GoTo, TypeOK
  <2>3. InHand("rpc", "reply")' = InHand("rpc", "reply") \/ InHand("rpc", "reply")' = <<>>
    BY <2>1, <2>2 DEF InHand
  <2> QED BY <2>1, <2>3, HandThins DEF KeepsOrLoses
<1>2. CASE Ignore("rpc")
  <2>1. at'["rpc"] \notin {"handle", "device"} /\ UNCHANGED <<buffer, offered, calls>>
    BY <1>2 DEF Ignore, Done, TypeOK, flowVars
  <2> QED BY <2>1, HandlerLeavesNothing
<1>3. CASE RpcActs
  <2>1. UNCHANGED <<buffer, offered>> /\ at'["rpc"] \notin {"handle", "device"}
    <3>1. CASE WriteReply \/ StopRfcomm \/ ConfigureHostapd \/ StartActivity
      BY <3>1 DEF WriteReply, StopRfcomm, ConfigureHostapd, StartActivity, Done, GoTo,
                  TypeOK, flowVars
    <3>2. CASE \E p \in Profiles : DisableProfile(p)
      BY <3>2 DEF DisableProfile, Profiles, ProfileAfter, Done, GoTo, TypeOK, flowVars
    <3> QED BY <1>3, <3>1, <3>2 DEF RpcActs
  <2>2. CASE UNCHANGED calls
    BY <2>1, <2>2, HandlerLeavesNothing
  <2>3. CASE WriteReply /\ ~UNCHANGED calls
    <3> DEFINE e == Event("reply", target, hand["rpc"].n)
    <3>1. /\ Record("rpc", e) /\ at["rpc"] = "device" /\ hand["rpc"].kind = "reply"
          /\ hand["rpc"] \in Events
      BY <2>3 DEF WriteReply, Handles, TypeOK
    <3>2. e \in Calls /\ e.kind = "reply" /\ e.n = hand["rpc"].n
      BY <3>1 DEF Event, Calls, Deeds, TypeOK, Events
    <3> QED BY <2>1, <3>1, <3>2, HandlerPassesOn
  <2>4. CASE ~WriteReply /\ ~UNCHANGED calls
    <3>1. CASE StopRfcomm \/ ConfigureHostapd \/ StartActivity
      <4>1. PICK e \in {Event("stop", target, 0), Event("configure", None, 0),
                        Event("activity", None, 0)} : Record("rpc", e)
        BY <3>1 DEF StopRfcomm, ConfigureHostapd, StartActivity
      <4>2. e \in Calls /\ e.kind # "reply"
        BY <4>1 DEF Event, Calls, Deeds, TypeOK
      <4> QED BY <2>1, <4>1, <4>2, HandlerLeavesNothing
    <3>2. CASE \E p \in Profiles : DisableProfile(p)
      <4>1. PICK p \in Profiles : DisableProfile(p)
        BY <3>2
      <4> DEFINE e == Event(p, hand["rpc"].device, 0)
      <4>2. hand["rpc"].device \in Devices \cup {None}
        BY <4>1 DEF DisableProfile, TypeOK, Events, Profiles, ProfileAfter
      <4>3. e \in Calls /\ e.kind # "reply" /\ Record("rpc", e)
        BY <4>1, <4>2 DEF DisableProfile, Event, Calls, Deeds, Profiles, ProfileAfter
      <4> QED BY <2>1, <4>3, HandlerLeavesNothing
    <3> QED BY <1>3, <2>4, <3>1, <3>2 DEF RpcActs
  <2> QED BY <2>2, <2>3, <2>4
<1> QED BY <1>1, <1>2, <1>3 DEF ReplyActs

LEMMA TouchesSent ==
    ASSUME TypeOK, TouchActs
    PROVE  KeepsOrLoses("ui", "touch") \/ Leaves("ui", "touch")
<1> USE FlowNames
<1>1. CASE CallReturns("ui")
  <2>1. at'["ui"] \notin {"handle", "device"} /\ UNCHANGED <<buffer, offered, calls>>
    BY <1>1 DEF CallReturns, Done, GoTo, TypeOK, flowVars
  <2> QED BY <2>1, HandlerLeavesNothing
<1>2. CASE TouchScreen
  <2> DEFINE e == hand["ui"]
  <2>1. e \in Calls /\ e.kind = "touch" /\ at["ui"] = "handle"
    BY <1>2 DEF TouchScreen, Handles, TypeOK, Events, Calls, Deeds
  <2>2. /\ UNCHANGED <<buffer, offered>> /\ at'["ui"] \notin {"handle", "device"}
        /\ UNCHANGED calls \/ Record("ui", e)
    BY <1>2 DEF TouchScreen, CallPeer, Done, GoTo, TypeOK, flowVars
  <2>3. CASE UNCHANGED calls
    BY <2>2, <2>3, HandlerLeavesNothing
  <2>4. CASE Record("ui", e)
    BY <2>1, <2>2, <2>4, HandlerPassesOn
  <2> QED BY <2>2, <2>3, <2>4
<1> QED BY <1>1, <1>2 DEF TouchActs

-----------------------------------------------------------------------------
(* The pipes. *)

LEMMA OneFlowPipes ==
    ASSUME TypeOK, [Next]_vars, NEW f \in {"rpc", "ui"}, NEW kind,
           f = "rpc" => kind = "reply", f = "ui" => kind = "touch"
    PROVE  KeepsOrLoses(f, kind) \/ Enters(f, kind) \/ Leaves(f, kind)
<1> USE FlowNames
<1>1. CASE Untouched(f)
  BY <1>1, UntouchedKeeps
<1>2. CASE \E g \in Flows : Acts(g)
  <2>1. PICK g \in Flows : Acts(g)
    BY <1>2
  <2>2. CASE g # f
    BY <2>1, <2>2, ActsAlone, UntouchedKeeps
  <2>3. CASE g = f
    <3>1. CASE Take(f)
      BY <3>1, TakeKeeps
    <3>2. CASE \E k \in KindsOf[f], d \in Devices \cup {None} : Offer(f, k, d)
      BY <3>2, OfferEnters
    <3>3. CASE f = "rpc" /\ ReplyActs
      BY <3>3, RepliesWritten
    <3>4. CASE f = "ui" /\ TouchActs
      BY <3>4, TouchesSent
    <3> QED BY <2>1, <2>3, <3>1, <3>2, <3>3, <3>4 DEF Acts
  <2> QED BY <2>2, <2>3
<1>3. CASE RelayPacket
  <2>1. Emit("bt", hand["rfcomm"]) /\ Done("rfcomm") /\ UNCHANGED <<offered, calls>>
    BY <1>3 DEF RelayPacket
  <2>2. f # "bt" /\ f # "rfcomm" /\ f \in Flows
    OBVIOUS
  <2>3. UNCHANGED <<hand[f], at[f]>>
    BY <2>1, <2>2, OthersStay
  <2>4. UNCHANGED buffer[f]
    BY <2>1, <2>2, OthersStay
  <2>5. Untouched(f)
    BY <2>1, <2>3, <2>4 DEF Untouched
  <2> QED BY <2>2, <2>5, UntouchedKeeps
<1> QED BY <1>1, <1>2, <1>3, FlowSteps

Packets == Transit("bt", "packet") \o Transit("rfcomm", "packet")
Forwarded == Numbers(calls["bt"], "packet")

PacketsMove ==
    \/ Thinned(Packets, Packets') /\ UNCHANGED <<offered["rfcomm"], Forwarded>>
    \/ /\ Thinned(Packets \o <<offered'["rfcomm"]>>, Packets')
       /\ offered'["rfcomm"] = offered["rfcomm"] + 1
       /\ UNCHANGED Forwarded
    \/ /\ \E n \in Nat : Packets = <<n>> \o Packets' /\ Forwarded' = Append(Forwarded, n)
       /\ UNCHANGED offered["rfcomm"]

LEMMA RelayLoses ==
    ASSUME TypeOK, TypeOK', RelayPacket
    PROVE  Thinned(Packets, Packets') /\ UNCHANGED <<offered["rfcomm"], Forwarded>>
<1> USE FlowNames
<1> DEFINE e == hand["rfcomm"]
           t == Transit("bt", "packet")
           u == Transit("rfcomm", "packet")'
           v == Transit("bt", "packet")'
           n == <<e.n>>
<1>1. /\ e \in Events /\ e.kind = "packet" /\ at["rfcomm"] = "handle"
      /\ Emit("bt", e) /\ Done("rfcomm") /\ UNCHANGED <<offered, calls>>
  BY DEF RelayPacket, Handles, TypeOK
<1>2. UNCHANGED <<hand["bt"], at["bt"]>> /\ at'["rfcomm"] = "idle"
  BY <1>1 DEF Done, TypeOK
<1>3. e.n \in Nat /\ Number(e, "packet") = n /\ n \in Seq(Nat)
  BY <1>1, EventsNumbered DEF Number
<1>4. Thinned(t \o n, v)
  BY <1>1, <1>2, <1>3, EmitThinsTransit
<1>5. Transit("rfcomm", "packet") = n \o u
  <2>1. InHand("rfcomm", "packet") = n /\ InHand("rfcomm", "packet")' = <<>>
    BY <1>1, <1>2, <1>3 DEF InHand
  <2>2. UNCHANGED buffer["rfcomm"]
    BY <1>1, OthersStay
  <2> QED BY <1>3, <2>1, <2>2, HandDelivers
<1>6. t \in Seq(Nat)
  BY TransitTyped
<1>7. u \in Seq(Nat) /\ v \in Seq(Nat)
  BY TransitsAreTypedNext DEF TransitsTyped
<1>8. Packets = t \o (n \o u) /\ Packets' = v \o u
  BY <1>5 DEF Packets
<1> HIDE DEF t, u, v, n, e
<1>9. (t \o n) \o u = t \o (n \o u)
  BY <1>3, <1>6, <1>7, Regroup
<1>10. Thinned((t \o n) \o u, v \o u)
  <2>1. t \o n \in Seq(Nat)
    BY <1>3, <1>6, Joined
  <2>2. Thinned(u, u)
    BY <1>7, ThinnedReflexive
  <2> QED BY <1>4, <1>7, <2>1, <2>2, ThinnedJoined
<1>11. Thinned(Packets, Packets')
  BY <1>8, <1>9, <1>10
<1> QED BY <1>1, <1>11 DEF Forwarded

\* What happens on either half of the packets' way.
LEMMA PacketsJoined ==
    ASSUME TypeOK, TypeOK',
           \/ KeepsOrLoses("bt", "packet") \/ Leaves("bt", "packet")
           \/ /\ Thinned(Transit("bt", "packet"), Transit("bt", "packet")')
              /\ UNCHANGED Forwarded,
           KeepsOrLoses("rfcomm", "packet") \/ Enters("rfcomm", "packet"),
           Leaves("bt", "packet") =>
              UNCHANGED <<Transit("rfcomm", "packet"), offered["rfcomm"]>>
    PROVE  PacketsMove
<1> USE FlowNames
<1> DEFINE s == Transit("bt", "packet")
           t == Transit("rfcomm", "packet")
           u == Transit("bt", "packet")'
           v == Transit("rfcomm", "packet")'
           n == <<offered'["rfcomm"]>>
<1>1. s \in Seq(Nat)
  BY TransitTyped
<1>2. t \in Seq(Nat)
  BY TransitTyped
<1>3. u \in Seq(Nat) /\ v \in Seq(Nat)
  BY TransitsAreTypedNext DEF TransitsTyped
<1>4. n \in Seq(Nat)
  BY DEF TypeOK
<1>5. Packets = s \o t /\ Packets' = u \o v
  BY DEF Packets
<1>6. CASE Leaves("bt", "packet")
  <2>1. PICK m \in Nat : s = <<m>> \o u /\ Forwarded' = Append(Forwarded, m)
    BY <1>6 DEF Leaves, Forwarded
  <2>2. v = t /\ UNCHANGED offered["rfcomm"]
    BY <1>6
  <2> DEFINE w == <<m>>
  <2>3. w \in Seq(Nat)
    OBVIOUS
  <2>4. s = w \o u
    BY <2>1
  <2> HIDE DEF s, t, u, v, w
  <2>5. (w \o u) \o v = w \o (u \o v)
    BY <2>3, <1>3, Regroup
  <2>6. Packets = w \o Packets'
    BY <1>5, <2>2, <2>4, <2>5
  <2> QED BY <2>1, <2>2, <2>6 DEF PacketsMove, w
<1>7. CASE ~Leaves("bt", "packet")
  <2>1. Thinned(s, u) /\ UNCHANGED Forwarded
    BY <1>7 DEF KeepsOrLoses, Forwarded
  <2>2. CASE KeepsOrLoses("rfcomm", "packet")
    <3>1. Thinned(t, v) /\ UNCHANGED offered["rfcomm"]
      BY <2>2 DEF KeepsOrLoses
    <3> HIDE DEF s, t, u, v
    <3>2. Thinned(s \o t, u \o v)
      BY <1>1, <1>2, <1>3, <2>1, <3>1, ThinnedJoined
    <3> QED BY <1>5, <2>1, <3>1, <3>2 DEF PacketsMove
  <2>3. CASE Enters("rfcomm", "packet")
    <3>1. Thinned(t \o n, v) /\ offered'["rfcomm"] = offered["rfcomm"] + 1
      BY <2>3 DEF Enters
    <3> HIDE DEF s, t, u, v, n
    <3>2. t \o n \in Seq(Nat)
      BY <1>2, <1>4, Joined
    <3>3. Thinned(s \o (t \o n), u \o v)
      BY <1>1, <1>3, <2>1, <3>1, <3>2, ThinnedJoined
    <3>4. (s \o t) \o n = s \o (t \o n)
      BY <1>1, <1>2, <1>4, Regroup
    <3>5. Thinned(Packets \o n, Packets')
      BY <1>5, <3>3, <3>4
    <3> QED BY <2>1, <3>1, <3>5 DEF PacketsMove, n
  <2> QED BY <2>2, <2>3
<1> QED BY <1>6, <1>7

LEMMA PacketsStep ==
    ASSUME TypeOK, TypeOK', [Next]_vars
    PROVE  PacketsMove
<1> USE FlowNames
<1>1. CASE \A f \in Flows : Untouched(f)
  <2>1. KeepsOrLoses("bt", "packet") /\ KeepsOrLoses("rfcomm", "packet")
    BY <1>1, UntouchedKeeps
  <2>2. UNCHANGED <<Transit("rfcomm", "packet"), offered["rfcomm"]>>
    BY <1>1, UntouchedKeeps DEF Untouched
  <2> QED BY <2>1, <2>2, PacketsJoined
<1>2. CASE \E g \in Flows : Acts(g)
  <2>1. PICK g \in Flows : Acts(g)
    BY <1>2
  <2>2. CASE g = "bt"
    <3>1. /\ KeepsOrLoses("rfcomm", "packet")
          /\ UNCHANGED <<Transit("rfcomm", "packet"), offered["rfcomm"]>>
      <4>1. Untouched("rfcomm")
        BY <2>1, <2>2, ActsAlone
      <4> QED BY <4>1, UntouchedKeeps DEF Untouched
    <3>2. CASE Take("bt")
      BY <3>1, <3>2, TakeKeeps, PacketsJoined
    <3>3. CASE BtActs
      BY <3>1, <3>3, PacketsForwarded, PacketsJoined
    <3>4. CASE \E k \in KindsOf["bt"], d \in Devices \cup {None} :
                  Offer("bt", k, d) /\ k # "packet"
      <4>1. Thinned(Transit("bt", "packet"), Transit("bt", "packet")') /\ UNCHANGED Forwarded
        BY <3>4, OfferEnters DEF Forwarded
      <4> QED BY <3>1, <4>1, PacketsJoined
    <3> QED BY <2>1, <2>2, <3>2, <3>3, <3>4 DEF Acts
  <2>3. CASE g # "bt"
    <3>1. KeepsOrLoses("bt", "packet") /\ ~Leaves("bt", "packet")
      <4>1. Untouched("bt")
        BY <2>1, <2>3, ActsAlone
      <4>2. Numbers(calls["bt"], "packet")' = Numbers(calls["bt"], "packet")
        BY <4>1 DEF Untouched
      <4>3. Numbers(calls["bt"], "packet") \in Seq(Nat)
        BY TransitTyped
      <4> DEFINE c == Numbers(calls["bt"], "packet")
      <4> HIDE DEF c
      <4>4. \A n \in Nat : c \in Seq(Nat) => Append(c, n) # c
        OBVIOUS
      <4>5. \A n \in Nat : Append(Numbers(calls["bt"], "packet"), n) # Numbers(calls["bt"], "packet")
        BY <4>3, <4>4 DEF c
      <4> QED BY <4>1, <4>2, <4>5, UntouchedKeeps DEF Leaves
    <3>2. CASE g # "rfcomm"
      <4>1. Untouched("rfcomm")
        BY <2>1, <3>2, ActsAlone
      <4> QED BY <3>1, <4>1, UntouchedKeeps, PacketsJoined
    <3>3. CASE g = "rfcomm"
      <4>1. KeepsOrLoses("rfcomm", "packet") \/ Enters("rfcomm", "packet")
        BY <2>1, <3>3, TakeKeeps, OfferEnters DEF Acts
      <4> QED BY <3>1, <4>1, PacketsJoined
    <3> QED BY <3>2, <3>3
  <2> QED BY <2>2, <2>3
<1>3. CASE RelayPacket
  BY <1>3, RelayLoses DEF PacketsMove
<1> QED BY <1>1, <1>2, <1>3, FlowSteps

LEMMA SameThinned ==
    \A s, t : /\ PacketPipe!Thinned(s, t) <=> Thinned(s, t)
              /\ ReplyPipe!Thinned(s, t) <=> Thinned(s, t)
              /\ TouchPipe!Thinned(s, t) <=> Thinned(s, t)
BY DEF Thinned, PacketPipe!Thinned, ReplyPipe!Thinned, TouchPipe!Thinned

\* A number behind others, and one before.
LEMMA AsItems ==
    ASSUME NEW s \in Seq(Nat), NEW n \in Nat
    PROVE  /\ s \o <<n>> = Append(s, n)
           /\ <<n>> \o s # <<>> /\ Head(<<n>> \o s) = n /\ Tail(<<n>> \o s) = s
OBVIOUS

LEMMA EmptyAtStart ==
    ASSUME Init, NEW f \in Flows, NEW kind
    PROVE  Transit(f, kind) = <<>> /\ Numbers(calls[f], kind) = <<>> /\ offered[f] = 0
<1>1. buffer[f] = <<>> /\ calls[f] = <<>> /\ at[f] = "idle" /\ offered[f] = 0
  BY DEF Init
<1>2. Numbers(<<>>, kind) = <<>>
  BY NoNumbers
<1>3. InHand(f, kind) = <<>>
  BY <1>1 DEF InHand
<1>4. <<>> \in Seq(Nat)
  OBVIOUS
<1> QED BY <1>1, <1>2, <1>3, <1>4, EmptyJoined DEF Transit

LEMMA PacketPipeSteps ==
    /\ Init => PacketPipe!Init
    /\ TypeOK /\ TypeOK' /\ [Next]_vars => PacketPipe!Next
<1> USE FlowNames
<1>1. ASSUME Init PROVE PacketPipe!Init
  <2>1. /\ Transit("bt", "packet") = <<>> /\ Transit("rfcomm", "packet") = <<>>
        /\ Numbers(calls["bt"], "packet") = <<>> /\ offered["rfcomm"] = 0
    BY <1>1, EmptyAtStart
  <2>2. <<>> \in Seq(Nat)
    OBVIOUS
  <2> QED BY <2>1, <2>2, EmptyJoined DEF PacketPipe!Init
<1>2. ASSUME TypeOK, TypeOK', [Next]_vars PROVE PacketPipe!Next
  <2>1. PacketsMove
    BY <1>2, PacketsStep
  <2>2. Packets \in Seq(Nat)
    BY <1>2, TransitTyped, Joined DEF Packets
  <2>3. Packets' \in Seq(Nat)
    <3>1. Transit("bt", "packet")' \in Seq(Nat) /\ Transit("rfcomm", "packet")' \in Seq(Nat)
      BY <1>2, TransitsAreTypedNext DEF TransitsTyped
    <3> QED BY <3>1, Joined DEF Packets
  <2>4. offered["rfcomm"] \in Nat
    BY <1>2 DEF TypeOK
  <2>5. CASE Thinned(Packets, Packets') /\ UNCHANGED <<offered["rfcomm"], Forwarded>>
    BY <2>3, <2>5, SameThinned DEF PacketPipe!Next, PacketPipe!Lose, Packets, Forwarded
  <2>6. CASE /\ Thinned(Packets \o <<offered'["rfcomm"]>>, Packets')
             /\ offered'["rfcomm"] = offered["rfcomm"] + 1
             /\ UNCHANGED Forwarded
    <3>1. offered'["rfcomm"] \in Nat /\ offered'["rfcomm"] > offered["rfcomm"]
      BY <2>4, <2>6
    <3>2. PacketPipe!Thinned(Append(Packets, offered'["rfcomm"]), Packets')
      BY <2>2, <2>6, <3>1, AsItems, SameThinned
    <3> QED BY <2>3, <2>6, <3>1, <3>2 DEF PacketPipe!Next, PacketPipe!Put, Packets, Forwarded
  <2>7. CASE /\ \E n \in Nat : Packets = <<n>> \o Packets' /\ Forwarded' = Append(Forwarded, n)
             /\ UNCHANGED offered["rfcomm"]
    <3>1. PICK n \in Nat : Packets = <<n>> \o Packets' /\ Forwarded' = Append(Forwarded, n)
      BY <2>7
    <3>2. Packets # <<>> /\ Head(Packets) = n /\ Tail(Packets) = Packets'
      BY <2>3, <3>1, AsItems
    <3> QED BY <2>7, <3>1, <3>2 DEF PacketPipe!Next, PacketPipe!Deliver, Packets, Forwarded
  <2> QED BY <2>1, <2>5, <2>6, <2>7 DEF PacketsMove
<1> QED BY <1>1, <1>2

LEMMA ReplyPipeSteps ==
    /\ Init => ReplyPipe!Init
    /\ TypeOK /\ TypeOK' /\ [Next]_vars => ReplyPipe!Next
<1> USE FlowNames
<1>1. ASSUME Init PROVE ReplyPipe!Init
  BY <1>1, EmptyAtStart DEF ReplyPipe!Init
<1>2. ASSUME TypeOK, TypeOK', [Next]_vars PROVE ReplyPipe!Next
  <2> DEFINE t == Transit("rpc", "reply")
             u == Transit("rpc", "reply")'
  <2>1. t \in Seq(Nat)
    BY <1>2, TransitTyped
  <2>2. u \in Seq(Nat)
    BY <1>2, TransitsAreTypedNext DEF TransitsTyped
  <2>3. offered["rpc"] \in Nat
    BY <1>2 DEF TypeOK
  <2>4. CASE KeepsOrLoses("rpc", "reply")
    BY <2>2, <2>4, SameThinned DEF ReplyPipe!Next, ReplyPipe!Lose, KeepsOrLoses
  <2>5. CASE Enters("rpc", "reply")
    <3>1. /\ Thinned(t \o <<offered'["rpc"]>>, u)
          /\ offered'["rpc"] \in Nat /\ offered'["rpc"] > offered["rpc"]
      BY <2>3, <2>5 DEF Enters
    <3> HIDE DEF t, u
    <3>2. ReplyPipe!Thinned(Append(t, offered'["rpc"]), u)
      BY <2>1, <3>1, AsItems, SameThinned
    <3> QED BY <2>2, <2>5, <3>1, <3>2 DEF ReplyPipe!Next, ReplyPipe!Put, Enters, t, u
  <2>6. CASE Leaves("rpc", "reply")
    <3>1. PICK n \in Nat :
             /\ t = <<n>> \o u
             /\ Numbers(calls["rpc"], "reply")' = Append(Numbers(calls["rpc"], "reply"), n)
      BY <2>6 DEF Leaves
    <3> HIDE DEF t, u
    <3>2. t # <<>> /\ Head(t) = n /\ Tail(t) = u
      BY <2>2, <3>1, AsItems
    <3> QED BY <2>6, <3>1, <3>2 DEF ReplyPipe!Next, ReplyPipe!Deliver, Leaves, t, u
  <2>7. KeepsOrLoses("rpc", "reply") \/ Enters("rpc", "reply") \/ Leaves("rpc", "reply")
    BY <1>2, OneFlowPipes
  <2> QED BY <2>4, <2>5, <2>6, <2>7
<1> QED BY <1>1, <1>2

LEMMA TouchPipeSteps ==
    /\ Init => TouchPipe!Init
    /\ TypeOK /\ TypeOK' /\ [Next]_vars => TouchPipe!Next
<1> USE FlowNames
<1>1. ASSUME Init PROVE TouchPipe!Init
  BY <1>1, EmptyAtStart DEF TouchPipe!Init
<1>2. ASSUME TypeOK, TypeOK', [Next]_vars PROVE TouchPipe!Next
  <2> DEFINE t == Transit("ui", "touch")
             u == Transit("ui", "touch")'
  <2>1. t \in Seq(Nat)
    BY <1>2, TransitTyped
  <2>2. u \in Seq(Nat)
    BY <1>2, TransitsAreTypedNext DEF TransitsTyped
  <2>3. offered["ui"] \in Nat
    BY <1>2 DEF TypeOK
  <2>4. CASE KeepsOrLoses("ui", "touch")
    BY <2>2, <2>4, SameThinned DEF TouchPipe!Next, TouchPipe!Lose, KeepsOrLoses
  <2>5. CASE Enters("ui", "touch")
    <3>1. /\ Thinned(t \o <<offered'["ui"]>>, u)
          /\ offered'["ui"] \in Nat /\ offered'["ui"] > offered["ui"]
      BY <2>3, <2>5 DEF Enters
    <3> HIDE DEF t, u
    <3>2. TouchPipe!Thinned(Append(t, offered'["ui"]), u)
      BY <2>1, <3>1, AsItems, SameThinned
    <3> QED BY <2>2, <2>5, <3>1, <3>2 DEF TouchPipe!Next, TouchPipe!Put, Enters, t, u
  <2>6. CASE Leaves("ui", "touch")
    <3>1. PICK n \in Nat :
             /\ t = <<n>> \o u
             /\ Numbers(calls["ui"], "touch")' = Append(Numbers(calls["ui"], "touch"), n)
      BY <2>6 DEF Leaves
    <3> HIDE DEF t, u
    <3>2. t # <<>> /\ Head(t) = n /\ Tail(t) = u
      BY <2>2, <3>1, AsItems
    <3> QED BY <2>6, <3>1, <3>2 DEF TouchPipe!Next, TouchPipe!Deliver, Leaves, t, u
  <2>7. KeepsOrLoses("ui", "touch") \/ Enters("ui", "touch") \/ Leaves("ui", "touch")
    BY <1>2, OneFlowPipes
  <2> QED BY <2>4, <2>5, <2>6, <2>7
<1> QED BY <1>1, <1>2

\* The chains of flows between the RFCOMM socket, the peer and the touch screen are
\* lossy pipes: every step of the runtime puts an item in, loses items, or takes the
\* oldest out, and no interleaving of the collectors repeats one, invents one or
\* lets one overtake another.
THEOREM FlowsImplementPipes == Spec => FlowsOnlyLose
<1>1. Init => PacketPipe!Init /\ ReplyPipe!Init /\ TouchPipe!Init
  BY PacketPipeSteps, ReplyPipeSteps, TouchPipeSteps
<1>2. TypeOK /\ TypeOK' /\ [Next]_vars =>
         /\ [PacketPipe!Next]_PacketPipe!vars
         /\ [ReplyPipe!Next]_ReplyPipe!vars
         /\ [TouchPipe!Next]_TouchPipe!vars
  BY PacketPipeSteps, ReplyPipeSteps, TouchPipeSteps
<1> QED
  BY <1>1, <1>2, RuntimeTypeCorrect, PTL
  DEF Spec, FlowsOnlyLose, PacketPipe!Spec, ReplyPipe!Spec, TouchPipe!Spec

-----------------------------------------------------------------------------
(* What a lossy pipe promises the reader at its end.                       *)

Increasing(s) == \A i, j \in DOMAIN s : i < j => s[i] < s[j]

\* The items on their way are newer than those that came out and none is newer
\* than the last that was put in, so that what comes out next is in order.
PipeSafe(p, t, d) ==
    /\ p \in Nat /\ t \in Seq(Nat) /\ d \in Seq(Nat)
    /\ Increasing(t) /\ Increasing(d)
    /\ \A i \in DOMAIN t : t[i] <= p
    /\ \A i \in DOMAIN d : d[i] <= p
    /\ \A i \in DOMAIN d, j \in DOMAIN t : d[i] < t[j]

\* The steps of LossyPipe, from one value of its variables to another.
Put(p, t, d, p1, t1, d1) ==
    p1 \in Nat /\ p1 > p /\ t1 \in Seq(Nat) /\ Thinned(Append(t, p1), t1) /\ d1 = d
Lose(p, t, d, p1, t1, d1) ==
    t1 \in Seq(Nat) /\ Thinned(t, t1) /\ p1 = p /\ d1 = d
Deliver(p, t, d, p1, t1, d1) ==
    t # <<>> /\ d1 = Append(d, Head(t)) /\ t1 = Tail(t) /\ p1 = p
PipeMoves(p, t, d, p1, t1, d1) ==
    \/ Put(p, t, d, p1, t1, d1)
    \/ Lose(p, t, d, p1, t1, d1)
    \/ Deliver(p, t, d, p1, t1, d1)
    \/ p1 = p /\ t1 = t /\ d1 = d

\* Losing items adds none and keeps the order of the others.
LEMMA ThinnedKeepsOrder ==
    ASSUME NEW s \in Seq(Nat), NEW t \in Seq(Nat), Thinned(s, t)
    PROVE  /\ \A i \in DOMAIN t : \E j \in DOMAIN s : t[i] = s[j]
           /\ Increasing(s) => Increasing(t)
<1>1. PICK e \in [1..Len(t) -> 1..Len(s)] :
         /\ \A i, j \in 1..Len(t) : i < j => e[i] < e[j]
         /\ \A i \in 1..Len(t) : t[i] = s[e[i]]
  BY DEF Thinned, PacketPipe!Thinned
<1>2. DOMAIN t = 1..Len(t) /\ DOMAIN s = 1..Len(s)
  OBVIOUS
<1> QED BY <1>1, <1>2 DEF Increasing

LEMMA PipeStaysSafe ==
    ASSUME NEW p, NEW t, NEW d, NEW p1, NEW t1, NEW d1,
           PipeSafe(p, t, d), PipeMoves(p, t, d, p1, t1, d1)
    PROVE  PipeSafe(p1, t1, d1)
<1>1. CASE Put(p, t, d, p1, t1, d1)
  <2> DEFINE s == Append(t, p1)
  <2>1. p1 \in Nat /\ p1 > p /\ p \in Nat /\ t1 \in Seq(Nat) /\ Thinned(s, t1) /\ d1 = d
    BY <1>1 DEF Put, PipeSafe
  <2>0. t \in Seq(Nat) /\ \A i \in DOMAIN t : t[i] \in Nat /\ t[i] <= p
    BY DEF PipeSafe
  <2>a. DOMAIN t = 1..Len(t) /\ Len(t) \in Nat
    BY <2>0
  <2>b. /\ s \in Seq(Nat) /\ DOMAIN s = DOMAIN t \cup {Len(t) + 1}
        /\ \A i \in DOMAIN t : s[i] = t[i] /\ i <= Len(t)
        /\ s[Len(t) + 1] = p1
    BY <2>1, <2>0
  <2>2. /\ s \in Seq(Nat)
        /\ \A i \in DOMAIN s : s[i] = p1 \/ \E j \in DOMAIN t : s[i] = t[j]
        /\ Increasing(s)
    <3>1. \A i \in DOMAIN s : s[i] = p1 \/ \E j \in DOMAIN t : s[i] = t[j]
      BY <2>b
    <3>2. Increasing(t)
      BY DEF PipeSafe
    <3>3. Increasing(s)
      <4> HIDE DEF s
      <4> SUFFICES ASSUME NEW i \in DOMAIN s, NEW j \in DOMAIN s, i < j PROVE s[i] < s[j]
        BY DEF Increasing
      <4>1. i \in DOMAIN t
        BY <2>b, <2>a
      <4>2. CASE j \in DOMAIN t
        BY <4>1, <4>2, <3>2, <2>b DEF Increasing
      <4>3. CASE j = Len(t) + 1
        BY <4>1, <4>3, <2>0, <2>b, <2>1
      <4> QED BY <4>2, <4>3, <2>b
    <3> QED BY <2>b, <3>1, <3>3
  <2> HIDE DEF s
  <2>3. /\ \A i \in DOMAIN t1 : \E j \in DOMAIN s : t1[i] = s[j]
        /\ Increasing(t1)
    BY <2>1, <2>2, ThinnedKeepsOrder
  <2>4. \A i \in DOMAIN t1 : t1[i] = p1 \/ \E j \in DOMAIN t : t1[i] = t[j]
    BY <2>2, <2>3
  <2>5. \A i \in DOMAIN t : t[i] \in Nat /\ t[i] <= p
    BY DEF PipeSafe
  <2>6. \A i \in DOMAIN d : d[i] \in Nat /\ d[i] <= p /\ \A j \in DOMAIN t : d[i] < t[j]
    BY DEF PipeSafe
  <2>7. \A i \in DOMAIN t1 : t1[i] <= p1
    BY <2>1, <2>4, <2>5
  <2>8. \A i \in DOMAIN d1 : d1[i] <= p1
    BY <2>1, <2>6
  <2>9. \A i \in DOMAIN d1, j \in DOMAIN t1 : d1[i] < t1[j]
    BY <2>1, <2>4, <2>6
  <2>10. d1 \in Seq(Nat) /\ Increasing(d1)
    BY <2>1 DEF PipeSafe
  <2> QED BY <2>1, <2>3, <2>7, <2>8, <2>9, <2>10 DEF PipeSafe
<1>2. CASE Lose(p, t, d, p1, t1, d1)
  <2>1. t \in Seq(Nat) /\ t1 \in Seq(Nat) /\ Thinned(t, t1) /\ p1 = p /\ d1 = d
    BY <1>2 DEF Lose, PipeSafe
  <2>2. /\ \A i \in DOMAIN t1 : \E j \in DOMAIN t : t1[i] = t[j]
        /\ Increasing(t1)
    BY <2>1, ThinnedKeepsOrder DEF PipeSafe
  <2> QED BY <2>1, <2>2 DEF PipeSafe
<1>3. CASE Deliver(p, t, d, p1, t1, d1)
  <2>1. /\ t \in Seq(Nat) /\ t # <<>> /\ d \in Seq(Nat)
        /\ d1 = Append(d, t[1]) /\ t1 = Tail(t) /\ p1 = p
    BY <1>3 DEF Deliver, PipeSafe
  <2>2. /\ t1 \in Seq(Nat) /\ 1 \in DOMAIN t /\ t[1] \in Nat
        /\ \A i \in DOMAIN t1 : i + 1 \in DOMAIN t /\ t1[i] = t[i + 1]
    BY <2>1
  <2>3. /\ d1 \in Seq(Nat)
        /\ DOMAIN d1 = DOMAIN d \cup {Len(d) + 1}
        /\ \A i \in DOMAIN d : d1[i] = d[i] /\ i <= Len(d)
        /\ d1[Len(d) + 1] = t[1]
    BY <2>1, <2>2
  <2>4. Increasing(t1)
    BY <2>2 DEF PipeSafe, Increasing
  <2>5. \A i \in DOMAIN t1 : t1[i] <= p1 /\ t[1] < t1[i]
    BY <2>1, <2>2 DEF PipeSafe, Increasing
  <2>6. \A i \in DOMAIN d1 : d1[i] <= p1
    BY <2>1, <2>2, <2>3 DEF PipeSafe
  <2>7. \A i \in DOMAIN d1, j \in DOMAIN t1 : d1[i] < t1[j]
    BY <2>2, <2>3, <2>5 DEF PipeSafe
  <2>8. Increasing(d1)
    BY <2>1, <2>2, <2>3 DEF PipeSafe, Increasing
  <2> QED BY <2>1, <2>2, <2>3, <2>4, <2>5, <2>6, <2>7, <2>8 DEF PipeSafe
<1>4. CASE p1 = p /\ t1 = t /\ d1 = d
  BY <1>4
<1> QED BY <1>1, <1>2, <1>3, <1>4 DEF PipeMoves

\* A pipe is safe while nothing has gone in.
LEMMA PipeSafeAtFirst == PipeSafe(0, <<>>, <<>>)
<1>1. <<>> \in Seq(Nat) /\ DOMAIN <<>> = {}
  OBVIOUS
<1> QED BY <1>1 DEF PipeSafe, Increasing

LEMMA PacketInOrder == PacketPipe!Spec => []PacketPipe!InOrder
<1> DEFINE p == offered["rfcomm"]
           t == Transit("bt", "packet") \o Transit("rfcomm", "packet")
           d == Numbers(calls["bt"], "packet")
<1>1. PacketPipe!Init => PipeSafe(p, t, d)
  BY PipeSafeAtFirst DEF PacketPipe!Init
<1>2. PipeSafe(p, t, d) /\ [PacketPipe!Next]_PacketPipe!vars => PipeSafe(p, t, d)'
  <2> SUFFICES ASSUME PipeSafe(p, t, d), [PacketPipe!Next]_PacketPipe!vars PROVE PipeSafe(p', t', d')
    BY DEF PipeSafe, Increasing
  <2>1. PipeMoves(p, t, d, p', t', d')
    BY SameThinned DEF PacketPipe!Next, PacketPipe!Put, PacketPipe!Lose, PacketPipe!Deliver, PacketPipe!vars,
                       PipeMoves, Put, Lose, Deliver
  <2> HIDE DEF p, t, d
  <2> QED BY <2>1, PipeStaysSafe
<1>3. PipeSafe(p, t, d) => PacketPipe!InOrder
  BY DEF PipeSafe, Increasing, PacketPipe!InOrder
<1> HIDE DEF p, t, d
<1> QED BY <1>1, <1>2, <1>3, PTL DEF PacketPipe!Spec

LEMMA ReplyInOrder == ReplyPipe!Spec => []ReplyPipe!InOrder
<1> DEFINE p == offered["rpc"]
           t == Transit("rpc", "reply")
           d == Numbers(calls["rpc"], "reply")
<1>1. ReplyPipe!Init => PipeSafe(p, t, d)
  BY PipeSafeAtFirst DEF ReplyPipe!Init
<1>2. PipeSafe(p, t, d) /\ [ReplyPipe!Next]_ReplyPipe!vars => PipeSafe(p, t, d)'
  <2> SUFFICES ASSUME PipeSafe(p, t, d), [ReplyPipe!Next]_ReplyPipe!vars PROVE PipeSafe(p', t', d')
    BY DEF PipeSafe, Increasing
  <2>1. PipeMoves(p, t, d, p', t', d')
    BY SameThinned DEF ReplyPipe!Next, ReplyPipe!Put, ReplyPipe!Lose, ReplyPipe!Deliver, ReplyPipe!vars,
                       PipeMoves, Put, Lose, Deliver
  <2> HIDE DEF p, t, d
  <2> QED BY <2>1, PipeStaysSafe
<1>3. PipeSafe(p, t, d) => ReplyPipe!InOrder
  BY DEF PipeSafe, Increasing, ReplyPipe!InOrder
<1> HIDE DEF p, t, d
<1> QED BY <1>1, <1>2, <1>3, PTL DEF ReplyPipe!Spec

LEMMA TouchInOrder == TouchPipe!Spec => []TouchPipe!InOrder
<1> DEFINE p == offered["ui"]
           t == Transit("ui", "touch")
           d == Numbers(calls["ui"], "touch")
<1>1. TouchPipe!Init => PipeSafe(p, t, d)
  BY PipeSafeAtFirst DEF TouchPipe!Init
<1>2. PipeSafe(p, t, d) /\ [TouchPipe!Next]_TouchPipe!vars => PipeSafe(p, t, d)'
  <2> SUFFICES ASSUME PipeSafe(p, t, d), [TouchPipe!Next]_TouchPipe!vars PROVE PipeSafe(p', t', d')
    BY DEF PipeSafe, Increasing
  <2>1. PipeMoves(p, t, d, p', t', d')
    BY SameThinned DEF TouchPipe!Next, TouchPipe!Put, TouchPipe!Lose, TouchPipe!Deliver, TouchPipe!vars,
                       PipeMoves, Put, Lose, Deliver
  <2> HIDE DEF p, t, d
  <2> QED BY <2>1, PipeStaysSafe
<1>3. PipeSafe(p, t, d) => TouchPipe!InOrder
  BY DEF PipeSafe, Increasing, TouchPipe!InOrder
<1> HIDE DEF p, t, d
<1> QED BY <1>1, <1>2, <1>3, PTL DEF TouchPipe!Spec

\* What comes out of the flows is in the order in which it went in, each item at
\* most once, although every flow may lose some: the peer gets the packets of the
\* RFCOMM socket through the relay and two flows as they were read, the socket its
\* answers as they came, and the peer the touches as they happened.
THEOREM ItemsInOrder ==
    Spec => [](PacketPipe!InOrder /\ ReplyPipe!InOrder /\ TouchPipe!InOrder)
BY FlowsImplementPipes, PacketInOrder, ReplyInOrder, TouchInOrder, PTL DEF FlowsOnlyLose
=============================================================================
