-------------------------- MODULE HostapdService_proofs --------------------------
(***************************************************************************)
(* Proofs about HostapdService: type correctness, which needs that the     *)
(* information is there when a coroutine stores an address in it; that no  *)
(* request waits for a callback that has come already; that the job which  *)
(* waits for the address is the one of the access point that is up; and    *)
(* that restarts leave the access point up.                                *)
(***************************************************************************)
EXTENDS HostapdService, TLAPS

Labels == {"none", "launched", "off", "on", "configStart", "configStop",
           "register", "stopCall", "stopCallHeard", "stopWait", "stopped",
           "start", "startWait", "hung", "await", "waiting", "resumed",
           "set", "emit", "announced", "started", "done"}

\* Who gets to store an address has seen the information of some broadcast,
\* which is replaced by other information but never goes away.
Informed == {"await", "waiting", "resumed", "set", "emit"}

InfoKnown ==
    /\ received # 0 => info # None
    /\ \A w \in Waiters : pc[w] \in Informed => info # None
    /\ \A j \in Jobs : pc[j] = "launched" => info # None

\* From its registration on, a callback is told when the AP goes down: until
\* then the AP is on, and after stopTethering a stop is on its way.
CallbacksTold ==
    \A r \in Requests :
        /\ pc[r] \in {"stopCall", "stopWait"} => ap = "on"
        /\ pc[r] = "stopWait" => stopping \/ disturbed

TypeInv == TypeOK /\ InfoKnown

\* The last intent on its way tells the state of the AP, unless the receiver is
\* in the middle of it.
IntentsCurrent ==
    ~destroyed =>
       /\ broadcasts # <<>> => broadcasts[Len(broadcasts)] = (IF ap = "on" THEN session ELSE 0)
       /\ broadcasts = <<>> /\ received # 0 => ap = "on" /\ received = session

\* The sessions on their way are in order, and newer than the stored one.
IntentsInOrder ==
    /\ info # None => info.session <= session
    /\ \A i \in 1..Len(broadcasts) :
          broadcasts[i] # 0 => /\ broadcasts[i] <= session
                               /\ info # None => info.session < broadcasts[i]
    /\ \A i, k \in 1..Len(broadcasts) :
          i < k /\ broadcasts[i] # 0 /\ broadcasts[k] # 0 => broadcasts[i] < broadcasts[k]

\* So a session gets its job once, and the job is not cancelled before.
JobsOfStored ==
    /\ received # 0 => info # None /\ info.session = received
    /\ \A j \in Jobs : pc[j] # "none" => info # None /\ j <= info.session /\ j # received
    /\ \A j \in cancelled : pc[j] # "none"

JobInv == IntentsCurrent /\ IntentsInOrder /\ JobsOfStored /\ JobFollowsAp

\* Positions after the configuration was set, and those of a request that has
\* seen the AP off: if it is on again, a request has started it.
Reconfigured == {"register", "stopCall", "stopCallHeard", "stopWait", "stopped", "start",
                 "startWait", "started"}
SawApOff == {"off", "configStart", "start", "stopCallHeard", "stopped", "startWait", "started"}

\* What undisturbed requests do to the AP: a stop has a request behind it that
\* starts the AP again, and they start it with the configuration they have set.
RequestsAgree ==
    /\ ~destroyed
    /\ stopping => \E q \in Requests : pc[q] = "stopWait"
    /\ \A r \in Requests : pc[r] \in Reconfigured => config = "supported"
    /\ \A r \in Requests : pc[r] \in SawApOff /\ ap = "on" => running = "supported"
    /\ \A r \in Requests :
          pc[r] \in {"startWait", "started"} => ap = "on" \/ \E q \in Requests : pc[q] = "stopped"

Undisturbed == ~disturbed => RequestsAgree

-----------------------------------------------------------------------------
(* Sessions, jobs and requests are told apart. *)
LEMMA Names ==
    /\ 0 \in Sessions /\ 1 \in Jobs /\ 1 \in Sessions
    /\ Jobs \subseteq Sessions /\ Sessions \subseteq Nat
    /\ \A s \in Sessions : s # 0 => s \in Jobs
    /\ \A s \in Sessions : s < MaxSessions => s + 1 \in Jobs
    /\ Jobs \subseteq Waiters /\ Requests \subseteq Waiters
    /\ \A j \in Jobs : j \notin Requests
    /\ None \notin Jobs /\ None \notin Infos
    /\ 0 \in 0..MaxUser
BY BoundsAssumption, NamesAssumption DEF Jobs, Sessions, Waiters

(* A step of one coroutine leaves every coroutine at some label. *)
LEMMA GotoTyped ==
    ASSUME pc \in [Waiters -> Labels], NEW w \in Waiters, NEW l \in Labels, Goto(w, l)
    PROVE  pc' \in [Waiters -> Labels]
BY DEF Goto

(* The service starts with nothing known and nobody at work. *)
LEMMA InitTypeInv == Init => TypeInv
<1> SUFFICES ASSUME Init PROVE TypeInv
    OBVIOUS
<1>1. session \in Sessions /\ broadcasts \in Seq(Sessions)
    BY Names DEF Init
<1>2. TypeOK
    BY <1>1, Names DEF Init, TypeOK
<1>3. InfoKnown
    BY Names DEF Init, InfoKnown, Informed
<1> QED
    BY <1>2, <1>3 DEF TypeInv

(* What the AP's coming up and going down do to its own variables. *)
LEMMA ApTyped ==
    ASSUME TypeOK, ComesUp \/ GoesDown
    PROVE  /\ ap' \in {"on", "off"} /\ session' \in Sessions /\ running' \in Types
           /\ address' \in Sessions /\ stopping' \in BOOLEAN /\ broadcasts' \in Seq(Sessions)
           /\ GoesDown => pc' \in [Waiters -> Labels]
<1>1. CASE ComesUp
  <2>1. session + 1 \in Sessions
      BY <1>1, Names DEF ComesUp, TypeOK
  <2>2. broadcasts' \in Seq(Sessions)
      BY <1>1, <2>1 DEF ComesUp, TypeOK
  <2>3. ComesUp /\ GoesDown => FALSE
      BY DEF ComesUp, GoesDown
  <2> QED
      BY <1>1, <2>1, <2>2, <2>3 DEF ComesUp, TypeOK
<1>2. CASE GoesDown
  <2>1. broadcasts' \in Seq(Sessions)
      BY <1>2, Names DEF GoesDown, TypeOK
  <2>2. pc' \in [Waiters -> Labels]
      BY <1>2 DEF GoesDown, TypeOK, Labels
  <2> QED
      BY <1>2, <2>1, <2>2, Names DEF GoesDown, TypeOK
<1> QED
    BY <1>1, <1>2

(* What onReceive stores is about the session of its intent. *)
LEMMA StoredInfo ==
    ASSUME TypeOK, StoreInfo
    PROVE  /\ Head(broadcasts) \in Jobs
           /\ \/ info' \in Infos /\ info'.session = Head(broadcasts)
              \/ UNCHANGED <<info, received>>
<1>a. broadcasts \in Seq(Sessions) /\ broadcasts # <<>> /\ Head(broadcasts) # 0
    BY DEF StoreInfo, TypeOK
<1>b. Head(broadcasts) \in Sessions
    BY <1>a
<1>1. Head(broadcasts) \in Jobs
    BY <1>a, <1>b, Names
<1>2. [type |-> config, session |-> Head(broadcasts), address |-> address] \in Infos
    BY <1>1 DEF TypeOK, Infos
<1> QED
    BY <1>1, <1>2 DEF StoreInfo

(* Every step of the receiver, the coroutines and the AP keeps the types. *)
LEMMA NextTypeOK == TypeInv /\ [Next]_vars => TypeOK'
<1> SUFFICES ASSUME TypeInv, [Next]_vars PROVE TypeOK'
    OBVIOUS
<1>a. TypeOK /\ InfoKnown
    BY DEF TypeInv
<1>b. pc \in [Waiters -> Labels] /\ heard \in [Waiters -> Sessions]
    BY <1>a DEF TypeOK, Labels
<1>c. ASSUME pc' \in [Waiters -> Labels],
             UNCHANGED <<ap, session, running, address, broadcasts, received, ipv6Job>>,
             cancelled' \subseteq Jobs, heard' \in [Waiters -> Sessions],
             config' \in Types, stopping' \in BOOLEAN,
             destroyed' \in BOOLEAN, userSteps' \in 0..MaxUser, disturbed' \in BOOLEAN,
             crashed' \in BOOLEAN,
             info' \in Infos \cup {None}, announced' \in Infos \cup {None}
      PROVE  TypeOK'
    BY <1>a, <1>c DEF TypeOK, Labels
<1>1. CASE StoreInfo
  <2>1. broadcasts' \in Seq(Sessions) /\ Head(broadcasts) \in Sessions
      BY <1>1, <1>a DEF StoreInfo, TypeOK
  <2>2. info' \in Infos \cup {None}
      BY <1>1, <1>a, StoredInfo DEF TypeOK
  <2>3. received' \in Sessions
      BY <1>1, <1>a, <2>1, Names DEF StoreInfo, TypeOK
  <2> QED
      BY <1>1, <1>a, <2>1, <2>2, <2>3 DEF StoreInfo, TypeOK
<1>2. CASE LaunchJob
  <2>1. received \in Jobs
      BY <1>2, <1>a, Names DEF LaunchJob, TypeOK
  <2>2. pc' \in [Waiters -> Labels]
      BY <1>2, <1>b, Names, <2>1 DEF LaunchJob, Labels
  <2>3. cancelled' \subseteq Jobs
      BY <1>2, <1>a DEF LaunchJob, TypeOK
  <2> QED
      BY <1>2, <1>a, <2>1, <2>2, <2>3, Names DEF LaunchJob, TypeOK, Labels, apVars
<1>3. CASE ReceiveDisabled
  <2>1. broadcasts' \in Seq(Sessions)
      BY <1>3, <1>a DEF ReceiveDisabled, TypeOK
  <2>2. cancelled' \subseteq Jobs /\ ipv6Job' \in Jobs \cup {None}
      BY <1>3, <1>a DEF ReceiveDisabled, TypeOK
  <2> QED
      BY <1>3, <1>a, <2>1, <2>2 DEF ReceiveDisabled, TypeOK
<1>4. CASE Destroy
  <2>1. broadcasts' \in Seq(Sessions)
      BY <1>4 DEF Destroy
  <2> QED
      BY <1>4, <1>a, <2>1 DEF Destroy, TypeOK, mainVars
<1>5. ASSUME NEW w \in Waiters, Wait(w) PROVE TypeOK'
  <2>1. CASE Collect(w)
      BY <2>1, <1>a, <1>b, <1>c, GotoTyped DEF Collect, CoroutineOnly, TypeOK, Labels, apVars, mainVars
  <2>2. CASE Resume(w)
      BY <2>2, <1>a, <1>b, <1>c, GotoTyped DEF Resume, CoroutineOnly, TypeOK, Labels, apVars, mainVars
  <2>3. CASE SetAddress(w)
    <3>1. info \in Infos /\ heard[w] \in Sessions
        BY <2>3, <1>a, <1>b DEF SetAddress, InfoKnown, Informed, TypeOK
    <3>2. info' \in Infos
        BY <2>3, <3>1 DEF SetAddress, Infos
    <3>3. heard' \in [Waiters -> Sessions]
        BY <2>3, <1>b, Names DEF SetAddress
    <3> QED
        BY <2>3, <1>a, <1>b, <1>c, <3>2, <3>3, GotoTyped DEF SetAddress, TypeOK, Labels, apVars
  <2>4. CASE Emit(w)
      BY <2>4, <1>a, <1>b, <1>c, GotoTyped DEF Emit, TypeOK, Labels, apVars, mainVars
  <2>5. CASE EndCancelled(w)
      BY <2>5, <1>a, <1>b, <1>c, GotoTyped
         DEF EndCancelled, CoroutineOnly, TypeOK, Labels, apVars, mainVars
  <2> QED
      BY <1>5, <2>1, <2>2, <2>3, <2>4, <2>5 DEF Wait
<1>6. ASSUME NEW r \in Requests, Request(r) \/ Ready(r) PROVE TypeOK'
  <2>a. r \in Waiters
      BY Names
  <2>1. CASE Request(r)
      BY <2>a, <2>1, <1>a, <1>b, <1>c, GotoTyped
         DEF Request, CoroutineOnly, TypeOK, Labels, apVars, mainVars
  <2>2. CASE CheckEnabled(r)
      BY <2>a, <2>2, <1>a, <1>b, <1>c, GotoTyped DEF CheckEnabled, TypeOK, Labels, apVars, mainVars
  <2>3. CASE CheckTypeOff(r) \/ CheckTypeOn(r)
      BY <2>a, <2>3, <1>a, <1>b, <1>c, GotoTyped
         DEF CheckTypeOff, CheckTypeOn, CoroutineOnly, TypeOK, Labels, apVars, mainVars
  <2>4. CASE SetConfig(r)
      BY <2>a, <2>4, <1>a, <1>b, <1>c, GotoTyped
         DEF SetConfig, TypeOK, Labels, Types, apVars, mainVars
  <2>5. CASE RegisterCallback(r)
      BY <2>a, <2>5, <1>a, <1>b, <1>c, GotoTyped DEF RegisterCallback, TypeOK, Labels, apVars, mainVars
  <2>6. CASE StopTethering(r)
      BY <2>a, <2>6, <1>a, <1>b, <1>c, GotoTyped DEF StopTethering, TypeOK, Labels, mainVars
  <2>7. CASE StartHotspot(r)
    <3>1. pc' \in [Waiters -> Labels] /\ disturbed' \in BOOLEAN
        BY <2>a, <2>7, <1>a, <1>b, GotoTyped DEF StartHotspot, Labels, TypeOK
    <3>2. CASE ComesUp
        BY <2>7, <3>1, <3>2, <1>a, ApTyped DEF StartHotspot, TypeOK, Labels, mainVars
    <3>3. CASE UNCHANGED apVars
        BY <2>7, <3>1, <3>3, <1>a, <1>c DEF StartHotspot, TypeOK, apVars, mainVars
    <3> QED
        BY <2>7, <3>2, <3>3 DEF StartHotspot
  <2>8. CASE TetheringCallback(r)
      BY <2>a, <2>8, <1>a, <1>b, <1>c, GotoTyped
         DEF TetheringCallback, CoroutineOnly, TypeOK, Labels, apVars, mainVars
  <2> QED
      BY <1>6, <2>1, <2>2, <2>3, <2>4, <2>5, <2>6, <2>7, <2>8 DEF Ready
<1>7. CASE Stops
    BY <1>7, <1>a, ApTyped DEF Stops, TypeOK, Labels, mainVars
<1>8. CASE UserToggles
  <2>1. userSteps' \in 0..MaxUser
      BY <1>8, <1>a, BoundsAssumption DEF UserToggles, TypeOK
  <2>2. CASE GoesDown
      BY <1>8, <2>1, <2>2, <1>a, ApTyped DEF UserToggles, TypeOK, Labels, mainVars
  <2>3. CASE ComesUp /\ UNCHANGED pc
      BY <1>8, <2>1, <2>3, <1>a, ApTyped DEF UserToggles, TypeOK, Labels, mainVars
  <2> QED
      BY <1>8, <2>2, <2>3 DEF UserToggles
<1>9. CASE UserConfigures
  <2>1. userSteps' \in 0..MaxUser
      BY <1>9, <1>a, BoundsAssumption DEF UserConfigures, TypeOK
  <2> QED
      BY <1>9, <2>1, <1>a, <1>b, <1>c DEF UserConfigures, TypeOK, apVars, mainVars
<1>10. CASE AddressEvent
  <2>1. pc' \in [Waiters -> Labels] /\ heard' \in [Waiters -> Sessions]
      BY <1>10, <1>a, <1>b DEF AddressEvent, TypeOK, Labels
  <2> QED
      BY <1>10, <2>1, <1>a DEF AddressEvent, TypeOK, Labels, mainVars
<1>11. CASE ReceiveThrows \/ UNCHANGED vars
    BY <1>11, <1>a, <1>b, <1>c DEF ReceiveThrows, vars, runVars, apVars, mainVars, TypeOK
<1> QED
    BY <1>1, <1>2, <1>3, <1>4, <1>5, <1>6, <1>7, <1>8, <1>9, <1>10, <1>11 DEF Next, MainThread

(* Information is replaced and amended, never forgotten; apart from a new      *)
(* broadcast, which session it is about does not change.                       *)
LEMMA InfoStays ==
    ASSUME TypeInv, [Next]_vars, info # None
    PROVE  /\ info' # None
           /\ StoreInfo \/ (info'.session = info.session /\ info'.type = info.type)
<1>1. CASE StoreInfo
    BY <1>1, StoredInfo, Names DEF TypeInv
<1>2. ASSUME NEW w \in Waiters, SetAddress(w)
      PROVE  info' # None /\ info'.session = info.session /\ info'.type = info.type
  <2>1. info \in Infos /\ heard[w] \in Sessions
      BY DEF TypeInv, TypeOK
  <2>2. info' \in Infos /\ info'.session = info.session /\ info'.type = info.type
      BY <1>2, <2>1 DEF SetAddress, Infos
  <2> QED
      BY <2>2, Names
<1>3. CASE UNCHANGED info
    BY <1>3
<1>4. StoreInfo \/ (\E w \in Waiters : SetAddress(w)) \/ UNCHANGED info
  <2>1. ASSUME NEW w \in Waiters, Wait(w) PROVE SetAddress(w) \/ UNCHANGED info
      BY <2>1 DEF Wait, Collect, Resume, Emit, EndCancelled, CoroutineOnly, mainVars
  <2>2. ASSUME NEW r \in Requests, Request(r) \/ Ready(r) PROVE UNCHANGED info
      BY <2>2 DEF Request, Ready, CheckEnabled, CheckTypeOff, CheckTypeOn, SetConfig, RegisterCallback,
                  StopTethering, StartHotspot, TetheringCallback, CoroutineOnly, mainVars
  <2>3. LaunchJob \/ ReceiveDisabled \/ Destroy \/ Stops \/ UserToggles \/ UserConfigures
            \/ AddressEvent => UNCHANGED info
      BY DEF LaunchJob, ReceiveDisabled, Destroy, Stops, UserToggles, UserConfigures, AddressEvent,
             mainVars
  <2>4. UNCHANGED runVars => UNCHANGED info
      BY DEF runVars, mainVars
  <2> QED
      BY <2>1, <2>2, <2>3, <2>4 DEF Next, MainThread, ReceiveThrows, vars
<1> QED
    BY <1>1, <1>2, <1>3, <1>4

(* Who moves where: what the proofs below need to know of a step's effect on    *)
(* the coroutines.                                                              *)
LEMMA Moves ==
    ASSUME TypeInv, [Next]_vars, NEW w \in Waiters, pc'[w] # pc[w]
    PROVE  \/ LaunchJob /\ w = received /\ pc'[w] = "launched"
           \/ GoesDown /\ <<pc[w], pc'[w]>> \in {<<"stopCall", "stopCallHeard">>, <<"stopWait", "stopped">>}
           \/ AddressEvent /\ pc[w] = "waiting" /\ pc'[w] = "resumed"
           \/ Wait(w)
           \/ w \in Requests /\ (Request(w) \/ Ready(w))
<1>a. pc \in [Waiters -> Labels]
    BY DEF TypeInv, TypeOK, Labels
<1>b. ASSUME NEW v \in Waiters, NEW l \in Labels, Goto(v, l) PROVE v = w
    BY <1>a, <1>b DEF Goto
<1>1. StoreInfo \/ ReceiveDisabled \/ Destroy \/ UserConfigures \/ UNCHANGED runVars => FALSE
    BY DEF StoreInfo, ReceiveDisabled, Destroy, UserConfigures, vars, runVars
<1>2. LaunchJob => w = received /\ pc'[w] = "launched"
    BY <1>a DEF LaunchJob
<1>3. Stops \/ UserToggles => GoesDown
    BY DEF Stops, UserToggles
<1>4. GoesDown => <<pc[w], pc'[w]>> \in {<<"stopCall", "stopCallHeard">>, <<"stopWait", "stopped">>}
    BY <1>a DEF GoesDown
<1>5. AddressEvent => pc[w] = "waiting" /\ pc'[w] = "resumed"
    BY <1>a DEF AddressEvent
<1>6. ASSUME NEW v \in Waiters, Wait(v) PROVE v = w
    BY <1>6, <1>b DEF Wait, Collect, Resume, SetAddress, Emit, EndCancelled, Labels
<1>7. ASSUME NEW r \in Requests, Request(r) \/ Ready(r) PROVE r = w
  <2>1. r \in Waiters /\ ap \in Labels
      BY Names DEF TypeInv, TypeOK, Labels
  <2> QED
      BY <1>7, <2>1, <1>b DEF Request, Ready, CheckEnabled, CheckTypeOff, CheckTypeOn, SetConfig,
             RegisterCallback, StopTethering, StartHotspot, TetheringCallback, Labels
<1> QED
    BY <1>1, <1>2, <1>3, <1>4, <1>5, <1>6, <1>7 DEF Next, MainThread, ReceiveThrows, vars

(* Whoever stores an address still knows the information it belongs to. *)
LEMMA NextInfoKnown == TypeInv /\ [Next]_vars => InfoKnown'
<1> SUFFICES ASSUME TypeInv, [Next]_vars PROVE InfoKnown'
    OBVIOUS
<1>a. InfoKnown
    BY DEF TypeInv
<1>b. info # None => info' # None
    BY InfoStays
<1>1. received' # 0 => info' # None
  <2>1. CASE StoreInfo /\ received' # 0
      BY <2>1, StoredInfo, Names, <1>b, <1>a DEF TypeInv, InfoKnown
  <2>2. CASE ~StoreInfo
    <3>1. received' # 0 => received' = received
      <4>1. LaunchJob => received' = 0
          BY DEF LaunchJob
      <4>2. ReceiveDisabled \/ Destroy \/ Stops \/ UserToggles \/ UserConfigures \/ AddressEvent
                \/ UNCHANGED runVars => received' = received
          BY DEF ReceiveDisabled, Destroy, Stops, UserToggles, UserConfigures, AddressEvent, vars, runVars, mainVars
      <4>3. ASSUME NEW w \in Waiters, Wait(w) PROVE received' = received
          BY <4>3 DEF Wait, Collect, Resume, SetAddress, Emit, EndCancelled, CoroutineOnly, mainVars
      <4>4. ASSUME NEW r \in Requests, Request(r) \/ Ready(r) PROVE received' = received
          BY <4>4 DEF Request, Ready, CheckEnabled, CheckTypeOff, CheckTypeOn, SetConfig,
               RegisterCallback, StopTethering, StartHotspot, TetheringCallback, CoroutineOnly, mainVars
      <4> QED
          BY <2>2, <4>1, <4>2, <4>3, <4>4 DEF Next, MainThread, ReceiveThrows, vars
    <3> QED
        BY <3>1, <1>a, <1>b DEF InfoKnown
  <2> QED
      BY <2>1, <2>2
<1>2. ASSUME NEW w \in Waiters, pc'[w] \in Informed \/ (w \in Jobs /\ pc'[w] = "launched")
      PROVE  info' # None
  <2>1. CASE pc'[w] = pc[w]
      BY <1>2, <2>1, <1>a, <1>b DEF InfoKnown
  <2>2. CASE pc'[w] # pc[w]
    <3>a. pc \in [Waiters -> Labels]
        BY DEF TypeInv, TypeOK, Labels
    <3>1. LaunchJob => info # None
        BY <1>a DEF LaunchJob, InfoKnown
    <3>2. AddressEvent /\ pc[w] = "waiting" => info # None
        BY <1>a DEF InfoKnown, Informed
    <3>3. Wait(w) => info # None
        BY <1>2, <1>a, <2>2, <3>a
           DEF Wait, Collect, Resume, SetAddress, Emit, EndCancelled, Goto, InfoKnown, Informed
    <3>4. w \in Requests /\ (Request(w) \/ Ready(w)) => info # None
        BY <1>2, <3>a, Names
           DEF Request, Ready, CheckEnabled, CheckTypeOff, CheckTypeOn, SetConfig, RegisterCallback,
               StopTethering, StartHotspot, TetheringCallback, Goto, Informed, TypeCorrect,
               TypeInv, TypeOK
    <3>5. GoesDown /\ <<pc[w], pc'[w]>> \in {<<"stopCall", "stopCallHeard">>, <<"stopWait", "stopped">>}
             => FALSE
        BY <1>2 DEF Informed
    <3> QED
        BY <2>2, <1>b, <3>1, <3>2, <3>3, <3>4, <3>5, Moves
  <2> QED
      BY <2>1, <2>2
<1> QED
    BY <1>1, <1>2, Names DEF InfoKnown

-----------------------------------------------------------------------------
(* The callbacks. *)

(* Only a fall of the AP takes a stop back, and then no callback waits for it;  *)
(* what disturbed the service stays on record.                                  *)
LEMMA NextCallbacksTold == TypeInv /\ CallbacksTold /\ [Next]_vars => CallbacksTold'
<1> SUFFICES ASSUME TypeInv, CallbacksTold, [Next]_vars, NEW r \in Requests
             PROVE  /\ pc'[r] \in {"stopCall", "stopWait"} => ap' = "on"
                    /\ pc'[r] = "stopWait" => stopping' \/ disturbed'
    BY DEF CallbacksTold
<1>a. r \in Waiters /\ pc \in [Waiters -> Labels] /\ stopping \in BOOLEAN /\ disturbed \in BOOLEAN
    BY Names DEF TypeInv, TypeOK, Labels
<1>b. pc[r] \in {"stopCall", "stopWait"} => ap = "on"
    BY DEF CallbacksTold
<1>c. pc[r] = "stopWait" => stopping \/ disturbed
    BY DEF CallbacksTold
<1>1. CASE GoesDown
    BY <1>1, <1>a DEF GoesDown
<1>2. CASE ~GoesDown
  <2>1. ap = "on" => ap' = "on"
    <3>1. ASSUME NEW w \in Waiters, Wait(w) PROVE ap' = ap
        BY <3>1 DEF Wait, Collect, Resume, SetAddress, Emit, EndCancelled, CoroutineOnly, apVars
    <3>2. ASSUME NEW q \in Requests, Request(q) \/ Ready(q) PROVE ap' = ap \/ ap' = "on"
        BY <3>2 DEF Request, Ready, CheckEnabled, CheckTypeOff, CheckTypeOn, SetConfig,
             RegisterCallback, StopTethering, StartHotspot, TetheringCallback, ComesUp, CoroutineOnly, apVars
    <3>3. StoreInfo \/ LaunchJob \/ ReceiveDisabled \/ Destroy \/ UserToggles \/ UserConfigures
            \/ AddressEvent \/ UNCHANGED runVars => ap' = ap \/ ap' = "on"
        BY <1>2 DEF StoreInfo, LaunchJob, ReceiveDisabled, Destroy, UserToggles, UserConfigures,
              AddressEvent, ComesUp, vars, runVars, apVars
    <3> QED
        BY <1>2, <3>1, <3>2, <3>3 DEF Next, MainThread, ReceiveThrows, vars, Stops
  <2>2. disturbed => disturbed'
    <3>1. ASSUME NEW w \in Waiters, Wait(w) PROVE disturbed' = disturbed
        BY <3>1 DEF Wait, Collect, Resume, SetAddress, Emit, EndCancelled, CoroutineOnly
    <3>2. ASSUME NEW q \in Requests, Request(q) \/ Ready(q) PROVE disturbed => disturbed'
        BY <3>2 DEF Request, Ready, CheckEnabled, CheckTypeOff, CheckTypeOn, SetConfig,
             RegisterCallback, StopTethering, StartHotspot, TetheringCallback, CoroutineOnly
    <3> QED
        BY <3>1, <3>2 DEF Next, MainThread, StoreInfo, ReceiveThrows, LaunchJob, ReceiveDisabled, Destroy, Stops,
             UserToggles, UserConfigures, AddressEvent, vars, runVars
  <2>3. ap = "on" /\ stopping => stopping' \/ disturbed'
    <3>1. ASSUME NEW w \in Waiters, Wait(w) PROVE stopping' = stopping
        BY <3>1 DEF Wait, Collect, Resume, SetAddress, Emit, EndCancelled, CoroutineOnly, apVars
    <3>2. ASSUME NEW q \in Requests, Request(q) \/ Ready(q), ap = "on", stopping
          PROVE  stopping' \/ disturbed'
        BY <3>2 DEF Request, Ready, CheckEnabled, CheckTypeOff, CheckTypeOn, SetConfig,
             RegisterCallback, StopTethering, StartHotspot, TetheringCallback, ComesUp, CoroutineOnly, apVars
    <3>3. StoreInfo \/ LaunchJob \/ ReceiveDisabled \/ Destroy \/ UserToggles \/ UserConfigures
            \/ AddressEvent \/ UNCHANGED runVars => stopping' = stopping
        BY <1>2 DEF StoreInfo, LaunchJob, ReceiveDisabled, Destroy, UserToggles, UserConfigures,
              AddressEvent, ComesUp, vars, runVars, apVars
    <3> QED
        BY <1>2, <3>1, <3>2, <3>3 DEF Next, MainThread, ReceiveThrows, vars, Stops
  <2>4. pc'[r] = "stopCall" /\ pc[r] # "stopCall" => ap = "on"
    <3>1. Wait(r) => pc'[r] \in {"waiting", "set", "emit", "announced", "done"}
        BY <1>a DEF Wait, Collect, Resume, SetAddress, Emit, EndCancelled, Goto
    <3>2. pc'[r] = "stopCall" /\ (Request(r) \/ Ready(r)) => ap = "on"
        BY <1>a DEF Request, Ready, CheckEnabled, CheckTypeOff, CheckTypeOn, SetConfig,
             RegisterCallback, StopTethering, StartHotspot, TetheringCallback, Goto, TypeInv, TypeOK
    <3> QED
        BY <1>2, <1>a, <3>1, <3>2, Moves
  <2>5. pc'[r] = "stopWait" /\ pc[r] # "stopWait"
            => pc[r] = "stopCall" /\ (stopping' = (ap = "on") \/ disturbed')
    <3>1. Wait(r) => pc'[r] \in {"waiting", "set", "emit", "announced", "done"}
        BY <1>a DEF Wait, Collect, Resume, SetAddress, Emit, EndCancelled, Goto
    <3>2. pc'[r] = "stopWait" /\ (Request(r) \/ Ready(r)) => StopTethering(r)
        BY <1>a DEF Request, Ready, CheckEnabled, CheckTypeOff, CheckTypeOn, SetConfig,
             RegisterCallback, StartHotspot, TetheringCallback, Goto, TypeInv, TypeOK
    <3>3. pc'[r] = "stopWait" /\ StopTethering(r)
              => pc[r] = "stopCall" /\ (stopping' = (ap = "on") \/ disturbed')
        BY <1>a DEF StopTethering, Goto
    <3> QED
        BY <1>2, <1>a, <3>1, <3>2, <3>3, Moves
  <2> QED
      BY <1>b, <1>c, <2>1, <2>2, <2>3, <2>4, <2>5
<1> QED
    BY <1>1, <1>2

-----------------------------------------------------------------------------
(* The service, its coroutines and the AP keep their types, and a coroutine that *)
(* stores an address finds information to store it in.                            *)
LEMMA AlwaysTypeInv == Spec => []TypeInv
<1>1. TypeInv /\ [Next]_vars => TypeInv'
    BY NextTypeOK, NextInfoKnown DEF TypeInv
<1> QED
    BY InitTypeInv, <1>1, PTL DEF Spec

(* Type correctness of the service for any number of requests, sessions and user *)
(* steps: the address is never stored in information that is not there.           *)
THEOREM ServiceTypeCorrect == Spec => []TypeOK
<1>1. TypeInv => TypeOK
    BY DEF TypeInv
<1> QED
    BY AlwaysTypeInv, <1>1, PTL

(* stopHotspot: a request that waits for its callback waits for an AP that is on *)
(* and about to stop, whatever other requests, the user and the broadcasts do.   *)
THEOREM CallbackNeverMissed == Spec => []CallbackStillToCome
<1>1. Init => CallbacksTold
    BY Names DEF Init, CallbacksTold
<1>2. TypeInv /\ CallbacksTold /\ [Next]_vars => CallbacksTold'
    BY NextCallbacksTold
<1>3. CallbacksTold => CallbackStillToCome
    BY DEF CallbacksTold, CallbackStillToCome
<1> QED
    BY <1>1, <1>2, <1>3, AlwaysTypeInv, PTL DEF Spec
-----------------------------------------------------------------------------
(* The restarts. *)

(* What disturbed the service stays on record. *)
LEMMA DisturbedStays ==
    ASSUME [Next]_vars, disturbed
    PROVE  disturbed'
<1>1. ASSUME NEW w \in Waiters, Wait(w) PROVE disturbed'
    BY <1>1 DEF Wait, Collect, Resume, SetAddress, Emit, EndCancelled, CoroutineOnly
<1>2. ASSUME NEW q \in Requests, Request(q) \/ Ready(q) PROVE disturbed'
    BY <1>2 DEF Request, Ready, CheckEnabled, CheckTypeOff, CheckTypeOn, SetConfig,
         RegisterCallback, StopTethering, StartHotspot, TetheringCallback, CoroutineOnly
<1> QED
    BY <1>1, <1>2 DEF Next, MainThread, StoreInfo, ReceiveThrows, LaunchJob, ReceiveDisabled, Destroy, Stops,
         UserToggles, UserConfigures, AddressEvent, vars, runVars

(* Undisturbed requests go on agreeing: each has set the configuration before it *)
(* touches the AP, and each stop is answered by the start of its own request.     *)
LEMMA NextUndisturbed == TypeInv /\ CallbacksTold /\ Undisturbed /\ [Next]_vars => Undisturbed'
<1> SUFFICES ASSUME TypeInv, CallbacksTold, Undisturbed, [Next]_vars, ~disturbed'
             PROVE  RequestsAgree'
    BY DEF Undisturbed
<1>a. RequestsAgree /\ ~disturbed
    BY DisturbedStays DEF Undisturbed
<1>b. /\ pc \in [Waiters -> Labels] /\ ap \in {"on", "off"} /\ cancelled \subseteq Jobs
      /\ \A r \in Requests : r \in Waiters /\ ~Cancelled(r)
    BY <1>a, Names DEF TypeInv, TypeOK, Labels, Cancelled, RequestsAgree
<1>c. ASSUME UNCHANGED <<ap, running, stopping, config, destroyed>>,
             \A r \in Requests :
                pc'[r] = pc[r] \/ (/\ pc[r] \notin {"stopWait", "stopped"}
                                  /\ pc'[r] \notin Reconfigured \cup SawApOff)
      PROVE  RequestsAgree'
    BY <1>a, <1>c DEF RequestsAgree, Reconfigured, SawApOff
<1>1. CASE StoreInfo \/ ReceiveDisabled \/ UNCHANGED runVars
    BY <1>1, <1>c DEF StoreInfo, ReceiveDisabled, vars, runVars, apVars
<1>2. CASE LaunchJob
  <2>1. received \in Jobs
      BY <1>2, Names DEF LaunchJob, TypeInv, TypeOK
  <2>2. \A r \in Requests : pc'[r] = pc[r]
      BY <1>2, <1>b, <2>1, Names DEF LaunchJob
  <2> QED
      BY <1>2, <1>c, <2>2 DEF LaunchJob, apVars
<1>3. Destroy \/ UserToggles \/ UserConfigures => FALSE
    BY DEF Destroy, UserToggles, UserConfigures
<1>4. CASE AddressEvent
    BY <1>4, <1>b, <1>c DEF AddressEvent, Reconfigured, SawApOff
<1>5. ASSUME NEW w \in Waiters, Wait(w) PROVE RequestsAgree'
  <2>1. UNCHANGED <<ap, running, stopping, config, destroyed>>
      BY <1>5 DEF Wait, Collect, Resume, SetAddress, Emit, EndCancelled, CoroutineOnly, apVars
  <2>2. ASSUME NEW r \in Requests, pc'[r] # pc[r]
        PROVE  pc[r] \notin {"stopWait", "stopped"} /\ pc'[r] \notin Reconfigured \cup SawApOff
      BY <1>5, <1>b, <2>2
         DEF Wait, Collect, Resume, SetAddress, Emit, EndCancelled, Goto, Reconfigured, SawApOff
  <2> QED
      BY <1>c, <2>1, <2>2
<1>6. CASE Stops
  <2>1. PICK q \in Requests : pc[q] = "stopWait"
      BY <1>6, <1>a DEF Stops, RequestsAgree
  <2>2. pc'[q] = "stopped"
      BY <1>6, <1>b, <2>1 DEF Stops, GoesDown
  <2>3. ASSUME NEW r \in Requests, pc'[r] # pc[r]
        PROVE  pc[r] \in Reconfigured
      BY <1>6, <1>b, <2>3 DEF Stops, GoesDown, Reconfigured
  <2>4. ap' = "off" /\ ~stopping' /\ UNCHANGED <<config, destroyed>>
      BY <1>6 DEF Stops, GoesDown
  <2> QED
      BY <1>a, <2>2, <2>3, <2>4 DEF RequestsAgree, Reconfigured
<1>7. ASSUME NEW r \in Requests, Request(r) \/ Ready(r) PROVE RequestsAgree'
  <2>a. \A q \in Requests : q # r => pc'[q] = pc[q]
      BY <1>7, <1>b
         DEF Request, Ready, CheckEnabled, CheckTypeOff, CheckTypeOn, SetConfig, RegisterCallback,
             StopTethering, StartHotspot, TetheringCallback, Goto
  <2>1. CASE Request(r) \/ CheckTypeOn(r)
      BY <2>1, <2>a, <1>b, <1>c
         DEF Request, CheckTypeOn, Goto, CoroutineOnly, apVars, Reconfigured, SawApOff
  <2>2. CASE CheckEnabled(r)
    <3>1. pc'[r] = ap /\ pc[r] = "launched" /\ UNCHANGED <<ap, running, stopping, config, destroyed>>
        BY <2>2, <1>b DEF CheckEnabled, Goto, apVars
    <3> QED
        BY <3>1, <2>a, <1>a, <1>b DEF RequestsAgree, Reconfigured, SawApOff
  <2>3. CASE CheckTypeOff(r)
    <3>1. /\ pc'[r] \in {"done", "configStart"} /\ pc[r] = "off"
          /\ UNCHANGED <<ap, running, stopping, config, destroyed>>
        BY <2>3, <1>b DEF CheckTypeOff, Goto, CoroutineOnly, apVars
    <3> QED
        BY <3>1, <2>a, <1>a DEF RequestsAgree, Reconfigured, SawApOff
  <2>4. CASE SetConfig(r)
    <3>1. /\ <<pc[r], pc'[r]>> \in {<<"configStart", "start">>, <<"configStop", "register">>}
          /\ config' = "supported" /\ UNCHANGED <<ap, running, stopping, destroyed>>
        BY <2>4, <1>b DEF SetConfig, Goto, apVars
    <3> QED
        BY <3>1, <2>a, <1>a DEF RequestsAgree, Reconfigured, SawApOff
  <2>5. CASE RegisterCallback(r)
    <3>1. /\ pc'[r] = (IF ap = "on" THEN "stopCall" ELSE "stopCallHeard") /\ pc[r] = "register"
          /\ UNCHANGED <<ap, running, stopping, config, destroyed>>
        BY <2>5, <1>b DEF RegisterCallback, Goto, apVars
    <3> QED
        BY <3>1, <2>a, <1>a DEF RequestsAgree, Reconfigured, SawApOff
  <2>6. CASE StopTethering(r)
    <3>1. /\ <<pc[r], pc'[r]>> \in {<<"stopCall", "stopWait">>, <<"stopCallHeard", "stopped">>}
          /\ stopping' = (ap = "on") /\ (pc[r] = "stopCallHeard" => ap # "on")
          /\ UNCHANGED <<ap, running, config, destroyed>>
        BY <2>6, <1>b DEF StopTethering, Goto
    <3>2. stopping' => pc'[r] = "stopWait"
        BY <3>1
    <3> QED
        BY <3>1, <3>2, <2>a, <1>a DEF RequestsAgree, Reconfigured, SawApOff
  <2>7. CASE StartHotspot(r)
    <3>1. /\ pc'[r] = "startWait" /\ pc[r] \in {"stopped", "start"}
          /\ ap' = "on" /\ UNCHANGED <<stopping, config, destroyed>>
          /\ running' = running \/ running' = config
          /\ ap = "on" => running' = running
        BY <2>7, <1>b DEF StartHotspot, ComesUp, Goto, apVars
    <3>2. config = "supported" /\ (ap = "on" => running = "supported")
        BY <3>1, <1>a DEF RequestsAgree, Reconfigured, SawApOff
    <3>3. running' = "supported"
        BY <2>7, <1>b, <3>1, <3>2 DEF StartHotspot, ComesUp, apVars
    <3> QED
        BY <3>1, <3>2, <3>3, <2>a, <1>a DEF RequestsAgree, Reconfigured, SawApOff
  <2>8. CASE TetheringCallback(r)
    <3>1. /\ pc'[r] = "started" /\ pc[r] = "startWait"
          /\ UNCHANGED <<ap, running, stopping, config, destroyed>>
        BY <2>8, <1>b DEF TetheringCallback, Goto, CoroutineOnly, apVars
    <3> QED
        BY <3>1, <2>a, <1>a DEF RequestsAgree, Reconfigured, SawApOff
  <2> QED
      BY <1>7, <2>1, <2>2, <2>3, <2>4, <2>5, <2>6, <2>7, <2>8 DEF Ready
<1> QED
    BY <1>1, <1>2, <1>3, <1>4, <1>5, <1>6, <1>7 DEF Next, MainThread, ReceiveThrows, vars

(* Restarts of the AP by any number of requests at once leave it up with the     *)
(* supported type that each of them has configured.                              *)
THEOREM RestartsComplete == Spec => []RestartsLeaveApUp
<1>1. Init => CallbacksTold /\ Undisturbed
    BY Names DEF Init, CallbacksTold, Undisturbed, RequestsAgree, Reconfigured, SawApOff
<1>2. TypeInv /\ CallbacksTold /\ Undisturbed /\ [Next]_vars => (CallbacksTold /\ Undisturbed)'
    BY NextCallbacksTold, NextUndisturbed
<1>3. Undisturbed => RestartsLeaveApUp
    BY DEF Undisturbed, RequestsAgree, RestartsLeaveApUp, Restarting, SawApOff
<1> QED
    BY <1>1, <1>2, <1>3, AlwaysTypeInv, PTL DEF Spec
-----------------------------------------------------------------------------
(* The job. *)

(* What a step does to the broadcasts: it adds the new state of the AP at the     *)
(* end, takes one from the head, or drops them all.                               *)
LEMMA BroadcastMoves ==
    ASSUME [Next]_vars
    PROVE  \/ ComesUp \/ GoesDown
           \/ /\ StoreInfo \/ ReceiveDisabled
              /\ broadcasts # <<>> /\ broadcasts' = Tail(broadcasts) /\ UNCHANGED <<ap, session>>
           \/ Destroy /\ broadcasts' = <<>> /\ UNCHANGED <<ap, session>>
           \/ UNCHANGED <<ap, session, broadcasts>>
<1>1. ASSUME NEW w \in Waiters, Wait(w) PROVE UNCHANGED <<ap, session, broadcasts>>
    BY <1>1 DEF Wait, Collect, Resume, SetAddress, Emit, EndCancelled, CoroutineOnly, apVars
<1>2. ASSUME NEW r \in Requests, Request(r) \/ Ready(r)
      PROVE  ComesUp \/ UNCHANGED <<ap, session, broadcasts>>
    BY <1>2 DEF Request, Ready, CheckEnabled, CheckTypeOff, CheckTypeOn, SetConfig, RegisterCallback,
         StopTethering, StartHotspot, TetheringCallback, CoroutineOnly, apVars
<1> QED
    BY <1>1, <1>2 DEF Next, MainThread, StoreInfo, ReceiveThrows, LaunchJob, ReceiveDisabled, Destroy, Stops,
         UserToggles, UserConfigures, AddressEvent, vars, runVars, apVars

(* What a step does to the intent that onReceive is in the middle of, and that    *)
(* it is only destroyed between two intents.                                      *)
LEMMA ReceivedMoves ==
    ASSUME [Next]_vars
    PROVE  /\ StoreInfo \/ LaunchJob \/ UNCHANGED received
           /\ Destroy \/ UNCHANGED destroyed
<1>1. ASSUME NEW w \in Waiters, Wait(w) PROVE UNCHANGED <<received, destroyed>>
    BY <1>1 DEF Wait, Collect, Resume, SetAddress, Emit, EndCancelled, CoroutineOnly, mainVars
<1>2. ASSUME NEW r \in Requests, Request(r) \/ Ready(r) PROVE UNCHANGED <<received, destroyed>>
    BY <1>2 DEF Request, Ready, CheckEnabled, CheckTypeOff, CheckTypeOn, SetConfig, RegisterCallback,
         StopTethering, StartHotspot, TetheringCallback, CoroutineOnly, mainVars
<1> QED
    BY <1>1, <1>2 DEF Next, MainThread, StoreInfo, ReceiveThrows, LaunchJob, ReceiveDisabled, Destroy, Stops,
         UserToggles, UserConfigures, AddressEvent, vars, runVars, mainVars

(* The last intent goes on telling the state of the AP. *)
LEMMA NextIntentsCurrent == TypeInv /\ IntentsCurrent /\ [Next]_vars => IntentsCurrent'
<1> SUFFICES ASSUME TypeInv, IntentsCurrent, [Next]_vars, ~destroyed'
             PROVE  /\ broadcasts' # <<>> =>
                          broadcasts'[Len(broadcasts')] = (IF ap' = "on" THEN session' ELSE 0)
                    /\ broadcasts' = <<>> /\ received' # 0 => ap' = "on" /\ received' = session'
    BY DEF IntentsCurrent
<1>a. broadcasts \in Seq(Sessions) /\ session \in Nat /\ ~destroyed /\ ~Destroy
    BY ReceivedMoves, Names DEF TypeInv, TypeOK, Destroy
<1>b. /\ broadcasts # <<>> => broadcasts[Len(broadcasts)] = (IF ap = "on" THEN session ELSE 0)
      /\ broadcasts = <<>> /\ received # 0 => ap = "on" /\ received = session
    BY <1>a DEF IntentsCurrent
<1>1. CASE ComesUp
  <2>1. broadcasts' = Append(broadcasts, session + 1) /\ ap' = "on" /\ session' = session + 1
      BY <1>1, <1>a DEF ComesUp
  <2> QED
      BY <2>1, <1>a
<1>2. CASE GoesDown
  <2>1. broadcasts' = Append(broadcasts, 0) /\ ap' = "off"
      BY <1>2, <1>a DEF GoesDown
  <2> QED
      BY <2>1, <1>a, Names
<1>3. CASE broadcasts # <<>> /\ broadcasts' = Tail(broadcasts) /\ UNCHANGED <<ap, session>>
            /\ (StoreInfo \/ ReceiveDisabled)
  <2>1. broadcasts' # <<>> => broadcasts'[Len(broadcasts')] = broadcasts[Len(broadcasts)]
      BY <1>3, <1>a
  <2>2. broadcasts' = <<>> => broadcasts[Len(broadcasts)] = Head(broadcasts)
    <3>1. Len(broadcasts) \in Nat /\ Len(broadcasts') = Len(broadcasts) - 1
        BY <1>3, <1>a
    <3>2. broadcasts' = <<>> => Len(broadcasts) = 1
        BY <3>1
    <3> QED
        BY <3>2, <1>3
  <2>3. received' # 0 => received' = Head(broadcasts)
      BY <1>3 DEF StoreInfo, ReceiveDisabled
  <2> QED
      BY <2>1, <2>2, <2>3, <1>3, <1>b
<1>4. CASE UNCHANGED <<ap, session, broadcasts>>
  <2>1. StoreInfo => broadcasts' # broadcasts
      BY <1>a DEF StoreInfo
  <2>2. received' # 0 => received' = received
      BY <2>1, <1>4, ReceivedMoves DEF LaunchJob
  <2> QED
      BY <2>2, <1>4, <1>b
<1> QED
    BY <1>1, <1>2, <1>3, <1>4, <1>a, BroadcastMoves

(* Apart from the receiver, nobody stores information where there was none, and   *)
(* what session and type it is about does not change.                             *)
LEMMA InfoMoves ==
    ASSUME TypeInv, [Next]_vars, info' # None, ~StoreInfo
    PROVE  info # None /\ info'.session = info.session /\ info'.type = info.type
<1>1. CASE info = None
  <2>1. ASSUME NEW w \in Waiters, Wait(w) PROVE UNCHANGED info
      BY <2>1, <1>1 DEF Wait, Collect, Resume, SetAddress, Emit, EndCancelled, CoroutineOnly, mainVars,
           TypeInv, InfoKnown, Informed
  <2>2. ASSUME NEW r \in Requests, Request(r) \/ Ready(r) PROVE UNCHANGED info
      BY <2>2 DEF Request, Ready, CheckEnabled, CheckTypeOff, CheckTypeOn, SetConfig,
           RegisterCallback, StopTethering, StartHotspot, TetheringCallback, CoroutineOnly, mainVars
  <2> QED
      BY <1>1, <2>1, <2>2 DEF Next, MainThread, ReceiveThrows, LaunchJob, ReceiveDisabled, Destroy, Stops,
           UserToggles, UserConfigures, AddressEvent, vars, runVars, mainVars
<1>2. CASE info # None
    BY <1>2, InfoStays
<1> QED
    BY <1>1, <1>2

(* The sessions on their way stay in order, each newer than what is stored. *)
LEMMA NextIntentsInOrder == TypeInv /\ IntentsInOrder /\ [Next]_vars => IntentsInOrder'
<1> SUFFICES ASSUME TypeInv, IntentsInOrder, [Next]_vars PROVE IntentsInOrder'
    OBVIOUS
<1>a. /\ broadcasts \in Seq(Sessions) /\ session \in Nat
      /\ \A i \in 1..Len(broadcasts) : broadcasts[i] \in Nat
      /\ info # None => info.session \in Nat
  <2>1. broadcasts \in Seq(Sessions) /\ session \in Nat
      BY Names DEF TypeInv, TypeOK
  <2>2. \A i \in 1..Len(broadcasts) : broadcasts[i] \in Nat
    <3>1. \A i \in 1..Len(broadcasts) : broadcasts[i] \in Sessions
        BY <2>1
    <3> QED
        BY <3>1, Names
  <2>3. info # None => info.session \in Nat
      BY Names DEF TypeInv, TypeOK, Infos
  <2> QED
      BY <2>1, <2>2, <2>3
<1>b. info' # None => StoreInfo \/ (info # None /\ info'.session = info.session)
    BY InfoMoves
<1>1. CASE ComesUp
  <2>1. session' = session + 1 /\ ~StoreInfo
      BY <1>1, <1>a DEF ComesUp, StoreInfo
  <2>2. info' # None => info # None /\ info'.session = info.session
      BY <1>b, <2>1
  <2>3. CASE broadcasts' = <<>>
      BY <2>1, <2>2, <2>3, <1>a DEF IntentsInOrder
  <2>4. CASE broadcasts' = Append(broadcasts, session + 1)
    <3>1. /\ Len(broadcasts') = Len(broadcasts) + 1 /\ broadcasts'[Len(broadcasts) + 1] = session + 1
          /\ \A i \in 1..Len(broadcasts) : broadcasts'[i] = broadcasts[i]
        BY <2>4, <1>a
    <3>2. /\ \A i \in 1..Len(broadcasts) : broadcasts[i] # 0 => broadcasts[i] <= session
          /\ info # None => info.session <= session
        BY DEF IntentsInOrder
    <3> QED
        BY <2>1, <2>2, <3>1, <3>2, <1>a DEF IntentsInOrder
  <2> QED
      BY <1>1, <2>3, <2>4 DEF ComesUp
<1>2. CASE GoesDown /\ ~StoreInfo
  <2>1. session' = session /\ ~StoreInfo
      BY <1>2 DEF GoesDown
  <2>2. info' # None => info # None /\ info'.session = info.session
      BY <1>b, <2>1
  <2>3. CASE broadcasts' = <<>>
      BY <2>1, <2>2, <2>3, <1>a DEF IntentsInOrder
  <2>4. CASE broadcasts' = Append(broadcasts, 0)
    <3>1. /\ Len(broadcasts') = Len(broadcasts) + 1 /\ broadcasts'[Len(broadcasts) + 1] = 0
          /\ \A i \in 1..Len(broadcasts) : broadcasts'[i] = broadcasts[i]
        BY <2>4, <1>a, Names
    <3> QED
        BY <2>1, <2>2, <3>1, <1>a DEF IntentsInOrder
  <2> QED
      BY <1>2, <2>3, <2>4 DEF GoesDown
<1>3. CASE StoreInfo \/ ReceiveDisabled
  <2>a. broadcasts # <<>> /\ broadcasts' = Tail(broadcasts) /\ session' = session
      BY <1>3 DEF StoreInfo, ReceiveDisabled
  <2>1. /\ Len(broadcasts') = Len(broadcasts) - 1 /\ Len(broadcasts) \in Nat
        /\ \A i \in 1..Len(broadcasts') : broadcasts'[i] = broadcasts[i + 1] /\ i + 1 \in 1..Len(broadcasts)
        /\ 1 \in 1..Len(broadcasts) /\ Head(broadcasts) = broadcasts[1]
      BY <2>a, <1>a
  <2>2. info' # None => \/ info'.session = Head(broadcasts) /\ Head(broadcasts) # 0
                        \/ info # None /\ info'.session = info.session
    <3>1. StoreInfo => Head(broadcasts) # 0
        BY DEF StoreInfo
    <3>2. StoreInfo => \/ info'.session = Head(broadcasts)
                       \/ info' = info
        BY StoredInfo DEF TypeInv
    <3> QED
        BY <3>1, <3>2, <1>b
  <2>3. info' # None => /\ info'.session <= session
                        /\ \A i \in 1..Len(broadcasts') : broadcasts'[i] # 0 => info'.session < broadcasts'[i]
      BY <2>1, <2>2, <1>a DEF IntentsInOrder
  <2> QED
      BY <2>1, <2>3, <2>a, <1>a DEF IntentsInOrder
<1>4. CASE Destroy /\ broadcasts' = <<>> /\ UNCHANGED <<ap, session>>
  <2>1. info' = info
      BY <1>4 DEF Destroy, mainVars
  <2> QED
      BY <1>4, <2>1, <1>a DEF IntentsInOrder
<1>5. CASE UNCHANGED <<ap, session, broadcasts>>
  <2>1. ~StoreInfo
      BY <1>5, <1>a DEF StoreInfo
  <2> QED
      BY <1>5, <2>1, <1>b, <1>a DEF IntentsInOrder
<1> QED
    BY <1>1, <1>2, <1>3, <1>4, <1>5, BroadcastMoves

(* Jobs are cancelled by the receiver alone, and for good. *)
LEMMA CancelMoves ==
    ASSUME [Next]_vars
    PROVE  /\ cancelled \subseteq cancelled' /\ (destroyed => destroyed')
           /\ LaunchJob \/ ReceiveDisabled \/ UNCHANGED <<cancelled, ipv6Job>>
<1>1. ASSUME NEW w \in Waiters, Wait(w) PROVE UNCHANGED <<cancelled, destroyed, ipv6Job>>
    BY <1>1 DEF Wait, Collect, Resume, SetAddress, Emit, EndCancelled, CoroutineOnly, mainVars
<1>2. ASSUME NEW r \in Requests, Request(r) \/ Ready(r)
      PROVE  UNCHANGED <<cancelled, destroyed, ipv6Job>>
    BY <1>2 DEF Request, Ready, CheckEnabled, CheckTypeOff, CheckTypeOn, SetConfig, RegisterCallback,
         StopTethering, StartHotspot, TetheringCallback, CoroutineOnly, mainVars
<1> QED
    BY <1>1, <1>2 DEF Next, MainThread, StoreInfo, ReceiveThrows, LaunchJob, ReceiveDisabled, Destroy, Stops,
         UserToggles, UserConfigures, AddressEvent, vars, runVars, mainVars

(* A job that has been launched moves on, and the receiver alone launches one. *)
LEMMA JobMoves ==
    ASSUME TypeInv, [Next]_vars, NEW j \in Jobs
    PROVE  /\ pc[j] # "none" => pc'[j] # "none"
           /\ pc[j] = "none" /\ pc'[j] # "none" => LaunchJob /\ j = received
           /\ pc[j] \in {"announced", "done"} /\ pc'[j] # pc[j] => LaunchJob /\ j = received
<1>1. j \in Waiters /\ j \notin Requests /\ pc \in [Waiters -> Labels]
    BY Names DEF TypeInv, TypeOK, Labels
<1>2. Wait(j) => pc[j] \notin {"none", "announced", "done"} /\ pc'[j] # "none"
    BY <1>1 DEF Wait, Collect, Resume, SetAddress, Emit, EndCancelled, Goto
<1> QED
    BY <1>1, <1>2, Moves

(* Only a launch makes a job live. *)
LEMMA LiveMoves ==
    ASSUME TypeInv, [Next]_vars, NEW j \in Jobs, Live(j)'
    PROVE  Live(j) \/ (LaunchJob /\ j = received)
BY JobMoves, CancelMoves DEF Live, Cancelled

(* Jobs are launched, and cancelled, for sessions that have been stored. *)
LEMMA NextJobsOfStored == TypeInv /\ IntentsInOrder /\ JobsOfStored /\ [Next]_vars => JobsOfStored'
<1> SUFFICES ASSUME TypeInv, IntentsInOrder, JobsOfStored, [Next]_vars PROVE JobsOfStored'
    OBVIOUS
<1>a. /\ received \in Nat /\ Jobs \subseteq Nat /\ 0 \notin Jobs
      /\ info # None => info.session \in Nat /\ info' # None
    BY Names, InfoStays DEF TypeInv, TypeOK, Infos, Jobs
<1>b. StoreInfo => /\ Head(broadcasts) \in Nat /\ Head(broadcasts) # 0
                   /\ received = 0 /\ received' \in {0, Head(broadcasts)}
                   /\ received' # 0 => info'.session = Head(broadcasts)
                   /\ info'.session = Head(broadcasts) \/ UNCHANGED info
                   /\ info # None => info.session < Head(broadcasts)
  <2> SUFFICES ASSUME StoreInfo
               PROVE  /\ Head(broadcasts) \in Nat /\ Head(broadcasts) # 0
                      /\ received = 0 /\ received' \in {0, Head(broadcasts)}
                      /\ received' # 0 => info'.session = Head(broadcasts)
                      /\ info'.session = Head(broadcasts) \/ UNCHANGED info
                      /\ info # None => info.session < Head(broadcasts)
      OBVIOUS
  <2>1. broadcasts \in Seq(Sessions) /\ broadcasts # <<>> /\ Head(broadcasts) # 0
      BY DEF StoreInfo, TypeInv, TypeOK
  <2>2. 1 \in 1..Len(broadcasts) /\ Head(broadcasts) = broadcasts[1] /\ Head(broadcasts) \in Sessions
      BY <2>1
  <2>3. info # None => info.session < Head(broadcasts)
      BY <2>1, <2>2 DEF IntentsInOrder
  <2>4. /\ received = 0 /\ received' \in {0, Head(broadcasts)}
        /\ received' # 0 => info'.session = Head(broadcasts)
      BY DEF StoreInfo
  <2>5. info'.session = Head(broadcasts) \/ UNCHANGED info
      BY StoredInfo DEF TypeInv
  <2>6. Head(broadcasts) \in Nat
      BY <2>2, Names
  <2> QED
      BY <2>1, <2>3, <2>4, <2>5, <2>6
<1>1. received' # 0 => info' # None /\ info'.session = received'
  <2>1. CASE StoreInfo
      BY <2>1, <1>b, NextInfoKnown DEF InfoKnown
  <2>2. CASE ~StoreInfo
    <3>1. received' # 0 => received' = received
        BY <2>2, ReceivedMoves DEF LaunchJob
    <3> QED
        BY <3>1, <2>2, InfoStays DEF JobsOfStored
  <2> QED
      BY <2>1, <2>2
<1>2. ASSUME NEW j \in Jobs, pc'[j] # "none"
      PROVE  info' # None /\ j <= info'.session /\ j # received'
  <2>1. CASE pc[j] # "none"
    <3>1. info # None /\ j <= info.session /\ j # received /\ j \in Nat /\ j # 0
        BY <2>1, <1>a DEF JobsOfStored
    <3>2. CASE StoreInfo
        BY <3>1, <3>2, <1>a, <1>b
    <3>3. CASE ~StoreInfo
      <4>1. received' \in {0, received}
          BY <3>3, ReceivedMoves DEF LaunchJob
      <4> QED
          BY <3>1, <3>3, <4>1, InfoStays
    <3> QED
        BY <3>2, <3>3
  <2>2. CASE pc[j] = "none"
    <3>1. LaunchJob /\ j = received
        BY <2>2, <1>2, JobMoves
    <3> QED
        BY <3>1, <1>a DEF JobsOfStored, LaunchJob
  <2> QED
      BY <2>1, <2>2
<1>3. ASSUME NEW j \in cancelled' PROVE pc'[j] # "none"
  <2>1. j \in Jobs
      BY NextTypeOK DEF TypeOK
  <2>2. j \in cancelled \/ Live(j)
      BY CancelMoves DEF LaunchJob, ReceiveDisabled
  <2> QED
      BY <2>1, <2>2, JobMoves DEF JobsOfStored, Live
<1> QED
    BY <1>1, <1>2, <1>3 DEF JobsOfStored

(* The receiver goes on knowing its job, and the job follows the AP. *)
LEMMA NextJobFollowsAp == TypeInv /\ JobInv /\ [Next]_vars => JobFollowsAp'
<1> SUFFICES ASSUME TypeInv, JobInv, [Next]_vars PROVE JobFollowsAp'
    OBVIOUS
<1> USE DEF JobInv
<1>a. ASSUME NEW j \in Jobs, Live(j)' PROVE j = ipv6Job' /\ ~ReceiveDisabled
  <2>1. CASE LaunchJob /\ j = received
      BY <2>1 DEF LaunchJob, ReceiveDisabled
  <2>2. CASE ~(LaunchJob /\ j = received)
    <3>1. Live(j) /\ j = ipv6Job /\ ipv6Job # None
        BY <1>a, <2>2, LiveMoves, Names DEF JobFollowsAp
    <3>2. j \notin cancelled'
        BY <1>a DEF Live, Cancelled
    <3> QED
        BY <3>1, <3>2, CancelMoves DEF LaunchJob, ReceiveDisabled
  <2> QED
      BY <2>1, <2>2
<1>b. SUFFICES ASSUME broadcasts' = <<>>, received' = 0, ~destroyed'
               PROVE  /\ ap' = "off" => \A j \in Jobs : ~Live(j)'
                      /\ ap' = "on" /\ info' # None /\ info'.session = session'
                            /\ info'.type = "supported" =>
                         /\ ipv6Job' = session'
                         /\ Live(session)' \/ pc'[session'] = "announced"
    BY <1>a DEF JobFollowsAp
<1>c. /\ broadcasts \in Seq(Sessions) /\ session \in Sessions /\ ~destroyed /\ ~Destroy
      /\ info # None => info.session \in Jobs
      /\ pc \in [Waiters -> Labels] /\ ~ComesUp /\ ~GoesDown
  <2>1. /\ broadcasts \in Seq(Sessions) /\ session \in Sessions /\ pc \in [Waiters -> Labels]
        /\ info # None => info.session \in Jobs
      BY DEF TypeInv, TypeOK, Infos, Labels
  <2>2. ~destroyed /\ ~Destroy
      BY <1>b, ReceivedMoves DEF Destroy, TypeInv, TypeOK
  <2>3. Append(broadcasts, session + 1) # <<>> /\ Append(broadcasts, 0) # <<>>
      BY <2>1, Names
  <2> QED
      BY <1>b, <2>1, <2>2, <2>3 DEF ComesUp, GoesDown
<1>1. CASE StoreInfo \/ ReceiveDisabled
  <2>1. /\ Head(broadcasts) = (IF ap = "on" THEN session ELSE 0)
        /\ UNCHANGED <<ap, session>>
    <3>1. broadcasts # <<>> /\ Tail(broadcasts) = <<>> /\ UNCHANGED <<ap, session>>
        BY <1>1, <1>b DEF StoreInfo, ReceiveDisabled
    <3>2. Len(broadcasts) \in Nat /\ Len(Tail(broadcasts)) = Len(broadcasts) - 1
        BY <3>1, <1>c
    <3>3. Len(broadcasts) = 1
        BY <3>1, <3>2
    <3> QED
        BY <3>1, <3>3, <1>c DEF IntentsCurrent
  <2>2. CASE StoreInfo
    <3>1. ap = "on" /\ Head(broadcasts) = session /\ Head(broadcasts) # 0
        BY <2>1, <2>2 DEF StoreInfo
    <3>2. ap' = "on"
        BY <2>1, <3>1
    <3>3. ~(info' # None /\ info'.session = session' /\ info'.type = "supported")
      <4>1. CASE UNCHANGED info
        <5>1. 1 \in 1..Len(broadcasts) /\ Head(broadcasts) = broadcasts[1]
            BY <2>2, <1>c DEF StoreInfo
        <5>2. info # None => info.session < session
            BY <3>1, <5>1 DEF IntentsInOrder
        <5> QED
            BY <4>1, <5>2, <2>1, <1>c, Names
      <4>2. CASE info' # info
        <5>1. info'.type = config /\ received' = (IF config = "supported" THEN Head(broadcasts) ELSE 0)
            BY <2>2, <4>2 DEF StoreInfo
        <5> QED
            BY <5>1, <3>1, <1>b
      <4> QED
          BY <4>1, <4>2
    <3> QED
        BY <3>2, <3>3
  <2>3. CASE ReceiveDisabled
    <3>1. \A j \in Jobs : ~Live(j)'
        BY <1>a, <2>3
    <3>2. info' = info /\ Head(broadcasts) = 0
        BY <2>3 DEF ReceiveDisabled
    <3>3. ap' = "on" => session' = 0
        BY <2>1, <3>2
    <3> QED
        BY <3>1, <3>2, <3>3, <1>c DEF Jobs
  <2> QED
      BY <1>1, <2>2, <2>3
<1>2. CASE LaunchJob
  <2>1. received # 0 /\ broadcasts = <<>> /\ UNCHANGED <<ap, session>>
      BY <1>2, <1>b DEF LaunchJob, apVars
  <2>2. ap = "on" /\ received = session /\ session \in Jobs
      BY <2>1, <1>c, Names DEF IntentsCurrent
  <2>3. pc[session] = "none" /\ session \notin cancelled
      BY <2>2 DEF JobsOfStored
  <2>4. ipv6Job' = session /\ pc'[session] = "launched" /\ session \notin cancelled'
      BY <1>2, <2>2, <2>3, <1>c, Names DEF LaunchJob, Live
  <2> QED
      BY <1>b, <2>1, <2>2, <2>4 DEF Live, Cancelled
<1>3. CASE ~(StoreInfo \/ ReceiveDisabled \/ LaunchJob)
  <2>1. UNCHANGED <<ap, session, broadcasts, received, cancelled, ipv6Job, destroyed>>
      BY <1>3, <1>c, BroadcastMoves, ReceivedMoves, CancelMoves
  <2>2. ap' = "off" => \A j \in Jobs : ~Live(j)'
      BY <2>1, <1>3, <1>b, LiveMoves DEF JobFollowsAp
  <2>3. ASSUME ap' = "on", info' # None, info'.session = session', info'.type = "supported"
        PROVE  ipv6Job' = session' /\ (Live(session)' \/ pc'[session'] = "announced")
    <3>1. info # None /\ info.session = session /\ info.type = "supported"
        BY <2>1, <2>3, <1>3, InfoMoves
    <3>2. ipv6Job = session /\ (Live(session) \/ pc[session] = "announced") /\ session \in Jobs
        BY <2>1, <2>3, <3>1, <1>b, <1>c DEF JobFollowsAp
    <3>3. CASE pc[session] = "announced"
        BY <3>2, <3>3, <2>1, <1>3, JobMoves
    <3>4. CASE pc[session] # "announced"
      <4>1. ~Cancelled(session) /\ pc[session] \notin {"none", "done"}
          BY <3>2, <3>4 DEF Live
      <4>2. pc'[session] \notin {"none", "done"}
        <5>1. session \in Waiters /\ session \notin Requests
            BY <3>2, Names
        <5>2. Wait(session) => pc'[session] \notin {"none", "done"}
            BY <4>1, <5>1, <1>c DEF Wait, Collect, Resume, SetAddress, Emit, EndCancelled, Goto
        <5> QED
            BY <4>1, <5>1, <5>2, <1>c, <1>3, Moves
      <4> QED
          BY <2>1, <3>2, <4>1, <4>2 DEF Live, Cancelled
    <3> QED
        BY <3>3, <3>4
  <2> QED
      BY <2>2, <2>3
<1> QED
    BY <1>1, <1>2, <1>3

(* onReceive, for any number of sessions, requests and user steps: the job that    *)
(* waits for the address is the one that the receiver can cancel, and, when the    *)
(* receiver has caught up with the AP, it is there exactly for an AP that is on.   *)
THEOREM JobAlwaysFollowsAp == Spec => []JobFollowsAp
<1>1. Init => JobInv
  <2> SUFFICES ASSUME Init PROVE JobInv
      OBVIOUS
  <2>1. session \in Nat /\ broadcasts = <<session>> /\ received = 0 /\ info = None
      BY DEF Init
  <2>2. \A j \in Jobs : pc[j] = "none" /\ ~Live(j)
      BY Names DEF Init, Live
  <2>3. IntentsCurrent
      BY <2>1 DEF Init, IntentsCurrent
  <2>4. IntentsInOrder
    <3>1. Len(broadcasts) = 1 /\ broadcasts[1] = session
        BY <2>1
    <3> QED
        BY <2>1, <3>1 DEF IntentsInOrder
  <2>5. JobsOfStored /\ JobFollowsAp
      BY <2>1, <2>2 DEF Init, JobsOfStored, JobFollowsAp
  <2> QED
      BY <2>3, <2>4, <2>5 DEF JobInv
<1>2. TypeInv /\ JobInv /\ [Next]_vars => JobInv'
    BY NextIntentsCurrent, NextIntentsInOrder, NextJobsOfStored, NextJobFollowsAp DEF JobInv
<1>3. JobInv => JobFollowsAp
    BY DEF JobInv
<1> QED
    BY <1>1, <1>2, <1>3, AlwaysTypeInv, PTL DEF Spec
=============================================================================
