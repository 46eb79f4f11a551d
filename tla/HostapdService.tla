----------------------------- MODULE HostapdService -----------------------------
(***************************************************************************)
(* net/HostapdService.kt: the broadcast receiver that follows the WiFi     *)
(* access point (AP) on the main thread, the coroutine it launches to      *)
(* announce the AP with its IPv6 address, and the coroutines of            *)
(* getCarplayCompatSoftApConfigure, which reconfigure and restart the AP,  *)
(* or wait for the address themselves.  An announcement makes              *)
(* CarplayRuntime start the CarPlay session.                               *)
(*                                                                         *)
(* External: the AP (WifiManager, TetheringManager), its user, and the     *)
(* kernel's address events, which NetLinkMonitor puts in the shared flow   *)
(* and which reach every coroutine that collects it.  The n-th time the AP *)
(* comes up is session n; an address is named by its session, 0 is none.   *)
(* The states between on and off are ignored by the code and left out.     *)
(***************************************************************************)
EXTENDS Naturals, Sequences, FiniteSets

CONSTANTS Requests,     \* calls of getCarplayCompatSoftApConfigure
          MaxSessions,  \* bound on the times the AP comes up
          MaxUser,      \* bound on what the user does to the AP
          None

ASSUME BoundsAssumption == MaxSessions \in Nat \ {0} /\ MaxUser \in Nat

Jobs == 1..MaxSessions      \* coroutines of the receiver, by session
Sessions == 0..MaxSessions
Waiters == Jobs \cup Requests

Types == {"supported", "unsupported"}
Infos == [type : Types, session : Jobs, address : Sessions]

ASSUME NamesAssumption == Jobs \cap Requests = {} /\ None \notin Jobs \cup Infos

VARIABLES
    ap,          \* the AP: "on" or "off"
    session,     \* times the AP has come up
    config,      \* the soft AP configuration: "supported" or "unsupported"
    running,     \* the configuration the AP came up with
    address,     \* the IPv6 address of wlan2
    stopping,    \* a stopTethering that has not taken effect
    broadcasts,  \* WIFI_AP_STATE_CHANGED intents for the main thread: a session, or 0 for off
    received,    \* the session whose intent onReceive is in the middle of, or 0
    info,        \* mSoftApConfigurationStateFlow
    ipv6Job,     \* mHostapdIpv6Job
    pc,          \* each coroutine
    cancelled,   \* jobs that were cancelled
    heard,       \* the address of the event a coroutine was resumed with
    destroyed,   \* the service was destroyed: its scope is cancelled
    announced,   \* the last HostapdConfigurationChangedEvent
    userSteps,   \* what the user has done so far
    disturbed,   \* the user, a failure or the destruction got in the way
    crashed      \* an exception of onReceive has ended the process

apVars == <<ap, session, running, address, stopping, broadcasts>>
mainVars == <<received, info, ipv6Job>>
runVars == <<apVars, config, mainVars, pc, cancelled, heard, destroyed, announced, userSteps, disturbed>>
vars == <<runVars, crashed>>

TypeOK ==
    /\ ap \in {"on", "off"}
    /\ session \in Sessions
    /\ config \in Types
    /\ running \in Types
    /\ address \in Sessions
    /\ stopping \in BOOLEAN
    /\ broadcasts \in Seq(Sessions)
    /\ received \in Sessions
    /\ info \in Infos \cup {None}
    /\ ipv6Job \in Jobs \cup {None}
    /\ pc \in [Waiters -> {"none", "launched", "off", "on", "configStart", "configStop",
                           "register", "stopCall", "stopCallHeard", "stopWait", "stopped",
                           "start", "startWait", "hung", "await", "waiting", "resumed",
                           "set", "emit", "announced", "started", "done"}]
    /\ cancelled \subseteq Jobs
    /\ heard \in [Waiters -> Sessions]
    /\ destroyed \in BOOLEAN
    /\ announced \in Infos \cup {None}
    /\ userSteps \in 0..MaxUser
    /\ disturbed \in BOOLEAN
    /\ crashed \in BOOLEAN

\* The state intent is sticky: registering the receiver delivers the current one.
Init ==
    /\ ap \in {"on", "off"}
    /\ session = (IF ap = "on" THEN 1 ELSE 0)
    /\ config \in Types
    /\ running = config
    /\ address = 0
    /\ stopping = FALSE
    /\ broadcasts = <<session>>
    /\ received = 0
    /\ info = None
    /\ ipv6Job = None
    /\ pc = [w \in Waiters |-> "none"]
    /\ cancelled = {}
    /\ heard = [w \in Waiters |-> 0]
    /\ destroyed = FALSE
    /\ announced = None
    /\ userSteps = 0
    /\ disturbed = FALSE
    /\ crashed = FALSE

-----------------------------------------------------------------------------
(* The AP. *)

ComesUp ==
    /\ session < MaxSessions
    /\ ap' = "on"
    /\ session' = session + 1
    /\ running' = config
    /\ broadcasts' = IF destroyed THEN <<>> ELSE Append(broadcasts, session + 1)
    /\ UNCHANGED <<address, stopping>>

\* Callbacks registered with the AP are told, and the requests behind them resumed.
GoesDown ==
    /\ ap' = "off"
    /\ address' = 0
    /\ stopping' = FALSE
    /\ broadcasts' = IF destroyed THEN <<>> ELSE Append(broadcasts, 0)
    /\ pc' = [w \in Waiters |-> CASE pc[w] = "stopCall" -> "stopCallHeard"
                                   [] pc[w] = "stopWait" -> "stopped"
                                   [] OTHER -> pc[w]]
    /\ UNCHANGED <<session, running>>

Cancelled(w) == w \in cancelled \/ destroyed
Live(j) == pc[j] \notin {"none", "announced", "done"} /\ ~Cancelled(j)

-----------------------------------------------------------------------------
(* onReceive, on the main thread. *)

\* ENABLED: the configuration is read (and may not be readable) and stored with
\* the address wlan2 has by now.
StoreInfo ==
    /\ received = 0
    /\ broadcasts # <<>> /\ Head(broadcasts) # 0
    /\ broadcasts' = Tail(broadcasts)
    /\ \/ /\ info' = [type |-> config, session |-> Head(broadcasts), address |-> address]
          /\ received' = IF config = "supported" THEN Head(broadcasts) ELSE 0
       \/ UNCHANGED <<info, received>>
    /\ UNCHANGED <<ap, session, config, running, address, stopping, ipv6Job, pc, cancelled,
                   heard, destroyed, announced, userSteps, disturbed, crashed>>

\* The address of wlan2 cannot be read: getOrThrow throws in onReceive, on the main
\* thread, where nothing catches it.
ReceiveThrows ==
    /\ received = 0
    /\ broadcasts # <<>> /\ Head(broadcasts) # 0
    /\ crashed' = TRUE
    /\ UNCHANGED runVars

\* Mutant: the new job is not kept in mHostapdIpv6Job.
LaunchJobForgotten ==
    /\ received # 0
    /\ pc' = [pc EXCEPT ![received] = "launched"]
    /\ received' = 0
    /\ UNCHANGED <<apVars, config, info, ipv6Job, cancelled, heard, destroyed, announced,
                   userSteps, disturbed, crashed>>

\* Mutant: what is cancelled is the member after the new job was stored in it.
LaunchJobThenCancel ==
    /\ received # 0
    /\ cancelled' = cancelled \cup {received}
    /\ ipv6Job' = received
    /\ pc' = [pc EXCEPT ![received] = "launched"]
    /\ received' = 0
    /\ UNCHANGED <<apVars, config, info, heard, destroyed, announced, userSteps, disturbed, crashed>>

\* ... and, when the type is one of the two supported, a new job takes over.
LaunchJob ==
    /\ received # 0
    /\ cancelled' = IF ipv6Job # None /\ Live(ipv6Job) THEN cancelled \cup {ipv6Job} ELSE cancelled
    /\ ipv6Job' = received
    /\ pc' = [pc EXCEPT ![received] = "launched"]
    /\ received' = 0
    /\ UNCHANGED <<apVars, config, info, heard, destroyed, announced, userSteps, disturbed, crashed>>

\* Mutant: the job is cancelled without a test for null.
ReceiveDisabledUnchecked ==
    /\ received = 0
    /\ broadcasts # <<>> /\ Head(broadcasts) = 0
    /\ broadcasts' = Tail(broadcasts)
    /\ cancelled' = cancelled \cup {ipv6Job} /\ ipv6Job' = None
    /\ UNCHANGED <<ap, session, config, running, address, stopping, received, info, pc, heard,
                   destroyed, announced, userSteps, disturbed, crashed>>

\* DISABLED: the job is cancelled, if there is one.
ReceiveDisabled ==
    /\ received = 0
    /\ broadcasts # <<>> /\ Head(broadcasts) = 0
    /\ broadcasts' = Tail(broadcasts)
    /\ IF ipv6Job # None /\ Live(ipv6Job)
       THEN cancelled' = cancelled \cup {ipv6Job} /\ ipv6Job' = None
       ELSE UNCHANGED <<cancelled, ipv6Job>>
    /\ UNCHANGED <<ap, session, config, running, address, stopping, received, info, pc, heard,
                   destroyed, announced, userSteps, disturbed, crashed>>

\* onDestroy: the receiver goes, and with the scope every coroutine that suspends.
Destroy ==
    /\ ~destroyed
    /\ received = 0
    /\ destroyed' = TRUE
    /\ broadcasts' = <<>>
    /\ disturbed' = TRUE
    /\ UNCHANGED <<ap, session, config, running, address, stopping, mainVars, pc, cancelled,
                   heard, announced, userSteps, crashed>>

-----------------------------------------------------------------------------
(* Waiting for the address: the receiver's job, and a request that finds all well. *)

Goto(w, label) == pc' = [pc EXCEPT ![w] = label]
CoroutineOnly == UNCHANGED <<apVars, config, mainVars, cancelled, heard, destroyed, announced,
                             userSteps, disturbed, crashed>>

\* The coroutine collects the shared flow, which replays nothing.
Collect(w) ==
    /\ pc[w] = (IF w \in Jobs THEN "launched" ELSE "await")
    /\ Goto(w, IF Cancelled(w) THEN "done" ELSE "waiting")
    /\ CoroutineOnly

\* Resumed by an event of wlan2, unless it was cancelled meanwhile.
Resume(w) ==
    /\ pc[w] = "resumed"
    /\ Goto(w, IF Cancelled(w) THEN "done" ELSE "set")
    /\ CoroutineOnly

\* The address is stored in whatever information is current by now ...
SetAddress(w) ==
    /\ pc[w] = "set"
    /\ info' = [info EXCEPT !.address = heard[w]]
    /\ heard' = [heard EXCEPT ![w] = 0]
    /\ Goto(w, "emit")
    /\ UNCHANGED <<apVars, config, received, ipv6Job, cancelled, destroyed, announced,
                   userSteps, disturbed, crashed>>

\* ... and the information that is current then is announced.
Emit(w) ==
    /\ pc[w] = "emit"
    /\ announced' = info
    /\ Goto(w, "announced")
    /\ UNCHANGED <<apVars, config, mainVars, cancelled, heard, destroyed, userSteps, disturbed, crashed>>

\* A suspended coroutine that is cancelled ends.
EndCancelled(w) ==
    /\ Cancelled(w)
    /\ pc[w] \in {"launched", "waiting", "stopWait", "stopped", "startWait", "hung"}
    /\ Goto(w, "done")
    /\ CoroutineOnly

-----------------------------------------------------------------------------
(* getCarplayCompatSoftApConfigure. *)

Request(r) ==
    /\ pc[r] = "none"
    /\ ~destroyed
    /\ Goto(r, "launched")
    /\ CoroutineOnly

\* isHostapdEnable; a state that cannot be read counts as a failed AP.
CheckEnabled(r) ==
    /\ pc[r] = "launched" /\ ~destroyed
    /\ \/ /\ Goto(r, ap)
          /\ UNCHANGED disturbed
       \/ /\ Goto(r, "off")
          /\ disturbed' = TRUE
    /\ UNCHANGED <<apVars, config, mainVars, cancelled, heard, destroyed, announced, userSteps, crashed>>

\* isHostapdSecurityTypeCorrect asks the information of the last broadcast, not the AP.
TypeCorrect == info # None /\ info.type = "supported"

\* An AP that is off is started only if the stored type is wrong.
CheckTypeOff(r) ==
    /\ pc[r] = "off"
    /\ Goto(r, IF TypeCorrect THEN "done" ELSE "configStart")
    /\ CoroutineOnly

CheckTypeOn(r) ==
    /\ pc[r] = "on"
    /\ Goto(r, IF TypeCorrect THEN "await" ELSE "configStop")
    /\ CoroutineOnly

\* setSoftApConfigAndroid12Plus, whose failure is only logged.
SetConfig(r) ==
    /\ pc[r] \in {"configStart", "configStop"}
    /\ Goto(r, IF pc[r] = "configStart" THEN "start" ELSE "register")
    /\ \/ config' = "supported" /\ UNCHANGED disturbed
       \/ disturbed' = TRUE /\ UNCHANGED config
    /\ UNCHANGED <<apVars, mainVars, cancelled, heard, destroyed, announced, userSteps, crashed>>

\* Mutant: what the callback is told of the current state is not taken for an answer.
RegisterCallbackUntold(r) ==
    /\ pc[r] = "register"
    /\ Goto(r, "stopCall")
    /\ CoroutineOnly

\* stopHotspot: the callback is told the current state when it is registered.
\* An exception before leaves the coroutine suspended with nothing to resume it.
RegisterCallback(r) ==
    /\ pc[r] = "register"
    /\ \/ /\ Goto(r, IF ap = "on" THEN "stopCall" ELSE "stopCallHeard")
          /\ UNCHANGED disturbed
       \/ /\ Goto(r, "hung")
          /\ disturbed' = TRUE
    /\ UNCHANGED <<apVars, config, mainVars, cancelled, heard, destroyed, announced, userSteps, crashed>>

\* Mutant: the request goes on without waiting for the callback.
StopTetheringUnwaited(r) ==
    /\ pc[r] \in {"stopCall", "stopCallHeard"}
    /\ Goto(r, "stopped")
    /\ stopping' = (ap = "on")
    /\ disturbed' = (disturbed \/ (pc[r] = "stopCallHeard" /\ ap = "on"))
    /\ UNCHANGED <<ap, session, running, address, broadcasts, config, mainVars, cancelled, heard,
                   destroyed, announced, userSteps, crashed>>

\* Then stopTethering, or an exception in its place.  When the callback has come
\* already, the stop is one too many: it hits the AP another request has started.
StopTethering(r) ==
    /\ pc[r] \in {"stopCall", "stopCallHeard"}
    /\ Goto(r, IF pc[r] = "stopCall" THEN "stopWait" ELSE "stopped")
    /\ \/ /\ stopping' = (ap = "on")
          /\ disturbed' = (disturbed \/ (pc[r] = "stopCallHeard" /\ ap = "on"))
       \/ /\ disturbed' = TRUE
          /\ UNCHANGED stopping
    /\ UNCHANGED <<ap, session, running, address, broadcasts, config, mainVars, cancelled, heard,
                   destroyed, announced, userSteps, crashed>>

\* startHotspot: the AP comes up, or the start fails (always when it is up
\* already); the callback resumes the request in both cases.
StartHotspot(r) ==
    /\ pc[r] \in {"stopped", "start"}
    /\ pc[r] = "stopped" => ~destroyed
    /\ \/ /\ ap = "off" /\ ComesUp
          /\ Goto(r, "startWait")
          /\ UNCHANGED disturbed
       \/ /\ Goto(r, "startWait")
          /\ disturbed' = (disturbed \/ ap = "off")
          /\ UNCHANGED apVars
       \/ /\ Goto(r, "hung")
          /\ disturbed' = TRUE
          /\ UNCHANGED apVars
    /\ UNCHANGED <<config, mainVars, cancelled, heard, destroyed, announced, userSteps, crashed>>

TetheringCallback(r) ==
    /\ pc[r] = "startWait"
    /\ Goto(r, "started")
    /\ CoroutineOnly

-----------------------------------------------------------------------------
(* The AP, its user and the kernel. *)

\* A pending stop takes effect.
Stops ==
    /\ stopping
    /\ GoesDown
    /\ UNCHANGED <<config, mainVars, cancelled, heard, destroyed, announced, userSteps, disturbed, crashed>>

UserToggles ==
    /\ userSteps < MaxUser
    /\ userSteps' = userSteps + 1
    /\ disturbed' = TRUE
    /\ IF ap = "on" THEN GoesDown ELSE ComesUp /\ UNCHANGED pc
    /\ UNCHANGED <<config, mainVars, cancelled, heard, destroyed, announced, crashed>>

UserConfigures ==
    /\ userSteps < MaxUser
    /\ userSteps' = userSteps + 1
    /\ disturbed' = TRUE
    /\ config' \in Types \ {config}
    /\ UNCHANGED <<apVars, mainVars, pc, cancelled, heard, destroyed, announced, crashed>>

\* RTM_NEWADDR for wlan2: every coroutine that collects the flow is resumed.
AddressEvent ==
    /\ ap = "on"
    /\ address' = session
    /\ heard' = [w \in Waiters |-> IF pc[w] = "waiting" THEN session ELSE heard[w]]
    /\ pc' = [w \in Waiters |-> IF pc[w] = "waiting" THEN "resumed" ELSE pc[w]]
    /\ UNCHANGED <<ap, session, running, stopping, broadcasts, config, mainVars, cancelled,
                   destroyed, announced, userSteps, disturbed, crashed>>

-----------------------------------------------------------------------------
MainThread == StoreInfo \/ ReceiveThrows \/ LaunchJob \/ ReceiveDisabled
Wait(w) == Collect(w) \/ Resume(w) \/ SetAddress(w) \/ Emit(w) \/ EndCancelled(w)
Ready(r) ==
    \/ CheckEnabled(r) \/ CheckTypeOff(r) \/ CheckTypeOn(r) \/ SetConfig(r)
    \/ RegisterCallback(r) \/ StopTethering(r) \/ StartHotspot(r) \/ TetheringCallback(r)

Next ==
    /\ ~crashed
    /\ \/ MainThread \/ Destroy
       \/ \E w \in Waiters : Wait(w)
       \/ \E r \in Requests : Request(r) \/ Ready(r)
       \/ Stops \/ UserToggles \/ UserConfigures \/ AddressEvent

\* Everything that goes on by itself: coroutines and the main thread, a stop that
\* takes effect, a start that calls back.
Proceed ==
    /\ ~crashed
    /\ \/ MainThread \/ Stops
       \/ \E w \in Waiters : Wait(w)
       \/ \E r \in Requests : Ready(r)

\* None of it loops: each part is finitely many steps that stay enabled until they
\* are taken, so that one condition for all says as much as one for each.
\* Requests, the user and the kernel do as they please.
Fairness == WF_vars(Proceed)

Spec == Init /\ [][Next]_vars /\ Fairness

-----------------------------------------------------------------------------
(* Properties. *)

\* The job that waits for the address is the one the receiver knows and can
\* cancel; once the receiver has caught up with the AP, there is one exactly if
\* the AP is on and was found to be of a supported type.
JobFollowsAp ==
    /\ \A j \in Jobs : Live(j) => j = ipv6Job
    /\ broadcasts = <<>> /\ received = 0 /\ ~destroyed =>
          /\ ap = "off" => \A j \in Jobs : ~Live(j)
          /\ ap = "on" /\ info # None /\ info.session = session /\ info.type = "supported" =>
                ipv6Job = session /\ (Live(session) \/ pc[session] = "announced")

\* Requests that restart the AP, several at a time or while broadcasts lag
\* behind, leave it running with a supported type, when neither the user, nor a
\* failure, nor a superfluous stop interferes.
Restarting(r) == pc[r] \in {"register", "stopCall", "stopCallHeard", "stopWait", "stopped",
                            "start", "startWait"}

RestartsLeaveApUp ==
    /\ ~disturbed
    /\ \E r \in Requests : pc[r] = "started"
    /\ \A r \in Requests : ~Restarting(r)
    => ap = "on" /\ running = "supported"

\* A request that waits for the callback of its stop waits for an AP that is
\* still on, and that a stop is about to take down unless a failure lost it: the
\* callback never came before it was waited for, whoever else stops or starts.
CallbackStillToCome ==
    \A r \in Requests :
        pc[r] = "stopWait" => ap = "on" /\ (stopping \/ disturbed)

\* An AP that stays up, and whose supported configuration the receiver has read, is
\* announced, and its announcement stays the last one, if the kernel goes on telling
\* its address: whatever job of an earlier session was there, and whatever events
\* came before the new job collected them.
Settled ==
    /\ ap = "on" /\ ~destroyed /\ ~crashed
    /\ info # None /\ info.session = session /\ info.type = "supported"

Current == announced # None /\ announced.session = session

AddressAnnounced == WF_vars(~crashed /\ AddressEvent) => (<>[]Settled => <>[]Current)

\* What the comment on HostapdSecurityType says: two types are supported; no
\* other is announced.
OnlySupportedAnnounced == announced # None => announced.type = "supported"

\* What the message of the check says of an AP that is off: that it will be started.
OffApIsStarted ==
    \A r \in Requests :
        pc[r] = "off" ~> pc[r] \in {"startWait", "hung"} \/ ap = "on" \/ destroyed \/ crashed
=============================================================================
