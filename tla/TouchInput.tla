------------------------------- MODULE TouchInput -------------------------------
(***************************************************************************)
(* The way of a touch to the peer: the touch listener of                    *)
(* CarplayMainActivity reads two pointers of a MotionEvent, UiService packs *)
(* them into one Long and puts it into a flow that drops its oldest, and a  *)
(* collector of CarplayRuntime calls the peer with one Long after the       *)
(* other.                                                                  *)
(*                                                                         *)
(* The main thread runs the listener, another one the collector.  The       *)
(* framework, which numbers the pointers of an event by increasing identity *)
(* and without gaps, is outside the repository; so is the peer, which is    *)
(* taken to unpack what was packed.  Pointer indices count from 1 here.     *)
(***************************************************************************)
EXTENDS Integers, Sequences, FiniteSets, SequencesExt

CONSTANTS Fingers,    \* identities the framework may give to fingers
          Positions,  \* pairs of coordinates a finger may be at
          Capacity,   \* extraBufferCapacity of the flow, 60 in the code
          MaxEvents   \* bound on the number of motion events

ASSUME TouchAssumption ==
    /\ Fingers \subseteq Nat /\ IsFiniteSet(Fingers)
    /\ Positions \subseteq Int \X Int
    /\ Capacity \in Nat \ {0}
    /\ MaxEvents \in Nat

VARIABLES
    pointers,   \* the fingers on the surface, in the order of their indices
    events,     \* how many motion events there were
    crowd,      \* more than two fingers were down in this gesture
    bound,      \* mUiServiceBinder is set
    target,     \* the listener took the gesture's first event
    crashed,    \* the listener indexed an array beyond its end
    shown,      \* the Long reported last
    subscribed, \* the collector of the runtime collects
    flow,       \* mUiHidSharedFlow
    calling,    \* the Long of the collector's call, None outside it
    missed,     \* the Long reported last will never reach the peer
    peer        \* the Long the peer received last

vars == <<pointers, events, crowd, bound, target, crashed, shown, subscribed, flow,
          calling, missed, peer>>

-----------------------------------------------------------------------------
(* Packing.  A Long is the set of its bits. *)

Released == {}
None == {-1}

Slots == 1..2

\* Mutant: the coordinate is not masked.
LowBitsUnmasked(n, width) == {i \in 0..30 : (n \div (2^i)) % 2 = 1}

\* n and 2^width - 1, n in two's complement.
LowBits(n, width) == {i \in 0..width - 1 : (n \div (2^i)) % 2 = 1}

Shl(bits, k) == {i + k : i \in bits}

Flag(state) == IF state THEN {0} ELSE {}

\* Where the 25 bits of a slot begin.
Base(i) == 25 * (i - 1)

\* The packing of updateUiMotionEventChanged.
Packed(touch) ==
    UNION {Shl(LowBits(touch[i].x, 12), Base(i))
               \cup Shl(LowBits(touch[i].y, 12), Base(i) + 12)
               \cup Shl(Flag(touch[i].state), Base(i) + 24) : i \in Slots}

\* What a reader of the packed Long finds in a slot.
Number(bits, from) ==
    LET D(i) == IF from + i \in bits THEN 1 ELSE 0
    IN D(0) + 2 * D(1) + 4 * D(2) + 8 * D(3) + 16 * D(4) + 32 * D(5) + 64 * D(6)
       + 128 * D(7) + 256 * D(8) + 512 * D(9) + 1024 * D(10) + 2048 * D(11)

Pressed(bits, i) == Base(i) + 24 \in bits
PackedX(bits, i) == Number(bits, Base(i))
PackedY(bits, i) == Number(bits, Base(i) + 12)

-----------------------------------------------------------------------------
(* The listener. *)

\* Mutant: every pointer of the event is copied.
ReportedAll(ps) == Len(ps)

\* pointerCount, at most two.
Reported(ps) == IF Len(ps) > 2 THEN 2 ELSE Len(ps)

\* The indices of x, y and state that the listener writes.
Written(action, index, ps) ==
    CASE action = "down" -> {1}
      [] action = "pointerUp" -> {index} \cup 1..Reported(ps)
      [] OTHER -> 1..Reported(ps)

\* The state it writes there: pressed, but for the finger that is lifted, and for
\* all of them at the end.
State(action, index, i) ==
    \/ action \in {"down", "pointerDown", "move"}
    \/ action = "pointerUp" /\ i # index

Touch(action, index, ps) ==
    [i \in Slots |->
        IF i \in Written(action, index, ps)
        THEN [x |-> ps[i].x, y |-> ps[i].y, state |-> State(action, index, i)]
        ELSE [x |-> 0, y |-> 0, state |-> FALSE]]

\* Mutant: a flow that is full refuses what comes.
EmitUnlessFull(bits) ==
    /\ flow' = IF subscribed /\ Len(flow) < Capacity THEN Append(flow, bits) ELSE flow
    /\ missed' = ~subscribed

\* Mutant: nothing is dropped.
EmitUnbounded(bits) ==
    /\ flow' = IF subscribed THEN Append(flow, bits) ELSE flow
    /\ missed' = ~subscribed

\* tryEmit: with nobody collecting, the value is dropped; else the oldest is,
\* if there is no room.
Emit(bits) ==
    /\ flow' = IF ~subscribed THEN flow
               ELSE Append(IF Len(flow) = Capacity THEN Tail(flow) ELSE flow, bits)
    /\ missed' = ~subscribed

\* The listener is called with an event of these pointers.
Listener(action, index, ps) ==
    IF Written(action, index, ps) \subseteq Slots
    THEN LET bits == Packed(Touch(action, index, ps))
         IN /\ IF bound THEN Emit(bits) /\ shown' = bits
               ELSE UNCHANGED <<flow, missed, shown>>
            /\ UNCHANGED crashed
    ELSE crashed' = TRUE /\ UNCHANGED <<flow, missed, shown>>

\* The framework brings a gesture's further events only if its first was taken.
Dispatch(action, index, ps) ==
    IF action = "down" \/ target THEN Listener(action, index, ps)
    ELSE UNCHANGED <<flow, missed, shown, crashed>>

-----------------------------------------------------------------------------
(* The fingers. *)

Event ==
    /\ ~crashed
    /\ events < MaxEvents
    /\ events' = events + 1
    /\ UNCHANGED <<bound, subscribed, calling, peer>>

Pointer(id, p) == [id |-> id, x |-> p[1], y |-> p[2]]
Ids(ps) == {ps[i].id : i \in DOMAIN ps}

\* The first finger: the result of the listener decides who gets the rest.
Down(id, p) ==
    /\ Event
    /\ pointers = <<>>
    /\ pointers' = <<Pointer(id, p)>>
    /\ crowd' = FALSE
    /\ target' = bound
    /\ Dispatch("down", 1, pointers')

Ordered(ps) == \A i, j \in DOMAIN ps : i < j => ps[i].id < ps[j].id

\* Another finger, which gets the index its identity has among those that are there.
PointerDown(id, p, index) ==
    /\ Event
    /\ pointers # <<>>
    /\ id \notin Ids(pointers)
    /\ pointers' = InsertAt(pointers, index, Pointer(id, p))
    /\ Ordered(pointers')
    /\ crowd' = (crowd \/ Len(pointers') > 2)
    /\ Dispatch("pointerDown", index, pointers')
    /\ UNCHANGED target

Move(to) ==
    /\ Event
    /\ pointers # <<>>
    /\ pointers' = [i \in DOMAIN pointers |-> Pointer(pointers[i].id, to[i])]
    /\ Dispatch("move", 1, pointers')
    /\ UNCHANGED <<target, crowd>>

\* One finger of several is lifted; those behind it get smaller indices.
PointerUp(index) ==
    /\ Event
    /\ Len(pointers) > 1
    /\ pointers' = RemoveAt(pointers, index)
    /\ Dispatch("pointerUp", index, pointers)
    /\ UNCHANGED <<target, crowd>>

\* The last finger is lifted, or the framework takes the gesture away.
End(action) ==
    /\ Event
    /\ IF action = "up" THEN Len(pointers) = 1 ELSE pointers # <<>>
    /\ pointers' = <<>>
    /\ Dispatch(action, 1, pointers)
    /\ UNCHANGED <<target, crowd>>

-----------------------------------------------------------------------------
(* The services and the collector. *)

\* bindService returns to the activity.
BindUiService ==
    /\ ~crashed /\ ~bound
    /\ bound' = TRUE
    /\ UNCHANGED <<pointers, events, crowd, target, crashed, shown, subscribed, flow, calling,
                   missed, peer>>

\* The fourth collector of initCarplayRuntime starts.
Subscribe ==
    /\ ~crashed /\ ~subscribed
    /\ subscribed' = TRUE
    /\ UNCHANGED <<pointers, events, crowd, bound, target, crashed, shown, flow, calling,
                   missed, peer>>

Collect ==
    /\ ~crashed /\ calling = None
    /\ flow # <<>>
    /\ calling' = Head(flow)
    /\ flow' = Tail(flow)
    /\ UNCHANGED <<pointers, events, crowd, bound, target, crashed, shown, subscribed,
                   missed, peer>>

\* touchScreenHid returns, the peer having got the value or not: there may be
\* no dial, or the call times out.
CallReturns(arrived) ==
    /\ ~crashed /\ calling # None
    /\ calling' = None
    /\ peer' = IF arrived THEN calling ELSE peer
    /\ missed' = IF flow = <<>> THEN ~arrived ELSE missed
    /\ UNCHANGED <<pointers, events, crowd, bound, target, crashed, shown, subscribed, flow>>

Init ==
    /\ pointers = <<>>
    /\ events = 0
    /\ crowd = FALSE
    /\ bound = FALSE
    /\ target = FALSE
    /\ crashed = FALSE
    /\ shown = Released
    /\ subscribed = FALSE
    /\ flow = <<>>
    /\ calling = None
    /\ missed = FALSE
    /\ peer = Released

Touches ==
    \/ \E id \in Fingers, p \in Positions : Down(id, p)
    \/ \E id \in Fingers, p \in Positions, index \in 1..Len(pointers) + 1 :
          PointerDown(id, p, index)
    \/ \E to \in [DOMAIN pointers -> Positions] : Move(to)
    \/ \E index \in DOMAIN pointers : PointerUp(index)
    \/ \E action \in {"up", "cancel"} : End(action)

Collector == Collect \/ \E arrived \in BOOLEAN : CallReturns(arrived)

Next == Touches \/ BindUiService \/ Subscribe \/ Collector

\* The collector is a coroutine that is always resumed, and call_remote returns
\* in any case.  Nobody has to touch anything.
Spec == Init /\ [][Next]_vars /\ WF_vars(Collector)

-----------------------------------------------------------------------------
(* Properties. *)

TypeOK ==
    /\ Len(pointers) <= Cardinality(Fingers)
    /\ Ids(pointers) \subseteq Fingers /\ Ordered(pointers)
    /\ events \in 0..MaxEvents
    /\ {crowd, bound, target, crashed, subscribed, missed} \subseteq BOOLEAN
    /\ Len(flow) <= Capacity
    /\ \A i \in DOMAIN flow : flow[i] \subseteq 0..63
    /\ shown \subseteq 0..63 /\ peer \subseteq 0..63
    /\ calling = None \/ calling \subseteq 0..63

\* A slot shows a finger if each coordinate that fits into its twelve bits is
\* exact, whatever the other one is.
Fits(n) == n \in 0..4095
Shows(bits, i, pointer) ==
    /\ Fits(pointer.x) => PackedX(bits, i) = pointer.x
    /\ Fits(pointer.y) => PackedY(bits, i) = pointer.y

\* The pressed touches of the last report are fingers that are on the surface,
\* each a different one, and, as long as no third finger came in, all of them:
\* whatever indices the framework gave them and whichever was lifted first.
ReportsShowFingers ==
    target /\ ~crashed =>
        LET touched == {i \in Slots : Pressed(shown, i)}
        IN /\ \E finger \in [touched -> DOMAIN pointers] :
                 /\ \A i \in touched : Shows(shown, i, pointers[finger[i]])
                 /\ \A i, j \in touched : i # j => finger[i] # finger[j]
           /\ ~crowd => Cardinality(touched) = Len(pointers)

ThirdFingerLifted == Len(pointers) > 2 /\ Len(pointers') < Len(pointers)
CrashNeedsThird == crashed' # crashed => ThirdFingerLifted

\* The listener leaves its arrays in one case only: when more than two fingers
\* are down and one is lifted.  A third finger that comes in or moves does no
\* harm.
ListenerSurvives == [][CrashNeedsThird]_vars

NothingPressed(bits) == \A i \in Slots : ~Pressed(bits, i)

\* When no finger is left, the peer is told so, however many reports the flow
\* has dropped: unless the one call that would have told it fails, for nothing
\* repeats it, or the next touch comes before.
LiftReachesPeer ==
    (subscribed /\ pointers = <<>> /\ ~missed)
        ~> (NothingPressed(peer) \/ missed \/ pointers # <<>> \/ crashed)
=============================================================================
