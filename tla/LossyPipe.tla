------------------------------- MODULE LossyPipe -------------------------------
(***************************************************************************)
(* What a chain of event flows promises between the thread that emits and  *)
(* the call at its end: what was put in may be lost on the way, whole and  *)
(* at any place, and nothing else: nothing is repeated, nothing overtakes, *)
(* nothing appears that was not put in.  Items are numbered as they enter. *)
(***************************************************************************)
EXTENDS Naturals, Sequences

VARIABLES put,       \* the number of the last item that was offered
          transit,   \* the items on their way, oldest first
          delivered  \* the items that came out, in their order

vars == <<put, transit, delivered>>

Init ==
    /\ put = 0
    /\ transit = <<>>
    /\ delivered = <<>>

\* t is s without some of its items: e says which item of s each item of t is.
Thinned(s, t) ==
    \E e \in [1..Len(t) -> 1..Len(s)] :
        /\ \A i, j \in 1..Len(t) : i < j => e[i] < e[j]
        /\ \A i \in 1..Len(t) : t[i] = s[e[i]]

\* An item is offered; it, or older ones, may be lost on the spot.
Put ==
    /\ put' \in Nat /\ put' > put
    /\ transit' \in Seq(Nat)
    /\ Thinned(Append(transit, put'), transit')
    /\ UNCHANGED delivered

Lose ==
    /\ transit' \in Seq(Nat)
    /\ Thinned(transit, transit')
    /\ UNCHANGED <<put, delivered>>

Deliver ==
    /\ transit # <<>>
    /\ delivered' = Append(delivered, Head(transit))
    /\ transit' = Tail(transit)
    /\ UNCHANGED put

Next == Put \/ Lose \/ Deliver

Spec == Init /\ [][Next]_vars

-----------------------------------------------------------------------------
\* What comes out is in the order in which it went in, and nothing comes out
\* twice: the reader at the end of a byte stream can trust what it gets, but
\* for the gaps.
InOrder == \A i, j \in DOMAIN delivered : i < j => delivered[i] < delivered[j]
=============================================================================
