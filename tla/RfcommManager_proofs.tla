-------------------------- MODULE RfcommManager_proofs --------------------------
(***************************************************************************)
(* No read loop is lost, closed too early or left behind by a stop, for    *)
(* any number of requests and devices.  What makes it inductive: only the  *)
(* head of the mutex is inside a critical section, an entry is added once  *)
(* (its start is over), a stop's target is an entry's channel, and what a  *)
(* send has seen in the list is a channel whose loop runs, whose link is   *)
(* lost, or which a stop has cancelled.                                    *)
(***************************************************************************)
EXTENDS RfcommManager, WellFoundedInduction, SequenceTheorems, TLAPS

NatLess == {ss \in Nat \X Nat : ss[1] < ss[2]}

(* A non-empty set of naturals has a least element, which Min picks. *)
LEMMA MinIsLeast ==
    ASSUME NEW I \in SUBSET Nat, I # {}
    PROVE  Min(I) \in I /\ \A j \in I : Min(I) <= j
<1>1. IsWellFoundedOn(NatLess, Nat)
    BY NatLessThanWellFounded DEF OpToRel, NatLess
<1>2. PICK i \in I : \A j \in I : ~(<<j, i>> \in NatLess)
    BY <1>1, WFMin
<1>3. ASSUME NEW j \in I PROVE i <= j
  <2>1. <<j, i>> \in NatLess <=> j < i
      BY DEF NatLess
  <2> QED
      BY <1>2, <2>1
<1> QED
    BY <1>3 DEF Min

(* What SelectInSeq and RemoveFirst do to a sequence, as far as it is used: *)
(* list.remove and the removal of a waiter from the mutex.                  *)
LEMMA SelectInSeqFinds ==
    ASSUME NEW S, NEW s \in Seq(S), NEW e, \E i \in 1..Len(s) : s[i] = e
    PROVE  LET i == SelectInSeq(s, LAMBDA v : v = e)
           IN i \in 1..Len(s) /\ s[i] = e
<1> DEFINE I == {i \in 1..Len(s) : s[i] = e}
<1>1. I \in SUBSET Nat /\ I # {}
    OBVIOUS
<1>2. Min(I) \in I
    BY <1>1, MinIsLeast
<1>3. SelectInSeq(s, LAMBDA v : v = e) = Min(I)
    BY <1>1 DEF SelectInSeq
<1> QED
    BY <1>2, <1>3

LEMMA RemoveFirstProperties ==
    ASSUME NEW S, NEW s \in Seq(S), NEW e
    PROVE  /\ RemoveFirst(s, e) \in Seq(S)
           /\ \A x : Contains(RemoveFirst(s, e), x) => Contains(s, x)
           /\ \A x : Contains(s, x) /\ x # e => Contains(RemoveFirst(s, e), x)
           /\ IsInjective(s) => IsInjective(RemoveFirst(s, e))
           /\ IsInjective(s) => ~Contains(RemoveFirst(s, e), e)
           /\ s # <<>> /\ Head(s) # e =>
                RemoveFirst(s, e) # <<>> /\ Head(RemoveFirst(s, e)) = Head(s)
<1>1. CASE ~\E i \in 1..Len(s) : s[i] = e
    BY <1>1 DEF RemoveFirst, Contains
<1>2. CASE \E i \in 1..Len(s) : s[i] = e
  <2> DEFINE n == SelectInSeq(s, LAMBDA v : v = e)
             t == RemoveFirst(s, e)
  <2>1. n \in 1..Len(s) /\ s[n] = e
      BY <1>2, SelectInSeqFinds
  <2>2. t = SubSeq(s, 1, n - 1) \o SubSeq(s, n + 1, Len(s))
      BY <1>2 DEF RemoveFirst, RemoveAt
  <2> HIDE DEF n, t
  <2> Len(s) \in Nat /\ n \in Nat
      BY <2>1
  <2>3. /\ t \in Seq(S)
        /\ Len(t) = Len(s) - 1
        /\ \A i \in 1..Len(t) : t[i] = IF i < n THEN s[i] ELSE s[i + 1]
    <3> DEFINE u == SubSeq(s, 1, n - 1)
               v == SubSeq(s, n + 1, Len(s))
    <3>1. u \in Seq(S) /\ Len(u) = n - 1 /\ \A i \in 1..n - 1 : u[i] = s[i]
        BY <2>1, SubSeqProperties
    <3>2. v \in Seq(S) /\ Len(v) = Len(s) - n /\ \A i \in 1..Len(s) - n : v[i] = s[n + i]
        BY <2>1, SubSeqProperties
    <3> HIDE DEF u, v
    <3>3. u \o v \in Seq(S) /\ Len(u \o v) = Len(s) - 1
        BY <3>1, <3>2, <2>1, ConcatProperties
    <3>4. ASSUME NEW i \in 1..Len(s) - 1
          PROVE  (u \o v)[i] = IF i < n THEN s[i] ELSE s[i + 1]
      <4>1. CASE i < n
          BY <3>1, <3>2, <4>1, <2>1
      <4>2. CASE i >= n
        <5>1. i - (n - 1) \in 1..Len(s) - n /\ n + (i - (n - 1)) = i + 1
            BY <4>2, <2>1
        <5>2. (u \o v)[i] = v[i - (n - 1)]
            BY <3>1, <3>2, <4>2, <2>1
        <5> QED
            BY <5>1, <5>2, <3>2, <4>2, <2>1
      <4>3. i < n \/ i >= n
          OBVIOUS
      <4> QED
          BY <4>1, <4>2, <4>3, Zenon
    <3> QED
        BY <3>3, <3>4, <2>2 DEF u, v
  <2>4. ASSUME NEW x, Contains(t, x)
        PROVE  Contains(s, x)
    <3>1. PICK i \in 1..Len(t) : t[i] = x
        BY <2>4 DEF Contains
    <3>2. i \in 1..Len(s) /\ i + 1 \in 1..Len(s)
        BY <2>3
    <3>3. s[i] = x \/ s[i + 1] = x
        BY <3>1, <2>3
    <3> QED
        BY <3>2, <3>3 DEF Contains
  <2>5. ASSUME NEW x, Contains(s, x), x # e
        PROVE  Contains(t, x)
    <3>1. PICK i \in 1..Len(s) : s[i] = x
        BY <2>5 DEF Contains
    <3>2. CASE i < n
        BY <3>1, <3>2, <2>1, <2>3 DEF Contains
    <3>3. CASE i > n
      <4>1. i - 1 \in 1..Len(t) /\ t[i - 1] = s[i]
          BY <3>1, <3>3, <2>1, <2>3
      <4> QED
          BY <3>1, <4>1 DEF Contains
    <3> QED
        BY <3>1, <3>2, <3>3, <2>1, <2>5
  <2>6. \A i \in 1..Len(t) :
           IF i < n THEN i \in 1..Len(s) /\ i # n /\ t[i] = s[i]
                    ELSE i + 1 \in 1..Len(s) /\ i + 1 # n /\ t[i] = s[i + 1]
      BY <2>3
  <2>7. ASSUME IsInjective(s)
        PROVE  IsInjective(t) /\ ~Contains(t, e)
    <3>1. \A a, b \in 1..Len(s) : s[a] = s[b] => a = b
        BY <2>7 DEF IsInjective
    <3>2. ASSUME NEW a \in 1..Len(t), NEW b \in 1..Len(t), t[a] = t[b]
          PROVE  a = b
        BY <3>1, <3>2, <2>6
    <3>3. ASSUME NEW a \in 1..Len(t)
          PROVE  t[a] # e
        BY <3>1, <2>6, <2>1
    <3>4. DOMAIN t = 1..Len(t)
        BY <2>3
    <3> QED
        BY <3>2, <3>3, <3>4 DEF IsInjective, Contains
  <2>8. s # <<>> /\ Head(s) # e => t # <<>> /\ Head(t) = Head(s)
      BY <2>1, <2>3
  <2> QED
      BY <2>3, <2>4, <2>5, <2>7, <2>8 DEF t
<1> QED
    BY <1>1, <1>2

(* A look-up finds nothing, or the channel of an entry. *)
LEMMA QueryFinds ==
    ASSUME list \in Seq(Starts), NEW k
    PROVE  Query(k) = None \/ (Query(k) \in Starts /\ Contains(list, Query(k)))
<1> DEFINE I == {i \in 1..Len(list) : key[list[i]] = k}
           n == SelectInSeq(list, LAMBDA c : key[c] = k)
<1>1. n = IF I # {} THEN Min(I) ELSE 0
    BY DEF SelectInSeq
<1>2. I # {} => Min(I) \in I
  <2>1. I \in SUBSET Nat
      OBVIOUS
  <2> QED
      BY <2>1, MinIsLeast
<1>3. n = 0 \/ n \in 1..Len(list)
    BY <1>1, <1>2
<1>4. Query(k) = IF n = 0 THEN None ELSE list[n]
    BY DEF Query
<1> HIDE DEF n
<1> QED
    BY <1>3, <1>4 DEF Contains

-----------------------------------------------------------------------------
Critical == {"add", "join", "close"}

\* Only the holder of the mutex is past lock().
MutexHeld == \A r \in Requests : pc[r] \in Critical => Holds(r)

\* A read loop is started, and its entry added, by the one start of the channel.
StartedOnce ==
    \A c \in Starts :
        /\ job[c] # "none" => pc[c] \in {"add", "done"}
        /\ Contains(list, c) \/ c \in cancelled => pc[c] = "done"

\* What a stop has found is a channel whose start is over, and it gets to close it
\* only when the read loop has ended.
TargetKnown ==
    \A s \in Stops :
        /\ target[s] # None => pc[target[s]] = "done"
        /\ pc[s] \in {"join", "close"} => target[s] # None
        /\ pc[s] \in {"none", "locking"} => target[s] = None
        /\ pc[s] = "close" => job[target[s]] = "ended"

\* The entry of a cancelled loop stays only as long as its stop is at work.
CancelledByStop ==
    \A c \in cancelled :
        Contains(list, c) =>
            \/ destroyed
            \/ \E s \in Stops : pc[s] \in {"join", "close"} /\ target[s] = c

\* An entry's loop runs, unless the link was lost or a stop has cancelled it.
EntryLive ==
    \A c \in Starts :
        Contains(list, c) \/ pc[c] = "add" =>
            Running(c) \/ link[c] = "lost" \/ c \in cancelled

\* Only a stop cancels a loop, and keeps it as its target.
CancelledHasStop ==
    \A c \in cancelled : destroyed \/ \E s \in Stops : target[s] = c

\* What a send has seen was an entry, and its loop ends for the same two reasons.
SeenLive ==
    \A c \in seen :
        pc[c] = "done" /\ (Running(c) \/ link[c] = "lost" \/ c \in cancelled)

IInv ==
    /\ TypeOK /\ MutexHeld /\ StartedOnce /\ TargetKnown
    /\ NoOrphanReadLoop /\ CloseAfterLoop /\ StoppedForGood
    /\ CancelledByStop /\ EntryLive /\ CancelledHasStop /\ SeenLive

-----------------------------------------------------------------------------
(* The manager starts with an empty list and nobody at the mutex. *)
LEMMA InitIInv == Init => IInv
<1> SUFFICES ASSUME Init PROVE IInv
    OBVIOUS
<1>1. mutex \in Seq(Requests) /\ list \in Seq(Starts) /\ \A c : ~Contains(list, c)
    BY DEF Init, Contains
<1>2. TypeOK
    BY <1>1 DEF Init, TypeOK
<1>3. IsInjective(list)
    BY DEF Init, IsInjective
<1>4. MutexHeld /\ StartedOnce /\ TargetKnown
    BY <1>1, NamesAssumption DEF Init, MutexHeld, Critical, StartedOnce, TargetKnown, Requests
<1>5. NoOrphanReadLoop /\ CloseAfterLoop /\ StoppedForGood
    BY <1>1, <1>3 DEF Init, NoOrphanReadLoop, CloseAfterLoop, StoppedForGood, Running, Requests
<1>6. CancelledByStop /\ EntryLive /\ CancelledHasStop /\ SeenLive
    BY <1>1 DEF Init, CancelledByStop, EntryLive, CancelledHasStop, SeenLive, Requests
<1> QED
    BY <1>2, <1>4, <1>5, <1>6 DEF IInv

(* Every step keeps the lists, the jobs and the requests within their types. *)
LEMMA NextTypeOK == TypeOK /\ MutexHeld /\ [Next]_vars => TypeOK'
<1> SUFFICES ASSUME TypeOK, MutexHeld, [Next]_vars PROVE TypeOK'
    OBVIOUS
<1> USE DEF TypeOK, coVars, chanVars, sendVars, Requests
<1>1. ASSUME NEW r \in Requests, NEW k \in Keys, Launch(r, k) PROVE TypeOK'
    BY <1>1 DEF Launch
<1>2. CASE Destroy
    BY <1>2 DEF Destroy
<1>3. ASSUME NEW r \in Requests, LockCancelled(r) PROVE TypeOK'
  <2>1. mutex' \in Seq(Requests)
      BY <1>3, RemoveFirstProperties DEF LockCancelled
  <2> QED
      BY <1>3, <2>1 DEF LockCancelled
<1>4. ASSUME NEW c \in Starts, Connect(c) PROVE TypeOK'
  <2>1. Tail(mutex) \in Seq(Requests)
      BY <1>4 DEF Connect, Holds
  <2> QED
      BY <1>4, <2>1 DEF Connect, Finish
<1>5. ASSUME NEW c \in Starts, AddTransform(c) PROVE TypeOK'
  <2>1. Tail(mutex) \in Seq(Requests)
      BY <1>5 DEF AddTransform, Holds
  <2> QED
      BY <1>5, <2>1 DEF AddTransform, Finish, SendSees
<1>6. ASSUME NEW s \in Stops, CancelJob(s) PROVE TypeOK'
  <2>1. Tail(mutex) \in Seq(Requests)
      BY <1>6 DEF CancelJob, Holds
  <2>2. PICK c \in Starts \cup {None} : c = Query(key[s])
      BY QueryFinds
  <2>3. CASE c = None
      BY <1>6, <2>1, <2>2, <2>3 DEF CancelJob, Finish
  <2>4. CASE c # None
      BY <1>6, <2>2, <2>4 DEF CancelJob
  <2> QED
      BY <2>3, <2>4
<1>7. ASSUME NEW s \in Stops, Join(s) PROVE TypeOK'
    BY <1>7 DEF Join
<1>8. ASSUME NEW s \in Stops, JoinCancelled(s) PROVE TypeOK'
  <2>1. mutex # <<>>
      BY <1>8 DEF JoinCancelled, Holds, MutexHeld, Critical
  <2>2. Tail(mutex) \in Seq(Requests)
      BY <2>1
  <2> QED
      BY <1>8, <2>2 DEF JoinCancelled, Finish
<1>9. ASSUME NEW s \in Stops, CloseChannel(s) PROVE TypeOK'
  <2>1. Tail(mutex) \in Seq(Requests)
      BY <1>9 DEF CloseChannel, Holds
  <2>2. list' \in Seq(Starts)
      BY <1>9, RemoveFirstProperties DEF CloseChannel
  <2> QED
      BY <1>9, <2>1, <2>2 DEF CloseChannel, Finish, SendSees
<1>10. ASSUME NEW c \in Starts, TestActive(c) PROVE TypeOK'
    BY <1>10 DEF TestActive
<1>11. ASSUME NEW c \in Starts, Read(c) PROVE TypeOK'
    BY <1>11 DEF Read
<1>12. ASSUME NEW c \in Starts, DataArrives(c) PROVE TypeOK'
    BY <1>12 DEF DataArrives
<1>13. ASSUME NEW c \in Starts, LinkLost(c) PROVE TypeOK'
    BY <1>13 DEF LinkLost
<1>14. ASSUME NEW k \in SendKeys, BeginSend(k) PROVE TypeOK'
    BY <1>14 DEF BeginSend
<1>15. CASE EndSend
    BY <1>15 DEF EndSend
<1>16. CASE UNCHANGED vars
    BY <1>16 DEF vars
<1> QED
    BY <1>1, <1>2, <1>3, <1>4, <1>5, <1>6, <1>7, <1>8, <1>9, <1>10, <1>11, <1>12,
       <1>13, <1>14, <1>15, <1>16 DEF Next, StartStep, StopStep, ReadLoop

(* What Append does to the entries. *)
LEMMA AppendEntry ==
    ASSUME NEW S, NEW s \in Seq(S), NEW e \in S
    PROVE  /\ \A x : Contains(Append(s, e), x) <=> Contains(s, x) \/ x = e
           /\ IsInjective(s) /\ ~Contains(s, e) => IsInjective(Append(s, e))
<1>1. /\ Append(s, e) \in Seq(S)
      /\ Len(Append(s, e)) = Len(s) + 1
      /\ \A i \in 1..Len(s) : Append(s, e)[i] = s[i]
      /\ Append(s, e)[Len(s) + 1] = e
    BY AppendProperties
<1>2. Len(s) \in Nat /\ DOMAIN s = 1..Len(s) /\ DOMAIN Append(s, e) = 1..Len(s) + 1
    BY <1>1
<1>3. \A i \in 1..Len(s) + 1 : i \in 1..Len(s) \/ i = Len(s) + 1
    BY <1>2
<1>4. 1..Len(s) \subseteq 1..Len(s) + 1 /\ Len(s) + 1 \in 1..Len(s) + 1
    BY <1>2
<1>5. \A x : Contains(Append(s, e), x) <=> Contains(s, x) \/ x = e
    BY <1>1, <1>3, <1>4, Zenon DEF Contains
<1>6. ASSUME IsInjective(s), ~Contains(s, e),
             NEW a \in 1..Len(s) + 1, NEW b \in 1..Len(s) + 1,
             Append(s, e)[a] = Append(s, e)[b]
      PROVE  a = b
    BY <1>1, <1>2, <1>3, <1>6, Zenon DEF IsInjective, Contains
<1> QED
    BY <1>2, <1>5, <1>6 DEF IsInjective

-----------------------------------------------------------------------------
(* Only the head of the mutex gets past lock(), and nobody takes the head away *)
(* from it.                                                                     *)
LEMMA NextMutexHeld == TypeOK /\ MutexHeld /\ [Next]_vars => MutexHeld'
<1> SUFFICES ASSUME TypeOK, MutexHeld, [Next]_vars PROVE MutexHeld'
    OBVIOUS
<1>a. pc \in [Requests -> {"none", "locking", "add", "join", "close", "done"}]
      /\ mutex \in Seq(Requests)
    BY DEF TypeOK
<1>b. \A q, r \in Requests : Holds(r) /\ pc[q] \in Critical => q = r
    BY DEF MutexHeld, Holds
<1> USE DEF MutexHeld, Critical, Holds, coVars, Requests
<1>1. ASSUME NEW r \in Requests, NEW k \in Keys, Launch(r, k) PROVE MutexHeld'
  <2>1. mutex # <<>> => mutex' # <<>> /\ Head(mutex') = Head(mutex)
      BY <1>1, <1>a DEF Launch
  <2> QED
      BY <1>1, <1>a, <2>1 DEF Launch
<1>2. CASE Destroy
    BY <1>2 DEF Destroy
<1>3. ASSUME NEW r \in Requests, LockCancelled(r) PROVE MutexHeld'
  <2>1. mutex # <<>> /\ Head(mutex) # r => mutex' # <<>> /\ Head(mutex') = Head(mutex)
      BY <1>3, <1>a, RemoveFirstProperties DEF LockCancelled
  <2> QED
      BY <1>3, <1>a, <2>1 DEF LockCancelled
<1>4. ASSUME NEW r \in Requests, Holds(r), Finish(r) PROVE MutexHeld'
    BY <1>4, <1>a, <1>b DEF Finish
<1>5. ASSUME NEW c \in Starts, Connect(c) PROVE MutexHeld'
    BY <1>5, <1>4, <1>a DEF Connect
<1>6. ASSUME NEW c \in Starts, AddTransform(c) PROVE MutexHeld'
    BY <1>6, <1>4 DEF AddTransform
<1>7. ASSUME NEW s \in Stops, CancelJob(s) PROVE MutexHeld'
  <2>1. Finish(s) \/ (pc' = [pc EXCEPT ![s] = "join"] /\ UNCHANGED mutex)
      BY <1>7, Zenon DEF CancelJob
  <2>2. Holds(s)
      BY <1>7 DEF CancelJob
  <2> QED
      BY <2>1, <2>2, <1>4, <1>a
<1>8. ASSUME NEW s \in Stops, Join(s) PROVE MutexHeld'
    BY <1>8, <1>a DEF Join
<1>9. ASSUME NEW s \in Stops, JoinCancelled(s) PROVE MutexHeld'
    BY <1>9, <1>4 DEF JoinCancelled
<1>10. ASSUME NEW s \in Stops, CloseChannel(s) PROVE MutexHeld'
    BY <1>10, <1>4 DEF CloseChannel
<1>11. ASSUME NEW c \in Starts, TestActive(c) \/ Read(c) \/ DataArrives(c) \/ LinkLost(c)
       PROVE  MutexHeld'
    BY <1>11 DEF TestActive, Read, DataArrives, LinkLost
<1>12. ASSUME NEW k \in SendKeys, BeginSend(k) PROVE MutexHeld'
    BY <1>12 DEF BeginSend
<1>13. CASE EndSend
    BY <1>13 DEF EndSend
<1>14. CASE UNCHANGED vars
    BY <1>14 DEF vars
<1> QED
    BY <1>1, <1>2, <1>3, <1>5, <1>6, <1>7, <1>8, <1>9, <1>10, <1>11, <1>12, <1>13, <1>14
    DEF Next, StartStep, StopStep, ReadLoop

-----------------------------------------------------------------------------
(* The steps, each against each conjunct it can disturb. *)

Channels ==
    /\ StartedOnce /\ TargetKnown /\ NoOrphanReadLoop /\ CloseAfterLoop
    /\ StoppedForGood /\ CancelledByStop /\ EntryLive

(* A request that comes in disturbs no channel. *)
LEMMA LaunchKeeps ==
    ASSUME TypeOK, MutexHeld, Channels,
           NEW r \in Requests, NEW k \in Keys, Launch(r, k)
    PROVE  Channels'
<1> USE NamesAssumption DEF TypeOK, MutexHeld, Critical, Channels, Requests, coVars, chanVars, Launch
<1>1. StartedOnce'
    BY DEF StartedOnce
<1>2. TargetKnown'
    BY DEF TargetKnown
<1>3. NoOrphanReadLoop'
    BY DEF NoOrphanReadLoop, Running, Holds
<1>4. CloseAfterLoop'
    BY DEF CloseAfterLoop
<1>5. StoppedForGood'
    BY DEF StoppedForGood, Running
<1>6. CancelledByStop'
    BY DEF CancelledByStop
<1>7. EntryLive'
    BY DEF EntryLive, Running
<1> QED
    BY <1>1, <1>2, <1>3, <1>4, <1>5, <1>6, <1>7

(* The end of the service leaves every channel as it is. *)
LEMMA DestroyKeeps ==
    ASSUME TypeOK, MutexHeld, Channels,
           Destroy
    PROVE  Channels'
<1> USE NamesAssumption DEF TypeOK, MutexHeld, Critical, Channels, Requests, coVars, chanVars, Destroy
<1>1. StartedOnce'
    BY DEF StartedOnce
<1>2. TargetKnown'
    BY DEF TargetKnown
<1>3. NoOrphanReadLoop'
    BY DEF NoOrphanReadLoop, Running, Holds
<1>4. CloseAfterLoop'
    BY DEF CloseAfterLoop
<1>5. StoppedForGood'
    BY DEF StoppedForGood, Running
<1>6. CancelledByStop'
    BY DEF CancelledByStop
<1>7. EntryLive'
    BY DEF EntryLive, Running
<1> QED
    BY <1>1, <1>2, <1>3, <1>4, <1>5, <1>6, <1>7

(* A request cancelled in lock() has touched no channel. *)
LEMMA LockCancelledKeeps ==
    ASSUME TypeOK, MutexHeld, Channels,
           NEW r \in Requests, LockCancelled(r)
    PROVE  Channels'
<1> USE NamesAssumption DEF TypeOK, MutexHeld, Critical, Channels, Requests, coVars, chanVars, LockCancelled
<1>1. StartedOnce'
    BY DEF StartedOnce
<1>2. TargetKnown'
    BY DEF TargetKnown
<1>3. NoOrphanReadLoop'
  <2>1. mutex # <<>> /\ Head(mutex) # r => mutex' # <<>> /\ Head(mutex') = Head(mutex)
      BY RemoveFirstProperties
  <2> QED
      BY <2>1 DEF NoOrphanReadLoop, Running, Holds
<1>4. CloseAfterLoop'
    BY DEF CloseAfterLoop
<1>5. StoppedForGood'
    BY DEF StoppedForGood, Running, TargetKnown
<1>6. CancelledByStop'
    BY DEF CancelledByStop
<1>7. EntryLive'
    BY DEF EntryLive, Running
<1> QED
    BY <1>1, <1>2, <1>3, <1>4, <1>5, <1>6, <1>7

(* A connection starts the read loop of a channel that has none, and no entry yet. *)
LEMMA ConnectKeeps ==
    ASSUME TypeOK, MutexHeld, Channels,
           NEW c \in Starts, Connect(c)
    PROVE  Channels'
<1> USE NamesAssumption DEF TypeOK, MutexHeld, Critical, Channels, Requests, coVars, chanVars, Connect, Finish
<1>1. StartedOnce'
    BY DEF StartedOnce
<1>2. TargetKnown'
    BY DEF TargetKnown
<1>3. NoOrphanReadLoop'
    BY DEF NoOrphanReadLoop, Running, Holds
<1>4. CloseAfterLoop'
    BY DEF CloseAfterLoop
<1>5. StoppedForGood'
    BY DEF StoppedForGood, Running, TargetKnown
<1>6. CancelledByStop'
    BY DEF CancelledByStop
<1>7. EntryLive'
    BY DEF EntryLive, Running
<1> QED
    BY <1>1, <1>2, <1>3, <1>4, <1>5, <1>6, <1>7

(* A stop goes on to close only when the loop has ended. *)
LEMMA JoinKeeps ==
    ASSUME TypeOK, MutexHeld, Channels,
           NEW s \in Stops, Join(s)
    PROVE  Channels'
<1> USE NamesAssumption DEF TypeOK, MutexHeld, Critical, Channels, Requests, coVars, chanVars, Join
<1>1. StartedOnce'
    BY DEF StartedOnce
<1>2. TargetKnown'
    BY DEF TargetKnown
<1>3. NoOrphanReadLoop'
    BY DEF NoOrphanReadLoop, Running, Holds
<1>4. CloseAfterLoop'
    BY DEF CloseAfterLoop
<1>5. StoppedForGood'
    BY DEF StoppedForGood, Running
<1>6. CancelledByStop'
    BY DEF CancelledByStop
<1>7. EntryLive'
    BY DEF EntryLive, Running
<1> QED
    BY <1>1, <1>2, <1>3, <1>4, <1>5, <1>6, <1>7

(* A stop that gives up leaves the channel as it is. *)
LEMMA JoinCancelledKeeps ==
    ASSUME TypeOK, MutexHeld, Channels,
           NEW s \in Stops, JoinCancelled(s)
    PROVE  Channels'
<1> USE NamesAssumption DEF TypeOK, MutexHeld, Critical, Channels, Requests, coVars, chanVars, JoinCancelled, Finish
<1>1. StartedOnce'
    BY DEF StartedOnce
<1>2. TargetKnown'
    BY DEF TargetKnown
<1>3. NoOrphanReadLoop'
    BY DEF NoOrphanReadLoop, Running, Holds
<1>4. CloseAfterLoop'
    BY DEF CloseAfterLoop
<1>5. StoppedForGood'
    BY DEF StoppedForGood, Running
<1>6. CancelledByStop'
    BY DEF CancelledByStop
<1>7. EntryLive'
    BY DEF EntryLive, Running
<1> QED
    BY <1>1, <1>2, <1>3, <1>4, <1>5, <1>6, <1>7

(* A loop ends at its test only when a stop has cancelled it. *)
LEMMA TestActiveKeeps ==
    ASSUME TypeOK, MutexHeld, Channels,
           NEW c \in Starts, TestActive(c)
    PROVE  Channels'
<1> USE NamesAssumption DEF TypeOK, MutexHeld, Critical, Channels, Requests, coVars, chanVars, TestActive
<1>1. StartedOnce'
    BY DEF StartedOnce
<1>2. TargetKnown'
    BY DEF TargetKnown
<1>3. NoOrphanReadLoop'
    BY DEF NoOrphanReadLoop, Running, Holds
<1>4. CloseAfterLoop'
    BY DEF CloseAfterLoop
<1>5. StoppedForGood'
    BY DEF StoppedForGood, Running
<1>6. CancelledByStop'
    BY DEF CancelledByStop
<1>7. EntryLive'
    BY DEF EntryLive, Running
<1> QED
    BY <1>1, <1>2, <1>3, <1>4, <1>5, <1>6, <1>7

(* A loop ends at its read only when the link is lost. *)
LEMMA ReadKeeps ==
    ASSUME TypeOK, MutexHeld, Channels,
           NEW c \in Starts, Read(c)
    PROVE  Channels'
<1> USE NamesAssumption DEF TypeOK, MutexHeld, Critical, Channels, Requests, coVars, chanVars, Read
<1>1. StartedOnce'
    BY DEF StartedOnce
<1>2. TargetKnown'
    BY DEF TargetKnown
<1>3. NoOrphanReadLoop'
    BY DEF NoOrphanReadLoop, Running, Holds
<1>4. CloseAfterLoop'
    BY DEF CloseAfterLoop
<1>5. StoppedForGood'
    BY DEF StoppedForGood, Running
<1>6. CancelledByStop'
    BY DEF CancelledByStop
<1>7. EntryLive'
    BY DEF EntryLive, Running
<1> QED
    BY <1>1, <1>2, <1>3, <1>4, <1>5, <1>6, <1>7

(* Arriving data disturbs nothing but the inbox. *)
LEMMA DataArrivesKeeps ==
    ASSUME TypeOK, MutexHeld, Channels,
           NEW c \in Starts, DataArrives(c)
    PROVE  Channels'
<1> USE NamesAssumption DEF TypeOK, MutexHeld, Critical, Channels, Requests, coVars, chanVars, DataArrives
<1>1. StartedOnce'
    BY DEF StartedOnce
<1>2. TargetKnown'
    BY DEF TargetKnown
<1>3. NoOrphanReadLoop'
    BY DEF NoOrphanReadLoop, Running, Holds
<1>4. CloseAfterLoop'
    BY DEF CloseAfterLoop
<1>5. StoppedForGood'
    BY DEF StoppedForGood, Running
<1>6. CancelledByStop'
    BY DEF CancelledByStop
<1>7. EntryLive'
    BY DEF EntryLive, Running
<1> QED
    BY <1>1, <1>2, <1>3, <1>4, <1>5, <1>6, <1>7

(* A lost link leaves loop, socket and entry as they are. *)
LEMMA LinkLostKeeps ==
    ASSUME TypeOK, MutexHeld, Channels,
           NEW c \in Starts, LinkLost(c)
    PROVE  Channels'
<1> USE NamesAssumption DEF TypeOK, MutexHeld, Critical, Channels, Requests, coVars, chanVars, LinkLost
<1>1. StartedOnce'
    BY DEF StartedOnce
<1>2. TargetKnown'
    BY DEF TargetKnown
<1>3. NoOrphanReadLoop'
    BY DEF NoOrphanReadLoop, Running, Holds
<1>4. CloseAfterLoop'
    BY DEF CloseAfterLoop
<1>5. StoppedForGood'
    BY DEF StoppedForGood, Running
<1>6. CancelledByStop'
    BY DEF CancelledByStop
<1>7. EntryLive'
    BY DEF EntryLive, Running
<1> QED
    BY <1>1, <1>2, <1>3, <1>4, <1>5, <1>6, <1>7

(* The entry is added once, for the channel whose loop has just been started. *)
LEMMA AddTransformKeeps ==
    ASSUME TypeOK, MutexHeld, Channels,
           NEW c \in Starts, AddTransform(c)
    PROVE  Channels'
<1> USE NamesAssumption DEF TypeOK, Channels, Requests, coVars, chanVars, AddTransform, Finish
<1>a. ~Contains(list, c)
    BY DEF StartedOnce
<1>b. \A x : Contains(list', x) <=> Contains(list, x) \/ x = c
    BY AppendEntry
<1>c. IsInjective(list')
    BY <1>a, AppendEntry DEF NoOrphanReadLoop
<1>d. \A q \in Starts : pc[q] = "add" => q = c
    BY DEF MutexHeld, Critical, Holds
<1>1. StartedOnce'
    BY <1>b DEF StartedOnce
<1>2. TargetKnown'
    BY DEF TargetKnown
<1>3. NoOrphanReadLoop'
    BY <1>b, <1>c, <1>d DEF NoOrphanReadLoop, Running, Holds
<1>4. CloseAfterLoop'
    BY DEF CloseAfterLoop
<1>5. StoppedForGood'
    BY <1>b DEF StoppedForGood, TargetKnown, Running
<1>6. CancelledByStop'
  <2>1. c \notin cancelled
      BY DEF StartedOnce
  <2> QED
      BY <2>1, <1>b DEF CancelledByStop
<1>7. EntryLive'
    BY <1>b DEF EntryLive, Running
<1> QED
    BY <1>1, <1>2, <1>3, <1>4, <1>5, <1>6, <1>7

(* A stop that finds no entry is over; one that does has found a channel whose *)
(* start is over, and cancels it.                                              *)
LEMMA CancelJobKeeps ==
    ASSUME TypeOK, MutexHeld, Channels,
           NEW s \in Stops, CancelJob(s)
    PROVE  Channels'
<1> USE NamesAssumption DEF TypeOK, Channels, Requests
<1>a. PICK c \in Starts \cup {None} : c = Query(key[s]) /\ (c # None => Contains(list, c))
    BY QueryFinds
<1>b. UNCHANGED <<key, list, socket, link, job, inbox, destroyed>>
    BY DEF CancelJob
<1>c. pc[s] = "locking" /\ Holds(s) /\ target[s] = None
    BY DEF CancelJob, TargetKnown
<1>d. \A r \in Requests : pc[r] \notin Critical
    BY <1>c DEF MutexHeld, Holds, Critical
<1>e. CASE c = None
  <2> pc' = [pc EXCEPT ![s] = "done"] /\ UNCHANGED <<target, cancelled>>
      BY <1>a, <1>e DEF CancelJob, Finish
  <2>1. StartedOnce' /\ TargetKnown' /\ CloseAfterLoop' /\ StoppedForGood'
      BY <1>b, <1>c DEF StartedOnce, TargetKnown, CloseAfterLoop, StoppedForGood, Running
  <2>2. NoOrphanReadLoop' /\ CancelledByStop' /\ EntryLive'
      BY <1>b, <1>c, <1>d DEF NoOrphanReadLoop, CancelledByStop, EntryLive, Running, Critical
  <2> QED
      BY <2>1, <2>2
<1>f. CASE c # None
  <2> /\ target' = [target EXCEPT ![s] = c]
      /\ cancelled' = cancelled \cup {c}
      /\ pc' = [pc EXCEPT ![s] = "join"]
      BY <1>a, <1>f DEF CancelJob
  <2>1. c \in Starts /\ Contains(list, c) /\ pc[c] = "done"
      BY <1>a, <1>f DEF StartedOnce
  <2>2. StartedOnce' /\ TargetKnown' /\ CloseAfterLoop' /\ StoppedForGood'
      BY <1>b, <1>c, <2>1 DEF StartedOnce, TargetKnown, CloseAfterLoop, StoppedForGood, Running
  <2>3. NoOrphanReadLoop' /\ CancelledByStop' /\ EntryLive'
      BY <1>b, <1>c, <1>d, <2>1 DEF NoOrphanReadLoop, CancelledByStop, EntryLive, Running, Critical
  <2> QED
      BY <2>2, <2>3
<1> QED
    BY <1>e, <1>f

(* A stop closes the channel it has found, whose loop has ended, and takes its *)
(* entry, the only one, out of the list.                                       *)
LEMMA CloseChannelKeeps ==
    ASSUME TypeOK, MutexHeld, Channels,
           NEW s \in Stops, CloseChannel(s)
    PROVE  Channels'
<1> USE NamesAssumption DEF TypeOK, Channels, Requests, coVars, chanVars, CloseChannel, Finish
<1> DEFINE t == target[s]
<1>a. t \in Starts /\ pc[t] = "done" /\ job[t] = "ended"
    BY DEF TargetKnown
<1>b. /\ \A x : Contains(list', x) => Contains(list, x)
      /\ \A x : Contains(list, x) /\ x # t => Contains(list', x)
      /\ IsInjective(list') /\ ~Contains(list', t)
    BY RemoveFirstProperties DEF NoOrphanReadLoop
<1>c. \A r \in Requests : pc[r] \in Critical => r = s
    BY DEF MutexHeld, Critical, Holds
<1> HIDE DEF t
<1>1. StartedOnce'
    BY <1>b DEF StartedOnce
<1>2. TargetKnown'
    BY <1>a DEF TargetKnown
<1>3. NoOrphanReadLoop'
    BY <1>a, <1>b, <1>c DEF NoOrphanReadLoop, Running, Critical
<1>4. CloseAfterLoop'
    BY <1>a DEF CloseAfterLoop, t
<1>5. StoppedForGood'
    BY <1>a, <1>b DEF StoppedForGood, Running, t
<1>6. CancelledByStop'
    BY <1>b, <1>c DEF CancelledByStop, t, Critical
<1>7. EntryLive'
    BY <1>b, <1>c DEF EntryLive, Running, t, Critical
<1> QED
    BY <1>1, <1>2, <1>3, <1>4, <1>5, <1>6, <1>7

(* A send, begun or over, disturbs no channel. *)
LEMMA SendKeeps ==
    ASSUME Channels, UNCHANGED <<coVars, mutex, list, chanVars, destroyed>>
    PROVE  Channels'
    BY DEF Channels, coVars, chanVars, StartedOnce, TargetKnown, NoOrphanReadLoop,
           CloseAfterLoop, StoppedForGood, CancelledByStop, EntryLive, Running, Holds

(* Every step keeps the channels, their loops and the requests in agreement. *)
LEMMA NextChannels == TypeOK /\ MutexHeld /\ Channels /\ [Next]_vars => Channels'
<1>1. ASSUME Channels, UNCHANGED vars PROVE Channels'
    BY <1>1 DEF Channels, vars, coVars, chanVars, StartedOnce, TargetKnown, NoOrphanReadLoop,
                CloseAfterLoop, StoppedForGood, CancelledByStop, EntryLive, Running, Holds
<1>2. ASSUME Channels, NEW k \in SendKeys, BeginSend(k) PROVE Channels'
    BY <1>2, SendKeeps DEF BeginSend
<1>3. ASSUME Channels, EndSend PROVE Channels'
    BY <1>3, SendKeeps DEF EndSend
<1> QED
    BY <1>1, <1>2, <1>3, LaunchKeeps, DestroyKeeps, LockCancelledKeeps, ConnectKeeps, AddTransformKeeps,
       CancelJobKeeps, JoinKeeps, JoinCancelledKeeps, CloseChannelKeeps, TestActiveKeeps,
       ReadKeeps, DataArrivesKeeps, LinkLostKeeps
    DEF Next, StartStep, StopStep, ReadLoop, Requests

(* A cancelled loop keeps its stop: a stop gives its target up only when the *)
(* service is gone.                                                          *)
LEMMA NextCancelledHasStop ==
    TypeOK /\ TargetKnown /\ CancelledHasStop /\ [Next]_vars => CancelledHasStop'
<1> SUFFICES ASSUME TypeOK, TargetKnown, CancelledHasStop, [Next]_vars PROVE CancelledHasStop'
    OBVIOUS
<1> USE DEF CancelledHasStop, coVars, chanVars
<1>1. ASSUME UNCHANGED <<target, cancelled>>, destroyed => destroyed' PROVE CancelledHasStop'
    BY <1>1
<1>2. ASSUME NEW r \in Requests, NEW k \in Keys, Launch(r, k) PROVE CancelledHasStop'
    BY <1>1, <1>2 DEF Launch
<1>3. CASE Destroy
    BY <1>3, <1>1 DEF Destroy
<1>4. ASSUME NEW r \in Requests, LockCancelled(r) PROVE CancelledHasStop'
    BY <1>4, <1>1 DEF LockCancelled
<1>5. ASSUME NEW c \in Starts, StartStep(c) \/ ReadLoop(c) \/ DataArrives(c) \/ LinkLost(c)
      PROVE  CancelledHasStop'
    BY <1>5, <1>1, <1>4 DEF StartStep, ReadLoop, Connect, AddTransform, TestActive, Read,
                            DataArrives, LinkLost, Requests
<1>6. ASSUME NEW s \in Stops, CancelJob(s) PROVE CancelledHasStop'
  <2>1. target[s] = None /\ destroyed' = destroyed
      BY <1>6 DEF CancelJob, TargetKnown
  <2>2. CASE UNCHANGED <<target, cancelled>>
      BY <1>1, <2>1, <2>2
  <2>3. CASE /\ target' = [target EXCEPT ![s] = Query(key[s])]
             /\ cancelled' = cancelled \cup {Query(key[s])}
    <3>1. \A z \in Stops : target[z] # None => target'[z] = target[z]
        BY <2>1, <2>3 DEF TypeOK
    <3>2. target'[s] = Query(key[s])
        BY <2>3 DEF TypeOK
    <3>3. \A c \in cancelled : c # None
        BY NamesAssumption DEF TypeOK
    <3> QED
        BY <2>1, <2>3, <3>1, <3>2, <3>3
  <2> QED
      BY <1>6, <2>2, <2>3 DEF CancelJob
<1>7. ASSUME NEW s \in Stops, Join(s) \/ CloseChannel(s) PROVE CancelledHasStop'
    BY <1>7, <1>1 DEF Join, CloseChannel
<1>8. ASSUME NEW s \in Stops, JoinCancelled(s) PROVE CancelledHasStop'
    BY <1>8 DEF JoinCancelled
<1>9. ASSUME NEW k \in SendKeys, BeginSend(k) PROVE CancelledHasStop'
    BY <1>9, <1>1 DEF BeginSend
<1>10. CASE EndSend
    BY <1>10, <1>1 DEF EndSend
<1>11. CASE UNCHANGED vars
    BY <1>11, <1>1 DEF vars
<1> QED
    BY <1>2, <1>3, <1>4, <1>5, <1>6, <1>7, <1>8, <1>9, <1>10, <1>11
    DEF Next, StopStep, Requests

(* A channel that has been seen stays live: its loop ends only when it was *)
(* cancelled or its link is lost, and it is seen when it is an entry.      *)
LEMMA SeenStays ==
    ASSUME TypeOK, SeenLive, seen' \subseteq seen,
           \A c \in Starts : pc[c] = "done" => pc'[c] = "done",
           \A c \in Starts : link[c] = "lost" => link'[c] = "lost",
           cancelled \subseteq cancelled',
           \A c \in Starts : Running(c) => \/ Running(c)'
                                           \/ link[c] = "lost"
                                           \/ c \in cancelled
    PROVE  SeenLive'
    BY DEF SeenLive, TypeOK

LEMMA NextSeenLive ==
    TypeOK /\ StartedOnce /\ EntryLive /\ SeenLive /\ [Next]_vars => SeenLive'
<1> SUFFICES ASSUME TypeOK, StartedOnce, EntryLive, SeenLive, [Next]_vars PROVE SeenLive'
    OBVIOUS
<1> USE DEF coVars, chanVars, sendVars
<1>a. /\ pc \in [Requests -> {"none", "locking", "add", "join", "close", "done"}]
      /\ link \in [Starts -> {"none", "up", "lost"}]
      /\ job \in [Starts -> {"none", "active", "reading", "ended"}]
      /\ seen \subseteq Starts /\ Starts \subseteq Requests
    BY DEF TypeOK, Requests
<1>1. ASSUME NEW r \in Requests, NEW k \in Keys, Launch(r, k) PROVE SeenLive'
    BY <1>1, <1>a, SeenStays DEF Launch, Running
<1>2. CASE Destroy
    BY <1>2, SeenStays DEF Destroy, Running
<1>3. ASSUME NEW r \in Requests, LockCancelled(r) PROVE SeenLive'
    BY <1>3, <1>a, SeenStays DEF LockCancelled, Running
<1>4. ASSUME NEW c \in Starts, Connect(c) PROVE SeenLive'
    BY <1>4, <1>a DEF Connect, Finish, Running, SeenLive
<1>5. ASSUME NEW c \in Starts, AddTransform(c) PROVE SeenLive'
  <2>1. Running(c) \/ link[c] = "lost" \/ c \in cancelled
      BY <1>5 DEF AddTransform, EntryLive
  <2>2. pc' = [pc EXCEPT ![c] = "done"] /\ seen' \subseteq seen \cup {c}
      BY <1>5 DEF AddTransform, Finish, SendSees
  <2> QED
      BY <1>5, <1>a, <2>1, <2>2 DEF AddTransform, Running, SeenLive
<1>6. ASSUME NEW s \in Stops, CancelJob(s) PROVE SeenLive'
  <2>1. /\ UNCHANGED <<seen, link, job>> /\ cancelled \subseteq cancelled'
        /\ \E v \in {"done", "join"} : pc' = [pc EXCEPT ![s] = v]
      BY <1>6, Zenon DEF CancelJob, Finish
  <2>2. s \notin Starts
      BY NamesAssumption
  <2> QED
      BY <2>1, <2>2, <1>a, SeenStays DEF Running
<1>7. ASSUME NEW s \in Stops, Join(s) PROVE SeenLive'
    BY <1>7, <1>a, NamesAssumption, SeenStays DEF Join, Running
<1>8. ASSUME NEW s \in Stops, JoinCancelled(s) PROVE SeenLive'
    BY <1>8, <1>a, SeenStays DEF JoinCancelled, Finish, Running
<1>9. ASSUME NEW s \in Stops, CloseChannel(s) PROVE SeenLive'
  <2>1. seen' = seen
      BY <1>9 DEF CloseChannel, SendSees
  <2> QED
      BY <1>9, <1>a, <2>1, SeenStays DEF CloseChannel, Finish, Running
<1>10. ASSUME NEW c \in Starts, TestActive(c) PROVE SeenLive'
    BY <1>10, <1>a, SeenStays DEF TestActive, Running
<1>11. ASSUME NEW c \in Starts, Read(c) PROVE SeenLive'
    BY <1>11, <1>a, SeenStays DEF Read, Running
<1>12. ASSUME NEW c \in Starts, DataArrives(c) PROVE SeenLive'
    BY <1>12, SeenStays DEF DataArrives, Running
<1>13. ASSUME NEW c \in Starts, LinkLost(c) PROVE SeenLive'
    BY <1>13, <1>a, SeenStays DEF LinkLost, Running
<1>14. ASSUME NEW k \in SendKeys, BeginSend(k) PROVE SeenLive'
    BY <1>14 DEF BeginSend, SeenLive, StartedOnce, EntryLive, Running
<1>15. CASE EndSend
    BY <1>15 DEF EndSend, SeenLive
<1>16. CASE UNCHANGED vars
    BY <1>16, SeenStays DEF vars, Running
<1> QED
    BY <1>1, <1>2, <1>3, <1>4, <1>5, <1>6, <1>7, <1>8, <1>9, <1>10, <1>11, <1>12,
       <1>13, <1>14, <1>15, <1>16 DEF Next, StartStep, StopStep, ReadLoop, Requests

LEMMA NextIInv == IInv /\ [Next]_vars => IInv'
    BY NextTypeOK, NextMutexHeld, NextChannels, NextCancelledHasStop, NextSeenLive
    DEF IInv, Channels

(* What the entries, the query and a send say together. *)
LEMMA IInvLookup == IInv => LookupFindsLive
<1>1. ASSUME IInv, NEW k \in Keys, Query(k) # None
      PROVE  \/ Running(Query(k))
             \/ link[Query(k)] = "lost"
             \/ \E s \in Stops : pc[s] \in {"join", "close"} /\ target[s] = Query(k)
             \/ destroyed
  <2>1. Query(k) \in Starts /\ Contains(list, Query(k))
      BY <1>1, QueryFinds DEF IInv, TypeOK
  <2> QED
      BY <1>1, <2>1 DEF IInv, EntryLive, CancelledByStop
<1>2. ASSUME IInv, NEW c \in seen
      PROVE  Running(c) \/ link[c] = "lost" \/ (\E s \in Stops : target[s] = c) \/ destroyed
    BY <1>2 DEF IInv, SeenLive, CancelledHasStop
<1> QED
    BY <1>1, <1>2 DEF LookupFindsLive

-----------------------------------------------------------------------------
(* Type correctness of the RFCOMM manager. *)
THEOREM TypeCorrect == Spec => []TypeOK
<1>1. IInv => TypeOK
    BY DEF IInv
<1> QED
    BY InitIInv, NextIInv, <1>1, PTL DEF Spec

(* However many connections, stops and devices: a running read loop is in the *)
(* list, once, or its start is about to add it under the mutex.               *)
THEOREM NoReadLoopIsLost == Spec => []NoOrphanReadLoop
<1>1. IInv => NoOrphanReadLoop
    BY DEF IInv
<1> QED
    BY InitIInv, NextIInv, <1>1, PTL DEF Spec

(* A finished stop has left its channel closed, silent and unlisted, for good, *)
(* and stopRfcommTransportJob closes no channel under a loop that still runs.  *)
THEOREM StopsAreFinal == Spec => []StopIsClean
<1>1. IInv => StopIsClean
    BY DEF IInv, StopIsClean
<1> QED
    BY InitIInv, NextIInv, <1>1, PTL DEF Spec

(* A stop or a send, the send without the mutex and through any number of     *)
(* changes to the list, finds a dead channel only for one of the named reasons.*)
THEOREM LookupsFindLiveChannels == Spec => []LookupFindsLive
    BY InitIInv, NextIInv, IInvLookup, PTL DEF Spec
=============================================================================
