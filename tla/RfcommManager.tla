----------------------------- MODULE RfcommManager -----------------------------
(***************************************************************************)
(* BluetoothRfcommManager and BluetoothRfcommChannel (bt/transport), as    *)
(* CarplayBluetoothService drives them: every start and stop is a          *)
(* coroutine of its own on Dispatchers.IO that does its work, blocking     *)
(* calls included, under one mutex; every connected channel has a read     *)
(* loop.  A send, which the collector of the RPC events makes, goes        *)
(* through the list without the mutex: an entry added or removed meanwhile *)
(* may end the iteration with an exception nobody catches, and with it the *)
(* process.  What it writes, to the channel it finds, changes nothing here.*)
(*                                                                         *)
(* External: the Kotlin Mutex, which serves its callers in the order in    *)
(* which they asked; the Bluetooth link and the remote device.  A read     *)
(* blocked in the socket's stream does not notice that its job was         *)
(* cancelled: it returns on data, and throws when the link is lost or the  *)
(* socket closed.                                                          *)
(***************************************************************************)
EXTENDS Naturals, Sequences, SequencesExt

CONSTANTS Starts,   \* startRfcommTransform requests, one channel each
          Stops,    \* stopRfcommTransform requests
          Keys,     \* the (device, uuid) pairs asked for
          SendKeys, \* those of them that data is sent to
          None

Requests == Starts \cup Stops

ASSUME NamesAssumption ==
    /\ Starts \cap Stops = {}
    /\ None \notin Starts \cup Keys
    /\ SendKeys \subseteq Keys

VARIABLES
    key,        \* the key a request was made for
    pc,         \* the coroutine of each request
    mutex,      \* the holder of the mutex, then those suspended in lock()
    list,       \* _rfcommTransformList, as the channels of its entries
    socket,     \* each channel's mSocket, mInput and mOutput: "none", "open", "closed"
    link,       \* the RFCOMM link of each channel: "none", "up", "lost"
    job,        \* each channel's read loop: "none", "active", "reading", "ended"
    cancelled,  \* channels whose job was cancelled
    inbox,      \* channels with received bytes that read has not returned yet
    target,     \* the channel a stop has found
    destroyed,  \* the service was destroyed: its coroutines are cancelled
    sending,    \* the key a send looks for, None when there is none
    seen,       \* the entries of that key that were in the list since it began
    changed,    \* the list was changed since
    crashed     \* ConcurrentModificationException in the collector

coVars == <<key, pc, target>>
chanVars == <<socket, link, job, cancelled, inbox>>
sendVars == <<sending, seen, changed, crashed>>
vars == <<coVars, mutex, list, chanVars, destroyed, sendVars>>

TypeOK ==
    /\ key \in [Requests -> Keys \cup {None}]
    /\ pc \in [Requests -> {"none", "locking", "add", "join", "close", "done"}]
    /\ mutex \in Seq(Requests)
    /\ list \in Seq(Starts)
    /\ socket \in [Starts -> {"none", "open", "closed"}]
    /\ link \in [Starts -> {"none", "up", "lost"}]
    /\ job \in [Starts -> {"none", "active", "reading", "ended"}]
    /\ cancelled \subseteq Starts
    /\ inbox \subseteq Starts
    /\ target \in [Stops -> Starts \cup {None}]
    /\ destroyed \in BOOLEAN
    /\ sending \in SendKeys \cup {None}
    /\ seen \subseteq Starts
    /\ changed \in BOOLEAN
    /\ crashed \in BOOLEAN

Init ==
    /\ key = [r \in Requests |-> None]
    /\ pc = [r \in Requests |-> "none"]
    /\ mutex = <<>>
    /\ list = <<>>
    /\ socket = [c \in Starts |-> "none"]
    /\ link = [c \in Starts |-> "none"]
    /\ job = [c \in Starts |-> "none"]
    /\ cancelled = {}
    /\ inbox = {}
    /\ target = [s \in Stops |-> None]
    /\ destroyed = FALSE
    /\ sending = None
    /\ seen = {}
    /\ changed = FALSE
    /\ crashed = FALSE

Holds(r) == mutex # <<>> /\ Head(mutex) = r

\* queryRfcommTransform under the mutex: the first entry of that device and uuid.
Query(k) ==
    LET i == SelectInSeq(list, LAMBDA c : key[c] = k)
    IN IF i = 0 THEN None ELSE list[i]

\* A send that goes through the list meets the change made to it.
SendSees(added) ==
    /\ changed' = (sending # None)
    /\ seen' = seen \cup {c \in added : key[c] = sending}
    /\ UNCHANGED <<sending, crashed>>

-----------------------------------------------------------------------------
(* The service's coroutines. *)

\* The binder launches a coroutine per request; they reach the mutex in any order.
Launch(r, k) ==
    /\ pc[r] = "none"
    /\ ~destroyed
    /\ key' = [key EXCEPT ![r] = k]
    /\ mutex' = Append(mutex, r)
    /\ pc' = [pc EXCEPT ![r] = "locking"]
    /\ UNCHANGED <<target, list, chanVars, destroyed, sendVars>>

\* onDestroy cancels the scope of the service; the read loops have their own.
Destroy ==
    /\ ~destroyed
    /\ destroyed' = TRUE
    /\ UNCHANGED <<coVars, mutex, list, chanVars, sendVars>>

\* A cancelled coroutine does not come back from lock(), unless it already has.
LockCancelled(r) ==
    /\ destroyed
    /\ pc[r] = "locking"
    /\ mutex' = RemoveFirst(mutex, r)
    /\ pc' = [pc EXCEPT ![r] = "done"]
    /\ UNCHANGED <<key, target, list, chanVars, destroyed, sendVars>>

Finish(r) ==
    /\ mutex' = Tail(mutex)
    /\ pc' = [pc EXCEPT ![r] = "done"]

-----------------------------------------------------------------------------
(* startRfcommTransportJob. *)

\* Mutant: the mutex is given back before the entry is added.
ConnectUnlocks(c) ==
    /\ pc[c] = "locking" /\ Holds(c)
    /\ link' = [link EXCEPT ![c] = "up"]
    /\ socket' = [socket EXCEPT ![c] = "open"]
    /\ pc' = [pc EXCEPT ![c] = "add"]
    /\ job' = [job EXCEPT ![c] = "active"]
    /\ mutex' = Tail(mutex)
    /\ UNCHANGED <<key, target, list, cancelled, inbox, destroyed, sendVars>>

\* Mutant: a connection that fails returns with the mutex locked.
ConnectFailsLocked(c) ==
    /\ pc[c] = "locking" /\ Holds(c)
    /\ pc' = [pc EXCEPT ![c] = "done"]
    /\ UNCHANGED <<key, target, mutex, list, chanVars, destroyed, sendVars>>

\* BluetoothSocket.connect, blocking, with the mutex held.  A socket that does
\* not connect was never stored: the close in onFailure finds nothing to close.
Connect(c) ==
    /\ pc[c] = "locking" /\ Holds(c)
    /\ \/ /\ link' = [link EXCEPT ![c] = "up"]
          /\ socket' = [socket EXCEPT ![c] = "open"]
          /\ pc' = [pc EXCEPT ![c] = "add"]
          /\ job' = [job EXCEPT ![c] = "active"]
          /\ UNCHANGED mutex
       \/ /\ Finish(c)
          /\ UNCHANGED <<link, socket, job>>
    /\ UNCHANGED <<key, target, list, cancelled, inbox, destroyed, sendVars>>

\* The read loop runs already when its entry is added.
AddTransform(c) ==
    /\ pc[c] = "add" /\ Holds(c)
    /\ list' = Append(list, c)
    /\ SendSees({c})
    /\ Finish(c)
    /\ UNCHANGED <<key, target, chanVars, destroyed>>

-----------------------------------------------------------------------------
(* stopRfcommTransportJob. *)

\* Mutant: what the query returns is not tested for null.
CancelJobUnchecked(s) ==
    /\ pc[s] = "locking" /\ Holds(s)
    /\ target' = [target EXCEPT ![s] = Query(key[s])]
    /\ cancelled' = cancelled \cup {Query(key[s])}
    /\ pc' = [pc EXCEPT ![s] = "join"]
    /\ UNCHANGED <<key, mutex, list, socket, link, job, inbox, destroyed, sendVars>>

\* The query, and job.cancelAndJoin up to the wait.
CancelJob(s) ==
    /\ pc[s] = "locking" /\ Holds(s)
    /\ LET c == Query(key[s]) IN
         IF c = None
         THEN /\ Finish(s)
              /\ UNCHANGED <<target, cancelled>>
         ELSE /\ target' = [target EXCEPT ![s] = c]
              /\ cancelled' = cancelled \cup {c}
              /\ pc' = [pc EXCEPT ![s] = "join"]
              /\ UNCHANGED mutex
    /\ UNCHANGED <<key, list, socket, link, job, inbox, destroyed, sendVars>>

Join(s) ==
    /\ pc[s] = "join" /\ ~destroyed
    /\ job[target[s]] = "ended"
    /\ pc' = [pc EXCEPT ![s] = "close"]
    /\ UNCHANGED <<key, target, mutex, list, chanVars, destroyed, sendVars>>

\* join gives up when the stop itself is cancelled: the channel stays as it is.
JoinCancelled(s) ==
    /\ pc[s] = "join" /\ destroyed
    /\ target' = [target EXCEPT ![s] = None]
    /\ Finish(s)
    /\ UNCHANGED <<key, list, chanVars, destroyed, sendVars>>

\* Mutant: the entry stays in the list.
CloseChannelKeepsEntry(s) ==
    /\ pc[s] = "close" /\ Holds(s)
    /\ socket' = [socket EXCEPT ![target[s]] = "closed"]
    /\ link' = [link EXCEPT ![target[s]] = "lost"]
    /\ Finish(s)
    /\ UNCHANGED <<key, target, list, job, cancelled, inbox, destroyed, sendVars>>

\* channel.close and the removal of the entry.
CloseChannel(s) ==
    /\ pc[s] = "close" /\ Holds(s)
    /\ socket' = [socket EXCEPT ![target[s]] = "closed"]
    /\ link' = [link EXCEPT ![target[s]] = "lost"]
    /\ list' = RemoveFirst(list, target[s])
    /\ SendSees({})
    /\ Finish(s)
    /\ UNCHANGED <<key, target, job, cancelled, inbox, destroyed>>

-----------------------------------------------------------------------------
(* BluetoothRfcommChannel.readLoop. *)

\* Mutant: while (true).
TestActiveIgnored(c) ==
    /\ job[c] = "active"
    /\ job' = [job EXCEPT ![c] = "reading"]
    /\ UNCHANGED <<coVars, mutex, list, socket, link, cancelled, inbox, destroyed, sendVars>>

TestActive(c) ==
    /\ job[c] = "active"
    /\ job' = [job EXCEPT ![c] = IF c \in cancelled THEN "ended" ELSE "reading"]
    /\ UNCHANGED <<coVars, mutex, list, socket, link, cancelled, inbox, destroyed, sendVars>>

\* Mutant: the loop ends after the first read.
ReadOnce(c) ==
    /\ job[c] = "reading"
    /\ c \in inbox \/ link[c] = "lost"
    /\ inbox' = inbox \ {c}
    /\ job' = [job EXCEPT ![c] = "ended"]
    /\ UNCHANGED <<coVars, mutex, list, socket, link, cancelled, destroyed, sendVars>>

\* read: bytes that arrived, which onData puts in the shared flow (tryEmit, which
\* does not suspend), or an IOException once the link is lost, which
\* ends the job and leaves its entry in the list.
Read(c) ==
    /\ job[c] = "reading"
    /\ \/ /\ c \in inbox
          /\ inbox' = inbox \ {c}
          /\ job' = [job EXCEPT ![c] = "active"]
       \/ /\ c \notin inbox /\ link[c] = "lost"
          /\ job' = [job EXCEPT ![c] = "ended"]
          /\ UNCHANGED inbox
    /\ UNCHANGED <<coVars, mutex, list, socket, link, cancelled, destroyed, sendVars>>

-----------------------------------------------------------------------------
(* sendDataByRfcomm, without the mutex. *)

BeginSend(k) ==
    /\ sending = None
    /\ sending' = k
    /\ seen' = {c \in Starts : Contains(list, c) /\ key[c] = k}
    /\ UNCHANGED <<coVars, mutex, list, chanVars, destroyed, changed, crashed>>

\* The iteration ends: at the first entry of the key, or, when the list was changed
\* under it, at any entry seen, at none, or with an exception.
EndSend ==
    /\ sending # None
    /\ \/ UNCHANGED crashed
       \/ changed /\ crashed' = TRUE
    /\ sending' = None /\ seen' = {} /\ changed' = FALSE
    /\ UNCHANGED <<coVars, mutex, list, chanVars, destroyed>>

-----------------------------------------------------------------------------
(* The remote device. *)

DataArrives(c) ==
    /\ link[c] = "up"
    /\ inbox' = inbox \cup {c}
    /\ UNCHANGED <<coVars, mutex, list, socket, link, job, cancelled, destroyed, sendVars>>

LinkLost(c) ==
    /\ link[c] = "up"
    /\ link' = [link EXCEPT ![c] = "lost"]
    /\ UNCHANGED <<coVars, mutex, list, socket, job, cancelled, inbox, destroyed, sendVars>>

-----------------------------------------------------------------------------
StartStep(c) == LockCancelled(c) \/ Connect(c) \/ AddTransform(c)
StopStep(s) == LockCancelled(s) \/ CancelJob(s) \/ Join(s) \/ JoinCancelled(s) \/ CloseChannel(s)
ReadLoop(c) == TestActive(c) \/ Read(c)

Next ==
    /\ ~crashed
    /\ \/ \E r \in Requests, k \in Keys : Launch(r, k)
       \/ Destroy
       \/ \E c \in Starts : StartStep(c) \/ ReadLoop(c) \/ DataArrives(c) \/ LinkLost(c)
       \/ \E s \in Stops : StopStep(s)
       \/ \E k \in SendKeys : BeginSend(k)
       \/ EndSend

\* Coroutines that can go on do; connect returns (it fails in the end when the
\* device is away).  The remote device does what it likes.
Fairness ==
    /\ \A c \in Starts : WF_vars(~crashed /\ StartStep(c)) /\ WF_vars(~crashed /\ ReadLoop(c))
    /\ \A s \in Stops : WF_vars(~crashed /\ StopStep(s))

Spec == Init /\ [][Next]_vars /\ Fairness

-----------------------------------------------------------------------------
(* Properties. *)

Running(c) == job[c] \in {"active", "reading"}

\* Every read loop that runs can be found by a stop: its channel is in the list,
\* once and only once, or is about to be added by the start that holds the
\* mutex.  Nothing is connected behind the manager's back.
NoOrphanReadLoop ==
    /\ \A c \in Starts : Running(c) => Contains(list, c) \/ (pc[c] = "add" /\ Holds(c))
    /\ IsInjective(list)

\* When a stop is done with a channel, that channel's loop has ended, its
\* socket is closed and no lookup finds it any more, for good.
StoppedForGood ==
    \A s \in Stops :
        pc[s] = "done" /\ target[s] # None =>
            /\ ~Running(target[s])
            /\ socket[target[s]] = "closed"
            /\ ~Contains(list, target[s])

\* A channel is closed only after its read loop has ended: the loop never reads
\* from a stream that was taken away from it.
CloseAfterLoop ==
    \A c \in Starts : socket[c] = "closed" => job[c] = "ended"

\* A stop is final and clean: it leaves nothing of its channel behind, and takes
\* nothing away from a loop that runs.
StopIsClean == StoppedForGood /\ CloseAfterLoop

\* A stop, or a send that takes its time, finds a channel nobody reads from only
\* after the device went away, or when a stop has taken the channel for its own, or
\* once the service is gone: no channel dies of the order in which things are done.
LookupFindsLive ==
    /\ \A k \in Keys : LET c == Query(k) IN
         c # None => \/ Running(c)
                     \/ link[c] = "lost"
                     \/ \E s \in Stops : pc[s] \in {"join", "close"} /\ target[s] = c
                     \/ destroyed
    /\ \A c \in seen : \/ Running(c)
                       \/ link[c] = "lost"
                       \/ \E s \in Stops : target[s] = c
                       \/ destroyed

\* Every start and stop returns, however many wait for the mutex before it, unless
\* a stop gets to wait for a read loop; and even then once the service is destroyed.
RequestsReturn ==
    \A r \in Requests :
        []<>(\/ pc[r] \in {"none", "done"}
             \/ ~destroyed /\ \E s \in Stops : pc[s] = "join"
             \/ crashed)

\* ... and that wait does not outlast a device that keeps sending, or is gone: the
\* read that returns lets the loop see that it was cancelled.
JoinEndsOnTraffic ==
    \A s \in Stops :
        []<>(/\ pc[s] = "join"
             /\ \/ target[s] \in inbox
                \/ link[target[s]] = "lost"
                \/ job[target[s]] # "reading")
            => []<>(pc[s] # "join" \/ crashed)

\* What the comment above stopRfcommTransportJob promises: it ends the job.
StopEndsTheJob ==
    \A s \in Stops : pc[s] = "locking" ~> pc[s] = "done"
=============================================================================
