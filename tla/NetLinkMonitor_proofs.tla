-------------------------- MODULE NetLinkMonitor_proofs --------------------------
(***************************************************************************)
(* The listener thread of NetLinkMonitor stays within the life of its      *)
(* monitor, whatever the buffer holds and whatever shutdown does: it is    *)
(* the join in stop(), not the shutdown, that the safety rests on.         *)
(* ThreadWithinMonitor is inductive together with the type invariant.      *)
(***************************************************************************)
EXTENDS NetLinkMonitor, TLAPS

IInv == TypeOK /\ ThreadWithinMonitor

(* The monitor does not exist at first. *)
LEMMA InitIInv == Init => IInv
<1> SUFFICES ASSUME Init PROVE IInv
    OBVIOUS
<1>1. queue \in Seq(Messages) /\ Len(queue) = 0
    BY DEF Init
<1>2. queue \in Seq(Messages) /\ Len(queue) <= QueueLen
    BY <1>1, QueueLenAssumption
<1>3. TypeOK
    BY <1>2 DEF Init, TypeOK
<1> QED
    BY <1>3 DEF Init, IInv, ThreadWithinMonitor

(* Every step of the main thread, of the listener and of the kernel keeps the *)
(* members of the monitor within their types.                                 *)
LEMMA NextTypeOK == TypeOK /\ [Next]_vars => TypeOK'
<1> SUFFICES ASSUME TypeOK, [Next]_vars PROVE TypeOK'
    OBVIOUS
<1> USE QueueLenAssumption DEF TypeOK
<1>1. CASE NetLinkStart
    BY <1>1 DEF NetLinkStart
<1>2. CASE NetLinkStop
    BY <1>2 DEF NetLinkStop
<1>3. CASE Shutdown
    BY <1>3 DEF Shutdown
<1>4. CASE Join
    BY <1>4 DEF Join
<1>5. CASE CloseAndDelete
  <2>1. queue' \in Seq(Messages) /\ Len(queue') = 0
      BY <1>5 DEF CloseAndDelete
  <2>2. Len(queue') <= QueueLen
      BY <2>1
  <2> QED
      BY <1>5, <2>1, <2>2 DEF CloseAndDelete
<1>6. CASE TestRunning
    BY <1>6 DEF TestRunning
<1>7. CASE RecvFails
    BY <1>7 DEF RecvFails
<1>8. CASE RecvMessage
  <2>1. Tail(queue) \in Seq(Messages) /\ Len(Tail(queue)) <= QueueLen
      BY <1>8 DEF RecvMessage
  <2> QED
      BY <1>8, <2>1 DEF RecvMessage
<1>9. CASE OnIpv6Ready
    BY <1>9 DEF OnIpv6Ready
<1>10. ASSUME NEW m \in Messages, KernelEvent(m) PROVE TypeOK'
    BY <1>10 DEF KernelEvent
<1>11. CASE UNCHANGED vars
    BY <1>11 DEF vars
<1> QED
    BY <1>1, <1>2, <1>3, <1>4, <1>5, <1>6, <1>7, <1>8, <1>9, <1>10, <1>11
    DEF Next, ServiceStep, ThreadStep

(* No step leaves the thread running without its monitor and socket: the join  *)
(* is the only way to the close, and only an exited thread is joined.          *)
LEMMA NextThreadWithinMonitor == IInv /\ [Next]_vars => ThreadWithinMonitor'
<1> SUFFICES ASSUME IInv, [Next]_vars PROVE ThreadWithinMonitor'
    OBVIOUS
<1> USE DEF IInv, ThreadWithinMonitor
<1>1. CASE NetLinkStart
    BY <1>1 DEF NetLinkStart
<1>2. CASE NetLinkStop
    BY <1>2 DEF NetLinkStop
<1>3. CASE ServiceStep
    BY <1>3 DEF ServiceStep, Shutdown, Join, CloseAndDelete
<1>4. CASE ThreadStep
    BY <1>4 DEF ThreadStep, TestRunning, RecvFails, RecvMessage, OnIpv6Ready
<1>5. ASSUME NEW m \in Messages, KernelEvent(m) PROVE ThreadWithinMonitor'
    BY <1>5 DEF KernelEvent
<1>6. CASE UNCHANGED vars
    BY <1>6 DEF vars
<1> QED
    BY <1>1, <1>2, <1>3, <1>4, <1>5, <1>6 DEF Next

-----------------------------------------------------------------------------
(* Type correctness of the netlink listener, for every buffer length. *)
THEOREM TypeCorrect == Spec => []TypeOK
<1>1. Init => TypeOK
    BY InitIInv DEF IInv
<1> QED
    BY <1>1, NextTypeOK, PTL DEF Spec

(* The listener never runs on a deleted monitor or a closed descriptor, for    *)
(* every buffer length and whether or not shutdown reaches a blocked recv.     *)
THEOREM ThreadStaysWithinMonitor == Spec => []ThreadWithinMonitor
<1>1. IInv /\ [Next]_vars => IInv'
    BY NextTypeOK, NextThreadWithinMonitor DEF IInv
<1>2. IInv => ThreadWithinMonitor
    BY DEF IInv
<1> QED
    BY InitIInv, <1>1, <1>2, PTL DEF Spec
=============================================================================
