----------------------------- MODULE NetLinkMonitor -----------------------------
(***************************************************************************)
(* The rtnetlink listener of NetService (rpc/source/net/NetLinkMonitor.h   *)
(* and .cpp): the main thread creates it in onCreate and stops, joins and  *)
(* deletes it in onDestroy; its thread blocks in recv and calls            *)
(* onIpv6Ready for each IPv6 address it is told of.                        *)
(*                                                                         *)
(* External: the kernel's socket queue, and what shutdown does to a thread *)
(* blocked in recv.  For netlink sockets Linux refuses shutdown with       *)
(* EOPNOTSUPP, which the code does not look at: ShutdownUnblocksRecv is    *)
(* FALSE there.                                                            *)
(***************************************************************************)
EXTENDS Naturals, Sequences

CONSTANTS QueueLen,             \* messages the socket buffer holds
          ShutdownUnblocksRecv  \* what shutdown(SHUT_RD) does to a blocked recv

ASSUME QueueLenAssumption == QueueLen \in Nat \ {0}
ASSUME ShutdownAssumption == ShutdownUnblocksRecv \in BOOLEAN

VARIABLES
    servicePc, \* the main thread: "idle" or inside netLinkStop
    gMonitor,  \* whether the global monitor exists
    running,   \* member running_
    sock,      \* member sock_: "none", "failed" (socket gave -1) or "open"
    shut,      \* the receiving side of the socket was shut down
    queue,     \* messages waiting in the socket: "address" or "other"
    overrun,   \* the socket lost a message: ENOBUFS is "owed" to recv, or was
               \* "given"; the kernel forgets it when the queue has drained
    threadPc   \* threadLoop

vars == <<servicePc, gMonitor, running, sock, shut, queue, overrun, threadPc>>

Messages == {"address", "other"}

TypeOK ==
    /\ servicePc \in {"idle", "shutdown", "join", "close"}
    /\ gMonitor \in BOOLEAN
    /\ running \in BOOLEAN
    /\ sock \in {"none", "failed", "open"}
    /\ shut \in BOOLEAN
    /\ queue \in Seq(Messages) /\ Len(queue) <= QueueLen
    /\ overrun \in {"none", "owed", "given"}
    /\ threadPc \in {"none", "test", "recv", "onIpv6Ready", "exited"}
    /\ gMonitor <=> sock # "none"
    /\ sock # "open" => queue = <<>> /\ ~shut /\ overrun = "none"

Init ==
    /\ servicePc = "idle"
    /\ gMonitor = FALSE
    /\ running = FALSE
    /\ sock = "none"
    /\ shut = FALSE
    /\ queue = <<>>
    /\ overrun = "none"
    /\ threadPc = "none"

-----------------------------------------------------------------------------
(* The main thread. *)

\* netLinkStart: a new monitor, its socket and its thread.  The results of
\* socket and bind are not looked at.
NetLinkStart ==
    /\ servicePc = "idle"
    /\ ~gMonitor
    /\ gMonitor' = TRUE
    /\ running' = TRUE
    /\ sock' \in {"open", "failed"}
    /\ threadPc' = "test"
    /\ UNCHANGED <<servicePc, shut, queue, overrun>>

\* netLinkStop, stop(): the flag first.
NetLinkStop ==
    /\ servicePc = "idle"
    /\ gMonitor
    /\ running' = FALSE
    /\ servicePc' = "shutdown"
    /\ UNCHANGED <<gMonitor, sock, shut, queue, overrun, threadPc>>

Shutdown ==
    /\ servicePc = "shutdown"
    /\ shut' = (sock = "open")
    /\ servicePc' = "join"
    /\ UNCHANGED <<gMonitor, running, sock, queue, overrun, threadPc>>

\* Mutant: the thread is detached in the place of joined.
JoinUnwaited ==
    /\ servicePc = "join"
    /\ servicePc' = "close"
    /\ UNCHANGED <<gMonitor, running, sock, shut, queue, overrun, threadPc>>

Join ==
    /\ servicePc = "join"
    /\ threadPc = "exited"
    /\ servicePc' = "close"
    /\ UNCHANGED <<gMonitor, running, sock, shut, queue, overrun, threadPc>>

\* Mutant: sock_ is forgotten without a close.
CloseAndDeleteLeaks ==
    /\ servicePc = "close"
    /\ sock' = "none"
    /\ gMonitor' = FALSE
    /\ threadPc' = "none"
    /\ servicePc' = "idle"
    /\ UNCHANGED <<running, shut, queue, overrun>>

\* close, then the destructor, whose own stop() finds running_ false.
CloseAndDelete ==
    /\ servicePc = "close"
    /\ sock' = "none"
    /\ shut' = FALSE
    /\ queue' = <<>>
    /\ overrun' = "none"
    /\ gMonitor' = FALSE
    /\ threadPc' = "none"
    /\ servicePc' = "idle"
    /\ UNCHANGED running

-----------------------------------------------------------------------------
(* threadLoop. *)

\* Mutant: while (true).
TestRunningIgnored ==
    /\ threadPc = "test"
    /\ threadPc' = "recv"
    /\ UNCHANGED <<servicePc, gMonitor, running, sock, shut, queue, overrun>>

TestRunning ==
    /\ threadPc = "test"
    /\ threadPc' = IF running THEN "recv" ELSE "exited"
    /\ UNCHANGED <<servicePc, gMonitor, running, sock, shut, queue, overrun>>

\* recv returns nothing usable: no socket, a lost message, or end of file
\* after a shutdown that worked.  The loop just tests the flag again.
RecvFails ==
    /\ threadPc = "recv"
    /\ \/ sock # "open"
       \/ overrun = "owed"
       \/ ShutdownUnblocksRecv /\ shut /\ queue = <<>>
    /\ overrun' = IF overrun = "owed" THEN "given" ELSE overrun
    /\ threadPc' = "test"
    /\ UNCHANGED <<servicePc, gMonitor, running, sock, shut, queue>>

\* Mutant: the address messages are skipped with the others.
RecvMessageSkips ==
    /\ threadPc = "recv"
    /\ sock = "open" /\ overrun # "owed"
    /\ queue # <<>>
    /\ queue' = Tail(queue)
    /\ threadPc' = "test"
    /\ overrun' = IF queue' = <<>> THEN "none" ELSE overrun
    /\ UNCHANGED <<servicePc, gMonitor, running, sock, shut>>

RecvMessage ==
    /\ threadPc = "recv"
    /\ sock = "open" /\ overrun # "owed"
    /\ queue # <<>>
    /\ queue' = Tail(queue)
    /\ threadPc' = IF Head(queue) = "address" THEN "onIpv6Ready" ELSE "test"
    /\ overrun' = IF queue' = <<>> THEN "none" ELSE overrun
    /\ UNCHANGED <<servicePc, gMonitor, running, sock, shut>>

\* The JNI call on the service object (tryEmit: it does not block).
OnIpv6Ready ==
    /\ threadPc = "onIpv6Ready"
    /\ threadPc' = "test"
    /\ UNCHANGED <<servicePc, gMonitor, running, sock, shut, queue, overrun>>

-----------------------------------------------------------------------------
\* The kernel queues a message, or drops it when the buffer is full.
KernelEvent(m) ==
    /\ sock = "open"
    /\ ~(ShutdownUnblocksRecv /\ shut)
    /\ IF Len(queue) < QueueLen
       THEN queue' = Append(queue, m) /\ UNCHANGED overrun
       ELSE overrun' = (IF overrun = "none" THEN "owed" ELSE overrun) /\ UNCHANGED queue
    /\ UNCHANGED <<servicePc, gMonitor, running, sock, shut, threadPc>>

ServiceStep == Shutdown \/ Join \/ CloseAndDelete
ThreadStep == TestRunning \/ RecvFails \/ RecvMessage \/ OnIpv6Ready

Next ==
    \/ NetLinkStart \/ NetLinkStop \/ ServiceStep
    \/ ThreadStep
    \/ \E m \in Messages : KernelEvent(m)

\* Both threads run when they can; services come and go, and addresses change,
\* when they please.
Fairness == WF_vars(ServiceStep) /\ WF_vars(ThreadStep)

Spec == Init /\ [][Next]_vars /\ Fairness

-----------------------------------------------------------------------------
(* Properties. *)

\* The thread never runs on a monitor that was deleted nor receives from a
\* descriptor that was closed (and may be another's by then), whenever the
\* service is destroyed and created again.
ThreadWithinMonitor ==
    threadPc \in {"test", "recv", "onIpv6Ready"} =>
        gMonitor /\ sock # "none" /\ servicePc # "close"

\* An address the kernel queued is reported, unless the monitor is stopped first.
AddressReported ==
    (\E i \in 1..Len(queue) : queue[i] = "address") ~> threadPc = "onIpv6Ready" \/ ~running

\* netLinkStop, which the main thread waits in, does return if messages keep
\* coming: the next one gets the thread out of recv.  It returns without any when
\* there is no socket, and the thread spins on a recv that fails.
StopReturnsOnTraffic ==
    /\ []<><<\E m \in Messages : KernelEvent(m)>>_vars
         => (servicePc = "join" ~> servicePc = "idle")
    /\ servicePc = "join" /\ sock = "failed" ~> servicePc = "idle"

\* What the comment at the shutdown says: it unblocks recv, so that the join,
\* and netLinkStop, return.
StopUnblocksRecv == servicePc = "join" ~> servicePc = "idle"
=============================================================================
