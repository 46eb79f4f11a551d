--------------------------- MODULE ScreenLooper_proofs ---------------------------
(***************************************************************************)
(* The window hand-over protocol of ScreenLooper is right for any number   *)
(* of loopers and windows.  What makes it inductive: the mutex has the     *)
(* holder the program counters say, and a looper about to lower the flag   *)
(* has just built its surface on the window that is still the current one. *)
(***************************************************************************)
EXTENDS ScreenLooper, TLAPS

\* The mutex is held by whoever is inside its critical section.
LockDiscipline ==
    /\ \A l \in Loopers : windowMutex = l <=> pc[l] = "bind"
    /\ windowMutex = Ui <=> uiPc = "flag"

\* Between the recreation of the surface and the lowering of the flag, no other
\* window can have been handed over.
BindsCurrentWindow ==
    \A l \in Loopers : pc[l] = "bind" => eglSurface \in {None, window}

IInv == TypeOK /\ LockDiscipline /\ BindsCurrentWindow /\ WindowHandshake

-----------------------------------------------------------------------------
(* The type invariant of the screen loopers holds initially. *)
LEMMA InitTypeOK == Init => TypeOK
<1> SUFFICES ASSUME Init PROVE TypeOK
    OBVIOUS
<1>1. 0 \in 0..MaxPending
    BY MaxPendingAssumption
<1> QED
    BY <1>1 DEF Init, TypeOK

(* Every step keeps the members of the runtime within their types. *)
LEMMA NextTypeOK == TypeOK /\ [Next]_vars => TypeOK'
<1> SUFFICES ASSUME TypeOK, [Next]_vars PROVE TypeOK'
    OBVIOUS
<1> USE DEF TypeOK, windowVars, looperVars, frameVars
<1>1. ASSUME NEW l \in Loopers, StartScreenStream(l) PROVE TypeOK'
    BY <1>1 DEF StartScreenStream
<1>2. ASSUME NEW l \in Loopers, InitEGL(l) PROVE TypeOK'
    BY <1>2 DEF InitEGL
<1>3. ASSUME NEW l \in Loopers, MakeCurrent(l) PROVE TypeOK'
    BY <1>3 DEF MakeCurrent
<1>4. ASSUME NEW l \in Loopers, AttachTexture(l) PROVE TypeOK'
    BY <1>4 DEF AttachTexture
<1>5. ASSUME NEW l \in Loopers, WaitFrame(l) PROVE TypeOK'
    BY <1>5 DEF WaitFrame
<1>6. ASSUME NEW l \in Loopers, UpdateTexImage(l) PROVE TypeOK'
    BY <1>6, MaxPendingAssumption DEF UpdateTexImage
<1>7. ASSUME NEW l \in Loopers, CheckUpdated(l) PROVE TypeOK'
    BY <1>7 DEF CheckUpdated
<1>8. ASSUME NEW l \in Loopers, RecreateSurface(l) PROVE TypeOK'
    BY <1>8 DEF RecreateSurface
<1>9. ASSUME NEW l \in Loopers, BindSurface(l) PROVE TypeOK'
    BY <1>9 DEF BindSurface
<1>10. ASSUME NEW w \in Windows, SurfaceAvailable(w) PROVE TypeOK'
    BY <1>10 DEF SurfaceAvailable
<1>11. CASE RaiseUpdated
    BY <1>11 DEF RaiseUpdated
<1>12. CASE ReleaseFrame
    BY <1>12, MaxPendingAssumption DEF ReleaseFrame
<1>13. CASE UNCHANGED vars
    BY <1>13 DEF vars
<1> QED
    BY <1>1, <1>2, <1>3, <1>4, <1>5, <1>6, <1>7, <1>8, <1>9, <1>10, <1>11, <1>12, <1>13
       DEF Next, LooperStep

(* The inductive invariant of the hand-over holds initially. *)
LEMMA InitIInv == Init => IInv
BY InitTypeOK, ConstantsAreDistinct
   DEF Init, IInv, LockDiscipline, BindsCurrentWindow, WindowHandshake

(* Every step keeps the hand-over invariant. *)
LEMMA NextIInv == IInv /\ [Next]_vars => IInv'
<1> SUFFICES ASSUME IInv, [Next]_vars PROVE IInv'
    OBVIOUS
<1> TypeOK /\ TypeOK'
    BY NextTypeOK DEF IInv
<1> USE ConstantsAreDistinct
        DEF IInv, LockDiscipline, BindsCurrentWindow, WindowHandshake
<1> DEFINE Aside == UNCHANGED <<windowVars, uiPc>>
<1>1. ASSUME NEW l \in Loopers, Aside, pc[l] # "bind", NEW p \in {"initEGL", "makeCurrent",
                 "initMediaCodec", "wait", "update", "check", "lock"},
             pc' = [pc EXCEPT ![l] = p]
      PROVE IInv'
    BY <1>1 DEF TypeOK, windowVars
<1>2. ASSUME NEW l \in Loopers, StartScreenStream(l) PROVE IInv'
    BY <1>1, <1>2 DEF StartScreenStream
<1>3. ASSUME NEW l \in Loopers, InitEGL(l) PROVE IInv'
    BY <1>1, <1>3 DEF InitEGL
<1>4. ASSUME NEW l \in Loopers, MakeCurrent(l) PROVE IInv'
    BY <1>1, <1>4 DEF MakeCurrent
<1>5. ASSUME NEW l \in Loopers, AttachTexture(l) PROVE IInv'
    BY <1>1, <1>5 DEF AttachTexture
<1>6. ASSUME NEW l \in Loopers, WaitFrame(l) PROVE IInv'
    BY <1>1, <1>6 DEF WaitFrame
<1>7. ASSUME NEW l \in Loopers, UpdateTexImage(l) PROVE IInv'
    BY <1>1, <1>7 DEF UpdateTexImage
<1>8. ASSUME NEW l \in Loopers, CheckUpdated(l) PROVE IInv'
    BY <1>1, <1>8 DEF CheckUpdated
<1>9. ASSUME NEW l \in Loopers, RecreateSurface(l) PROVE IInv'
    BY <1>9 DEF RecreateSurface, TypeOK
<1>10. ASSUME NEW l \in Loopers, BindSurface(l) PROVE IInv'
    BY <1>10 DEF BindSurface, TypeOK
<1>11. ASSUME NEW w \in Windows, SurfaceAvailable(w) PROVE IInv'
    BY <1>11 DEF SurfaceAvailable, looperVars, TypeOK
<1>12. CASE RaiseUpdated
    BY <1>12 DEF RaiseUpdated, looperVars, TypeOK
<1>13. CASE ReleaseFrame
    BY <1>13 DEF ReleaseFrame, looperVars, windowVars
<1>14. CASE UNCHANGED vars
    BY <1>14 DEF vars, looperVars, windowVars
<1> QED
    BY <1>2, <1>3, <1>4, <1>5, <1>6, <1>7, <1>8, <1>9, <1>10, <1>11, <1>12, <1>13, <1>14
       DEF Next, LooperStep

(* Type correctness of the screen loopers. *)
THEOREM TypeCorrect == Spec => []TypeOK
<1> QED
    BY InitTypeOK, NextTypeOK, PTL DEF Spec

(* surfaceAvailable and the loopers, any number of them, never leave the screen *)
(* on the surface of a window that has been replaced.                            *)
THEOREM WindowHandshakeHolds == Spec => []WindowHandshake
<1>1. IInv => WindowHandshake
    BY DEF IInv
<1> QED
    BY InitIInv, NextIInv, <1>1, PTL DEF Spec
=============================================================================
