------------------------------ MODULE ScreenLooper ------------------------------
(***************************************************************************)
(* The render side of the CarPlay screen: CarplayRpcRuntime::screenLooper, *)
(* surfaceAvailable and the frame signal of outputLoop                     *)
(* (rpc/source/CarplayRpcRuntime.cpp).                                     *)
(*                                                                         *)
(* Every screenStreamStart request detaches one more screenLooper thread,  *)
(* and gRenderQuit is never set, so no looper ever ends: after a restart   *)
(* the old and the new looper share every member of the runtime.  The UI   *)
(* thread hands windows over under mAttachNativeWindowMutex; the loopers   *)
(* read the flag and the window outside it.                                *)
(*                                                                         *)
(* EGL and SurfaceTexture are external: a context is named by the looper   *)
(* that created it; it can be current in one thread at a time; the single  *)
(* SurfaceTexture stays attached to the first context it was attached to,  *)
(* because detaching needs that context to be current.                     *)
(***************************************************************************)
EXTENDS Naturals

CONSTANTS Starts,      \* bound on screenStreamStart requests: one thread each
          Windows,     \* native windows the UI may hand over
          Wild,        \* the indeterminate value of the uninitialised pointer
          None,        \* null: no window, no context, no EGL surface
          Ui,          \* the UI thread, as holder of the window mutex
          Free,        \* the window mutex is not held
          MaxPending   \* bound on decoded frames waiting in the SurfaceTexture

Loopers == 1..Starts   \* the screenLooper threads, in the order of their creation

ASSUME StartsAssumption == Starts \in Nat \ {0}

ASSUME ConstantsAreDistinct ==
    /\ Wild \notin Windows \cup {None}
    /\ None \notin Windows \cup Loopers
    /\ Ui \notin Loopers \cup {Free}
    /\ Free \notin Loopers

ASSUME MaxPendingAssumption == MaxPending \in Nat \ {0}

VARIABLES
    pc,            \* where each screenLooper thread is
    gContext,      \* member gContext: the context of the last initEGL
    boundContext,  \* the EGL context current in each looper thread
    boundSurface,  \* "window": mAttachEGLSurface is current in that thread
    texContext,    \* the context the SurfaceTexture is attached to
    window,        \* members mAttachNativeWindow, Width and Height
    updated,       \* member mAttachedNativeWindowUpdated
    eglSurface,    \* member mAttachEGLSurface, as the window it was created on
    windowMutex,   \* holder of mAttachNativeWindowMutex
    uiPc,          \* surfaceAvailable on the UI thread: "idle", or "flag" before line 493
    frameAvailable,\* member gFrameAvailable
    pending        \* frames released to the SurfaceTexture and not yet latched

looperVars == <<pc, gContext, boundContext, boundSurface, texContext>>
windowVars == <<window, updated, eglSurface, windowMutex>>
frameVars  == <<frameAvailable, pending>>
vars == <<looperVars, windowVars, uiPc, frameVars>>

Running == {l \in Loopers : pc[l] # "none"}
Looping == {l \in Loopers : pc[l] \notin {"none", "initEGL", "makeCurrent", "initMediaCodec"}}

TypeOK ==
    /\ pc \in [Loopers -> {"none", "initEGL", "makeCurrent", "initMediaCodec", "wait",
                           "update", "check", "lock", "bind"}]
    /\ gContext \in Loopers \cup {None}
    /\ boundContext \in [Loopers -> Loopers \cup {None}]
    /\ boundSurface \in [Loopers -> {"none", "pbuffer", "window", "stale"}]
    /\ texContext \in Loopers \cup {None}
    /\ window \in Windows \cup {Wild, None}
    /\ updated \in BOOLEAN
    /\ eglSurface \in Windows \cup {Wild, None}
    /\ windowMutex \in Loopers \cup {Ui, Free}
    /\ uiPc \in {"idle", "flag"}
    /\ frameAvailable \in BOOLEAN
    /\ pending \in 0..MaxPending

\* The runtime is heap allocated and never initialises mAttachNativeWindow nor
\* the size: they start null or wild.
Init ==
    /\ pc = [l \in Loopers |-> "none"]
    /\ gContext = None
    /\ boundContext = [l \in Loopers |-> None]
    /\ boundSurface = [l \in Loopers |-> "none"]
    /\ texContext = None
    /\ window \in {None, Wild}
    /\ updated = FALSE
    /\ eglSurface = None
    /\ windowMutex = Free
    /\ uiPc = "idle"
    /\ frameAvailable = FALSE /\ pending = 0

-----------------------------------------------------------------------------
(* handleScreenStreamStart and the looper's initialisation. *)

\* startScreenStreamThread: one more detached thread, whatever is running.
StartScreenStream(l) ==
    /\ pc[l] = "none"
    /\ \A k \in Loopers : k < l => pc[k] # "none"
    /\ pc' = [pc EXCEPT ![l] = "initEGL"]
    /\ UNCHANGED <<gContext, boundContext, boundSurface, texContext,
                   windowVars, uiPc, frameVars>>

\* eglMakeCurrent fails when the context is current in another thread.
CanBind(l, ctx) == \A k \in Loopers \ {l} : boundContext[k] # ctx

\* initEGL up to the creation of the context, or one of its early returns (the
\* result is ignored by screenLooper).
InitEGL(l) ==
    /\ pc[l] = "initEGL"
    /\ \/ /\ gContext' = l
          /\ pc' = [pc EXCEPT ![l] = "makeCurrent"]
       \/ /\ gContext' \in {gContext, None}
          /\ pc' = [pc EXCEPT ![l] = "initMediaCodec"]
    /\ UNCHANGED <<boundContext, boundSurface, texContext,
                   windowVars, uiPc, frameVars>>

\* initEGL from the pbuffer on: it binds whatever gContext is by then.
MakeCurrent(l) ==
    /\ pc[l] = "makeCurrent"
    /\ pc' = [pc EXCEPT ![l] = "initMediaCodec"]
    /\ \/ /\ gContext # None /\ CanBind(l, gContext)
          /\ boundContext' = [boundContext EXCEPT ![l] = gContext]
          /\ boundSurface' = [boundSurface EXCEPT ![l] = "pbuffer"]
       \/ UNCHANGED <<boundContext, boundSurface>>
    /\ UNCHANGED <<gContext, texContext, windowVars, uiPc, frameVars>>

\* initMediaCodec's use of the singleton SurfaceTexture: detach fails outside
\* the context it is attached to and attach fails while it is attached, so only
\* the first looper with a context gets it.  Results are ignored.
AttachTexture(l) ==
    /\ pc[l] = "initMediaCodec"
    /\ pc' = [pc EXCEPT ![l] = "wait"]
    /\ \/ /\ texContext \in {None, boundContext[l]}
          /\ texContext' = boundContext[l]
       \/ UNCHANGED texContext
    /\ UNCHANGED <<gContext, boundContext, boundSurface,
                   windowVars, uiPc, frameVars>>

-----------------------------------------------------------------------------
(* The frame loop. *)

\* Mutant: a wait without the 33 ms timeout.
WaitFrameForever(l) ==
    /\ pc[l] = "wait"
    /\ frameAvailable
    /\ pc' = [pc EXCEPT ![l] = "update"]
    /\ frameAvailable' = FALSE
    /\ UNCHANGED <<gContext, boundContext, boundSurface, texContext, windowVars,
                   uiPc, pending>>

\* wait_for returns on a signalled frame or after 33 ms: either way the looper
\* goes on and lowers the flag, whoever it was meant for.
WaitFrame(l) ==
    /\ pc[l] = "wait"
    /\ pc' = [pc EXCEPT ![l] = "update"]
    /\ frameAvailable' = FALSE
    /\ UNCHANGED <<gContext, boundContext, boundSurface, texContext, windowVars,
                   uiPc, pending>>

CanLatch(l) == texContext # None /\ boundContext[l] = texContext

\* Mutant: latches one frame without looking whether there is one.
UpdateTexImageUnchecked(l) ==
    /\ pc[l] = "update"
    /\ pc' = [pc EXCEPT ![l] = "check"]
    /\ pending' = IF CanLatch(l) THEN pending - 1 ELSE pending
    /\ UNCHANGED <<gContext, boundContext, boundSurface, texContext, windowVars,
                   uiPc, frameAvailable>>

\* updateTexImage latches the queued frames only in the context the texture is
\* attached to; in any other it fails and the looper goes on.
UpdateTexImage(l) ==
    /\ pc[l] = "update"
    /\ pc' = [pc EXCEPT ![l] = "check"]
    /\ pending' = IF CanLatch(l) THEN 0 ELSE pending
    /\ UNCHANGED <<gContext, boundContext, boundSurface, texContext, windowVars,
                   uiPc, frameAvailable>>

\* The flag is read outside the mutex.
CheckUpdated(l) ==
    /\ pc[l] = "check"
    /\ pc' = [pc EXCEPT ![l] = IF updated THEN "lock" ELSE "wait"]
    /\ UNCHANGED <<gContext, boundContext, boundSurface, texContext, windowVars,
                   uiPc, frameVars>>

\* Under the mutex, eglDestroySurface and eglCreateWindowSurface: whoever had
\* the old surface current keeps a dead one.  Creation may fail (EGL_NO_SURFACE).
RecreateSurface(l) ==
    /\ pc[l] = "lock"
    /\ windowMutex = Free
    /\ windowMutex' = l
    /\ pc' = [pc EXCEPT ![l] = "bind"]
    /\ eglSurface' \in {window, None}
    /\ boundSurface' = [k \in Loopers |->
                           IF boundSurface[k] = "window" THEN "stale" ELSE boundSurface[k]]
    /\ UNCHANGED <<gContext, boundContext, texContext, window, updated,
                   uiPc, frameVars>>

\* Mutant: the flag is not lowered.
BindSurfaceFlagKept(l) ==
    /\ pc[l] = "bind"
    /\ pc' = [pc EXCEPT ![l] = "wait"]
    /\ windowMutex' = Free
    /\ UNCHANGED <<gContext, boundContext, boundSurface, texContext, window, updated,
                   eglSurface, uiPc, frameVars>>

\* Mutant: the new surface is not made current.
BindSurfaceNotCurrent(l) ==
    /\ pc[l] = "bind"
    /\ pc' = [pc EXCEPT ![l] = "wait"]
    /\ updated' = FALSE
    /\ windowMutex' = Free
    /\ UNCHANGED <<gContext, boundContext, boundSurface, texContext, window,
                   eglSurface, uiPc, frameVars>>

\* eglMakeCurrent on the shared gContext (result ignored), then the flag is
\* lowered and the mutex released.
BindSurface(l) ==
    /\ pc[l] = "bind"
    /\ pc' = [pc EXCEPT ![l] = "wait"]
    /\ IF gContext # None /\ CanBind(l, gContext)
       THEN /\ boundContext' = [boundContext EXCEPT ![l] = gContext]
            /\ boundSurface' = [boundSurface EXCEPT
                                   ![l] = IF eglSurface = None THEN "none" ELSE "window"]
       ELSE UNCHANGED <<boundContext, boundSurface>>
    /\ updated' = FALSE
    /\ windowMutex' = Free
    /\ UNCHANGED <<gContext, texContext, window, eglSurface,
                   uiPc, frameVars>>

\* What the draw and swap that end an iteration come to: they are tried when
\* there is a window pointer (read outside the mutex), and reach the screen only
\* through the surface that is current in this thread.
Presents(l) ==
    /\ pc[l] = "wait"
    /\ window # None
    /\ boundSurface[l] = "window"

-----------------------------------------------------------------------------
(* surfaceAvailable on the UI thread (surfaceChanged of the SurfaceView). *)

\* Mutant: the window is stored without the mutex.
SurfaceAvailableUnlocked(w) ==
    /\ uiPc = "idle"
    /\ window' = w
    /\ uiPc' = "flag"
    /\ UNCHANGED <<looperVars, updated, eglSurface, windowMutex, frameVars>>

SurfaceAvailable(w) ==
    /\ uiPc = "idle"
    /\ windowMutex = Free
    /\ windowMutex' = Ui
    /\ window' = w
    /\ uiPc' = "flag"
    /\ UNCHANGED <<looperVars, updated, eglSurface, frameVars>>

RaiseUpdated ==
    /\ uiPc = "flag"
    /\ updated' = TRUE
    /\ windowMutex' = Free
    /\ uiPc' = "idle"
    /\ UNCHANGED <<looperVars, window, eglSurface, frameVars>>

-----------------------------------------------------------------------------
(* outputLoop: a decoded frame is released to the surface and signalled (one   *)
(* step: the signal only shortens the wait).                                   *)

ReleaseFrame ==
    /\ Looping # {}
    /\ pending < MaxPending
    /\ pending' = pending + 1
    /\ frameAvailable' = TRUE
    /\ UNCHANGED <<looperVars, windowVars, uiPc>>

-----------------------------------------------------------------------------
LooperStep(l) ==
    \/ InitEGL(l) \/ MakeCurrent(l) \/ AttachTexture(l)
    \/ WaitFrame(l) \/ UpdateTexImage(l) \/ CheckUpdated(l)
    \/ RecreateSurface(l) \/ BindSurface(l)

Next ==
    \/ \E l \in Loopers : StartScreenStream(l) \/ LooperStep(l)
    \/ \E w \in Windows : SurfaceAvailable(w)
    \/ RaiseUpdated
    \/ ReleaseFrame

\* Threads that can run do run.  The window mutex is released between two
\* surface callbacks, so a looper that keeps asking for it gets it: strong
\* fairness.  Nothing forces requests, windows or frames to arrive.
Fairness ==
    /\ \A l \in Loopers : WF_vars(LooperStep(l)) /\ SF_vars(RecreateSurface(l))
    /\ WF_vars(RaiseUpdated)

Spec == Init /\ [][Next]_vars /\ Fairness

-----------------------------------------------------------------------------
(* Properties. *)

\* Whenever the mutex is free and the flag is down, the EGL surface the loopers
\* swap is the one of the window handed over last (or none could be made): a
\* hand-over between the unlocked read of the flag and the lock is never lost.
WindowHandshake ==
    windowMutex = Free /\ ~updated =>
        eglSurface \in {None, window}

\* A hand-over is taken up as soon as one looper runs, however many there are.
HandoverTaken == updated /\ Looping # {} ~> ~updated

HandoverInProgress == updated \/ windowMutex # Free

\* While a looper owns the texture's context, released frames are latched even
\* if a second looper (a restart) keeps eating the frame signal, as long as no
\* hand-over makes it change contexts.
FramesKeepLatching ==
    pending > 0 /\ (\E l \in Looping : CanLatch(l)) ~> pending = 0 \/ HandoverInProgress

\* With one looper, a window handed over is shown, unless a newer one replaces
\* it, its surface cannot be created, EGL did not initialise, or a restart
\* brings a second looper.
SoleLooperShows ==
    \A w \in Windows, l \in Loopers :
        updated /\ window = w /\ Running = {l} /\ l \in Looping /\ boundContext[l] = l
          ~> \/ Presents(l) /\ eglSurface = w
             \/ window # w
             \/ eglSurface = None
             \/ Running # {l}
=============================================================================
