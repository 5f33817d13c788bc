-------------------------- MODULE DisplayRenderer --------------------------
(***************************************************************************)
(* display_renderer.cpp: the render thread that draws guest frames on the  *)
(* viewport's window with EGL, the pump thread that fetches the frames,    *)
(* and the main thread, which delivers the SurfaceHolder callbacks and     *)
(* opens and closes the frame channel under them. What a critical section  *)
(* of mWindowMutex or mFrameMutex does is one step.                        *)
(*                                                                         *)
(* The channel's seqlock is FrameChannel's: here a read gives its newest   *)
(* frame or, this time, nothing.                                           *)
(***************************************************************************)
EXTENDS Integers

CONSTANTS
  Windows,       \* the native windows the viewport's surface can have
  Sizes,         \* their sizes
  None,          \* no window
  MaxFrames      \* bound: frames published on one channel

ASSUME WindowsAssumption == Windows # {} /\ None \notin Windows /\ Sizes # {}
ASSUME MaxFramesAssumption == MaxFrames \in Nat \ {0}

VARIABLES
  surface,       \* the viewport's window while its surface is valid
  surfaceSize,   \* its size
  main,          \* where the main thread is
  resizing,      \* is it in nativeOnSurfaceChanged?
  mWindow, mSize,\* DisplayRenderer::mWindow, and mWidth with mHeight
  refs,          \* the references the renderer holds on windows
  mRunning,
  egl,           \* the window mEglSurface was made for; None: EGL_NO_DISPLAY
  current,       \* the window whose surface is current on the render thread
  eglReady,      \* renderLoop's local
  render,        \* where the render thread is
  viewport,      \* the size it draws for
  texture,       \* the frame in mTextureId; 0: nothing, and the test pattern is drawn
  shown,         \* frame and size of the last picture swapped onto the surface
  mFrameBuffer,  \* the frame last put by updateGuestFrame; 0: none
  mHasNewFrame,
  pumping,       \* where the pump thread is
  held,          \* pumpLoop's pointer to a channel; stale: to one that has been destroyed
  channel,       \* does g_host_channel hold a channel?
  frame,         \* the newest frame on it; 0: none yet
  crashed        \* did the process touch an unmapped region?

host    == <<surface, surfaceSize, main, resizing>>
window  == <<mWindow, mSize, refs, mRunning>>
picture == <<viewport, texture, shown>>
buffer  == <<mFrameBuffer, mHasNewFrame>>
pump    == <<pumping, held>>
guest   == <<channel, frame, crashed>>
drawing == <<egl, current, eglReady, render, picture>>
vars    == <<host, window, drawing, buffer, pump, guest>>

Frames == 0..MaxFrames
Maybe  == Windows \union {None}

TypeOK ==
  /\ surface \in Maybe /\ surfaceSize \in Sizes
  /\ main \in {"idle", "bind", "start", "resize", "close"} /\ resizing \in BOOLEAN
  /\ mWindow \in Maybe /\ mSize \in Sizes /\ refs \in [Windows -> 0..1] /\ mRunning \in BOOLEAN
  /\ egl \in Maybe /\ current \in Maybe /\ eglReady \in BOOLEAN
  /\ render \in {"none", "top", "size", "upload", "swap", "recover"}
  /\ viewport \in Sizes /\ texture \in Frames
  /\ shown \in [frame : Frames, size : Sizes]
  /\ mFrameBuffer \in Frames /\ mHasNewFrame \in BOOLEAN
  /\ pumping \in {"none", "check", "load", "read", "dead"}
  /\ held \in {"none", "valid", "stale"} /\ channel \in BOOLEAN /\ frame \in Frames
  /\ crashed \in BOOLEAN

Init ==
  /\ \E s \in Sizes :
       /\ surfaceSize = s /\ mSize = s /\ viewport = s
       /\ shown = [frame |-> 0, size |-> s]
  /\ surface = None /\ main = "idle" /\ resizing = FALSE
  /\ mWindow = None /\ refs = [w \in Windows |-> 0] /\ mRunning = FALSE
  /\ egl = None /\ current = None /\ eglReady = FALSE /\ render = "none"
  /\ texture = 0
  /\ mFrameBuffer = 0 /\ mHasNewFrame = FALSE
  /\ pumping = "none" /\ held = "none"
  /\ channel = FALSE /\ frame = 0 /\ crashed = FALSE

----------------------------------------------------------------------------
(* The surface callbacks, on the main thread.                               *)

\* setNativeWindow begins with ensurePumpStarted.
CallSetWindow ==
  /\ main' = "bind"
  /\ pumping' = IF pumping = "none" THEN "check" ELSE pumping

OnSurfaceCreated ==
  /\ main = "idle" /\ surface = None
  /\ surface' \in Windows
  /\ surfaceSize' \in Sizes
  /\ resizing' = FALSE
  /\ CallSetWindow
  /\ shown' = [shown EXCEPT !.frame = 0]
  /\ UNCHANGED <<window, egl, current, eglReady, render, viewport, texture, buffer, held, guest>>

\* A new size for the window, or another window in its place.
OnSurfaceChanged ==
  /\ main = "idle" /\ surface # None
  /\ surface' \in Windows
  /\ surfaceSize' \in Sizes
  /\ resizing' = TRUE
  /\ CallSetWindow
  /\ UNCHANGED <<window, drawing, buffer, held, guest>>

\* Mutant: the window that is replaced keeps its reference.
BindWindow_KeepRef ==
  /\ main = "bind"
  /\ IF surface = mWindow
     THEN main' = (IF resizing THEN "resize" ELSE "idle") /\ UNCHANGED <<mWindow, mSize, refs>>
     ELSE /\ mWindow' = surface
          /\ mSize' = surfaceSize
          /\ refs' = [refs EXCEPT ![surface] = @ + 1]
          /\ main' = "start"
  /\ UNCHANGED <<surface, surfaceSize, resizing, mRunning, drawing, buffer, pump, guest>>

BindWindow ==
  /\ main = "bind"
  /\ IF surface = mWindow
     THEN main' = (IF resizing THEN "resize" ELSE "idle") /\ UNCHANGED <<mWindow, mSize, refs>>
     ELSE /\ mWindow' = surface
          /\ mSize' = surfaceSize
          /\ refs' = [w \in Windows |->
                        refs[w] + (IF w = surface THEN 1 ELSE 0) - (IF w = mWindow THEN 1 ELSE 0)]
          /\ main' = "start"
  /\ UNCHANGED <<surface, surfaceSize, resizing, mRunning, drawing, buffer, pump, guest>>

StartRender ==
  /\ main = "start"
  /\ mRunning' = TRUE
  /\ render' = IF mRunning THEN render ELSE "top"
  /\ main' = IF resizing THEN "resize" ELSE "idle"
  /\ UNCHANGED <<surface, surfaceSize, resizing, mWindow, mSize, refs, egl, current, eglReady,
                 picture, buffer, pump, guest>>

UpdateWindowSize ==
  /\ main = "resize"
  /\ mSize' = surfaceSize
  /\ main' = "idle" /\ resizing' = FALSE
  /\ UNCHANGED <<surface, surfaceSize, mWindow, refs, mRunning, drawing, buffer, pump,
                 guest>>

\* Mutant: EGL is left to the render thread.
DestroyWindow_KeepEGL ==
  /\ mWindow' = None
  /\ refs' = [w \in Windows |-> IF w = mWindow THEN refs[w] - 1 ELSE refs[w]]
  /\ UNCHANGED <<mSize, mRunning, egl, current, eglReady>>

\* destroyWindow ends EGL from the calling thread. EGL defers the end of a surface that is
\* current on another thread: the render thread's stays, with its window's buffer queue, until
\* that thread lets it go, and eglReady is not told.
DestroyWindow ==
  /\ egl' = None
  /\ mWindow' = None
  /\ refs' = [w \in Windows |-> IF w = mWindow THEN refs[w] - 1 ELSE refs[w]]
  /\ UNCHANGED <<mSize, mRunning, current, eglReady>>

\* When the callback returns the system abandons the surface.
OnSurfaceDestroyed ==
  /\ main = "idle" /\ surface # None
  /\ DestroyWindow
  /\ surface' = None
  /\ UNCHANGED <<surfaceSize, main, resizing, render, picture, buffer, pump, guest>>

\* SetHostChannel destroys the channel that was there.
SetHostChannel(new) ==
  /\ channel' = new
  /\ frame' = 0
  /\ held' = IF held = "valid" THEN "stale" ELSE held

\* nativeCreateFrameChannel
CreateChannel ==
  /\ main = "idle"
  /\ SetHostChannel(TRUE)
  /\ UNCHANGED <<host, window, drawing, buffer, pumping, crashed>>

\* nativeCloseFrameChannel: destroyWindow, then the channel is unmapped.
CloseChannel ==
  /\ main = "idle"
  /\ DestroyWindow
  /\ main' = "close"
  /\ UNCHANGED <<surface, surfaceSize, resizing, render, picture, buffer, pump, guest>>

UnmapChannel ==
  /\ main = "close"
  /\ SetHostChannel(FALSE)
  /\ main' = "idle"
  /\ UNCHANGED <<surface, surfaceSize, resizing, window, drawing, buffer, pumping, crashed>>

----------------------------------------------------------------------------
(* renderLoop                                                               *)

\* Mutant: a failing eglMakeCurrent is not noticed.
InitEGL_NotCurrent == egl' = mWindow /\ UNCHANGED current

\* A new surface, made current.
InitEGL == egl' = mWindow /\ current' = mWindow

\* The program, the quad, and a texture with nothing in it.
SetupGL == texture' = 0

\* terminateEGL on the render thread, which lets its current surface go, unless there is no
\* display any more.
TerminateEGL ==
  /\ egl' = None
  /\ current' = IF egl = None THEN current ELSE None

\* initEGL fails after it has got the display; terminateEGL then also releases a surface
\* that is still current from before. (If it gets no display nothing changes.)
InitFails ==
  /\ egl' = None /\ current' = None
  /\ UNCHANGED <<eglReady, texture, render>>

\* Phases 1 and 2, under mWindowMutex. A window that still has the surface current from
\* before refuses another.
NewSurface ==
  /\ render = "top" /\ mWindow # None /\ ~eglReady
  /\ mWindow # current
  /\ InitEGL
  /\ SetupGL
  /\ eglReady' = TRUE
  /\ render' = "size"
  /\ UNCHANGED <<viewport, shown, host, window, buffer, pump, guest>>

NoSurface ==
  /\ render = "top" /\ mWindow # None /\ ~eglReady
  /\ InitFails
  /\ UNCHANGED <<viewport, shown, host, window, buffer, pump, guest>>

SurfaceUp ==
  /\ render = "top" /\ mWindow # None /\ eglReady
  /\ render' = "size"
  /\ UNCHANGED <<egl, current, eglReady, picture, host, window, buffer, pump, guest>>

ReadSize ==
  /\ render = "size"
  /\ viewport' = mSize
  /\ render' = "upload"
  /\ UNCHANGED <<egl, current, eglReady, texture, shown, host, window, buffer, pump, guest>>

\* With a frame in the buffer the texture is drawn, uploaded in this turn or not.
Upload ==
  /\ render = "upload"
  /\ texture' = IF mHasNewFrame THEN mFrameBuffer ELSE texture
  /\ mHasNewFrame' = FALSE
  /\ render' = "swap"
  /\ UNCHANGED <<mFrameBuffer, egl, current, eglReady, viewport, shown, host, window, pump, guest>>

Swapped ==
  /\ render = "swap" /\ egl # None /\ egl = surface
  /\ shown' = [frame |-> texture, size |-> viewport]
  /\ render' = "top"
  /\ UNCHANGED <<egl, current, eglReady, viewport, texture, host, window, buffer, pump, guest>>

\* No display, a destroyed surface or an abandoned window; a window that was replaced under
\* the renderer is taken to be abandoned.
SwapFails ==
  /\ render = "swap" /\ (egl = None \/ egl # surface)
  /\ render' = "recover"
  /\ UNCHANGED <<egl, current, eglReady, picture, host, window, buffer, pump, guest>>

\* Mutant: EGL is ended but taken to be ready still.
Recover_KeepReady ==
  /\ render = "recover"
  /\ TerminateEGL
  /\ render' = "top"
  /\ UNCHANGED <<eglReady, picture, host, window, buffer, pump, guest>>

Recover ==
  /\ render = "recover"
  /\ TerminateEGL
  /\ eglReady' = FALSE
  /\ render' = "top"
  /\ UNCHANGED <<picture, host, window, buffer, pump, guest>>

Render ==
  \/ NewSurface \/ NoSurface \/ SurfaceUp \/ ReadSize \/ Upload \/ Swapped \/ SwapFails \/ Recover

----------------------------------------------------------------------------
(* pumpLoop                                                                 *)

\* The thread is started before mRunning is set: if it looks first it ends, and
\* ensurePumpStarted, which finds it joinable, never starts another.
PumpCheck ==
  /\ pumping = "check"
  /\ pumping' = IF mRunning THEN "load" ELSE "dead"
  /\ UNCHANGED <<held, host, window, drawing, buffer, guest>>

PumpLoad ==
  /\ pumping = "load" /\ channel
  /\ held' = "valid"
  /\ pumping' = "read"
  /\ UNCHANGED <<host, window, drawing, buffer, guest>>

\* Mutant: a frame is put without the flag.
PumpPut_NoFlag ==
  /\ pumping = "read" /\ held = "valid" /\ frame # 0
  /\ mFrameBuffer' = frame
  /\ held' = "none" /\ pumping' = "load"
  /\ UNCHANGED <<mHasNewFrame, host, window, drawing, guest>>

\* ReadLatest gives the newest frame, seen before or not; updateGuestFrame.
PumpPut ==
  /\ pumping = "read" /\ held = "valid" /\ frame # 0
  /\ mFrameBuffer' = frame
  /\ mHasNewFrame' = TRUE
  /\ held' = "none" /\ pumping' = "load"
  /\ UNCHANGED <<host, window, drawing, guest>>

\* No frame yet, or none that is stable.
PumpMiss ==
  /\ pumping = "read" /\ held = "valid"
  /\ held' = "none" /\ pumping' = "load"
  /\ UNCHANGED <<host, window, drawing, buffer, guest>>

\* The channel was destroyed after pumpLoop took the pointer: the freed object, or the
\* unmapped region behind it, is read. The process dies, or the read finds no magic number.
PumpStale ==
  /\ pumping = "read" /\ held = "stale"
  /\ crashed' \in BOOLEAN
  /\ held' = "none" /\ pumping' = "load"
  /\ UNCHANGED <<host, window, drawing, buffer, channel, frame>>

Pump == PumpCheck \/ PumpLoad \/ PumpPut \/ PumpMiss \/ PumpStale

\* The guest publishes a frame on the channel.
Publish ==
  /\ channel /\ frame < MaxFrames
  /\ frame' = frame + 1
  /\ UNCHANGED <<host, window, drawing, buffer, pump, channel, crashed>>

----------------------------------------------------------------------------
MainStep == BindWindow \/ StartRender \/ UpdateWindowSize \/ UnmapChannel

Next ==
  /\ ~crashed
  /\ \/ MainStep
     \/ OnSurfaceCreated \/ OnSurfaceChanged \/ OnSurfaceDestroyed
     \/ CreateChannel \/ CloseChannel
     \/ Render
     \/ Pump
     \/ Publish

\* The three threads run on. An EGL initialisation that can succeed does so in the end, and
\* so does a read of a frame that stays.
Fairness ==
  /\ WF_vars(~crashed /\ MainStep)
  /\ WF_vars(~crashed /\ Render)
  /\ SF_vars(~crashed /\ NewSurface)
  /\ WF_vars(~crashed /\ Pump)
  /\ SF_vars(~crashed /\ PumpPut)

Spec == Init /\ [][Next]_vars /\ Fairness

----------------------------------------------------------------------------
(* Properties                                                               *)

\* destroyWindow takes the surface's handle away, whatever the render thread is doing, and none
\* comes back without a window: once the surface callback has returned, no swap goes to a
\* window that the system has abandoned, which is what display_renderer.cpp:79 is for. The
\* renderer then holds no reference; with a window it holds that one's, once.
\* It is the handle only. The surface that is current on the render thread outlives it, and the
\* window, until that thread makes another current: that the buffer queue is released when
\* destroyWindow returns (display_renderer.cpp:78) does not follow, and is not stated.
HandleGoesWithWindow ==
  /\ surface = None => mWindow = None
  /\ mWindow = None => egl = None
  /\ \A w \in Windows : refs[w] = IF w = mWindow THEN 1 ELSE 0

\* The render thread draws and swaps on the surface it has made current, or on none: never
\* on one with another current, although the main thread ends EGL under it.
DrawsOnCurrent ==
  render \in {"size", "upload", "swap"} => egl = None \/ (eglReady /\ egl = current)

\* However windows come, go and replace one another, when the last one stays the renderer
\* ends up with an EGL surface on it.
SurfaceFollowsWindow ==
  \A w \in Windows :
    <>[](mWindow = w /\ surface = w /\ main = "idle" /\ ~crashed) => <>[](egl = w)

\* The window is the renderer's, the channel is open and the pump runs.
Steady ==
  /\ surface # None /\ mWindow = surface /\ main = "idle"
  /\ channel /\ frame # 0
  /\ pumping \notin {"none", "dead"}
  /\ ~crashed

\* The surface ends up showing the guest's last frame at the size it has, also after EGL was
\* lost and set up again with an empty texture while the guest published nothing new: the
\* pump puts the same frame again. (A pump that ended at its first look shows nothing.)
LastFrameShown ==
  <>[]Steady => <>[](shown = [frame |-> frame, size |-> surfaceSize])
=============================================================================
