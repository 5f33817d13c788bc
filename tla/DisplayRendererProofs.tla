----------------------- MODULE DisplayRendererProofs -----------------------
(***************************************************************************)
(* Proofs about DisplayRenderer, for any set of windows and of sizes and   *)
(* any number of frames on a channel.                                      *)
(***************************************************************************)
EXTENDS DisplayRenderer, TLAPS

(***************************************************************************)
(* The inductive invariant.                                                *)
(***************************************************************************)

\* The callback that is binding a window has one: its surface cannot be destroyed before it
\* returns.
BindInv == main = "bind" => surface # None

\* Only the render thread makes an EGL surface, and makes it current with it; what the main
\* thread does under it can only take the surface away.
EglInv == egl # None => eglReady /\ egl = current

IInv == TypeOK /\ HandleGoesWithWindow /\ BindInv /\ EglInv

(***************************************************************************)
(* Types.                                                                  *)
(***************************************************************************)

\* The reference the renderer takes on a window and the one it gives back stay in balance.
LEMMA RefsFacts ==
  ASSUME TypeOK, HandleGoesWithWindow
  PROVE  /\ surface # mWindow =>
              [w \in Windows |->
                 refs[w] + (IF w = surface THEN 1 ELSE 0) - (IF w = mWindow THEN 1 ELSE 0)]
              = [w \in Windows |-> IF w = surface THEN 1 ELSE 0]
         /\ [w \in Windows |-> IF w = mWindow THEN refs[w] - 1 ELSE refs[w]]
            = [w \in Windows |-> 0]
BY DEF TypeOK, HandleGoesWithWindow

\* The first state is well typed.
LEMMA RendererTypeInit == Init => TypeOK
<1> SUFFICES ASSUME Init PROVE TypeOK
  OBVIOUS
<1>1. 0 \in Frames
  BY MaxFramesAssumption DEF Frames
<1>2. /\ resizing \in BOOLEAN /\ mRunning \in BOOLEAN /\ eglReady \in BOOLEAN
      /\ mHasNewFrame \in BOOLEAN /\ channel \in BOOLEAN /\ crashed \in BOOLEAN
  BY Zenon DEF Init
<1>3. QED
  BY <1>1, <1>2 DEF Init, TypeOK, Maybe

\* What destroyWindow does to the types, from either of its callers.
LEMMA DestroyType ==
  ASSUME TypeOK, HandleGoesWithWindow, DestroyWindow
  PROVE  /\ egl' = None /\ mWindow' = None
         /\ refs' = [w \in Windows |-> 0]
         /\ UNCHANGED <<mSize, mRunning, current, eglReady>>
BY RefsFacts DEF DestroyWindow

\* The steps of the main thread keep the types.
LEMMA MainTypeStep ==
  ASSUME TypeOK, HandleGoesWithWindow,
         \/ MainStep \/ OnSurfaceCreated \/ OnSurfaceChanged \/ OnSurfaceDestroyed
         \/ CreateChannel \/ CloseChannel
  PROVE  TypeOK'
<1> USE DEF TypeOK, Maybe
<1>1. 0 \in Frames
  BY MaxFramesAssumption DEF Frames
<1>2. CASE BindWindow
  <2>1. CASE surface = mWindow
    BY <1>2, <2>1 DEF BindWindow, drawing, picture, buffer, pump, guest
  <2>2. CASE surface # mWindow
    <3>1. refs' = [w \in Windows |-> IF w = surface THEN 1 ELSE 0]
      BY <1>2, <2>2, RefsFacts DEF BindWindow
    <3>2. refs' \in [Windows -> 0..1]
      BY <3>1
    <3>3. QED
      BY <1>2, <2>2, <3>2 DEF BindWindow, drawing, picture, buffer, pump, guest
  <2>3. QED
    BY <2>1, <2>2
<1>3. CASE StartRender
  BY <1>3 DEF StartRender, picture, buffer, pump, guest
<1>4. CASE UpdateWindowSize
  <2>1. resizing' \in BOOLEAN
    BY <1>4, Zenon DEF UpdateWindowSize
  <2>2. QED
    BY <1>4, <2>1 DEF UpdateWindowSize, drawing, picture, buffer, pump, guest
<1>5. CASE UnmapChannel
  <2>1. channel' \in BOOLEAN
    BY <1>5, Zenon DEF UnmapChannel, SetHostChannel
  <2>2. QED
    BY <1>1, <1>5, <2>1 DEF UnmapChannel, SetHostChannel, window, drawing, picture, buffer
<1>6. CASE OnSurfaceCreated
  <2>1. shown' \in [frame : Frames, size : Sizes]
    BY <1>1, <1>6 DEF OnSurfaceCreated
  <2>2. resizing' \in BOOLEAN
    BY <1>6, Zenon DEF OnSurfaceCreated
  <2>3. QED
    BY <1>6, <2>1, <2>2 DEF OnSurfaceCreated, CallSetWindow, window, buffer, guest
<1>7. CASE OnSurfaceChanged
  BY <1>7 DEF OnSurfaceChanged, CallSetWindow, window, drawing, picture, buffer, guest
<1>8. CASE OnSurfaceDestroyed
  <2>1. DestroyWindow
    BY <1>8 DEF OnSurfaceDestroyed
  <2>2. [w \in Windows |-> 0] \in [Windows -> 0..1]
    OBVIOUS
  <2>3. QED
    BY <1>8, <2>1, <2>2, DestroyType DEF OnSurfaceDestroyed, picture, buffer, pump, guest
<1>9. CASE CreateChannel
  BY <1>1, <1>9 DEF CreateChannel, SetHostChannel, host, window, drawing, picture, buffer
<1>10. CASE CloseChannel
  <2>1. DestroyWindow
    BY <1>10 DEF CloseChannel
  <2>2. [w \in Windows |-> 0] \in [Windows -> 0..1]
    OBVIOUS
  <2>3. QED
    BY <1>10, <2>1, <2>2, DestroyType DEF CloseChannel, picture, buffer, pump, guest
<1>11. QED
  BY <1>2, <1>3, <1>4, <1>5, <1>6, <1>7, <1>8, <1>9, <1>10 DEF MainStep

\* The steps of the render thread, the pump and the guest keep the types.
LEMMA ThreadTypeStep ==
  ASSUME TypeOK, Render \/ Pump \/ Publish
  PROVE  TypeOK'
<1> USE DEF TypeOK, Maybe
<1>1. 0 \in Frames
  BY MaxFramesAssumption DEF Frames
<1>2. CASE NewSurface
  BY <1>1, <1>2 DEF NewSurface, InitEGL, SetupGL, host, window, buffer, pump, guest
<1>3. CASE NoSurface
  BY <1>3 DEF NoSurface, InitFails, host, window, buffer, pump, guest
<1>4. CASE SurfaceUp \/ ReadSize
  BY <1>4 DEF SurfaceUp, ReadSize, picture, host, window, buffer, pump, guest
<1>5. CASE Upload
  <2>1. mHasNewFrame' \in BOOLEAN
    BY <1>5, Zenon DEF Upload
  <2>2. texture' \in Frames
    BY <1>5 DEF Upload
  <2>3. QED
    BY <1>5, <2>1, <2>2 DEF Upload, host, window, pump, guest
<1>6. CASE Swapped
  BY <1>6 DEF Swapped, host, window, buffer, pump, guest
<1>7. CASE SwapFails
  BY <1>7 DEF SwapFails, picture, host, window, buffer, pump, guest
<1>8. CASE Recover
  <2>1. eglReady' \in BOOLEAN
    BY <1>8, Zenon DEF Recover
  <2>2. QED
    BY <1>8, <2>1 DEF Recover, TerminateEGL, picture, host, window, buffer, pump, guest
<1>9. CASE PumpCheck \/ PumpLoad \/ PumpMiss
  BY <1>9 DEF PumpCheck, PumpLoad, PumpMiss, host, window, drawing, picture, buffer, guest
<1>10. CASE PumpPut
  BY <1>10 DEF PumpPut, host, window, drawing, picture, guest
<1>11. CASE PumpStale
  BY <1>11 DEF PumpStale, host, window, drawing, picture, buffer
<1>12. CASE Publish
  <2>1. frame' \in Frames
    BY <1>12, MaxFramesAssumption DEF Publish, Frames
  <2>2. QED
    BY <1>12, <2>1 DEF Publish, host, window, drawing, picture, buffer, pump
<1>13. QED
  BY <1>2, <1>3, <1>4, <1>5, <1>6, <1>7, <1>8, <1>9, <1>10, <1>11, <1>12 DEF Render, Pump

(***************************************************************************)
(* The window, its reference and EGL.                                      *)
(***************************************************************************)

\* The first state has no window.
LEMMA RendererInit == Init => IInv
<1> SUFFICES ASSUME Init PROVE IInv
  OBVIOUS
<1>1. TypeOK
  BY RendererTypeInit
<1>2. HandleGoesWithWindow
  BY WindowsAssumption DEF Init, HandleGoesWithWindow
<1>3. BindInv /\ EglInv
  BY DEF Init, BindInv, EglInv
<1>4. QED
  BY <1>1, <1>2, <1>3 DEF IInv

\* The handle comes with a window and goes with it.
LEMMA RendererStep == IInv /\ [Next]_vars => IInv'
<1> SUFFICES ASSUME IInv, [Next]_vars PROVE IInv'
  OBVIOUS
<1> USE DEF IInv, HandleGoesWithWindow, BindInv, EglInv
<1>1. TypeOK'
  <2>1. CASE UNCHANGED vars
    BY <2>1 DEF TypeOK, vars, host, window, drawing, picture, buffer, pump, guest
  <2>2. CASE Next
    BY <2>2, MainTypeStep, ThreadTypeStep DEF Next
  <2>3. QED
    BY <2>1, <2>2
<1>2. CASE BindWindow
  <2>1. surface \in Windows
    BY <1>2 DEF BindWindow, TypeOK, Maybe
  <2>2. UNCHANGED <<surface, egl, current, eglReady>> /\ main' # "bind"
    BY <1>2 DEF BindWindow, drawing
  <2>3. CASE surface = mWindow
    BY <1>1, <1>2, <2>2, <2>3 DEF BindWindow
  <2>4. CASE surface # mWindow
    <3>1. refs' = [w \in Windows |-> IF w = surface THEN 1 ELSE 0] /\ mWindow' = surface
      BY <1>2, <2>4, RefsFacts DEF BindWindow
    <3>2. QED
      BY <1>1, <2>1, <2>2, <3>1, WindowsAssumption
  <2>5. QED
    BY <2>3, <2>4
<1>3. CASE OnSurfaceDestroyed \/ CloseChannel
  <2>1. DestroyWindow /\ main' # "bind"
    BY <1>3 DEF OnSurfaceDestroyed, CloseChannel
  <2>2. egl' = None /\ mWindow' = None /\ refs' = [w \in Windows |-> 0]
    BY <2>1, DestroyType
  <2>3. QED
    BY <1>1, <2>1, <2>2, WindowsAssumption
<1>4. CASE OnSurfaceCreated \/ OnSurfaceChanged
  <2>1. /\ surface' # None
        /\ UNCHANGED <<mWindow, refs, egl, current, eglReady>>
    BY <1>4, WindowsAssumption DEF OnSurfaceCreated, OnSurfaceChanged, window, drawing
  <2>2. QED
    BY <1>1, <2>1
<1>5. CASE StartRender \/ UpdateWindowSize \/ UnmapChannel
  <2>1. main' # "bind" /\ UNCHANGED <<surface, mWindow, refs, egl, current, eglReady>>
    BY <1>5 DEF StartRender, UpdateWindowSize, UnmapChannel, window, drawing
  <2>2. QED
    BY <1>1, <2>1
<1>6. CASE NewSurface
  <2>1. /\ mWindow # None /\ egl' = mWindow /\ current' = mWindow /\ eglReady' = TRUE
        /\ UNCHANGED <<main, surface, mWindow, refs>>
    BY <1>6 DEF NewSurface, InitEGL, host, window
  <2>2. QED
    BY <1>1, <2>1
<1>7. CASE NoSurface \/ Recover
  <2>1. egl' = None /\ UNCHANGED <<main, surface, mWindow, refs>>
    BY <1>7 DEF NoSurface, InitFails, Recover, TerminateEGL, host, window
  <2>2. QED
    BY <1>1, <2>1
<1>8. CASE \/ SurfaceUp \/ ReadSize \/ Upload \/ Swapped \/ SwapFails
           \/ Pump \/ Publish \/ CreateChannel \/ UNCHANGED vars
  <2>1. UNCHANGED <<main, surface, mWindow, refs, egl, current, eglReady>>
    BY <1>8 DEF SurfaceUp, ReadSize, Upload, Swapped, SwapFails, Pump, PumpCheck, PumpLoad, PumpPut,
       PumpMiss, PumpStale, Publish, CreateChannel, vars, host, window, drawing
  <2>2. QED
    BY <1>1, <2>1
<1>9. QED
  BY <1>2, <1>3, <1>4, <1>5, <1>6, <1>7, <1>8 DEF Next, MainStep, Render

\* The parts together are inductive.
LEMMA RendererInvariant == Spec => []IInv
BY RendererInit, RendererStep, PTL DEF Spec

(***************************************************************************)
(* What it gives.                                                          *)
(***************************************************************************)

\* The types hold; in particular the renderer never gives back a reference it does not hold.
THEOREM RendererTypeCorrect == Spec => []TypeOK
<1>1. IInv => TypeOK
  BY DEF IInv
<1>2. QED
  BY RendererInvariant, <1>1, PTL

\* Without a valid surface the renderer has no window, without a window no handle of an EGL
\* surface that a swap could go to, and it holds exactly one reference, its window's. (The
\* surface itself lives on while it is current on the render thread.)
THEOREM HandleAndReferenceGoWithTheWindow == Spec => []HandleGoesWithWindow
<1>1. IInv => HandleGoesWithWindow
  BY DEF IInv
<1>2. QED
  BY RendererInvariant, <1>1, PTL

\* The render thread draws and swaps on the surface it has made current, or on none.
THEOREM DrawingIsOnTheCurrentSurface == Spec => []DrawsOnCurrent
<1>1. IInv => DrawsOnCurrent
  BY DEF IInv, EglInv, DrawsOnCurrent
<1>2. QED
  BY RendererInvariant, <1>1, PTL
=============================================================================
