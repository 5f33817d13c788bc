\* Two windows that can replace each other, two sizes, two frames on each channel; channels
\* are opened and closed without a bound.
CONSTANTS
  None = None
  w1 = w1
  w2 = w2
  s1 = s1
  s2 = s2
  Windows = {w1, w2}
  Sizes = {s1, s2}
  MaxFrames = 2
SPECIFICATION Spec
INVARIANTS TypeOK HandleGoesWithWindow DrawsOnCurrent
PROPERTIES SurfaceFollowsWindow LastFrameShown
\* A process that has crashed takes no further step.
CHECK_DEADLOCK FALSE
