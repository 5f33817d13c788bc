SPECIFICATION Spec
CONSTANTS
  NumSlots = 3
  Words = {w1, w2}
  MaxFrames = 4
  WeakMemory = TRUE
INVARIANT NoTornSnapshot
