SPECIFICATION Spec
CONSTANTS
  NumSlots = 3
  Words = {w1, w2}
  MaxFrames = 7
  WeakMemory = FALSE
INVARIANTS TypeOK SnapshotWhole NewestSurvives
PROPERTIES ImplementsLatestFrame CatchesUp
