SPECIFICATION InitializeSpec
CONSTANTS
  Run = {r1, r2, r3}
  Tag = {t1, t2}
  Null = Null
  NativePromises = FALSE
  MaxFrames = 1
  MaxTokens = 2
  MaxStack = 5
  Initializers = 2
SYMMETRY Symmetry
INVARIANTS ActiveIsInnermost ResumesItsContext GoesOnOnce QuietBetweenTurns InitializedInOrder
PROPERTIES AbortsTowardsCaller ImplementsExtent
CHECK_DEADLOCK FALSE
CONSTRAINT Bounded
