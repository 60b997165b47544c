SPECIFICATION AllSpec
CHECK_DEADLOCK FALSE
CONSTANTS
  Narrow <- MC_Narrow
  Word = 4
  Exact = 7
  Wide = 8
  ByteBits = 2
  Bounds = 1
INVARIANTS ProjectionIsRight MinimizedIsTight PresentationIsExact StoreAnswersAreCurrent DecisionsStand TheSameTable BytesCarryNumbers
PROPERTIES BoundariesAreRight
