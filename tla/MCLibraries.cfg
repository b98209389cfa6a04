SPECIFICATION PageSpec
CONSTANTS
  e1 = e1  e2 = e2  e3 = e3  e4 = e4  g1 = g1
  Element = {e1, e2, e3, e4}
  Group = {g1}
  Items <- MCItems
  None = None
  Shape = {e1, e2}
  Parts <- Pair
  Anim = {1, 2}
INVARIANTS LibraryTypes Linked Together Animated RightAnswers
PROPERTIES AnimationsEnd
CHECK_DEADLOCK FALSE
