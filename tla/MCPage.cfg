SPECIFICATION PageSpec
CONSTANTS
  MaxHolds = 3
  MaxTimers = 3
  child = child  parent = parent  f = f
  Elem = {child, parent}
  Parent <- Chain
  Type = {"focus", "change"}
  Active = {"focus"}
  Func = {f}
  Namespace = {}
  MaxBound = 2
  MaxDepth = 3
  MaxQueued = 3
  MaxPromises = 2
  MaxMarks = 1
  MaxArrays = 3
  MaxChecks = 2
  Anim = {1, 2}
  ElemOf <- Owners
  Props = 2
  MaxCalls = 2
  MaxRequested = 2
INVARIANTS PageTypes Counted Listening AttendedOnce
PROPERTIES AllRun
CHECK_DEADLOCK FALSE
