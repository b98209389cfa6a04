SPECIFICATION PageSpec
CONSTANTS
  MaxAdded = 5
  Arguments = 4
  Plain = {3}
  Value = {"given", "v", "w"}
  Given = "given"
  Links = 3
  Filters = {"none", "value", "promise", "throw"}
  Own = {1, 2}
  Node = {1, 2, 3, 4, 5}
  Page <- InAnother
  Made = {1, 2}
  Name = {"my-key", "myKey"}
  camelCase <- Camel
  Type = {"click"}
  MaxId = 4
  MaxData = 4
  NoNode = 0
  Animated <- Sliding
  MaxAnimated = 3
  Unset = "unset"
INVARIANTS PromiseTypes NothingLost Outcomes NodesRight
PROPERTIES IsPromise IsStore Follows
CHECK_DEADLOCK FALSE
