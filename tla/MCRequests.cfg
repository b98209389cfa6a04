SPECIFICATION PageSpec
CONSTANTS
  r1 = r1  r2 = r2  r3 = r3  r4 = r4  a = a  b = b  f = f  g = g
  Request = {r1, r2}
  Options <- AnyOptions
  MaxDepth = 5
  Scripts = {r1, r2, r3, r4}
  Name = {a, b, f, g}
  Page = {f, g}
  given <- GivenName
  Generated <- Counted
  cross <- CrossDomain
  Asked <- AskedValues
  Cors = FALSE
INVARIANTS RequestTypes Counter EndIsFinal RightValue JsonpApart
PROPERTIES TwoCourses
CHECK_DEADLOCK FALSE
