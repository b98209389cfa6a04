CONSTANTS
  Machine = {"master", "work1"}
  Hub = "master"
  Entry = {"work1"}
  HostList <- WorkAndHub
  Shell = {"a", "b"}
  Scripts = {"start_all", "stop_wait", "stop_master"}
  Console = {}
  MaxInstances = 2
  Foreground = {"b"}
  Faults = {"off"}
  MaxRuns = 2
  MaxFaults = 1
  MaxEdits = 0
SPECIFICATION Spec
INVARIANT Orderly
CHECK_DEADLOCK FALSE
