CONSTANTS
  Machine = {"master", "work1", "work2"}
  Hub = "master"
  Entry = {}
  HostList <- Both
  Shell = {"a"}
  Scripts = {"start_all", "stop_all"}
  Console = {}
  MaxInstances = 2
  Foreground = {}
  Faults = {}
  MaxRuns = 2
  MaxFaults = 0
  MaxEdits = 1
SPECIFICATION Spec
INVARIANT StopsAllOnMachine
CHECK_DEADLOCK FALSE
