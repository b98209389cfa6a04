CONSTANTS
  Machine = {"master", "work1", "work2"}
  Hub = "master"
  Entry = {"work1", "work2"}
  HostList <- Localhost
  Shell = {"a"}
  Scripts = {"start_all", "stop_all"}
  Console = {}
  MaxInstances = 1
  Foreground = {}
  Faults = {}
  MaxRuns = 2
  MaxFaults = 0
  MaxEdits = 0
SPECIFICATION Spec
INVARIANT StopsAllDaemons
CHECK_DEADLOCK FALSE
