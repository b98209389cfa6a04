CONSTANTS
  Machine = {"master", "work1", "work2"}
  Hub = "master"
  Entry = {}
  HostList <- TwiceListed
  Shell = {"a"}
  Scripts = {"start_all", "stop_all", "stop_wait", "start_master", "stop_master", "start_workers", "stop_workers", "start_history", "stop_history"}
  Console = {}
  MaxInstances = 2
  Foreground = {}
  Faults = {}
  MaxRuns = 4
  MaxFaults = 0
  MaxEdits = 1
SPECIFICATION Spec
INVARIANT StartComplete
CHECK_DEADLOCK FALSE
