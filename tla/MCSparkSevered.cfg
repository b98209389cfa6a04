CONSTANTS
  Machine = {"master", "work1", "work2"}
  Hub = "master"
  Entry = {}
  HostList <- Both
  Shell = {"a"}
  Scripts = {"start_all", "stop_wait"}
  Console = {}
  MaxInstances = 1
  Foreground = {}
  Faults = {"sever"}
  MaxRuns = 2
  MaxFaults = 1
  MaxEdits = 0
SPECIFICATION Spec
INVARIANT AnnouncedTrue
CHECK_DEADLOCK FALSE
