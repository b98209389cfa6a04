CONSTANTS
  Machine = {"master", "work1", "work2"}
  Hub = "master"
  Entry = {"work1"}
  HostList <- TwiceListed
  Shell = {"a"}
  Scripts = {"start_all", "stop_all", "stop_wait"}
  Console = {"work1"}
  MaxInstances = 2
  Foreground = {}
  Faults = {"crash", "sever", "off"}
  MaxRuns = 2
  MaxFaults = 1
  MaxEdits = 1
SPECIFICATION Spec
INVARIANTS TypeOK WorkersFirst AnnouncedGone
CHECK_DEADLOCK FALSE
