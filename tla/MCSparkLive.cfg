CONSTANTS
  Machine = {"master", "work1"}
  Hub = "master"
  Entry = {"work1"}
  HostList <- WorkAndHub
  Shell = {"a"}
  Scripts = {"start_all", "stop_all", "stop_wait"}
  Console = {}
  MaxInstances = 2
  Foreground = {}
  Faults = {"crash", "sever", "off"}
  MaxRuns = 2
  MaxFaults = 1
  MaxEdits = 1
SPECIFICATION FairSpec
PROPERTY ScriptsEnd
CHECK_DEADLOCK FALSE
