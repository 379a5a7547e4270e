\* A scene that failed and was rendered again is accepted early.
SPECIFICATION LiveSpec
CONSTANTS
  NumScenes = 1
  MaxJobs = 2
  MaxRevision = 1
  MaxFaults = 0
  Command = {"accept", "reject", "cancel"}
  Revised = {}
  Fault = {"failure"}
PROPERTIES AcceptedRunIsAssembledLater
CHECK_DEADLOCK FALSE
