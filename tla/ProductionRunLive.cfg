\* Two scenes; a render fails, or a request is lost or repeated.
SPECIFICATION LiveSpec
CONSTANTS
  NumScenes = 2
  MaxJobs = 3
  MaxRevision = 1
  MaxFaults = 1
  Command = {}
  Revised = {}
  Fault = {"failure", "loss"}
PROPERTIES OutcomeReachesScene RunReachesReview
CHECK_DEADLOCK FALSE
