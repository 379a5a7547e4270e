\* Two scenes, three attempts, one scene edited between them, one fault of any kind,
\* and commands that overtake follow-ups.
SPECIFICATION Spec
CONSTANTS
  NumScenes = 2
  MaxJobs = 3
  MaxRevision = 2
  MaxFaults = 1
  Command = {"accept", "reject", "cancel"}
  Revised = {1}
  Fault = {"failure", "loss", "death", "retry", "overtake"}
INVARIANTS  ReviewedAttemptIsRendered
  OnlyAcceptedIsAssembled AcceptedRunIsAssembled
PROPERTIES OnlyCurrentFailureFailsRun
CHECK_DEADLOCK FALSE
