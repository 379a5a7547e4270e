\* One job and two workers on one machine: one can be told to stop, one dies in
\* the middle of a job, the storage refuses once.
SPECIFICATION FairSpec
CONSTANTS
  Job = {1}
  Conditioned = {1}
  Worker = {w1, w2}
  Stoppable = {w2}
  MaxDefers = 1
  MaxCrashes = 1
  MaxRetries <- MCMaxRetries
  Serves <- MCServes
  HostOf <- MCHostOf
INVARIANTS CompletedJobHasItsMedia ImageIsLostToAnotherAttempt
PROPERTIES JobSettles WorkerStops
