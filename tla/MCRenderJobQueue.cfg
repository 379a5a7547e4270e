\* Two candidate jobs that target one slot and a production job, two
\* claimers, the storage gate, one deferral per job.
SPECIFICATION Spec
CONSTANTS
  Job = {1, 2, 3}
  Worker = {w1, w2}
  MaxDefers = 1
  Kind <- MCKind
  Slot <- MCSlot
  MaxRetries <- MCMaxRetries
  Serves <- MCServes
INVARIANTS CandidatesAreCompletions FailedOnlyWhenHopeless ManifestsAreCompletions RetryBudget
PROPERTIES ImplementsLifecycle
