\* Three requests in two processes, two revisions, two candidate jobs at a time.
SPECIFICATION Spec
CONSTANTS
  Instance = {i1, i2}
  MaxRequest = 3
  MaxRevision = 2
  MaxJobs = 2
  MaxRerolls = 1
INVARIANTS
  OneLiveBatch SelectedPlanIsLive ProducedPlanIsApproved
PROPERTIES
  LeaseEnds BatchIsReviewed
CHECK_DEADLOCK FALSE
