SPECIFICATION FairSpec
CONSTANTS
  Worker = {w1, w2}
  Toolchain = {1, 2}
  MaxRetries = 1
  MaxLost = 1
INVARIANTS
  VideoHasItsManifest
  CompletedIsDelivered
  RunEndsAsItsJob
PROPERTIES
  ImplementsLifecycle
  JobSettles
  CompletionReachesRun
CHECK_DEADLOCK FALSE
