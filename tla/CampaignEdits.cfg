SPECIFICATION Spec
CONSTANTS
  SceneId = {1, 2}
  Session = {s1, s2}
  Action = {a1, a2, a3}
  MaxRevision = 2
  MaxRequests = 3
SYMMETRY SessionsAndActions
INVARIANTS AllApprovedMeansDispatched RunIsWhatWasApproved AnswerIsTrue
  OnlyReferenceChangesDeadlock
