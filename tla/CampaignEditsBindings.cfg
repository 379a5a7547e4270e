SPECIFICATION Spec
CONSTANTS
  SceneId = {1, 2}
  Session = {s1, s2}
  Action = {a1, a2}
  MaxRevision = 2
  MaxRequests = 2
SYMMETRY SessionsAndActions
INVARIANTS BindingsFollowEdits
