SPECIFICATION Spec
CONSTANTS
    Claim = {1}
    Evidence = {1, 2}
    Session = {s1, s2}
    Action = {a1, a2}
    MaxLinks = 1
    MaxRevision = 2
    Cited = {1}
    MaxCommands = 3
SYMMETRY SessionsAndActions
INVARIANTS
    OnlyOriginsDeadlock
PROPERTIES
    ImplementsAuthority
    ApprovedAsSeen
    AppliedOnce
CHECK_DEADLOCK FALSE
