\* Three revisions, three attempts, two plans, two planners.
SPECIFICATION Spec
CONSTANTS
  ShotPlan = {1, 2}
  PlanningRun = {1, 2}
  MaxRevision = 3
  MaxOrdinal = 3
INVARIANTS ApprovalIsCurrent ApprovedPlanIsSelected JobMatchesAttempt
