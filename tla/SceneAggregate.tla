--------------------------- MODULE SceneAggregate ---------------------------
(***************************************************************************)
(* The Scene aggregate: what each method does to one scene, as a guard     *)
(* (the method does not throw) and a result.  A scene is a record; a field *)
(* that the code leaves undefined is None.  Of a candidate or shot plan    *)
(* only what the rules look at is kept: which shot plan, and the revision  *)
(* of the scene the selection was made for.  Left out: the configuration   *)
(* itself, the routing mode, names and timestamps.                         *)
(***************************************************************************)
EXTENDS Naturals

None == 0

Terminal == {"completed", "cancelled"}
InProduction == {"queued", "rendering", "qa"}
Status == {"draft_pending", "generating_candidates", "director_review", "approved",
           "failed"} \cup InProduction \cup Terminal

SceneRecord ==
  [status : Status,
   failedFrom : Status \cup {"none"},
   revision : Nat,              \* specRevision
   lease : Nat,                 \* activePlanningRunId
   candidate : Nat,             \* selectedCandidateRevision
   plan : Nat,                  \* selectedShotPlanId
   planRevision : Nat,          \* selectedShotPlanRevision
   approvedPlan : Nat,          \* approvedShotPlanId
   approvedPlanRevision : Nat,  \* approvedShotPlanRevision
   approval : Nat,              \* approval.revision
   job : Nat,                   \* activeProductionJobId
   ordinal : Nat,               \* productionAttemptOrdinal
   accepted : Nat]              \* acceptedProductionAttemptId

NewScene ==
  [status |-> "draft_pending", failedFrom |-> "none", revision |-> 1, lease |-> None,
   candidate |-> None, plan |-> None, planRevision |-> None,
   approvedPlan |-> None, approvedPlanRevision |-> None, approval |-> None,
   job |-> None, ordinal |-> 0, accepted |-> None]

\* Leaving "failed" forgets where the failure came from.
MovedTo(s, to) ==
  [s EXCEPT !.status = to,
            !.failedFrom = IF s.status = "failed" THEN "none" ELSE @]

WithoutApprovedPlan(s) ==
  [s EXCEPT !.approvedPlan = None, !.approvedPlanRevision = None]

WithoutApproval(s) == [WithoutApprovedPlan(s) EXCEPT !.approval = None]

WithoutSelectionKeepingApproved(s) ==
  [s EXCEPT !.candidate = None, !.plan = None, !.planRevision = None]

WithoutSelection(s) ==
  [WithoutApprovedPlan(s) EXCEPT !.candidate = None, !.plan = None, !.planRevision = None]
-----------------------------------------------------------------------------
\* Configuration edits: prompt, references, engine, duration, allocation, LoRA.
MayEdit(s) == s.status \in {"draft_pending", "director_review", "approved"}

Edited(s) ==
  [WithoutSelection(s) EXCEPT
     !.revision = @ + 1,
     !.status = IF @ = "approved" THEN "director_review" ELSE @,
     !.approval = IF s.status = "approved" THEN None ELSE @]

MayGenerate(s) == s.status \in {"draft_pending", "director_review", "generating_candidates"}

\* run is the planner that takes the scene, None for plain candidate jobs,
\* which leave a lease that is already there.
Generating(s, run) ==
  [MovedTo(s, "generating_candidates") EXCEPT !.lease = IF run = None THEN @ ELSE run]

MaySubmitForReview(s) == s.status = "generating_candidates"
SubmittedForReview(s) == [MovedTo(s, "director_review") EXCEPT !.lease = None]

PlanningCleared(s) == [s EXCEPT !.lease = None]

MaySelect(s, rev) == s.status = "director_review" /\ rev = s.revision
CandidateSelected(s, rev) == [s EXCEPT !.candidate = rev]
PlanSelected(s, p, rev) == [s EXCEPT !.plan = p, !.planRevision = rev]

HasValidCandidate(s) == s.candidate # None /\ s.candidate = s.revision
HasValidPlan(s) == s.plan # None /\ s.planRevision = s.revision

MayApprove(s) ==
  /\ s.status = "director_review"
  /\ HasValidCandidate(s) \/ HasValidPlan(s)

Approved(s) ==
  LET t == [MovedTo(s, "approved") EXCEPT !.approval = s.revision]
  IN IF HasValidPlan(s)
     THEN [t EXCEPT !.approvedPlan = s.plan, !.approvedPlanRevision = s.revision]
     ELSE t

MayApprovePlan(s, p) == s.status = "director_review" /\ HasValidPlan(s) /\ p = s.plan

PlanApproved(s, p) ==
  [MovedTo(s, "approved") EXCEPT
     !.approval = s.revision, !.approvedPlan = p, !.approvedPlanRevision = s.revision]

\* A new shot plan for the same revision, the candidate selection survives.
MayReroll(s) == s.status = "director_review"

PlanRerolled(s, run) ==
  [WithoutApprovedPlan(MovedTo(s, "generating_candidates")) EXCEPT
     !.plan = None, !.planRevision = None,
     !.lease = IF run = None THEN @ ELSE run]

\* New candidates: a new revision.
Rerolled(s) ==
  [WithoutSelection(MovedTo(s, "generating_candidates")) EXCEPT !.revision = @ + 1]

\* A method that never throws: it changes approved scenes only.
ApprovalInvalidated(s) ==
  IF s.status = "approved" THEN WithoutApproval(MovedTo(s, "director_review")) ELSE s
-----------------------------------------------------------------------------
\* Production.
Recoverable(s) ==
  /\ s.status = "failed"
  /\ s.failedFrom \in InProduction
  /\ s.approval # None /\ s.approval = s.revision

MayQueue(s) == s.status = "approved" \/ Recoverable(s)

\* Queued is also the result of requestProductionRerender.
Queued(s, j) == [MovedTo(s, "queued") EXCEPT !.job = j, !.ordinal = @ + 1]

MayStart(s) == s.status = "queued"
MaySubmitForQA(s) == s.status = "rendering"
InQA(s) == s.status = "qa"

MayAccept(s) == InQA(s) /\ s.accepted = None
Accepted(s, attempt) == [MovedTo(s, "completed") EXCEPT !.accepted = attempt]

\* rejectQA and recoverToReview go back to review with everything that
\* was decided after the selection taken back.
MayRecover(s) == s.status = "failed"
BackInReviewApproved(s) ==
  [WithoutApprovedPlan(MovedTo(s, "director_review")) EXCEPT !.job = None]
BackInReviewWithJob(s) == WithoutApproval(MovedTo(s, "director_review"))

BackInReview(s) == [WithoutApproval(MovedTo(s, "director_review")) EXCEPT !.job = None]

MayFail(s) == s.status \in {"generating_candidates"} \cup InProduction

Failed(s) == [s EXCEPT !.status = "failed", !.failedFrom = s.status, !.lease = None]

MayCancel(s) == s.status \notin Terminal \cup {"qa"}
Cancelled(s) == [MovedTo(s, "cancelled") EXCEPT !.job = None, !.lease = None]
=============================================================================
