------------------------------- MODULE Scene -------------------------------
(***************************************************************************)
(* One scene under every sequence of method calls that its aggregate       *)
(* accepts, whichever use case makes them: what the rules of Scene alone   *)
(* guarantee.  Bounds: MaxRevision for the specification revision and      *)
(* MaxOrdinal for the production attempts.                                 *)
(***************************************************************************)
EXTENDS SceneAggregate

CONSTANTS
  ShotPlan,      \* the shot plans that can be selected
  PlanningRun,   \* the planning runs that can lease the scene
  MaxRevision, MaxOrdinal

ASSUME SceneConstants ==
  /\ ShotPlan \subseteq Nat \ {None}
  /\ PlanningRun \subseteq Nat \ {None}
  /\ MaxRevision \in Nat
  /\ MaxOrdinal \in Nat

VARIABLE scene

Init == scene = NewScene

UpdateConfiguration ==
  /\ MayEdit(scene) /\ scene.revision < MaxRevision
  /\ scene' = Edited(scene)

BeginCandidateGeneration ==
  /\ MayGenerate(scene)
  /\ \E run \in PlanningRun \cup {None} : scene' = Generating(scene, run)

SubmitCandidatesForReview ==
  MaySubmitForReview(scene) /\ scene' = SubmittedForReview(scene)

\* The planner gives its lease up without moving the scene.
ClearPlanningRun ==
  scene.lease # None /\ scene' = PlanningCleared(scene)

\* Candidates and plans of older revisions exist: the request names any.
SelectCandidate ==
  \E rev \in 1..MaxRevision :
    MaySelect(scene, rev) /\ scene' = CandidateSelected(scene, rev)

SelectShotPlan ==
  \E p \in ShotPlan, rev \in 1..MaxRevision :
    MaySelect(scene, rev) /\ scene' = PlanSelected(scene, p, rev)

Approve == MayApprove(scene) /\ scene' = Approved(scene)

ApproveShotPlan ==
  \E p \in ShotPlan : MayApprovePlan(scene, p) /\ scene' = PlanApproved(scene, p)

RerollShotPlan ==
  /\ MayReroll(scene)
  /\ \E run \in PlanningRun \cup {None} : scene' = PlanRerolled(scene, run)

RequestReroll ==
  /\ MayReroll(scene) /\ scene.revision < MaxRevision
  /\ scene' = Rerolled(scene)

InvalidateApproval == scene' = ApprovalInvalidated(scene)

\* Every attempt has a job of its own; this machine numbers them together.
QueueForProduction ==
  /\ MayQueue(scene) /\ scene.ordinal < MaxOrdinal
  /\ scene' = Queued(scene, scene.ordinal + 1)

RequestProductionRerender ==
  /\ InQA(scene) /\ scene.ordinal < MaxOrdinal
  /\ scene' = Queued(scene, scene.ordinal + 1)

StartRendering == MayStart(scene) /\ scene' = MovedTo(scene, "rendering")

SubmitForQA == MaySubmitForQA(scene) /\ scene' = MovedTo(scene, "qa")

AcceptProductionAttempt ==
  MayAccept(scene) /\ scene' = Accepted(scene, scene.ordinal)

\* The legacy acceptance, which records no attempt.
AcceptQA == InQA(scene) /\ scene' = MovedTo(scene, "completed")

RejectQA == InQA(scene) /\ scene' = BackInReview(scene)

Fail == MayFail(scene) /\ scene' = Failed(scene)

RecoverToReview == MayRecover(scene) /\ scene' = BackInReview(scene)

Cancel == MayCancel(scene) /\ scene' = Cancelled(scene)

Next ==
  \/ UpdateConfiguration \/ BeginCandidateGeneration \/ SubmitCandidatesForReview
  \/ ClearPlanningRun \/ SelectCandidate \/ SelectShotPlan \/ Approve
  \/ ApproveShotPlan \/ RerollShotPlan \/ RequestReroll \/ InvalidateApproval
  \/ QueueForProduction \/ RequestProductionRerender \/ StartRendering
  \/ SubmitForQA \/ AcceptProductionAttempt \/ AcceptQA \/ RejectQA
  \/ Fail \/ RecoverToReview \/ Cancel

Spec == Init /\ [][Next]_scene
-----------------------------------------------------------------------------
\* A scene is always one of the records of SceneRecord (the fields that
\* scene.ts keeps).
TypeOK == scene \in SceneRecord

\* An approval is of the revision that the scene has now, and a scene in
\* production, approved or accepted has one: nothing the director has not
\* approved is rendered, whatever edits, failures, rejections and
\* recoveries came between (approve, #updateConfiguration, rejectQA,
\* queueForProduction of scene.ts).
ApprovalIsCurrent ==
  /\ scene.approval \in {None, scene.revision}
  /\ scene.status \in {"approved", "completed"} \cup InProduction => scene.approval # None
  /\ scene.status \in {"draft_pending", "generating_candidates", "director_review"}
       => scene.approval = None

\* The shot plan that production would render is the one selected for the
\* present revision, and is there only under an approval (approveShotPlan,
\* selectShotPlan, rerollShotPlan and the resets of scene.ts).
ApprovedPlanIsSelected ==
  scene.approvedPlan # None =>
    /\ scene.approval # None
    /\ scene.approvedPlan = scene.plan
    /\ scene.approvedPlanRevision = scene.revision
    /\ scene.planRevision = scene.revision

\* A selection never outlives the revision it was made for.
SelectionIsCurrent ==
  /\ scene.candidate \in {None, scene.revision}
  /\ scene.plan # None => scene.planRevision = scene.revision

\* A planning lease is held only by a scene that is being planned, so that
\* a scene in review or production is never refused to its director.
LeaseOnlyWhilePlanning ==
  scene.lease # None => scene.status = "generating_candidates"

\* A scene that is being produced names the job of its latest attempt, a
\* scene in review or earlier names none: a job that was given up cannot
\* move it (activeProductionJobId of scene.ts).
JobMatchesAttempt ==
  /\ scene.status \in InProduction \cup {"completed"} => scene.job = scene.ordinal /\ scene.job # None
  /\ scene.status \in {"draft_pending", "generating_candidates", "director_review", "approved",
                       "cancelled"} => scene.job = None
  /\ scene.status = "failed" => (scene.failedFrom \in InProduction <=> scene.job # None)

\* An accepted attempt is the last one there will be.
AcceptedIsFinal ==
  scene.accepted # None => scene.status = "completed" /\ scene.accepted = scene.ordinal
=============================================================================
