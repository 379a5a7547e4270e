---------------------------- MODULE SceneProofs ----------------------------
(***************************************************************************)
(* Proofs about Scene, for any set of shot plans and planners and any      *)
(* bounds.  SceneInv is inductive: the parts support each other (an        *)
(* approval stays current because an edit takes the selection with it, the *)
(* lease falls because only a planned scene has one).                      *)
(***************************************************************************)
EXTENDS Scene, TLAPS

SceneInv ==
  /\ TypeOK
  /\ ApprovalIsCurrent
  /\ ApprovedPlanIsSelected
  /\ SelectionIsCurrent
  /\ LeaseOnlyWhilePlanning
  /\ JobMatchesAttempt
  /\ AcceptedIsFinal
  /\ scene.failedFrom = "none" <=> scene.status # "failed"
  /\ scene.revision # 0

\* Updates that keep a scene record one: those of a new attempt ...
LEMMA AttemptUpdate ==
  ASSUME NEW t \in SceneRecord, NEW j \in Nat
  PROVE  [t EXCEPT !.job = j, !.ordinal = @ + 1] \in SceneRecord
<1>1. t.ordinal + 1 \in Nat
  BY DEF SceneRecord
<1> QED
  BY <1>1 DEF SceneRecord

\* ... and those of an edit.
LEMMA EditUpdate ==
  ASSUME NEW t \in SceneRecord, NEW st \in Status, NEW a \in Nat
  PROVE  [t EXCEPT !.revision = @ + 1, !.status = st, !.approval = a] \in SceneRecord
<1>1. t.revision + 1 \in Nat
  BY DEF SceneRecord
<1> QED
  BY <1>1 DEF SceneRecord

\* ... those of a lease, ...
LEMMA LeaseUpdate ==
  ASSUME NEW t \in SceneRecord, NEW l \in Nat
  PROVE  [t EXCEPT !.lease = l] \in SceneRecord
  BY DEF SceneRecord

\* ... those of a plan, ...
LEMMA PlanUpdate ==
  ASSUME NEW t \in SceneRecord, NEW p \in Nat, NEW rev \in Nat
  PROVE  /\ [t EXCEPT !.plan = p, !.planRevision = rev] \in SceneRecord
         /\ [t EXCEPT !.approvedPlan = p, !.approvedPlanRevision = rev] \in SceneRecord
  BY DEF SceneRecord

\* ... those of a cancellation ...
LEMMA CancelUpdate ==
  ASSUME NEW t \in SceneRecord
  PROVE  LET u == [t EXCEPT !.job = None, !.lease = None]
         IN  /\ u \in SceneRecord
             /\ u.status = t.status /\ u.failedFrom = t.failedFrom
             /\ u.revision = t.revision /\ u.candidate = t.candidate
             /\ u.plan = t.plan /\ u.planRevision = t.planRevision
             /\ u.approvedPlan = t.approvedPlan
             /\ u.approvedPlanRevision = t.approvedPlanRevision
             /\ u.approval = t.approval /\ u.ordinal = t.ordinal
             /\ u.accepted = t.accepted /\ u.job = None /\ u.lease = None
  BY DEF SceneRecord, None

\* ... and a move.
LEMMA Move ==
  ASSUME NEW t \in SceneRecord, NEW to \in Status
  PROVE  MovedTo(t, to) \in SceneRecord
<1> DEFINE from == IF t.status = "failed" THEN "none" ELSE t.failedFrom
<1>1. from \in Status \cup {"none"}
  BY DEF SceneRecord
<1>2. MovedTo(t, to) = [t EXCEPT !.status = to, !.failedFrom = from]
  <2>1. [t EXCEPT !.status = to].failedFrom = t.failedFrom
    BY DEF SceneRecord
  <2> QED
    BY <2>1 DEF MovedTo
<1> HIDE DEF from
<1> QED
  BY <1>1, <1>2 DEF SceneRecord

\* Whoever sends a scene back to review takes its approval and job back.
LEMMA ReturnToReview ==
  ASSUME NEW t \in SceneRecord
  PROVE  LET u == BackInReview(t)
         IN  /\ u \in SceneRecord
             /\ u.status = "director_review" /\ u.job = None
             /\ u.failedFrom = IF t.status = "failed" THEN "none" ELSE t.failedFrom
             /\ u.approval = None /\ u.approvedPlan = None /\ u.approvedPlanRevision = None
             /\ u.revision = t.revision /\ u.lease = t.lease
             /\ u.candidate = t.candidate /\ u.plan = t.plan
             /\ u.planRevision = t.planRevision
             /\ u.ordinal = t.ordinal /\ u.accepted = t.accepted
<1> DEFINE m == MovedTo(t, "director_review")
           w == [m EXCEPT !.approvedPlan = None, !.approvedPlanRevision = None]
           a == [w EXCEPT !.approval = None]
<1>1. m \in SceneRecord
  BY Move DEF Status
<1>2. /\ m.status = "director_review"
      /\ m.failedFrom = IF t.status = "failed" THEN "none" ELSE t.failedFrom
      /\ m.revision = t.revision /\ m.lease = t.lease
      /\ m.candidate = t.candidate /\ m.plan = t.plan /\ m.planRevision = t.planRevision
      /\ m.ordinal = t.ordinal /\ m.accepted = t.accepted
  BY DEF MovedTo, SceneRecord
<1>3. BackInReview(t) = [a EXCEPT !.job = None]
  BY DEF BackInReview, WithoutApproval, WithoutApprovedPlan
<1> HIDE DEF m
<1>4. [a EXCEPT !.job = None] \in SceneRecord
  BY <1>1 DEF SceneRecord, None
<1> QED
  BY <1>1, <1>2, <1>3, <1>4 DEF SceneRecord

\* A new scene satisfies the invariant (Scene.create).
LEMMA InitInv == Init => SceneInv
  BY DEF Init, NewScene, SceneInv, TypeOK, SceneRecord, Status, InProduction, Terminal, None,
         ApprovalIsCurrent, ApprovedPlanIsSelected, SelectionIsCurrent,
         LeaseOnlyWhilePlanning, JobMatchesAttempt, AcceptedIsFinal

\* Every method that its guard admits keeps the invariant.
LEMMA NextInv == SceneInv /\ [Next]_scene => SceneInv'
<1> SUFFICES ASSUME SceneInv, [Next]_scene PROVE SceneInv'
  OBVIOUS
<1> USE SceneConstants
    DEF SceneInv, TypeOK, SceneRecord, Status, InProduction, Terminal, None,
        ApprovalIsCurrent, ApprovedPlanIsSelected, SelectionIsCurrent,
        LeaseOnlyWhilePlanning, JobMatchesAttempt, AcceptedIsFinal, MovedTo
<1>1. CASE UpdateConfiguration
  <2>1. scene.status \in {"draft_pending", "director_review", "approved"}
    BY <1>1 DEF UpdateConfiguration, MayEdit, Edited, WithoutSelection, WithoutApprovedPlan
  <2>2. scene' \in SceneRecord
    <3> DEFINE t == WithoutSelection(scene)
    <3>1. t \in SceneRecord
      BY DEF WithoutSelection, WithoutApprovedPlan
    <3>2. scene' = [t EXCEPT !.revision = @ + 1,
                            !.status = IF @ = "approved" THEN "director_review" ELSE @,
                            !.approval = IF scene.status = "approved" THEN None ELSE @]
      BY <1>1 DEF UpdateConfiguration, MayEdit, Edited, WithoutSelection, WithoutApprovedPlan
    <3>3. t.status = scene.status
      BY DEF WithoutSelection, WithoutApprovedPlan
    <3>4. /\ (IF t.status = "approved" THEN "director_review" ELSE t.status) \in Status
          /\ (IF scene.status = "approved" THEN None ELSE t.approval) \in Nat
      BY <3>1
    <3> HIDE DEF t, SceneRecord, Status
    <3> QED
      BY <3>1, <3>2, <3>4, EditUpdate
  <2>3. /\ scene'.status = IF scene.status = "approved" THEN "director_review" ELSE scene.status
        /\ scene'.failedFrom = scene.failedFrom
        /\ scene'.revision = scene.revision + 1
        /\ scene'.lease = scene.lease
        /\ scene'.candidate = None
        /\ scene'.plan = None
        /\ scene'.planRevision = None
        /\ scene'.approvedPlan = None
        /\ scene'.approvedPlanRevision = None
        /\ scene'.approval = IF scene.status = "approved" THEN None ELSE scene.approval
        /\ scene'.job = scene.job
        /\ scene'.ordinal = scene.ordinal
        /\ scene'.accepted = scene.accepted
    BY <1>1 DEF UpdateConfiguration, MayEdit, Edited, WithoutSelection, WithoutApprovedPlan
  <2> QED
    BY <2>1, <2>2, <2>3
<1>2. CASE BeginCandidateGeneration
  <2>1. PICK run \in PlanningRun \cup {None} : MayGenerate(scene) /\ scene' = Generating(scene, run)
    BY <1>2 DEF BeginCandidateGeneration, MayGenerate, Generating
  <2>2. scene.status \in {"draft_pending", "director_review", "generating_candidates"}
    BY <2>1 DEF BeginCandidateGeneration, MayGenerate, Generating
  <2>3. scene' \in SceneRecord
    <3> DEFINE t == MovedTo(scene, "generating_candidates")
               l == IF run = None THEN scene.lease ELSE run
    <3>1. t \in SceneRecord /\ t.lease = scene.lease /\ l \in Nat
      OBVIOUS
    <3>2. scene' = [t EXCEPT !.lease = l]
      BY <2>1, <3>1 DEF Generating
    <3> HIDE DEF t, l, SceneRecord
    <3> QED
      BY <3>1, <3>2, LeaseUpdate
  <2>4. /\ scene'.status = "generating_candidates"
        /\ scene'.failedFrom = scene.failedFrom
        /\ scene'.revision = scene.revision
        /\ scene'.lease = IF run = None THEN scene.lease ELSE run
        /\ scene'.candidate = scene.candidate
        /\ scene'.plan = scene.plan
        /\ scene'.planRevision = scene.planRevision
        /\ scene'.approvedPlan = scene.approvedPlan
        /\ scene'.approvedPlanRevision = scene.approvedPlanRevision
        /\ scene'.approval = scene.approval
        /\ scene'.job = scene.job
        /\ scene'.ordinal = scene.ordinal
        /\ scene'.accepted = scene.accepted
    BY <2>1 DEF BeginCandidateGeneration, MayGenerate, Generating
  <2> QED
    BY <2>2, <2>3, <2>4, <2>1
<1>3. CASE SubmitCandidatesForReview
  BY <1>3 DEF SubmitCandidatesForReview, MaySubmitForReview, SubmittedForReview
<1>4. CASE ClearPlanningRun
  BY <1>4 DEF ClearPlanningRun, PlanningCleared
<1>5. CASE SelectCandidate
  BY <1>5 DEF SelectCandidate, MaySelect, CandidateSelected
<1>6. CASE SelectShotPlan
  <2>1. PICK p \in ShotPlan, rev \in 1..MaxRevision :
          MaySelect(scene, rev) /\ scene' = PlanSelected(scene, p, rev)
    BY <1>6 DEF SelectShotPlan
  <2>2. p \in Nat /\ rev \in Nat /\ scene.status = "director_review" /\ rev = scene.revision
    BY <2>1 DEF MaySelect
  <2>3. scene' = [scene EXCEPT !.plan = p, !.planRevision = rev]
    BY <2>1 DEF PlanSelected
  <2>4. scene' \in SceneRecord
    <3> HIDE DEF SceneRecord
    <3> QED
      BY <2>2, <2>3, PlanUpdate
  <2>5. /\ scene'.plan = p /\ scene'.planRevision = rev /\ scene'.status = scene.status
        /\ scene'.failedFrom = scene.failedFrom /\ scene'.revision = scene.revision
        /\ scene'.lease = scene.lease /\ scene'.candidate = scene.candidate
        /\ scene'.approvedPlan = scene.approvedPlan
        /\ scene'.approvedPlanRevision = scene.approvedPlanRevision
        /\ scene'.approval = scene.approval /\ scene'.job = scene.job
        /\ scene'.ordinal = scene.ordinal /\ scene'.accepted = scene.accepted
    BY <2>3
  <2> QED
    BY <2>2, <2>4, <2>5
<1>7. CASE Approve
  BY <1>7 DEF Approve, MayApprove, Approved, HasValidCandidate, HasValidPlan
<1>8. CASE ApproveShotPlan
  <2>1. PICK p \in ShotPlan : MayApprovePlan(scene, p) /\ scene' = PlanApproved(scene, p)
    BY <1>8 DEF ApproveShotPlan, MayApprovePlan, PlanApproved, HasValidPlan
  <2>2. scene.status = "director_review" /\ scene.plan = p /\ scene.planRevision = scene.revision
    BY <2>1 DEF ApproveShotPlan, MayApprovePlan, PlanApproved, HasValidPlan
  <2>3. scene' \in SceneRecord
    <3> DEFINE t == [MovedTo(scene, "approved") EXCEPT !.approval = scene.revision]
    <3>1. t \in SceneRecord /\ p \in Nat /\ scene.revision \in Nat
      OBVIOUS
    <3>2. scene' = [t EXCEPT !.approvedPlan = p, !.approvedPlanRevision = scene.revision]
      BY <2>1 DEF PlanApproved
    <3> HIDE DEF t, SceneRecord
    <3> QED
      BY <3>1, <3>2, PlanUpdate
  <2>4. /\ scene'.status = "approved"
        /\ scene'.failedFrom = scene.failedFrom
        /\ scene'.revision = scene.revision
        /\ scene'.lease = scene.lease
        /\ scene'.candidate = scene.candidate
        /\ scene'.plan = scene.plan
        /\ scene'.planRevision = scene.planRevision
        /\ scene'.approvedPlan = p
        /\ scene'.approvedPlanRevision = scene.revision
        /\ scene'.approval = scene.revision
        /\ scene'.job = scene.job
        /\ scene'.ordinal = scene.ordinal
        /\ scene'.accepted = scene.accepted
    BY <2>1 DEF ApproveShotPlan, MayApprovePlan, PlanApproved, HasValidPlan
  <2> QED
    BY <2>2, <2>3, <2>4, <2>1
<1>9. CASE RerollShotPlan
  <2>1. PICK run \in PlanningRun \cup {None} : MayReroll(scene) /\ scene' = PlanRerolled(scene, run)
    BY <1>9 DEF RerollShotPlan, MayReroll, PlanRerolled, WithoutApprovedPlan
  <2>2. scene.status = "director_review"
    BY <2>1 DEF RerollShotPlan, MayReroll, PlanRerolled, WithoutApprovedPlan
  <2>3. scene' \in SceneRecord
    <3> DEFINE t == WithoutApprovedPlan(MovedTo(scene, "generating_candidates"))
    <3>1. t \in SceneRecord
      BY DEF WithoutApprovedPlan
    <3>2. scene' = [t EXCEPT !.plan = None, !.planRevision = None,
                            !.lease = IF run = None THEN @ ELSE run]
      BY <2>1 DEF RerollShotPlan, MayReroll, PlanRerolled, WithoutApprovedPlan
    <3>3. t.lease = scene.lease
      BY DEF WithoutApprovedPlan
    <3> DEFINE u == [t EXCEPT !.plan = None, !.planRevision = None]
               l == IF run = None THEN scene.lease ELSE run
    <3> HIDE DEF t
    <3>4. u \in SceneRecord
      <4> HIDE DEF SceneRecord
      <4> QED
        BY <3>1, PlanUpdate
    <3>5. l \in Nat /\ u.lease = scene.lease
      BY <3>1, <3>3
    <3>6. scene' = [u EXCEPT !.lease = l]
      BY <3>2, <3>5
    <3> HIDE DEF u, l, SceneRecord
    <3> QED
      BY <3>4, <3>5, <3>6, LeaseUpdate
  <2>4. /\ scene'.status = "generating_candidates"
        /\ scene'.failedFrom = scene.failedFrom
        /\ scene'.revision = scene.revision
        /\ scene'.lease = IF run = None THEN scene.lease ELSE run
        /\ scene'.candidate = scene.candidate
        /\ scene'.plan = None
        /\ scene'.planRevision = None
        /\ scene'.approvedPlan = None
        /\ scene'.approvedPlanRevision = None
        /\ scene'.approval = scene.approval
        /\ scene'.job = scene.job
        /\ scene'.ordinal = scene.ordinal
        /\ scene'.accepted = scene.accepted
    BY <2>1 DEF RerollShotPlan, MayReroll, PlanRerolled, WithoutApprovedPlan
  <2> QED
    BY <2>2, <2>3, <2>4, <2>1
<1>10. CASE RequestReroll
  <2>1. scene.status = "director_review"
    BY <1>10 DEF RequestReroll, MayReroll, Rerolled, WithoutSelection, WithoutApprovedPlan
  <2>2. scene' \in SceneRecord
    <3> DEFINE t == WithoutSelection(MovedTo(scene, "generating_candidates"))
    <3>1. t \in SceneRecord
      BY DEF WithoutSelection, WithoutApprovedPlan
    <3>2. scene' = [t EXCEPT !.revision = @ + 1]
      BY <1>10 DEF RequestReroll, MayReroll, Rerolled, WithoutSelection, WithoutApprovedPlan
    <3>3. t.revision = scene.revision
      BY DEF WithoutSelection, WithoutApprovedPlan
    <3> HIDE DEF t
    <3> QED
      BY <3>1, <3>2, <3>3, <2>1
  <2>3. /\ scene'.status = "generating_candidates"
        /\ scene'.failedFrom = scene.failedFrom
        /\ scene'.revision = scene.revision + 1
        /\ scene'.lease = scene.lease
        /\ scene'.candidate = None
        /\ scene'.plan = None
        /\ scene'.planRevision = None
        /\ scene'.approvedPlan = None
        /\ scene'.approvedPlanRevision = None
        /\ scene'.approval = scene.approval
        /\ scene'.job = scene.job
        /\ scene'.ordinal = scene.ordinal
        /\ scene'.accepted = scene.accepted
    BY <1>10 DEF RequestReroll, MayReroll, Rerolled, WithoutSelection, WithoutApprovedPlan
  <2> QED
    BY <2>1, <2>2, <2>3
<1>11. CASE InvalidateApproval
  BY <1>11 DEF InvalidateApproval, ApprovalInvalidated, WithoutApproval, WithoutApprovedPlan
<1>12. CASE QueueForProduction
  <2>1. scene.status \in {"approved", "failed"} /\ scene.approval = scene.revision
    BY <1>12 DEF QueueForProduction, MayQueue, Recoverable, Queued
  <2>2. scene' \in SceneRecord
    <3> DEFINE t == MovedTo(scene, "queued")
    <3>1. t \in SceneRecord
      BY DEF MovedTo
    <3>2. scene' = [t EXCEPT !.job = scene.ordinal + 1, !.ordinal = @ + 1]
      BY <1>12 DEF QueueForProduction, MayQueue, Recoverable, Queued
    <3>3. t.ordinal = scene.ordinal
      BY DEF MovedTo
    <3>4. scene.ordinal + 1 \in Nat
      OBVIOUS
    <3> HIDE DEF t, SceneRecord
    <3> QED
      BY <3>1, <3>2, <3>4, AttemptUpdate
  <2>3. /\ scene'.status = "queued"
        /\ scene'.failedFrom = IF scene.status = "failed" THEN "none" ELSE scene.failedFrom
        /\ scene'.revision = scene.revision
        /\ scene'.lease = scene.lease
        /\ scene'.candidate = scene.candidate
        /\ scene'.plan = scene.plan
        /\ scene'.planRevision = scene.planRevision
        /\ scene'.approvedPlan = scene.approvedPlan
        /\ scene'.approvedPlanRevision = scene.approvedPlanRevision
        /\ scene'.approval = scene.approval
        /\ scene'.job = scene.ordinal + 1
        /\ scene'.ordinal = scene.ordinal + 1
        /\ scene'.accepted = scene.accepted
    BY <1>12 DEF QueueForProduction, MayQueue, Recoverable, Queued
  <2> QED
    BY <2>1, <2>2, <2>3
<1>13. CASE RequestProductionRerender
  <2>1. scene.status = "qa"
    BY <1>13 DEF RequestProductionRerender, InQA, Queued
  <2>2. scene' \in SceneRecord
    <3> DEFINE t == MovedTo(scene, "queued")
    <3>1. t \in SceneRecord
      BY DEF MovedTo
    <3>2. scene' = [t EXCEPT !.job = scene.ordinal + 1, !.ordinal = @ + 1]
      BY <1>13 DEF RequestProductionRerender, InQA, Queued
    <3>3. t.ordinal = scene.ordinal
      BY DEF MovedTo
    <3>4. scene.ordinal + 1 \in Nat
      OBVIOUS
    <3> HIDE DEF t, SceneRecord
    <3> QED
      BY <3>1, <3>2, <3>4, AttemptUpdate
  <2>3. /\ scene'.status = "queued"
        /\ scene'.failedFrom = IF scene.status = "failed" THEN "none" ELSE scene.failedFrom
        /\ scene'.revision = scene.revision
        /\ scene'.lease = scene.lease
        /\ scene'.candidate = scene.candidate
        /\ scene'.plan = scene.plan
        /\ scene'.planRevision = scene.planRevision
        /\ scene'.approvedPlan = scene.approvedPlan
        /\ scene'.approvedPlanRevision = scene.approvedPlanRevision
        /\ scene'.approval = scene.approval
        /\ scene'.job = scene.ordinal + 1
        /\ scene'.ordinal = scene.ordinal + 1
        /\ scene'.accepted = scene.accepted
    BY <1>13 DEF RequestProductionRerender, InQA, Queued
  <2> QED
    BY <2>1, <2>2, <2>3
<1>14. CASE StartRendering
  BY <1>14 DEF StartRendering, MayStart
<1>15. CASE SubmitForQA
  BY <1>15 DEF SubmitForQA, MaySubmitForQA
<1>16. CASE AcceptProductionAttempt
  BY <1>16 DEF AcceptProductionAttempt, MayAccept, InQA, Accepted
<1>17. CASE AcceptQA
  BY <1>17 DEF AcceptQA, InQA
<1>18. CASE RejectQA
  <2>1. scene' = BackInReview(scene) /\ scene.status = "qa"
    BY <1>18 DEF RejectQA, InQA
  <2> QED
    BY <2>1, ReturnToReview
<1>19. CASE Fail
  BY <1>19 DEF Fail, MayFail, Failed
<1>20. CASE RecoverToReview
  <2>1. scene' = BackInReview(scene) /\ scene.status = "failed"
    BY <1>20 DEF RecoverToReview, MayRecover
  <2> QED
    BY <2>1, ReturnToReview
<1>21. CASE Cancel
  <2> DEFINE t == MovedTo(scene, "cancelled")
  <2>1. t \in SceneRecord
    OBVIOUS
  <2>2. /\ t.status = "cancelled" /\ t.failedFrom = IF scene.status = "failed" THEN "none" ELSE scene.failedFrom
        /\ t.revision = scene.revision /\ t.candidate = scene.candidate
        /\ t.plan = scene.plan /\ t.planRevision = scene.planRevision
        /\ t.approvedPlan = scene.approvedPlan
        /\ t.approvedPlanRevision = scene.approvedPlanRevision
        /\ t.approval = scene.approval /\ t.ordinal = scene.ordinal /\ t.accepted = scene.accepted
    OBVIOUS
  <2>3. scene' = [t EXCEPT !.job = None, !.lease = None]
        /\ scene.status \notin {"completed", "cancelled", "qa"}
    BY <1>21 DEF Cancel, MayCancel, Cancelled
  <2> HIDE DEF t
  <2>4. scene' \in SceneRecord
    <3> HIDE DEF SceneRecord
    <3> QED
      BY <2>1, <2>3, CancelUpdate
  <2>5. /\ scene'.status = t.status /\ scene'.failedFrom = t.failedFrom
        /\ scene'.revision = t.revision /\ scene'.candidate = t.candidate
        /\ scene'.plan = t.plan /\ scene'.planRevision = t.planRevision
        /\ scene'.approvedPlan = t.approvedPlan
        /\ scene'.approvedPlanRevision = t.approvedPlanRevision
        /\ scene'.approval = t.approval /\ scene'.ordinal = t.ordinal
        /\ scene'.accepted = t.accepted /\ scene'.job = None /\ scene'.lease = None
    <3> HIDE DEF SceneRecord
    <3> QED
      BY <2>1, <2>3, CancelUpdate
  <2>6. scene.accepted = None
    <3>1. scene.status # "completed"
      BY <2>3
    <3> HIDE DEF SceneRecord, JobMatchesAttempt
    <3> QED
      BY <3>1
  <2> QED
    <3> HIDE DEF SceneRecord
    <3> QED
      BY <2>2, <2>3, <2>4, <2>5, <2>6
<1>22. CASE UNCHANGED scene
  BY <1>22
<1> QED
  BY <1>1, <1>2, <1>3, <1>4, <1>5, <1>6, <1>7, <1>8, <1>9, <1>10, <1>11, <1>12, <1>13,
     <1>14, <1>15, <1>16, <1>17, <1>18, <1>19, <1>20, <1>21, <1>22 DEF Next

LEMMA Invariance == Spec => []SceneInv
  BY InitInv, NextInv, PTL DEF Spec

\* Every reachable scene is a record of its type.
THEOREM SceneTypeCorrect == Spec => []TypeOK
<1>1. SceneInv => TypeOK
  BY DEF SceneInv
<1> QED
  BY <1>1, Invariance, PTL

\* Whatever is approved, rendered or accepted was approved at the revision
\* the scene has.
THEOREM SceneApprovalIsCurrent == Spec => []ApprovalIsCurrent
<1>1. SceneInv => ApprovalIsCurrent
  BY DEF SceneInv
<1> QED
  BY <1>1, Invariance, PTL

\* The shot plan under an approval is the selected one of that revision.
THEOREM SceneApprovedPlanIsSelected == Spec => []ApprovedPlanIsSelected
<1>1. SceneInv => ApprovedPlanIsSelected
  BY DEF SceneInv
<1> QED
  BY <1>1, Invariance, PTL

\* A scene in production names the job of its latest attempt, and no scene
\* that left production without a failure or an acceptance names one.
THEOREM SceneJobMatchesAttempt == Spec => []JobMatchesAttempt
<1>1. SceneInv => JobMatchesAttempt
  BY DEF SceneInv
<1> QED
  BY <1>1, Invariance, PTL
-----------------------------------------------------------------------------
\* What no method does to a scene: move one that is completed or cancelled,
\* count its revisions or attempts backwards, name a job that is not of a
\* new attempt, or start a new revision with anything of the one before still
\* selected or approved (#transition, #updateConfiguration,
\* requestReroll, queueForProduction and requestProductionRerender).
KeepsItsHistory ==
  /\ scene.status \in Terminal => UNCHANGED scene
  /\ scene'.revision \in {scene.revision, scene.revision + 1}
  /\ scene'.ordinal \in {scene.ordinal, scene.ordinal + 1}
  /\ scene'.job \in {None, scene.job, scene'.ordinal}
  /\ scene'.ordinal # scene.ordinal => scene'.job = scene'.ordinal
  /\ scene'.revision # scene.revision =>
       /\ scene'.candidate = None /\ scene'.plan = None
       /\ scene'.approval = None /\ scene'.approvedPlan = None

\* A method that numbers nothing anew leaves revision and ordinal alone, and
\* names the job it finds or none.
LEMMA NothingNumbered ==
  ASSUME SceneInv, scene.status \notin Terminal,
         scene'.revision = scene.revision, scene'.ordinal = scene.ordinal,
         scene'.job \in {None, scene.job}
  PROVE  KeepsItsHistory
BY DEF KeepsItsHistory

\* Every method keeps to it.
LEMMA NextKeepsHistory == SceneInv /\ [Next]_scene => [KeepsItsHistory]_scene
<1> SUFFICES ASSUME SceneInv, Next PROVE KeepsItsHistory \/ UNCHANGED scene
  OBVIOUS
<1>0. scene \in SceneRecord
  BY DEF SceneInv, TypeOK
<1> USE DEF Terminal
<1>1. CASE UpdateConfiguration
  <2>1. scene.status \notin Terminal
    BY <1>1 DEF UpdateConfiguration, MayEdit
  <2>2. /\ scene'.revision = scene.revision + 1 /\ scene'.ordinal = scene.ordinal
        /\ scene'.job = scene.job /\ scene'.candidate = None /\ scene'.plan = None
        /\ scene'.approvedPlan = None
        /\ scene'.approval = IF scene.status = "approved" THEN None ELSE scene.approval
    BY <1>0, <1>1 DEF UpdateConfiguration, Edited, WithoutSelection, WithoutApprovedPlan,
                      SceneRecord
  <2>3. scene'.approval = None
    BY <1>1, <2>2 DEF UpdateConfiguration, MayEdit, SceneInv, ApprovalIsCurrent
  <2> QED
    BY <2>1, <2>2, <2>3 DEF KeepsItsHistory
<1>2. CASE RequestReroll
  <2>1. scene.status = "director_review"
    BY <1>2 DEF RequestReroll, MayReroll
  <2>2. /\ scene'.revision = scene.revision + 1 /\ scene'.ordinal = scene.ordinal
        /\ scene'.job = scene.job /\ scene'.candidate = None /\ scene'.plan = None
        /\ scene'.approvedPlan = None /\ scene'.approval = scene.approval
    BY <1>0, <1>2 DEF RequestReroll, Rerolled, WithoutSelection, WithoutApprovedPlan, MovedTo,
                      SceneRecord
  <2>3. scene.approval = None
    BY <2>1 DEF SceneInv, ApprovalIsCurrent
  <2> QED
    BY <2>1, <2>2, <2>3 DEF KeepsItsHistory
<1>3. CASE QueueForProduction \/ RequestProductionRerender
  <2>1. scene.status \notin Terminal
    BY <1>3 DEF QueueForProduction, RequestProductionRerender, MayQueue, Recoverable, InQA
  <2>2. scene'.revision = scene.revision /\ scene'.ordinal = scene.ordinal + 1
        /\ scene'.job = scene.ordinal + 1
    BY <1>0, <1>3 DEF QueueForProduction, RequestProductionRerender, Queued, MovedTo, SceneRecord
  <2> QED
    BY <2>1, <2>2 DEF KeepsItsHistory
<1>4. CASE BeginCandidateGeneration \/ SubmitCandidatesForReview
  <2>1. scene.status \notin Terminal
    BY <1>4 DEF BeginCandidateGeneration, SubmitCandidatesForReview, MayGenerate,
                MaySubmitForReview
  <2>2. scene'.revision = scene.revision /\ scene'.ordinal = scene.ordinal
        /\ scene'.job = scene.job
    BY <1>0, <1>4 DEF BeginCandidateGeneration, SubmitCandidatesForReview, Generating,
                      SubmittedForReview, MovedTo, SceneRecord
  <2> QED
    BY <2>1, <2>2, NothingNumbered
\* Only a scene that is being planned has a lease to give up.
<1>5. CASE ClearPlanningRun
  <2>1. scene.status \notin Terminal
    BY <1>5 DEF ClearPlanningRun, SceneInv, LeaseOnlyWhilePlanning
  <2>2. scene'.revision = scene.revision /\ scene'.ordinal = scene.ordinal
        /\ scene'.job = scene.job
    BY <1>0, <1>5 DEF ClearPlanningRun, PlanningCleared, SceneRecord
  <2> QED
    BY <2>1, <2>2, NothingNumbered
<1>6. CASE SelectCandidate \/ SelectShotPlan
  <2>1. scene.status \notin Terminal
    BY <1>6 DEF SelectCandidate, SelectShotPlan, MaySelect
  <2>2. scene'.revision = scene.revision /\ scene'.ordinal = scene.ordinal
        /\ scene'.job = scene.job
    BY <1>0, <1>6 DEF SelectCandidate, SelectShotPlan, CandidateSelected, PlanSelected,
                      SceneRecord
  <2> QED
    BY <2>1, <2>2, NothingNumbered
<1>7. CASE Approve \/ ApproveShotPlan \/ RerollShotPlan
  <2>1. scene.status \notin Terminal
    BY <1>7 DEF Approve, ApproveShotPlan, RerollShotPlan, MayApprove, MayApprovePlan, MayReroll
  <2>2. scene'.revision = scene.revision /\ scene'.ordinal = scene.ordinal
        /\ scene'.job = scene.job
    <3>1. CASE Approve
      BY <1>0, <3>1 DEF Approve, Approved, MovedTo, SceneRecord
    <3>2. CASE ApproveShotPlan
      BY <1>0, <3>2 DEF ApproveShotPlan, PlanApproved, MovedTo, SceneRecord
    <3>3. CASE RerollShotPlan
      BY <1>0, <3>3 DEF RerollShotPlan, PlanRerolled, WithoutApprovedPlan, MovedTo, SceneRecord
    <3> QED
      BY <1>7, <3>1, <3>2, <3>3
  <2> QED
    BY <2>1, <2>2, NothingNumbered
\* Of a scene that is not approved it takes nothing.
<1>8. CASE InvalidateApproval
  <2>1. CASE scene.status = "approved"
    <3>1. scene'.revision = scene.revision /\ scene'.ordinal = scene.ordinal
          /\ scene'.job = scene.job
      BY <1>0, <1>8, <2>1 DEF InvalidateApproval, ApprovalInvalidated, WithoutApproval,
                              WithoutApprovedPlan, MovedTo, SceneRecord
    <3> QED
      BY <2>1, <3>1, NothingNumbered
  <2>2. CASE scene.status # "approved"
    BY <1>8, <2>2 DEF InvalidateApproval, ApprovalInvalidated
  <2> QED
    BY <2>1, <2>2
<1>9. CASE StartRendering \/ SubmitForQA
  <2>1. scene.status \notin Terminal
    BY <1>9 DEF StartRendering, SubmitForQA, MayStart, MaySubmitForQA
  <2>2. scene'.revision = scene.revision /\ scene'.ordinal = scene.ordinal
        /\ scene'.job = scene.job
    BY <1>0, <1>9 DEF StartRendering, SubmitForQA, MovedTo, SceneRecord
  <2> QED
    BY <2>1, <2>2, NothingNumbered
<1>10. CASE AcceptProductionAttempt \/ AcceptQA
  <2>1. scene.status \notin Terminal
    BY <1>10 DEF AcceptProductionAttempt, AcceptQA, MayAccept, InQA
  <2>2. scene'.revision = scene.revision /\ scene'.ordinal = scene.ordinal
        /\ scene'.job = scene.job
    BY <1>0, <1>10 DEF AcceptProductionAttempt, AcceptQA, Accepted, MovedTo, SceneRecord
  <2> QED
    BY <2>1, <2>2, NothingNumbered
<1>11. CASE RejectQA \/ RecoverToReview
  <2>1. scene.status \notin Terminal
    BY <1>11 DEF RejectQA, RecoverToReview, InQA, MayRecover
  <2>2. scene'.revision = scene.revision /\ scene'.ordinal = scene.ordinal
        /\ scene'.job = None
    BY <1>0, <1>11, ReturnToReview DEF RejectQA, RecoverToReview
  <2> QED
    BY <2>1, <2>2, NothingNumbered
<1>12. CASE Fail \/ Cancel
  <2>1. scene.status \notin Terminal
    BY <1>12 DEF Fail, Cancel, MayFail, MayCancel, InProduction
  <2>2. scene'.revision = scene.revision /\ scene'.ordinal = scene.ordinal
        /\ scene'.job \in {None, scene.job}
    BY <1>0, <1>12 DEF Fail, Cancel, Failed, Cancelled, MovedTo, SceneRecord
  <2> QED
    BY <2>1, <2>2, NothingNumbered
<1> QED
  BY <1>1, <1>2, <1>3, <1>4, <1>5, <1>6, <1>7, <1>8, <1>9, <1>10, <1>11, <1>12 DEF Next

\* Completed and cancelled scenes stay as they are, revisions and attempts
\* are numbered upwards one by one, and no method carries a decision over to
\* a new revision.
THEOREM ScenesKeepTheirHistory == Spec => [][KeepsItsHistory]_scene
  BY Invariance, NextKeepsHistory, PTL DEF Spec
=============================================================================
