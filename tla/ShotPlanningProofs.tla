------------------------ MODULE ShotPlanningProofs ------------------------
(***************************************************************************)
(* Proofs about ShotPlanning, for any instances, requests, revisions and   *)
(* candidate jobs.  The argument is about the lease: only the run that     *)
(* holds it writes plans, it found or left no draft of the revision when   *)
(* it got it (HolderStartsClean), and while it is held nobody else makes   *)
(* drafts, so there is one batch.  What supersedes drafts takes the        *)
(* selection of the scene with it, or comes when the selected plan is      *)
(* approved already (SelectionStays).                                      *)
(***************************************************************************)
EXTENDS ShotPlanning, TLAPS

PlanOrNone == Request \cup {None}

Counted == open + reports <= MaxJobs

\* What the rules of the aggregate alone keep true of the scene.
SceneRules ==
  /\ {scene.lease, scene.plan, scene.approvedPlan} \subseteq PlanOrNone
  /\ scene.lease # None => scene.status = "generating_candidates"
  /\ scene.plan # None => scene.planRevision = scene.revision
  /\ scene.approvedPlan # None =>
       /\ scene.approvedPlan = scene.plan
       /\ scene.status \notin {"draft_pending", "generating_candidates", "director_review"}
  /\ scene.status = "approved" /\ scene.plan # None => scene.approvedPlan # None

\* A request has no plans before it is done, and a task runs somewhere.
UnwrittenUntilDone ==
  \A r \in Request :
    /\ task[r].phase # "done" => plan[r].status = "absent"
    /\ task[r].phase \in {"checked"} \cup Working => task[r].at \in Instance

LiveDraft(p, rev) ==
  plan[p].status = "draft" /\ ~plan[p].variation /\ plan[p].revision = rev

\* A run that can still write was leased a scene without drafts, and the
\* scene has none as long as the run holds it.
HolderStartsClean ==
  scene.lease # None /\ task[scene.lease].phase \in Working =>
    \A p \in Request : ~LiveDraft(p, scene.revision)

\* The selected plan is of the scene's revision, and is approved wherever
\* drafts can be superseded without the selection.
SelectionStays ==
  scene.plan # None =>
    /\ plan[scene.plan].revision = scene.revision
    /\ plan[scene.plan].status \in {"draft", "approved"}
    /\ scene.status # "draft_pending"
    /\ scene.status \in {"generating_candidates", "failed"} \cup InProduction
         => plan[scene.plan].status = "approved"

ProductionIsPlanned ==
  \/ scene.status \in InProduction
  \/ scene.status = "failed" /\ scene.failedFrom \in InProduction
  => scene.approvedPlan # None

PlanningInv ==
  /\ TypeOK
  /\ Counted
  /\ SceneRules
  /\ UnwrittenUntilDone
  /\ HolderStartsClean
  /\ SelectionStays
  /\ ProductionIsPlanned
  /\ OneLiveBatch
-----------------------------------------------------------------------------
\* Fields that an edit sets.
LEMMA EditUpdate ==
  ASSUME NEW t \in SceneRecord, NEW to \in Status, NEW a \in Nat
  PROVE  [t EXCEPT !.revision = @ + 1, !.status = to, !.approval = a] \in SceneRecord
<1>1. t.revision + 1 \in Nat
  BY DEF SceneRecord
<1> QED
  BY <1>1 DEF SceneRecord

\* The methods of the aggregate make scenes of scenes.
LEMMA ScenesOfScenes ==
  ASSUME NEW s \in SceneRecord, NEW r \in Nat
  PROVE  /\ Edited(s) \in SceneRecord
         /\ Rerolled(s) \in SceneRecord
         /\ Queued(s, r) \in SceneRecord
         /\ Generating(s, r) \in SceneRecord
         /\ PlanRerolled(s, r) \in SceneRecord
         /\ SubmittedForReview(s) \in SceneRecord
         /\ PlanningCleared(s) \in SceneRecord
         /\ PlanSelected(s, r, s.revision) \in SceneRecord
         /\ Approved(s) \in SceneRecord
         /\ PlanApproved(s, r) \in SceneRecord
         /\ BackInReview(s) \in SceneRecord
         /\ Failed(s) \in SceneRecord
         /\ Cancelled(s) \in SceneRecord
<1> USE DEF SceneRecord, Status, InProduction, Terminal, None, MovedTo, WithoutSelection,
            WithoutApproval, WithoutApprovedPlan
<1>0. s.revision + 1 \in Nat /\ s.ordinal + 1 \in Nat
  OBVIOUS
<1>1. Edited(s) \in SceneRecord
  <2> DEFINE t == WithoutSelection(s)
             to == IF t.status = "approved" THEN "director_review" ELSE t.status
             app == IF s.status = "approved" THEN None ELSE t.approval
  <2>1. t \in SceneRecord /\ t.revision = s.revision
    OBVIOUS
  <2>2. to \in Status /\ app \in Nat
    BY <2>1
  <2>3. Edited(s) = [t EXCEPT !.revision = @ + 1, !.status = to, !.approval = app]
    BY DEF Edited
  <2> HIDE DEF t, to, app, SceneRecord, Status
  <2>4. [t EXCEPT !.revision = @ + 1, !.status = to, !.approval = app] \in SceneRecord
    BY <2>1, <2>2, EditUpdate
  <2> QED
    BY <2>3, <2>4
<1>2. Rerolled(s) \in SceneRecord
  BY <1>0 DEF Rerolled
<1>3. Queued(s, r) \in SceneRecord
  BY <1>0 DEF Queued
<1>4. Generating(s, r) \in SceneRecord
  BY DEF Generating
<1>5. PlanRerolled(s, r) \in SceneRecord
  BY DEF PlanRerolled
<1>6. SubmittedForReview(s) \in SceneRecord
  BY DEF SubmittedForReview
<1>7. PlanningCleared(s) \in SceneRecord
  BY DEF PlanningCleared
<1>8. PlanSelected(s, r, s.revision) \in SceneRecord
  BY DEF PlanSelected
<1>9. Approved(s) \in SceneRecord
  BY DEF Approved
<1>10. PlanApproved(s, r) \in SceneRecord
  BY DEF PlanApproved
<1>11. BackInReview(s) \in SceneRecord
  BY DEF BackInReview
<1>12. Failed(s) \in SceneRecord
  BY DEF Failed
<1>13. Cancelled(s) \in SceneRecord
  BY DEF Cancelled
<1> HIDE DEF SceneRecord
<1> QED
  BY <1>1, <1>2, <1>3, <1>4, <1>5, <1>6, <1>7, <1>8, <1>9, <1>10, <1>11, <1>12, <1>13

\* What LeasedTo makes of a scene that may be leased: it keeps the selection
\* unless the plans are rerolled in review.
LEMMA LeaseKeeps ==
  ASSUME NEW s \in SceneRecord, NEW r \in Request, task \in [Request -> TaskRecord], MayLease(s)
  PROVE  /\ LeasedTo(s, r) \in SceneRecord
         /\ LeasedTo(s, r).status = "generating_candidates"
         /\ LeasedTo(s, r).revision = s.revision
         /\ LeasedTo(s, r).lease = r
         /\ LeasedTo(s, r).planRevision \in {s.planRevision, None}
         /\ LeasedTo(s, r).approvedPlan # None =>
              s.status # "failed" /\ LeasedTo(s, r).approvedPlan = s.approvedPlan
         /\ \/ LeasedTo(s, r).plan = None /\ LeasedTo(s, r).approvedPlan = None
            \/ /\ s.status = "director_review" => ~task[r].reroll
               /\ LeasedTo(s, r).plan = s.plan
               /\ LeasedTo(s, r).planRevision = s.planRevision
<1>1. r \in Nat /\ r # None
  BY PlanningConstants DEF Request, None
<1>2. BackInReview(s) \in SceneRecord
  BY <1>1, ScenesOfScenes
<1>3. LeasedTo(s, r) \in SceneRecord
  BY <1>1, <1>2, ScenesOfScenes DEF LeasedTo
<1>4. CASE s.status = "director_review" /\ task[r].reroll
  <2>1. LeasedTo(s, r) = PlanRerolled(s, r)
    BY <1>4 DEF LeasedTo
  <2> QED
    BY <1>1, <1>3, <2>1 DEF PlanRerolled, WithoutApprovedPlan, MovedTo, SceneRecord
<1>5. CASE s.status = "failed"
  <2>1. LeasedTo(s, r) = Generating(BackInReview(s), r)
    BY <1>5 DEF LeasedTo
  <2> QED
    BY <1>1, <1>3, <1>5, <2>1
       DEF Generating, BackInReview, WithoutApproval, WithoutApprovedPlan, MovedTo, SceneRecord
<1>6. CASE s.status # "failed" /\ ~(s.status = "director_review" /\ task[r].reroll)
  <2>1. LeasedTo(s, r) = Generating(s, r)
    BY <1>6 DEF LeasedTo
  <2> QED
    BY <1>1, <1>3, <1>6, <2>1 DEF Generating, MovedTo, SceneRecord
<1> QED
  BY <1>4, <1>5, <1>6

\* A planning starts with nothing.
LEMMA InitPlanning == Init => PlanningInv
<1> SUFFICES ASSUME Init PROVE PlanningInv
  OBVIOUS
<1>1. scene \in SceneRecord /\ scene.status = "draft_pending" /\ scene.lease = None
      /\ scene.plan = None /\ scene.approvedPlan = None
  BY DEF Init, NewScene, SceneRecord, Status, InProduction, Terminal, None
<1>2. TypeOK /\ Counted
  <2>1. plan \in [Request -> PlanRecord] /\ task \in [Request -> TaskRecord]
    BY DEF Init, PlanRecord, TaskRecord, None
  <2>2. inFlight \in [Instance -> Request \cup {None}] /\ expired \in BOOLEAN /\ swept \in BOOLEAN
    BY DEF Init
  <2>3. open = 0 /\ reports = 0 /\ rerolls = 0
    BY DEF Init
  <2>4. open \in 0..MaxJobs /\ reports \in 0..MaxJobs /\ rerolls \in 0..MaxRerolls
        /\ open + reports <= MaxJobs
    BY <2>3, PlanningConstants
  <2> QED
    BY <1>1, <2>1, <2>2, <2>4 DEF TypeOK, Counted
<1>3. SceneRules /\ HolderStartsClean /\ SelectionStays /\ ProductionIsPlanned
  BY <1>1 DEF SceneRules, HolderStartsClean, SelectionStays, ProductionIsPlanned, PlanOrNone,
              InProduction
<1>4. UnwrittenUntilDone /\ OneLiveBatch
  BY DEF Init, UnwrittenUntilDone, OneLiveBatch, Working
<1> QED
  BY <1>2, <1>3, <1>4 DEF PlanningInv

\* Requests only go on: a task that is new or at work had not ended before.
TasksGoOn ==
  \A r \in Request :
    \/ task'[r].phase = "done"
    \/ /\ task'[r].phase \in Working => task[r].phase \in Working
       /\ task[r].phase # "done"
       /\ task'[r].at = task[r].at
       /\ task'[r].phase = "checked" => task[r].phase = "checked"

LeaseGoesOn == scene'.lease # None => scene' = scene

\* A step that makes no plans and takes no lease has only the scene to care for.
LEMMA OthersKeepPlans ==
  ASSUME PlanningInv, UNCHANGED plan, TasksGoOn, LeaseGoesOn, (TypeOK /\ Counted)',
         SceneRules', SelectionStays', ProductionIsPlanned'
  PROVE  PlanningInv'
<1>1. UnwrittenUntilDone'
  BY DEF PlanningInv, UnwrittenUntilDone, TasksGoOn, Working
<1>2. HolderStartsClean'
  BY DEF PlanningInv, HolderStartsClean, TasksGoOn, LeaseGoesOn, LiveDraft, Working,
         SceneRules, PlanOrNone
<1>3. OneLiveBatch'
  BY DEF PlanningInv, OneLiveBatch
<1> QED
  BY <1>1, <1>2, <1>3 DEF PlanningInv

\* What commands, reports, the reaper and failures make of the scene.
SceneMoves ==
  \/ scene' = scene
  \/ MayFail(scene) /\ scene' = Failed(scene)
  \/ MaySubmitForReview(scene) /\ scene' = SubmittedForReview(scene)
  \/ MayEdit(scene) /\ scene' = Edited(scene)
  \/ MayReroll(scene) /\ scene' = Rerolled(scene)
  \/ MayApprove(scene) /\ scene' = Approved(scene)
  \/ MayCancel(scene) /\ scene' = Cancelled(scene)
  \/ scene.status = "draft_pending" /\ scene' = Generating(scene, None)
  \/ MayQueue(scene) /\ Ready(PlanToProduce) /\ scene' = Queued(scene, 1)
  \/ \E p \in Request : /\ plan[p].status = "draft"
                        /\ MaySelect(scene, plan[p].revision)
                        /\ scene' = PlanSelected(scene, p, plan[p].revision)

LEMMA SceneKeepsRules ==
  ASSUME PlanningInv, SceneMoves, UNCHANGED plan
  PROVE  /\ scene' \in SceneRecord
         /\ SceneRules' /\ SelectionStays' /\ ProductionIsPlanned' /\ LeaseGoesOn
<1> DEFINE Goal == /\ scene' \in SceneRecord
                   /\ SceneRules' /\ SelectionStays' /\ ProductionIsPlanned' /\ LeaseGoesOn
<1>0. /\ scene \in SceneRecord /\ SceneRules /\ SelectionStays /\ ProductionIsPlanned
      /\ \A p \in Request : p \in Nat /\ p # None
  BY PlanningConstants DEF PlanningInv, TypeOK, Request, None
<1> USE DEF SceneRules, SelectionStays, ProductionIsPlanned, LeaseGoesOn, InProduction,
            PlanOrNone, MovedTo, WithoutSelection, WithoutApproval, WithoutApprovedPlan
<1>1. CASE scene' = scene
  BY <1>0, <1>1
<1>2. CASE MayFail(scene) /\ scene' = Failed(scene)
  <2>1. scene' \in SceneRecord
    BY <1>0, <1>2, ScenesOfScenes DEF None
  <2> QED
    BY <1>0, <1>2, <2>1 DEF Failed, MayFail, SceneRecord
<1>3. CASE MaySubmitForReview(scene) /\ scene' = SubmittedForReview(scene)
  <2>1. scene' \in SceneRecord
    BY <1>0, <1>3, ScenesOfScenes DEF None
  <2> QED
    BY <1>0, <1>3, <2>1 DEF SubmittedForReview, MaySubmitForReview, SceneRecord
<1>4. CASE MayEdit(scene) /\ scene' = Edited(scene)
  <2>1. scene' \in SceneRecord
    BY <1>0, <1>4, ScenesOfScenes DEF None
  <2> QED
    BY <1>0, <1>4, <2>1 DEF Edited, MayEdit, SceneRecord
<1>5. CASE MayReroll(scene) /\ scene' = Rerolled(scene)
  <2>1. scene' \in SceneRecord
    BY <1>0, <1>5, ScenesOfScenes DEF None
  <2> QED
    BY <1>0, <1>5, <2>1 DEF Rerolled, MayReroll, SceneRecord
<1>6. CASE MayApprove(scene) /\ scene' = Approved(scene)
  <2>1. scene' \in SceneRecord
    BY <1>0, <1>6, ScenesOfScenes DEF None
  <2> QED
    BY <1>0, <1>6, <2>1 DEF Approved, MayApprove, HasValidPlan, SceneRecord
<1>7. CASE MayCancel(scene) /\ scene' = Cancelled(scene)
  <2>1. scene' \in SceneRecord
    BY <1>0, <1>7, ScenesOfScenes DEF None
  <2> QED
    BY <1>0, <1>7, <2>1 DEF Cancelled, MayCancel, SceneRecord
<1>8. CASE scene.status = "draft_pending" /\ scene' = Generating(scene, None)
  <2>1. scene' \in SceneRecord
    BY <1>0, <1>8, ScenesOfScenes DEF None
  <2> QED
    BY <1>0, <1>8, <2>1 DEF Generating, SceneRecord
<1>9. CASE MayQueue(scene) /\ Ready(PlanToProduce) /\ scene' = Queued(scene, 1)
  <2>1. scene' \in SceneRecord
    BY <1>0, <1>9, ScenesOfScenes
  <2> QED
    BY <1>0, <1>9, <2>1 DEF Queued, MayQueue, Recoverable, Ready, PlanToProduce, SceneRecord
<1>10. ASSUME NEW p \in Request, plan[p].status = "draft", MaySelect(scene, plan[p].revision),
              scene' = PlanSelected(scene, p, plan[p].revision)
       PROVE  Goal
  <2>1. scene' \in SceneRecord
    BY <1>0, <1>10, ScenesOfScenes DEF MaySelect
  <2> QED
    BY <1>0, <1>10, <2>1 DEF PlanSelected, MaySelect, SceneRecord
<1> QED
  BY <1>1, <1>2, <1>3, <1>4, <1>5, <1>6, <1>7, <1>8, <1>9, <1>10 DEF SceneMoves

\* The actions that only move the scene, its jobs or its tasks.
Moves ==
  \/ LeaseExpires \/ Reap \/ JobReported \/ JobSwept
  \/ \E again \in BOOLEAN : FollowUp(again)
  \/ Edit \/ RequestReroll \/ Approve \/ Cancel \/ RerollPrevisBeat
  \/ AdmitCandidateGeneration \/ Dispatch \/ ProductionFails
  \/ \E p \in Request : SelectShotPlan(p)

\* Of the types of a step's results, those of the counters and flags.
LEMMA MovesKeepCounts ==
  ASSUME PlanningInv, Moves
  PROVE  /\ open' \in 0..MaxJobs /\ reports' \in 0..MaxJobs /\ Counted'
         /\ expired' \in BOOLEAN /\ swept' \in BOOLEAN /\ rerolls' \in 0..MaxRerolls
         /\ UNCHANGED <<plan, task, inFlight>>
<1>1. /\ open \in 0..MaxJobs /\ reports \in 0..MaxJobs /\ open + reports <= MaxJobs
      /\ expired \in BOOLEAN /\ swept \in BOOLEAN /\ rerolls \in 0..MaxRerolls
      /\ MaxJobs \in Nat /\ MaxRerolls \in Nat
  BY PlanningConstants DEF PlanningInv, TypeOK, Counted
<1>2. /\ \/ UNCHANGED <<open, reports>>
         \/ MoreJobs /\ UNCHANGED reports
         \/ open > 0 /\ open' = open - 1 /\ reports' \in {reports, reports + 1}
         \/ reports > 0 /\ reports' = reports - 1 /\ UNCHANGED open
      /\ expired' \in {expired, TRUE} \/ Clock
      /\ swept' \in {swept, TRUE}
      /\ rerolls' = rerolls \/ (rerolls < MaxRerolls /\ rerolls' = rerolls + 1)
      /\ UNCHANGED <<plan, task, inFlight>>
  BY DEF Moves, LeaseExpires, Reap, JobReported, JobSwept, FollowUp, Edit, RequestReroll, Approve,
         Cancel, RerollPrevisBeat, AdmitCandidateGeneration, Dispatch, ProductionFails,
         SelectShotPlan, Change
<1>3. open' \in 0..MaxJobs /\ reports' \in 0..MaxJobs /\ open' + reports' <= MaxJobs
  BY <1>1, <1>2 DEF MoreJobs
<1>4. rerolls' \in 0..MaxRerolls
  BY <1>1, <1>2
<1>5. expired' \in BOOLEAN
  <2>1. CASE Clock
    BY <2>1 DEF Clock
  <2> QED
    BY <1>1, <1>2, <2>1
<1>6. swept' \in BOOLEAN
  BY <1>1, <1>2
<1> QED
  BY <1>2, <1>3, <1>4, <1>5, <1>6 DEF Counted

LEMMA MovesKeep == ASSUME PlanningInv, Moves PROVE PlanningInv'
<1>1. SceneMoves
  <2>1. CASE LeaseExpires \/ JobReported \/ JobSwept \/ RerollPrevisBeat
    BY <2>1 DEF LeaseExpires, JobReported, JobSwept, RerollPrevisBeat, SceneMoves
  <2>2. CASE Reap \/ \E again \in BOOLEAN : FollowUp(again)
    BY <2>2 DEF Reap, FollowUp, SubmittedIfComplete, MayFail, SceneMoves
  <2>3. CASE Edit \/ RequestReroll \/ Approve \/ Cancel \/ AdmitCandidateGeneration
    BY <2>3 DEF Edit, RequestReroll, Approve, Cancel, AdmitCandidateGeneration, Change, SceneMoves
  <2>4. CASE Dispatch
    BY <2>4 DEF Dispatch, Change, SceneMoves
  <2>5. CASE ProductionFails
    BY <2>5 DEF ProductionFails, Change, MayFail, SceneMoves
  <2>6. CASE \E p \in Request : SelectShotPlan(p)
    BY <2>6 DEF SelectShotPlan, Change, SceneMoves
  <2> QED
    BY <2>1, <2>2, <2>3, <2>4, <2>5, <2>6 DEF Moves
<1>2. /\ scene' \in SceneRecord
      /\ SceneRules' /\ SelectionStays' /\ ProductionIsPlanned' /\ LeaseGoesOn
  BY <1>1, MovesKeepCounts, SceneKeepsRules
<1>3. (TypeOK /\ Counted)'
  BY <1>2, MovesKeepCounts DEF PlanningInv, TypeOK
<1>4. TasksGoOn
  BY MovesKeepCounts DEF TasksGoOn
<1> QED
  BY <1>2, <1>3, <1>4, MovesKeepCounts, OthersKeepPlans

\* A task that ends, wherever it ran, leaves the rest as it was.
LEMMA EndedTask ==
  ASSUME PlanningInv, NEW r \in Request, GoesDone(r)
  PROVE  /\ task' \in [Request -> TaskRecord]
         /\ task'[r].phase = "done"
         /\ \A q \in Request : q # r => task'[q] = task[q]
         /\ TasksGoOn
<1>1. task \in [Request -> TaskRecord]
  BY DEF PlanningInv, TypeOK
<1>2. Done(task[r]) \in TaskRecord /\ Done(task[r]).phase = "done"
  BY <1>1 DEF Done, TaskRecord
<1>3. task' = [task EXCEPT ![r] = Done(task[r])]
  BY DEF GoesDone
<1>4. /\ task' \in [Request -> TaskRecord] /\ task'[r].phase = "done"
      /\ \A q \in Request : q # r => task'[q] = task[q]
  BY <1>1, <1>2, <1>3
<1> QED
  BY <1>4 DEF TasksGoOn

LEMMA EndsTyped ==
  ASSUME PlanningInv, NEW r \in Request, Ends(r)
  PROVE  inFlight' \in [Instance -> Request \cup {None}]
BY DEF PlanningInv, TypeOK, Ends

\* Superseding the drafts among some plans.
LEMMA SupersededPlans ==
  ASSUME PlanningInv, NEW P \in SUBSET Request
  PROVE  /\ Superseded(P) \in [Request -> PlanRecord]
         /\ \A q \in Request :
              /\ Superseded(P)[q].revision = plan[q].revision
              /\ Superseded(P)[q].variation = plan[q].variation
              /\ Superseded(P)[q].status =
                   IF q \in P /\ plan[q].status = "draft" THEN "superseded" ELSE plan[q].status
<1>1. plan \in [Request -> PlanRecord]
  BY DEF PlanningInv, TypeOK
<1>2. \A q \in Request :
        Superseded(P)[q] = IF q \in P /\ plan[q].status = "draft"
                           THEN [plan[q] EXCEPT !.status = "superseded"] ELSE plan[q]
  BY DEF Superseded
<1>3. Superseded(P) = [q \in Request |-> Superseded(P)[q]]
  BY DEF Superseded
<1>4. ASSUME NEW q \in Request
      PROVE  /\ Superseded(P)[q] \in PlanRecord
             /\ Superseded(P)[q].revision = plan[q].revision
             /\ Superseded(P)[q].variation = plan[q].variation
             /\ Superseded(P)[q].status =
                  IF q \in P /\ plan[q].status = "draft" THEN "superseded" ELSE plan[q].status
  <2>1. plan[q] \in PlanRecord
    BY <1>1
  <2>2. CASE q \in P /\ plan[q].status = "draft"
    <3>1. Superseded(P)[q] = [plan[q] EXCEPT !.status = "superseded"]
      BY <1>2, <2>2
    <3> QED
      BY <2>1, <2>2, <3>1 DEF PlanRecord
  <2>3. CASE ~(q \in P /\ plan[q].status = "draft")
    <3>1. Superseded(P)[q] = plan[q]
      BY <1>2, <2>3
    <3> QED
      BY <2>1, <2>3, <3>1
  <2> QED
    BY <2>2, <2>3
<1> QED
  BY <1>3, <1>4

LEMMA DraftIsPlan ==
  ASSUME PlanningInv, NEW v \in BOOLEAN
  PROVE  /\ Draft(v) \in PlanRecord /\ Draft(v).status = "draft"
         /\ Draft(v).revision = scene.revision /\ Draft(v).variation = v
BY DEF PlanningInv, TypeOK, SceneRecord, Draft, PlanRecord

LEMMA MoreJobsCounted ==
  ASSUME PlanningInv, UNCHANGED open \/ MoreJobs, UNCHANGED reports
  PROVE  open' \in 0..MaxJobs /\ reports' \in 0..MaxJobs /\ Counted'
<1>1. /\ open \in 0..MaxJobs /\ reports \in 0..MaxJobs /\ open + reports <= MaxJobs
      /\ MaxJobs \in Nat
  BY PlanningConstants DEF PlanningInv, TypeOK, Counted
<1> QED
  BY <1>1 DEF MoreJobs, Counted

LEMMA ClockTyped == Clock => expired' \in BOOLEAN
BY DEF Clock

\* A request that has not been asked changes nothing but its task.
LEMMA AskKeeps ==
  ASSUME PlanningInv, NEW r \in Request, NEW i \in Instance, Ask(r, i)
  PROVE  PlanningInv'
<1>1. task[r].phase = "new" /\ task \in [Request -> TaskRecord]
  BY PlanningConstants DEF Ask, Fresh, PlanningInv, TypeOK, Request
<1>2. PICK reroll \in BOOLEAN :
        IF inFlight[i] = None
        THEN task' = [task EXCEPT ![r].phase = "checked", ![r].at = i, ![r].reroll = reroll]
        ELSE GoesDone(r)
  BY DEF Ask
<1>3. /\ task' \in [Request -> TaskRecord]
      /\ \A q \in Request : q # r => task'[q] = task[q]
      /\ task'[r].phase # "done" => task'[r].phase = "checked" /\ task'[r].at \in Instance
  <2>1. CASE inFlight[i] = None
    <3>1. task' = [task EXCEPT ![r] = [task[r] EXCEPT !.phase = "checked", !.at = i,
                                                      !.reroll = reroll]]
      BY <1>1, <1>2, <2>1
    <3>2. /\ [task[r] EXCEPT !.phase = "checked", !.at = i, !.reroll = reroll] \in TaskRecord
          /\ [task[r] EXCEPT !.phase = "checked", !.at = i, !.reroll = reroll].phase = "checked"
          /\ [task[r] EXCEPT !.phase = "checked", !.at = i, !.reroll = reroll].at = i
      BY <1>1 DEF TaskRecord
    <3> QED
      BY <1>1, <3>1, <3>2
  <2>2. CASE inFlight[i] # None
    <3>1. GoesDone(r)
      BY <1>2, <2>2
    <3> QED
      BY <3>1, EndedTask
  <2> QED
    BY <2>1, <2>2
<1>4. UNCHANGED <<scene, expired, plan, inFlight, open, reports, swept, rerolls>>
  BY DEF Ask
<1>5. (TypeOK /\ Counted)'
  BY <1>3, <1>4 DEF PlanningInv, TypeOK, Counted
<1>6. (SceneRules /\ SelectionStays /\ ProductionIsPlanned /\ OneLiveBatch)'
  BY <1>4 DEF PlanningInv, SceneRules, SelectionStays, ProductionIsPlanned, OneLiveBatch
<1>7. UnwrittenUntilDone'
  BY <1>1, <1>3, <1>4 DEF PlanningInv, UnwrittenUntilDone, Working
<1>8. HolderStartsClean'
  <2>1. scene.lease \in Request \cup {None}
    BY DEF PlanningInv, SceneRules, PlanOrNone
  <2>2. CASE scene.lease = r
    BY <1>3, <1>4, <2>2 DEF HolderStartsClean, Working
  <2>3. CASE scene.lease # r
    BY <1>3, <1>4, <2>1, <2>3 DEF PlanningInv, HolderStartsClean, LiveDraft
  <2> QED
    BY <2>2, <2>3
<1> QED
  BY <1>5, <1>6, <1>7, <1>8 DEF PlanningInv

LEMMA CrashKeeps == ASSUME PlanningInv, NEW i \in Instance, Crash(i) PROVE PlanningInv'
<1>1. task \in [Request -> TaskRecord]
  BY DEF PlanningInv, TypeOK
<1>2. UNCHANGED <<scene, expired, plan, open, reports, swept, rerolls>>
  BY DEF Crash
<1>3. ASSUME NEW q \in Request
      PROVE  /\ task'[q] \in TaskRecord
             /\ task'[q] = task[q] \/ task'[q].phase = "done"
  <2>1. Done(task[q]) \in TaskRecord /\ Done(task[q]).phase = "done"
    BY <1>1 DEF Done, TaskRecord
  <2> QED
    BY <1>1, <2>1 DEF Crash
<1>4. task' \in [Request -> TaskRecord]
  BY <1>3 DEF Crash
<1>5. inFlight' \in [Instance -> Request \cup {None}]
  BY DEF PlanningInv, TypeOK, Crash
<1>6. (TypeOK /\ Counted)'
  BY <1>2, <1>4, <1>5 DEF PlanningInv, TypeOK, Counted
<1>7. TasksGoOn
  BY <1>3 DEF TasksGoOn
<1>8. (SceneRules /\ SelectionStays /\ ProductionIsPlanned)' /\ LeaseGoesOn
  BY <1>2 DEF PlanningInv, SceneRules, SelectionStays, ProductionIsPlanned, LeaseGoesOn
<1> QED
  BY <1>2, <1>6, <1>7, <1>8, OthersKeepPlans

\* A request that is answered without a run supersedes, if anything, drafts
\* of a scene that generates, whose selection is approved.
LEMMA AdmitWithoutRunKeeps ==
  ASSUME PlanningInv, NEW r \in Request, AdmitWithoutRun(r)
  PROVE  PlanningInv'
<1>1. UNCHANGED <<scene, expired, inFlight, open, reports, swept, rerolls>> /\ GoesDone(r)
  BY DEF AdmitWithoutRun
<1>2. \/ UNCHANGED plan
      \/ Leased /\ plan' = Superseded(PlansOf(scene.revision))
  BY DEF AdmitWithoutRun, SupersededOnReroll
<1>3. PlansOf(scene.revision) \in SUBSET Request
  BY DEF PlansOf
<1>4. /\ task' \in [Request -> TaskRecord]
      /\ task'[r].phase = "done"
      /\ \A q \in Request : q # r => task'[q] = task[q]
      /\ TasksGoOn
  BY <1>1, EndedTask
<1>5. CASE UNCHANGED plan
  <2>1. (TypeOK /\ Counted)'
    BY <1>1, <1>4, <1>5 DEF PlanningInv, TypeOK, Counted
  <2>2. (SceneRules /\ SelectionStays /\ ProductionIsPlanned)' /\ LeaseGoesOn
    BY <1>1, <1>5 DEF PlanningInv, SceneRules, SelectionStays, ProductionIsPlanned, LeaseGoesOn
  <2> QED
    BY <1>4, <1>5, <2>1, <2>2, OthersKeepPlans
<1>6. CASE Leased /\ plan' = Superseded(PlansOf(scene.revision))
  <2>1. /\ plan' \in [Request -> PlanRecord]
        /\ \A q \in Request :
             /\ plan'[q].revision = plan[q].revision
             /\ plan'[q].variation = plan[q].variation
             /\ plan'[q].status = plan[q].status \/ (plan[q].status = "draft" /\ plan'[q].status = "superseded")
    BY <1>3, <1>6, SupersededPlans
  <2>2. (TypeOK /\ Counted)'
    BY <1>1, <1>4, <2>1 DEF PlanningInv, TypeOK, Counted
  <2>3. (SceneRules /\ ProductionIsPlanned)'
    BY <1>1 DEF PlanningInv, SceneRules, ProductionIsPlanned
  <2>4. SelectionStays'
    BY <1>1, <1>6, <2>1 DEF PlanningInv, SelectionStays, Leased, SceneRules, PlanOrNone
  <2>5. UnwrittenUntilDone'
    BY <1>4, <2>1 DEF PlanningInv, UnwrittenUntilDone, Working
  <2>6. HolderStartsClean'
    BY <1>1, <1>4, <2>1
       DEF PlanningInv, HolderStartsClean, LiveDraft, SceneRules, PlanOrNone, Working
  <2>7. OneLiveBatch'
    BY <2>1 DEF PlanningInv, OneLiveBatch
  <2> QED
    BY <2>2, <2>3, <2>4, <2>5, <2>6, <2>7 DEF PlanningInv
<1> QED
  BY <1>2, <1>5, <1>6

\* The lease: nothing live is left of the revision when it is granted, and a
\* selection survives only if there were no plans or it is approved.
LEMMA AdmitKeeps ==
  ASSUME PlanningInv, NEW r \in Request, Admit(r)
  PROVE  PlanningInv'
<1>1. /\ task \in [Request -> TaskRecord] /\ plan \in [Request -> PlanRecord]
      /\ scene \in SceneRecord /\ inFlight \in [Instance -> Request \cup {None}]
      /\ task[r].phase = "checked" /\ task[r].at \in Instance
  BY DEF PlanningInv, TypeOK, UnwrittenUntilDone, Admit, Admission
<1>2. /\ scene' = LeasedTo(scene, r) /\ expired' = FALSE
      /\ UNCHANGED <<open, reports, swept, rerolls>>
      /\ plan' = SupersededOnReroll(r) /\ ~Replayed(r) /\ MayLease(scene)
  BY DEF Admit
<1>3. /\ scene' \in SceneRecord
      /\ scene'.status = "generating_candidates"
      /\ scene'.revision = scene.revision
      /\ scene'.lease = r
      /\ scene'.approvedPlan # None =>
           scene.status # "failed" /\ scene'.approvedPlan = scene.approvedPlan
      /\ \/ scene'.plan = None /\ scene'.approvedPlan = None
         \/ /\ scene.status = "director_review" => ~task[r].reroll
            /\ scene'.plan = scene.plan
            /\ scene'.planRevision = scene.planRevision
  BY <1>1, <1>2, LeaseKeeps
<1>4. /\ plan' \in [Request -> PlanRecord]
      /\ \A q \in Request :
           /\ plan'[q].revision = plan[q].revision
           /\ plan'[q].variation = plan[q].variation
           /\ \/ plan'[q].status = plan[q].status
              \/ task[r].reroll /\ plan[q].status = "draft" /\ plan'[q].status = "superseded"
           /\ ~LiveDraft(q, scene.revision)'
  <2>1. CASE task[r].reroll
    <3>1. plan' = Superseded(PlansOf(scene.revision))
      BY <1>2, <2>1 DEF SupersededOnReroll
    <3>2. PlansOf(scene.revision) \in SUBSET Request
      BY DEF PlansOf
    <3> QED
      BY <1>3, <2>1, <3>1, <3>2, SupersededPlans DEF LiveDraft, PlansOf
  <2>2. CASE ~task[r].reroll
    <3>1. plan' = plan /\ PlansOf(scene.revision) = {}
      BY <1>2, <2>2 DEF SupersededOnReroll, Replayed
    <3> QED
      BY <1>1, <1>3, <3>1 DEF LiveDraft, PlansOf
  <2> QED
    BY <2>1, <2>2
<1>5. /\ task' \in [Request -> TaskRecord]
      /\ inFlight' \in [Instance -> Request \cup {None}]
      /\ \A q \in Request : q # r => task'[q] = task[q]
      /\ task'[r].phase # "done" => task'[r].phase = "reading" /\ task'[r].at \in Instance
  <2> DEFINE t == [task[r] EXCEPT !.reroll = FALSE, !.revision = scene.revision]
  <2>1. t \in TaskRecord /\ t.at = task[r].at
    BY <1>1 DEF TaskRecord, SceneRecord
  <2>2. \/ /\ task' = [task EXCEPT ![r] = [t EXCEPT !.phase = "reading"]]
           /\ inFlight' = [inFlight EXCEPT ![t.at] = r]
        \/ /\ task' = [task EXCEPT ![r] = Done(t)]
           /\ UNCHANGED inFlight
    BY DEF Admit
  <2> HIDE DEF t
  <2>3. /\ Done(t) \in TaskRecord /\ Done(t).phase = "done"
        /\ [t EXCEPT !.phase = "reading"] \in TaskRecord
        /\ [t EXCEPT !.phase = "reading"].phase = "reading"
        /\ [t EXCEPT !.phase = "reading"].at = t.at
    BY <2>1 DEF TaskRecord, Done, Working
  <2>4. CASE task' = [task EXCEPT ![r] = [t EXCEPT !.phase = "reading"]]
    <3>1. inFlight' \in [Instance -> Request \cup {None}]
      BY <1>1, <2>2
    <3> QED
      BY <1>1, <2>1, <2>3, <2>4, <3>1
  <2>5. CASE task' = [task EXCEPT ![r] = Done(t)]
    <3>1. inFlight' \in [Instance -> Request \cup {None}]
      BY <1>1, <2>2
    <3> QED
      BY <1>1, <2>3, <2>5, <3>1
  <2> QED
    BY <2>2, <2>4, <2>5
<1>6. (TypeOK /\ Counted)'
  BY <1>2, <1>3, <1>4, <1>5 DEF PlanningInv, TypeOK, Counted
<1>7. /\ scene.plan \in PlanOrNone /\ scene.approvedPlan \in PlanOrNone
      /\ scene.plan # None => scene.planRevision = scene.revision
      /\ scene.approvedPlan = None \/ scene.status = "failed"
      /\ scene.status \in {"draft_pending", "director_review", "generating_candidates", "failed"}
  BY <1>2 DEF PlanningInv, SceneRules, MayLease, MayGenerate, MayRecover
<1>8. (SceneRules /\ ProductionIsPlanned)'
  BY <1>3, <1>7 DEF SceneRules, ProductionIsPlanned, PlanOrNone, InProduction
<1>9. SelectionStays'
  <2>1. SUFFICES ASSUME scene'.plan # None PROVE SelectionStays'
    BY DEF SelectionStays
  <2>2. /\ scene'.plan = scene.plan /\ scene.plan \in Request
        /\ scene.status = "director_review" => ~task[r].reroll
    BY <1>3, <1>7, <2>1 DEF PlanOrNone
  <2>3. plan[scene.plan].revision = scene.revision /\ plan[scene.plan].status # "absent"
    BY <2>1, <2>2 DEF PlanningInv, SelectionStays
  <2>4. task[r].reroll
    BY <1>2, <2>2, <2>3 DEF Replayed, PlansOf
  <2>5. plan[scene.plan].status = "approved"
    BY <1>7, <2>1, <2>2, <2>4 DEF PlanningInv, SelectionStays
  <2> QED
    BY <1>3, <1>4, <2>2, <2>3, <2>5 DEF SelectionStays
<1>10. UnwrittenUntilDone'
  BY <1>1, <1>4, <1>5 DEF PlanningInv, UnwrittenUntilDone, Working
<1>11. HolderStartsClean'
  BY <1>3, <1>4 DEF HolderStartsClean
<1>12. OneLiveBatch'
  <2>1. OneLiveBatch
    BY DEF PlanningInv
  <2>2. \A q \in Request : plan'[q].status = "draft" =>
          /\ plan[q].status = "draft"
          /\ plan'[q].revision = plan[q].revision /\ plan'[q].variation = plan[q].variation
    BY <1>4
  <2>3. SUFFICES ASSUME NEW p \in Request, NEW q \in Request,
                        plan'[p].status = "draft", plan'[q].status = "draft",
                        ~plan'[p].variation, ~plan'[q].variation,
                        plan'[p].revision = plan'[q].revision
                 PROVE  p = q
    BY DEF OneLiveBatch
  <2>4. {plan[p].status, plan[q].status} = {"draft"}
    BY <2>2, <2>3
  <2> QED
    BY <2>1, <2>2, <2>3, <2>4 DEF OneLiveBatch
<1> QED
  BY <1>6, <1>8, <1>9, <1>10, <1>11, <1>12 DEF PlanningInv

LEMMA ReadSceneKeeps ==
  ASSUME PlanningInv, NEW r \in Request, ReadScene(r) PROVE PlanningInv'
<1>1. /\ task \in [Request -> TaskRecord] /\ task[r].phase = "reading"
      /\ UNCHANGED <<scene, expired, plan, open, reports, swept, rerolls>>
      /\ \/ Goes(r, "thinking") /\ UNCHANGED inFlight
         \/ Ends(r)
  BY DEF ReadScene, PlanningInv, TypeOK
<1>2. /\ task' \in [Request -> TaskRecord]
      /\ inFlight' \in [Instance -> Request \cup {None}]
      /\ TasksGoOn
  <2>1. CASE Goes(r, "thinking") /\ UNCHANGED inFlight
    <3>1. task' = [task EXCEPT ![r] = [task[r] EXCEPT !.phase = "thinking"]]
      BY <1>1, <2>1 DEF Goes
    <3>2. /\ [task[r] EXCEPT !.phase = "thinking"] \in TaskRecord
          /\ [task[r] EXCEPT !.phase = "thinking"].phase = "thinking"
          /\ [task[r] EXCEPT !.phase = "thinking"].at = task[r].at
      BY <1>1 DEF TaskRecord, Working
    <3> QED
      BY <1>1, <2>1, <3>1, <3>2 DEF PlanningInv, TypeOK, TasksGoOn, Working
  <2>2. CASE Ends(r)
    <3>1. GoesDone(r)
      BY <2>2 DEF Ends
    <3> QED
      BY <2>2, <3>1, EndedTask, EndsTyped
  <2> QED
    BY <1>1, <2>1, <2>2
<1>3. (TypeOK /\ Counted)'
  BY <1>1, <1>2 DEF PlanningInv, TypeOK, Counted
<1>4. (SceneRules /\ SelectionStays /\ ProductionIsPlanned)' /\ LeaseGoesOn
  BY <1>1 DEF PlanningInv, SceneRules, SelectionStays, ProductionIsPlanned, LeaseGoesOn
<1> QED
  BY <1>1, <1>2, <1>3, <1>4, OthersKeepPlans

LEMMA RunFailsKeeps ==
  ASSUME PlanningInv, NEW r \in Request, RunFails(r) PROVE PlanningInv'
<1>1. /\ Ends(r) /\ Clock
      /\ scene' = scene \/ (Fenced(r) /\ scene' = Failed(scene))
      /\ UNCHANGED <<plan, open, reports, swept, rerolls>>
  BY DEF RunFails
<1>2. SceneMoves
  BY <1>1 DEF SceneMoves, Fenced, MayFail
<1>3. /\ scene' \in SceneRecord
      /\ SceneRules' /\ SelectionStays' /\ ProductionIsPlanned' /\ LeaseGoesOn
  BY <1>1, <1>2, SceneKeepsRules
<1>4. GoesDone(r)
  BY <1>1 DEF Ends
<1>5. /\ task' \in [Request -> TaskRecord] /\ TasksGoOn
      /\ inFlight' \in [Instance -> Request \cup {None}] /\ expired' \in BOOLEAN
  BY <1>1, <1>4, EndedTask, EndsTyped, ClockTyped
<1>6. (TypeOK /\ Counted)'
  BY <1>1, <1>3, <1>5 DEF PlanningInv, TypeOK, Counted
<1> QED
  BY <1>1, <1>3, <1>5, <1>6, OthersKeepPlans

\* The answer of the model becomes plans only under the lease, which then
\* ends with the run: the batch is the only one of its revision.
LEMMA WriteKeeps ==
  ASSUME PlanningInv, NEW r \in Request, Write(r) PROVE PlanningInv'
<1>1. /\ Ends(r) /\ Clock /\ UNCHANGED <<reports, swept, rerolls>>
      /\ task[r].phase = "thinking"
      /\ plan \in [Request -> PlanRecord] /\ scene \in SceneRecord
  BY DEF Write, PlanningInv, TypeOK
<1>2. GoesDone(r)
  BY <1>1 DEF Ends
<1>3. /\ task' \in [Request -> TaskRecord] /\ TasksGoOn /\ task'[r].phase = "done"
      /\ \A q \in Request : q # r => task'[q] = task[q]
      /\ inFlight' \in [Instance -> Request \cup {None}] /\ expired' \in BOOLEAN
  BY <1>1, <1>2, EndedTask, EndsTyped, ClockTyped
<1>4. CASE ~Fenced(r)
  <2>1. UNCHANGED <<plan, open, scene>>
    BY <1>4 DEF Write
  <2>2. (TypeOK /\ Counted)'
    BY <1>1, <1>3, <2>1 DEF PlanningInv, TypeOK, Counted
  <2>3. (SceneRules /\ SelectionStays /\ ProductionIsPlanned)' /\ LeaseGoesOn
    BY <2>1 DEF PlanningInv, SceneRules, SelectionStays, ProductionIsPlanned, LeaseGoesOn
  <2> QED
    BY <1>3, <2>1, <2>2, <2>3, OthersKeepPlans
<1>5. CASE Fenced(r)
  <2>1. /\ plan' = [plan EXCEPT ![r] = Draft(FALSE)]
        /\ \/ MoreJobs /\ scene' = PlanningCleared(scene)
           \/ UNCHANGED open /\ scene' = SubmittedForReview(scene)
        /\ scene.lease = r /\ scene.status = "generating_candidates"
    BY <1>5 DEF Write, Fenced
  <2>13. r \in Nat /\ r # None
    BY PlanningConstants DEF Request, None
  <2>2. /\ scene' \in SceneRecord /\ scene'.lease = None /\ scene'.revision = scene.revision
        /\ scene'.plan = scene.plan /\ scene'.planRevision = scene.planRevision
        /\ scene'.approvedPlan = scene.approvedPlan
        /\ scene'.status \in {"generating_candidates", "director_review"}
    <3>1. PlanningCleared(scene) \in SceneRecord /\ SubmittedForReview(scene) \in SceneRecord
      BY <1>1, <2>13, ScenesOfScenes
    <3>2. CASE scene' = PlanningCleared(scene)
      BY <1>1, <2>1, <3>1, <3>2 DEF PlanningCleared, SceneRecord
    <3>3. CASE scene' = SubmittedForReview(scene)
      BY <1>1, <2>1, <3>1, <3>3 DEF SubmittedForReview, MovedTo, SceneRecord
    <3> QED
      BY <2>1, <3>2, <3>3
  <2>3. /\ open' \in 0..MaxJobs /\ reports' \in 0..MaxJobs /\ Counted'
    BY <1>1, <2>1, MoreJobsCounted
  <2>4. /\ plan' \in [Request -> PlanRecord]
        /\ plan'[r].status = "draft" /\ plan'[r].revision = scene.revision
        /\ ~plan'[r].variation
        /\ \A q \in Request : q # r => plan'[q] = plan[q]
    BY <1>1, <2>1, DraftIsPlan
  <2>5. (TypeOK /\ Counted)'
    BY <1>1, <1>3, <2>2, <2>3, <2>4 DEF PlanningInv, TypeOK
  <2>6. plan[r].status = "absent"
    BY <1>1 DEF PlanningInv, UnwrittenUntilDone
  <2>7. (SceneRules /\ ProductionIsPlanned)'
    BY <2>1, <2>2, <2>13 DEF PlanningInv, SceneRules, ProductionIsPlanned, InProduction, PlanOrNone
  <2>8. SelectionStays'
    BY <2>1, <2>2, <2>4, <2>6 DEF PlanningInv, SelectionStays, SceneRules, PlanOrNone
  <2>9. UnwrittenUntilDone'
    BY <1>3, <2>4 DEF PlanningInv, UnwrittenUntilDone, Working
  <2>10. HolderStartsClean'
    BY <2>2 DEF HolderStartsClean
  <2>11. \A p \in Request : ~LiveDraft(p, scene.revision)
    BY <1>1, <2>1, <2>13 DEF PlanningInv, HolderStartsClean, Working
  <2>12. OneLiveBatch'
    BY <2>4, <2>11 DEF PlanningInv, OneLiveBatch, LiveDraft
  <2> QED
    BY <2>5, <2>7, <2>8, <2>9, <2>10, <2>12 DEF PlanningInv
<1> QED
  BY <1>4, <1>5

\* The approval supersedes the other drafts and approves the selected plan.
LEMMA ApproveShotPlanKeeps ==
  ASSUME PlanningInv, NEW p \in Request, ApproveShotPlan(p) PROVE PlanningInv'
<1>1. /\ MayApprovePlan(scene, p) /\ scene' = PlanApproved(scene, p)
      /\ plan' = [Superseded(PlansOf(scene.revision)) EXCEPT ![p].status = "approved"]
      /\ plan[p].status = "draft" /\ plan[p].revision = scene.revision
      /\ UNCHANGED <<expired, task, inFlight, open, reports, swept, rerolls>>
      /\ p \in Nat /\ p # None /\ scene \in SceneRecord
  BY PlanningConstants DEF ApproveShotPlan, PlanningInv, TypeOK, Request, None
<1>2. /\ scene' \in SceneRecord /\ scene'.status = "approved" /\ scene'.lease = scene.lease
      /\ scene'.plan = p /\ scene'.approvedPlan = p /\ scene'.planRevision = scene.revision
      /\ scene'.revision = scene.revision /\ scene.status = "director_review"
  <2>1. scene' \in SceneRecord
    BY <1>1, ScenesOfScenes
  <2> QED
    BY <1>1, <2>1 DEF PlanApproved, MayApprovePlan, HasValidPlan, MovedTo, SceneRecord
<1>3. PlansOf(scene.revision) \in SUBSET Request
  BY DEF PlansOf
<1>4. /\ plan' \in [Request -> PlanRecord]
      /\ plan'[p].status = "approved" /\ plan'[p].revision = scene.revision
      /\ \A q \in Request :
           /\ plan'[q].revision = plan[q].revision
           /\ plan'[q].variation = plan[q].variation
           /\ q # p => plan'[q].status = plan[q].status
                       \/ (plan[q].status = "draft" /\ plan'[q].status = "superseded")
  <2> DEFINE sup == Superseded(PlansOf(scene.revision))
  <2>1. /\ sup \in [Request -> PlanRecord]
        /\ \A q \in Request :
             /\ sup[q].revision = plan[q].revision
             /\ sup[q].variation = plan[q].variation
             /\ sup[q].status = plan[q].status
                \/ (plan[q].status = "draft" /\ sup[q].status = "superseded")
    BY <1>3, SupersededPlans
  <2>2. plan' = [sup EXCEPT ![p] = [sup[p] EXCEPT !.status = "approved"]]
    BY <1>1
  <2> HIDE DEF sup
  <2>3. /\ [sup[p] EXCEPT !.status = "approved"] \in PlanRecord
        /\ [sup[p] EXCEPT !.status = "approved"].status = "approved"
        /\ [sup[p] EXCEPT !.status = "approved"].revision = sup[p].revision
        /\ [sup[p] EXCEPT !.status = "approved"].variation = sup[p].variation
    BY <2>1 DEF PlanRecord
  <2>4. plan' \in [Request -> PlanRecord] /\ plan'[p] = [sup[p] EXCEPT !.status = "approved"]
        /\ \A q \in Request : q # p => plan'[q] = sup[q]
    BY <2>1, <2>2, <2>3
  <2>5. ASSUME NEW q \in Request, q # p
        PROVE  /\ plan'[q].revision = plan[q].revision
               /\ plan'[q].variation = plan[q].variation
               /\ plan'[q].status = plan[q].status
                  \/ (plan[q].status = "draft" /\ plan'[q].status = "superseded")
    BY <2>1, <2>4, <2>5
  <2>6. /\ plan'[p].status = "approved"
        /\ plan'[p].revision = plan[p].revision
        /\ plan'[p].variation = plan[p].variation
    BY <2>1, <2>3, <2>4
  <2> QED
    BY <1>1, <2>4, <2>5, <2>6
<1>5. (TypeOK /\ Counted)'
  BY <1>1, <1>2, <1>4 DEF PlanningInv, TypeOK, Counted
<1>6. (SceneRules /\ ProductionIsPlanned /\ SelectionStays)'
  BY <1>1, <1>2, <1>4
     DEF PlanningInv, SceneRules, ProductionIsPlanned, SelectionStays, InProduction, PlanOrNone
<1>7. UnwrittenUntilDone'
  BY <1>1, <1>4 DEF PlanningInv, UnwrittenUntilDone
<1>8. HolderStartsClean'
  BY <1>1, <1>2 DEF PlanningInv, HolderStartsClean, SceneRules
<1>9. OneLiveBatch'
  <2>1. OneLiveBatch
    BY DEF PlanningInv
  <2>2. \A q \in Request : plan'[q].status = "draft" => plan[q].status = "draft"
    BY <1>4
  <2>3. ASSUME NEW a \in Request, NEW b \in Request,
               {plan'[a].status, plan'[b].status} = {"draft"},
               ~plan'[a].variation, ~plan'[b].variation, plan'[a].revision = plan'[b].revision
        PROVE  a = b
    <3>1. plan[a].status = "draft" /\ plan[b].status = "draft"
      BY <2>2, <2>3
    <3>2. ~plan[a].variation /\ ~plan[b].variation /\ plan[a].revision = plan[b].revision
      BY <1>4, <2>3
    <3> QED
      BY <2>1, <3>1, <3>2 DEF OneLiveBatch
  <2> QED
    BY <2>3 DEF OneLiveBatch
<1> QED
  BY <1>5, <1>6, <1>7, <1>8, <1>9 DEF PlanningInv

\* The synchronous reroll makes a new batch where it supersedes the old one,
\* and takes the selection back.
LEMMA RerollShotPlanKeeps ==
  ASSUME PlanningInv, NEW r \in Request, RerollShotPlan(r) PROVE PlanningInv'
<1>1. /\ scene' = PlanningCleared(PlanRerolled(scene, None))
      /\ plan' = [Superseded(PlansOf(scene.revision)) EXCEPT ![r] = Draft(FALSE)]
      /\ MoreJobs /\ GoesDone(r) /\ scene.status = "director_review"
      /\ UNCHANGED <<expired, inFlight, reports, swept, rerolls>>
      /\ scene \in SceneRecord
  BY DEF RerollShotPlan, MayReroll, PlanningInv, TypeOK
<1>2. /\ scene' \in SceneRecord /\ scene'.status = "generating_candidates"
      /\ scene'.lease = None /\ scene'.plan = None /\ scene'.approvedPlan = None
      /\ scene'.revision = scene.revision
  <2>1. PlanRerolled(scene, None) \in SceneRecord
    BY <1>1, ScenesOfScenes DEF None
  <2>2. /\ PlanRerolled(scene, None).status = "generating_candidates"
        /\ PlanRerolled(scene, None).plan = None
        /\ PlanRerolled(scene, None).approvedPlan = None
        /\ PlanRerolled(scene, None).revision = scene.revision
    BY <1>1, <2>1 DEF PlanRerolled, WithoutApprovedPlan, MovedTo, SceneRecord
  <2> HIDE DEF PlanRerolled
  <2> QED
    BY <1>1, <2>1, <2>2 DEF PlanningCleared, SceneRecord, None
<1>3. /\ task' \in [Request -> TaskRecord] /\ task'[r].phase = "done"
      /\ \A q \in Request : q # r => task'[q] = task[q]
  BY <1>1, EndedTask
<1>4. open' \in 0..MaxJobs /\ reports' \in 0..MaxJobs /\ Counted'
  BY <1>1, MoreJobsCounted
<1>5. PlansOf(scene.revision) \in SUBSET Request
  BY DEF PlansOf
<1>6. /\ plan' \in [Request -> PlanRecord]
      /\ plan'[r].revision = scene.revision
      /\ \A q \in Request : q # r =>
           /\ plan'[q].revision = plan[q].revision
           /\ plan'[q].variation = plan[q].variation
           /\ plan'[q].status = plan[q].status
              \/ (plan[q].status = "draft" /\ plan'[q].status = "superseded")
           /\ plan'[q].status = "draft" => plan[q].status = "draft" /\ q \notin PlansOf(scene.revision)
  <2> DEFINE sup == Superseded(PlansOf(scene.revision))
  <2>1. /\ sup \in [Request -> PlanRecord]
        /\ \A q \in Request :
             /\ sup[q].revision = plan[q].revision
             /\ sup[q].variation = plan[q].variation
             /\ sup[q].status = plan[q].status
                \/ (plan[q].status = "draft" /\ sup[q].status = "superseded")
             /\ sup[q].status = "draft" => plan[q].status = "draft" /\ q \notin PlansOf(scene.revision)
    BY <1>5, SupersededPlans
  <2>2. plan' = [sup EXCEPT ![r] = Draft(FALSE)]
    BY <1>1
  <2> HIDE DEF sup
  <2>3. plan' \in [Request -> PlanRecord] /\ plan'[r] = Draft(FALSE)
        /\ \A q \in Request : q # r => plan'[q] = sup[q]
    BY <2>1, <2>2, DraftIsPlan
  <2>4. Draft(FALSE).revision = scene.revision /\ Draft(FALSE).status = "draft"
    BY DEF Draft
  <2> QED
    BY <2>1, <2>3, <2>4
<1>7. (TypeOK /\ Counted)'
  BY <1>1, <1>2, <1>3, <1>4, <1>6 DEF PlanningInv, TypeOK
<1>8. (SceneRules /\ ProductionIsPlanned /\ SelectionStays /\ HolderStartsClean)'
  BY <1>2 DEF SceneRules, ProductionIsPlanned, SelectionStays, HolderStartsClean, InProduction,
              PlanOrNone
<1>9. UnwrittenUntilDone'
  BY <1>3, <1>6 DEF PlanningInv, UnwrittenUntilDone, Working
<1>10. OneLiveBatch'
  <2>1. ASSUME NEW a \in Request, NEW b \in Request,
               {plan'[a].status, plan'[b].status} = {"draft"},
               ~plan'[a].variation, ~plan'[b].variation, plan'[a].revision = plan'[b].revision
        PROVE  a = b
    <3>1. plan'[a].status = "draft" /\ plan'[b].status = "draft"
      BY <2>1
    <3>2. ASSUME NEW q \in Request, q # r, plan'[q].status = "draft"
          PROVE  plan'[q].revision # scene.revision
      BY <1>6, <3>2 DEF PlansOf
    <3>3. CASE a # r /\ b # r
      <4>1. plan[a].status = "draft" /\ plan[b].status = "draft"
            /\ ~plan[a].variation /\ ~plan[b].variation /\ plan[a].revision = plan[b].revision
        BY <1>6, <2>1, <3>1, <3>3
      <4> QED
        BY <4>1 DEF PlanningInv, OneLiveBatch
    <3>4. CASE a = r \/ b = r
      BY <1>6, <2>1, <3>1, <3>2, <3>4
    <3> QED
      BY <3>3, <3>4
  <2> QED
    BY <2>1 DEF OneLiveBatch
<1> QED
  BY <1>7, <1>8, <1>9, <1>10 DEF PlanningInv

\* A variation is beside the batch.
LEMMA VariationKeeps ==
  ASSUME PlanningInv, NEW r \in Request, CreateShotPlanVariation(r) PROVE PlanningInv'
<1>1. /\ plan' = [plan EXCEPT ![r] = Draft(TRUE)] /\ GoesDone(r)
      /\ UNCHANGED <<expired, inFlight, reports, swept, rerolls>>
      /\ scene.status \in {"draft_pending", "director_review"}
      /\ UNCHANGED open \/ MoreJobs
      /\ scene' = scene \/ (scene.status = "draft_pending" /\ scene' = Generating(scene, None))
      /\ plan \in [Request -> PlanRecord] /\ scene \in SceneRecord
      /\ task[r].phase = "new"
  <2>1. task[r].phase = "new"
    BY PlanningConstants DEF CreateShotPlanVariation, Fresh, Request
  <2> QED
    BY <2>1 DEF CreateShotPlanVariation, PlanningInv, TypeOK
<1>2. /\ task' \in [Request -> TaskRecord] /\ task'[r].phase = "done"
      /\ \A q \in Request : q # r => task'[q] = task[q]
  BY <1>1, EndedTask
<1>3. open' \in 0..MaxJobs /\ reports' \in 0..MaxJobs /\ Counted'
  BY <1>1, MoreJobsCounted
<1>4. /\ plan' \in [Request -> PlanRecord] /\ plan'[r].variation
      /\ \A q \in Request : q # r => plan'[q] = plan[q]
      /\ plan[r].status = "absent"
  <2>1. plan[r].status = "absent"
    BY <1>1 DEF PlanningInv, UnwrittenUntilDone
  <2> QED
    BY <1>1, <2>1, DraftIsPlan
<1>5. /\ scene' \in SceneRecord /\ scene'.revision = scene.revision
      /\ scene'.plan = scene.plan /\ scene'.planRevision = scene.planRevision
      /\ scene'.approvedPlan = scene.approvedPlan /\ scene'.lease = None
      /\ scene'.status # "draft_pending" => scene' = scene \/ scene.status = "draft_pending"
      /\ scene'.status \in {"draft_pending", "director_review", "generating_candidates"}
      /\ scene'.status = "draft_pending" => scene.status = "draft_pending"
  <2>1. scene.lease = None
    BY <1>1 DEF PlanningInv, SceneRules
  <2>2. CASE scene' = scene
    BY <1>1, <2>1, <2>2
  <2>3. CASE scene.status = "draft_pending" /\ scene' = Generating(scene, None)
    <3>1. scene' \in SceneRecord
      BY <1>1, <2>3, ScenesOfScenes DEF None
    <3> QED
      BY <1>1, <2>1, <2>3, <3>1 DEF Generating, MovedTo, SceneRecord, None
  <2> QED
    BY <1>1, <2>2, <2>3
<1>6. (TypeOK /\ Counted)'
  BY <1>1, <1>2, <1>3, <1>4, <1>5 DEF PlanningInv, TypeOK
<1>7. (SceneRules /\ ProductionIsPlanned)'
  BY <1>1, <1>5 DEF PlanningInv, SceneRules, ProductionIsPlanned, InProduction
<1>8. SelectionStays'
  BY <1>1, <1>4, <1>5 DEF PlanningInv, SelectionStays, SceneRules, PlanOrNone, InProduction
<1>9. HolderStartsClean'
  BY <1>5 DEF HolderStartsClean
<1>10. UnwrittenUntilDone'
  BY <1>2, <1>4 DEF PlanningInv, UnwrittenUntilDone, Working
<1>11. OneLiveBatch'
  <2>1. ASSUME NEW a \in Request, NEW b \in Request,
               {plan'[a].status, plan'[b].status} = {"draft"},
               ~plan'[a].variation, ~plan'[b].variation, plan'[a].revision = plan'[b].revision
        PROVE  a = b
    <3>1. plan'[a] = plan[a] /\ plan'[b] = plan[b]
      BY <1>4, <2>1
    <3> QED
      BY <2>1, <3>1 DEF PlanningInv, OneLiveBatch
  <2> QED
    BY <2>1 DEF OneLiveBatch
<1> QED
  BY <1>6, <1>7, <1>8, <1>9, <1>10, <1>11 DEF PlanningInv

\* Every step keeps the invariant.
LEMMA PlanningStep == PlanningInv /\ [Next]_vars => PlanningInv'
<1> SUFFICES ASSUME PlanningInv, [Next]_vars PROVE PlanningInv'
  OBVIOUS
<1>1. CASE Moves
  BY <1>1, MovesKeep
<1>2. CASE \E r \in Request : \/ \E i \in Instance : Ask(r, i)
                              \/ AdmitWithoutRun(r) \/ Admit(r) \/ ReadScene(r)
                              \/ Write(r) \/ RunFails(r)
  BY <1>2, AskKeeps, AdmitWithoutRunKeeps, AdmitKeeps, ReadSceneKeeps, WriteKeeps, RunFailsKeeps
<1>3. CASE \E i \in Instance : Crash(i)
  BY <1>3, CrashKeeps
<1>4. CASE \E r \in Request : ApproveShotPlan(r) \/ RerollShotPlan(r) \/ CreateShotPlanVariation(r)
  BY <1>4, ApproveShotPlanKeeps, RerollShotPlanKeeps, VariationKeeps
<1>5. CASE UNCHANGED vars
  BY <1>5
     DEF vars, PlanningInv, TypeOK, Counted, SceneRules, UnwrittenUntilDone, HolderStartsClean,
         LiveDraft, SelectionStays, ProductionIsPlanned, OneLiveBatch
<1> QED
  BY <1>1, <1>2, <1>3, <1>4, <1>5 DEF Next, Director, Moves

LEMMA PlanningInvariance == Spec => []PlanningInv
  BY InitPlanning, PlanningStep, PTL DEF Spec

\* The director has one batch of drafts to choose from, whatever runs were
\* started where, overtaken, expired or repeated (prepareAdmission and
\* executePlanningPipeline of plan-shot-plans.ts).
THEOREM OneBatchAtATime == Spec => [](TypeOK /\ OneLiveBatch)
<1>1. PlanningInv => TypeOK /\ OneLiveBatch
  BY DEF PlanningInv
<1> QED
  BY <1>1, PlanningInvariance, PTL

\* The selected plan is there to be approved, whoever superseded drafts.
THEOREM SelectionsStayLive == Spec => []SelectedPlanIsLive
<1>1. PlanningInv => SelectedPlanIsLive
  BY DEF PlanningInv, SelectionStays, SelectedPlanIsLive
<1> QED
  BY <1>1, PlanningInvariance, PTL

\* A planner that can still write holds the lease of a scene without drafts of
\* its revision, wherever it runs and whoever took the lease over before: its
\* answer is the only one there will be (executePlanningPipeline,
\* prepareAdmission).
THEOREM PlannersStartClean == Spec => []HolderStartsClean
<1>1. PlanningInv => HolderStartsClean
  BY DEF PlanningInv
<1> QED
  BY <1>1, PlanningInvariance, PTL

\* The scene is leased to a run only while it generates, selects plans of its
\* present revision, and keeps an approved plan only past review and only as
\* its selected one: the rules of the aggregate, under every order of leases,
\* reports, crashes and commands (scene.ts).
THEOREM PlanningKeepsSceneRules == Spec => []SceneRules
<1>1. PlanningInv => SceneRules
  BY DEF PlanningInv
<1> QED
  BY <1>1, PlanningInvariance, PTL

\* A scene in production renders the plan that was approved for the revision
\* it has (prepare-scene-production-inputs.ts).
THEOREM ProductionRendersApprovedPlans == Spec => []ProducedPlanIsApproved
<1>1. PlanningInv => ProducedPlanIsApproved
  BY DEF PlanningInv, SceneRules, SelectionStays, ProductionIsPlanned, ProducedPlanIsApproved,
         InProduction
<1> QED
  BY <1>1, PlanningInvariance, PTL

\* A plan keeps the revision it was made for, and one that was approved or
\* superseded stays so: no planning, of whatever instance and however late,
\* takes an approval back or revives a draft.
PlansGoOneWay ==
  \A p \in Request :
    /\ plan[p].status # "absent" =>
         /\ plan'[p].revision = plan[p].revision
         /\ plan'[p].variation = plan[p].variation
    /\ plan[p].status \in {"approved", "superseded"} => plan'[p].status = plan[p].status

\* What was approved or superseded stays so (the statements that change
\* status in plan-shot-plans.ts and review-scene.ts).
THEOREM PlansStayAsDecided == Spec => [][PlansGoOneWay]_vars
<1>1. ASSUME PlanningInv, [Next]_vars PROVE PlansGoOneWay
  <2>0. \A r \in Request : task[r].phase # "done" => plan[r].status = "absent"
    BY <1>1 DEF PlanningInv, UnwrittenUntilDone
  <2>1. CASE UNCHANGED plan
    BY <2>1 DEF PlansGoOneWay
  <2>2. ASSUME NEW r \in Request, NEW v \in BOOLEAN, NEW old \in [Request -> PlanRecord],
               plan[r].status = "absent", plan' = [old EXCEPT ![r] = Draft(v)],
               \A q \in Request : /\ old[q].revision = plan[q].revision
                                  /\ old[q].variation = plan[q].variation
                                  /\ old[q].status = plan[q].status
                                     \/ (plan[q].status = "draft" /\ old[q].status = "superseded")
        PROVE  PlansGoOneWay
    BY <2>2 DEF PlansGoOneWay
  <2>3. plan \in [Request -> PlanRecord]
    BY <1>1 DEF PlanningInv, TypeOK
  <2>4. ASSUME NEW P \in SUBSET Request
        PROVE  /\ Superseded(P) \in [Request -> PlanRecord]
               /\ \A q \in Request :
                    /\ Superseded(P)[q].revision = plan[q].revision
                    /\ Superseded(P)[q].variation = plan[q].variation
                    /\ Superseded(P)[q].status = plan[q].status
                       \/ (plan[q].status = "draft" /\ Superseded(P)[q].status = "superseded")
    BY <1>1, SupersededPlans
  <2>5. PlansOf(scene.revision) \in SUBSET Request
    BY DEF PlansOf
  <2>6. CASE plan' = Superseded(PlansOf(scene.revision))
    BY <2>4, <2>5, <2>6 DEF PlansGoOneWay
  <2>7. ASSUME NEW r \in Request, AdmitWithoutRun(r) \/ Admit(r) PROVE PlansGoOneWay
    <3>1. UNCHANGED plan \/ plan' = Superseded(PlansOf(scene.revision))
      BY <2>7 DEF AdmitWithoutRun, Admit, SupersededOnReroll
    <3> QED
      BY <2>1, <2>6, <3>1
  <2>8. ASSUME NEW r \in Request, Write(r) PROVE PlansGoOneWay
    <3>1. UNCHANGED plan \/ plan' = [plan EXCEPT ![r] = Draft(FALSE)]
      BY <2>8 DEF Write
    <3>2. plan[r].status = "absent"
      BY <2>0, <2>8 DEF Write
    <3> QED
      BY <2>1, <2>2, <2>3, <3>1, <3>2
  <2>9. ASSUME NEW r \in Request, Fresh(r), RerollShotPlan(r) \/ CreateShotPlanVariation(r)
        PROVE  PlansGoOneWay
    <3>1. plan[r].status = "absent"
      BY <2>0, <2>9, PlanningConstants DEF Fresh, Request
    <3>2. \/ plan' = [Superseded(PlansOf(scene.revision)) EXCEPT ![r] = Draft(FALSE)]
          \/ plan' = [plan EXCEPT ![r] = Draft(TRUE)]
      BY <2>9 DEF RerollShotPlan, CreateShotPlanVariation
    <3>3. CASE plan' = [plan EXCEPT ![r] = Draft(TRUE)]
      BY <2>2, <2>3, <3>1, <3>3
    <3>4. CASE plan' = [Superseded(PlansOf(scene.revision)) EXCEPT ![r] = Draft(FALSE)]
      <4> DEFINE old == Superseded(PlansOf(scene.revision))
      <4>1. /\ old \in [Request -> PlanRecord]
            /\ \A q \in Request : /\ old[q].revision = plan[q].revision
                                  /\ old[q].variation = plan[q].variation
                                  /\ old[q].status = plan[q].status
                                     \/ (plan[q].status = "draft" /\ old[q].status = "superseded")
        BY <2>4, <2>5
      <4>2. plan' = [old EXCEPT ![r] = Draft(FALSE)]
        BY <3>4
      <4> HIDE DEF old
      <4> QED
        BY <2>2, <3>1, <4>1, <4>2
    <3> QED
      BY <3>2, <3>3, <3>4
  <2>10. ASSUME NEW r \in Request, ApproveShotPlan(r) PROVE PlansGoOneWay
    <3> DEFINE old == Superseded(PlansOf(scene.revision))
    <3>1. plan' = [old EXCEPT ![r] = [old[r] EXCEPT !.status = "approved"]] /\ plan[r].status = "draft"
      BY <2>10 DEF ApproveShotPlan
    <3>2. /\ old \in [Request -> PlanRecord]
          /\ \A q \in Request : /\ old[q].revision = plan[q].revision
                                /\ old[q].variation = plan[q].variation
                                /\ old[q].status = plan[q].status
                                   \/ (plan[q].status = "draft" /\ old[q].status = "superseded")
      BY <2>4, <2>5
    <3> HIDE DEF old
    <3>3. /\ [old[r] EXCEPT !.status = "approved"].revision = old[r].revision
          /\ [old[r] EXCEPT !.status = "approved"].variation = old[r].variation
      BY <3>2 DEF PlanRecord
    <3> QED
      BY <3>1, <3>2, <3>3 DEF PlansGoOneWay
  <2>11. CASE Moves \/ UNCHANGED vars \/ \E i \in Instance : Crash(i)
    <3>1. UNCHANGED plan
      BY <1>1, <2>11, MovesKeepCounts DEF vars, Crash
    <3> QED
      BY <2>1, <3>1
  <2>12. ASSUME NEW r \in Request, (\E i \in Instance : Ask(r, i)) \/ ReadScene(r) \/ RunFails(r)
         PROVE  PlansGoOneWay
    <3>1. UNCHANGED plan
      BY <2>12 DEF Ask, ReadScene, RunFails
    <3> QED
      BY <2>1, <3>1
  <2> QED
    BY <1>1, <2>7, <2>8, <2>9, <2>10, <2>11, <2>12
       DEF Next, Director, Moves, RerollShotPlan, CreateShotPlanVariation
<1>2. PlanningInv /\ [Next]_vars => [PlansGoOneWay]_vars
  BY <1>1
<1> QED
  BY <1>2, PlanningInvariance, PTL DEF Spec
=============================================================================
