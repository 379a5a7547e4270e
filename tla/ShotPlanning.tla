---------------------------- MODULE ShotPlanning ----------------------------
(***************************************************************************)
(* The planning of shots for one scene (SceneAggregate).  A request to an  *)
(* instance of the control API is admitted in a transaction that leases    *)
(* the scene to a new planning run; the run then reads the scene, asks a   *)
(* language model outside any transaction, and writes its plans and their  *)
(* previs jobs, or its failure, in another transaction fenced by the       *)
(* lease.  Meanwhile the lease expires and is reaped, instances crash, the *)
(* candidate jobs of the scene are reported, and the director goes on.     *)
(*                                                                         *)
(* The number of a request is the number of its run and of the plans it    *)
(* makes: the variants of one answer are one plan here, the previs jobs    *)
(* of its beats one job.  Left out: references, the campaign bible, the    *)
(* prompts and the policy, and the retries inside one call of the model.   *)
(*                                                                         *)
(* Bounds: MaxRequest requests, MaxRevision, MaxJobs candidate jobs or     *)
(* reports at a time, MaxRerolls beats rendered again, and one production  *)
(* attempt.                                                                *)
(***************************************************************************)
EXTENDS SceneAggregate, FiniteSets

CONSTANTS Instance, MaxRequest, MaxRevision, MaxJobs, MaxRerolls

ASSUME PlanningConstants ==
  /\ MaxRequest \in Nat /\ MaxRevision \in Nat /\ MaxJobs \in Nat
  /\ MaxRerolls \in Nat

Request == 1..MaxRequest

VARIABLES
  scene,     \* the aggregate
  expired,   \* the lease on the scene has run out
  plan,      \* plan[r]: the shot plans that request r has made
  task,      \* task[r]: how far the request has come, and where
  inFlight,  \* inFlight[i]: the coordinator's task of the scene in instance i
  open,      \* how many candidate jobs of the scene are not terminal
  reports,   \* how many reports of candidate jobs await their follow-up
  swept,     \* history: a candidate job has ended without a report
  rerolls    \* how many beats have been rendered again

vars == <<scene, expired, plan, task, inFlight, open, reports, swept, rerolls>>

Working == {"reading", "thinking"}

PlanRecord ==
  [status : {"absent", "draft", "approved", "superseded"}, revision : Nat,
   variation : BOOLEAN]

TaskRecord ==
  [phase : {"new", "checked", "done"} \cup Working, at : Instance \cup {None},
   reroll : BOOLEAN, revision : Nat]

Init ==
  /\ scene = NewScene
  /\ expired = FALSE
  /\ plan = [r \in Request |-> [status |-> "absent", revision |-> None, variation |-> FALSE]]
  /\ task = [r \in Request |-> [phase |-> "new", at |-> None, reroll |-> FALSE,
                                revision |-> None]]
  /\ inFlight = [i \in Instance |-> None]
  /\ open = 0
  /\ reports = 0
  /\ swept = FALSE
  /\ rerolls = 0

\* Requests are alike: they are used in the order of their numbers.
Fresh(r) == \A q \in Request : task[q].phase = "new" <=> q >= r

\* So are instances: the first request comes to a fixed one.
Anywhere(r, i) == r = 1 => i = CHOOSE j \in Instance : TRUE

Goes(r, phase) == task' = [task EXCEPT ![r].phase = phase]

\* Of a task that is done only the revision of its lease is of interest.
Done(t) == [t EXCEPT !.phase = "done", !.at = None, !.reroll = FALSE]
GoesDone(r) == task' = [task EXCEPT ![r] = Done(@)]

PlansOf(rev) == {q \in Request : plan[q].status # "absent" /\ plan[q].revision = rev}

AllSuperseded(P) ==
  [q \in Request |-> IF q \in P /\ plan[q].status # "absent"
                     THEN [plan[q] EXCEPT !.status = "superseded"] ELSE plan[q]]

\* The plans after the drafts among P have been superseded.
Superseded(P) ==
  [q \in Request |-> IF q \in P /\ plan[q].status = "draft"
                     THEN [plan[q] EXCEPT !.status = "superseded"] ELSE plan[q]]

Draft(variation) ==
  [status |-> "draft", revision |-> scene.revision, variation |-> variation]

\* The clock runs only for a lease that is there.
Clock == expired' = (expired /\ scene'.lease # None)

MoreJobs == open + reports < MaxJobs /\ open' = open + 1
-----------------------------------------------------------------------------
(* Admission.                                                              *)

\* The coordinator looks for a task of the scene in its own process.  A
\* change of references asks in the same way, without reroll.
Ask(r, i) ==
  /\ Fresh(r) /\ Anywhere(r, i)
  /\ \E reroll \in BOOLEAN :
       IF inFlight[i] = None
       THEN task' = [task EXCEPT ![r].phase = "checked", ![r].at = i, ![r].reroll = reroll]
       ELSE GoesDone(r)
  /\ UNCHANGED <<scene, expired, plan, inFlight, open, reports, swept, rerolls>>

Leased == scene.status = "generating_candidates" /\ scene.lease # None /\ ~expired

\* A new run takes any scene that can generate, or a failed one.
MayLease(s) == MayGenerate(s) \/ MayRecover(s)

LeasedTo(s, r) ==
  CASE s.status = "director_review" /\ task[r].reroll -> PlanRerolled(s, r)
    [] s.status = "failed" -> Generating(BackInReview(s), r)
    [] OTHER -> Generating(s, r)

Admission(r) == task[r].phase = "checked"

Replayed(r) == ~task[r].reroll /\ PlansOf(scene.revision) # {}

SupersededOnReroll(r) ==
  IF task[r].reroll THEN Superseded(PlansOf(scene.revision)) ELSE plan

\* Answered without a run: with the plans there are, as a duplicate of the
\* run that has the lease (a reroll has superseded the drafts by then), or
\* refused because the scene is past planning (and the transaction undone).
AdmitWithoutRun(r) ==
  /\ Admission(r)
  /\ \/ Replayed(r) /\ UNCHANGED plan
     \/ ~Replayed(r) /\ Leased /\ plan' = SupersededOnReroll(r)
     \/ ~Replayed(r) /\ ~Leased /\ ~MayLease(scene) /\ UNCHANGED plan
  /\ GoesDone(r)
  /\ UNCHANGED <<scene, expired, inFlight, open, reports, swept, rerolls>>

\* The lease is committed; the task starts unless a request that overtook
\* this one has started one in the same process.
Admit(r) ==
  /\ Admission(r) /\ ~Replayed(r) /\ ~Leased /\ MayLease(scene)
  /\ scene' = LeasedTo(scene, r)
  /\ expired' = FALSE
  /\ plan' = SupersededOnReroll(r)
  /\ LET t == [task[r] EXCEPT !.reroll = FALSE, !.revision = scene.revision]
     IN IF inFlight[t.at] = None
        THEN /\ task' = [task EXCEPT ![r] = [t EXCEPT !.phase = "reading"]]
             /\ inFlight' = [inFlight EXCEPT ![t.at] = r]
        ELSE /\ task' = [task EXCEPT ![r] = Done(t)]
             /\ UNCHANGED inFlight
  /\ UNCHANGED <<open, reports, swept, rerolls>>
-----------------------------------------------------------------------------
(* The planning run.                                                       *)

FencedByScene(r) ==
  scene.status = "generating_candidates" /\ scene.revision = task[r].revision

Fenced(r) ==
  /\ scene.status = "generating_candidates"
  /\ scene.revision = task[r].revision
  /\ scene.lease = r

Ends(r) ==
  /\ GoesDone(r)
  /\ inFlight' = [inFlight EXCEPT ![task[r].at] = None]

\* The first transaction: a run that has lost the scene ends at once.
ReadScene(r) ==
  /\ task[r].phase = "reading"
  /\ IF Fenced(r) THEN Goes(r, "thinking") /\ UNCHANGED inFlight ELSE Ends(r)
  /\ UNCHANGED <<scene, expired, plan, open, reports, swept, rerolls>>

\* The model has answered; the second transaction: the plans, and their
\* previs jobs unless the request wanted none.
Write(r) ==
  /\ task[r].phase = "thinking"
  /\ IF Fenced(r)
     THEN /\ plan' = [plan EXCEPT ![r] = Draft(FALSE)]
          /\ \/ MoreJobs /\ scene' = PlanningCleared(scene)
             \/ UNCHANGED open /\ scene' = SubmittedForReview(scene)
     ELSE UNCHANGED <<plan, open, scene>>
  /\ Ends(r)
  /\ Clock
  /\ UNCHANGED <<reports, swept, rerolls>>

\* The deadline, a refusal of the model, an error or the shutdown.  The scene
\* learns of it, unless that transaction fails as well: the error is
\* swallowed.
RunFails(r) ==
  /\ task[r].phase \in Working
  /\ scene' \in {scene} \cup (IF Fenced(r) THEN {Failed(scene)} ELSE {})
  /\ Ends(r)
  /\ Clock
  /\ UNCHANGED <<plan, open, reports, swept, rerolls>>

\* The lease outlasts the deadline of the run, but not a transaction that
\* hangs or a process that stands still.
LeaseExpires ==
  /\ scene.lease # None /\ ~expired
  /\ expired' = TRUE
  /\ UNCHANGED <<scene, plan, task, inFlight, open, reports, swept, rerolls>>

ReapOwn ==
  /\ scene.status = "generating_candidates" /\ expired
  /\ \E i \in Instance : inFlight[i] # None /\ inFlight[i] = scene.lease
  /\ scene' = Failed(scene)
  /\ Clock
  /\ UNCHANGED <<plan, task, inFlight, open, reports, swept, rerolls>>

Reap ==
  /\ scene.status = "generating_candidates" /\ scene.lease # None /\ expired
  /\ scene' = Failed(scene)
  /\ Clock
  /\ UNCHANGED <<plan, task, inFlight, open, reports, swept, rerolls>>

Crash(i) ==
  /\ \E r \in Request : task[r].at = i
  /\ task' = [r \in Request |-> IF task[r].at = i THEN Done(task[r]) ELSE task[r]]
  /\ inFlight' = [inFlight EXCEPT ![i] = None]
  /\ UNCHANGED <<scene, expired, plan, open, reports, swept, rerolls>>
-----------------------------------------------------------------------------
(* The candidate jobs of the scene, of whatever revision, plan or request. *)

JobReported ==
  /\ open > 0
  /\ open' = open - 1 /\ reports' = reports + 1
  /\ UNCHANGED <<scene, expired, plan, task, inFlight, swept, rerolls>>

\* A job whose last lease has expired is failed by the queue's sweep.
JobSwept ==
  /\ open > 0
  /\ open' = open - 1 /\ swept' = TRUE
  /\ UNCHANGED <<scene, expired, plan, task, inFlight, reports, rerolls>>

SubmittedIfOneIsLeft(s) ==
  IF open = 1 /\ MaySubmitForReview(s) THEN SubmittedForReview(s) ELSE s

\* The batch is complete when no candidate job of the scene is left, seen in
\* a transaction after that of the report.
SubmittedIfComplete(s) ==
  IF open = 0 /\ MaySubmitForReview(s) THEN SubmittedForReview(s) ELSE s

\* A worker that has no answer reports again: the follow-up comes twice.
FollowUp(again) ==
  /\ reports > 0
  /\ scene' = SubmittedIfComplete(scene)
  /\ reports' = IF again THEN reports ELSE reports - 1
  /\ Clock
  /\ UNCHANGED <<plan, task, inFlight, open, swept, rerolls>>
-----------------------------------------------------------------------------
(* The director: every command is one transaction on the locked scene.     *)

Change(s) ==
  scene' = s /\ Clock /\ UNCHANGED <<plan, task, inFlight, open, reports, swept, rerolls>>

Edit == MayEdit(scene) /\ scene.revision < MaxRevision /\ Change(Edited(scene))

\* New candidates for a new revision, whether or not it has plans.
RequestReroll ==
  /\ MayReroll(scene) /\ scene.revision < MaxRevision
  /\ scene' = Rerolled(scene)
  /\ MoreJobs
  /\ UNCHANGED <<expired, plan, task, inFlight, reports, swept, rerolls>>

SelectShotPlan(p) ==
  /\ plan[p].status = "draft" /\ MaySelect(scene, plan[p].revision)
  /\ Change(PlanSelected(scene, p, plan[p].revision))

Approve == MayApprove(scene) /\ Change(Approved(scene))

Cancel == MayCancel(scene) /\ Change(Cancelled(scene))

\* The other drafts of the revision are superseded.
ApproveShotPlan(p) ==
  /\ MayApprovePlan(scene, p)
  /\ plan[p].status = "draft" /\ plan[p].revision = scene.revision
  /\ scene' = PlanApproved(scene, p)
  /\ plan' = [Superseded(PlansOf(scene.revision)) EXCEPT ![p].status = "approved"]
  /\ UNCHANGED <<expired, task, inFlight, open, reports, swept, rerolls>>

\* The review command plans in its own transaction: the scene stays locked
\* while the model thinks, and everything else waits.
RerollShotPlan(r) ==
  /\ Fresh(r) /\ MayReroll(scene)
  /\ scene' = PlanningCleared(PlanRerolled(scene, None))
  /\ plan' = [Superseded(PlansOf(scene.revision)) EXCEPT ![r] = Draft(FALSE)]
  /\ MoreJobs
  /\ GoesDone(r)
  /\ UNCHANGED <<expired, inFlight, reports, swept, rerolls>>

\* A variation of a plan, which moves the scene only if it was pending.
CreateShotPlanVariation(r) ==
  /\ Fresh(r) /\ scene.status \in {"draft_pending", "director_review"}
  /\ \E p \in PlansOf(scene.revision) : plan[p].status # "superseded"
  /\ plan' = [plan EXCEPT ![r] = Draft(TRUE)]
  /\ \/ UNCHANGED <<scene, open>>
     \/ /\ MoreJobs
        /\ scene' = IF scene.status = "draft_pending" THEN Generating(scene, None) ELSE scene
  /\ GoesDone(r)
  /\ UNCHANGED <<expired, inFlight, reports, swept, rerolls>>

RerollPrevisBeat ==
  /\ scene.status \notin Terminal \cup {"failed"}
  /\ PlansOf(scene.revision) # {}
  /\ MoreJobs
  /\ rerolls < MaxRerolls /\ rerolls' = rerolls + 1
  /\ UNCHANGED <<scene, expired, plan, task, inFlight, reports, swept>>

\* Plain candidates, without plans.
AdmitCandidateGeneration ==
  /\ scene.status = "draft_pending"
  /\ scene' = Generating(scene, None)
  /\ MoreJobs
  /\ UNCHANGED <<expired, plan, task, inFlight, reports, swept, rerolls>>

\* Production takes the selected plan, else the approved one, and only with
\* its approval at the present revision.
PlanToProduce == IF scene.plan # None THEN scene.plan ELSE scene.approvedPlan

ReadyOfRevision(p) == p # None /\ plan[p].revision = scene.revision

Ready(p) ==
  /\ p # None
  /\ plan[p].status = "approved" /\ plan[p].revision = scene.revision

Dispatch ==
  /\ MayQueue(scene) /\ scene.ordinal < 1
  /\ scene.approval = scene.revision /\ Ready(PlanToProduce)
  /\ Change(Queued(scene, 1))

ProductionFails == scene.status \in InProduction /\ Change(Failed(scene))

Director ==
  \/ Edit \/ RequestReroll \/ Approve \/ Cancel \/ RerollPrevisBeat
  \/ AdmitCandidateGeneration \/ Dispatch \/ ProductionFails
  \/ \E r \in Request : \/ SelectShotPlan(r) \/ ApproveShotPlan(r)
                        \/ RerollShotPlan(r) \/ CreateShotPlanVariation(r)
-----------------------------------------------------------------------------
Next ==
  \/ \E r \in Request : \/ \E i \in Instance : Ask(r, i)
                        \/ AdmitWithoutRun(r) \/ Admit(r) \/ ReadScene(r)
                        \/ Write(r) \/ RunFails(r)
  \/ LeaseExpires \/ Reap \/ \E i \in Instance : Crash(i)
  \/ JobReported \/ JobSwept \/ \E again \in BOOLEAN : FollowUp(again)
  \/ Director

\* Time passes, the reaper runs every few seconds, and workers and reports
\* get on.  Nothing is asked of the planning run itself.
Spec ==
  /\ Init /\ [][Next]_vars
  /\ WF_vars(LeaseExpires) /\ WF_vars(Reap)
  /\ WF_vars(JobReported) /\ WF_vars(FollowUp(FALSE))
-----------------------------------------------------------------------------
TypeOK ==
  /\ scene \in SceneRecord
  /\ plan \in [Request -> PlanRecord]
  /\ task \in [Request -> TaskRecord]
  /\ inFlight \in [Instance -> Request \cup {None}]
  /\ open \in 0..MaxJobs /\ reports \in 0..MaxJobs
  /\ expired \in BOOLEAN /\ swept \in BOOLEAN /\ rerolls \in 0..MaxRerolls

\* The director chooses among the drafts of one planning run: whatever runs
\* were started in whatever instance, overtaken, expired or repeated, two of
\* them never leave drafts of the same revision (the fence of
\* executePlanningPipeline, the replay and the supersession of
\* prepareAdmission and executeWithContext, in plan-shot-plans.ts).
OneLiveBatch ==
  \A p, q \in Request :
    /\ {plan[p].status, plan[q].status} = {"draft"}
    /\ ~plan[p].variation /\ ~plan[q].variation
    /\ plan[p].revision = plan[q].revision
    => p = q

\* What the director has selected is still there to be approved, whoever
\* rerolled the plans since (prepareAdmission supersedes drafts without
\* looking at the selection; rerollShotPlan clears it).
SelectedPlanIsLive ==
  scene.plan # None => plan[scene.plan].status \in {"draft", "approved"}

\* A scene in production renders a plan that was approved for its revision
\* and that no later planning has superseded (prepare-scene-production-
\* inputs.ts against every supersession).
ProducedPlanIsApproved ==
  scene.status \in InProduction =>
    /\ scene.approvedPlan # None
    /\ plan[scene.approvedPlan].status = "approved"
    /\ plan[scene.approvedPlan].revision = scene.revision

\* Planning never keeps the scene for ever, wherever the runs died and
\* whoever took an expired lease over, as long as the requests that take it
\* over come to an end: the claim of shot-plan-planning-recovery.ts.
LeaseEnds == scene.lease # None ~> scene.lease = None

\* Candidates that were reported are reviewed: a scene that generates
\* without a planner leaves that state, unless a job ended unreported
\* (submitCandidatesForReviewIfBatchComplete).
BatchIsReviewed ==
  scene.status = "generating_candidates" /\ scene.lease = None /\ open + reports > 0
    ~> scene.status # "generating_candidates" \/ swept
=============================================================================
