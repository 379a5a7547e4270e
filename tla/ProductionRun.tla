--------------------------- MODULE ProductionRun ---------------------------
(***************************************************************************)
(* One campaign in production: its scenes (SceneAggregate), the production *)
(* run with one row per scene, the render jobs of its attempts, the        *)
(* director's commands, and the reports of the workers.  A report changes  *)
(* the job in one transaction and only then, in transactions of their own, *)
(* the scene and the run: between any two of these others take steps, the  *)
(* request is lost, or the worker that would repeat it dies.               *)
(*                                                                         *)
(* Every command is one transaction that locks what it reads (the scene,   *)
(* the campaign and all its scenes, or the run), hence one action; so is   *)
(* the follow-up of the scene.  The follow-up of the run finds the row of  *)
(* its job without a lock and acts on it in a second step.  The leases of  *)
(* the jobs are those of RenderJobQueue: here a job is taken, finished,    *)
(* returned to the queue or swept.  Left out: the inputs of a render, media*)
(* and durations, shot plans, staging.                                     *)
(*                                                                         *)
(* Bounds: MaxJobs attempts in all, MaxRevision of a scene, MaxFaults lost *)
(* or repeated requests, dead workers and retried renders.                 *)
(***************************************************************************)
EXTENDS SceneAggregate, FiniteSets

CONSTANTS NumScenes, MaxJobs, MaxRevision, MaxFaults,
  Command,  \* what the director does besides approving and rerendering,
            \* of "accept", "reject", "cancel"
  Revised,  \* the scenes that he edits or rerolls
  Fault     \* what may happen, of "failure", "loss", "death", "retry", and
            \* "overtake": a command commits inside the follow-up of the run

ASSUME RunConstants ==
  /\ NumScenes \in Nat \ {0}
  /\ MaxJobs \in Nat /\ MaxRevision \in Nat /\ MaxFaults \in Nat
  /\ Command \subseteq {"accept", "reject", "cancel"} /\ Revised \subseteq 1..NumScenes
  /\ Fault \subseteq {"failure", "loss", "death", "retry", "overtake"}

SceneId == 1..NumScenes
JobId == 1..MaxJobs
Assembly == 0     \* the worker and the reports of the assembly job

VARIABLES
  scene,      \* scene[i]: the aggregate
  campaign,   \* the status of the campaign
  run,        \* the status of its production run, "absent" before there is one
  row,        \* row[i]: the run's current and accepted attempt of scene i
  job,        \* job[n]: the render job, and with it the recorded attempt
  issued,     \* how many jobs there are
  assembly,   \* the status of the delivery assembly job
  worker,     \* worker[n]: what the worker of job n is doing
  calls,      \* the reports that the API is working on
  faults,     \* how many faults there were
  overtaken   \* history: attempts replaced while the follow-up of their failure
              \* was between its two queries of the run

vars == <<scene, campaign, run, row, job, issued, assembly, worker, calls, faults, overtaken>>

\* heard: the worker that asked is still there for the answer.
Call == [job : JobId \cup {Assembly}, kind : {"start", "complete", "fail"}, step : 1..4,
         heard : BOOLEAN]

Busy == [starting |-> "start", completing |-> "complete", failing |-> "fail"]

Init ==
  /\ scene = [i \in SceneId |->
                [NewScene EXCEPT !.status = "director_review", !.candidate = 1]]
  /\ campaign = "drafting"
  /\ run = "absent"
  /\ row = [i \in SceneId |-> [job |-> None, revision |-> None, accepted |-> None]]
  /\ job = [n \in JobId |-> [status |-> "absent", scene |-> None, revision |-> None,
                             ordinal |-> 0]]
  /\ issued = 0
  /\ assembly = "absent"
  /\ worker = [n \in JobId \cup {Assembly} |-> "idle"]
  /\ calls = {}
  /\ faults = 0
  /\ overtaken = {}
-----------------------------------------------------------------------------
(* The director.  Only the commands that a scene in review or production   *)
(* answers to; candidate generation is one step.                           *)

Change(i, s) == scene' = [scene EXCEPT ![i] = s]

NewJob(i) ==
  [status |-> "queued", scene |-> i, revision |-> scene[i].revision,
   ordinal |-> scene[i].ordinal + 1]

\* A further attempt of a scene that the run has already, started from s.
EnqueueAttempt(i, s) ==
  LET n == issued + 1
  IN /\ issued < MaxJobs
     /\ Change(i, Queued(s, n))
     /\ job' = [job EXCEPT ![n] = NewJob(i)]
     /\ issued' = n
     /\ row' = [row EXCEPT ![i].job = n, ![i].revision = s.revision]
     /\ overtaken' = overtaken \cup
          {c.job : c \in {c \in calls : c.job = row[i].job /\ c.kind = "fail" /\ c.step = 3}}

OthersApproved(i) == \A k \in SceneId \ {i} : scene[k].status = "approved"

\* The approval that is not the last one, before there is a run.
ApproveOne(i) ==
  /\ MayApprove(scene[i]) /\ ~OthersApproved(i) /\ run = "absent"
  /\ Change(i, Approved(scene[i]))
  /\ UNCHANGED <<campaign, run, row, job, issued, assembly, worker, calls, faults, overtaken>>

\* The last approval creates the run and fans out one job per scene.
ApproveLast(i) ==
  /\ MayApprove(scene[i]) /\ OthersApproved(i) /\ run = "absent"
  /\ campaign \in {"drafting", "queued"}
  /\ issued + NumScenes <= MaxJobs
  /\ scene' = [k \in SceneId |->
                 Queued(IF k = i THEN Approved(scene[k]) ELSE scene[k], issued + k)]
  /\ job' = [n \in JobId |->
               IF n - issued \in SceneId THEN NewJob(n - issued) ELSE job[n]]
  /\ row' = [k \in SceneId |->
               [job |-> issued + k, revision |-> scene[k].revision, accepted |-> None]]
  /\ issued' = issued + NumScenes
  /\ run' = "dispatched"
  /\ campaign' = "queued"
  /\ UNCHANGED <<assembly, worker, calls, faults, overtaken>>

\* A scene of the run that went back to review is rendered again at once.
\* (If it is the campaign's only scene, or all others are approved as well,
\* the code takes the way of ApproveLast, finds the campaign past "queued"
\* and gives up: the scene cannot be rendered again.)
Reapprove(i) ==
  /\ MayApprove(scene[i]) /\ ~OthersApproved(i) /\ run # "absent"
  /\ EnqueueAttempt(i, Approved(scene[i]))
  /\ UNCHANGED <<campaign, run, assembly, worker, calls, faults>>

\* Bound: before there is a run, a new revision changes nothing but numbers.
MayRevise(i) == run # "absent" /\ scene[i].revision < MaxRevision

Edit(i) ==
  /\ MayEdit(scene[i]) /\ MayRevise(i)
  /\ Change(i, Edited(scene[i]))
  /\ UNCHANGED <<campaign, run, row, job, issued, assembly, worker, calls, faults, overtaken>>

Reroll(i) ==
  /\ MayReroll(scene[i]) /\ MayRevise(i)
  /\ Change(i, Rerolled(scene[i]))
  /\ UNCHANGED <<campaign, run, row, job, issued, assembly, worker, calls, faults, overtaken>>

\* The candidates are there and the director picks one.
Review(i) ==
  /\ \/ MaySubmitForReview(scene[i]) /\ Change(i, SubmittedForReview(scene[i]))
     \/ /\ MaySelect(scene[i], scene[i].revision)
        /\ Change(i, CandidateSelected(scene[i], scene[i].revision))
  /\ UNCHANGED <<campaign, run, row, job, issued, assembly, worker, calls, faults, overtaken>>

\* The command names the attempt the director has watched, n.
Fenced(i, n) == scene[i].job = n /\ row[i].job = scene[i].job

AdmitFirstAccepted(accepted) ==
  IF run \in {"dispatched", "production_review"} /\ \E k \in SceneId : accepted[k] # None
  THEN run' = "assembling" /\ assembly' = "queued"
  ELSE UNCHANGED <<run, assembly>>

AdmitReviewedOnly(accepted) ==
  IF run = "production_review" /\ \A k \in SceneId : accepted[k] # None
  THEN run' = "assembling" /\ assembly' = "queued"
  ELSE UNCHANGED <<run, assembly>>

\* The last acceptance of a run in dispatch or review enqueues its assembly.
\* The attempts are checked against the rows once more; a mismatch aborts.
AdmitAssembly(accepted) ==
  IF run \in {"dispatched", "production_review"} /\ \A k \in SceneId : accepted[k] # None
  THEN /\ \A k \in SceneId : /\ job[accepted[k]].scene = k
                             /\ job[accepted[k]].revision = row[k].revision
                             /\ job[accepted[k]].status = "completed"
       /\ run' = "assembling" /\ assembly' = "queued"
  ELSE UNCHANGED <<run, assembly>>

AcceptProduction(i, n) ==
  /\ MayAccept(scene[i]) /\ Fenced(i, n) /\ row[i].accepted = None
  /\ Change(i, Accepted(scene[i], n))
  /\ row' = [row EXCEPT ![i].accepted = n]
  /\ AdmitAssembly([k \in SceneId |-> IF k = i THEN n ELSE row[k].accepted])
  /\ UNCHANGED <<campaign, job, issued, worker, calls, faults, overtaken>>

\* Another attempt, of a scene in review or of one whose attempt failed.
RequestProductionRerender(i, n) ==
  /\ InQA(scene[i]) \/ (Recoverable(scene[i]) /\ scene[i].job # None)
  /\ Fenced(i, n)
  /\ EnqueueAttempt(i, scene[i])
  /\ UNCHANGED <<campaign, run, assembly, worker, calls, faults>>

RejectQA(i) ==
  /\ InQA(scene[i])
  /\ Change(i, BackInReview(scene[i]))
  /\ UNCHANGED <<campaign, run, row, job, issued, assembly, worker, calls, faults, overtaken>>

Cancel(i) ==
  /\ MayCancel(scene[i])
  /\ Change(i, Cancelled(scene[i]))
  /\ UNCHANGED <<campaign, run, row, job, issued, assembly, worker, calls, faults, overtaken>>

\* Between the two steps of a follow-up there is one round trip to the
\* database: only under "overtake" does a command fit in.
Between == \E c \in calls : c.step = 3

Director ==
  /\ Between => "overtake" \in Fault
  /\ \E i \in SceneId :
       \/ ApproveOne(i) \/ ApproveLast(i) \/ Reapprove(i) \/ Review(i)
       \/ i \in Revised /\ (Edit(i) \/ Reroll(i))
       \/ "reject" \in Command /\ RejectQA(i)
       \/ "cancel" \in Command /\ Cancel(i)
       \/ \E n \in JobId : \/ "accept" \in Command /\ AcceptProduction(i, n)
                           \/ RequestProductionRerender(i, n)
-----------------------------------------------------------------------------
(* The workers.  What they tell the API changes the job at once; the       *)
(* follow-ups of the request are steps of a call.                          *)

MayFault(f) == f \in Fault /\ faults < MaxFaults

Asks(n, kind) ==
  calls' = calls \cup {[job |-> n, kind |-> kind, step |-> 1, heard |-> TRUE]}

\* The next lease of n does not wait for the answers of this one.
Forsaken(n) == {IF c.job = n THEN [c EXCEPT !.heard = FALSE] ELSE c : c \in calls}

\* Claimed and started; the render waits for the answer to the start.
StartJob(n) ==
  /\ job[n].status = "queued" /\ worker[n] = "idle"
  /\ job' = [job EXCEPT ![n].status = "rendering"]
  /\ worker' = [worker EXCEPT ![n] = "starting"]
  /\ Asks(n, "start")
  /\ UNCHANGED <<scene, campaign, run, row, issued, assembly, faults, overtaken>>

CompleteJob(n) ==
  /\ worker[n] = "running"
  /\ job' = [job EXCEPT ![n].status = "completed"]
  /\ worker' = [worker EXCEPT ![n] = "completing"]
  /\ Asks(n, "complete")
  /\ UNCHANGED <<scene, campaign, run, row, issued, assembly, faults, overtaken>>

\* The failure that exhausts the retries.
FailJob(n) ==
  /\ worker[n] = "running" /\ "failure" \in Fault
  /\ job' = [job EXCEPT ![n].status = "failed"]
  /\ worker' = [worker EXCEPT ![n] = "failing"]
  /\ Asks(n, "fail")
  /\ UNCHANGED <<scene, campaign, run, row, issued, assembly, faults, overtaken>>

\* A failure with a retry left has no follow-up.
RetryJob(n) ==
  /\ worker[n] = "running" /\ MayFault("retry")
  /\ job' = [job EXCEPT ![n].status = "queued"]
  /\ worker' = [worker EXCEPT ![n] = "idle"]
  /\ calls' = Forsaken(n)
  /\ faults' = faults + 1
  /\ UNCHANGED <<scene, campaign, run, row, issued, assembly, overtaken>>

\* The delivery assembly worker.
FinishAssembly(outcome) ==
  /\ assembly = "queued" /\ worker[Assembly] = "idle"
  /\ \/ outcome = "completed" /\ Asks(Assembly, "complete")
        /\ worker' = [worker EXCEPT ![Assembly] = "completing"]
     \/ outcome = "failed" /\ "failure" \in Fault /\ Asks(Assembly, "fail")
        /\ worker' = [worker EXCEPT ![Assembly] = "failing"]
  /\ assembly' = outcome
  /\ UNCHANGED <<scene, campaign, run, row, job, issued, faults, overtaken>>

AskAgainToStart(n) ==
  /\ worker[n] = "starting"
  /\ ~\E c \in calls : c.job = n
  /\ Asks(n, "start")
  /\ UNCHANGED <<scene, campaign, run, row, job, issued, assembly, worker, faults, overtaken>>

\* A worker that has no answer asks again: the queue knows the request
\* (already_applied) and the follow-ups run once more.  If the first request
\* is still being worked on, the worker has timed out.
AskAgain(n) ==
  /\ worker[n] \in DOMAIN Busy
  /\ IF \E c \in calls : c.job = n /\ c.kind = Busy[worker[n]] /\ c.heard
     THEN MayFault("loss") /\ faults' = faults + 1
     ELSE UNCHANGED faults
  /\ Asks(n, Busy[worker[n]])
  /\ UNCHANGED <<scene, campaign, run, row, job, issued, assembly, worker, overtaken>>

\* A worker gone with its job unreported leaves the lease to expire.  Gone
\* also stands for a worker that gives the follow-ups up (a refused retry).
WorkerDies(n) ==
  /\ worker[n] \in {"starting", "running", "completing", "failing"}
  /\ MayFault("death")
  /\ faults' = faults + 1
  /\ worker' = [worker EXCEPT
       ![n] = IF n # Assembly /\ job[n].status = "rendering" THEN "dead" ELSE "done"]
  /\ UNCHANGED <<scene, campaign, run, row, job, issued, assembly, calls, overtaken>>

\* An expired lease is claimed again, or swept when no retry is left: the
\* sweep has no follow-up.
LeaseExpires(n) ==
  /\ worker[n] = "dead"
  /\ \/ /\ job' = [job EXCEPT ![n].status = "queued"]
        /\ worker' = [worker EXCEPT ![n] = "idle"]
     \/ /\ "failure" \in Fault
        /\ job' = [job EXCEPT ![n].status = "failed"]
        /\ worker' = [worker EXCEPT ![n] = "done"]
  /\ calls' = Forsaken(n)
  /\ UNCHANGED <<scene, campaign, run, row, issued, assembly, faults, overtaken>>
-----------------------------------------------------------------------------
(* The follow-ups of a report.                                             *)

Advance(c) == calls' = (calls \ {c}) \cup {[c EXCEPT !.step = @ + 1]}

\* The job moves the scene only as its active job.
MoveSceneOfAnyJob(n, may, s) ==
  IF may THEN Change(job[n].scene, s) ELSE UNCHANGED scene

MoveScene(n, may, s) ==
  IF scene[job[n].scene].job = n /\ may THEN Change(job[n].scene, s) ELSE UNCHANGED scene

\* Step 1: progress of the scene.
SceneFollows(c) ==
  /\ c.step = 1 /\ c.job # Assembly
  /\ LET s == scene[job[c.job].scene]
     IN \/ c.kind = "start" /\ MoveScene(c.job, MayStart(s), MovedTo(s, "rendering"))
        \/ c.kind = "complete" /\ MoveScene(c.job, MaySubmitForQA(s), MovedTo(s, "qa"))
        \/ c.kind = "fail" /\ MoveScene(c.job, s.status \in InProduction, Failed(s))
  /\ Advance(c)
  /\ UNCHANGED <<campaign, run, row, job, issued, assembly, worker, faults, overtaken>>

Current(n) == \E i \in SceneId : row[i].job = n

FindRunSceneOfAnyJob(c) ==
  /\ c.step = 2
  /\ Advance(c)
  /\ UNCHANGED <<scene, campaign, run, row, job, issued, assembly, worker, faults, overtaken>>

\* Step 2: the row of the job.  A job that was replaced has none any more.
FindRunScene(c) ==
  /\ c.step = 2
  /\ calls' = (calls \ {c}) \cup {[c EXCEPT !.step = IF Current(c.job) THEN 3 ELSE 4]}
  /\ UNCHANGED <<scene, campaign, run, row, job, issued, assembly, worker, faults, overtaken>>

AllRendered == \A i \in SceneId : job[row[i].job].status = "completed"

CampaignStarts ==
  /\ campaign' = IF campaign = "queued" THEN "rendering" ELSE campaign
  /\ UNCHANGED run

ClaimReviewWithoutCatchUp ==
  IF AllRendered /\ run \in {"dispatched", "failed"}
  THEN /\ run' = "production_review"
       /\ campaign' = IF campaign \in {"rendering", "queued"} THEN "qa" ELSE campaign
  ELSE UNCHANGED <<run, campaign>>

ClaimReviewOfDispatched ==
  IF AllRendered /\ run = "dispatched"
  THEN run' = "production_review" /\ campaign' = "qa"
  ELSE UNCHANGED <<run, campaign>>

\* The review of the run can be claimed by the last render to complete.
\* (A campaign that cannot follow would abort: CampaignFollowsRun.)
ClaimForProductionReview ==
  IF AllRendered /\ run \in {"dispatched", "failed"}
  THEN /\ run' = "production_review"
       /\ campaign \in {"rendering", "queued", "failed", "qa"} /\ campaign' = "qa"
  ELSE UNCHANGED <<run, campaign>>

\* The claim does not ask again whose failure it is.
ClaimFailure ==
  IF run \in {"dispatched", "production_review", "assembling"}
  THEN /\ run' = "failed"
       /\ campaign \in {"queued", "rendering", "drafting", "qa", "failed"}
       /\ campaign' = "failed"
  ELSE UNCHANGED <<run, campaign>>

\* Step 3: progress of the run and its campaign.
RunFollows(c) ==
  /\ c.step = 3
  /\ \/ c.kind = "start" /\ CampaignStarts
     \/ c.kind = "complete" /\ ClaimForProductionReview
     \/ c.kind = "fail" /\ ClaimFailure
  /\ Advance(c)
  /\ UNCHANGED <<scene, row, job, issued, assembly, worker, faults, overtaken>>

\* The assembly's one follow-up.
AssemblyFollows(c) ==
  /\ c.step = 1 /\ c.job = Assembly
  /\ LET outcome == IF c.kind = "complete" THEN "completed" ELSE "failed"
         \* claimCompletion or claimFailure, or already done
         claimed == IF c.kind = "complete" THEN run \in {"assembling", "completed"}
                                           ELSE run \notin {"absent", "completed"}
     IN IF claimed THEN run' = outcome /\ campaign' = outcome ELSE UNCHANGED <<run, campaign>>
  /\ calls' = (calls \ {c}) \cup {[c EXCEPT !.step = 4]}
  /\ UNCHANGED <<scene, row, job, issued, assembly, worker, faults, overtaken>>

\* The answer reaches the worker, if it still waits for this one.
Reply(c) ==
  /\ c.step = 4
  /\ calls' = calls \ {c}
  /\ worker' = [worker EXCEPT
       ![c.job] = IF c.heard /\ @ \in DOMAIN Busy /\ Busy[@] = c.kind
                  THEN IF c.kind = "start" THEN "running" ELSE "done"
                  ELSE @]
  /\ UNCHANGED <<scene, campaign, run, row, job, issued, assembly, faults, overtaken>>

\* The API stops, or the answer is lost, at any point of the request.
Lose(c) ==
  /\ MayFault("loss")
  /\ faults' = faults + 1
  /\ calls' = calls \ {c}
  /\ UNCHANGED <<scene, campaign, run, row, job, issued, assembly, worker, overtaken>>

Handle(c) == SceneFollows(c) \/ FindRunScene(c) \/ RunFollows(c) \/ AssemblyFollows(c) \/ Reply(c)

WorkerStep(n) ==
  StartJob(n) \/ CompleteJob(n) \/ FailJob(n) \/ RetryJob(n) \/ LeaseExpires(n)

Next ==
  \/ Director
  \/ \E n \in JobId : WorkerStep(n)
  \/ \E outcome \in {"completed", "failed"} : FinishAssembly(outcome)
  \/ \E n \in JobId \cup {Assembly} : AskAgain(n) \/ WorkerDies(n)
  \/ \E c \in calls : Handle(c) \/ Lose(c)

Spec == Init /\ [][Next]_vars

\* The workers poll for jobs and finish what they render; a report is
\* repeated until it is answered, and the API gets on with what it has.
Fairness ==
  /\ \A n \in JobId : WF_vars(WorkerStep(n))
  /\ WF_vars(\E outcome \in {"completed", "failed"} : FinishAssembly(outcome))
  /\ \A n \in JobId \cup {Assembly} : WF_vars(AskAgain(n))
  /\ \A c \in Call : WF_vars(c \in calls /\ Handle(c))

LiveSpec == Spec /\ Fairness
-----------------------------------------------------------------------------
\* Every variable has its type.
TypeOK ==
  /\ scene \in [SceneId -> SceneRecord]
  /\ campaign \in {"drafting", "queued", "rendering", "qa", "completed", "failed"}
  /\ run \in {"absent", "dispatched", "production_review", "assembling", "completed", "failed"}
  /\ row \in [SceneId -> [job : JobId \cup {None}, revision : Nat, accepted : JobId \cup {None}]]
  /\ job \in [JobId -> [status : {"absent", "queued", "rendering", "completed", "failed"},
                        scene : SceneId \cup {None}, revision : Nat, ordinal : Nat]]
  /\ issued \in 0..MaxJobs
  /\ assembly \in {"absent", "queued", "completed", "failed"}
  /\ worker \in [JobId \cup {Assembly} ->
                   {"idle", "starting", "running", "completing", "failing", "done", "dead"}]
  /\ calls \subseteq Call
  /\ faults \in 0..MaxFaults
  /\ overtaken \subseteq JobId

\* The campaign's status is a projection of its run, moved by the follow-ups
\* of many reports: it never contradicts the run, so that the follow-ups,
\* which abort when it does, never abort (transitionStatusIf in
\* complete-campaign-production-run.ts and ...-assembly.ts).
CampaignFollowsRun ==
  /\ run = "absent" => campaign = "drafting"
  /\ run = "dispatched" => campaign \in {"queued", "rendering"}
  /\ run = "production_review" => campaign = "qa"
  /\ run = "assembling" => campaign \in {"queued", "rendering", "qa"}
  /\ run \in {"completed", "failed"} => campaign = run

\* What the director reviews or has accepted is the finished render of the
\* scene's latest attempt, of the revision that was approved; no late
\* report of an earlier attempt brought the scene there.
ReviewedAttemptIsRendered ==
  \A i \in SceneId : scene[i].status \in {"qa", "completed"} =>
    LET n == scene[i].job
    IN /\ n # None /\ n = row[i].job
       /\ job[n].status = "completed" /\ job[n].scene = i
       /\ job[n].revision = scene[i].approval
       /\ job[n].ordinal = scene[i].ordinal

\* Nothing is assembled that was not accepted, scene by scene, in exactly
\* the attempt the run has recorded (the gate of
\* enqueue-delivery-assembly-for-accepted-run.ts, ADR 0005).
OnlyAcceptedIsAssembled ==
  assembly # "absent" =>
    \A i \in SceneId :
      /\ scene[i].status = "completed" /\ scene[i].accepted = row[i].accepted
      /\ row[i].accepted # None /\ row[i].accepted = row[i].job
      /\ job[row[i].accepted].revision = scene[i].approval

\* A run fails only for its assembly, or for a failed attempt that is its
\* scene's current one, whatever reports of replaced attempts come late
\* (findRunSceneByProductionJobId in onProductionJobFailed).  The exception is
\* the gap between that query and claimFailure, which locks nothing: an attempt
\* that a command replaces there fails the run all the same.
OnlyCurrentFailureFailsRun ==
  [][run # "failed" /\ run' = "failed" =>
       \/ assembly = "failed"
       \/ \E n \in JobId : job[n].status = "failed" /\ (Current(n) \/ n \in overtaken)]_vars

AllAccepted == run # "absent" /\ \A i \in SceneId : scene[i].accepted # None

\* When the last scene of a run is accepted, the assembly is there, in
\* whatever order the follow-ups of its renders arrive and even if some of
\* them never do: for a run of which no attempt has failed.
AcceptedRunIsAssembled ==
  AllAccepted => \/ assembly # "absent"
                 \/ \E n \in JobId : job[n].status = "failed"

\* When all scenes are accepted the assembly follows, sooner or later.
AcceptedRunIsAssembledLater ==
  AllAccepted ~> assembly # "absent"

\* The outcome of a job reaches the scene that waits for it, whichever
\* reports were lost or repeated on the way.
Unsettled(i, n) ==
  /\ scene[i].job = n /\ scene[i].status \in {"queued", "rendering"}
OutcomeReachesScene ==
  \A i \in SceneId, n \in JobId : Unsettled(i, n) ~> ~Unsettled(i, n)

\* When every attempt of the run is rendered, the run gets out of dispatch
\* and out of an earlier failure.
RunReachesReview ==
  (run \in {"dispatched", "failed"} /\ assembly = "absent" /\ AllRendered)
    ~> (run \notin {"dispatched", "failed"} \/ ~AllRendered)
=============================================================================
