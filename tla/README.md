# Verification of the content orchestrator

TLA+ models of the orchestrator in `src/`, the TLC runs that check them, and proofs
that the TLA+ proof system checks. A model keeps the control flow of the code
(guards, early returns, error paths, transaction boundaries, the order of steps) and
abstracts its data: a prompt, a picture or a manifest is a number or a member of a
small set. `PROJECT.json` maps every definition to the lines it models.

## 1. The system

A campaign is cut into scenes. For each scene cheap storyboard candidates and shot
plans are made and shown to a director; what he approves is rendered on a GPU host;
what he accepts is assembled into a reel. The *control API* (`apps/control-api`, a
few processes over one PostgreSQL database) owns all state. *Render workers*
(`apps/render-worker`) poll it over HTTP. The *Review Hub* (`apps/web`) is where the
director works. Business rules are in `packages/domain` and `packages/application`,
SQL in `packages/infrastructure`.

Concurrency control is of four kinds, and most hazards lie where two of them meet:
row locks inside one transaction (the unit of work loads scenes `FOR UPDATE`; the
evidence registers lock rows in one canonical order), leases with a fencing token
(render jobs, assembly jobs, planning runs), statements guarded by the expected
status (`transitionStatusIf`, the `claim...` statements of the production run), and
a lock file on the GPU host. The isolation level is READ COMMITTED.

| Part | State | Operations | Talks to | Hard parts |
|---|---|---|---|---|
| Render job queue | `render_jobs`, `generation_manifests`, `storyboard_candidates` | enqueue, claim, start, heartbeat, complete, fail, defer | job routes, storage gate | expired leases reclaimed while the holder works, replays, a slot wanted by two jobs, operations of several transactions |
| GPU lease | lock file, reclaim guard | acquire, reclaim, release | worker processes of one host | every system call is a step; processes die between them |
| Render worker | its job, whether it is fenced, staged files, media in object storage | claim, stage, render, heartbeat, upload, report with retries, drain | queue routes, GPU lease | lost answers, takeover while rendering, shared file names, shutdown in the middle of a call |
| Scene | one row per scene: status, revision, approval, selections, production attempt, planning lease | some 22 methods of `Scene` | every use case | an approval, selection, job or lease that outlives what it was made for |
| Production run | run, one row per scene, attempts, campaign status | approve and dispatch, rerender, reject, accept; follow-ups of job reports | scenes, queue, assembly | a report is several transactions; it is lost, repeated, late; commands interleave |
| Shot planning | shot plans, planning lease on the scene, in-memory task table | request, plan, reap, vary, reroll, select, approve | language model, queue | a run of minutes outside any transaction; crash; overtaking |
| Review commands | `review_events`: 15 commands with an action id, a revision and a request hash | edit, change references, select, reroll, approve, ... | scene, run, plans, bindings | repeated, delayed and stale commands; locks on one scene or on all |
| Duration planning | duration plan, bindings of scenes, `replan_action_receipts` | plan, replan | scenes, runs | rewriting all scenes and bindings at once; a search over frame counts |
| Delivery assembly | `delivery_assembly_jobs`, manifest and video in object storage | enqueue, claim, complete, fail, publish | run | the lease protocol again, side effects that no lease fences, follow-ups of reports |
| Product evidence | SKUs, batches and their facts, evidence assets, verification events, laboratory reports | create, revise, review, supersede, quarantine, archive | claims | six registers over the same rows; cascades |
| Product claims | claim heads, revisions, source links, command receipts | create, revise, link, approve, reject, invalidate | evidence | eligibility that ends while a review is under way |
| Operator acceptance | acceptance runs and their own assembly queue | start, approve, assemble | own queue | an operator's process that is restarted |
| Storage admission | watermarks | canAdmit | claim, completion | thresholds; a stale answer |
| Campaign creation, storyboards, references | campaigns, scenes, assets | create, plan, materialise | language model | idempotency keys |
| Certification and experiments, media adapters, contracts, web | none that others rely on | | | not modelled (section 7) |

What makes each part correct:

* Queue: one owner at a time; a result only from the owner; exactly one result;
  every retry used and none invented.
* GPU lease: nobody is let in beside a live process that uses the GPU; a dead lock
  does not stay.
* Worker: every job settles; what is completed has the media of the attempt that
  completed it; a render loses its reference image to a rival only; a worker told to
  stop does.
* Scene: nothing is rendered that was not approved at its present revision.
* Production run: scene, run, campaign and attempt ledger agree after every order of
  reports and commands; only accepted attempts are assembled; all accepted means
  assembled; outcomes get where they are waited for.
* Shot planning: one batch of drafts to choose from; no stale plan is written,
  selected or produced; planning never holds the scene for ever.
* Review commands and replans: the last approval dispatches; what is dispatched is
  what was approved, under the present plan; who is told that his command succeeded
  has had his command carried out; commands do not lock each other out.
* Assembly: one reel per acceptance, with the manifest of that very reel; the run
  ends as its job.
* Claims: an active claim rests on eligible evidence; an approval is of what the
  reviewer saw; a command counts once; commands lock in one order.

## 2. Modules

| Module | Models | Uses |
|---|---|---|
| `JobLifecycle` | what the dispatch contract promises of a job: abstract specification | |
| `RenderJobQueue` | `PostgresJobQueue`, the admission gate's answer | implements `JobLifecycle` |
| `GpuLease` | `LocalFsGpuLeaseAdapter`, and how `ExecuteProfileRenderUseCase` takes, keeps and returns it | |
| `RenderWorker` | `RenderWorker`, the executor's order of steps, `InputStagingAdapter` | composes `RenderJobQueue` (INSTANCE) |
| `SceneAggregate` | the methods of `Scene` as operators: a guard `MayX(s)` and a result `Xed(s)` | |
| `Scene` | one scene under every sequence of method calls | `SceneAggregate` |
| `ProductionRun` | a campaign in production: scenes, run, attempts, reports, commands, assembly admission | `SceneAggregate` |
| `ShotPlanning` | coordinator, planning runs, reaper, variations, rerolls, candidate batch | `SceneAggregate` |
| `CampaignEdits` | a planned campaign before production: edits, references, approvals, dispatch, replans as transactions | `SceneAggregate` |
| `DeliveryAssembly` | the assembly queue's row, its workers, the routes with their follow-ups, the publication | implements `JobLifecycle` |
| `ClaimAuthority` | what ADR 0009 promises of a claim: abstract specification | |
| `ProductClaims` | the claim register, and what the other registers and the triggers of migration 029 do to claims | implements `ClaimAuthority` |
| `...Proofs` | theorems of the module they name | |
| `MC...` | constants and symmetry for TLC | |

Operators whose name says how they differ from the code (`LocksOwn`,
`UploadUnchecked`, `ReallocatedApproved` ...) are plausible mistakes. Each stands
before the definition it perverts; none is used by a specification; every checked
property is violated when its one takes the definition's place.

**RenderJobQueue.** `job[j]` is the row (status, token, retries), `live` the rows
whose `lease_expires_at` is ahead. Every SQL statement or transaction is an action.
`claim` is two: `BeginClaim` (the sweep of exhausted rows, and the kinds the gate
admits) and `ClaimRow`/`ClaimNothing` (row choice with `SKIP LOCKED`, the gate asked
again). `complete` is open for a while (`tx[j]`) and ends as `CommitProduction`,
`CommitCandidate`, `RollbackComplete` or `ConflictComplete`; the last is followed by
a clean-up statement of its own, `FailConflicted`, or by the death of the process,
`LoseConflict`. Any token ever issued may be presented at any time and again: this
is what retries, superseded workers and lost answers look like from the database.
Tokens are uuids that are compared only with the token of the same row, so the n-th
token of a row is the number n.

**GpuLease.** `pc[p]` is the next system call of process `p`. A file read in one
step may be another in the next; the pid probe is a step too. Pids are not reused,
and lock files are written only by this code. ComfyUI is a process of its own:
`generating` are the processes for which it may be rendering, and only
`GenerationEnds` takes one out, not the death of the client and not `AbandonRender`,
a render that its client gives up (the interrupt that cancels it does not report its
own failure, and without a receipt there is none) and whose lease goes back.
`Governed` are the processes whose renders have an `executionPolicy`; of those,
`Quarantine` keeps the lease when the models cannot be unloaded (`quarantined`).
`untimely` is a history variable: somebody has died while it owned the reclaim guard,
or after a reclaimer had read its name and before that reclaimer's probe.

**RenderWorker.** `worker[w].at` is where the loop and `processJob` are, with job,
token, whether the heartbeat has found the attempt fenced, and how the render came
out. Every call to the API is the queue's own action, taken in the same step, with
the worker's token; `Lose...` is the action whose answer is lost, after which the
worker repeats the call. `gpu[h]` is the lease of a host (`GpuLease` with its system
calls folded into one), `image[h][j]` the file that the executor stages under a name
made of scene and job, so that two attempts at a job on one host share it; `media`
are the attempts whose files are in object storage. Retries end by an answer, by a
409 (`StartRefused`, `ReportRefused`), or by the fence that a heartbeat has raised
(`LearnFenced`).

**SceneAggregate, Scene.** Methods that throw are guards. A rejection is
`BackInReview`, an edit `Edited`, and so on; job, plan and run ids are numbers, 0 is
none.

**ProductionRun.** A report of a worker is a `Call` that goes through steps: the
queue's transaction (`StartJob`, `CompleteJob`, `FailJob`, `RetryJob`), the scene's
(`SceneFollows`), the run's (`FindRunScene` reads its row without a lock,
`RunFollows` acts on it), the answer (`Reply`). `Lose` is the API stopping in
between or the answer getting lost, `AskAgain` the worker's repetition,
`WorkerDies`, `LeaseExpires` the rest. A command of the director is one transaction
that locks what it reads, so one action. `job` is also the ledger of attempts.
`overtaken` is a history variable: the attempts that a command replaced while a
follow-up of their failure was between `FindRunScene` and `RunFollows`.

**ShotPlanning.** The number of a request is that of its run and of its plans. `Ask`
is the look into the coordinator's memory, `Admit`/`AdmitWithoutRun` the admitting
transaction with the start of the task, `ReadScene` the first transaction of the
run, `Write` the second, `RunFails` every way to fail, including a failure to record
the failure. `Crash(i)` empties the memory of instance `i`. `open` and `reports`
count the scene's candidate jobs and their pending follow-ups, because
`areAllJobsTerminal` looks at nothing else of them. `RerollShotPlan` and
`CreateShotPlanVariation` are single actions because they hold the scene's lock
while the language model answers.

**CampaignEdits.** A `session` is one delivery of a command: a transaction that
locks `Locks(request)` row by row (`Begin`, `Acquire`; the campaign is row 0), reads
(`Look`: the scenes it has locked, and the bindings, which nobody locks) and commits
(`Edit`, `KeepReferences`, `ApproveOne`, `Dispatch`, `Replan`). `sent[a]` are the
requests sent under an id, any of which may be delivered at any time and in several
sessions; `applied[a]` is the one recorded under it (`review_events`,
`replan_action_receipts`), with the request standing for its hash. The look-up of
the id and the comparison of revisions come at the point where the code has them:
after all locks for an approval, before the rest for a change of references.

**DeliveryAssembly.** One job, because jobs share nothing. `attempt[w].pc` goes
through claim, start, the assembly (`Look` at the object store, `Encode`, `Publish`
the manifest, `Commit` the video, all conditional on absence) and the settlement.
`Serve` carries a report out; `TimesOut` puts it in `late`, from where it is carried
out at any later time (`ServeLate`); `Probe` reads the job's row before a report is
repeated. A report that has changed the row is `owed` until the run's transaction
(`FollowUp`) or its failure (`FollowUpFails`). A reel is named by the toolchain that
makes it.

**ProductClaims.** One batch of one SKU (their rows are always locked together, so
they are one row, `Parents`). A command is issued with the value of the row the
client saw (`seen` stands for the expected version), delivered in one session or
several, discovers what it has to lock without a lock (`Begin...`), locks in
canonical order (`Acquire`) and commits, or fails anywhere (`RollBack`). A change of
a dependency is two steps more: the list of claims its trigger makes
(`StartCascade`), and the commit after their locks (`CommitChange`). Quarantine of a
source object and archive of a reference are bare statements (`Bare`): no receipt, no
lock of an action id. `supported`, in
the refinement of `ClaimAuthority`, is `OwnSupport`: the eligibility of all that is
cited, except the verification event of another asset (section 6).

## 3. Runs

| Run | Question | Instance | States |
|---|---|---|---|
| `queue_safety` | Are manifests and candidates exactly the completions of current leases, is the retry budget kept? Does the queue implement `JobLifecycle`? | 3 jobs (2 for one slot, 1 production), 2 claimers, retries 0 and 1, 1 deferral each, a gate that moves | 1.7 M |
| `gpu_deaths` | Is anybody let in beside a live user of the GPU, does a dead lock stay, when processes die and renders are given up? | 4 processes, 2 mortal, 2 governed | 428 k |
| `render_worker` | Do jobs settle, workers stop, completions have their media? | 1 job, 2 workers on one host, 1 death, 1 deferral, 1 shutdown | 214 k |
| `scene_methods` | Do approvals, selections and jobs survive what they were made for? | 3 revisions, 3 attempts, 2 plans, 2 planners | 0.9 k |
| `run_faults` | Do scene, run, campaign, ledger and assembly agree? Whose failure fails a run? | 2 scenes, 3 attempts, 1 fault of any kind, overtaking commands | 3.3 M |
| `run_live` | Do outcomes arrive, does the run get on? | 2 scenes, 3 attempts, a failure and 1 lost request | 80 k |
| `run_late_accept` | *violation*: an acceptance between two follow-ups | 1 scene, 2 attempts | 0.7 k |
| `shot_planning` | One batch, no stale plan, no lease for ever, batches reviewed | 3 requests, 2 instances, 2 revisions, 2 candidate jobs | 1.1 M |
| `campaign_edits` | Does the last approval dispatch what was approved? Are answers true, can commands lock each other out? | 2 scenes, 2 sessions, 3 ids, 3 requests, 2 revisions | 0.9 M |
| `edits_bindings` | *violation*: two edits of siblings take each other's bindings back | 2 scenes, 2 sessions, 2 ids, 2 requests | 27 k |
| `delivery_faults` | Does what is published fit together, does the run end as its job, does the job settle? `JobLifecycle`? | 2 workers, 2 toolchains, 1 retry, 1 follow-up that fails | 92 k |
| `claims_interleaved` | Does an active claim rest on eligible evidence at every step? Approved as seen, applied once, who can deadlock? | 1 claim, 2 assets, 2 sessions, 3 commands and their copies | 2.4 M |

Why the bounds are enough:

* *Queue.* The interesting conflicts are between two holders of one row (one row,
  two leases) and between two rows of one slot; a third row of the other kind lets
  the gate and the order of claims matter. A second retry repeats the first.
  Everything checked is also proved for all sizes.
* *GPU.* A dead holder, a dead reclaimer and two live processes are the smallest case
  in which exclusion fails (section 6): with them each way a death can be untimely
  happens, and without any one part of `UntimelyMoment` the property is violated in
  this instance. The theorem has any number of processes, all mortal.
* *Worker.* Two workers on one host, for they share the GPU and the input directory;
  one job that both attempt, because different jobs meet only in the queue and at
  the GPU, where a worker that is turned away behaves as if another job held it. One
  retry makes the second attempt, one deferral the storage's refusal.
* *Scene.* Stale means "of the revision before", "of the attempt before", "of the
  other plan": three revisions and attempts give a before and an after of something
  in the middle. Proved for all values.
* *Production run.* Two scenes, because the run is the conjunction of its scenes;
  three attempts, so that one scene has two of them, one stale, and the other scene
  is there too. One fault, because a second one can do nothing in a request that the
  first has ended; the edited scene is fixed, the other is then symmetric.
  `run_live` leaves out every command but approval and rerender: with the others a
  wait may end by a command, which makes liveness weaker.
* *Planning.* Three requests: the holder of a lease, one that takes over, and one
  that comes in between in the other process. Two revisions give a stale one. Two
  candidate jobs give a batch with a first and a last report.
* *Campaign edits.* Two transactions wait for each other or overtake each other; two
  scenes are a scene and its siblings. Three requests: an edit or replan between the
  two approvals it takes to dispatch; repeats cost nothing. Two revisions give a
  stale one.
* *Assembly.* A superseded worker and its successor, with the same toolchain or
  another, are all that can meet over one job; after one retry the next expiry is
  final.
* *Claims.* Two transactions; three commands are a link, the approval of it and a
  change of what it cites. A second claim would add only the order of locks within a
  cascade, which is ascending in all of them.

`CHECK_DEADLOCK FALSE` is set in the runs of `ProductionRun`, `ShotPlanning`,
`DeliveryAssembly` and `ProductClaims`, which end when everything is accepted,
cancelled, settled or used up.

## 4. Fairness

* `GpuLease!FairLeaseSpec`: a live process takes its next step, and one that was refused
  comes back, as the claim loop does. `Die` is never fair.
* `RenderWorker!FairSpec`: a worker's program proceeds and the calls it repeats get
  through in the end (strong fairness of `Proceed`: claims queue for a row that
  others keep locking); a completion that has begun ends, and does not roll back for
  ever; the clock passes the lease of a job **that no process renews** (`Orphaned`).
  Nothing is asked of heartbeats, failures or deaths.
* `ProductionRun!LiveSpec`: workers poll and finish; a report without an answer is
  repeated (`startWithRetry`, `completeWithRetry`, `failWithRetry`); the API goes on
  with a request it has. Losses are bounded by `MaxFaults`. The real worker gives up
  after its retries; that worker is `WorkerDies`, which `run_live` leaves out: then
  a scene does stay where it is (section 6).
* `ShotPlanning!Spec`: time passes (`LeaseExpires`), the reaper runs every five
  seconds (`Reap`), jobs are reported and followed up. **Nothing** is asked of the
  planning run. `LeaseEnds` holds for a finite number of requests: someone who asked
  again each time a lease expired, before the reaper came by, could keep the scene.
  `BatchIsReviewed` excepts batches with a swept job (section 6).
* `DeliveryAssembly!FairSpec`: workers poll and their processes are scheduled; time
  passes (strong fairness of `LeaseExpires`: heartbeats come between); a call that
  is repeated for ever gets through; a transaction begun by the API ends; the
  settlement deadline is one of wall-clock time that no repetition puts off
  (`GiveUp`). `CompletionReachesRun` excepts a follow-up that failed (section 6).

## 5. What is proved

TLAPS checks every proof from nothing (9002 obligations); no axiom is used beyond
the named assumptions on constants.

**Queue** (`RenderJobQueueProofs`), for any jobs, slots, budgets, workers and
deferrals: types, exactly-once results, the retry budget, failure only without hope,
finality of terminal rows, and `QueueImplementsLifecycle`. None of the invariants is
inductive alone. `Inv` adds: an open completion owns its row (`OpenCompletionOwns`;
otherwise a commit could give a result for a lease that is gone), a waiting job has
used fewer leases than its retries and deferrals allow (`WaitingBudget`; otherwise
the claim of a waiting row breaks the budget), and a completion that awaits its
clean-up lost its slot to a finished job (`ConflictsAreLost`; otherwise the clean-up
would fail a job with hope left). The refinement maps `leased` and `rendering` to
`owned`, the token to the epoch, and a completion to a result of that epoch; a
clean-up or sweep is a `Bury`.

**Worker** (`RenderWorkerProofs`), for any jobs, workers, hosts and bounds.
`WorkersKeepToTheQueue`: `Spec => Queue!Spec`, so that the queue's theorems hold of
the composition; it needs that a worker calls only with tokens the row has issued
(`Loop`). `Loop` also has: no two workers have the same attempt (`TokensDiffer`,
stated as `NoSharedAttempt`). On it rest `CompletionsHaveTheirMedia`, through `MediaBeforeCompletion` (an attempt
that asks for its completion, or whose completion is open, has its media stored,
under its own token), and `ImageIsLostToRivalsOnly`, through `ImageIsThere` (between
staging and clean-up the file is there, or was removed by another token).

The queue's theorems are carried over by an instance of its proofs (`Durable ==
INSTANCE RenderJobQueueProofs`): `WorkersUseDurable` is `Spec => Durable!Spec`, and
`DurableAssumptions` derives the queue's assumptions from `WorkerAssumption`. So the
composition has `WorkersLeaveOneManifest`, `SettledJobsStay`,
`WorkersImplementLifecycle` and `FailedJobsAreSpent` (a failed job of this
composition, where all jobs are production jobs, has spent its retries exactly), and, together with
`CompletionsHaveTheirMedia`, `ManifestsHaveTheirMedia`: a manifest names what its own
attempt has stored.

**GPU lease** (the last part of `RenderWorkerProofs`, over `GpuLease`), for any number of
processes, all of which may die: `GpuMutualExclusion`, that nobody gets in beside a
live process that renders or has kept its lease, and that the lock file names that
process. Nothing is assumed of the deaths; the property itself ends at the first one
that comes at an `UntimelyMoment`, and says nothing of generations without a client
that waits for them (section 6). Up to that moment whoever is past linking the guard
owns it and lives (`GuardIsOwned`), what a reclaimer has found dead was dead when it
read the lock, so that what it is about to unlink is that lock still
(`StaleLockIsStable`), and who has kept its lease gets no other (`QuarantineLasts`).

**Scene** (`SceneProofs`): types, and that approvals, approved plans and jobs are
those of the present revision, selection and attempt, for any numbers of revisions,
attempts, plans and planners. The invariant adds that a selection is of the present
revision (`SelectionIsCurrent`; otherwise an approval could approve an old plan),
that leases are held only while planning and that an accepted attempt is the last.
`ScenesKeepTheirHistory` is about steps: completed and cancelled scenes stay,
revisions and attempts are numbered upwards, a job is named by a new attempt only,
and a new revision starts with nothing selected or approved. It needs the invariant:
`clearPlanningRun` has no guard of its own against settled scenes, which is harmless
because they hold no lease.

**Production run** (`ProductionRunProofs`), for any scenes, attempts, revisions and
faults: `CampaignFollowsItsRun`, `ReviewedAttemptsAreRendered`,
`AssembliesAreAccepted`, `AcceptedRunsAreAssembled`, and that no report or command
changes an accepted scene any more (`AcceptedScenesStay`). `RunInv` is about reports
that come late: an attempt never changes what it was made for and is over once it is
over (`JobsGoOn`), so that what a report says stays true for as long as its
follow-ups are under way (`ReportsAreTrue`); and a scene in production has the
attempt that its row of the run names (`Attempt`), so that a report of any other
attempt moves nothing. Without the first a late completion could bring a scene to
review that is being rendered again; without the second the row's accepted attempt
could differ from the scene's; `ScenesNameTheirAttempts` states it.
`RecordedAttemptsStay` is `JobsGoOn` as a property of the steps, and
`AttemptsAreNumbered` follows: a new attempt takes the next number of its scene, and
no recorded number changes, so the `UNIQUE (scene_id, ordinal)` of migration 015 never
stops a command. `AssembliesAreSettled` and `CompletedRunsStay` say what later
reports and commands cannot do to an ordered assembly and a completed run.
`RunsFailForCurrentAttempts` is about failures, whatever is in `Fault`: a follow-up
that has found the row of its attempt finds it there still, or a command has replaced
the attempt in between and `overtaken` has it (`FoundIsCurrent`; section 6).

**Campaign edits** (`CampaignEditsProofs`), for any scenes, deliveries, ids and
revisions: `LastApprovalDispatches`, `DispatchedAsApproved`, `SuccessesAreTrue` and
`OthersDoNotDeadlock`. The invariant is about locks: rows are held by one delivery
(`LocksApart`), a delivery holds or is yet to lock what its request needs (`Sound`),
so that what it read when it had them all is what there is until it commits
(`SnapshotsHold`). With it an approval sees every sibling as it is, an approved
scene has an approval on record that named its revision (`ApprovedAsNamed`), and two
transactions that wait for each other would both hold the campaign's row. The same
invariant gives `UpdatesAreNotLost`: transactions save the whole aggregate they have
read, and still every change of a scene is one method (or an approval with its
queueing) applied to the scene as it is at the commit. Hence `DispatchIsFinal`, for a
scene in production has no such method left, and `CommandsKeepTheirIds`.

**Assembly** (`DeliveryAssemblyProofs`), for any workers, toolchains, budgets and
lost follow-ups. `StorageInv` has what each attempt may rely on (`Fits`: one that
commits encoded what the manifest says, one that reports success found or made a
complete delivery) and that reports under way are true (`LateIsTrue`): a manifest
never changes and a delivery stays (`DeliveriesArePermanent`), so a report is true however late it is carried
out. From it `VideoIsDescribed` and `CompletionIsDelivery`. `RunInv` adds that a
follow-up is owed only for what the row has become (`OwedAsSettled`), whence
`RunFollowsItsJob`. `RowMoves` lists the moves of the row, each a step of
`JobLifecycle` (`AssemblyIsADurableJob`).

**Shot planning** (`ShotPlanningProofs`), for any instances, requests, revisions and
candidate jobs: `OneBatchAtATime`, `SelectionsStayLive`,
`ProductionRendersApprovedPlans`, and `PlansStayAsDecided` (no step takes the
approval of a plan back, revives a superseded one or moves a plan to another
revision). Two parts of `PlanningInv` carry the argument. `HolderStartsClean`: when a
run that can still write holds the lease, the scene has no draft of its revision,
because the admission found none or superseded them, and while the lease is held
nobody else makes drafts; without it two runs could each leave a batch.
`SelectionStays`: the selected plan is of the scene's revision, and is approved
wherever drafts can be superseded and the selection kept (a failed or generating
scene); without it a reroll after a failed production could supersede the plan that is
selected. A lease is held only by a scene that generates candidates (`SceneRules`),
and a request has no plans before it is done (`UnwrittenUntilDone`). The first and the
third are theorems of their own, `PlannersStartClean` and `PlanningKeepsSceneRules`.

**The rules of a scene in the larger models.** `Scene` is one method per step, and the
transactions of the other models make two at once (an approval and the queueing) and
number jobs across scenes, so that `Scene` is not an abstraction of them step by
step. Its rules are instead parts of their invariants, proved there again:
`Attempt` and `Acceptance` (`ScenesNameTheirAttempts`), `SceneRules`
(`PlanningKeepsSceneRules`), `SceneMethod` (`UpdatesAreNotLost`).

**Claims** (`ProductClaimsProofs`), for any claims, assets, sessions and commands.
`ClaimsImplementAuthority` is the refinement of `ClaimAuthority`, with an attestation
counted as supported although the verification event of another asset that it relies
on is withdrawn (`OwnSupport`; section 6); from it
`ActiveClaimsAreSupported` and `OverRevisionsAreOver`, what ADR 0009 promises, hold of
the register. `ReviewersApproveWhatTheySaw` and `CommandsAreAppliedOnce` state the
run's invariants. The invariant `ClaimsInv` is about locks that are shared and lists
that were made without them. A session that changes a dependency holds the row it
changes, for update, from before it lists the claims that cite it until it commits
(`MainLocks`); a link shares the rows of all it cites, so that no claim comes
to cite what is being withdrawn (`LinkedAreSafe`), the list stays complete (`Listed`:
every claim that the commit leaves without support is on it) and what
a session checked under its locks is true when it commits (`Guarded`). An approval
names a row's value, and whatever changes that value makes the approval fail
(`StillAsSeen`). `DeadlocksNeedAnOrigin`: each session but one that appends batch facts
and names their origin asks for its locks in one canonical order (`Ordered`), so that
in a circle without such a session nobody would wait for the one that waits for the
greatest row.

Model-checked only: all liveness (`DeadLockIsReclaimed`, `OutcomeReachesScene`,
`RunReachesReview`, `LeaseEnds`, `BatchIsReviewed`, `CompletionReachesRun`,
`WorkerStops`, the two `JobSettles`), which needs fairness and `ENABLED`, outside the
reach of the prover; and the two violations of section 6. Every other property of a
run is stated by a theorem.

## 6. What the models showed

Two disagreements between the code and what is written about it, each with a run
that ends in a counterexample:

1. `run_late_accept`: after a failed attempt the run is `failed` until the follow-up
   of the next attempt. An acceptance that comes between the scene's follow-up and
   the run's enqueues no assembly, and nothing does later.
2. `edits_bindings`: an edit locks its own scene, reads the bindings of the whole
   plan without a lock and saves them all. Of two edits of siblings the later save
   takes the earlier binding back, so that a scene's binding is of an old revision
   until its next edit or a replan.

Behaviour that is modelled as coded and that the properties step around by name,
because no document says what should happen or says it otherwise:

* *Queue.* After a lost candidate slot the queue fails the row without comparing the
  lease token: a holder whose lease ran out between rollback and clean-up fails a
  row that somebody else has leased since. `Bury` of `JobLifecycle` lets it.
* *GPU.* "At most one active diffusion generation may execute on an RTX 4090 at any
  time" (`docs/render-worker-cli.md:144`) does not hold in three cases, which
  `MutualExclusion` excepts by name. (a) A generation whose client has died goes on in
  ComfyUI while the dead client's lock is reclaimed. (b) A render that times out or
  loses its connection is interrupted by a request whose failure nobody sees
  (`comfyui-client.ts:195-203`), or, if `/prompt` gave no answer, not at all; its lease
  goes back. (c) After an untimely death two live processes render at once. Either a
  reclaimer dies with the guard in hand: of two others that probe the orphaned guard
  one unlinks it and links its own, the other then unlinks that one by name, and both
  recover the lock, the second one unlinking the lock of who has got in meanwhile. Or
  a holder dies after a reclaimer has read its name a second time: it had released,
  another process has linked the lock, and the probe of the dead name lets the
  reclaimer unlink it.
* *Sweeps.* A row whose worker is dead is failed by the next claim's sweep, which
  has no follow-up: the scene (in production), the batch (of candidates) or the run
  (in assembly) stays.
* *Worker.* A worker that learns it is superseded (409) goes on rendering and keeps
  the GPU until it is done (the dispatch contract design, line 194, asks for an
  abort). Its clean-up unlinks the file that its successor on the same host has
  staged under the same name. Heartbeats stop before the uploads, so that the lease
  may run out during their retries. A busy GPU costs a retry: the render is reported
  as failed.
* *Run.* A command that replaces an attempt between `FindRunScene` and `RunFollows`
  (`"overtake"` in `Fault`) lets the failure of a replaced attempt fail the run:
  `OnlyCurrentFailureFailsRun` excepts the attempts in `overtaken`, and
  `RunReachesReview` is checked without such commands. The re-approval branch for a
  rejected scene is not reached when the campaign has only that scene
  (`dispatch-campaign-production.ts:159`). A cancelled scene keeps its run in
  production review.
* *Assembly.* A worker whose completion was committed and not followed up finds the
  row `completed` when it probes, and does not repeat the report: the run stays
  `assembling` (`CompletionReachesRun` excepts it). A failed assembly ends the run
  for good.
* *Planning.* Completeness of a batch is asked of all candidate jobs of the scene. A
  repeated report while a planner holds the lease submits the scene for review,
  clears the lease, and the run's plans are dropped. The coordinator takes any
  request for a scene whose task is in flight for a duplicate, also one for a new
  revision or a reroll. After a reroll whose run failed, a plain request is answered
  with the superseded plans.
* *Edits.* A reroll bumps the revision and syncs no binding; nothing in the code
  compares the two (the `SceneDurationBindingMismatchError` of a comment does not
  exist). A change of references locks its scene before its siblings, so that it can
  be in a deadlock with approvals, replans and its own kind, which PostgreSQL ends
  by a rollback (`OnlyReferenceChangesDeadlock`). `approvedScenes` of a campaign is
  not lowered by an edit.
* *Claims.* A link may rely on the verification event of another asset, which it
  does not lock: the withdrawal of that event can commit unseen by it, and leaves a
  claim active on evidence that ADR 0009, 3.4, and the code's own eligibility call
  ineligible. `OwnSupport` excepts this, so `ImplementsAuthority` does not exclude it
  (reading a claim evaluates its eligibility again). An append of batch facts that
  names its origin evidence locks out of order and can deadlock with a verification
  event, against ADR 0009:273 and :287; `OnlyOriginsDeadlock` excepts it. A cascade lists claims before it locks them and under the
  lock reads the state only, so that a claim relinked in between is invalidated
  though it no longer cites the dependency. Disputes are of an asset, not of its
  bytes. Tamper detection before approval (ADR 0009:323) is not in the code.
* *Evidence ingest* (read, not modelled): a refused duplicate upload leaves its
  reservation `abandoned`, which counts against the client's quota for ever; two
  registrations at once can each miss the other in the sum; a PUT whose answer is
  lost releases the reservation of an object that is there; nothing reaps expired
  reservations.

## 7. Not modelled

* *Time* is a nondeterministic expiry; durations and timeouts have no length.
* *Data*: prompts, manifests, media, hashes, frame counts. A completion's payload is
  valid or makes the transaction roll back.
* *Render inputs*: references, profiles and licences that make a dispatch fail
  before it changes anything. *Candidate jobs* in the worker: they take the way of
  production jobs with another payload.
* *Foreign or malformed lock files* and reused pids of the GPU host.
* *Planning of durations*: the search for a feasible allocation. `CampaignEdits` has
  a plan as a number; a change of engine or duration alone is always refused in a
  planned campaign and has no action; the reference bible, the comparison of
  fingerprints at dispatch and the re-approval of rejected scenes (which is in
  `ProductionRun`) are left out there.
* *Evidence*: creation of rows, metadata, derivatives, and the ingest of bytes with
  its quota; the read model of a claim's eligibility.
* *Operator acceptance*: a second assembly queue with the lease protocol of the
  first.
* *Certification and experiment harnesses*: sequential measurements on one host.
  *Media adapters*: external programs. *Review Hub*, *contracts*: no state of their
  own. *Campaign creation* and *storyboards*: single transactions.

## 8. Plan

Done: `RenderJobQueue` with `JobLifecycle`, `GpuLease`, `SceneAggregate`, `Scene`,
`ProductionRun`, `ShotPlanning`, `DeliveryAssembly`, `RenderWorker` over the queue,
`ProductClaims` with `ClaimAuthority`, `CampaignEdits`, and the proofs of all of them.

Next, in this order:

1. What `SceneMethod` is to `CampaignEdits`, for `ProductionRun` and `ShotPlanning`:
   that their steps are methods of the aggregate, of one list for all three.
2. Evidence ingest: reservations against a quota, a put if absent, session locks
   that take at most half of the connection pool. Bounds: two uploads of one client,
   one lost answer.
3. Operator acceptance with its assembly queue, on `JobLifecycle`.
4. Storage watermarks and duration feasibility as pure functions against a reference
   definition.
