---------------------------- MODULE RenderWorker ----------------------------
(***************************************************************************)
(* The render workers of apps/render-worker: the loop that claims a job,   *)
(* starts it, renders it under the GPU lease of the host with a reference  *)
(* image staged for ComfyUI, uploads what came out and reports, beside a   *)
(* heartbeat loop that can find the attempt fenced.  The queue the workers *)
(* talk to is RenderJobQueue, statement by statement.                      *)
(*                                                                         *)
(* The answer of any call may be lost; the worker then repeats the call.   *)
(* (That a call is carried out after its caller has repeated it changes    *)
(* nothing here: RenderJobQueue allows every token at every time.)  The    *)
(* answer of a heartbeat is awaited before the render is settled, so a     *)
(* heartbeat is one step.  The storage watermark is read afresh by every   *)
(* admission check: a check may refuse or not.                             *)
(*                                                                         *)
(* The jobs are production jobs.  Candidate jobs take the same way with    *)
(* another payload; what is particular to them, the slot they may lose, is *)
(* in RenderJobQueue.                                                      *)
(***************************************************************************)
EXTENDS Naturals, FiniteSets

CONSTANTS
  Job, MaxRetries, Worker, Serves, MaxDefers,  \* of RenderJobQueue
  HostOf,      \* HostOf[w]: the machine, with one GPU and one ComfyUI
  Conditioned, \* the jobs whose workflow loads a reference image
  Stoppable,   \* the workers that may be told to shut down
  MaxCrashes   \* bound: how many worker processes die

ASSUME WorkerAssumption ==
  /\ Job \subseteq Nat \ {0} /\ Conditioned \subseteq Job
  /\ MaxRetries \in [Job -> Nat] /\ Serves \in [Worker -> SUBSET Job]
  /\ Stoppable \subseteq Worker
  /\ MaxDefers \in Nat /\ MaxCrashes \in Nat

VARIABLES
  job, live, defers, gate, claiming, tx, conflict, manifests, candidates,
  worker,      \* worker[w]: where its loop is, with which job and token,
               \* whether it is fenced and how the render came out
  gpu,         \* gpu[h]: the worker that holds the GPU lease of h
  image,       \* image[h][j]: whether the file staged for j is in the input
               \* directory of h, and if not, the token that removed it
  media,       \* the attempts whose media are in object storage
  stopping,    \* the workers told to shut down
  crashes

Queue == INSTANCE RenderJobQueue WITH
  Kind <- [j \in Job |-> "production"],
  Slot <- [j \in Job |-> "none"]

queueVars == <<job, live, defers, gate, claiming, tx, conflict, manifests, candidates>>
workVars == <<gpu, image, media>>
faultVars == <<stopping, crashes>>
vars == <<queueVars, worker, workVars, faultVars>>

Host == {HostOf[w] : w \in Worker}
Nobody == "nobody"
NoToken == 0
\* The polls of the loop, and a job's way through processJob.
At == {"polling", "claiming", "starting", "staging", "acquiring", "rendering",
       "cleaning", "settling", "uploading", "completing", "failing", "deferring",
       "stopped"}
\* No render yet, a good one, the GPU was busy, any other error.
Outcome == {"none", "good", "busy", "bad"}
AtWork == [at : At, job : Job \cup {0}, token : Nat, fenced : BOOLEAN, out : Outcome]
Attempt == [job : Job, token : Nat]
Polling == [at |-> "polling", job |-> 0, token |-> 0, fenced |-> FALSE, out |-> "none"]

TypeOK ==
  /\ worker \in [Worker -> AtWork]
  /\ gpu \in [Host -> Worker \cup {Nobody}]
  /\ image \in [Host -> [Job -> [there : BOOLEAN, takenBy : Nat]]]
  /\ media \subseteq Attempt
  /\ stopping \subseteq Stoppable
  /\ crashes \in 0 .. MaxCrashes

Init ==
  /\ Queue!Init
  /\ worker = [w \in Worker |-> Polling]
  /\ gpu = [h \in Host |-> Nobody]
  /\ image = [h \in Host |-> [j \in Job |-> [there |-> FALSE, takenBy |-> NoToken]]]
  /\ media = {}
  /\ stopping = {} /\ crashes = 0

-----------------------------------------------------------------------------
JobOf(w) == worker[w].job
TokenOf(w) == worker[w].token
AttemptOf(w) == [job |-> JobOf(w), token |-> TokenOf(w)]
IsAt(w, at) == worker[w].at = at
GoTo(w, at) == worker' = [worker EXCEPT ![w].at = at]
ComeOut(w, out, at) == worker' = [worker EXCEPT ![w].at = at, ![w].out = out]
GiveUp(w) == worker' = [worker EXCEPT ![w] = Polling]
Owns(w) == Queue!Holds(JobOf(w), TokenOf(w))
RowIs(w, s) == job[JobOf(w)].status = s /\ job[JobOf(w)].token = TokenOf(w)
Unlocked(w) == tx[JobOf(w)] = 0

-----------------------------------------------------------------------------
(* The loop: claim.                                                        *)
Enqueue(j) == Queue!Enqueue(j) /\ UNCHANGED <<worker, workVars, faultVars>>

SendClaim(w) ==
  /\ IsAt(w, "polling")
  /\ w \notin stopping
  /\ Queue!BeginClaim(w)
  /\ GoTo(w, "claiming")
  /\ UNCHANGED <<workVars, faultVars>>

\* A claim that comes back with a job is processed, whether or not a shutdown
\* was requested meanwhile.
TakeJob(w) ==
  /\ IsAt(w, "claiming")
  /\ Queue!ClaimRow(w)
  /\ \E j \in Job :
       /\ job'[j].token # job[j].token
       /\ worker' = [worker EXCEPT ![w] =
                       [Polling EXCEPT !.at = "starting", !.job = j, !.token = job'[j].token]]
  /\ UNCHANGED <<workVars, faultVars>>

\* The row is leased and the worker does not know.
LoseClaim(w) ==
  /\ IsAt(w, "claiming")
  /\ Queue!ClaimRow(w)
  /\ GiveUp(w)
  /\ UNCHANGED <<workVars, faultVars>>

FindNothing(w) ==
  /\ IsAt(w, "claiming")
  /\ Queue!ClaimNothing(w)
  /\ GiveUp(w)
  /\ UNCHANGED <<workVars, faultVars>>

-----------------------------------------------------------------------------
(* startWithRetry.                                                         *)
Started(w) ==
  /\ IsAt(w, "starting")
  /\ Unlocked(w)
  /\ \/ Queue!Start(JobOf(w), TokenOf(w))
     \/ RowIs(w, "rendering") /\ UNCHANGED queueVars
  /\ GoTo(w, "staging")
  /\ UNCHANGED <<workVars, faultVars>>

LoseStart(w) ==
  /\ IsAt(w, "starting")
  /\ Queue!Start(JobOf(w), TokenOf(w))
  /\ UNCHANGED <<worker, workVars, faultVars>>

\* superseded or not_found: the attempt is abandoned before it renders.
StartRefused(w) ==
  /\ IsAt(w, "starting")
  /\ Unlocked(w)
  /\ ~Owns(w)
  /\ GiveUp(w)
  /\ UNCHANGED <<queueVars, workVars, faultVars>>

\* A call that fails after the shutdown was requested is not repeated: the
\* error leaves processJob, and nothing is reported of the job.
StartAborted(w) ==
  /\ IsAt(w, "starting")
  /\ w \in stopping
  /\ GiveUp(w)
  /\ UNCHANGED <<queueVars, workVars, faultVars>>

-----------------------------------------------------------------------------
(* The executor: stage, lease the GPU, render, clean up.                   *)
SetImage(w, file) == image' = [image EXCEPT ![HostOf[w]][JobOf(w)] = file]

\* Everything that is resolved and verified before the upload, and again
\* between the upload and the lease, may fail.
PreflightFails(w) ==
  /\ \/ IsAt(w, "staging") /\ ComeOut(w, "bad", "settling")
     \/ IsAt(w, "acquiring") /\ ComeOut(w, "bad", "cleaning")
  /\ UNCHANGED <<queueVars, workVars, faultVars>>

\* The file's name is made of scene, job and digest: every attempt at the job
\* on this machine uses the same file, and the upload overwrites it.
Stage(w) ==
  /\ IsAt(w, "staging")
  /\ IF JobOf(w) \in Conditioned THEN SetImage(w, [there |-> TRUE, takenBy |-> NoToken]) ELSE UNCHANGED image
  /\ GoTo(w, "acquiring")
  /\ UNCHANGED <<queueVars, gpu, media, faultVars>>

\* Mutant: the finally that unlinks the file closes before the render.
AcquireGpuCleaned(w) ==
  /\ IsAt(w, "acquiring")
  /\ gpu[HostOf[w]] = Nobody
  /\ gpu' = [gpu EXCEPT ![HostOf[w]] = w]
  /\ SetImage(w, [there |-> FALSE, takenBy |-> TokenOf(w)])
  /\ GoTo(w, "rendering")
  /\ UNCHANGED <<queueVars, media, faultVars>>

AcquireGpu(w) ==
  /\ IsAt(w, "acquiring")
  /\ gpu[HostOf[w]] = Nobody
  /\ gpu' = [gpu EXCEPT ![HostOf[w]] = w]
  /\ GoTo(w, "rendering")
  /\ UNCHANGED <<queueVars, image, media, faultVars>>

\* acquireLease does not wait: a live holder is an error of the render.
TurnedAway(w) ==
  /\ IsAt(w, "acquiring")
  /\ gpu[HostOf[w]] # Nobody
  /\ ComeOut(w, "busy", "cleaning")
  /\ UNCHANGED <<queueVars, workVars, faultVars>>

\* ComfyUI loads the image when it runs the prompt.
FindsImage(w) == JobOf(w) \in Conditioned => image[HostOf[w]][JobOf(w)].there

\* The prompt runs and its outputs are read, or one of the two fails; the GPU
\* lease goes back in either case.
Render(w) ==
  /\ IsAt(w, "rendering")
  /\ gpu' = [gpu EXCEPT ![HostOf[w]] = Nobody]
  /\ \E out \in {"good", "bad"} :
       /\ out = "good" => FindsImage(w)
       /\ ComeOut(w, out, "cleaning")
  /\ UNCHANGED <<queueVars, image, media, faultVars>>

\* The finally of the executor unlinks the file; that may fail unnoticed.
CleanUp(w) ==
  /\ IsAt(w, "cleaning")
  /\ \/ JobOf(w) \in Conditioned /\ SetImage(w, [there |-> FALSE, takenBy |-> TokenOf(w)])
     \/ UNCHANGED image
  /\ GoTo(w, "settling")
  /\ UNCHANGED <<queueVars, gpu, media, faultVars>>

-----------------------------------------------------------------------------
(* The heartbeat loop, from the answer of start to the end of the render.  *)
Beating(w) ==
  /\ worker[w].at \in {"staging", "acquiring", "rendering", "cleaning"}
  /\ ~worker[w].fenced

Beat(w) ==
  /\ Beating(w)
  /\ Queue!Heartbeat(JobOf(w), TokenOf(w))
  /\ UNCHANGED <<worker, workVars, faultVars>>

\* The render itself goes on: nobody aborts the executor.
LearnFenced(w) ==
  /\ Beating(w)
  /\ Unlocked(w)
  /\ ~Owns(w)
  /\ worker' = [worker EXCEPT ![w].fenced = TRUE]
  /\ UNCHANGED <<queueVars, workVars, faultVars>>

-----------------------------------------------------------------------------
(* Settlement.                                                             *)
SettleRender(w) ==
  /\ IsAt(w, "settling")
  /\ CASE worker[w].fenced -> GiveUp(w)
       [] ~worker[w].fenced /\ worker[w].out = "good" -> GoTo(w, "uploading")
       [] OTHER -> GoTo(w, "failing")
  /\ UNCHANGED <<queueVars, workVars, faultVars>>

\* Mutant: an upload that fails is taken for one that succeeded.
UploadUnchecked(w) ==
  /\ IsAt(w, "uploading")
  /\ media' \in {media, media \cup {AttemptOf(w)}}
  /\ GoTo(w, "completing")
  /\ UNCHANGED <<queueVars, gpu, image, faultVars>>

Upload(w) ==
  /\ IsAt(w, "uploading")
  /\ media' = media \cup {AttemptOf(w)}
  /\ GoTo(w, "completing")
  /\ UNCHANGED <<queueVars, gpu, image, faultVars>>

\* The admission check before each object and before the completion, or the
\* 507 of the API, which has a check of its own.
RefusedByStorage(w) ==
  /\ \/ IsAt(w, "uploading")
     \/ IsAt(w, "completing") /\ Unlocked(w)
  /\ defers[JobOf(w)] < MaxDefers
  /\ GoTo(w, "deferring")
  /\ UNCHANGED <<queueVars, workVars, faultVars>>

UploadFails(w) ==
  /\ IsAt(w, "uploading")
  /\ GoTo(w, "failing")
  /\ UNCHANGED <<queueVars, workVars, faultVars>>

\* completeWithRetry: the API opens its transaction ...
SendComplete(w) ==
  /\ IsAt(w, "completing")
  /\ Queue!BeginComplete(JobOf(w), TokenOf(w))
  /\ UNCHANGED <<worker, workVars, faultVars>>

\* ... commits it, or rolls it back when a connection dies; the worker then
\* calls again ...
CommitComplete(j) ==
  /\ Queue!CommitProduction(j)
  /\ UNCHANGED <<worker, workVars, faultVars>>

RollbackComplete(j) ==
  /\ Queue!RollbackComplete(j)
  /\ UNCHANGED <<worker, workVars, faultVars>>

\* ... refuses the payload with a 400 ...
PayloadRefused(w) ==
  /\ IsAt(w, "completing")
  /\ Queue!RollbackComplete(JobOf(w))
  /\ GoTo(w, "failing")
  /\ UNCHANGED <<workVars, faultVars>>

\* ... or answers: applied, already_applied or superseded.
Completed(w) ==
  /\ IsAt(w, "completing")
  /\ Unlocked(w)
  /\ ~RowIs(w, "rendering")
  /\ GiveUp(w)
  /\ UNCHANGED <<queueVars, workVars, faultVars>>

-----------------------------------------------------------------------------
(* failWithRetry and deferWithRetry: repeated until an answer comes, 409    *)
(* included, shutdown or not.                                              *)
Report(w) ==
  \/ IsAt(w, "failing") /\ Queue!Fail(JobOf(w), TokenOf(w))
  \/ IsAt(w, "deferring") /\ Queue!Defer(JobOf(w), TokenOf(w))

Reported(w) ==
  /\ Report(w)
  /\ GiveUp(w)
  /\ UNCHANGED <<workVars, faultVars>>

LoseReport(w) ==
  /\ Report(w)
  /\ UNCHANGED <<worker, workVars, faultVars>>

\* Mutant: only the terminal answer ends the retries, a 409 does not.
ReportRefusedOnlyTerminal(w) ==
  /\ worker[w].at \in {"failing", "deferring"}
  /\ Unlocked(w)
  /\ job[JobOf(w)].status \in Queue!Terminal
  /\ GiveUp(w)
  /\ UNCHANGED <<queueVars, workVars, faultVars>>

ReportRefused(w) ==
  /\ worker[w].at \in {"failing", "deferring"}
  /\ Unlocked(w)
  /\ ~Owns(w)
  /\ GiveUp(w)
  /\ UNCHANGED <<queueVars, workVars, faultVars>>

\* Any other 4xx ends processJob with an error and without a report.
CallRejected(w) ==
  /\ worker[w].at \in {"starting", "failing", "deferring"}
  /\ GiveUp(w)
  /\ UNCHANGED <<queueVars, workVars, faultVars>>

-----------------------------------------------------------------------------
(* Shutdown, crashes and time.                                             *)
RequestShutdown(w) ==
  /\ w \in Stoppable \ stopping
  /\ stopping' = stopping \cup {w}
  /\ UNCHANGED <<queueVars, worker, workVars, crashes>>

Stop(w) ==
  /\ IsAt(w, "polling")
  /\ w \in stopping
  /\ GoTo(w, "stopped")
  /\ UNCHANGED <<queueVars, workVars, faultVars>>

\* The process dies in the middle of a job and is started again; the lock of
\* a dead process is reclaimed (GpuLease), its staged file stays.  A death
\* during a claim looks like LoseClaim.
Crash(w) ==
  /\ worker[w].at \notin {"polling", "claiming", "stopped"}
  /\ crashes < MaxCrashes
  /\ crashes' = crashes + 1
  /\ GiveUp(w)
  /\ gpu' = [h \in Host |-> IF gpu[h] = w THEN Nobody ELSE gpu[h]]
  /\ UNCHANGED <<queueVars, image, media, stopping>>

Expire(j) == Queue!Expire(j) /\ UNCHANGED <<worker, workVars, faultVars>>

\* What the program of a worker does next when its calls are answered.
Proceed(w) ==
  \/ SendClaim(w) \/ TakeJob(w) \/ FindNothing(w)
  \/ Started(w) \/ StartRefused(w)
  \/ Stage(w) \/ AcquireGpu(w) \/ TurnedAway(w) \/ Render(w) \/ CleanUp(w)
  \/ SettleRender(w) \/ Upload(w) \/ SendComplete(w) \/ Completed(w)
  \/ Reported(w) \/ ReportRefused(w)
  \/ Stop(w)

Mishap(w) ==
  \/ LoseClaim(w) \/ LoseStart(w) \/ LoseReport(w)
  \/ StartAborted(w) \/ PreflightFails(w) \/ UploadFails(w)
  \/ RefusedByStorage(w) \/ PayloadRefused(w) \/ CallRejected(w)
  \/ RequestShutdown(w) \/ Crash(w)

Next ==
  \/ \E w \in Worker : Proceed(w) \/ Beat(w) \/ LearnFenced(w) \/ Mishap(w)
  \/ \E j \in Job : Enqueue(j) \/ CommitComplete(j) \/ RollbackComplete(j) \/ Expire(j)

Spec == Init /\ [][Next]_vars

(***************************************************************************)
(* Calls that are repeated get through in the end, rows that are locked    *)
(* again and again are queued for (SF), a completion is not rolled back    *)
(* for ever, and the clock passes the lease of a job that no process       *)
(* renews.  Nothing is assumed of heartbeats.                              *)
(***************************************************************************)
Orphaned(j) == \A w \in Worker : AttemptOf(w) # [job |-> j, token |-> job[j].token]

Fairness ==
  /\ \A w \in Worker : SF_vars(Proceed(w))
  /\ \A j \in Job : /\ SF_vars(CommitComplete(j))
                    /\ WF_vars(CommitComplete(j) \/ RollbackComplete(j))
                    /\ WF_vars(Expire(j) /\ Orphaned(j))

FairSpec == Spec /\ Fairness

-----------------------------------------------------------------------------
(***************************************************************************)
(* Properties.                                                             *)
(***************************************************************************)
\* A completed job was completed by an attempt whose own render succeeded and
\* whose own media were stored before (processJob, persistAndComplete):
\* neither repeated calls, nor a predecessor's upload, nor a failed render
\* that is reported late makes up for them.
CompletedJobHasItsMedia ==
  \A j \in Job : job[j].status = "completed" =>
    [job |-> j, token |-> job[j].token] \in media

\* A render finds the image it staged, unless another attempt at the same job
\* has cleaned up on the same machine in the meantime (the deterministic file
\* name of the executor): no other job and no step of its own takes it away.
ImageIsLostToAnotherAttempt ==
  \A w \in Worker : IsAt(w, "rendering") /\ ~FindsImage(w) =>
    image[HostOf[w]][JobOf(w)].takenBy \notin {NoToken, TokenOf(w)}

\* Every job that is queued ends completed or failed, whatever answers are
\* lost, processes die and leases expire, as long as one worker polls (the
\* loops of RenderWorker, the sweep and the reclaim of claim).
JobSettles ==
  \A j \in Job : (job[j].status # "absent") ~> (job[j].status \in Queue!Terminal)

\* A worker told to shut down stops, after it has settled what it was doing
\* (requestShutdown, the finally of start).
WorkerStops ==
  \A w \in Worker : (w \in stopping) ~> IsAt(w, "stopped")
=============================================================================
