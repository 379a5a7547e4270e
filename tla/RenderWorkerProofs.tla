------------------------- MODULE RenderWorkerProofs -------------------------
(***************************************************************************)
(* Theorems about the render workers, for any number of workers, machines, *)
(* jobs, retries, crashes and deferrals.  A worker may hold a token that   *)
(* is no longer its row's; what saves the day is that no two workers hold  *)
(* the same token of a job (TokensDiffer), that a worker asks for a        *)
(* completion only after its upload, and that an open completion is of the *)
(* row's token (QueueOK).  The workers keep to the queue, so that its      *)
(* theorems hold of them as well (Durable).  The last part is about the    *)
(* lease on the GPU of one host, for any number of processes.              *)
(***************************************************************************)
EXTENDS RenderWorker, GpuLease, TLAPS

\* In the loop, without a job.
Idle == {"polling", "claiming", "stopped"}
Busy(w) == worker[w].at \notin Idle

\* What is needed of the queue: its types, and that an open completion owns
\* its row.
QueueOK ==
  /\ job \in [Job -> Queue!Row]
  /\ tx \in [Job -> Nat]
  /\ conflict \subseteq Queue!Completion
  /\ \A j \in Job : tx[j] # 0 => job[j].status = "rendering" /\ job[j].token = tx[j]

\* A worker has a job and a token the job once had.
HasJob ==
  \A w \in Worker : Busy(w) => JobOf(w) \in Job /\ TokenOf(w) \in 1 .. job[JobOf(w)].token

TokensDiffer ==
  \A v, w \in Worker : v # w /\ Busy(v) /\ Busy(w) /\ JobOf(v) = JobOf(w) => TokenOf(v) # TokenOf(w)

\* A completion is asked for, opened and committed for media that are stored.
MediaBeforeCompletion ==
  /\ \A w \in Worker : IsAt(w, "completing") => AttemptOf(w) \in media
  /\ \A j \in Job : tx[j] # 0 => [job |-> j, token |-> tx[j]] \in media

\* From the upload to the render the image is there, or somebody else took it.
ImageIsThere ==
  \A w \in Worker : /\ worker[w].at \in {"acquiring", "rendering"}
                    /\ JobOf(w) \in Conditioned
    => LET file == image[HostOf[w]][JobOf(w)]
       IN  file.there \/ file.takenBy \notin {NoToken, TokenOf(w)}

Loop == worker \in [Worker -> AtWork] /\ QueueOK /\ HasJob /\ TokensDiffer

USE DEF At, Outcome, AtWork, Polling, NoToken

-----------------------------------------------------------------------------
(* The queue.                                                              *)

\* No step of the queue takes a token back, and only an open completion
\* completes a row.
LEMMA QueueKeeps ==
  ASSUME QueueOK, [Queue!Next]_(Queue!vars)
  PROVE  /\ QueueOK'
         /\ \A j \in Job :
              /\ job'[j].token >= job[j].token
              /\ job'[j].status = "completed" =>
                   /\ job'[j].token = job[j].token
                   /\ job[j].status = "completed" \/ tx[j] # 0
<1> DEFINE Kept(j) == /\ job'[j].token >= job[j].token
                      /\ job'[j].status = "completed" =>
                           /\ job'[j].token = job[j].token
                           /\ job[j].status = "completed" \/ tx[j] # 0
           Goal == QueueOK' /\ \A j \in Job : Kept(j)
<1> SUFFICES Goal
  OBVIOUS
<1> USE DEF QueueOK, Queue!Row, Queue!Status, Queue!Active, Queue!Terminal, Queue!Completion
<1>1. ASSUME NEW j \in Job, Queue!Enqueue(j) PROVE Goal
  BY <1>1 DEF Queue!Enqueue, Queue!SetStatus
<1>2. ASSUME NEW w \in Worker, Queue!BeginClaim(w) PROVE Goal
  BY <1>2 DEF Queue!BeginClaim, Queue!Exhausted, Queue!Unlocked
<1>3. ASSUME NEW w \in Worker, Queue!ClaimRow(w) PROVE Goal
  <2>1. PICK j \in Job : /\ j \in Queue!Claimable(w)
                         /\ job' = [job EXCEPT ![j] = Queue!Leased(j)]
    BY <1>3 DEF Queue!ClaimRow, Queue!IsOldest
  <2>2. tx[j] = 0 /\ tx' = tx /\ conflict' = conflict
    BY <1>3, <2>1 DEF Queue!ClaimRow, Queue!EndClaim, Queue!Claimable, Queue!Unlocked
  <2>3. /\ Queue!Leased(j) \in Queue!Row
        /\ Queue!Leased(j).token = job[j].token + 1
        /\ Queue!Leased(j).status = "leased"
    BY DEF Queue!Leased, Queue!IsActive
  <2> QED
    BY <2>1, <2>2, <2>3
<1>4. ASSUME NEW w \in Worker, Queue!ClaimNothing(w) PROVE Goal
  BY <1>4 DEF Queue!ClaimNothing, Queue!EndClaim
<1>5. ASSUME NEW j \in Job, NEW t \in Queue!Issued(j), Queue!Call(j, t) PROVE Goal
  <2>1. t \in Nat
    BY DEF Queue!Issued
  <2>2. CASE Queue!Start(j, t)
    BY <2>2 DEF Queue!Start, Queue!SetStatus, Queue!Unlocked
  <2>3. CASE Queue!Heartbeat(j, t)
    BY <2>3 DEF Queue!Heartbeat
  <2>4. CASE Queue!BeginComplete(j, t)
    BY <2>1, <2>4 DEF Queue!BeginComplete
  <2>5. CASE Queue!Fail(j, t)
    BY <2>5 DEF Queue!Fail, Queue!SetStatus, Queue!Unlocked
  <2>6. CASE Queue!Defer(j, t)
    BY <2>6 DEF Queue!Defer, Queue!SetStatus, Queue!Unlocked
  <2> QED
    BY <1>5, <2>2, <2>3, <2>4, <2>5, <2>6 DEF Queue!Call
<1>6. ASSUME NEW j \in Job, Queue!Settle(j) PROVE Goal
  <2>1. CASE Queue!CommitProduction(j)
    BY <2>1 DEF Queue!CommitProduction, Queue!SetStatus, Queue!Unlocked
  <2>2. CASE Queue!CommitCandidate(j)
    BY <2>2 DEF Queue!CommitCandidate, Queue!SetStatus, Queue!Unlocked
  <2>3. CASE Queue!RollbackComplete(j)
    BY <2>3 DEF Queue!RollbackComplete
  <2>4. CASE Queue!ConflictComplete(j)
    BY <2>4 DEF Queue!ConflictComplete
  <2> QED
    BY <1>6, <2>1, <2>2, <2>3, <2>4 DEF Queue!Settle
<1>7. ASSUME NEW c \in conflict, Queue!FailConflicted(c) PROVE Goal
  BY <1>7 DEF Queue!FailConflicted, Queue!SetStatus, Queue!Unlocked
<1>8. ASSUME NEW c \in conflict, Queue!LoseConflict(c) PROVE Goal
  BY <1>8 DEF Queue!LoseConflict
<1>9. ASSUME NEW j \in Job, Queue!Expire(j) PROVE Goal
  BY <1>9 DEF Queue!Expire
<1>10. CASE Queue!MoveGate
  BY <1>10 DEF Queue!MoveGate
<1>11. CASE UNCHANGED Queue!vars
  BY <1>11 DEF Queue!vars
<1> QED
  BY <1>1, <1>2, <1>3, <1>4, <1>5, <1>6, <1>7, <1>8, <1>9, <1>10, <1>11
     DEF Queue!Next, Queue!Claim

-----------------------------------------------------------------------------
(* The workers, over the queue.                                            *)

\* A token of the row is one it has issued: workers call with those only.
LEMMA CallsAreIssued ==
  ASSUME Loop, NEW w \in Worker, Busy(w)
  PROVE  JobOf(w) \in Job /\ TokenOf(w) \in Queue!Issued(JobOf(w))
BY DEF Loop, HasJob, Queue!Issued

\* Whatever the workers do, to the queue it is one of its own steps.
LEMMA StepsOfTheQueue == Loop /\ [Next]_vars => [Queue!Next]_(Queue!vars)
<1> SUFFICES ASSUME Loop, [Next]_vars PROVE [Queue!Next]_(Queue!vars)
  OBVIOUS
<1>c. ASSUME NEW w \in Worker, Busy(w), Queue!Call(JobOf(w), TokenOf(w))
      PROVE  Queue!Next
  BY <1>c, CallsAreIssued DEF Queue!Next
<1>1. ASSUME NEW w \in Worker, SendClaim(w) \/ TakeJob(w) \/ FindNothing(w) \/ LoseClaim(w)
      PROVE  Queue!Next
  BY <1>1 DEF SendClaim, TakeJob, FindNothing, LoseClaim, Queue!Next, Queue!Claim
<1>2. ASSUME NEW w \in Worker, Started(w) \/ LoseStart(w)
      PROVE  [Queue!Next]_(Queue!vars)
  BY <1>2, <1>c DEF Started, LoseStart, IsAt, Busy, Idle, Queue!Call, queueVars, Queue!vars
<1>3. ASSUME NEW w \in Worker, SendComplete(w) \/ Reported(w) \/ LoseReport(w) \/ Beat(w)
      PROVE  Queue!Next
  BY <1>3, <1>c DEF SendComplete, Reported, LoseReport, Report, Beat, Beating, IsAt, Busy, Idle,
                    Queue!Call
<1>4. ASSUME NEW w \in Worker, PayloadRefused(w)
      PROVE  Queue!Next
  BY <1>4, CallsAreIssued DEF PayloadRefused, IsAt, Busy, Idle, Queue!Next, Queue!Settle
<1>5. ASSUME NEW j \in Job, Enqueue(j) \/ CommitComplete(j) \/ RollbackComplete(j) \/ Expire(j)
      PROVE  Queue!Next
  BY <1>5 DEF Enqueue, CommitComplete, RollbackComplete, Expire, Queue!Next, Queue!Settle
<1>6. ASSUME NEW w \in Worker,
             \/ StartRefused(w) \/ StartAborted(w) \/ PreflightFails(w) \/ Stage(w)
             \/ AcquireGpu(w) \/ TurnedAway(w) \/ Render(w) \/ CleanUp(w) \/ LearnFenced(w)
             \/ SettleRender(w) \/ Upload(w) \/ RefusedByStorage(w) \/ UploadFails(w)
             \/ Completed(w) \/ ReportRefused(w) \/ CallRejected(w)
             \/ RequestShutdown(w) \/ Stop(w) \/ Crash(w)
      PROVE  UNCHANGED Queue!vars
  BY <1>6 DEF StartRefused, StartAborted, PreflightFails, Stage, AcquireGpu, TurnedAway, Render,
              CleanUp, LearnFenced, SettleRender, Upload, RefusedByStorage, UploadFails, Completed,
              ReportRefused, CallRejected, RequestShutdown, Stop, Crash, queueVars, Queue!vars
<1>7. CASE UNCHANGED vars
  BY <1>7 DEF vars, queueVars, Queue!vars
<1> QED
  BY <1>1, <1>2, <1>3, <1>4, <1>5, <1>6, <1>7 DEF Next, Proceed, Mishap

\* At most one worker moves: it loses its job, keeps its job and token, or
\* takes the job whose token the step issues.
LEMMA OneWorkerMoves ==
  ASSUME Loop, QueueOK', [Next]_vars
  PROVE  /\ worker' \in [Worker -> AtWork]
         /\ \/ worker' = worker
            \/ \E w \in Worker :
                 /\ \A v \in Worker \ {w} : worker'[v] = worker[v]
                 /\ \/ worker'[w].at \in Idle
                    \/ Busy(w) /\ worker'[w].job = JobOf(w) /\ worker'[w].token = TokenOf(w)
                    \/ \E j \in Job : /\ job'[j].token # job[j].token
                                      /\ worker'[w].job = j
                                      /\ worker'[w].token = job'[j].token
<1> DEFINE Same(w) == Busy(w) /\ worker'[w].job = JobOf(w) /\ worker'[w].token = TokenOf(w)
           Fresh(w) == \E j \in Job : /\ job'[j].token # job[j].token
                                      /\ worker'[w].job = j
                                      /\ worker'[w].token = job'[j].token
           Goal == /\ worker' \in [Worker -> AtWork]
                   /\ \/ worker' = worker
                      \/ \E w \in Worker : /\ \A v \in Worker \ {w} : worker'[v] = worker[v]
                                           /\ worker'[w].at \in Idle \/ Same(w) \/ Fresh(w)
<1> SUFFICES Goal
  OBVIOUS
<1> USE DEF Loop, IsAt, Idle
<1>g. ASSUME NEW w \in Worker, NEW at \in At, Busy(w), GoTo(w, at) PROVE Goal
  BY <1>g DEF GoTo, Busy, JobOf, TokenOf
<1>o. ASSUME NEW w \in Worker, NEW at \in At, NEW out \in Outcome, Busy(w), ComeOut(w, out, at)
      PROVE  Goal
  <2>1. worker' = [worker EXCEPT ![w] = [worker[w] EXCEPT !.at = at, !.out = out]]
    BY <1>o DEF ComeOut
  <2>2. [worker[w] EXCEPT !.at = at, !.out = out] \in AtWork
    OBVIOUS
  <2>3. worker' \in [Worker -> AtWork] /\ \A v \in Worker \ {w} : worker'[v] = worker[v]
    BY <2>1, <2>2
  <2>4. worker'[w].job = JobOf(w) /\ worker'[w].token = TokenOf(w)
    BY <2>1 DEF JobOf, TokenOf
  <2> QED
    BY <1>o, <2>3, <2>4
<1>u. ASSUME NEW w \in Worker, GiveUp(w) PROVE Goal
  BY <1>u DEF GiveUp
<1>1. ASSUME NEW w \in Worker, SendClaim(w) \/ Stop(w) PROVE Goal
  BY <1>1 DEF SendClaim, Stop, GoTo
<1>2. ASSUME NEW w \in Worker, TakeJob(w) PROVE Goal
  <2>1. PICK j \in Job : /\ job'[j].token # job[j].token
                         /\ worker' = [worker EXCEPT ![w] =
                              [Polling EXCEPT !.at = "starting", !.job = j, !.token = job'[j].token]]
    BY <1>2 DEF TakeJob
  <2>2. job'[j].token \in Nat
    BY DEF QueueOK, Queue!Row
  <2> QED
    BY <2>1, <2>2
<1>3. ASSUME NEW w \in Worker,
             \/ LoseClaim(w) \/ FindNothing(w) \/ StartRefused(w) \/ StartAborted(w)
             \/ Completed(w) \/ Reported(w) \/ ReportRefused(w) \/ CallRejected(w) \/ Crash(w)
      PROVE  Goal
  BY <1>3, <1>u DEF LoseClaim, FindNothing, StartRefused, StartAborted, Completed, Reported,
                    ReportRefused, CallRejected, Crash
<1>4. ASSUME NEW w \in Worker,
             \/ Started(w) \/ Stage(w) \/ AcquireGpu(w) \/ CleanUp(w) \/ Upload(w)
             \/ RefusedByStorage(w) \/ UploadFails(w) \/ PayloadRefused(w)
      PROVE  Goal
  BY <1>4, <1>g DEF Started, Stage, AcquireGpu, CleanUp, Upload, RefusedByStorage, UploadFails,
                    PayloadRefused, Busy
<1>5. ASSUME NEW w \in Worker, PreflightFails(w) \/ TurnedAway(w) \/ Render(w) PROVE Goal
  BY <1>5, <1>o DEF PreflightFails, TurnedAway, Render, Busy
<1>6. ASSUME NEW w \in Worker, SettleRender(w) PROVE Goal
  BY <1>6, <1>g, <1>u DEF SettleRender, Busy
<1>7. ASSUME NEW w \in Worker, LearnFenced(w) PROVE Goal
  BY <1>7 DEF LearnFenced, Beating, Busy, JobOf, TokenOf
<1>8. ASSUME NEW w \in Worker,
             LoseStart(w) \/ SendComplete(w) \/ LoseReport(w) \/ Beat(w) \/ RequestShutdown(w)
      PROVE  Goal
  BY <1>8 DEF LoseStart, SendComplete, LoseReport, Beat, RequestShutdown
<1>9. ASSUME NEW j \in Job, Enqueue(j) \/ CommitComplete(j) \/ RollbackComplete(j) \/ Expire(j)
      PROVE  Goal
  BY <1>9 DEF Enqueue, CommitComplete, RollbackComplete, Expire
<1>10. CASE UNCHANGED vars
  BY <1>10 DEF vars
<1> QED
  BY <1>1, <1>2, <1>3, <1>4, <1>5, <1>6, <1>7, <1>8, <1>9, <1>10 DEF Next, Proceed, Mishap

LEMMA LoopInit == Init => Loop
BY DEF Init, Loop, QueueOK, HasJob, TokensDiffer, Busy, Idle, Queue!Init, Queue!Row, Queue!Status

LEMMA LoopStep == Loop /\ [Next]_vars => Loop'
<1> SUFFICES ASSUME Loop, [Next]_vars PROVE Loop'
  OBVIOUS
<1>1. /\ QueueOK'
      /\ \A j \in Job : job[j].token \in Nat /\ job'[j].token \in Nat /\ job'[j].token >= job[j].token
  BY StepsOfTheQueue, QueueKeeps DEF Loop, QueueOK, Queue!Row
<1>2. HasJob /\ TokensDiffer
  BY DEF Loop
<1>3. worker' \in [Worker -> AtWork]
  BY <1>1, OneWorkerMoves
<1>4. CASE worker' = worker
  <2>1. HasJob'
    BY <1>1, <1>2, <1>4 DEF HasJob, Busy, JobOf, TokenOf
  <2>2. TokensDiffer'
    BY <1>2, <1>4 DEF TokensDiffer, Busy, JobOf, TokenOf
  <2> QED
    BY <1>1, <1>3, <2>1, <2>2 DEF Loop
<1>5. ASSUME NEW w \in Worker, \A v \in Worker \ {w} : worker'[v] = worker[v],
             worker'[w].at \in Idle
      PROVE  Loop'
  <2>1. HasJob'
    BY <1>1, <1>2, <1>5 DEF HasJob, Busy, JobOf, TokenOf
  <2>2. TokensDiffer'
    BY <1>2, <1>5 DEF TokensDiffer, Busy, JobOf, TokenOf
  <2> QED
    BY <1>1, <1>3, <2>1, <2>2 DEF Loop
<1>6. ASSUME NEW w \in Worker, \A v \in Worker \ {w} : worker'[v] = worker[v],
             Busy(w), worker'[w].job = JobOf(w), worker'[w].token = TokenOf(w)
      PROVE  Loop'
  <2>1. HasJob'
    BY <1>1, <1>2, <1>6 DEF HasJob, Busy, JobOf, TokenOf
  <2>2. TokensDiffer'
    BY <1>2, <1>6 DEF TokensDiffer, Busy, JobOf, TokenOf
  <2> QED
    BY <1>1, <1>3, <2>1, <2>2 DEF Loop
<1>7. ASSUME NEW w \in Worker, \A v \in Worker \ {w} : worker'[v] = worker[v],
             NEW j \in Job, job'[j].token # job[j].token,
             worker'[w].job = j, worker'[w].token = job'[j].token
      PROVE  Loop'
  <2>1. HasJob'
    BY <1>1, <1>2, <1>7 DEF HasJob, Busy, JobOf, TokenOf
  <2>2. \A v \in Worker \ {w} : Busy(v) /\ JobOf(v) = j => TokenOf(v) # job'[j].token
    BY <1>1, <1>2, <1>7 DEF HasJob
  <2>3. TokensDiffer'
    BY <1>2, <1>7, <2>2 DEF TokensDiffer, Busy, JobOf, TokenOf
  <2> QED
    BY <1>1, <1>3, <2>1, <2>3 DEF Loop
<1> QED
  BY <1>1, <1>4, <1>5, <1>6, <1>7, OneWorkerMoves

\* The workers use the queue as it is: what they do to its rows, with lost
\* answers, deaths and late reports, is a behaviour of RenderJobQueue, so that
\* its theorems hold of the composition.
THEOREM WorkersKeepToTheQueue == Spec => Queue!Spec
<1>1. Init => Queue!Init
  BY DEF Init
<1> QED
  BY <1>1, LoopInit, LoopStep, StepsOfTheQueue, PTL DEF Spec, Queue!Spec

\* However many workers, of however many hosts, are at the same job after
\* leases that were lost: each is there with a token of its own, so that what
\* one of them stores or reports is never taken for another's (the fencing
\* token of PostgresJobQueue, as the executor uses it).
THEOREM NoSharedAttempt == Spec => []TokensDiffer
BY LoopInit, LoopStep, PTL DEF Spec, Loop
-----------------------------------------------------------------------------
(* Media before completion.                                                *)

LEMMA MediaStep ==
  Loop /\ MediaBeforeCompletion /\ [Next]_vars => MediaBeforeCompletion'
<1> SUFFICES ASSUME Loop, MediaBeforeCompletion, [Next]_vars PROVE MediaBeforeCompletion'
  OBVIOUS
<1> DEFINE Stored(w) == IsAt(w, "completing") => AttemptOf(w) \in media
           Opened(j) == tx[j] # 0 => [job |-> j, token |-> tx[j]] \in media
<1> USE DEF Loop, QueueOK, MediaBeforeCompletion, IsAt, AttemptOf, JobOf, TokenOf
<1>a. ASSUME NEW w \in Worker, \A v \in Worker \ {w} : worker'[v] = worker[v],
             worker'[w].at # "completing", media' = media, \A j \in Job : tx'[j] \in {0, tx[j]}
      PROVE  MediaBeforeCompletion'
  BY <1>a
<1>b. ASSUME worker' = worker, media' = media, \A j \in Job : tx'[j] \in {0, tx[j]}
      PROVE  MediaBeforeCompletion'
  BY <1>b
<1>1. ASSUME NEW w \in Worker, SendComplete(w) PROVE MediaBeforeCompletion'
  BY <1>1, CallsAreIssued DEF SendComplete, Queue!BeginComplete, workVars, Busy, Idle
<1>2. ASSUME NEW w \in Worker, Upload(w) PROVE MediaBeforeCompletion'
  BY <1>2 DEF Upload, GoTo, queueVars
<1>3. ASSUME NEW w \in Worker, SendClaim(w) \/ TakeJob(w) \/ FindNothing(w) \/ LoseClaim(w)
      PROVE  MediaBeforeCompletion'
  <2>1. tx' = tx /\ media' = media
    BY <1>3 DEF SendClaim, TakeJob, FindNothing, LoseClaim, Queue!BeginClaim, Queue!ClaimRow,
                Queue!ClaimNothing, Queue!EndClaim, workVars
  <2>2. (\A v \in Worker \ {w} : worker'[v] = worker[v]) /\ worker'[w].at # "completing"
    <3>1. CASE TakeJob(w)
      <4>1. PICK j \in Job : worker' = [worker EXCEPT ![w] =
                              [Polling EXCEPT !.at = "starting", !.job = j, !.token = job'[j].token]]
        BY <3>1 DEF TakeJob
      <4> QED
        BY <4>1
    <3>2. CASE SendClaim(w) \/ FindNothing(w) \/ LoseClaim(w)
      BY <3>2 DEF SendClaim, FindNothing, LoseClaim, GoTo, GiveUp
    <3> QED
      BY <1>3, <3>1, <3>2
  <2> QED
    BY <1>a, <2>1, <2>2
<1>4. ASSUME NEW w \in Worker, LoseStart(w) \/ LoseReport(w) \/ Beat(w) \/ RequestShutdown(w)
      PROVE  MediaBeforeCompletion'
  BY <1>4, <1>b DEF LoseStart, LoseReport, Report, Beat, RequestShutdown, Queue!Start, Queue!Fail,
                    Queue!Defer, Queue!Heartbeat, workVars, queueVars
<1>5. ASSUME NEW w \in Worker, Started(w) \/ Reported(w) \/ PayloadRefused(w)
      PROVE  MediaBeforeCompletion'
  <2>1. media' = media /\ \A j \in Job : tx'[j] \in {0, tx[j]}
    BY <1>5 DEF Started, Reported, Report, PayloadRefused, Queue!Start, Queue!Fail, Queue!Defer,
                Queue!RollbackComplete, workVars, queueVars
  <2>2. (\A v \in Worker \ {w} : worker'[v] = worker[v]) /\ worker'[w].at # "completing"
    BY <1>5 DEF Started, Reported, PayloadRefused, GoTo, GiveUp
  <2> QED
    BY <1>a, <2>1, <2>2
<1>6. ASSUME NEW w \in Worker,
             \/ StartRefused(w) \/ StartAborted(w) \/ PreflightFails(w) \/ Stage(w)
             \/ AcquireGpu(w) \/ TurnedAway(w) \/ Render(w) \/ CleanUp(w)
             \/ SettleRender(w) \/ RefusedByStorage(w) \/ UploadFails(w)
             \/ Completed(w) \/ ReportRefused(w) \/ CallRejected(w) \/ Stop(w) \/ Crash(w)
      PROVE  MediaBeforeCompletion'
  <2>1. media' = media /\ tx' = tx
    BY <1>6 DEF StartRefused, StartAborted, PreflightFails, Stage, AcquireGpu, TurnedAway, Render,
                CleanUp, SettleRender, RefusedByStorage, UploadFails, Completed, ReportRefused,
                CallRejected, Stop, Crash, workVars, queueVars
  <2>2. (\A v \in Worker \ {w} : worker'[v] = worker[v]) /\ worker'[w].at # "completing"
    BY <1>6 DEF StartRefused, StartAborted, PreflightFails, Stage, AcquireGpu, TurnedAway, Render,
                CleanUp, SettleRender, RefusedByStorage, UploadFails, Completed, ReportRefused,
                CallRejected, Stop, Crash, GoTo, ComeOut, GiveUp
  <2> QED
    BY <1>a, <2>1, <2>2
<1>7. ASSUME NEW w \in Worker, LearnFenced(w) PROVE MediaBeforeCompletion'
  BY <1>7 DEF LearnFenced, Beating, queueVars, workVars
<1>8. ASSUME NEW j \in Job, Enqueue(j) \/ CommitComplete(j) \/ RollbackComplete(j) \/ Expire(j)
      PROVE  MediaBeforeCompletion'
  BY <1>8, <1>b DEF Enqueue, CommitComplete, RollbackComplete, Expire, Queue!Enqueue,
                    Queue!CommitProduction, Queue!RollbackComplete, Queue!Expire, workVars
<1>9. CASE UNCHANGED vars
  BY <1>9, <1>b DEF vars, queueVars, workVars
<1> QED
  BY <1>1, <1>2, <1>3, <1>4, <1>5, <1>6, <1>7, <1>8, <1>9 DEF Next, Proceed, Mishap

Safe == Loop /\ MediaBeforeCompletion /\ CompletedJobHasItsMedia

LEMMA SafeStep == Safe /\ [Next]_vars => Safe'
<1> SUFFICES ASSUME Safe, [Next]_vars PROVE Safe'
  OBVIOUS
<1>1. Loop' /\ MediaBeforeCompletion'
  BY LoopStep, MediaStep DEF Safe
<1>2. media \subseteq media'
  BY DEF Next, Proceed, Mishap, vars, workVars, queueVars,
         SendClaim, TakeJob, FindNothing, LoseClaim, Started, LoseStart, StartRefused, StartAborted,
         PreflightFails, Stage, AcquireGpu, TurnedAway, Render, CleanUp, Beat, LearnFenced,
         SettleRender, Upload, RefusedByStorage, UploadFails, SendComplete, CommitComplete,
         RollbackComplete, PayloadRefused, Completed, Reported, LoseReport, ReportRefused,
         CallRejected, RequestShutdown, Stop, Crash, Enqueue, Expire
<1>3. ASSUME NEW j \in Job, job'[j].status = "completed"
      PROVE  [job |-> j, token |-> job'[j].token] \in media'
  <2>1. /\ job'[j].token = job[j].token
        /\ job[j].status = "completed" \/ tx[j] # 0
    BY <1>3, StepsOfTheQueue, QueueKeeps DEF Safe, Loop
  <2>2. tx[j] # 0 => tx[j] = job[j].token
    BY DEF Safe, Loop, QueueOK
  <2> QED
    BY <1>2, <2>1, <2>2 DEF Safe, MediaBeforeCompletion, CompletedJobHasItsMedia
<1> QED
  BY <1>1, <1>3 DEF Safe, CompletedJobHasItsMedia

\* Whatever is lost, repeated, expired or taken over, and however many workers
\* there are: the media of the attempt that completed a job are stored, its own
\* and not a predecessor's (persistAndComplete, completeWithRetry).
THEOREM CompletionsHaveTheirMedia == Spec => []CompletedJobHasItsMedia
<1>1. Init => Safe
  BY LoopInit DEF Init, Safe, MediaBeforeCompletion, CompletedJobHasItsMedia, IsAt, Queue!Init
<1>2. Safe => CompletedJobHasItsMedia
  BY DEF Safe
<1> QED
  BY <1>1, <1>2, SafeStep, PTL DEF Spec
-----------------------------------------------------------------------------
(* The staged image.                                                       *)

File == [there : BOOLEAN, takenBy : Nat]
ImageOK == image \in [Host -> [Job -> File]] /\ ImageIsThere

LEMMA ImageStep == Loop /\ ImageOK /\ [Next]_vars => ImageOK'
<1> SUFFICES ASSUME Loop, ImageOK, [Next]_vars PROVE ImageOK'
  OBVIOUS
<1>0. Job \subseteq Nat \ {0} /\ Conditioned \subseteq Job
  BY WorkerAssumption
<1> USE <1>0 DEF Loop, ImageOK, ImageIsThere, File, Host, IsAt, JobOf, TokenOf
<1> DEFINE Ahead == {"acquiring", "rendering"}
<1>a. ASSUME NEW w \in Worker, \A v \in Worker \ {w} : worker'[v] = worker[v],
             worker'[w].at \notin Ahead, image' = image
      PROVE  ImageOK'
  BY <1>a
<1>b. ASSUME image' = image,
             \A v \in Worker : /\ worker'[v].at \in Ahead => worker[v].at \in Ahead
                               /\ worker'[v].job = worker[v].job
                               /\ worker'[v].token = worker[v].token
      PROVE  ImageOK'
  BY <1>b
<1>1. ASSUME NEW w \in Worker, Stage(w) PROVE ImageOK'
  <2>1. CASE w \in Worker /\ JobOf(w) \in Conditioned
    <3>1. image' = [image EXCEPT ![HostOf[w]][JobOf(w)] = [there |-> TRUE, takenBy |-> NoToken]]
      BY <1>1, <2>1 DEF Stage, SetImage
    <3>2. worker' = [worker EXCEPT ![w].at = "acquiring"]
      BY <1>1 DEF Stage, GoTo
    <3>3. HostOf[w] \in Host /\ JobOf(w) \in Job
      BY <2>1
    <3>4. /\ image' \in [Host -> [Job -> File]]
          /\ image'[HostOf[w]][JobOf(w)].there
          /\ \A h \in Host, j \in Job : \/ image'[h][j] = image[h][j]
                                        \/ image'[h][j].there
      BY <3>1, <3>3
    <3>5. /\ worker'[w].job = worker[w].job /\ worker'[w].token = worker[w].token
          /\ \A v \in Worker : v # w => worker'[v] = worker[v]
      BY <3>2
    <3>6. ImageIsThere'
      <4> SUFFICES ASSUME NEW v \in Worker, worker'[v].at \in Ahead, worker'[v].job \in Conditioned
                   PROVE  LET file == image'[HostOf[v]][worker'[v].job]
                          IN  file.there \/ file.takenBy \notin {NoToken, worker'[v].token}
        OBVIOUS
      <4>1. CASE v = w
        BY <3>4, <3>5, <4>1
      <4>2. CASE v # w
        <5>1. HostOf[v] \in Host /\ worker[v].job \in Job /\ worker'[v] = worker[v]
          BY <3>5, <4>2
        <5> QED
          BY <3>4, <5>1
      <4> QED
        BY <4>1, <4>2
    <3> QED
      BY <3>4, <3>6
  <2>2. CASE JobOf(w) \notin Conditioned
    BY <1>1, <2>2 DEF Stage, GoTo
  <2> QED
    BY <2>1, <2>2
<1>2. ASSUME NEW w \in Worker, CleanUp(w) PROVE ImageOK'
  <2>1. worker' = [worker EXCEPT ![w].at = "settling"]
    BY <1>2 DEF CleanUp, GoTo
  <2>2. CASE image' = image
    <3>1. worker'[w].at \notin Ahead /\ \A v \in Worker \ {w} : worker'[v] = worker[v]
      BY <2>1
    <3> QED
      BY <2>2, <3>1, <1>a
  <2>3. CASE /\ JobOf(w) \in Conditioned
             /\ image' = [image EXCEPT ![HostOf[w]][JobOf(w)] =
                            [there |-> FALSE, takenBy |-> TokenOf(w)]]
    <3>1. HostOf[w] \in Host /\ JobOf(w) \in Job /\ TokenOf(w) \in Nat \ {0}
      BY <1>2, <2>3, CallsAreIssued DEF CleanUp, Busy, Idle, Queue!Issued
    <3>2. ASSUME NEW v \in Worker, worker'[v].at \in Ahead, JobOf(v) = JobOf(w)
          PROVE  worker'[v] = worker[v] /\ TokenOf(v) # TokenOf(w)
      BY <1>2, <2>1, <3>2 DEF CleanUp, TokensDiffer, Busy, Idle
    <3>3. /\ image' \in [Host -> [Job -> File]]
          /\ image'[HostOf[w]][JobOf(w)].takenBy = TokenOf(w)
          /\ \A h \in Host, j \in Job : image'[h][j] = image[h][j] \/ (h = HostOf[w] /\ j = JobOf(w))
      BY <2>3, <3>1
    <3>4. worker'[w].at \notin Ahead /\ \A v \in Worker \ {w} : worker'[v] = worker[v]
      BY <2>1
    <3>5. ASSUME NEW v \in Worker, worker'[v].at \in Ahead, worker'[v].job \in Conditioned
          PROVE  LET file == image'[HostOf[v]][worker'[v].job]
                 IN  file.there \/ file.takenBy \notin {NoToken, worker'[v].token}
      <4>1. v # w /\ worker'[v] = worker[v] /\ HostOf[v] \in Host /\ worker[v].job \in Job
        BY <3>4, <3>5
      <4>2. \/ image[HostOf[v]][JobOf(v)].there
            \/ image[HostOf[v]][JobOf(v)].takenBy \notin {NoToken, TokenOf(v)}
        BY <3>5, <4>1
      <4>3. JobOf(v) = JobOf(w) => TokenOf(v) # TokenOf(w)
        BY <3>2, <3>5, <4>1
      <4> HIDE DEF Loop, ImageOK, ImageIsThere, File, Host
      <4>4. CASE HostOf[v] = HostOf[w] /\ JobOf(v) = JobOf(w)
        BY <3>1, <3>3, <4>1, <4>3, <4>4
      <4>5. CASE ~(HostOf[v] = HostOf[w] /\ JobOf(v) = JobOf(w))
        <5>1. image'[HostOf[v]][JobOf(v)] = image[HostOf[v]][JobOf(v)]
          BY <3>3, <4>1, <4>5
        <5> QED
          BY <4>1, <4>2, <5>1
      <4> QED
        BY <4>4, <4>5
    <3>6. ImageIsThere'
      <4> HIDE DEF Loop, File
      <4> QED
        BY <3>5
    <3> QED
      BY <3>3, <3>6
  <2> QED
    BY <1>2, <2>2, <2>3 DEF CleanUp, SetImage
<1>3. ASSUME NEW w \in Worker, AcquireGpu(w) PROVE ImageOK'
  <2>1. image' = image /\ worker' = [worker EXCEPT ![w].at = "rendering"] /\ worker[w].at = "acquiring"
    BY <1>3 DEF AcquireGpu, GoTo
  <2>2. \A v \in Worker : /\ worker'[v].at \in Ahead => worker[v].at \in Ahead
                          /\ worker'[v].job = worker[v].job /\ worker'[v].token = worker[v].token
    BY <2>1
  <2> QED
    BY <1>b, <2>1, <2>2
<1>4. ASSUME NEW w \in Worker,
             LoseStart(w) \/ SendComplete(w) \/ LoseReport(w) \/ Beat(w) \/ RequestShutdown(w)
      PROVE  ImageOK'
  BY <1>4, <1>b DEF LoseStart, SendComplete, LoseReport, Beat, RequestShutdown, workVars
<1>5. ASSUME NEW w \in Worker, LearnFenced(w) PROVE ImageOK'
  <2>1. image' = image /\ worker' = [worker EXCEPT ![w].fenced = TRUE]
    BY <1>5 DEF LearnFenced, workVars
  <2>2. \A v \in Worker : /\ worker'[v].at = worker[v].at /\ worker'[v].job = worker[v].job
                          /\ worker'[v].token = worker[v].token
    BY <2>1
  <2> QED
    BY <1>b, <2>1, <2>2
<1>6. ASSUME NEW w \in Worker, TakeJob(w) PROVE ImageOK'
  <2>1. PICK j \in Job : worker' = [worker EXCEPT ![w] =
                              [Polling EXCEPT !.at = "starting", !.job = j, !.token = job'[j].token]]
    BY <1>6 DEF TakeJob
  <2> QED
    BY <1>6, <1>a, <2>1 DEF TakeJob, workVars
<1>7. ASSUME NEW w \in Worker,
             \/ SendClaim(w) \/ FindNothing(w) \/ LoseClaim(w) \/ Started(w) \/ StartRefused(w)
             \/ StartAborted(w) \/ PreflightFails(w) \/ TurnedAway(w) \/ Render(w)
             \/ SettleRender(w) \/ Upload(w) \/ RefusedByStorage(w) \/ UploadFails(w)
             \/ PayloadRefused(w) \/ Completed(w) \/ Reported(w) \/ ReportRefused(w)
             \/ CallRejected(w) \/ Stop(w) \/ Crash(w)
      PROVE  ImageOK'
  <2>1. image' = image
    BY <1>7 DEF SendClaim, FindNothing, LoseClaim, Started, StartRefused, StartAborted,
                PreflightFails, TurnedAway, Render, SettleRender, Upload, RefusedByStorage,
                UploadFails, PayloadRefused, Completed, Reported, ReportRefused, CallRejected,
                Stop, Crash, workVars
  <2>2. \E x : worker' = [worker EXCEPT ![w] = x] /\ x.at \notin Ahead
    <3>1. CASE SendClaim(w) \/ FindNothing(w) \/ LoseClaim(w) \/ Started(w) \/ StartRefused(w)
      BY <3>1 DEF SendClaim, FindNothing, LoseClaim, Started, StartRefused, GoTo, ComeOut, GiveUp
    <3>2. CASE StartAborted(w) \/ PreflightFails(w) \/ TurnedAway(w) \/ Render(w) \/ SettleRender(w)
      BY <3>2 DEF StartAborted, PreflightFails, TurnedAway, Render, SettleRender, GoTo, ComeOut,
                  GiveUp
    <3>3. CASE Upload(w) \/ RefusedByStorage(w) \/ UploadFails(w) \/ PayloadRefused(w) \/ Completed(w)
      BY <3>3 DEF Upload, RefusedByStorage, UploadFails, PayloadRefused, Completed, GoTo, ComeOut,
                  GiveUp
    <3>4. CASE Reported(w) \/ ReportRefused(w) \/ CallRejected(w) \/ Stop(w) \/ Crash(w)
      BY <3>4 DEF Reported, ReportRefused, CallRejected, Stop, Crash, GoTo, ComeOut, GiveUp
    <3> QED
      BY <1>7, <3>1, <3>2, <3>3, <3>4
  <2>3. (\A v \in Worker \ {w} : worker'[v] = worker[v]) /\ worker'[w].at \notin Ahead
    BY <2>2
  <2> QED
    BY <1>a, <2>1, <2>3
<1>8. ASSUME NEW j \in Job, Enqueue(j) \/ CommitComplete(j) \/ RollbackComplete(j) \/ Expire(j)
      PROVE  ImageOK'
  BY <1>8, <1>b DEF Enqueue, CommitComplete, RollbackComplete, Expire, workVars
<1>9. CASE UNCHANGED vars
  BY <1>9, <1>b DEF vars, workVars
<1> QED
  BY <1>1, <1>2, <1>3, <1>4, <1>5, <1>6, <1>7, <1>8, <1>9 DEF Next, Proceed, Mishap

\* A render that misses the image it staged has lost it to another attempt at
\* the same job, on any number of machines and jobs: the clean-up of an attempt
\* takes nothing from other jobs, and from its own only after its render (the
\* file name and the finally of the executor).
THEOREM ImageIsLostToRivalsOnly == Spec => []ImageIsLostToAnotherAttempt
<1>1. Init => ImageOK
  BY DEF Init, ImageOK, ImageIsThere, File
<1>2. Loop /\ ImageOK => ImageIsLostToAnotherAttempt
  BY DEF ImageOK, ImageIsThere, ImageIsLostToAnotherAttempt, FindsImage, IsAt
<1> QED
  BY <1>1, <1>2, LoopInit, LoopStep, ImageStep, PTL DEF Spec
-----------------------------------------------------------------------------
(***************************************************************************)
(* The theorems of the queue, for the composition.  RenderJobQueueProofs   *)
(* is taken with the parameters the workers give the queue; Durable is     *)
(* then Queue over again, with its theorems.                               *)
(***************************************************************************)
Durable == INSTANCE RenderJobQueueProofs WITH
  Kind <- [j \in Job |-> "production"],
  Slot <- [j \in Job |-> "none"]

LEMMA DurableAssumptions ==
  /\ Durable!JobAssumption /\ Durable!KindAssumption /\ Durable!RetriesAssumption
  /\ Durable!ServesAssumption /\ Durable!DefersAssumption
BY WorkerAssumption
   DEF Durable!JobAssumption, Durable!KindAssumption, Durable!RetriesAssumption,
       Durable!ServesAssumption, Durable!DefersAssumption, Durable!NoJob, Durable!JobKind

LEMMA SameClaims ==
  ASSUME NEW w \in Worker, Queue!Claim(w)
  PROVE  Durable!Claim(w)
<1>1. Queue!Exhausted = Durable!Exhausted /\ Queue!Claimable(w) = Durable!Claimable(w)
  BY DEF Queue!Exhausted, Durable!Exhausted, Queue!Claimable, Durable!Claimable,
         Queue!Expired, Durable!Expired, Queue!RetriesLeft, Durable!RetriesLeft,
         Queue!IsActive, Durable!IsActive, Queue!Active, Durable!Active,
         Queue!Unlocked, Durable!Unlocked
<1>2. CASE Queue!BeginClaim(w)
  BY <1>1, <1>2 DEF Queue!BeginClaim, Durable!BeginClaim, Durable!Claim,
                    Queue!Unlocked, Durable!Unlocked
<1>3. CASE Queue!ClaimRow(w)
  <2>1. \A j \in Job : Queue!Leased(j) = Durable!Leased(j)
    BY DEF Queue!Leased, Durable!Leased, Queue!IsActive, Durable!IsActive,
           Queue!Active, Durable!Active
  <2>2. \A j : Queue!IsOldest(j, Queue!Claimable(w)) <=> Durable!IsOldest(j, Queue!Claimable(w))
    BY DEF Queue!IsOldest, Durable!IsOldest
  <2>3. PICK j \in Job : /\ Durable!IsOldest(j, Durable!Claimable(w))
                         /\ [k \in Job |-> "production"][j] \in gate
                         /\ job' = [job EXCEPT ![j] = Durable!Leased(j)]
                         /\ live' = live \cup {j}
    BY <1>1, <1>3, <2>1, <2>2 DEF Queue!ClaimRow
  <2>4. claiming[w] # {} /\ Durable!EndClaim(w)
    BY <1>3 DEF Queue!ClaimRow, Queue!EndClaim, Durable!EndClaim
  <2> QED
    BY <2>3, <2>4 DEF Durable!ClaimRow, Durable!Claim
<1>4. CASE Queue!ClaimNothing(w)
  BY <1>1, <1>4 DEF Queue!ClaimNothing, Durable!ClaimNothing, Durable!Claim,
                    Queue!IsOldest, Durable!IsOldest, Queue!EndClaim, Durable!EndClaim
<1> QED
  BY <1>2, <1>3, <1>4 DEF Queue!Claim

LEMMA SameCalls ==
  ASSUME NEW j \in Job, NEW t \in Queue!Issued(j), Queue!Call(j, t)
  PROVE  t \in Durable!Issued(j) /\ Durable!Call(j, t)
<1> USE DEF Queue!Unlocked, Durable!Unlocked, Queue!SetStatus, Durable!SetStatus,
            Queue!Holds, Durable!Holds, Queue!IsActive, Durable!IsActive,
            Queue!Active, Durable!Active
<1>1. t \in Durable!Issued(j)
  BY DEF Queue!Issued, Durable!Issued
<1>2. Queue!Start(j, t) => Durable!Start(j, t)
  BY DEF Queue!Start, Durable!Start
<1>3. Queue!Heartbeat(j, t) => Durable!Heartbeat(j, t)
  BY DEF Queue!Heartbeat, Durable!Heartbeat
<1>4. Queue!BeginComplete(j, t) => Durable!BeginComplete(j, t)
  BY DEF Queue!BeginComplete, Durable!BeginComplete
<1>5. Queue!Fail(j, t) => Durable!Fail(j, t)
  BY DEF Queue!Fail, Durable!Fail, Queue!RetriesLeft, Durable!RetriesLeft
<1>6. Queue!Defer(j, t) => Durable!Defer(j, t)
  BY DEF Queue!Defer, Durable!Defer
<1> QED
  BY <1>1, <1>2, <1>3, <1>4, <1>5, <1>6 DEF Queue!Call, Durable!Call

LEMMA SameSettlements ==
  ASSUME NEW j \in Job, Queue!Settle(j)
  PROVE  Durable!Settle(j)
<1> USE DEF Queue!Unlocked, Durable!Unlocked, Queue!SetStatus, Durable!SetStatus,
            Queue!NoJob, Durable!NoJob
<1>1. Queue!CommitProduction(j) => Durable!CommitProduction(j)
  BY DEF Queue!CommitProduction, Durable!CommitProduction
<1>2. Queue!CommitCandidate(j) => Durable!CommitCandidate(j)
  BY DEF Queue!CommitCandidate, Durable!CommitCandidate
<1>3. Queue!RollbackComplete(j) => Durable!RollbackComplete(j)
  BY DEF Queue!RollbackComplete, Durable!RollbackComplete
<1>4. Queue!ConflictComplete(j) => Durable!ConflictComplete(j)
  BY DEF Queue!ConflictComplete, Durable!ConflictComplete
<1> QED
  BY <1>1, <1>2, <1>3, <1>4 DEF Queue!Settle, Durable!Settle

LEMMA SameSteps == [Queue!Next]_(Queue!vars) => [Durable!Next]_(Durable!vars)
<1>1. ASSUME NEW j \in Job, Queue!Enqueue(j) \/ Queue!Expire(j)
      PROVE  Durable!Enqueue(j) \/ Durable!Expire(j)
  BY <1>1 DEF Queue!Enqueue, Queue!Expire, Durable!Enqueue, Durable!Expire,
              Queue!SetStatus, Durable!SetStatus
<1>2. ASSUME NEW c \in conflict, Queue!FailConflicted(c) \/ Queue!LoseConflict(c)
      PROVE  Durable!FailConflicted(c) \/ Durable!LoseConflict(c)
  BY <1>2 DEF Queue!FailConflicted, Durable!FailConflicted, Queue!LoseConflict,
              Durable!LoseConflict, Queue!Unlocked, Durable!Unlocked,
              Queue!SetStatus, Durable!SetStatus
<1>3. Queue!MoveGate => Durable!MoveGate
  BY DEF Queue!MoveGate, Durable!MoveGate, Queue!GateAnswer, Durable!GateAnswer,
         Queue!JobKind, Durable!JobKind
<1>4. UNCHANGED Queue!vars => UNCHANGED Durable!vars
  BY DEF Queue!vars, Durable!vars
<1> QED
  BY <1>1, <1>2, <1>3, <1>4, SameClaims, SameCalls, SameSettlements DEF Queue!Next, Durable!Next

LEMMA WorkersUseDurable == Spec => Durable!Spec
<1>1. Queue!Init => Durable!Init
  BY DEF Queue!Init, Durable!Init, Queue!JobKind, Durable!JobKind, Queue!SlotSet,
         Durable!SlotSet, Queue!NoJob, Durable!NoJob
<1> QED
  BY <1>1, SameSteps, WorkersKeepToTheQueue, PTL DEF Queue!Spec, Durable!Spec

\* With workers that repeat calls, die and report late: one manifest per
\* completed job, of the last lease it was given (complete).
THEOREM WorkersLeaveOneManifest == Spec => []Queue!ManifestsAreCompletions
<1>1. Durable!Spec => []Durable!ManifestsAreCompletions
  BY DurableAssumptions, Durable!QueueExactlyOnce
<1>2. Durable!ManifestsAreCompletions => Queue!ManifestsAreCompletions
  BY DEF Durable!ManifestsAreCompletions, Queue!ManifestsAreCompletions
<1> QED
  BY <1>1, <1>2, WorkersUseDurable, PTL

\* Every manifest is of an attempt whose own media were stored before: no row
\* of generation_manifests names an object that only a predecessor, a
\* successor or nobody has uploaded (persistAndComplete, complete).
THEOREM ManifestsHaveTheirMedia ==
  Spec => [](\A m \in manifests : [job |-> m.job, token |-> m.token] \in media)
<1>1. Queue!ManifestsAreCompletions /\ CompletedJobHasItsMedia
        => \A m \in manifests : [job |-> m.job, token |-> m.token] \in media
  BY DEF Queue!ManifestsAreCompletions, CompletedJobHasItsMedia
<1> QED
  BY <1>1, WorkersLeaveOneManifest, CompletionsHaveTheirMedia, PTL

\* A failed job has spent its retries, all of them and no more, whatever mix
\* of reported failures, lost reports, dead workers and expired leases spent
\* them (fail, claim and the sweep).
THEOREM FailedJobsAreSpent ==
  Spec => [](\A j \in Job : job[j].status = "failed" => job[j].retries = MaxRetries[j])
<1>1. Durable!Spec => []Durable!TypeOK
  BY DurableAssumptions, Durable!QueueTypeCorrect
<1>2. Durable!Spec => []Durable!RetryBudget
  BY DurableAssumptions, Durable!QueueRetryBudget
<1>3. Durable!Spec => []Durable!FailedOnlyWhenHopeless
  BY DurableAssumptions, Durable!QueueFailedOnlyWhenHopeless
<1>4. Durable!TypeOK /\ Durable!RetryBudget /\ Durable!FailedOnlyWhenHopeless
        => \A j \in Job : job[j].status = "failed" => job[j].retries = MaxRetries[j]
  BY WorkerAssumption
     DEF Durable!TypeOK, Durable!Row, Durable!RetryBudget, Durable!FailedOnlyWhenHopeless,
         Durable!RetriesLeft
<1> QED
  BY <1>1, <1>2, <1>3, <1>4, WorkersUseDurable, PTL

\* A job that has settled stays as it is: no repeated call, late report or
\* sweep of the workers changes its row again (complete, fail, claim).
THEOREM SettledJobsStay == Spec => Queue!TerminalIsFinal
<1>1. Durable!Spec => Durable!TerminalIsFinal
  BY DurableAssumptions, Durable!QueueTerminalIsFinal
<1>2. [\A j \in Job : job[j].status \in Durable!Terminal => job'[j] = job[j]]_(Durable!vars)
        => [\A j \in Job : job[j].status \in Queue!Terminal => job'[j] = job[j]]_(Queue!vars)
  BY DEF Queue!vars, Durable!vars, Queue!Terminal, Durable!Terminal
<1> QED
  BY <1>1, <1>2, WorkersUseDurable, PTL DEF Durable!TerminalIsFinal, Queue!TerminalIsFinal

\* The workers together with the queue implement the dispatch contract: one
\* owner at a time, growing epochs, one result, by the owner (JobLifecycle).
THEOREM WorkersImplementLifecycle == Spec => Durable!ImplementsLifecycle
<1>1. Durable!Spec => Durable!ImplementsLifecycle
  BY DurableAssumptions, Durable!QueueImplementsLifecycle
<1> QED
  BY <1>1, WorkersUseDurable, PTL

-----------------------------------------------------------------------------
(* The GPU of one host.  A worker takes its lease (gpu) in one action; it  *)
(* is GpuLease here, the lock file with its reclaim guard, system call by  *)
(* system call and for any number of processes and deaths.  It excludes as *)
(* long as nobody has died at an UntimelyMoment: then no guard is orphaned *)
(* or taken for an orphan, the guard excludes reclaimers, and what they    *)
(* unlink is the lock of a dead process still.                             *)

\* Whoever is past linking the guard owns it, and a live guard is not removed:
\* its owner lives, and so does whoever is about to be probed for it.
GuardIsOwned ==
  /\ \A p \in Proc : pc[p] \in Guarded => guard = p
  /\ guard # NoHolder => guard \in Proc /\ Live(guard)
  /\ \A p \in Proc : pc[p] = "probeGuard" => seen[p] \in Proc /\ Live(seen[p])
  /\ \A p \in Proc : pc[p] # "unlinkGuard"

\* Who has kept its lease does not get another one.
QuarantineLasts == \A p \in quarantined : pc[p] \notin Owning

\* Whom a reclaimer finds dead was dead when it read the lock, which is its
\* lock still; what the reclaimer is about to unlink is a dead process's lock.
StaleLockIsStable ==
  \A p \in Proc :
    /\ pc[p] = "reprobe" => seen[p] \in Proc /\ (~Live(seen[p]) => lock = seen[p])
    /\ pc[p] = "unlinkLock" => lock \in Proc /\ ~Live(lock)

LeaseInv ==
  /\ LeaseTypeOK
  /\ \A p \in Proc : pc[p] = "probe" => seen[p] \in Proc
  /\ HolderOwnsLock
  /\ ~untimely => GuardIsOwned /\ QuarantineLasts /\ StaleLockIsStable

USE DEF Step, Acquiring, Guarding, Guarded, Owning, Holder

LEMMA LeaseStarts == LeaseInit => LeaseInv
BY NoHolderAssumption
   DEF LeaseInit, LeaseInv, LeaseTypeOK, Live, HolderOwnsLock,
       GuardIsOwned, QuarantineLasts, StaleLockIsStable

LEMMA LeaseStep ==
  ASSUME LeaseInv, [LeaseNext]_leaseVars
  PROVE  LeaseInv'
<1> USE NoHolderAssumption, MortalAssumption, GovernedAssumption
    DEF LeaseInv, LeaseTypeOK, Live, Goto, AtCall, Remember, Forget, engineVars,
        HolderOwnsLock, GuardIsOwned, QuarantineLasts, StaleLockIsStable
<1>1. ASSUME NEW p \in Proc, Acquire(p) PROVE LeaseInv'
  BY <1>1 DEF Acquire
<1>2. ASSUME NEW p \in Proc, Link(p) PROVE LeaseInv'
  BY <1>2 DEF Link
<1>3. ASSUME NEW p \in Proc, Read(p) PROVE LeaseInv'
  BY <1>3 DEF Read
<1>4. ASSUME NEW p \in Proc, Probe(p) PROVE LeaseInv'
  BY <1>4 DEF Probe
<1>5. ASSUME NEW p \in Proc, LinkGuard(p) PROVE LeaseInv'
  BY <1>5 DEF LinkGuard
<1>6. ASSUME NEW p \in Proc, ReadGuard(p) PROVE LeaseInv'
  BY <1>6 DEF ReadGuard
<1>7. ASSUME NEW p \in Proc, ProbeGuard(p) PROVE LeaseInv'
  BY <1>7 DEF ProbeGuard
<1>8. ASSUME NEW p \in Proc, UnlinkGuard(p) PROVE LeaseInv'
  BY <1>8 DEF UnlinkGuard
<1>9. ASSUME NEW p \in Proc, Reread(p) PROVE LeaseInv'
  BY <1>9 DEF Reread
<1>10. ASSUME NEW p \in Proc, Reprobe(p) PROVE LeaseInv'
  BY <1>10 DEF Reprobe
<1>11. ASSUME NEW p \in Proc, UnlinkLock(p) PROVE LeaseInv'
  BY <1>11 DEF UnlinkLock
<1>12. ASSUME NEW p \in Proc, CheckGuard(p) PROVE LeaseInv'
  BY <1>12 DEF CheckGuard
<1>13. ASSUME NEW p \in Proc, DropGuard(p) PROVE LeaseInv'
  BY <1>13 DEF DropGuard
<1>14. ASSUME NEW p \in Proc, Finish(p) PROVE LeaseInv'
  BY <1>14 DEF Finish
<1>15. ASSUME NEW p \in Proc, Quarantine(p) PROVE LeaseInv'
  BY <1>15 DEF Quarantine
<1>16. ASSUME NEW p \in Proc, CheckLock(p) PROVE LeaseInv'
  BY <1>16 DEF CheckLock
<1>17. ASSUME NEW p \in Proc, DropLock(p) PROVE LeaseInv'
  BY <1>17 DEF DropLock
<1>18. ASSUME NEW p \in Proc, Die(p) PROVE LeaseInv'
  BY <1>18 DEF Die, UntimelyMoment
<1>19. ASSUME NEW p \in Proc, AbandonRender(p) PROVE LeaseInv'
  BY <1>19 DEF AbandonRender
<1>20. ASSUME NEW p \in Proc, GenerationEnds(p) PROVE LeaseInv'
  BY <1>20 DEF GenerationEnds
<1>21. CASE UNCHANGED leaseVars
  BY <1>21 DEF leaseVars
<1> QED
  BY <1>1, <1>2, <1>3, <1>4, <1>5, <1>6, <1>7, <1>8, <1>9, <1>10, <1>11, <1>12, <1>13,
     <1>14, <1>15, <1>16, <1>17, <1>18, <1>19, <1>20, <1>21
     DEF LeaseNext, Run, Recover, Return

\* For any number of processes and deaths: one user of the GPU at a time, and
\* the lock file names it (acquireLease, reclaimDeadHolder, release), but for
\* abandoned generations and after a death at an UntimelyMoment.
THEOREM GpuMutualExclusion == LeaseSpec => []MutualExclusion /\ []HolderOwnsLock
<1>1. LeaseInv => MutualExclusion /\ HolderOwnsLock
  BY GovernedAssumption
     DEF LeaseInv, LeaseTypeOK, MutualExclusion, HolderOwnsLock, Occupies, Abandoned
<1>2. LeaseInit => LeaseInv
  BY LeaseStarts
<1>3. LeaseInv /\ [LeaseNext]_leaseVars => LeaseInv'
  BY LeaseStep
<1> QED
  BY <1>1, <1>2, <1>3, PTL DEF LeaseSpec
=============================================================================
