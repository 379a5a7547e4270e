------------------------ MODULE ProductionRunProofs ------------------------
(***************************************************************************)
(* Proofs about ProductionRun, for any number of scenes, attempts,         *)
(* revisions and faults, whatever the director does and whatever fails.    *)
(* The argument: an attempt never changes what it was made for, and once   *)
(* it is finished it stays so (JobsGoOn); so a report says what is true    *)
(* however late its follow-ups are carried out (ReportsAreTrue), and a     *)
(* scene in production, which names the attempt the run has for it         *)
(* (Attempt), is only moved by what that attempt has become.               *)
(***************************************************************************)
EXTENDS ProductionRun, TLAPS

Settled == {"completed", "failed"}

\* The jobs and the rows of the run, as TypeOK has them.
JobRecord ==
  [status : {"absent", "queued", "rendering", "completed", "failed"},
   scene : SceneId \cup {None}, revision : Nat, ordinal : Nat]

RowRecord == [job : JobId \cup {None}, revision : Nat, accepted : JobId \cup {None}]

USE DEF JobRecord, RowRecord

\* What a worker does says what has become of its job.
WorkersFit ==
  /\ \A n \in JobId :
       /\ worker[n] = "idle" => job[n].status \in {"absent", "queued"}
       /\ worker[n] \in {"starting", "running", "dead"} => job[n].status = "rendering"
       /\ worker[n] = "completing" => job[n].status = "completed"
       /\ worker[n] = "failing" => job[n].status = "failed"
       /\ worker[n] = "done" => job[n].status \in Settled
  /\ worker[Assembly] \in {"idle", "completing", "failing", "done"}
  /\ worker[Assembly] # "idle" => assembly \in Settled
  /\ worker[Assembly] = "completing" => assembly = "completed"
  /\ worker[Assembly] = "failing" => assembly = "failed"

WorkerState == {"idle", "starting", "running", "completing", "failing", "done", "dead"}

\* The jobs are numbered without gaps.
JobsIssued ==
  \A n \in JobId : /\ job[n].status = "absent" <=> n > issued
                   /\ n <= issued => job[n].scene \in SceneId

\* A report that is being worked on is still true.
ReportsAreTrue ==
  \A c \in calls :
    /\ c.job # Assembly =>
         /\ c.job <= issued
         /\ c.kind = "complete" => job[c.job].status = "completed"
         /\ c.kind = "fail" => job[c.job].status = "failed"
    /\ c.job = Assembly =>
         /\ c.step \in {1, 4} /\ c.kind # "start"
         /\ assembly = IF c.kind = "complete" THEN "completed" ELSE "failed"

Produced == InProduction \cup {"completed", "failed"}

\* Scene i is in production under its present approval, with the attempt
\* that the run has for it.
Attempt(i) ==
  /\ scene[i].status \in Produced =>
       /\ scene[i].job \in 1..issued /\ scene[i].job = row[i].job
       /\ job[scene[i].job].scene = i
       /\ job[scene[i].job].revision = scene[i].approval
       /\ job[scene[i].job].ordinal = scene[i].ordinal
  /\ scene[i].status \in {"qa", "completed"} => job[scene[i].job].status = "completed"
  /\ scene[i].status \in Produced \cup {"approved"} => scene[i].approval = scene[i].revision

\* Scene and run agree on what is accepted: the attempt the scene names.
Acceptance(i) ==
  /\ row[i].accepted = scene[i].accepted
  /\ scene[i].accepted # None => scene[i].status = "completed" /\ scene[i].accepted = scene[i].job

\* Why the run is where it is.
RunHasReason ==
  /\ run \in {"assembling", "completed"} => assembly # "absent"
  /\ run = "failed" => assembly # "absent" \/ \E n \in JobId : job[n].status = "failed"
  /\ assembly # "absent" => \A i \in SceneId : scene[i].accepted # None

RunInv ==
  /\ TypeOK /\ WorkersFit /\ JobsIssued /\ ReportsAreTrue
  /\ \A i \in SceneId : Attempt(i) /\ Acceptance(i)
  /\ RunHasReason /\ CampaignFollowsRun /\ AcceptedRunIsAssembled

-----------------------------------------------------------------------------
(* One scene: what its methods leave of what the run looks at.             *)

\* t has the revision, attempt and acceptance of s.
SameWork(s, t) ==
  /\ t.revision = s.revision /\ t.job = s.job
  /\ t.ordinal = s.ordinal /\ t.accepted = s.accepted

LEMMA NewSceneIsOne == NewScene \in SceneRecord
  BY DEF NewScene, SceneRecord, Status, InProduction, Terminal, None

LEMMA MoveOfScene ==
  ASSUME NEW s \in SceneRecord, NEW to \in Status
  PROVE  /\ MovedTo(s, to) \in SceneRecord /\ MovedTo(s, to).status = to
         /\ MovedTo(s, to).approval = s.approval /\ SameWork(s, MovedTo(s, to))
<1> DEFINE from == IF s.status = "failed" THEN "none" ELSE s.failedFrom
<1>1. from \in Status \cup {"none"}
  BY DEF SceneRecord
<1>2. MovedTo(s, to) = [s EXCEPT !.status = to, !.failedFrom = from]
  <2>1. [s EXCEPT !.status = to].failedFrom = s.failedFrom
    BY DEF SceneRecord
  <2> QED
    BY <2>1 DEF MovedTo
<1> HIDE DEF from
<1> QED
  BY <1>1, <1>2 DEF SceneRecord, SameWork

LEMMA ApprovalOfScene ==
  ASSUME NEW s \in SceneRecord
  PROVE  /\ Approved(s) \in SceneRecord /\ Approved(s).status = "approved"
         /\ Approved(s).approval = s.revision /\ SameWork(s, Approved(s))
  BY DEF Approved, MovedTo, HasValidPlan, SceneRecord, SameWork, Status

LEMMA FailureOfScene ==
  ASSUME NEW s \in SceneRecord
  PROVE  /\ Failed(s) \in SceneRecord /\ Failed(s).status = "failed"
         /\ Failed(s).approval = s.approval /\ SameWork(s, Failed(s))
  BY DEF Failed, SceneRecord, SameWork, Status, None

LEMMA ReviewOfScene ==
  ASSUME NEW s \in SceneRecord
  PROVE  /\ SubmittedForReview(s) \in SceneRecord
         /\ SubmittedForReview(s).status = "director_review"
         /\ SameWork(s, SubmittedForReview(s))
         /\ CandidateSelected(s, s.revision) \in SceneRecord
         /\ CandidateSelected(s, s.revision).status = s.status
         /\ SameWork(s, CandidateSelected(s, s.revision))
  BY DEF SubmittedForReview, CandidateSelected, MovedTo, SceneRecord, SameWork, Status, None

\* Back to the director, or given up: no approval or attempt is left.
LEMMA ReturnOfScene ==
  ASSUME NEW s \in SceneRecord
  PROVE  /\ BackInReview(s) \in SceneRecord /\ BackInReview(s).status = "director_review"
         /\ BackInReview(s).accepted = s.accepted
         /\ Cancelled(s) \in SceneRecord /\ Cancelled(s).status = "cancelled"
         /\ Cancelled(s).accepted = s.accepted
  BY DEF BackInReview, WithoutApproval, WithoutApprovedPlan, Cancelled, MovedTo, SceneRecord,
         Status, Terminal, None

LEMMA AcceptanceOfScene ==
  ASSUME NEW s \in SceneRecord, NEW n \in Nat
  PROVE  /\ Accepted(s, n) \in SceneRecord /\ Accepted(s, n).status = "completed"
         /\ Accepted(s, n).approval = s.approval /\ Accepted(s, n).revision = s.revision
         /\ Accepted(s, n).job = s.job /\ Accepted(s, n).ordinal = s.ordinal
         /\ Accepted(s, n).accepted = n
  BY DEF Accepted, MovedTo, SceneRecord, Status, Terminal

LEMMA AttemptOfScene ==
  ASSUME NEW s \in SceneRecord, NEW n \in Nat
  PROVE  /\ Queued(s, n) \in SceneRecord /\ Queued(s, n).status = "queued"
         /\ Queued(s, n).approval = s.approval /\ Queued(s, n).revision = s.revision
         /\ Queued(s, n).job = n /\ Queued(s, n).ordinal = s.ordinal + 1
         /\ Queued(s, n).accepted = s.accepted
<1> DEFINE t == MovedTo(s, "queued")
<1>1. /\ t \in SceneRecord /\ t.status = "queued" /\ t.approval = s.approval
      /\ SameWork(s, t)
  BY MoveOfScene DEF Status, InProduction
<1>2. t.ordinal + 1 \in Nat
  BY <1>1 DEF SceneRecord
<1>3. Queued(s, n) = [t EXCEPT !.job = n, !.ordinal = t.ordinal + 1]
  BY DEF Queued
<1> HIDE DEF t
<1> QED
  BY <1>1, <1>2, <1>3 DEF SceneRecord, SameWork

\* A new revision: by an edit, which keeps an approval of no scene, or by a
\* reroll.
LEMMA RevisionOfScene ==
  ASSUME NEW s \in SceneRecord
  PROVE  /\ MayEdit(s) =>
              /\ Edited(s) \in SceneRecord
              /\ Edited(s).status \in {"draft_pending", "director_review"}
              /\ Edited(s).accepted = s.accepted
         /\ /\ Rerolled(s) \in SceneRecord /\ Rerolled(s).status = "generating_candidates"
            /\ Rerolled(s).accepted = s.accepted
<1> USE DEF SceneRecord, Status
<1>1. ASSUME NEW t \in SceneRecord, NEW to \in Status, NEW a \in Nat
      PROVE  [t EXCEPT !.revision = t.revision + 1, !.status = to, !.approval = a] \in SceneRecord
  <2>1. t.revision + 1 \in Nat
    OBVIOUS
  <2> QED
    BY <2>1
<1>2. ASSUME MayEdit(s)
      PROVE  /\ Edited(s) \in SceneRecord
             /\ Edited(s).status \in {"draft_pending", "director_review"}
             /\ Edited(s).accepted = s.accepted
  <2> DEFINE t == WithoutSelection(s)
             to == IF t.status = "approved" THEN "director_review" ELSE t.status
             a == IF s.status = "approved" THEN None ELSE t.approval
  <2>1. t \in SceneRecord /\ t.status = s.status /\ t.accepted = s.accepted
    BY DEF WithoutSelection, WithoutApprovedPlan, None
  <2>2. to \in {"draft_pending", "director_review"} /\ to \in Status /\ a \in Nat
    BY <1>2, <2>1 DEF MayEdit, None
  <2>3. Edited(s) = [t EXCEPT !.revision = t.revision + 1, !.status = to, !.approval = a]
    BY DEF Edited
  <2>4. Edited(s).status = to /\ Edited(s).accepted = s.accepted
    BY <2>1, <2>3
  <2> HIDE DEF t, to, a, SceneRecord, Status
  <2>5. Edited(s) \in SceneRecord
    BY <1>1, <2>1, <2>2, <2>3
  <2> QED
    BY <2>2, <2>4, <2>5
<1>3. /\ Rerolled(s) \in SceneRecord /\ Rerolled(s).status = "generating_candidates"
      /\ Rerolled(s).accepted = s.accepted
  <2> DEFINE t == WithoutSelection(MovedTo(s, "generating_candidates"))
  <2>1. /\ MovedTo(s, "generating_candidates") \in SceneRecord
        /\ MovedTo(s, "generating_candidates").status = "generating_candidates"
        /\ MovedTo(s, "generating_candidates").accepted = s.accepted
    BY MoveOfScene DEF SameWork
  <2>2. /\ t \in SceneRecord /\ t.status = "generating_candidates"
        /\ t.accepted = s.accepted
    BY <2>1 DEF WithoutSelection, WithoutApprovedPlan, None
  <2>3. Rerolled(s) = [t EXCEPT !.revision = t.revision + 1]
    BY DEF Rerolled
  <2>4. t.revision + 1 \in Nat
    BY <2>2
  <2> HIDE DEF t
  <2> QED
    BY <2>2, <2>3, <2>4
<1> QED
  BY <1>2, <1>3
-----------------------------------------------------------------------------
(* What every step leaves.                                                 *)

\* A job keeps what it was made for, and its outcome when it has one.
JobsGoOn ==
  /\ issued' \in issued..MaxJobs
  /\ \A n \in 1..issued :
       /\ job'[n].scene = job[n].scene /\ job'[n].revision = job[n].revision
       /\ job'[n].ordinal = job[n].ordinal
       /\ job[n].status \in Settled => job'[n].status = job[n].status

LEMMA Constants ==
  /\ NumScenes \in Nat \ {0} /\ MaxJobs \in Nat /\ MaxFaults \in Nat
  /\ SceneId = 1..NumScenes /\ SceneId # {} /\ JobId = 1..MaxJobs /\ Assembly \notin JobId
  BY RunConstants DEF SceneId, JobId, Assembly

\* The same jobs.
LEMMA JobsStay ==
  ASSUME TypeOK, UNCHANGED <<job, issued>>
  PROVE  JobsGoOn
  BY Constants DEF TypeOK, JobsGoOn

LEMMA StatusUpdate ==
  ASSUME NEW x \in JobRecord, NEW st \in {"queued", "rendering"} \cup Settled
  PROVE  [x EXCEPT !.status = st] \in JobRecord
  BY DEF Settled

\* A job that is not finished changes its status.
LEMMA JobMoves ==
  ASSUME TypeOK, JobsIssued, NEW n \in JobId, NEW st \in {"queued", "rendering"} \cup Settled,
         job[n].status \in {"queued", "rendering"},
         job' = [job EXCEPT ![n].status = st], issued' = issued
  PROVE  /\ JobsGoOn /\ JobsIssued'
         /\ job' \in [JobId -> JobRecord]
         /\ job'[n].status = st /\ n \in 1..issued
         /\ \A m \in JobId \ {n} : job'[m] = job[m]
<1> USE Constants DEF TypeOK, Settled
<1>1. /\ job'[n] = [job[n] EXCEPT !.status = st]
      /\ \A m \in JobId \ {n} : job'[m] = job[m]
  OBVIOUS
<1>2. /\ job'[n].status = st /\ job'[n].scene = job[n].scene
      /\ job'[n].revision = job[n].revision /\ job'[n].ordinal = job[n].ordinal
  BY <1>1
<1>3. n \in 1..issued
  BY DEF JobsIssued
<1>4. JobsIssued'
  BY <1>1, <1>2, <1>3 DEF JobsIssued
<1>5. JobsGoOn
  BY <1>1, <1>2 DEF JobsGoOn
<1>6. job' \in [JobId -> JobRecord]
  <2>1. job \in [JobId -> JobRecord]
    OBVIOUS
  <2> HIDE DEF JobRecord, TypeOK, Settled
  <2>2. [job[n] EXCEPT !.status = st] \in JobRecord
    BY <2>1, StatusUpdate
  <2> QED
    BY <2>1, <2>2
<1> QED
  BY <1>1, <1>2, <1>3, <1>4, <1>5, <1>6

\* A scene that no command or report touches is as it was.
LEMMA SceneStays ==
  ASSUME TypeOK, JobsGoOn, NEW i \in SceneId, Attempt(i), Acceptance(i),
         scene'[i] = scene[i], row'[i] = row[i]
  PROVE  Attempt(i)' /\ Acceptance(i)'
<1>1. issued \in Nat /\ issued' \in Nat /\ issued <= issued'
  BY Constants DEF TypeOK, JobsGoOn
<1>2. Acceptance(i)'
  BY DEF Acceptance
<1>3. Attempt(i)'
  BY <1>1 DEF Attempt, JobsGoOn, Settled, Produced, InProduction
<1> QED
  BY <1>2, <1>3

\* An attempt that failed stays failed.
LEMMA FailuresStay ==
  ASSUME TypeOK, JobsIssued, JobsGoOn, \E n \in JobId : job[n].status = "failed"
  PROVE  \E n \in JobId : job'[n].status = "failed"
<1>1. PICK n \in JobId : job[n].status = "failed"
  OBVIOUS
<1>2. n \in 1..issued
  BY <1>1, Constants DEF TypeOK, JobsIssued
<1> QED
  BY <1>1, <1>2 DEF JobsGoOn, Settled

\* The workers and the jobs go on; scenes, run and assembly do not change.
LEMMA OnlyWorkers ==
  ASSUME RunInv, JobsGoOn, TypeOK', WorkersFit', JobsIssued', ReportsAreTrue',
         UNCHANGED <<scene, campaign, run, row, assembly>>
  PROVE  RunInv'
<1>1. \A i \in SceneId : Attempt(i)' /\ Acceptance(i)'
  BY SceneStays DEF RunInv
<1>2. (\E n \in JobId : job[n].status = "failed") => \E n \in JobId : job'[n].status = "failed"
  BY FailuresStay DEF RunInv
<1>3. RunHasReason' /\ CampaignFollowsRun' /\ AcceptedRunIsAssembled'
  BY <1>2 DEF RunInv, RunHasReason, CampaignFollowsRun, AcceptedRunIsAssembled, AllAccepted
<1> QED
  BY <1>1, <1>3 DEF RunInv

-----------------------------------------------------------------------------
(* The workers.                                                            *)

\* A report that is true when it is made.
LEMMA Reporting ==
  ASSUME RunInv, NEW n \in JobId \cup {Assembly}, NEW kind \in {"start", "complete", "fail"},
         Asks(n, kind), JobsGoOn, UNCHANGED assembly,
         n # Assembly => /\ n <= issued'
                         /\ kind = "complete" => job'[n].status = "completed"
                         /\ kind = "fail" => job'[n].status = "failed",
         n = Assembly => /\ kind # "start"
                         /\ assembly = IF kind = "complete" THEN "completed" ELSE "failed"
  PROVE  calls' \subseteq Call /\ ReportsAreTrue'
<1> DEFINE new == [job |-> n, kind |-> kind, step |-> 1, heard |-> TRUE]
<1>1. new \in Call /\ calls' = calls \cup {new}
  BY DEF Asks, Call
<1>2. calls \subseteq Call /\ issued \in Nat /\ issued' \in Nat /\ issued <= issued'
  BY Constants DEF RunInv, TypeOK, JobsGoOn
<1>3. ASSUME NEW c \in calls
      PROVE  /\ c.job # Assembly =>
                  /\ c.job <= issued'
                  /\ c.kind = "complete" => job'[c.job].status = "completed"
                  /\ c.kind = "fail" => job'[c.job].status = "failed"
             /\ c.job = Assembly =>
                  /\ c.step \in {1, 4} /\ c.kind # "start"
                  /\ assembly' = IF c.kind = "complete" THEN "completed" ELSE "failed"
  <2>1. c \in Call /\ (c.job # Assembly => c.job \in 1..issued)
    BY <1>2, Constants DEF Call, RunInv, ReportsAreTrue
  <2> QED
    BY <1>2, <2>1 DEF RunInv, ReportsAreTrue, JobsGoOn, Settled
<1>4. /\ new.job = n /\ new.kind = kind /\ new.step = 1
  OBVIOUS
<1>5. /\ new.job # Assembly =>
           /\ new.job <= issued'
           /\ new.kind = "complete" => job'[new.job].status = "completed"
           /\ new.kind = "fail" => job'[new.job].status = "failed"
      /\ new.job = Assembly =>
           /\ new.step \in {1, 4} /\ new.kind # "start"
           /\ assembly' = IF new.kind = "complete" THEN "completed" ELSE "failed"
  BY <1>4
<1> HIDE DEF new
<1> QED
  BY <1>1, <1>2, <1>3, <1>5 DEF ReportsAreTrue

\* Nobody waits for some reports any more.
LEMMA Forgotten ==
  ASSUME RunInv, NEW n \in JobId, calls' = Forsaken(n), JobsGoOn, UNCHANGED assembly
  PROVE  calls' \subseteq Call /\ ReportsAreTrue'
<1>1. issued \in Nat /\ issued' \in Nat /\ issued <= issued' /\ calls \subseteq Call
  BY Constants DEF RunInv, TypeOK, JobsGoOn
<1>2. ASSUME NEW d \in calls'
      PROVE  \E c \in calls : /\ d.job = c.job /\ d.kind = c.kind /\ d.step = c.step
                              /\ d \in Call
  <2>1. PICK c \in calls : d = IF c.job = n THEN [c EXCEPT !.heard = FALSE] ELSE c
    BY DEF Forsaken
  <2> QED
    BY <1>1, <2>1 DEF Call
<1>3. calls' \subseteq Call
  BY <1>2
<1>4. ASSUME NEW c \in calls, c.job # Assembly
      PROVE  c.job \in 1..issued
  BY <1>1, <1>4, Constants DEF Call, RunInv, ReportsAreTrue
<1>5. ReportsAreTrue'
  BY <1>1, <1>2, <1>4 DEF RunInv, ReportsAreTrue, JobsGoOn, Settled
<1> QED
  BY <1>3, <1>5

LEMMA StartStep ==
  ASSUME RunInv, NEW n \in JobId, StartJob(n)
  PROVE  RunInv'
<1> USE DEF StartJob
<1>1. /\ JobsGoOn /\ JobsIssued' /\ n \in 1..issued
      /\ job' \in [JobId -> JobRecord]
      /\ job'[n].status = "rendering" /\ \A m \in JobId \ {n} : job'[m] = job[m]
  BY JobMoves DEF RunInv
<1>2. calls' \subseteq Call /\ ReportsAreTrue'
  <2>1. n \in JobId \cup {Assembly} /\ n # Assembly /\ n <= issued' /\ UNCHANGED assembly
    BY <1>1, Constants DEF RunInv, TypeOK
  <2>2. Asks(n, "start")
    OBVIOUS
  <2> QED
    BY <1>1, <2>1, <2>2, Reporting
<1>3. TypeOK'
  BY <1>1, <1>2, Constants DEF RunInv, TypeOK
<1>4. WorkersFit'
  BY <1>1, <1>2, Constants DEF RunInv, TypeOK, WorkersFit
<1> QED
  BY <1>1, <1>2, <1>3, <1>4, OnlyWorkers

LEMMA FinishStep ==
  ASSUME RunInv, NEW n \in JobId, CompleteJob(n) \/ FailJob(n)
  PROVE  RunInv'
<1>1. PICK st \in {"completed", "failed"}, kind \in {"complete", "fail"},
           doing \in {"completing", "failing"} :
        /\ worker[n] = "running"
        /\ kind = "complete" <=> st = "completed"
        /\ doing = "completing" <=> st = "completed"
        /\ job' = [job EXCEPT ![n].status = st] /\ worker' = [worker EXCEPT ![n] = doing]
        /\ Asks(n, kind)
        /\ UNCHANGED <<scene, campaign, run, row, issued, assembly, faults, overtaken>>
  BY DEF CompleteJob, FailJob
<1>2. job[n].status = "rendering" /\ st \in Settled
  BY <1>1 DEF RunInv, WorkersFit, Settled
<1>3. /\ JobsGoOn /\ JobsIssued' /\ n \in 1..issued
      /\ job' \in [JobId -> JobRecord]
      /\ job'[n].status = st /\ \A m \in JobId \ {n} : job'[m] = job[m]
  BY <1>1, <1>2, JobMoves DEF RunInv
<1>4. n <= issued' /\ n # Assembly
  BY <1>1, <1>3, Constants DEF RunInv, TypeOK
<1>5. calls' \subseteq Call /\ ReportsAreTrue'
  BY <1>1, <1>3, <1>4, Reporting
<1>6. TypeOK'
  BY <1>1, <1>3, <1>5, Constants DEF RunInv, TypeOK
<1>7. WorkersFit'
  BY <1>1, <1>3, Constants DEF RunInv, TypeOK, WorkersFit
<1> QED
  BY <1>1, <1>3, <1>5, <1>6, <1>7, OnlyWorkers

\* Back in the queue with a retry left, or swept without one.
LEMMA ReturnStep ==
  ASSUME RunInv, NEW n \in JobId, RetryJob(n) \/ LeaseExpires(n)
  PROVE  RunInv'
<1> USE DEF RetryJob, LeaseExpires
<1>1. PICK st \in {"queued", "failed"}, doing \in {"idle", "done"} :
        /\ job[n].status = "rendering"
        /\ doing = "idle" <=> st = "queued"
        /\ job' = [job EXCEPT ![n].status = st] /\ worker' = [worker EXCEPT ![n] = doing]
        /\ calls' = Forsaken(n) /\ faults' \in {faults, faults + 1}
        /\ faults' # faults => faults < MaxFaults
        /\ UNCHANGED <<scene, campaign, run, row, issued, assembly, overtaken>>
  BY DEF RunInv, WorkersFit, MayFault
<1>2. /\ JobsGoOn /\ JobsIssued' /\ n \in 1..issued
      /\ job' \in [JobId -> JobRecord]
      /\ job'[n].status = st /\ \A m \in JobId \ {n} : job'[m] = job[m]
  BY <1>1, JobMoves DEF RunInv, Settled
<1>3. calls' \subseteq Call /\ ReportsAreTrue'
  BY <1>1, <1>2, Forgotten
<1>4. TypeOK'
  <2>1. faults' \in 0..MaxFaults
    BY <1>1, Constants DEF RunInv, TypeOK
  <2> QED
    BY <1>1, <1>2, <1>3, <2>1 DEF RunInv, TypeOK
<1>5. WorkersFit'
  BY <1>1, <1>2, Constants DEF RunInv, TypeOK, WorkersFit, Settled
<1> QED
  BY <1>1, <1>2, <1>3, <1>4, <1>5, OnlyWorkers

LEMMA AskAgainStep ==
  ASSUME RunInv, NEW n \in JobId \cup {Assembly}, AskAgain(n)
  PROVE  RunInv'
<1> USE DEF AskAgain
<1>1. JobsGoOn
  BY JobsStay DEF RunInv
<1>2. /\ worker[n] \in {"starting", "completing", "failing"}
      /\ Busy[worker[n]] = CASE worker[n] = "starting" -> "start"
                             [] worker[n] = "completing" -> "complete"
                             [] worker[n] = "failing" -> "fail"
  BY DEF Busy
<1>3. n # Assembly => job[n].status # "absent" /\ n <= issued
  BY <1>2, Constants DEF RunInv, WorkersFit, JobsIssued, TypeOK
<1>4. calls' \subseteq Call /\ ReportsAreTrue'
  BY <1>1, <1>2, <1>3, Reporting, Constants DEF RunInv, WorkersFit
<1>5. /\ faults' = faults \/ (faults' = faults + 1 /\ faults < MaxFaults)
      /\ UNCHANGED <<scene, campaign, run, row, job, issued, assembly, worker, overtaken>>
  BY DEF MayFault
<1> HIDE DEF AskAgain
<1>6. TypeOK /\ WorkersFit /\ JobsIssued
  BY DEF RunInv
<1>7. faults' \in 0..MaxFaults
  BY <1>5, <1>6, Constants DEF TypeOK
<1>8. TypeOK'
  BY <1>4, <1>5, <1>6, <1>7 DEF TypeOK
<1>9. WorkersFit'
  BY <1>5, <1>6 DEF WorkersFit
<1>10. JobsIssued'
  BY <1>5, <1>6 DEF JobsIssued
<1> QED
  BY <1>1, <1>4, <1>5, <1>8, <1>9, <1>10, OnlyWorkers

LEMMA DeathStep ==
  ASSUME RunInv, NEW n \in JobId \cup {Assembly}, WorkerDies(n)
  PROVE  RunInv'
<1> USE DEF WorkerDies
<1>1. JobsGoOn
  BY JobsStay DEF RunInv
<1>2. TypeOK' /\ JobsIssued' /\ ReportsAreTrue'
  <2>1. faults' \in 0..MaxFaults
    BY Constants DEF RunInv, TypeOK, MayFault
  <2>2. TypeOK'
    BY <2>1 DEF RunInv, TypeOK
  <2>3. JobsIssued' /\ ReportsAreTrue'
    BY DEF RunInv, JobsIssued, ReportsAreTrue
  <2> QED
    BY <2>2, <2>3
<1>3. WorkersFit'
  <2> DEFINE x == IF n # Assembly /\ job[n].status = "rendering" THEN "dead" ELSE "done"
  <2>1. worker' = [worker EXCEPT ![n] = x] /\ UNCHANGED <<job, assembly>>
        /\ worker[n] \in {"starting", "running", "completing", "failing"}
    OBVIOUS
  <2>2. x \in {"dead", "done"} /\ WorkersFit /\ Assembly \notin JobId
        /\ worker \in [JobId \cup {Assembly} -> WorkerState]
    BY Constants DEF RunInv, TypeOK, WorkerState
  <2>3. n \in JobId => /\ x = "dead" => job[n].status = "rendering"
                       /\ x = "done" => job[n].status \in Settled
    BY <2>1, <2>2 DEF WorkersFit, Settled
  <2>4. n = Assembly => x = "done" /\ assembly \in Settled
    BY <2>1, <2>2 DEF WorkersFit
  <2> HIDE DEF x
  <2> QED
    BY <2>1, <2>2, <2>3, <2>4 DEF WorkersFit
<1> QED
  BY <1>1, <1>2, <1>3, OnlyWorkers

\* The delivery assembly worker, which has one job and one go.
LEMMA AssemblyStep ==
  ASSUME RunInv, NEW outcome \in {"completed", "failed"}, FinishAssembly(outcome)
  PROVE  RunInv'
<1> USE DEF FinishAssembly
<1>1. JobsGoOn
  BY JobsStay DEF RunInv
<1>2. \A c \in calls : c.job # Assembly
  BY DEF RunInv, ReportsAreTrue
<1>3. PICK kind \in {"complete", "fail"} :
        /\ Asks(Assembly, kind) /\ outcome = IF kind = "complete" THEN "completed" ELSE "failed"
        /\ worker' = [worker EXCEPT ![Assembly] = IF kind = "complete" THEN "completing"
                                                                      ELSE "failing"]
  OBVIOUS
<1>4. calls' \subseteq Call /\ ReportsAreTrue'
  <2> DEFINE new == [job |-> Assembly, kind |-> kind, step |-> 1, heard |-> TRUE]
  <2>1. calls' = calls \cup {new} /\ new \in Call
    BY <1>3 DEF Asks, Call
  <2>2. new.job = Assembly /\ new.kind = kind /\ new.step = 1 /\ kind # "start"
    OBVIOUS
  <2> HIDE DEF new
  <2> QED
    BY <1>2, <1>3, <2>1, <2>2 DEF RunInv, TypeOK, ReportsAreTrue
<1>5. TypeOK' /\ JobsIssued'
  BY <1>3, <1>4, Constants DEF RunInv, TypeOK, JobsIssued
<1>8. WorkersFit'
  BY <1>3, Constants DEF RunInv, TypeOK, WorkersFit, Settled
<1>6. \A i \in SceneId : Attempt(i)' /\ Acceptance(i)'
  BY <1>1, SceneStays DEF RunInv
<1>7. RunHasReason' /\ CampaignFollowsRun' /\ AcceptedRunIsAssembled'
  BY DEF RunInv, RunHasReason, CampaignFollowsRun, AcceptedRunIsAssembled, AllAccepted
<1> QED
  BY <1>4, <1>5, <1>6, <1>7, <1>8 DEF RunInv

-----------------------------------------------------------------------------
(* The follow-ups.                                                         *)

\* A request goes on.
LEMMA Advancing ==
  ASSUME RunInv, NEW c \in calls, NEW st \in 1..4, c.job = Assembly => st \in {1, 4},
         calls' = (calls \ {c}) \cup {[c EXCEPT !.step = st]}, UNCHANGED <<job, issued, assembly>>
  PROVE  calls' \subseteq Call /\ ReportsAreTrue'
<1> DEFINE d == [c EXCEPT !.step = st]
<1>1. c \in Call
  BY DEF RunInv, TypeOK
<1>2. d \in Call /\ d.job = c.job /\ d.kind = c.kind /\ d.step = st
  BY <1>1 DEF Call
<1>3. calls' = (calls \ {c}) \cup {d}
  OBVIOUS
<1> HIDE DEF d
<1> QED
  BY <1>2, <1>3 DEF RunInv, TypeOK, ReportsAreTrue

\* The jobs, the workers and what is accepted stay.
LEMMA RunStays ==
  ASSUME RunInv, UNCHANGED <<campaign, run, job, assembly>>,
         \A i \in SceneId : scene'[i].accepted = scene[i].accepted
  PROVE  RunHasReason' /\ CampaignFollowsRun' /\ AcceptedRunIsAssembled'
  BY DEF RunInv, RunHasReason, CampaignFollowsRun, AcceptedRunIsAssembled, AllAccepted

\* A report of the attempt that the scene has moves the scene, to what the
\* attempt has become.
LEMMA SceneMoves ==
  ASSUME RunInv, NEW i \in SceneId, NEW t \in SceneRecord,
         scene[i].status \in InProduction, t.status \in InProduction \cup {"failed"},
         t.status = "qa" => job[scene[i].job].status = "completed",
         t.approval = scene[i].approval, SameWork(scene[i], t),
         scene' = [scene EXCEPT ![i] = t], UNCHANGED <<row, job, issued>>
  PROVE  /\ \A k \in SceneId : Attempt(k)' /\ Acceptance(k)'
         /\ \A k \in SceneId : scene'[k].accepted = scene[k].accepted
         /\ scene' \in [SceneId -> SceneRecord]
<1>1. scene'[i] = t /\ (\A k \in SceneId \ {i} : scene'[k] = scene[k])
      /\ scene' \in [SceneId -> SceneRecord]
  BY DEF RunInv, TypeOK
<1>2. Attempt(i) /\ Acceptance(i)
  BY DEF RunInv
<1>3. Attempt(i)'
  BY <1>1, <1>2 DEF Attempt, SameWork, Produced, InProduction
<1>4. Acceptance(i)'
  BY <1>1, <1>2 DEF Acceptance, SameWork, InProduction
<1>5. ASSUME NEW k \in SceneId \ {i} PROVE Attempt(k)' /\ Acceptance(k)'
  BY <1>1, JobsStay, SceneStays DEF RunInv
<1> QED
  BY <1>1, <1>3, <1>4, <1>5 DEF SameWork

LEMMA SceneFollowsStep ==
  ASSUME RunInv, NEW c \in calls, SceneFollows(c)
  PROVE  RunInv'
<1> DEFINE n == c.job
           i == job[n].scene
<1>1. /\ c \in Call /\ c.step = 1 /\ n # Assembly /\ n \in JobId /\ i \in SceneId
      /\ c.kind = "complete" => job[n].status = "completed"
  BY Constants DEF SceneFollows, RunInv, TypeOK, ReportsAreTrue, JobsIssued, Call
<1>2. calls' \subseteq Call /\ ReportsAreTrue'
  <2>1. calls' = (calls \ {c}) \cup {[c EXCEPT !.step = 2]}
    BY <1>1 DEF SceneFollows, Advance
  <2> QED
    BY <1>1, <2>1, Advancing DEF SceneFollows
<1>3. /\ \A k \in SceneId : Attempt(k)' /\ Acceptance(k)'
      /\ \A k \in SceneId : scene'[k].accepted = scene[k].accepted
      /\ scene' \in [SceneId -> SceneRecord]
  <2> DEFINE s == scene[i]
  <2>0. s \in SceneRecord /\ UNCHANGED <<row, job, issued>>
    BY <1>1 DEF RunInv, TypeOK, SceneFollows
  <2>1. CASE UNCHANGED scene
    BY <2>0, <2>1, JobsStay, SceneStays DEF RunInv, TypeOK
  <2>2. CASE /\ c.kind = "start" /\ s.job = n /\ MayStart(s)
             /\ scene' = [scene EXCEPT ![i] = MovedTo(s, "rendering")]
    <3> DEFINE t == MovedTo(s, "rendering")
    <3>1. /\ t \in SceneRecord /\ t.status = "rendering" /\ t.approval = s.approval
          /\ SameWork(s, t) /\ s.status \in InProduction
      BY <2>0, <2>2, MoveOfScene DEF Status, InProduction, MayStart
    <3> HIDE DEF t
    <3> QED
      BY <1>1, <2>0, <2>2, <3>1, SceneMoves DEF t, InProduction
  <2>3. CASE /\ c.kind = "complete" /\ s.job = n /\ MaySubmitForQA(s)
             /\ scene' = [scene EXCEPT ![i] = MovedTo(s, "qa")]
    <3> DEFINE t == MovedTo(s, "qa")
    <3>1. /\ t \in SceneRecord /\ t.status = "qa" /\ t.approval = s.approval
          /\ SameWork(s, t) /\ s.status \in InProduction
      BY <2>0, <2>3, MoveOfScene DEF Status, InProduction, MaySubmitForQA
    <3> HIDE DEF t
    <3> QED
      BY <1>1, <2>0, <2>3, <3>1, SceneMoves DEF t, InProduction
  <2>4. CASE /\ s.status \in InProduction /\ scene' = [scene EXCEPT ![i] = Failed(s)]
    <3> DEFINE t == Failed(s)
    <3>1. /\ t \in SceneRecord /\ t.status = "failed" /\ t.approval = s.approval
          /\ SameWork(s, t)
      BY <2>0, FailureOfScene
    <3> HIDE DEF t
    <3> QED
      BY <1>1, <2>0, <2>4, <3>1, SceneMoves DEF t
  <2> QED
    BY <2>1, <2>2, <2>3, <2>4 DEF SceneFollows, MoveScene, Change
<1>4. UNCHANGED <<campaign, run, row, job, issued, assembly, worker, faults, overtaken>>
  BY DEF SceneFollows
<1>5. TypeOK' /\ WorkersFit' /\ JobsIssued'
  BY <1>2, <1>3, <1>4 DEF RunInv, TypeOK, WorkersFit, JobsIssued
<1> QED
  BY <1>2, <1>3, <1>4, <1>5, RunStays DEF RunInv

\* Nothing changes but the request.
LEMMA OnlyCalls ==
  ASSUME RunInv, calls' \subseteq Call, ReportsAreTrue',
         UNCHANGED <<scene, campaign, run, row, job, issued, assembly, worker, faults, overtaken>>
  PROVE  RunInv'
<1>1. TypeOK' /\ WorkersFit' /\ JobsIssued'
  BY DEF RunInv, TypeOK, WorkersFit, JobsIssued
<1>2. JobsGoOn
  BY JobsStay DEF RunInv
<1> QED
  BY <1>1, <1>2, OnlyWorkers

LEMMA FindStep ==
  ASSUME RunInv, NEW c \in calls, FindRunScene(c)
  PROVE  RunInv'
<1>1. c.job # Assembly
  BY DEF FindRunScene, RunInv, ReportsAreTrue
<1>2. PICK st \in {3, 4} : calls' = (calls \ {c}) \cup {[c EXCEPT !.step = st]}
  BY DEF FindRunScene
<1>3. calls' \subseteq Call /\ ReportsAreTrue'
  BY <1>1, <1>2, Advancing DEF FindRunScene
<1> QED
  BY <1>3, OnlyCalls DEF FindRunScene

\* The run moves and its campaign with it; nothing is accepted by that.
LEMMA RunMoves ==
  ASSUME RunInv, calls' \subseteq Call, ReportsAreTrue', TypeOK',
         UNCHANGED <<scene, row, job, issued, assembly, worker>>,
         CampaignFollowsRun', RunHasReason', run' = "absent" => run = "absent",
         run' # run => run # "absent"
  PROVE  RunInv'
<1>1. WorkersFit' /\ JobsIssued'
  BY DEF RunInv, WorkersFit, JobsIssued
<1>2. \A i \in SceneId : Attempt(i)' /\ Acceptance(i)'
  BY JobsStay, SceneStays DEF RunInv
<1>3. AcceptedRunIsAssembled'
  BY DEF RunInv, AcceptedRunIsAssembled, AllAccepted
<1> QED
  BY <1>1, <1>2, <1>3 DEF RunInv

LEMMA RunFollowsStep ==
  ASSUME RunInv, NEW c \in calls, RunFollows(c)
  PROVE  RunInv'
<1>1. /\ c \in Call /\ c.job # Assembly /\ c.step = 3 /\ c.job \in JobId
      /\ c.kind = "fail" => job[c.job].status = "failed"
      /\ UNCHANGED <<scene, row, job, issued, assembly, worker, faults, overtaken>>
  BY DEF RunFollows, RunInv, TypeOK, ReportsAreTrue, Call
<1>2. calls' \subseteq Call /\ ReportsAreTrue'
  <2>1. calls' = (calls \ {c}) \cup {[c EXCEPT !.step = 4]}
    BY <1>1 DEF RunFollows, Advance
  <2> QED
    BY <1>1, <2>1, Advancing
<1>3. CASE c.kind = "start" /\ CampaignStarts
  <2>1. /\ CampaignFollowsRun' /\ RunHasReason' /\ run' = run
        /\ campaign' \in {campaign, "rendering"}
    BY <1>1, <1>3 DEF CampaignStarts, RunInv, CampaignFollowsRun, RunHasReason
  <2>2. TypeOK'
    BY <1>1, <1>2, <2>1 DEF RunInv, TypeOK
  <2> QED
    BY <1>1, <1>2, <2>1, <2>2, RunMoves
<1>4. CASE ClaimForProductionReview
  <2>1. \/ UNCHANGED <<run, campaign>>
        \/ run \in {"dispatched", "failed"} /\ run' = "production_review" /\ campaign' = "qa"
    BY <1>4 DEF ClaimForProductionReview
  <2>2. CampaignFollowsRun' /\ RunHasReason'
    BY <1>1, <2>1 DEF RunInv, CampaignFollowsRun, RunHasReason
  <2>3. TypeOK'
    BY <1>1, <1>2, <2>1 DEF RunInv, TypeOK
  <2> QED
    BY <1>1, <1>2, <2>1, <2>2, <2>3, RunMoves
<1>5. CASE c.kind = "fail" /\ ClaimFailure
  <2>1. \/ UNCHANGED <<run, campaign>>
        \/ run \in {"dispatched", "production_review", "assembling"}
           /\ run' = "failed" /\ campaign' = "failed"
    BY <1>5 DEF ClaimFailure
  <2>2. CampaignFollowsRun' /\ RunHasReason'
    BY <1>1, <1>5, <2>1 DEF RunInv, CampaignFollowsRun, RunHasReason
  <2>3. TypeOK'
    BY <1>1, <1>2, <2>1 DEF RunInv, TypeOK
  <2> QED
    BY <1>1, <1>2, <2>1, <2>2, <2>3, RunMoves
<1> QED
  BY <1>3, <1>4, <1>5 DEF RunFollows

LEMMA AssemblyFollowsStep ==
  ASSUME RunInv, NEW c \in calls, AssemblyFollows(c)
  PROVE  RunInv'
<1>1. /\ c \in Call /\ c.job = Assembly
      /\ assembly = IF c.kind = "complete" THEN "completed" ELSE "failed"
      /\ UNCHANGED <<scene, row, job, issued, assembly, worker, faults, overtaken>>
  BY DEF AssemblyFollows, RunInv, TypeOK, ReportsAreTrue
<1>2. calls' \subseteq Call /\ ReportsAreTrue'
  <2>1. calls' = (calls \ {c}) \cup {[c EXCEPT !.step = 4]}
    BY DEF AssemblyFollows
  <2> QED
    BY <1>1, <2>1, Advancing
<1>3. \/ UNCHANGED <<run, campaign>>
      \/ /\ run # "absent" /\ run' = IF c.kind = "complete" THEN "completed" ELSE "failed"
         /\ campaign' = run'
  BY DEF AssemblyFollows
<1>4. CampaignFollowsRun' /\ RunHasReason'
  BY <1>1, <1>3 DEF RunInv, CampaignFollowsRun, RunHasReason
<1>5. TypeOK'
  BY <1>1, <1>2, <1>3 DEF RunInv, TypeOK
<1> QED
  BY <1>1, <1>2, <1>3, <1>4, <1>5, RunMoves

LEMMA ReplyStep ==
  ASSUME RunInv, NEW c \in calls, Reply(c)
  PROVE  RunInv'
<1>1. JobsGoOn /\ c \in Call /\ calls' \subseteq calls
  BY JobsStay DEF Reply, RunInv, TypeOK
<1>2. PICK doing \in {worker[c.job], "running", "done"} :
        /\ worker' = [worker EXCEPT ![c.job] = doing]
        /\ doing = "running" => worker[c.job] \in {"starting", "running"}
        /\ doing = "done" => worker[c.job] \in {"completing", "failing", "done"}
  <2> DEFINE w == worker[c.job]
             waits == c.heard /\ w \in DOMAIN Busy /\ Busy[w] = c.kind
             doing == IF waits THEN IF c.kind = "start" THEN "running" ELSE "done" ELSE w
  <2>1. worker' = [worker EXCEPT ![c.job] = doing]
    BY DEF Reply
  <2>2. /\ waits /\ c.kind = "start" => w = "starting"
        /\ waits /\ c.kind # "start" => w \in {"completing", "failing"}
    BY DEF Busy
  <2>3. /\ doing \in {w, "running", "done"}
        /\ doing = "running" => w \in {"starting", "running"}
        /\ doing = "done" => w \in {"completing", "failing", "done"}
    <3> HIDE DEF waits
    <3> QED
      BY <2>2
  <2> HIDE DEF doing
  <2> QED
    BY <2>1, <2>3
<1>3. c.job \in JobId \cup {Assembly}
  BY <1>1 DEF Call
<1>4. TypeOK' /\ JobsIssued' /\ ReportsAreTrue'
  BY <1>1, <1>2, <1>3 DEF Reply, RunInv, TypeOK, JobsIssued, ReportsAreTrue
<1>5. WorkersFit'
  <2>1. WorkersFit /\ UNCHANGED <<job, assembly>> /\ Assembly \notin JobId
        /\ worker \in [JobId \cup {Assembly} -> WorkerState]
    BY Constants DEF Reply, RunInv, TypeOK, WorkerState
  <2> QED
    BY <1>2, <1>3, <2>1 DEF WorkersFit, Settled
<1> QED
  BY <1>1, <1>4, <1>5, OnlyWorkers DEF Reply

LEMMA LossStep ==
  ASSUME RunInv, NEW c \in calls, Lose(c)
  PROVE  RunInv'
<1>1. JobsGoOn /\ calls' \subseteq calls
  BY JobsStay DEF Lose, RunInv
<1>2. TypeOK' /\ JobsIssued' /\ WorkersFit'
  <2>1. faults' \in 0..MaxFaults
    BY Constants DEF Lose, MayFault, RunInv, TypeOK
  <2>2. TypeOK'
    BY <1>1, <2>1 DEF Lose, RunInv, TypeOK
  <2>3. JobsIssued' /\ WorkersFit'
    BY DEF Lose, RunInv, JobsIssued, WorkersFit
  <2> QED
    BY <2>2, <2>3
<1>3. ReportsAreTrue'
  BY <1>1 DEF Lose, RunInv, ReportsAreTrue
<1> QED
  BY <1>1, <1>2, <1>3, OnlyWorkers DEF Lose

-----------------------------------------------------------------------------
(* The director.                                                           *)

\* A command that takes scene i out of the production, or leaves it out.
LEMMA OutOfProduction ==
  ASSUME RunInv, NEW i \in SceneId, NEW t \in SceneRecord,
         scene[i].status # "completed", t.accepted = scene[i].accepted, t.status \notin Produced,
         t.status = "approved" => t.approval = t.revision,
         scene' = [scene EXCEPT ![i] = t],
         UNCHANGED <<campaign, run, row, job, issued, assembly, worker, calls, faults, overtaken>>
  PROVE  RunInv'
<1>1. scene'[i] = t /\ (\A k \in SceneId \ {i} : scene'[k] = scene[k])
      /\ scene' \in [SceneId -> SceneRecord]
  BY DEF RunInv, TypeOK
<1>2. Attempt(i)' /\ Acceptance(i)'
  BY <1>1 DEF RunInv, Attempt, Acceptance, Produced, InProduction
<1>3. ASSUME NEW k \in SceneId \ {i} PROVE Attempt(k)' /\ Acceptance(k)'
  BY <1>1, JobsStay, SceneStays DEF RunInv
<1>4. TypeOK' /\ WorkersFit' /\ JobsIssued' /\ ReportsAreTrue'
  BY <1>1 DEF RunInv, TypeOK, WorkersFit, JobsIssued, ReportsAreTrue
<1>5. \A k \in SceneId : scene'[k].accepted = scene[k].accepted
  BY <1>1
<1> QED
  BY <1>2, <1>3, <1>4, <1>5, RunStays DEF RunInv

LEMMA SceneCommandStep ==
  ASSUME RunInv, NEW i \in SceneId,
         \/ ApproveOne(i) \/ Review(i) \/ Edit(i) \/ Reroll(i) \/ RejectQA(i) \/ Cancel(i)
  PROVE  RunInv'
<1> DEFINE s == scene[i]
           Out(t) == /\ t \in SceneRecord /\ t.accepted = s.accepted /\ t.status \notin Produced
                     /\ t.status = "approved" => t.approval = t.revision
           Only(t) ==
             /\ scene' = [scene EXCEPT ![i] = t]
             /\ UNCHANGED <<campaign, run, row, job, issued, assembly, worker, calls, faults, overtaken>>
<1>0. s \in SceneRecord
  BY DEF RunInv, TypeOK
<1>1. CASE ApproveOne(i)
  <2>1. s.status # "completed" /\ Out(Approved(s))
    BY <1>0, <1>1, ApprovalOfScene
       DEF ApproveOne, MayApprove, SameWork, Produced, InProduction
  <2>2. Only(Approved(s))
    BY <1>1 DEF ApproveOne, Change
  <2> QED
    BY <2>1, <2>2, OutOfProduction
<1>2. CASE Review(i)
  <2>1. PICK t \in {SubmittedForReview(s), CandidateSelected(s, s.revision)} :
          /\ s.status \in {"generating_candidates", "director_review"}
          /\ Only(t)
    BY <1>2 DEF Review, Change, MaySubmitForReview, MaySelect
  <2>2. Out(t)
    BY <1>0, <2>1, ReviewOfScene DEF SameWork, Produced, InProduction
  <2> QED
    BY <2>1, <2>2, OutOfProduction
<1>3. CASE Edit(i)
  <2>1. s.status # "completed" /\ Out(Edited(s))
    BY <1>0, <1>3, RevisionOfScene DEF Edit, MayEdit, Produced, InProduction
  <2>2. Only(Edited(s))
    BY <1>3 DEF Edit, Change
  <2> QED
    BY <2>1, <2>2, OutOfProduction
<1>4. CASE Reroll(i)
  <2>1. s.status # "completed" /\ Out(Rerolled(s))
    BY <1>0, <1>4, RevisionOfScene DEF Reroll, MayReroll, Produced, InProduction
  <2>2. Only(Rerolled(s))
    BY <1>4 DEF Reroll, Change
  <2> QED
    BY <2>1, <2>2, OutOfProduction
<1>5. CASE RejectQA(i)
  <2>1. s.status # "completed" /\ Out(BackInReview(s))
    BY <1>0, <1>5, ReturnOfScene DEF RejectQA, InQA, Produced, InProduction
  <2>2. Only(BackInReview(s))
    BY <1>5 DEF RejectQA, Change
  <2> QED
    BY <2>1, <2>2, OutOfProduction
<1>6. CASE Cancel(i)
  <2>1. s.status # "completed" /\ Out(Cancelled(s))
    BY <1>0, <1>6, ReturnOfScene DEF Cancel, MayCancel, Terminal, Produced, InProduction
  <2>2. Only(Cancelled(s))
    BY <1>6 DEF Cancel, Change
  <2> QED
    BY <2>1, <2>2, OutOfProduction
<1> QED
  BY <1>1, <1>2, <1>3, <1>4, <1>5, <1>6

\* New attempts: the numbers after those issued, which nobody has heard of.
LEMMA JobsAreAdded ==
  ASSUME RunInv, issued' \in issued..MaxJobs,
         job' \in [JobId -> JobRecord],
         \A n \in JobId : n \in issued + 1..issued' =>
                            job'[n].status = "queued" /\ job'[n].scene \in SceneId,
         \A n \in JobId : n \notin issued + 1..issued' => job'[n] = job[n],
         UNCHANGED <<assembly, worker, calls>>
  PROVE  JobsGoOn /\ JobsIssued' /\ WorkersFit' /\ ReportsAreTrue'
<1>1. issued \in Nat /\ issued' \in Nat /\ issued <= issued' /\ MaxJobs \in Nat
      /\ JobId = 1..MaxJobs /\ calls \subseteq Call /\ Assembly \notin JobId
      /\ job \in [JobId -> JobRecord]
  BY Constants DEF RunInv, TypeOK
<1>2. JobsGoOn
  BY <1>1 DEF JobsGoOn
<1>3. JobsIssued'
  <2>1. ASSUME NEW n \in JobId
        PROVE  (job'[n].status = "absent" <=> n > issued')
               /\ (n <= issued' => job'[n].scene \in SceneId)
    <3>1. CASE n \in issued + 1..issued'
      BY <1>1, <3>1
    <3>2. CASE n \notin issued + 1..issued'
      <4>1. job'[n] = job[n] /\ (n > issued <=> n > issued')
        BY <1>1, <3>2
      <4>2. (job[n].status = "absent" <=> n > issued) /\ (n <= issued => job[n].scene \in SceneId)
        BY DEF RunInv, JobsIssued
      <4> QED
        BY <1>1, <4>1, <4>2
    <3> QED
      BY <3>1, <3>2
  <2> QED
    BY <2>1 DEF JobsIssued
<1>4. ASSUME NEW n \in JobId, job'[n] # job[n]
      PROVE  job[n].status = "absent" /\ job'[n].status = "queued" /\ worker[n] = "idle"
  <2>1. n \in issued + 1..issued'
    BY <1>4
  <2>2. job[n].status = "absent"
    BY <1>1, <2>1 DEF RunInv, JobsIssued
  <2>3. worker[n] = "idle"
    BY <2>2 DEF RunInv, WorkersFit, TypeOK, Settled
  <2> QED
    BY <2>1, <2>2, <2>3
<1>5. WorkersFit'
  BY <1>4 DEF RunInv, WorkersFit
<1>6. ASSUME NEW c \in calls, c.job # Assembly
      PROVE  c.job <= issued' /\ job'[c.job] = job[c.job]
  <2>1. c.job \in JobId /\ c.job <= issued
    BY <1>1, <1>6 DEF RunInv, ReportsAreTrue, Call
  <2> QED
    BY <1>1, <2>1
<1>7. ReportsAreTrue'
  BY <1>6 DEF RunInv, ReportsAreTrue
<1> QED
  BY <1>2, <1>3, <1>5, <1>7

\* A further attempt of a scene that is not accepted.
LEMMA AttemptStep ==
  ASSUME RunInv, NEW i \in SceneId, NEW s \in SceneRecord,
         scene[i].status # "completed", s.approval = s.revision, SameWork(scene[i], s),
         EnqueueAttempt(i, s), UNCHANGED <<campaign, run, assembly, worker, calls, faults>>
  PROVE  RunInv'
<1> DEFINE n == issued + 1
           t == Queued(s, n)
<1>1. /\ issued \in Nat /\ n \in JobId /\ n \in Nat /\ issued' = n /\ n \in issued..MaxJobs
      /\ issued < n
  BY Constants DEF RunInv, TypeOK, EnqueueAttempt
<1>2. /\ t \in SceneRecord /\ t.status = "queued" /\ t.job = n
      /\ t.revision = scene[i].revision /\ t.approval = t.revision
      /\ t.ordinal = scene[i].ordinal + 1 /\ t.accepted = scene[i].accepted
  BY <1>1, AttemptOfScene DEF SameWork
<1>3. scene' = [scene EXCEPT ![i] = t]
  BY DEF EnqueueAttempt, Change
<1>4. /\ NewJob(i) \in JobRecord
      /\ NewJob(i).status = "queued" /\ NewJob(i).scene = i
      /\ NewJob(i).revision = scene[i].revision /\ NewJob(i).ordinal = scene[i].ordinal + 1
  BY DEF NewJob, RunInv, TypeOK, SceneRecord
<1>5. /\ job' = [job EXCEPT ![n] = NewJob(i)]
      /\ row' = [row EXCEPT ![i].job = n, ![i].revision = s.revision]
  BY DEF EnqueueAttempt
<1> HIDE DEF t
<1>6. /\ scene'[i] = t /\ (\A k \in SceneId \ {i} : scene'[k] = scene[k])
      /\ scene' \in [SceneId -> SceneRecord]
  BY <1>2, <1>3 DEF RunInv, TypeOK
<1>7. /\ row' \in [SceneId -> RowRecord]
      /\ row'[i].job = n /\ row'[i].accepted = row[i].accepted
      /\ \A k \in SceneId \ {i} : row'[k] = row[k]
  <2>1. s.revision \in Nat
    BY DEF SceneRecord
  <2> DEFINE r == [row[i] EXCEPT !.job = n, !.revision = s.revision]
  <2> HIDE DEF n
  <2>2. row \in [SceneId -> RowRecord]
    BY DEF RunInv, TypeOK
  <2>3. r \in RowRecord /\ r.job = n /\ r.accepted = row[i].accepted
    BY <1>1, <2>1, <2>2
  <2>4. row' = [row EXCEPT ![i] = r]
    BY <1>5, <2>2
  <2> HIDE DEF r, RowRecord
  <2> QED
    BY <2>2, <2>3, <2>4
<1>8. /\ job' \in [JobId -> JobRecord]
      /\ job'[n] = NewJob(i) /\ \A m \in JobId \ {n} : job'[m] = job[m]
  <2> HIDE DEF n
  <2> QED
    BY <1>1, <1>4, <1>5 DEF RunInv, TypeOK
<1>9. \A m \in JobId : m \in issued + 1..issued' <=> m = n
  BY <1>1, Constants
<1>10. JobsGoOn /\ JobsIssued' /\ WorkersFit' /\ ReportsAreTrue'
  BY <1>1, <1>4, <1>8, <1>9, JobsAreAdded
<1>11. Attempt(i)' /\ Acceptance(i)'
  <2>1. t.status \notin {"qa", "completed"} /\ n \in 1..issued'
    BY <1>1, <1>2
  <2>2. /\ scene'[i].job = n /\ row'[i].job = n /\ job'[n].scene = i
        /\ job'[n].revision = scene'[i].approval /\ job'[n].ordinal = scene'[i].ordinal
        /\ scene'[i].approval = scene'[i].revision
    BY <1>2, <1>4, <1>6, <1>7, <1>8
  <2>3. Attempt(i)'
    <3> HIDE DEF n
    <3>1. scene'[i].status = "queued"
      BY <1>2, <1>6
    <3> QED
      BY <2>1, <2>2, <3>1 DEF Attempt
  <2>4. Acceptance(i)'
    BY <1>2, <1>6, <1>7 DEF RunInv, Acceptance
  <2> QED
    BY <2>3, <2>4
<1>12. ASSUME NEW k \in SceneId \ {i} PROVE Attempt(k)' /\ Acceptance(k)'
  BY <1>6, <1>7, <1>10, SceneStays DEF RunInv
<1>13. TypeOK'
  <2>1. issued' \in 0..MaxJobs
    BY <1>1, Constants
  <2>2. ASSUME NEW c \in calls, c.step = 3
        PROVE  c.job \in JobId
    BY <2>2 DEF RunInv, TypeOK, ReportsAreTrue, Call
  <2>3. overtaken' \subseteq JobId
    BY <2>2 DEF EnqueueAttempt, RunInv, TypeOK
  <2> HIDE DEF n
  <2> QED
    BY <1>6, <1>7, <1>8, <2>1, <2>3 DEF RunInv, TypeOK
<1>14. RunHasReason' /\ CampaignFollowsRun' /\ AcceptedRunIsAssembled'
  <2>1. \A k \in SceneId : scene'[k].accepted = scene[k].accepted
    BY <1>2, <1>6
  <2>2. (\E m \in JobId : job[m].status = "failed") => \E m \in JobId : job'[m].status = "failed"
    BY <1>10, FailuresStay DEF RunInv
  <2> QED
    BY <2>1, <2>2
       DEF RunInv, RunHasReason, CampaignFollowsRun, AcceptedRunIsAssembled, AllAccepted
<1> QED
  BY <1>10, <1>11, <1>12, <1>13, <1>14 DEF RunInv

LEMMA ReapproveStep ==
  ASSUME RunInv, NEW i \in SceneId, Reapprove(i)
  PROVE  RunInv'
<1>1. scene[i] \in SceneRecord
  BY DEF RunInv, TypeOK
<1>2. /\ Approved(scene[i]) \in SceneRecord /\ SameWork(scene[i], Approved(scene[i]))
      /\ Approved(scene[i]).approval = Approved(scene[i]).revision
      /\ scene[i].status # "completed"
  BY <1>1, ApprovalOfScene DEF SameWork, Reapprove, MayApprove
<1> QED
  BY <1>2, AttemptStep DEF Reapprove

LEMMA RerenderStep ==
  ASSUME RunInv, NEW i \in SceneId, NEW n \in JobId, RequestProductionRerender(i, n)
  PROVE  RunInv'
<1>1. scene[i] \in SceneRecord /\ Attempt(i)
  BY DEF RunInv, TypeOK
<1>2. scene[i].approval = scene[i].revision /\ scene[i].status # "completed"
  BY <1>1 DEF RequestProductionRerender, InQA, Recoverable, Attempt, Produced, InProduction
<1> QED
  BY <1>1, <1>2, AttemptStep DEF RequestProductionRerender, SameWork

\* The approval that dispatches: every scene gets its first attempt.
LEMMA DispatchStep ==
  ASSUME RunInv, NEW i \in SceneId, ApproveLast(i)
  PROVE  RunInv'
<1> DEFINE s(k) == IF k = i THEN Approved(scene[k]) ELSE scene[k]
           t(k) == Queued(s(k), issued + k)
<1>1. /\ issued \in Nat /\ issued' = issued + NumScenes /\ issued' \in issued..MaxJobs
      /\ \A k \in SceneId : issued + k \in JobId /\ issued + k \in Nat /\ issued + k \in 1..issued'
      /\ \A n \in JobId : n \in issued + 1..issued' <=> n - issued \in SceneId
  BY Constants DEF RunInv, TypeOK, ApproveLast
<1>2. ASSUME NEW k \in SceneId
      PROVE  /\ s(k) \in SceneRecord /\ s(k).status = "approved"
             /\ s(k).approval = scene[k].revision /\ s(k).revision = scene[k].revision
             /\ s(k).ordinal = scene[k].ordinal /\ s(k).accepted = None
  <2>1. scene[k] \in SceneRecord /\ Attempt(k) /\ Acceptance(k)
    BY DEF RunInv, TypeOK
  <2>2. CASE k = i
    <3>1. scene[k].status = "director_review"
      BY <2>2 DEF ApproveLast, MayApprove
    <3>2. s(k) = Approved(scene[k])
      BY <2>2
    <3>3. scene[k].accepted = None
      BY <2>1, <3>1 DEF Acceptance
    <3> HIDE DEF s
    <3> QED
      BY <2>1, <3>2, <3>3, ApprovalOfScene DEF SameWork
  <2>3. CASE k # i
    <3>1. scene[k].status = "approved"
      BY <2>3 DEF ApproveLast, OthersApproved
    <3>2. s(k) = scene[k]
      BY <2>3
    <3>3. scene[k].accepted = None /\ scene[k].approval = scene[k].revision
      BY <2>1, <3>1 DEF Attempt, Acceptance
    <3> HIDE DEF s
    <3> QED
      BY <2>1, <3>1, <3>2, <3>3
  <2> QED
    BY <2>2, <2>3
<1>3. ASSUME NEW k \in SceneId
      PROVE  /\ t(k) \in SceneRecord /\ t(k).status = "queued" /\ t(k).job = issued + k
             /\ t(k).approval = scene[k].revision /\ t(k).revision = scene[k].revision
             /\ t(k).ordinal = scene[k].ordinal + 1 /\ t(k).accepted = None
  <2> HIDE DEF s
  <2>1. /\ s(k) \in SceneRecord /\ s(k).approval = scene[k].revision
        /\ s(k).revision = scene[k].revision /\ s(k).ordinal = scene[k].ordinal
        /\ s(k).accepted = None /\ issued + k \in Nat
    BY <1>1, <1>2
  <2>2. /\ t(k) \in SceneRecord /\ t(k).status = "queued" /\ t(k).job = issued + k
        /\ t(k).approval = s(k).approval /\ t(k).revision = s(k).revision
        /\ t(k).ordinal = s(k).ordinal + 1 /\ t(k).accepted = s(k).accepted
    BY <2>1, AttemptOfScene
  <2> HIDE DEF t
  <2> QED
    BY <2>1, <2>2
<1>4. scene' = [k \in SceneId |-> t(k)]
  BY DEF ApproveLast
<1> HIDE DEF s, t
<1>5. /\ \A k \in SceneId : scene'[k] = t(k)
      /\ scene' \in [SceneId -> SceneRecord]
  BY <1>3, <1>4
<1>6. ASSUME NEW k \in SceneId
      PROVE  /\ NewJob(k) \in JobRecord
             /\ NewJob(k).status = "queued" /\ NewJob(k).scene = k
             /\ NewJob(k).revision = scene[k].revision
             /\ NewJob(k).ordinal = scene[k].ordinal + 1
  BY DEF NewJob, RunInv, TypeOK, SceneRecord
<1>7. /\ job' = [n \in JobId |-> IF n - issued \in SceneId THEN NewJob(n - issued) ELSE job[n]]
      /\ row' = [k \in SceneId |-> [job |-> issued + k, revision |-> scene[k].revision,
                                    accepted |-> None]]
      /\ run = "absent" /\ run' = "dispatched" /\ campaign' = "queued"
      /\ UNCHANGED <<assembly, worker, calls, faults, overtaken>>
  BY DEF ApproveLast
<1>8. /\ job' \in [JobId -> JobRecord]
      /\ \A n \in JobId : n \in issued + 1..issued' =>
                           job'[n].status = "queued" /\ job'[n].scene \in SceneId
      /\ \A n \in JobId : n \notin issued + 1..issued' => job'[n] = job[n]
  BY <1>1, <1>6, <1>7 DEF RunInv, TypeOK
<1>9. JobsGoOn /\ JobsIssued' /\ WorkersFit' /\ ReportsAreTrue'
  BY <1>1, <1>7, <1>8, JobsAreAdded
<1>10. row' \in [SceneId -> RowRecord]
  BY <1>1, <1>7 DEF RunInv, TypeOK, SceneRecord
<1>11. TypeOK'
  <2>1. issued' \in 0..MaxJobs
    BY <1>1, Constants
  <2> QED
    BY <1>5, <1>7, <1>8, <1>10, <2>1 DEF RunInv, TypeOK
<1>12. ASSUME NEW k \in SceneId PROVE Attempt(k)' /\ Acceptance(k)'
  <2>1. scene'[k].status = "queued" /\ scene'[k].accepted = None
    BY <1>3, <1>5
  <2>2. row'[k].job = issued + k /\ row'[k].accepted = None
    BY <1>7
  <2>3. job'[issued + k] = NewJob(k)
    <3>1. (issued + k) - issued = k
      BY <1>1, Constants
    <3> QED
      BY <1>1, <1>7, <3>1
  <2>4. /\ scene'[k].job = issued + k /\ job'[scene'[k].job].scene = k
        /\ job'[scene'[k].job].revision = scene'[k].approval
        /\ job'[scene'[k].job].ordinal = scene'[k].ordinal
        /\ scene'[k].approval = scene'[k].revision
    BY <1>3, <1>5, <1>6, <2>3
  <2>5. Attempt(k)'
    BY <1>1, <2>1, <2>2, <2>4 DEF Attempt
  <2>6. Acceptance(k)'
    BY <2>1, <2>2 DEF Acceptance
  <2> QED
    BY <2>5, <2>6
<1>13. assembly = "absent"
  <2>1. PICK k \in SceneId : TRUE
    BY Constants
  <2>2. scene[k].accepted = None
    <3>1. scene[k].status # "completed"
      BY DEF ApproveLast, OthersApproved, MayApprove
    <3> QED
      BY <3>1 DEF RunInv, Acceptance
  <2> QED
    BY <2>2 DEF RunInv, RunHasReason
<1>14. RunHasReason' /\ CampaignFollowsRun'
  BY <1>7, <1>13 DEF RunHasReason, CampaignFollowsRun
<1>15. AcceptedRunIsAssembled'
  <2>1. PICK k \in SceneId : TRUE
    BY Constants
  <2>2. scene'[k].accepted = None
    BY <1>3, <1>5
  <2> QED
    BY <2>2 DEF AcceptedRunIsAssembled, AllAccepted
<1> QED
  BY <1>9, <1>11, <1>12, <1>14, <1>15 DEF RunInv

\* The last acceptance finds no assembly, and orders it unless the run has
\* failed.
LEMMA AcceptStep ==
  ASSUME RunInv, NEW i \in SceneId, NEW n \in JobId, AcceptProduction(i, n)
  PROVE  RunInv'
<1> DEFINE t == Accepted(scene[i], n)
           accepted == [k \in SceneId |-> IF k = i THEN n ELSE row[k].accepted]
<1>1. /\ scene[i] \in SceneRecord /\ n \in Nat /\ n # None
      /\ scene[i].status = "qa" /\ scene[i].job = n /\ scene[i].accepted = None
  BY Constants DEF RunInv, TypeOK, AcceptProduction, MayAccept, InQA, Fenced, None, JobId
<1>2. /\ t \in SceneRecord /\ t.status = "completed" /\ t.approval = scene[i].approval
      /\ t.revision = scene[i].revision /\ t.job = n /\ t.ordinal = scene[i].ordinal
      /\ t.accepted = n
  BY <1>1, AcceptanceOfScene
<1>3. /\ scene' = [scene EXCEPT ![i] = t] /\ row' = [row EXCEPT ![i].accepted = n]
      /\ UNCHANGED <<campaign, job, issued, worker, calls, faults, overtaken>>
      /\ AdmitAssembly(accepted)
  BY DEF AcceptProduction, Change
<1> HIDE DEF t
<1>4. /\ scene'[i] = t /\ (\A k \in SceneId \ {i} : scene'[k] = scene[k])
      /\ scene' \in [SceneId -> SceneRecord]
  BY <1>2, <1>3 DEF RunInv, TypeOK
<1>5. /\ row' \in [SceneId -> RowRecord]
      /\ row'[i].accepted = n /\ row'[i].job = row[i].job
      /\ \A k \in SceneId \ {i} : row'[k] = row[k]
  BY <1>3 DEF RunInv, TypeOK
<1>6. assembly = "absent"
  BY <1>1 DEF RunInv, RunHasReason
<1>7. JobsGoOn
  BY <1>3, JobsStay DEF RunInv
<1>8. ASSUME NEW k \in SceneId PROVE Attempt(k)' /\ Acceptance(k)'
  <2>1. CASE k = i
    <3>1. Attempt(i)
      BY DEF RunInv
    <3>2. Attempt(i)'
      BY <1>1, <1>2, <1>3, <1>4, <1>5, <3>1 DEF Attempt, Produced, InProduction
    <3>3. Acceptance(i)'
      BY <1>2, <1>4, <1>5 DEF Acceptance
    <3> QED
      BY <2>1, <3>2, <3>3
  <2>2. CASE k # i
    BY <1>4, <1>5, <1>7, <2>2, SceneStays DEF RunInv
  <2> QED
    BY <2>1, <2>2
<1>9. \A k \in SceneId : accepted[k] = scene'[k].accepted
  BY <1>2, <1>4 DEF RunInv, Acceptance
<1> HIDE DEF accepted
<1>10. \/ /\ run \in {"dispatched", "production_review"} /\ \A k \in SceneId : accepted[k] # None
          /\ run' = "assembling" /\ assembly' = "queued"
       \/ /\ ~(run \in {"dispatched", "production_review"} /\ \A k \in SceneId : accepted[k] # None)
          /\ UNCHANGED <<run, assembly>>
  BY <1>3 DEF AdmitAssembly
<1>11. worker[Assembly] = "idle" /\ \A c \in calls : c.job # Assembly
  BY <1>6 DEF RunInv, WorkersFit, ReportsAreTrue, Settled
<1>12. TypeOK'
  BY <1>3, <1>4, <1>5, <1>10 DEF RunInv, TypeOK
<1>13. WorkersFit' /\ JobsIssued' /\ ReportsAreTrue'
  BY <1>3, <1>11, Constants DEF RunInv, WorkersFit, JobsIssued, ReportsAreTrue
<1>14. CampaignFollowsRun'
  BY <1>3, <1>10 DEF RunInv, CampaignFollowsRun
<1>15. RunHasReason'
  BY <1>3, <1>6, <1>9, <1>10 DEF RunInv, RunHasReason
<1>16. AcceptedRunIsAssembled'
  <2>1. run \in {"absent", "dispatched", "production_review", "assembling", "completed", "failed"}
    BY DEF RunInv, TypeOK
  <2> QED
    BY <1>3, <1>6, <1>9, <1>10, <2>1 DEF RunInv, RunHasReason, AcceptedRunIsAssembled, AllAccepted
<1> QED
  BY <1>8, <1>12, <1>13, <1>14, <1>15, <1>16 DEF RunInv
-----------------------------------------------------------------------------
LEMMA InitInv == Init => RunInv
<1> SUFFICES ASSUME Init PROVE RunInv
  OBVIOUS
<1>1. TypeOK
  <2>1. [NewScene EXCEPT !.status = "director_review", !.candidate = 1] \in SceneRecord
    BY NewSceneIsOne DEF SceneRecord, Status
  <2> QED
    BY <2>1, Constants DEF Init, TypeOK, None
<1>2. WorkersFit /\ JobsIssued /\ ReportsAreTrue
  BY Constants DEF Init, WorkersFit, JobsIssued, ReportsAreTrue
<1>3. ASSUME NEW i \in SceneId PROVE Attempt(i) /\ Acceptance(i)
  <2>1. /\ scene[i].status = "director_review" /\ scene[i].accepted = None
        /\ row[i].accepted = None
    BY DEF Init, NewScene
  <2> QED
    BY <2>1 DEF Attempt, Acceptance, Produced, InProduction
<1>4. RunHasReason /\ CampaignFollowsRun /\ AcceptedRunIsAssembled
  BY DEF Init, RunHasReason, CampaignFollowsRun, AcceptedRunIsAssembled, AllAccepted
<1> QED
  BY <1>1, <1>2, <1>3, <1>4 DEF RunInv

LEMMA NextInv == RunInv /\ [Next]_vars => RunInv'
<1> SUFFICES ASSUME RunInv, [Next]_vars PROVE RunInv'
  OBVIOUS
<1>1. CASE Director
  BY <1>1, SceneCommandStep, DispatchStep, ReapproveStep, RerenderStep, AcceptStep DEF Director
<1>2. ASSUME NEW n \in JobId, WorkerStep(n) PROVE RunInv'
  BY <1>2, StartStep, FinishStep, ReturnStep DEF WorkerStep
<1>3. ASSUME NEW outcome \in {"completed", "failed"}, FinishAssembly(outcome) PROVE RunInv'
  BY <1>3, AssemblyStep
<1>4. ASSUME NEW n \in JobId \cup {Assembly}, AskAgain(n) \/ WorkerDies(n) PROVE RunInv'
  BY <1>4, AskAgainStep, DeathStep
<1>5. ASSUME NEW c \in calls, Handle(c) \/ Lose(c) PROVE RunInv'
  BY <1>5, SceneFollowsStep, FindStep, RunFollowsStep, AssemblyFollowsStep, ReplyStep, LossStep
     DEF Handle
<1>6. CASE UNCHANGED vars
  <2>1. TypeOK' /\ WorkersFit' /\ JobsIssued' /\ ReportsAreTrue'
    BY <1>6 DEF vars, RunInv, TypeOK, WorkersFit, JobsIssued, ReportsAreTrue
  <2> QED
    BY <1>6, <2>1, JobsStay, OnlyWorkers DEF vars, RunInv
<1> QED
  BY <1>1, <1>2, <1>3, <1>4, <1>5, <1>6 DEF Next

LEMMA Invariance == Spec => []RunInv
  BY InitInv, NextInv, PTL DEF Spec

\* In whatever order the follow-ups of the reports arrive, and whatever is
\* lost or repeated, the campaign's status follows its run, and a follow-up
\* never aborts because they contradict (transitionStatusIf in
\* complete-campaign-production-run.ts).
THEOREM CampaignFollowsItsRun == Spec => []CampaignFollowsRun
<1>1. RunInv => CampaignFollowsRun
  BY DEF RunInv
<1> QED
  BY <1>1, Invariance, PTL

\* What the director sees in review is the finished render of the latest
\* attempt, made for the approved revision: no late report brought the scene
\* there (submitProductionForQAIfRendering of progress-scene-production.ts).
THEOREM ReviewedAttemptsAreRendered == Spec => []ReviewedAttemptIsRendered
<1>1. RunInv => ReviewedAttemptIsRendered
  <2> SUFFICES ASSUME RunInv, NEW i \in SceneId, scene[i].status \in {"qa", "completed"}
               PROVE  LET n == scene[i].job
                      IN /\ n # None /\ n = row[i].job
                         /\ job[n].status = "completed" /\ job[n].scene = i
                         /\ job[n].revision = scene[i].approval
                         /\ job[n].ordinal = scene[i].ordinal
    BY DEF ReviewedAttemptIsRendered
  <2> QED
    BY Constants DEF RunInv, TypeOK, Attempt, Produced, InProduction, None
<1> QED
  BY <1>1, Invariance, PTL

\* An assembly is ordered only when every scene is accepted in the attempt
\* that the run has recorded, and nothing takes one of them back later
\* (enqueue-delivery-assembly-for-accepted-run.ts, ADR 0005).
THEOREM AssembliesAreAccepted == Spec => []OnlyAcceptedIsAssembled
<1>1. RunInv => OnlyAcceptedIsAssembled
  <2> SUFFICES ASSUME RunInv, assembly # "absent", NEW i \in SceneId
               PROVE  /\ scene[i].status = "completed" /\ scene[i].accepted = row[i].accepted
                      /\ row[i].accepted # None /\ row[i].accepted = row[i].job
                      /\ job[row[i].accepted].revision = scene[i].approval
    BY DEF OnlyAcceptedIsAssembled
  <2>1. scene[i].accepted # None /\ Attempt(i) /\ Acceptance(i)
    BY DEF RunInv, RunHasReason
  <2> QED
    BY <2>1 DEF Attempt, Acceptance, Produced
<1> QED
  BY <1>1, Invariance, PTL

\* The last acceptance of a run orders its assembly, unless an attempt of
\* the run has failed (attemptEnqueueAssemblyForAcceptedRun).
THEOREM AcceptedRunsAreAssembled == Spec => []AcceptedRunIsAssembled
<1>1. RunInv => AcceptedRunIsAssembled
  BY DEF RunInv
<1> QED
  BY <1>1, Invariance, PTL
-----------------------------------------------------------------------------
(* The failure of a run.                                                   *)

\* A failure that has found the row of its attempt finds it there, or a
\* command has come in between.
FoundIsCurrent ==
  \A c \in calls : c.kind = "fail" /\ c.step = 3 => Current(c.job) \/ c.job \in overtaken

\* Without a run nothing is in it.
RowsAreOfTheRun == run = "absent" => \A i \in SceneId : row[i].job = None

\* Requests of this step are those of the last one, one of them further.
LEMMA FoundStays ==
  ASSUME FoundIsCurrent, UNCHANGED <<row, overtaken>>,
         \A d \in calls' : d.kind = "fail" /\ d.step = 3 =>
                             \E c \in calls : c.kind = "fail" /\ c.step = 3 /\ c.job = d.job
  PROVE  FoundIsCurrent'
  BY DEF FoundIsCurrent, Current

\* A row that is given to another attempt is remembered.
LEMMA FoundIsOvertaken ==
  ASSUME RunInv, FoundIsCurrent, NEW i \in SceneId, NEW s, EnqueueAttempt(i, s), UNCHANGED calls
  PROVE  FoundIsCurrent'
<1>1. ASSUME NEW c \in calls, c.kind = "fail", c.step = 3, Current(c.job)
      PROVE  Current(c.job)' \/ c.job \in overtaken'
  <2>1. PICK k \in SceneId : row[k].job = c.job
    BY <1>1 DEF Current
  <2>2. CASE k = i
    BY <1>1, <2>1, <2>2 DEF EnqueueAttempt
  <2>3. CASE k # i
    <3>1. row'[k] = row[k]
      BY <2>3 DEF EnqueueAttempt, RunInv, TypeOK
    <3> QED
      BY <2>1, <3>1 DEF Current
  <2> QED
    BY <2>2, <2>3
<1>2. overtaken \subseteq overtaken'
  BY DEF EnqueueAttempt
<1> QED
  BY <1>1, <1>2 DEF FoundIsCurrent

LEMMA RowsStep ==
  ASSUME RunInv, RowsAreOfTheRun, [Next]_vars
  PROVE  RowsAreOfTheRun'
<1>1. SUFFICES ASSUME run' = "absent"
               PROVE  \A i \in SceneId : row'[i].job = None
  BY DEF RowsAreOfTheRun
<1>2. CASE Director
  <2>1. PICK i \in SceneId :
          \/ ApproveOne(i) \/ ApproveLast(i) \/ Reapprove(i) \/ Review(i) \/ Edit(i) \/ Reroll(i)
          \/ RejectQA(i) \/ Cancel(i)
          \/ \E n \in JobId : AcceptProduction(i, n) \/ RequestProductionRerender(i, n)
    BY <1>2 DEF Director
  <2>2. run = "absent"
    BY <1>1, <2>1
       DEF ApproveOne, ApproveLast, Reapprove, Review, Edit, Reroll, RejectQA, Cancel,
           AcceptProduction, AdmitAssembly, RequestProductionRerender
  <2>3. \A n \in JobId : ~Fenced(i, n)
    BY <2>2, Constants DEF RowsAreOfTheRun, Fenced, None
  <2>4. UNCHANGED row
    BY <1>1, <2>1, <2>2, <2>3
       DEF ApproveOne, ApproveLast, Reapprove, Review, Edit, Reroll, RejectQA, Cancel,
           AcceptProduction, RequestProductionRerender
  <2> QED
    BY <2>2, <2>4 DEF RowsAreOfTheRun
<1>3. CASE ~Director
  <2>1. UNCHANGED row
    BY <1>3
       DEF Next, Handle, vars, WorkerStep, StartJob, CompleteJob, FailJob, RetryJob, LeaseExpires,
           FinishAssembly, AskAgain, WorkerDies, SceneFollows, FindRunScene, RunFollows,
           AssemblyFollows, Reply, Lose
  <2>2. run = "absent"
    BY <1>1, <1>3
       DEF Next, Handle, vars, WorkerStep, StartJob, CompleteJob, FailJob, RetryJob, LeaseExpires,
           FinishAssembly, AskAgain, WorkerDies, SceneFollows, FindRunScene, RunFollows,
           CampaignStarts, ClaimForProductionReview, ClaimFailure, AssemblyFollows, Reply, Lose
  <2> QED
    BY <2>1, <2>2 DEF RowsAreOfTheRun
<1> QED
  BY <1>2, <1>3

LEMMA FoundStep ==
  ASSUME RunInv, RowsAreOfTheRun, FoundIsCurrent, [Next]_vars
  PROVE  FoundIsCurrent'
<1>1. CASE Director
  <2>1. PICK i \in SceneId :
          \/ ApproveOne(i) \/ ApproveLast(i) \/ Reapprove(i) \/ Review(i) \/ Edit(i) \/ Reroll(i)
          \/ RejectQA(i) \/ Cancel(i)
          \/ \E n \in JobId : AcceptProduction(i, n) \/ RequestProductionRerender(i, n)
    BY <1>1 DEF Director
  <2>2. CASE UNCHANGED <<row, calls, overtaken>>
    BY <2>2, FoundStays
  <2>3. CASE ApproveLast(i)
    <3>1. ASSUME NEW c \in calls, c.step = 3
          PROVE  ~Current(c.job)
      <4>1. c.job \in JobId
        BY <3>1 DEF RunInv, TypeOK, ReportsAreTrue, Call
      <4>2. \A k \in SceneId : row[k].job = None
        BY <2>3 DEF ApproveLast, RowsAreOfTheRun
      <4> QED
        BY <4>1, <4>2, Constants DEF Current, None
    <3> QED
      BY <2>3, <3>1 DEF ApproveLast, FoundIsCurrent
  <2>4. CASE Reapprove(i)
    BY <2>4, FoundIsOvertaken DEF Reapprove
  <2>5. CASE \E n \in JobId : RequestProductionRerender(i, n)
    BY <2>5, FoundIsOvertaken DEF RequestProductionRerender
  <2>6. CASE \E n \in JobId : AcceptProduction(i, n)
    <3>1. PICK n \in JobId : AcceptProduction(i, n)
      BY <2>6
    <3>2. row' = [row EXCEPT ![i].accepted = n] /\ UNCHANGED <<calls, overtaken>>
      BY <3>1 DEF AcceptProduction
    <3>3. \A k \in SceneId : row'[k].job = row[k].job
      BY <3>2 DEF RunInv, TypeOK
    <3> QED
      BY <3>2, <3>3 DEF FoundIsCurrent, Current
  <2> QED
    BY <2>1, <2>2, <2>3, <2>4, <2>5, <2>6
       DEF ApproveOne, Review, Edit, Reroll, RejectQA, Cancel
<1>2. ASSUME NEW n \in JobId \cup {Assembly}, NEW kind \in {"start", "complete", "fail"},
             Asks(n, kind), UNCHANGED <<row, overtaken>>
      PROVE  FoundIsCurrent'
  <2>1. \A d \in calls' : d.step = 3 => d \in calls
    BY <1>2 DEF Asks
  <2> QED
    BY <1>2, <2>1, FoundStays
<1>3. ASSUME NEW n \in JobId, calls' = Forsaken(n), UNCHANGED <<row, overtaken>>
      PROVE  FoundIsCurrent'
  <2>1. ASSUME NEW d \in calls', d.kind = "fail", d.step = 3
        PROVE  \E c \in calls : c.kind = "fail" /\ c.step = 3 /\ c.job = d.job
    <3>1. PICK c \in calls : d = IF c.job = n THEN [c EXCEPT !.heard = FALSE] ELSE c
      BY <1>3, <2>1 DEF Forsaken
    <3>2. c \in Call
      BY DEF RunInv, TypeOK
    <3> QED
      BY <2>1, <3>1, <3>2 DEF Call
  <2> QED
    BY <1>3, <2>1, FoundStays
<1>4. ASSUME NEW n \in JobId, WorkerStep(n) PROVE FoundIsCurrent'
  BY <1>2, <1>3, <1>4 DEF WorkerStep, StartJob, CompleteJob, FailJob, RetryJob, LeaseExpires
<1>5. ASSUME NEW outcome \in {"completed", "failed"}, FinishAssembly(outcome) PROVE FoundIsCurrent'
  BY <1>2, <1>5 DEF FinishAssembly
<1>6. ASSUME NEW n \in JobId \cup {Assembly}, AskAgain(n) PROVE FoundIsCurrent'
  <2>1. Busy[worker[n]] \in {"start", "complete", "fail"}
    BY <1>6 DEF AskAgain, Busy
  <2> QED
    BY <1>2, <1>6, <2>1 DEF AskAgain
<1>7. ASSUME calls' \subseteq calls, UNCHANGED <<row, overtaken>> PROVE FoundIsCurrent'
  BY <1>7, FoundStays
<1>8. ASSUME NEW c \in calls, NEW st \in {2, 4}, UNCHANGED <<row, overtaken>>,
             calls' = (calls \ {c}) \cup {[c EXCEPT !.step = st]}
      PROVE  FoundIsCurrent'
  <2> DEFINE d == [c EXCEPT !.step = st]
  <2>0. c \in Call
    BY DEF RunInv, TypeOK
  <2>1. d.step # 3 /\ calls' = (calls \ {c}) \cup {d}
    BY <1>8, <2>0 DEF Call
  <2> HIDE DEF d
  <2>2. \A e \in calls' : e.step = 3 => e \in calls
    BY <2>1
  <2> QED
    BY <1>8, <2>2, FoundStays
<1>9. ASSUME NEW c \in calls, FindRunScene(c) PROVE FoundIsCurrent'
  <2>1. c \in Call
    BY DEF RunInv, TypeOK
  <2>2. CASE Current(c.job)
    <3> DEFINE d == [c EXCEPT !.step = 3]
    <3>1. d.job = c.job /\ calls' = (calls \ {c}) \cup {d} /\ UNCHANGED <<row, overtaken>>
      BY <1>9, <2>1, <2>2 DEF FindRunScene, Call
    <3> HIDE DEF d
    <3> QED
      BY <2>2, <3>1 DEF FoundIsCurrent, Current
  <2>3. CASE ~Current(c.job)
    BY <1>8, <1>9, <2>3 DEF FindRunScene
  <2> QED
    BY <2>2, <2>3
<1>10. ASSUME NEW c \in calls, SceneFollows(c) \/ RunFollows(c) PROVE FoundIsCurrent'
  <2>1. PICK st \in {2, 4} : calls' = (calls \ {c}) \cup {[c EXCEPT !.step = st]}
    BY <1>10 DEF SceneFollows, RunFollows, Advance
  <2> QED
    BY <1>8, <1>10, <2>1 DEF SceneFollows, RunFollows
<1>11. ASSUME NEW c \in calls, AssemblyFollows(c) PROVE FoundIsCurrent'
  BY <1>8, <1>11 DEF AssemblyFollows
<1>12. ASSUME NEW c \in calls, Reply(c) \/ Lose(c) PROVE FoundIsCurrent'
  BY <1>7, <1>12 DEF Reply, Lose
<1>13. ASSUME NEW n \in JobId \cup {Assembly}, WorkerDies(n) PROVE FoundIsCurrent'
  BY <1>7, <1>13 DEF WorkerDies
<1>14. CASE UNCHANGED vars
  BY <1>7, <1>14 DEF vars
<1> QED
  BY <1>1, <1>4, <1>5, <1>6, <1>9, <1>10, <1>11, <1>12, <1>13, <1>14 DEF Next, Handle

\* The step that fails a run.
LEMMA FailingStep ==
  ASSUME RunInv, FoundIsCurrent, [Next]_vars, run # "failed", run' = "failed"
  PROVE  \/ assembly = "failed"
         \/ \E n \in JobId : job[n].status = "failed" /\ (Current(n) \/ n \in overtaken)
<1>1. ~Director
  BY DEF Director, ApproveOne, ApproveLast, Reapprove, Review, Edit, Reroll, RejectQA, Cancel,
         AcceptProduction, RequestProductionRerender, AdmitAssembly
<1>2. ASSUME NEW n \in JobId, WorkerStep(n) PROVE FALSE
  BY <1>2 DEF WorkerStep, StartJob, CompleteJob, FailJob, RetryJob, LeaseExpires
<1>3. ASSUME NEW outcome \in {"completed", "failed"}, FinishAssembly(outcome) PROVE FALSE
  BY <1>3 DEF FinishAssembly
<1>4. ASSUME NEW n \in JobId \cup {Assembly}, AskAgain(n) \/ WorkerDies(n) PROVE FALSE
  BY <1>4 DEF AskAgain, WorkerDies
<1>5. PICK c \in calls : RunFollows(c) \/ AssemblyFollows(c)
  BY <1>1, <1>2, <1>3, <1>4
     DEF Next, Handle, vars, SceneFollows, FindRunScene, Reply, Lose
<1>6. CASE RunFollows(c)
  <2>1. c.kind = "fail" /\ c.step = 3
    BY <1>6 DEF RunFollows, CampaignStarts, ClaimForProductionReview
  <2>2. c.job \in JobId /\ job[c.job].status = "failed"
    BY <2>1 DEF RunInv, TypeOK, ReportsAreTrue, Call
  <2> QED
    BY <2>1, <2>2 DEF FoundIsCurrent
<1>7. CASE AssemblyFollows(c)
  <2>1. c.kind # "complete" /\ c.job = Assembly
    BY <1>7 DEF AssemblyFollows
  <2> QED
    BY <2>1 DEF RunInv, ReportsAreTrue
<1> QED
  BY <1>5, <1>6, <1>7

\* A run fails only for its assembly or for a failed attempt that is its
\* scene's current one when it fails, or was when the follow-up looked and has
\* been replaced between its two queries (onProductionJobFailed of
\* complete-campaign-production-run.ts): no report of an attempt replaced
\* before that fails it, however late, whatever fails and whoever commands.
THEOREM RunsFailForCurrentAttempts == Spec => OnlyCurrentFailureFailsRun
<1>1. Init => RowsAreOfTheRun /\ FoundIsCurrent
  BY DEF Init, RowsAreOfTheRun, FoundIsCurrent
<1>2. RunInv /\ RowsAreOfTheRun /\ FoundIsCurrent /\ [Next]_vars
      => RowsAreOfTheRun' /\ FoundIsCurrent'
  BY RowsStep, FoundStep
<1>3. RunInv /\ FoundIsCurrent /\ [Next]_vars =>
        [run # "failed" /\ run' = "failed" =>
           \/ assembly = "failed"
           \/ \E n \in JobId : job[n].status = "failed" /\ (Current(n) \/ n \in overtaken)]_vars
  BY FailingStep
<1> QED
  BY <1>1, <1>2, <1>3, Invariance, PTL DEF Spec, OnlyCurrentFailureFailsRun
-----------------------------------------------------------------------------
\* What is accepted is out of everybody's reach: neither a report, however
\* late, nor a command changes the scene or its row any more.
AcceptanceIsFinal ==
  [][\A i \in SceneId : scene[i].accepted # None => scene'[i] = scene[i] /\ row'[i] = row[i]]_vars

LEMMA AcceptedStays ==
  ASSUME RunInv, [Next]_vars, NEW i \in SceneId, scene[i].accepted # None
  PROVE  scene'[i] = scene[i] /\ row'[i] = row[i]
<1>1. scene[i].status = "completed"
  BY DEF RunInv, Acceptance
<1>2. scene \in [SceneId -> SceneRecord]
      /\ row \in [SceneId -> RowRecord]
  BY DEF RunInv, TypeOK
<1>3. CASE Director
  <2>1. PICK k \in SceneId :
          \/ ApproveOne(k) \/ ApproveLast(k) \/ Reapprove(k) \/ Review(k) \/ Edit(k) \/ Reroll(k)
          \/ RejectQA(k) \/ Cancel(k)
          \/ \E n \in JobId : AcceptProduction(k, n) \/ RequestProductionRerender(k, n)
    BY <1>3 DEF Director
  <2>2. ~ApproveLast(k)
    BY <1>1 DEF ApproveLast, MayApprove, OthersApproved
  <2>3. k # i
    <3>1. ApproveOne(k) \/ Reapprove(k) \/ Review(k) => scene[k].status # "completed"
      BY DEF ApproveOne, Reapprove, MayApprove, Review, MaySubmitForReview, MaySelect
    <3>2. Edit(k) \/ Reroll(k) \/ RejectQA(k) \/ Cancel(k) => scene[k].status # "completed"
      BY DEF Edit, MayEdit, Reroll, MayReroll, RejectQA, InQA, Cancel, MayCancel, Terminal
    <3>3. \A n \in JobId : AcceptProduction(k, n) \/ RequestProductionRerender(k, n)
                             => scene[k].status # "completed"
      BY DEF AcceptProduction, MayAccept, RequestProductionRerender, InQA, Recoverable
    <3> QED
      BY <1>1, <2>1, <2>2, <3>1, <3>2, <3>3
  <2>4. /\ (\E t : scene' = [scene EXCEPT ![k] = t])
        /\ row' = row \/ (\E n : row' = [row EXCEPT ![k].accepted = n])
           \/ (\E n, r : row' = [row EXCEPT ![k].job = n, ![k].revision = r])
    BY <2>1, <2>2
       DEF ApproveOne, Reapprove, Review, Edit, Reroll, RejectQA, Cancel, AcceptProduction,
           RequestProductionRerender, EnqueueAttempt, Change
  <2> QED
    BY <1>2, <2>3, <2>4
<1>4. ASSUME NEW c \in calls, SceneFollows(c) PROVE scene'[i] = scene[i] /\ row'[i] = row[i]
  BY <1>1, <1>2, <1>4
     DEF SceneFollows, MoveScene, Change, MayStart, MaySubmitForQA, InProduction
<1>5. ASSUME UNCHANGED <<scene, row>> PROVE scene'[i] = scene[i] /\ row'[i] = row[i]
  BY <1>5
<1> QED
  BY <1>3, <1>4, <1>5
     DEF Next, Handle, vars, WorkerStep, StartJob, CompleteJob, FailJob, RetryJob, LeaseExpires,
         FinishAssembly, AskAgain, WorkerDies, FindRunScene, RunFollows, AssemblyFollows, Reply,
         Lose

\* An accepted scene stays as it was accepted (acceptProduction of
\* production-review.ts; ADR 0005).
THEOREM AcceptedScenesStay == Spec => AcceptanceIsFinal
<1>1. RunInv /\ [Next]_vars =>
        [\A i \in SceneId :
           scene[i].accepted # None => scene'[i] = scene[i] /\ row'[i] = row[i]]_vars
  BY AcceptedStays
<1> QED
  BY <1>1, Invariance, PTL DEF Spec, AcceptanceIsFinal
-----------------------------------------------------------------------------
(* The attempts, for good: what every step leaves of jobs and ordinals.    *)

LEMMA OrdinalStays ==
  ASSUME NEW s \in SceneRecord
  PROVE  /\ Edited(s).ordinal = s.ordinal /\ Rerolled(s).ordinal = s.ordinal
         /\ BackInReview(s).ordinal = s.ordinal /\ Cancelled(s).ordinal = s.ordinal
<1>1. \A to \in Status : MovedTo(s, to) \in SceneRecord /\ MovedTo(s, to).ordinal = s.ordinal
  BY MoveOfScene DEF SameWork
<1>2. Edited(s).ordinal = s.ordinal
  BY DEF Edited, WithoutSelection, WithoutApprovedPlan, SceneRecord
<1>3. Rerolled(s).ordinal = s.ordinal
  BY <1>1 DEF Rerolled, WithoutSelection, WithoutApprovedPlan, SceneRecord, Status
<1>4. BackInReview(s).ordinal = s.ordinal
  BY <1>1 DEF BackInReview, WithoutApproval, WithoutApprovedPlan, SceneRecord, Status
<1>5. Cancelled(s).ordinal = s.ordinal
  BY <1>1 DEF Cancelled, SceneRecord, Status, Terminal
<1> QED
  BY <1>2, <1>3, <1>4, <1>5

\* What may become of the attempts and of the counters of the scenes.
NewAttempt(n) ==
  LET i == job'[n].scene
  IN /\ i \in SceneId
     /\ job'[n].ordinal = scene[i].ordinal + 1 /\ scene'[i].ordinal = scene[i].ordinal + 1

AttemptsGrow ==
  /\ JobsGoOn
  /\ \A i \in SceneId : scene'[i].ordinal >= scene[i].ordinal
  /\ \A n \in issued + 1..issued' : NewAttempt(n)
  /\ \A m, n \in issued + 1..issued' : m # n => job'[m].scene # job'[n].scene

\* No new attempt.
LEMMA NothingGrows ==
  ASSUME RunInv, JobsGoOn, issued' = issued,
         \A i \in SceneId : scene'[i].ordinal = scene[i].ordinal
  PROVE  AttemptsGrow
<1>1. issued \in Nat /\ issued + 1..issued' = {}
  BY Constants DEF RunInv, TypeOK
<1>2. \A i \in SceneId : scene[i].ordinal \in Nat
  BY DEF RunInv, TypeOK, SceneRecord
<1> QED
  BY <1>1, <1>2 DEF AttemptsGrow

\* One scene is changed, its counter is not.
LEMMA OneSceneMoves ==
  ASSUME RunInv, NEW i \in SceneId, NEW t, t.ordinal = scene[i].ordinal,
         scene' = [scene EXCEPT ![i] = t], UNCHANGED <<job, issued>>
  PROVE  AttemptsGrow
<1>1. scene \in [SceneId -> SceneRecord]
  BY DEF RunInv, TypeOK
<1>2. \A k \in SceneId : scene'[k].ordinal = scene[k].ordinal
  BY <1>1
<1> QED
  BY <1>2, JobsStay, NothingGrows DEF RunInv

LEMMA OneAttemptMore ==
  ASSUME RunInv, NEW i \in SceneId, NEW s \in SceneRecord, SameWork(scene[i], s),
         EnqueueAttempt(i, s)
  PROVE  AttemptsGrow
<1> DEFINE n == issued + 1
           t == Queued(s, n)
<1>1. /\ issued \in Nat /\ n \in JobId /\ n \in Nat /\ issued' = n /\ n \in issued..MaxJobs
      /\ issued + 1..issued' = {n}
  BY Constants DEF RunInv, TypeOK, EnqueueAttempt
<1>2. t.ordinal = scene[i].ordinal + 1
  BY <1>1, AttemptOfScene DEF SameWork
<1>3. scene' = [scene EXCEPT ![i] = t] /\ job' = [job EXCEPT ![n] = NewJob(i)]
  BY DEF EnqueueAttempt, Change
<1> HIDE DEF t
<1>4. /\ scene'[i] = t /\ \A k \in SceneId \ {i} : scene'[k] = scene[k]
      /\ \A k \in SceneId : scene[k].ordinal \in Nat
  BY <1>3 DEF RunInv, TypeOK, SceneRecord
<1>5. job'[n] = NewJob(i) /\ \A m \in JobId \ {n} : job'[m] = job[m]
  BY <1>1, <1>3 DEF RunInv, TypeOK
<1>6. NewJob(i).scene = i /\ NewJob(i).ordinal = scene[i].ordinal + 1
  BY DEF NewJob
<1>7. NewAttempt(n)
  BY <1>2, <1>4, <1>5, <1>6 DEF NewAttempt
<1>8. JobsGoOn
  <2>1. \A m \in 1..issued : m \in JobId \ {n}
    BY <1>1, Constants
  <2> QED
    BY <1>1, <1>5, <2>1 DEF JobsGoOn
<1>9. \A k \in SceneId : scene'[k].ordinal >= scene[k].ordinal
  <2> HIDE DEF n
  <2>1. ASSUME NEW k \in SceneId PROVE scene'[k].ordinal >= scene[k].ordinal
    BY <1>2, <1>4
  <2> QED
    BY <2>1
<1> HIDE DEF n
<1> QED
  BY <1>1, <1>7, <1>8, <1>9 DEF AttemptsGrow

LEMMA OneAttemptEach ==
  ASSUME RunInv, NEW i \in SceneId, ApproveLast(i)
  PROVE  AttemptsGrow
<1> DEFINE s(k) == IF k = i THEN Approved(scene[k]) ELSE scene[k]
<1>1. /\ issued \in Nat /\ issued' = issued + NumScenes /\ issued' \in issued..MaxJobs
      /\ \A n \in issued + 1..issued' : n \in JobId /\ n - issued \in SceneId
      /\ \A n \in 1..issued : n \in JobId /\ n - issued \notin SceneId
      /\ \A k \in SceneId : issued + k \in Nat
  <2>1. /\ issued \in Nat /\ NumScenes \in Nat /\ MaxJobs \in Nat
        /\ JobId = 1..MaxJobs /\ SceneId = 1..NumScenes
    BY Constants DEF RunInv, TypeOK
  <2>2. issued' = issued + NumScenes /\ issued + NumScenes <= MaxJobs
    BY DEF ApproveLast
  <2> QED
    BY <2>1, <2>2
<1>2. ASSUME NEW k \in SceneId
      PROVE  s(k) \in SceneRecord /\ s(k).ordinal = scene[k].ordinal
  BY ApprovalOfScene DEF RunInv, TypeOK, SameWork
<1>3. ASSUME NEW k \in SceneId
      PROVE  Queued(s(k), issued + k).ordinal = scene[k].ordinal + 1
  <2> HIDE DEF s
  <2>1. s(k) \in SceneRecord /\ s(k).ordinal = scene[k].ordinal /\ issued + k \in Nat
    BY <1>1, <1>2
  <2>2. Queued(s(k), issued + k).ordinal = s(k).ordinal + 1
    BY <2>1, AttemptOfScene
  <2> QED
    BY <2>1, <2>2
<1>4. /\ scene' = [k \in SceneId |-> Queued(s(k), issued + k)]
      /\ job' = [n \in JobId |-> IF n - issued \in SceneId THEN NewJob(n - issued) ELSE job[n]]
  BY DEF ApproveLast
<1> HIDE DEF s
<1>5. ASSUME NEW k \in SceneId
      PROVE  scene'[k].ordinal = scene[k].ordinal + 1 /\ scene[k].ordinal \in Nat
  BY <1>3, <1>4 DEF RunInv, TypeOK, SceneRecord
<1>6. ASSUME NEW n \in issued + 1..issued'
      PROVE  job'[n].scene = n - issued /\ NewAttempt(n)
  BY <1>1, <1>4, <1>5 DEF NewAttempt, NewJob
<1>7. JobsGoOn
  BY <1>1, <1>4 DEF JobsGoOn
<1>8. \A k \in SceneId : scene'[k].ordinal >= scene[k].ordinal
  BY <1>5
<1>9. \A m, n \in issued + 1..issued' : m # n => job'[m].scene # job'[n].scene
  BY <1>1, <1>6
<1> QED
  BY <1>6, <1>7, <1>8, <1>9 DEF AttemptsGrow

LEMMA GrowingByCommand ==
  ASSUME RunInv, Director
  PROVE  AttemptsGrow
<1>1. PICK i \in SceneId :
        \/ ApproveOne(i) \/ ApproveLast(i) \/ Reapprove(i) \/ Review(i) \/ Edit(i) \/ Reroll(i)
        \/ RejectQA(i) \/ Cancel(i)
        \/ \E n \in JobId : AcceptProduction(i, n) \/ RequestProductionRerender(i, n)
  BY DEF Director
<1> DEFINE s == scene[i]
<1>2. s \in SceneRecord /\ scene \in [SceneId -> SceneRecord]
  BY DEF RunInv, TypeOK
<1>3. ASSUME NEW t, t.ordinal = s.ordinal, Change(i, t), UNCHANGED <<job, issued>>
      PROVE  AttemptsGrow
  BY <1>3, OneSceneMoves DEF Change
<1> HIDE DEF s
<1>4. CASE ApproveOne(i)
  <2>1. Approved(s).ordinal = s.ordinal
    BY <1>2, ApprovalOfScene DEF SameWork
  <2> QED
    BY <1>3, <1>4, <2>1 DEF ApproveOne, s
<1>5. CASE Review(i)
  <2>1. SubmittedForReview(s).ordinal = s.ordinal /\ CandidateSelected(s, s.revision).ordinal = s.ordinal
    BY <1>2, ReviewOfScene DEF SameWork
  <2> QED
    BY <1>3, <1>5, <2>1 DEF Review, s
<1>6. CASE Edit(i) \/ Reroll(i) \/ RejectQA(i) \/ Cancel(i)
  BY <1>2, <1>3, <1>6, OrdinalStays DEF Edit, Reroll, RejectQA, Cancel, s
<1>7. CASE Reapprove(i)
  BY <1>2, <1>7, ApprovalOfScene, OneAttemptMore DEF Reapprove, s
<1>8. ASSUME NEW n \in JobId, RequestProductionRerender(i, n) PROVE AttemptsGrow
  <2>1. SameWork(s, s)
    BY DEF SameWork
  <2> QED
    BY <1>2, <1>8, <2>1, OneAttemptMore DEF RequestProductionRerender, s
<1>9. ASSUME NEW n \in JobId, AcceptProduction(i, n) PROVE AttemptsGrow
  <2>1. Accepted(s, n).ordinal = s.ordinal
    BY <1>2, Constants, AcceptanceOfScene
  <2> QED
    BY <1>3, <1>9, <2>1 DEF AcceptProduction, s
<1> QED
  BY <1>1, <1>4, <1>5, <1>6, <1>7, <1>8, <1>9, OneAttemptEach

LEMMA GrowingByReport ==
  ASSUME RunInv, NEW c \in calls, SceneFollows(c)
  PROVE  AttemptsGrow
<1> DEFINE i == job[c.job].scene
           s == scene[i]
<1>1. i \in SceneId /\ s \in SceneRecord
  BY Constants DEF SceneFollows, RunInv, TypeOK, ReportsAreTrue, JobsIssued, Call
<1>2. /\ MovedTo(s, "rendering").ordinal = s.ordinal /\ MovedTo(s, "qa").ordinal = s.ordinal
      /\ Failed(s).ordinal = s.ordinal
  BY <1>1, MoveOfScene, FailureOfScene DEF SameWork, Status, InProduction
<1>3. /\ UNCHANGED <<job, issued>>
      /\ UNCHANGED scene \/ \E t : t.ordinal = s.ordinal /\ scene' = [scene EXCEPT ![i] = t]
  BY <1>2 DEF SceneFollows, MoveScene, Change
<1>4. CASE UNCHANGED scene
  BY <1>3, <1>4, JobsStay, NothingGrows DEF RunInv
<1> QED
  BY <1>1, <1>3, <1>4, OneSceneMoves

LEMMA GrowingByWorker ==
  ASSUME RunInv, NEW n \in JobId, WorkerStep(n)
  PROVE  AttemptsGrow
<1>1. UNCHANGED <<scene, issued>>
  BY DEF WorkerStep, StartJob, CompleteJob, FailJob, RetryJob, LeaseExpires
<1>2. job[n].status \in {"queued", "rendering"}
  BY DEF RunInv, WorkersFit, WorkerStep, StartJob, CompleteJob, FailJob, RetryJob, LeaseExpires
<1>3. PICK st \in {"queued", "rendering"} \cup Settled : job' = [job EXCEPT ![n].status = st]
  BY DEF WorkerStep, StartJob, CompleteJob, FailJob, RetryJob, LeaseExpires, Settled
<1>4. JobsGoOn
  BY <1>1, <1>2, <1>3, JobMoves DEF RunInv
<1> QED
  BY <1>1, <1>4, NothingGrows

LEMMA Growing ==
  ASSUME RunInv, [Next]_vars
  PROVE  AttemptsGrow
<1>1. ASSUME UNCHANGED <<scene, job, issued>> PROVE AttemptsGrow
  BY <1>1, JobsStay, NothingGrows DEF RunInv
<1> QED
  BY <1>1, GrowingByCommand, GrowingByReport, GrowingByWorker
     DEF Next, Handle, vars, FinishAssembly, AskAgain, WorkerDies, FindRunScene, RunFollows,
         AssemblyFollows, Reply, Lose

\* Whatever happens to a run, an attempt that is recorded keeps its scene, its
\* revision and its number, and a job that has completed or failed stays so:
\* rerenders, reports, retries and sweeps add attempts and never rewrite one
\* (production_attempts is granted SELECT and INSERT only, migration 015).
AttemptsArePermanent == [][JobsGoOn]_vars

THEOREM RecordedAttemptsStay == Spec => AttemptsArePermanent
<1>1. RunInv /\ [Next]_vars => [JobsGoOn]_vars
  BY Growing DEF AttemptsGrow
<1> QED
  BY <1>1, Invariance, PTL DEF Spec, AttemptsArePermanent

\* The attempts of a scene are numbered in the order in which they were made,
\* and its counter is past none of them.
AttemptsNumbered ==
  \A n \in 1..issued :
    /\ job[n].ordinal <= scene[job[n].scene].ordinal
    /\ \A m \in 1..issued : m < n /\ job[m].scene = job[n].scene => job[m].ordinal < job[n].ordinal

LEMMA NumberedStep ==
  ASSUME RunInv, RunInv', AttemptsNumbered, AttemptsGrow
  PROVE  AttemptsNumbered'
<1>1. /\ issued \in Nat /\ issued' \in Nat /\ issued <= issued'
      /\ \A n \in 1..issued : /\ job'[n].scene = job[n].scene /\ job[n].scene \in SceneId
                              /\ job'[n].ordinal = job[n].ordinal /\ job[n].ordinal \in Nat
      /\ \A i \in SceneId : scene[i].ordinal \in Nat /\ scene'[i].ordinal \in Nat
  <2>1. \A n \in 1..issued : n \in JobId
    BY Constants DEF RunInv, TypeOK
  <2>2. issued \in Nat /\ issued' \in Nat /\ issued <= issued'
    BY Constants DEF RunInv, TypeOK, AttemptsGrow, JobsGoOn
  <2>3. \A n \in 1..issued : /\ job'[n].scene = job[n].scene /\ job[n].scene \in SceneId
                            /\ job'[n].ordinal = job[n].ordinal /\ job[n].ordinal \in Nat
    BY <2>1, <2>2 DEF RunInv, TypeOK, JobsIssued, AttemptsGrow, JobsGoOn
  <2>4. \A i \in SceneId : scene[i].ordinal \in Nat /\ scene'[i].ordinal \in Nat
    BY DEF RunInv, TypeOK, SceneRecord
  <2> QED
    BY <2>2, <2>3, <2>4
<1>2. ASSUME NEW n \in 1..issued', n \notin 1..issued
      PROVE  n \in issued + 1..issued' /\ NewAttempt(n)
  BY <1>1, <1>2 DEF AttemptsGrow
<1>3. ASSUME NEW n \in 1..issued'
      PROVE  job'[n].ordinal <= scene'[job'[n].scene].ordinal
  <2>1. CASE n \in 1..issued
    <3> DEFINE i == job[n].scene
    <3>1. i \in SceneId /\ job'[n].scene = i /\ job'[n].ordinal = job[n].ordinal
      BY <1>1, <2>1
    <3>2. job[n].ordinal <= scene[i].ordinal /\ scene[i].ordinal <= scene'[i].ordinal
      BY <2>1, <3>1 DEF AttemptsNumbered, AttemptsGrow
    <3>3. scene'[i].ordinal \in Nat /\ scene[i].ordinal \in Nat /\ job[n].ordinal \in Nat
      BY <1>1, <2>1, <3>1
    <3> QED
      BY <3>1, <3>2, <3>3
  <2>2. CASE n \notin 1..issued
    BY <1>1, <1>2, <2>2 DEF NewAttempt
  <2> QED
    BY <2>1, <2>2
<1>4. ASSUME NEW n \in 1..issued', NEW m \in 1..issued', m < n, job'[m].scene = job'[n].scene
      PROVE  job'[m].ordinal < job'[n].ordinal
  <2>1. CASE n \in 1..issued
    <3>1. m \in 1..issued
      BY <1>1, <1>4, <2>1
    <3> QED
      BY <1>1, <1>4, <2>1, <3>1 DEF AttemptsNumbered
  <2>2. CASE n \notin 1..issued /\ m \in 1..issued
    <3>1. job[m].ordinal <= scene[job[m].scene].ordinal
      BY <2>2 DEF AttemptsNumbered
    <3>2. job'[n].ordinal = scene[job[m].scene].ordinal + 1
      BY <1>1, <1>2, <1>4, <2>2 DEF NewAttempt
    <3> QED
      BY <1>1, <2>2, <3>1, <3>2
  <2>3. CASE n \notin 1..issued /\ m \notin 1..issued
    BY <1>2, <1>4, <2>3 DEF AttemptsGrow
  <2> QED
    BY <2>1, <2>2, <2>3
<1> QED
  BY <1>3, <1>4 DEF AttemptsNumbered

\* No two attempts of a scene have the same number, whichever command made
\* them, and the scene's counter is the number of its last: the constraint
\* UNIQUE (scene_id, ordinal) of production_attempts never stops a command.
THEOREM AttemptsAreNumbered == Spec => []AttemptsNumbered
<1>1. Init => AttemptsNumbered
  BY DEF Init, AttemptsNumbered
<1>2. RunInv /\ AttemptsNumbered /\ [Next]_vars => AttemptsNumbered'
  BY Growing, NextInv, NumberedStep
<1> QED
  BY <1>1, <1>2, Invariance, PTL DEF Spec
-----------------------------------------------------------------------------
\* Once the assembly is ordered, its inputs are settled: no scene, no row of
\* the run and no number of attempts changes any more, and the assembly ends
\* once.
AssemblyIsSettled ==
  [][assembly # "absent" =>
       /\ UNCHANGED <<scene, row, issued>>
       /\ assembly' = assembly \/ (assembly = "queued" /\ assembly' \in Settled)]_vars

LEMMA SettledStays ==
  ASSUME RunInv, [Next]_vars, assembly # "absent"
  PROVE  /\ UNCHANGED <<scene, row, issued>>
         /\ assembly' = assembly \/ (assembly = "queued" /\ assembly' \in Settled)
<1>1. \A i \in SceneId : scene[i].accepted # None /\ scene[i].status = "completed"
  BY DEF RunInv, RunHasReason, Acceptance
<1>2. ~Director
  <2> SUFFICES ASSUME NEW i \in SceneId
               PROVE  /\ ~ApproveOne(i) /\ ~ApproveLast(i) /\ ~Reapprove(i) /\ ~Review(i)
                      /\ ~Edit(i) /\ ~Reroll(i) /\ ~RejectQA(i) /\ ~Cancel(i)
                      /\ \A n \in JobId : ~AcceptProduction(i, n) /\ ~RequestProductionRerender(i, n)
    BY DEF Director
  <2>1. ~ApproveOne(i) /\ ~ApproveLast(i) /\ ~Reapprove(i) /\ ~Review(i)
    BY <1>1 DEF ApproveOne, ApproveLast, Reapprove, MayApprove, Review, MaySubmitForReview, MaySelect
  <2>2. ~Edit(i) /\ ~Reroll(i) /\ ~RejectQA(i) /\ ~Cancel(i)
    BY <1>1 DEF Edit, MayEdit, Reroll, MayReroll, RejectQA, InQA, Cancel, MayCancel, Terminal
  <2>3. \A n \in JobId : ~AcceptProduction(i, n) /\ ~RequestProductionRerender(i, n)
    BY <1>1 DEF AcceptProduction, MayAccept, RequestProductionRerender, InQA, Recoverable
  <2> QED
    BY <2>1, <2>2, <2>3
<1>3. ASSUME NEW c \in calls, SceneFollows(c)
      PROVE  UNCHANGED <<scene, row, issued, assembly>>
  <2>1. job[c.job].scene \in SceneId
    BY <1>3, Constants DEF SceneFollows, RunInv, TypeOK, ReportsAreTrue, JobsIssued, Call
  <2> QED
    BY <1>1, <1>3, <2>1
       DEF SceneFollows, MoveScene, MayStart, MaySubmitForQA, InProduction
<1>4. ASSUME NEW outcome \in {"completed", "failed"}, FinishAssembly(outcome)
      PROVE  UNCHANGED <<scene, row, issued>> /\ assembly = "queued" /\ assembly' \in Settled
  BY <1>4 DEF FinishAssembly, Settled
<1> QED
  BY <1>2, <1>3, <1>4
     DEF Next, Handle, vars, WorkerStep, StartJob, CompleteJob, FailJob, RetryJob, LeaseExpires,
         AskAgain, WorkerDies, FindRunScene, RunFollows, AssemblyFollows, Reply, Lose

\* The order of an assembly settles what it is made of, whoever reports,
\* rerenders or edits afterwards, and is given once
\* (enqueue-delivery-assembly-for-accepted-run.ts, ADR 0005).
THEOREM AssembliesAreSettled == Spec => AssemblyIsSettled
<1>1. RunInv /\ [Next]_vars =>
        [assembly # "absent" =>
           /\ UNCHANGED <<scene, row, issued>>
           /\ assembly' = assembly \/ (assembly = "queued" /\ assembly' \in Settled)]_vars
  BY SettledStays
<1> QED
  BY <1>1, Invariance, PTL DEF Spec, AssemblyIsSettled

\* A run that has completed, and its campaign, stay so.
CompletionIsFinal == [][run = "completed" => run' = "completed" /\ campaign' = "completed"]_vars

LEMMA CompletedStays ==
  ASSUME RunInv, [Next]_vars, run = "completed"
  PROVE  run' = "completed" /\ campaign' = "completed"
<1>1. campaign = "completed"
  BY DEF RunInv, CampaignFollowsRun
<1>2. CASE Director
  BY <1>1, <1>2
     DEF Director, ApproveOne, ApproveLast, Reapprove, Review, Edit, Reroll, RejectQA, Cancel,
         AcceptProduction, AdmitAssembly, RequestProductionRerender
<1>3. ASSUME NEW c \in calls, RunFollows(c) PROVE run' = "completed" /\ campaign' = "completed"
  BY <1>1, <1>3 DEF RunFollows, CampaignStarts, ClaimForProductionReview, ClaimFailure
<1>4. ASSUME NEW c \in calls, AssemblyFollows(c) PROVE run' = "completed" /\ campaign' = "completed"
  BY <1>1, <1>4 DEF AssemblyFollows
<1>5. ASSUME UNCHANGED <<run, campaign>> PROVE run' = "completed" /\ campaign' = "completed"
  BY <1>1, <1>5
<1> QED
  BY <1>2, <1>3, <1>4, <1>5
     DEF Next, Handle, vars, WorkerStep, StartJob, CompleteJob, FailJob, RetryJob, LeaseExpires,
         FinishAssembly, AskAgain, WorkerDies, SceneFollows, FindRunScene, Reply, Lose

\* No late report of a failure, and no claim of a review, takes a completed
\* run or its campaign back (claimCompletion, claimFailure).
THEOREM CompletedRunsStay == Spec => CompletionIsFinal
<1>1. RunInv /\ [Next]_vars =>
        [run = "completed" => run' = "completed" /\ campaign' = "completed"]_vars
  BY CompletedStays
<1> QED
  BY <1>1, Invariance, PTL DEF Spec, CompletionIsFinal

\* Each scene in production is there under its present approval, with the
\* attempt that the run has for it; scene and run agree on what is accepted
\* (enqueue-scene-production-render.ts, acceptProduction of production-review.ts).
THEOREM ScenesNameTheirAttempts == Spec => [](\A i \in SceneId : Attempt(i) /\ Acceptance(i))
<1>1. RunInv => \A i \in SceneId : Attempt(i) /\ Acceptance(i)
  BY DEF RunInv
<1> QED
  BY <1>1, Invariance, PTL

\* Every variable keeps its type, in every reachable state.
THEOREM RunTypeCorrect == Spec => []TypeOK
<1>1. RunInv => TypeOK
  BY DEF RunInv
<1> QED
  BY <1>1, Invariance, PTL
=============================================================================
