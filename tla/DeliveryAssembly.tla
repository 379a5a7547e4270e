--------------------------- MODULE DeliveryAssembly ---------------------------
(***************************************************************************)
(* The assembly of the reel of one accepted production run: the durable    *)
(* row of the job, the workers that claim it and report it over HTTP, the  *)
(* routes of the control API, which follow a report up on the run in a     *)
(* transaction of its own, and the publication of manifest and video in    *)
(* object storage, neither of which is fenced by the lease.                *)
(*                                                                         *)
(* A worker that lost its lease goes on until it looks; a call may be      *)
(* lost on its way there or back, or be carried out after its caller has   *)
(* given it up; workers crash and come back with another toolchain.  The   *)
(* reel, and the manifest of it, are named by the toolchain (the ffmpeg    *)
(* build and the revision of the licence registry) that they come from:    *)
(* one toolchain makes the same bytes of one specification every time.     *)
(*                                                                         *)
(* Left out: the staged copy of a video, which has a key of its own in     *)
(* every attempt; other jobs, which share nothing with this one; defer,    *)
(* which no caller uses.  A late start or heartbeat does what a timely one *)
(* of the same lease does.                                                 *)
(*                                                                         *)
(* Bounds: MaxRetries, Toolchain, and MaxLost follow-ups that fail.        *)
(***************************************************************************)
EXTENDS Naturals, FiniteSets

CONSTANTS Worker, Toolchain, MaxRetries, MaxLost

None == 0

ASSUME AssemblyConstants ==
  /\ MaxRetries \in Nat /\ MaxLost \in Nat
  /\ Toolchain \subseteq Nat \ {None} /\ Toolchain # {}

VARIABLES
  job,        \* the row of the job
  run,        \* the status of the production run
  attempt,    \* attempt[w]: what worker w is doing, and under which lease
  late,       \* reports that their callers have given up, still under way
  owed,       \* reports committed to the row, not yet followed up
  lost,       \* how many follow-ups have failed
  manifest,   \* the toolchain of the published manifest, None before that
  video       \* and of the video at the delivery key

vars == <<job, run, attempt, late, owed, lost, manifest, video>>
row == <<job, run, late, owed, lost>>
storage == <<manifest, video>>

Active == {"leased", "rendering"}
Terminal == {"completed", "failed"}
Report == {"complete", "fail"}

Job == [status : {"absent", "queued"} \cup Active \cup Terminal,
        token : Nat, live : BOOLEAN, retries : 0..MaxRetries]

\* Under way in the assembly, where nothing but the storage is looked at.
Assembling == {"looking", "encoding", "publishing", "committing"}

Attempt ==
  [pc : {"idle", "starting", "assembled", "asking", "served", "unsure"} \cup Assembling,
   token : Nat, fenced : BOOLEAN, reel : Toolchain \cup {None}, report : Report \cup {"none"}]

NoAttempt ==
  [pc |-> "idle", token |-> None, fenced |-> FALSE, reel |-> None, report |-> "none"]

Init ==
  /\ job = [status |-> "absent", token |-> None, live |-> FALSE, retries |-> 0]
  /\ run = "production_review"
  /\ attempt = [w \in Worker |-> NoAttempt]
  /\ late = {}
  /\ owed = {}
  /\ lost = 0
  /\ manifest = None
  /\ video = None

Goes(w, pc) == attempt' = [attempt EXCEPT ![w].pc = pc]
Drops(w) == attempt' = [attempt EXCEPT ![w] = NoAttempt]

\* The answer ends the attempt of w, or is lost on its way back.
Dismissed(w) == Drops(w) \/ Goes(w, "unsure")
-----------------------------------------------------------------------------
(* The row: admission, claims, the lease.                                  *)

\* The acceptance of the last scene claims the run and writes the job.
Enqueue ==
  /\ job.status = "absent"
  /\ job' = [job EXCEPT !.status = "queued"]
  /\ run' = "assembling"
  /\ UNCHANGED <<attempt, late, owed, lost, manifest, video>>

ExhaustedLater == job.status \in Active /\ ~job.live /\ job.retries > MaxRetries

Exhausted == job.status \in Active /\ ~job.live /\ job.retries >= MaxRetries

\* The first statement of every claim; nothing follows it up.
Sweep ==
  /\ Exhausted
  /\ job' = [job EXCEPT !.status = "failed"]
  /\ UNCHANGED <<run, attempt, late, owed, lost, manifest, video>>

ClaimableUnexpired ==
  \/ job.status = "queued"
  \/ job.status \in Active /\ job.retries < MaxRetries

Claimable ==
  \/ job.status = "queued"
  \/ job.status \in Active /\ ~job.live /\ job.retries < MaxRetries

Leased ==
  [status |-> "leased", token |-> job.token + 1, live |-> TRUE,
   retries |-> IF job.status \in Active THEN job.retries + 1 ELSE job.retries]

\* The answer may be lost: then nobody works under the new lease.
Claim(w) ==
  /\ attempt[w].pc = "idle" /\ Claimable
  /\ job' = Leased
  /\ \/ attempt' = [attempt EXCEPT ![w] = [NoAttempt EXCEPT !.pc = "starting",
                                                           !.token = job.token + 1]]
     \/ UNCHANGED attempt
  /\ UNCHANGED <<run, late, owed, lost, manifest, video>>

LeaseExpires ==
  /\ job.status \in Active /\ job.live
  /\ job' = [job EXCEPT !.live = FALSE]
  /\ UNCHANGED <<run, attempt, late, owed, lost, manifest, video>>

Owns(t, statuses) == job.token = t /\ job.status \in statuses

\* Repeated until it is answered; the lease is not looked at meanwhile.
Start(w) ==
  /\ attempt[w].pc = "starting"
  /\ IF Owns(attempt[w].token, Active)
     THEN /\ job' = [job EXCEPT !.status = "rendering"]
          /\ Goes(w, "looking") \/ UNCHANGED attempt
     ELSE UNCHANGED job /\ Drops(w)
  /\ UNCHANGED <<run, late, owed, lost, manifest, video>>

Beating == Assembling \cup {"assembled", "asking", "served", "unsure"}

\* A heartbeat renews a lease that has expired as well, until it is taken.
Heartbeat(w) ==
  /\ attempt[w].pc \in Beating /\ ~attempt[w].fenced
  /\ IF Owns(attempt[w].token, Active)
     THEN job' = [job EXCEPT !.live = TRUE] /\ UNCHANGED attempt
     ELSE UNCHANGED job /\ attempt' = [attempt EXCEPT ![w].fenced = TRUE]
  /\ UNCHANGED <<run, late, owed, lost, manifest, video>>

\* By its own clock, which has missed the renewals whose answers were lost.
ClockFences(w) ==
  /\ attempt[w].pc \in Beating /\ ~attempt[w].fenced
  /\ attempt' = [attempt EXCEPT ![w].fenced = TRUE]
  /\ UNCHANGED <<row, storage>>

Crash(w) ==
  /\ attempt[w].pc # "idle"
  /\ Drops(w)
  /\ UNCHANGED <<row, storage>>
-----------------------------------------------------------------------------
(* The assembly.                                                           *)

\* The reel of w is of no more interest then.
Assembled(w, report) ==
  attempt' = [attempt EXCEPT ![w].pc = "assembled", ![w].report = report, ![w].reel = None]

LookAtManifest(w) ==
  /\ attempt[w].pc = "looking"
  /\ \/ manifest # None /\ Assembled(w, "complete")
     \/ Goes(w, "encoding")
  /\ UNCHANGED <<row, storage>>

\* A reel that is complete is not made again; an error here is ignored.
Look(w) ==
  /\ attempt[w].pc = "looking"
  /\ \/ manifest # None /\ video = manifest /\ Assembled(w, "complete")
     \/ Goes(w, "encoding")
  /\ UNCHANGED <<row, storage>>

\* With the toolchain that w was last started with.
Encode(w) ==
  /\ attempt[w].pc = "encoding"
  /\ \E t \in Toolchain :
       attempt' = [attempt EXCEPT ![w].pc = "publishing", ![w].reel = t]
  /\ UNCHANGED <<row, storage>>

PublishUnlessThere(w) ==
  /\ attempt[w].pc = "publishing"
  /\ manifest' = (IF manifest = None THEN attempt[w].reel ELSE manifest)
  /\ Goes(w, "committing") \/ Assembled(w, "fail")
  /\ UNCHANGED <<row, video>>

\* Written unless there is one, which must then come from the same toolchain.
Publish(w) ==
  /\ attempt[w].pc = "publishing"
  /\ IF manifest \in {None, attempt[w].reel}
     THEN /\ manifest' = attempt[w].reel
          /\ Goes(w, "committing") \/ Assembled(w, "fail")
     ELSE UNCHANGED manifest /\ Assembled(w, "fail")
  /\ UNCHANGED <<row, video>>

\* And likewise the video, copied to its final key behind the manifest.
Commit(w) ==
  /\ attempt[w].pc = "committing"
  /\ IF video \in {None, attempt[w].reel}
     THEN /\ video' = attempt[w].reel
          /\ Assembled(w, "complete") \/ Assembled(w, "fail")
     ELSE UNCHANGED video /\ Assembled(w, "fail")
  /\ UNCHANGED <<row, manifest>>

AssemblyErrs(w) ==
  /\ attempt[w].pc \in Assembling
  /\ Assembled(w, "fail")
  /\ UNCHANGED <<row, storage>>
-----------------------------------------------------------------------------
(* The report.                                                             *)

\* A fenced worker says nothing.
Settle(w) ==
  /\ attempt[w].pc = "assembled"
  /\ IF attempt[w].fenced THEN Drops(w) ELSE Goes(w, "asking")
  /\ UNCHANGED <<row, storage>>

Requeued == [job EXCEPT !.status = "queued", !.live = FALSE, !.retries = @ + 1]

Applies(report, t) ==
  IF report = "complete" THEN Owns(t, {"rendering"}) ELSE Owns(t, Active)

RowAfter(report, t) ==
  IF ~Applies(report, t) THEN job
  ELSE IF report = "complete" THEN [job EXCEPT !.status = "completed"]
  ELSE IF job.retries < MaxRetries THEN Requeued
  ELSE [job EXCEPT !.status = "failed"]

ConfirmedHowever(report, t) == job'.token = t

\* Applied or applied before, and terminal as reported.
Confirmed(report, t) ==
  /\ job'.token = t
  /\ job'.status = (IF report = "complete" THEN "completed" ELSE "failed")

Owes(report, t) == IF Confirmed(report, t) THEN {[report |-> report, token |-> t]} ELSE {}

\* The route commits the report.  What has to be followed up is answered after
\* that; a failure that is tried again, or a lease that is gone, at once.
Serve(w) ==
  /\ attempt[w].pc = "asking"
  /\ LET a == attempt[w]
     IN /\ job' = RowAfter(a.report, a.token)
        /\ owed' = owed \cup Owes(a.report, a.token)
        /\ IF Confirmed(a.report, a.token) THEN Goes(w, "served") ELSE Dismissed(w)
  /\ UNCHANGED <<run, late, lost, manifest, video>>

ServeLate(m) ==
  /\ m \in late
  /\ late' = late \ {m}
  /\ job' = RowAfter(m.report, m.token)
  /\ owed' = owed \cup Owes(m.report, m.token)
  /\ UNCHANGED <<run, attempt, lost, manifest, video>>

FollowUpOfWaiting(o) ==
  /\ o \in owed
  /\ owed' = owed \ {o}
  /\ run' = IF ~\E w \in Worker : attempt[w].pc = "served" THEN run
            ELSE IF o.report = "complete" THEN "completed" ELSE "failed"
  /\ attempt' = [w \in Worker |-> IF attempt[w].pc = "served" THEN NoAttempt ELSE attempt[w]]
  /\ UNCHANGED <<job, late, lost, manifest, video>>

\* The callers that wait for the answer of follow-up o.
Waits(o, w) == attempt[w].pc = "served" /\ attempt[w].token = o.token

FollowUp(o) ==
  /\ o \in owed
  /\ owed' = owed \ {o}
  /\ run' = IF run # "assembling" THEN run
            ELSE IF o.report = "complete" THEN "completed" ELSE "failed"
  /\ \E told \in BOOLEAN :
       attempt' = [w \in Worker |->
         CASE Waits(o, w) /\ told -> NoAttempt
           [] Waits(o, w) /\ ~told -> [attempt[w] EXCEPT !.pc = "unsure"]
           [] OTHER -> attempt[w]]
  /\ UNCHANGED <<job, late, lost, manifest, video>>

\* Its transaction fails, or the API dies before it.
FollowUpFails(o) ==
  /\ o \in owed /\ lost < MaxLost
  /\ owed' = owed \ {o}
  /\ lost' = lost + 1
  /\ attempt' = [w \in Worker |->
       IF Waits(o, w) THEN [attempt[w] EXCEPT !.pc = "unsure"] ELSE attempt[w]]
  /\ UNCHANGED <<job, run, late, manifest, video>>

\* A request that is not answered in time may still be carried out.
TimesOut(w) ==
  /\ attempt[w].pc \in {"asking", "served"}
  /\ Goes(w, "unsure")
  /\ \/ /\ attempt[w].pc = "asking"
        /\ late' = late \cup {[report |-> attempt[w].report, token |-> attempt[w].token]}
     \/ UNCHANGED late
  /\ UNCHANGED <<job, run, owed, lost, manifest, video>>

\* What the row shows a worker that is not sure to be the end of its attempt:
\* its report has been applied, or, as it seems, the lease is not its any more.
Reconciled(a) ==
  \/ job.status \in (IF a.report = "complete" THEN {"completed"} ELSE {"failed", "queued"})
  \/ ~Owns(a.token, Active)
  \/ ~job.live

\* The row is read, if the call gets through; then the report is repeated.
Probe(w) ==
  /\ attempt[w].pc = "unsure" /\ ~attempt[w].fenced
  /\ \/ Reconciled(attempt[w]) /\ Drops(w)
     \/ Goes(w, "asking")
  /\ UNCHANGED <<row, storage>>

\* Fenced, past the deadline of the settlement, or refused for good.
GiveUp(w) ==
  /\ attempt[w].pc = "unsure"
  /\ Drops(w)
  /\ UNCHANGED <<row, storage>>
-----------------------------------------------------------------------------
Step(w) ==
  \/ Claim(w) \/ Start(w) \/ Heartbeat(w) \/ ClockFences(w) \/ Crash(w)
  \/ Look(w) \/ Encode(w) \/ Publish(w) \/ Commit(w) \/ AssemblyErrs(w)
  \/ Settle(w) \/ Serve(w) \/ TimesOut(w) \/ Probe(w) \/ GiveUp(w)

Next ==
  \/ Enqueue \/ Sweep \/ LeaseExpires
  \/ \E w \in Worker : Step(w)
  \/ \E m \in late : ServeLate(m)
  \/ \E o \in owed : FollowUp(o) \/ FollowUpFails(o)

Spec == Init /\ [][Next]_vars

\* Time passes, workers poll and their processes are scheduled; a call that is
\* repeated for ever gets through in the end (Start), a transaction that the
\* API has begun ends, and the deadline of the settlement is one of wall-clock
\* time, which no number of repetitions puts off (GiveUp).
Fairness ==
  /\ WF_vars(Enqueue) /\ WF_vars(Sweep) /\ SF_vars(LeaseExpires)
  /\ \A w \in Worker :
       /\ SF_vars(Claim(w)) /\ WF_vars(Start(w) /\ attempt'[w].pc # "starting")
       /\ WF_vars(Look(w)) /\ WF_vars(Encode(w)) /\ WF_vars(Publish(w)) /\ WF_vars(Commit(w))
       /\ WF_vars(Settle(w)) /\ WF_vars(TimesOut(w)) /\ SF_vars(GiveUp(w))
  /\ WF_vars(\E o \in owed : FollowUp(o) \/ FollowUpFails(o))

FairSpec == Spec /\ Fairness
-----------------------------------------------------------------------------
(* Properties.                                                             *)

\* Types of the row, the run, the attempts, the reports and the storage.
TypeOK ==
  /\ job \in Job
  /\ run \in {"production_review", "assembling"} \cup Terminal
  /\ attempt \in [Worker -> Attempt]
  /\ late \subseteq [report : Report, token : Nat]
  /\ owed \subseteq [report : Report, token : Nat]
  /\ lost \in 0..MaxLost
  /\ manifest \in Toolchain \cup {None} /\ video \in Toolchain \cup {None}

\* The two-phase publication: whoever publishes, under whatever lease, with
\* whatever toolchain, and wherever it dies, no video is at the delivery key
\* without the manifest of that very video.
VideoHasItsManifest == video # None => manifest = video

\* A job that the queue calls completed has been delivered in full.
CompletedIsDelivered == job.status = "completed" => manifest # None /\ video = manifest

\* The run ends as its job has ended, and never before it, however late,
\* however often and in whatever order reports are carried out.
RunEndsAsItsJob == run \in Terminal => job.status = run

\* The dispatch contract: what is visible of the job is the life of a durable
\* job whose result comes from the holder of the lease, and comes once.
Lifecycle == INSTANCE JobLifecycle WITH
  Job <- {1},
  phase <- [j \in {1} |-> CASE job.status = "absent" -> "absent"
                           [] job.status = "queued" -> "waiting"
                           [] job.status \in Active -> "owned"
                           [] job.status = "completed" -> "done"
                           [] OTHER -> "dead"],
  epoch <- [j \in {1} |-> job.token],
  alive <- IF job.live THEN {1} ELSE {},
  result <- [j \in {1} |-> IF job.status = "completed" THEN job.token ELSE 0]

ImplementsLifecycle == Lifecycle!Spec

\* Every job is completed or failed in the end: no lost answer, crash, fence or
\* expiry leaves it in the hands of nobody.
JobSettles == job.status = "queued" ~> job.status \in Terminal

\* A completed job completes its run, unless the follow-up of a report fails.
CompletionReachesRun == job.status = "completed" ~> run = "completed" \/ lost > 0
=============================================================================
