----------------------- MODULE DeliveryAssemblyProofs -----------------------
(***************************************************************************)
(* Theorems about the assembly of a reel, for any number of workers,       *)
(* toolchains, retries and lost follow-ups.  Storage is fenced by nothing: *)
(* what holds it together is that a manifest never changes once written,   *)
(* that a worker commits a video only behind a manifest of its own reel,   *)
(* and that a report of success follows a reel that is complete, which     *)
(* stays true however late the report is carried out.                      *)
(***************************************************************************)
EXTENDS DeliveryAssembly, TLAPS

Reporting == {"assembled", "asking", "served", "unsure"}
Delivered == manifest # None /\ video = manifest

\* What attempt a of a worker knows of storage, when the manifest is m and
\* the video v: a worker that publishes has a reel, one that commits has the
\* manifest's, and success is reported of a reel that is there.
Fits(a, m, v) ==
  /\ a.pc \in {"publishing", "committing"} => a.reel # None
  /\ a.pc = "committing" => m = a.reel
  /\ a.pc \in Reporting => a.report \in Report /\ (a.report = "complete" => m # None /\ v = m)

AttemptsFit == \A w \in Worker : Fits(attempt[w], manifest, video)

\* However late it is carried out.
LateIsTrue == \A m \in late : m.report = "complete" => Delivered

\* What is owed to the run is what the row says.
OwedAsSettled ==
  \A o \in owed : job.status = (IF o.report = "complete" THEN "completed" ELSE "failed")

StorageInv ==
  TypeOK /\ AttemptsFit /\ LateIsTrue /\ VideoHasItsManifest /\ CompletedIsDelivered

RunInv == OwedAsSettled /\ RunEndsAsItsJob

USE DEF None, Active, Terminal, Report, Assembling

-----------------------------------------------------------------------------
(* The row.                                                                *)

\* A report leaves the row as it is, or settles the lease of the row's owner.
LEMMA RowAfterReport ==
  ASSUME job \in Job, NEW r \in Report, NEW t
  PROVE  /\ RowAfter(r, t) \in Job
         /\ \/ RowAfter(r, t) = job
            \/ /\ job.status \in Active
               /\ \/ r = "complete" /\ RowAfter(r, t) = [job EXCEPT !.status = "completed"]
                  \/ r = "fail" /\ RowAfter(r, t) = Requeued
                  \/ r = "fail" /\ RowAfter(r, t) = [job EXCEPT !.status = "failed"]
<1>1. job.retries < MaxRetries => Requeued \in Job
  <2> SUFFICES ASSUME job.retries < MaxRetries PROVE Requeued \in Job
    OBVIOUS
  <2>1. job.retries + 1 \in 0 .. MaxRetries
    BY AssemblyConstants DEF Job
  <2> QED
    BY <2>1 DEF Requeued, Job
<1>2. Applies(r, t) => job.status \in Active
  BY DEF Applies, Owns
<1>3. CASE ~Applies(r, t)
  BY <1>3 DEF RowAfter
<1>4. CASE Applies(r, t) /\ r = "complete"
  <2>1. RowAfter(r, t) = [job EXCEPT !.status = "completed"]
    BY <1>4 DEF RowAfter
  <2> QED
    BY <1>2, <1>4, <2>1 DEF Job
<1>5. CASE Applies(r, t) /\ r = "fail" /\ job.retries < MaxRetries
  <2>1. RowAfter(r, t) = Requeued
    BY <1>5 DEF RowAfter
  <2> QED
    BY <1>1, <1>2, <1>5, <2>1
<1>6. CASE Applies(r, t) /\ r = "fail" /\ ~(job.retries < MaxRetries)
  <2>1. RowAfter(r, t) = [job EXCEPT !.status = "failed"]
    BY <1>6 DEF RowAfter
  <2> QED
    BY <1>2, <1>6, <2>1 DEF Job
<1> QED
  BY <1>3, <1>4, <1>5, <1>6

\* The ways a step can move the row.
RowMoves ==
  \/ job' = job
  \/ job.status = "absent" /\ job' = [job EXCEPT !.status = "queued"]
  \/ job.status \in Active /\ job' = [job EXCEPT !.status = "failed"]
  \/ Claimable /\ job' = Leased
  \/ job.status \in Active /\ job' = [job EXCEPT !.live = FALSE]
  \/ job.status \in Active /\ job' = [job EXCEPT !.status = "rendering"]
  \/ job.status \in Active /\ job' = [job EXCEPT !.live = TRUE]
  \/ job.status \in Active /\ job' = Requeued
  \/ job.status \in Active /\ job' = [job EXCEPT !.status = "completed"]

LEMMA RowStep ==
  ASSUME TypeOK, AttemptsFit, [Next]_vars
  PROVE  RowMoves /\ job' \in Job
<1> USE DEF TypeOK
<1>1. ASSUME Enqueue \/ Sweep \/ LeaseExpires PROVE RowMoves /\ job' \in Job
  BY <1>1 DEF Enqueue, Sweep, Exhausted, LeaseExpires, RowMoves, Job
<1>2. ASSUME NEW w \in Worker, Claim(w) PROVE RowMoves /\ job' \in Job
  <2>1. ASSUME Claimable PROVE Leased \in Job
    <3>1. (IF job.status \in Active THEN job.retries + 1 ELSE job.retries) \in 0 .. MaxRetries
      BY <2>1, AssemblyConstants DEF Claimable, Job
    <3> QED
      BY <3>1 DEF Leased, Job
  <2> QED
    BY <1>2, <2>1 DEF Claim, RowMoves
<1>3. ASSUME NEW w \in Worker, Start(w) \/ Heartbeat(w) PROVE RowMoves /\ job' \in Job
  BY <1>3 DEF Start, Heartbeat, Owns, RowMoves, Job
<1>4. ASSUME NEW w \in Worker, Serve(w) PROVE RowMoves /\ job' \in Job
  <2>1. attempt[w].report \in Report /\ job' = RowAfter(attempt[w].report, attempt[w].token)
    BY <1>4 DEF Serve, AttemptsFit, Fits, Reporting
  <2> QED
    BY <2>1, RowAfterReport DEF RowMoves
<1>5. ASSUME NEW m \in late, ServeLate(m) PROVE RowMoves /\ job' \in Job
  <2>1. m.report \in Report /\ job' = RowAfter(m.report, m.token)
    BY <1>5 DEF ServeLate
  <2> QED
    BY <2>1, RowAfterReport DEF RowMoves
<1>6. ASSUME NEW w \in Worker,
             \/ ClockFences(w) \/ Crash(w) \/ Look(w) \/ Encode(w) \/ Publish(w) \/ Commit(w)
             \/ AssemblyErrs(w) \/ Settle(w) \/ TimesOut(w) \/ Probe(w) \/ GiveUp(w)
      PROVE  RowMoves /\ job' \in Job
  BY <1>6 DEF ClockFences, Crash, Look, Encode, Publish, Commit, AssemblyErrs, Settle, TimesOut,
              Probe, GiveUp, row, RowMoves
<1>7. ASSUME NEW o \in owed, FollowUp(o) \/ FollowUpFails(o) PROVE RowMoves /\ job' \in Job
  BY <1>7 DEF FollowUp, FollowUpFails, RowMoves
<1>8. CASE UNCHANGED vars
  BY <1>8 DEF vars, RowMoves
<1> QED
  BY <1>1, <1>2, <1>3, <1>4, <1>5, <1>6, <1>7, <1>8 DEF Next, Step
-----------------------------------------------------------------------------
(* The storage.                                                            *)

\* A manifest stays, and so does a delivery that is complete.
LEMMA StorageStep ==
  ASSUME StorageInv, [Next]_vars
  PROVE  /\ manifest' \in Toolchain \cup {None} /\ video' \in Toolchain \cup {None}
         /\ manifest # None => manifest' = manifest
         /\ Delivered => Delivered'
         /\ VideoHasItsManifest'
<1> USE DEF StorageInv, TypeOK, Delivered, VideoHasItsManifest
<1>1. ASSUME NEW w \in Worker, Publish(w)
      PROVE  /\ manifest' \in Toolchain \cup {None} /\ video' \in Toolchain \cup {None}
             /\ manifest # None => manifest' = manifest
             /\ Delivered => Delivered'
             /\ VideoHasItsManifest'
  <2>1. attempt[w].reel \in Toolchain /\ video' = video
    BY <1>1 DEF Publish, AttemptsFit, Fits, Attempt
  <2>2. manifest' = manifest \/ (manifest = None /\ manifest' = attempt[w].reel)
    BY <1>1 DEF Publish
  <2> QED
    BY <2>1, <2>2
<1>2. ASSUME NEW w \in Worker, Commit(w)
      PROVE  /\ manifest' \in Toolchain \cup {None} /\ video' \in Toolchain \cup {None}
             /\ manifest # None => manifest' = manifest
             /\ Delivered => Delivered'
             /\ VideoHasItsManifest'
  <2>1. manifest' = manifest /\ manifest = attempt[w].reel
    BY <1>2 DEF Commit, AttemptsFit, Fits
  <2>2. video' = video \/ video' = attempt[w].reel
    BY <1>2 DEF Commit
  <2> QED
    BY <2>1, <2>2
<1>3. ASSUME UNCHANGED storage
      PROVE  /\ manifest' \in Toolchain \cup {None} /\ video' \in Toolchain \cup {None}
             /\ manifest # None => manifest' = manifest
             /\ Delivered => Delivered'
             /\ VideoHasItsManifest'
  BY <1>3 DEF storage
<1>4. CASE \/ UNCHANGED vars \/ Enqueue \/ Sweep \/ LeaseExpires
           \/ \E m \in late : ServeLate(m)
           \/ \E o \in owed : FollowUp(o) \/ FollowUpFails(o)
  BY <1>3, <1>4 DEF vars, storage, Enqueue, Sweep, LeaseExpires, ServeLate, FollowUp, FollowUpFails
<1>5. ASSUME NEW w \in Worker, Step(w), ~Publish(w), ~Commit(w)
      PROVE  UNCHANGED storage
  BY <1>5 DEF Step, storage, Claim, Start, Heartbeat, ClockFences, Crash, Look, Encode,
              AssemblyErrs, Settle, Serve, TimesOut, Probe, GiveUp
<1> QED
  BY <1>1, <1>2, <1>3, <1>4, <1>5 DEF Next

-----------------------------------------------------------------------------
(* The attempts.                                                           *)

\* One worker goes on to an attempt a that fits: then all of them fit.
LEMMA OneGoes ==
  ASSUME StorageInv, [Next]_vars, NEW w \in Worker, NEW a \in Attempt,
         attempt' = [attempt EXCEPT ![w] = a], Fits(a, manifest', video')
  PROVE  attempt' \in [Worker -> Attempt] /\ AttemptsFit'
<1>1. attempt' \in [Worker -> Attempt]
  BY DEF StorageInv, TypeOK
<1>2. ASSUME NEW v \in Worker PROVE Fits(attempt'[v], manifest', video')
  <2>1. CASE v = w
    BY <2>1 DEF StorageInv, TypeOK
  <2>2. CASE v # w
    <3>1. attempt'[v] = attempt[v] /\ Fits(attempt[v], manifest, video)
      BY <2>2 DEF StorageInv, TypeOK, AttemptsFit
    <3> QED
      BY <3>1, StorageStep DEF Fits, Delivered
  <2> QED
    BY <2>1, <2>2
<1> QED
  BY <1>1, <1>2 DEF AttemptsFit

\* The ends and turns that look at no storage.
LEMMA Drop ==
  ASSUME StorageInv, [Next]_vars, NEW w \in Worker, Drops(w)
  PROVE  attempt' \in [Worker -> Attempt] /\ AttemptsFit'
<1>1. NoAttempt \in Attempt /\ Fits(NoAttempt, manifest', video')
  BY DEF NoAttempt, Attempt, Fits, Reporting
<1> QED
  BY <1>1, OneGoes DEF Drops

LEMMA Go ==
  ASSUME StorageInv, [Next]_vars, NEW w \in Worker, Goes(w, "looking") \/ Goes(w, "encoding")
  PROVE  attempt' \in [Worker -> Attempt] /\ AttemptsFit'
<1>1. PICK pc \in {"looking", "encoding"} : attempt' = [attempt EXCEPT ![w].pc = pc]
  BY DEF Goes
<1> DEFINE a == [attempt[w] EXCEPT !.pc = pc]
<1>2. attempt[w] \in Attempt
  BY DEF StorageInv, TypeOK
<1>3. a \in Attempt
  BY <1>2 DEF Attempt
<1>4. a.pc = pc
  BY <1>2 DEF Attempt
<1>5. Fits(a, manifest', video')
  BY <1>4 DEF Fits, Reporting
<1>6. attempt' = [attempt EXCEPT ![w] = a]
  BY <1>1 DEF StorageInv, TypeOK
<1> HIDE DEF a
<1> QED
  BY <1>3, <1>5, <1>6, OneGoes

\* A worker that has a report keeps to it while it reports.
LEMMA GoReporting ==
  ASSUME StorageInv, [Next]_vars, NEW w \in Worker, NEW pc \in Reporting,
         attempt[w].pc \in Reporting, Goes(w, pc)
  PROVE  attempt' \in [Worker -> Attempt] /\ AttemptsFit'
<1> DEFINE a == [attempt[w] EXCEPT !.pc = pc]
<1>2. attempt[w] \in Attempt /\ Fits(attempt[w], manifest, video)
  BY DEF StorageInv, TypeOK, AttemptsFit
<1>3. a \in Attempt
  BY <1>2 DEF Attempt, Reporting
<1>4. a.pc = pc /\ a.report = attempt[w].report
  BY <1>2 DEF Attempt
<1>5. Fits(a, manifest', video')
  BY <1>2, <1>4, StorageStep DEF Fits, Reporting, Delivered
<1>6. attempt' = [attempt EXCEPT ![w] = a]
  BY DEF Goes, StorageInv, TypeOK
<1> HIDE DEF a
<1> QED
  BY <1>3, <1>5, <1>6, OneGoes

\* An assembly ends with a failure, or with a reel that is complete.
LEMMA AssembledFits ==
  ASSUME StorageInv, [Next]_vars, NEW w \in Worker, NEW r \in Report, Assembled(w, r),
         r = "complete" => Delivered'
  PROVE  attempt' \in [Worker -> Attempt] /\ AttemptsFit'
<1> DEFINE a == [attempt[w] EXCEPT !.pc = "assembled", !.report = r, !.reel = None]
<1>2. attempt[w] \in Attempt
  BY DEF StorageInv, TypeOK
<1>3. a \in Attempt
  BY <1>2 DEF Attempt
<1>4. a.pc = "assembled" /\ a.report = r
  BY <1>2 DEF Attempt
<1>5. Fits(a, manifest', video')
  BY <1>4 DEF Fits, Reporting, Delivered
<1>6. attempt' = [attempt EXCEPT ![w] = a]
  BY DEF Assembled, StorageInv, TypeOK
<1> HIDE DEF a
<1> QED
  BY <1>3, <1>5, <1>6, OneGoes

LEMMA NobodyGoes ==
  ASSUME StorageInv, [Next]_vars, attempt' = attempt
  PROVE  attempt' \in [Worker -> Attempt] /\ AttemptsFit'
BY StorageStep DEF StorageInv, TypeOK, AttemptsFit, Fits, Delivered

LEMMA Fence ==
  ASSUME StorageInv, [Next]_vars, NEW w \in Worker,
         attempt' = [attempt EXCEPT ![w].fenced = TRUE]
  PROVE  attempt' \in [Worker -> Attempt] /\ AttemptsFit'
<1> DEFINE a == [attempt[w] EXCEPT !.fenced = TRUE]
<1>1. attempt[w] \in Attempt /\ Fits(attempt[w], manifest, video)
  BY DEF StorageInv, TypeOK, AttemptsFit
<1>2. a \in Attempt
  BY <1>1 DEF Attempt
<1>3. a.pc = attempt[w].pc /\ a.report = attempt[w].report /\ a.reel = attempt[w].reel
  BY <1>1 DEF Attempt
<1>4. Fits(a, manifest', video')
  BY <1>1, <1>3, StorageStep DEF Fits, Delivered
<1>5. attempt' = [attempt EXCEPT ![w] = a]
  BY DEF StorageInv, TypeOK
<1> HIDE DEF a
<1> QED
  BY <1>2, <1>4, <1>5, OneGoes

LEMMA EncodeFits ==
  ASSUME StorageInv, [Next]_vars, NEW w \in Worker, Encode(w)
  PROVE  attempt' \in [Worker -> Attempt] /\ AttemptsFit'
<1>1. PICK t \in Toolchain :
        attempt' = [attempt EXCEPT ![w].pc = "publishing", ![w].reel = t]
  BY DEF Encode
<1> DEFINE a == [attempt[w] EXCEPT !.pc = "publishing", !.reel = t]
<1>2. attempt[w] \in Attempt
  BY DEF StorageInv, TypeOK
<1>3. a \in Attempt
  BY <1>2 DEF Attempt
<1>4. a.pc = "publishing" /\ a.reel = t /\ t # None
  BY <1>2, AssemblyConstants DEF Attempt
<1>5. Fits(a, manifest', video')
  BY <1>4 DEF Fits, Reporting
<1>6. attempt' = [attempt EXCEPT ![w] = a]
  BY <1>1 DEF StorageInv, TypeOK
<1> HIDE DEF a
<1> QED
  BY <1>3, <1>5, <1>6, OneGoes

LEMMA PublishFits ==
  ASSUME StorageInv, [Next]_vars, NEW w \in Worker, Publish(w)
  PROVE  attempt' \in [Worker -> Attempt] /\ AttemptsFit'
<1>1. CASE Assembled(w, "fail")
  BY <1>1, AssembledFits
<1>2. CASE Goes(w, "committing") /\ manifest' = attempt[w].reel
  <2> DEFINE a == [attempt[w] EXCEPT !.pc = "committing"]
  <2>1. attempt[w] \in Attempt /\ attempt[w].reel # None
    BY DEF StorageInv, TypeOK, AttemptsFit, Fits, Publish
  <2>2. a \in Attempt
    BY <2>1 DEF Attempt
  <2>3. a.pc = "committing" /\ a.reel = attempt[w].reel
    BY <2>1 DEF Attempt
  <2>4. Fits(a, manifest', video')
    BY <1>2, <2>1, <2>3 DEF Fits, Reporting
  <2>5. attempt' = [attempt EXCEPT ![w] = a]
    BY <1>2 DEF Goes, StorageInv, TypeOK
  <2> HIDE DEF a
  <2> QED
    BY <2>2, <2>4, <2>5, OneGoes
<1> QED
  BY <1>1, <1>2 DEF Publish

LEMMA CommitFits ==
  ASSUME StorageInv, [Next]_vars, NEW w \in Worker, Commit(w)
  PROVE  attempt' \in [Worker -> Attempt] /\ AttemptsFit'
<1>1. CASE Assembled(w, "fail")
  BY <1>1, AssembledFits
<1>2. CASE Assembled(w, "complete") /\ video' = attempt[w].reel
  <2>1. Delivered'
    BY <1>2 DEF Commit, StorageInv, AttemptsFit, Fits, Delivered
  <2> QED
    BY <1>2, <2>1, AssembledFits
<1> QED
  BY <1>1, <1>2 DEF Commit

LEMMA LookFits ==
  ASSUME StorageInv, [Next]_vars, NEW w \in Worker, Look(w)
  PROVE  attempt' \in [Worker -> Attempt] /\ AttemptsFit'
<1>1. CASE Delivered /\ Assembled(w, "complete")
  BY <1>1, StorageStep, AssembledFits
<1> QED
  BY <1>1, Go DEF Look, Delivered

\* The answer of a follow-up sets its callers free, or leaves them unsure.
LEMMA AnswerFits ==
  ASSUME StorageInv, [Next]_vars, NEW o \in owed, FollowUp(o) \/ FollowUpFails(o)
  PROVE  attempt' \in [Worker -> Attempt] /\ AttemptsFit'
<1>1. PICK told \in BOOLEAN :
        attempt' = [w \in Worker |->
          IF Waits(o, w) THEN IF told THEN NoAttempt ELSE [attempt[w] EXCEPT !.pc = "unsure"]
          ELSE attempt[w]]
  BY DEF FollowUp, FollowUpFails
<1>2. NoAttempt \in Attempt /\ Fits(NoAttempt, manifest', video')
  BY DEF NoAttempt, Attempt, Fits, Reporting
<1>3. ASSUME NEW w \in Worker
      PROVE  attempt'[w] \in Attempt /\ Fits(attempt'[w], manifest', video')
  <2>1. attempt[w] \in Attempt /\ Fits(attempt[w], manifest, video)
    BY DEF StorageInv, TypeOK, AttemptsFit
  <2>2. Fits(attempt[w], manifest', video')
    BY <2>1, StorageStep DEF Fits, Delivered
  <2>3. CASE ~Waits(o, w)
    BY <1>1, <2>1, <2>2, <2>3
  <2>4. CASE Waits(o, w) /\ told
    BY <1>1, <1>2, <2>4
  <2>5. CASE Waits(o, w) /\ ~told
    <3>1. attempt'[w] = [attempt[w] EXCEPT !.pc = "unsure"]
      BY <1>1, <2>5
    <3>2. attempt'[w].pc = "unsure" /\ attempt'[w].report = attempt[w].report
      BY <2>1, <3>1 DEF Attempt
    <3>3. attempt'[w] \in Attempt
      BY <2>1, <3>1 DEF Attempt
    <3> QED
      BY <2>2, <2>5, <3>2, <3>3 DEF Fits, Reporting, Waits
  <2> QED
    BY <2>3, <2>4, <2>5
<1> QED
  BY <1>1, <1>3 DEF AttemptsFit

LEMMA AttemptStep ==
  ASSUME StorageInv, [Next]_vars
  PROVE  attempt' \in [Worker -> Attempt] /\ AttemptsFit'
<1>1. CASE Enqueue \/ Sweep \/ LeaseExpires \/ UNCHANGED vars \/ (\E m \in late : ServeLate(m))
  BY <1>1, NobodyGoes DEF Enqueue, Sweep, LeaseExpires, vars, ServeLate
<1>2. ASSUME NEW w \in Worker, Claim(w) PROVE attempt' \in [Worker -> Attempt] /\ AttemptsFit'
  <2> DEFINE a == [NoAttempt EXCEPT !.pc = "starting", !.token = job.token + 1]
  <2>0. NoAttempt \in Attempt /\ job.token + 1 \in Nat
    BY DEF NoAttempt, Attempt, StorageInv, TypeOK, Job
  <2>1. a \in Attempt
    BY <2>0 DEF Attempt
  <2>2. a.pc = "starting"
    BY <2>0 DEF Attempt
  <2>3. Fits(a, manifest', video')
    BY <2>2 DEF Fits, Reporting
  <2>4. attempt' = attempt \/ attempt' = [attempt EXCEPT ![w] = a]
    BY <1>2 DEF Claim
  <2> HIDE DEF a
  <2> QED
    BY <2>1, <2>3, <2>4, NobodyGoes, OneGoes
<1>3. ASSUME NEW w \in Worker, Start(w) PROVE attempt' \in [Worker -> Attempt] /\ AttemptsFit'
  BY <1>3, NobodyGoes, Go, Drop DEF Start
<1>4. ASSUME NEW w \in Worker, Heartbeat(w) \/ ClockFences(w)
      PROVE  attempt' \in [Worker -> Attempt] /\ AttemptsFit'
  BY <1>4, NobodyGoes, Fence DEF Heartbeat, ClockFences
<1>5. ASSUME NEW w \in Worker, AssemblyErrs(w)
      PROVE  attempt' \in [Worker -> Attempt] /\ AttemptsFit'
  BY <1>5, AssembledFits DEF AssemblyErrs
<1>6. ASSUME NEW w \in Worker, Settle(w) \/ Serve(w) \/ TimesOut(w) \/ Probe(w)
      PROVE  attempt' \in [Worker -> Attempt] /\ AttemptsFit'
  <2>1. attempt[w].pc \in Reporting
    BY <1>6 DEF Settle, Serve, TimesOut, Probe, Reporting
  <2>2. Drops(w) \/ Goes(w, "asking") \/ Goes(w, "served") \/ Goes(w, "unsure")
    BY <1>6 DEF Settle, Serve, TimesOut, Probe, Dismissed
  <2> QED
    BY <2>1, <2>2, Drop, GoReporting DEF Reporting
<1>7. ASSUME NEW w \in Worker, Crash(w) \/ GiveUp(w)
      PROVE  attempt' \in [Worker -> Attempt] /\ AttemptsFit'
  BY <1>7, Drop DEF Crash, GiveUp
<1>8. ASSUME NEW w \in Worker, Step(w) PROVE attempt' \in [Worker -> Attempt] /\ AttemptsFit'
  BY <1>2, <1>3, <1>4, <1>5, <1>6, <1>7, <1>8, LookFits, EncodeFits, PublishFits, CommitFits
  DEF Step
<1> QED
  BY <1>1, <1>8, AnswerFits DEF Next

-----------------------------------------------------------------------------
(* The reports, and what holds of storage.                                 *)

LEMMA LateStep ==
  ASSUME StorageInv, [Next]_vars
  PROVE  late' \subseteq [report : Report, token : Nat] /\ LateIsTrue'
<1> USE DEF StorageInv, TypeOK
<1>1. CASE late' \subseteq late
  BY <1>1, StorageStep DEF LateIsTrue
<1>2. ASSUME NEW w \in Worker, TimesOut(w)
      PROVE  late' \subseteq [report : Report, token : Nat] /\ LateIsTrue'
  <2> DEFINE m == [report |-> attempt[w].report, token |-> attempt[w].token]
  <2>1. /\ attempt[w].report \in Report /\ attempt[w].token \in Nat
        /\ attempt[w].report = "complete" => Delivered
    BY <1>2 DEF TimesOut, AttemptsFit, Fits, Reporting, Delivered, Attempt
  <2>2. m \in [report : Report, token : Nat] /\ (m.report = "complete" => Delivered)
    BY <2>1
  <2>3. late' \subseteq late \cup {m}
    BY <1>2 DEF TimesOut
  <2> HIDE DEF m
  <2> QED
    BY <2>2, <2>3, StorageStep DEF LateIsTrue
<1>3. CASE \E m \in late : ServeLate(m)
  BY <1>1, <1>3 DEF ServeLate
<1>4. CASE \/ UNCHANGED vars \/ Enqueue \/ Sweep \/ LeaseExpires
           \/ \E o \in owed : FollowUp(o) \/ FollowUpFails(o)
  BY <1>1, <1>4 DEF vars, Enqueue, Sweep, LeaseExpires, FollowUp, FollowUpFails
<1>5. ASSUME NEW w \in Worker, Step(w), ~TimesOut(w)
      PROVE  late' = late
  BY <1>5 DEF Step, row, Claim, Start, Heartbeat, ClockFences, Crash, Look, Encode, Publish,
              Commit, AssemblyErrs, Settle, Serve, Probe, GiveUp
<1> QED
  BY <1>1, <1>2, <1>3, <1>4, <1>5 DEF Next

\* Of the reports only that of a success completes a job.
LEMMA CompletedByReport ==
  ASSUME job \in Job, NEW r \in Report, NEW t, RowAfter(r, t).status = "completed"
  PROVE  job.status = "completed" \/ r = "complete"
<1>1. Requeued.status # "completed" /\ [job EXCEPT !.status = "failed"].status # "completed"
  BY DEF Requeued, Job
<1> QED
  BY <1>1, RowAfterReport

\* A job is completed by a report, and the report is true.
LEMMA CompletionStep ==
  ASSUME StorageInv, [Next]_vars
  PROVE  CompletedIsDelivered'
<1> USE DEF StorageInv, TypeOK
<1>1. SUFFICES ASSUME job'.status = "completed" PROVE job.status = "completed" \/ Delivered
  BY StorageStep DEF CompletedIsDelivered, Delivered
<1>2. ASSUME NEW w \in Worker, Serve(w) PROVE job.status = "completed" \/ Delivered
  <2>1. /\ attempt[w].report \in Report
        /\ attempt[w].report = "complete" => Delivered
        /\ job' = RowAfter(attempt[w].report, attempt[w].token)
    BY <1>2 DEF Serve, AttemptsFit, Fits, Reporting, Delivered
  <2> QED
    BY <1>1, <2>1, CompletedByReport
<1>3. ASSUME NEW m \in late, ServeLate(m) PROVE job.status = "completed" \/ Delivered
  <2>1. /\ m.report \in Report
        /\ m.report = "complete" => Delivered
        /\ job' = RowAfter(m.report, m.token)
    BY <1>3 DEF ServeLate, LateIsTrue
  <2> QED
    BY <1>1, <2>1, CompletedByReport
<1>4. CASE job' = job
  BY <1>1, <1>4
<1>5. CASE UNCHANGED vars \/ (\E o \in owed : FollowUp(o) \/ FollowUpFails(o))
  BY <1>4, <1>5 DEF vars, FollowUp, FollowUpFails
<1>6. CASE Enqueue \/ Sweep \/ LeaseExpires
  BY <1>1, <1>6 DEF Enqueue, Sweep, LeaseExpires, Job
<1>7. ASSUME NEW w \in Worker, Claim(w) \/ Start(w) \/ Heartbeat(w)
      PROVE  job.status = "completed" \/ Delivered
  BY <1>1, <1>7 DEF Claim, Leased, Start, Heartbeat, Job
<1>8. ASSUME NEW w \in Worker, Step(w), ~Serve(w), ~Claim(w), ~Start(w), ~Heartbeat(w)
      PROVE  job' = job
  BY <1>8 DEF Step, row, ClockFences, Crash, Look, Encode, Publish, Commit, AssemblyErrs, Settle,
              TimesOut, Probe, GiveUp
<1> QED
  BY <1>2, <1>3, <1>4, <1>5, <1>6, <1>7, <1>8 DEF Next

\* The other types.
LEMMA RestStep ==
  ASSUME StorageInv, [Next]_vars
  PROVE  /\ run' \in {"production_review", "assembling"} \cup Terminal
         /\ owed' \subseteq [report : Report, token : Nat]
         /\ lost' \in 0 .. MaxLost
<1> USE DEF StorageInv, TypeOK
<1>1. CASE UNCHANGED vars \/ Enqueue \/ Sweep \/ LeaseExpires
  BY <1>1 DEF vars, Enqueue, Sweep, LeaseExpires
<1>2. ASSUME NEW r \in Report, NEW t \in Nat
      PROVE  Owes(r, t) \subseteq [report : Report, token : Nat]
  BY <1>2 DEF Owes
<1>3. ASSUME NEW w \in Worker, Serve(w)
      PROVE  owed' \subseteq [report : Report, token : Nat]
  <2>1. attempt[w].report \in Report /\ attempt[w].token \in Nat
    BY <1>3 DEF Serve, AttemptsFit, Fits, Reporting, Attempt
  <2> QED
    BY <1>2, <1>3, <2>1 DEF Serve
<1>4. ASSUME NEW m \in late, ServeLate(m)
      PROVE  owed' \subseteq [report : Report, token : Nat] /\ run' = run /\ lost' = lost
  BY <1>2, <1>4 DEF ServeLate
<1>5. ASSUME NEW o \in owed, FollowUp(o)
      PROVE  /\ run' \in {"production_review", "assembling"} \cup Terminal
             /\ owed' \subseteq owed /\ lost' = lost
  BY <1>5 DEF FollowUp
<1>6. ASSUME NEW o \in owed, FollowUpFails(o)
      PROVE  run' = run /\ owed' \subseteq owed /\ lost' \in 0 .. MaxLost
  BY <1>6, AssemblyConstants DEF FollowUpFails
<1>7. ASSUME NEW w \in Worker, Step(w) PROVE run' = run /\ lost' = lost
  BY <1>7 DEF Step, row, Claim, Start, Heartbeat, ClockFences, Crash, Look, Encode, Publish,
              Commit, AssemblyErrs, Settle, Serve, TimesOut, Probe, GiveUp
<1>8. ASSUME NEW w \in Worker, Step(w), ~Serve(w) PROVE owed' = owed
  BY <1>8 DEF Step, row, Claim, Start, Heartbeat, ClockFences, Crash, Look, Encode, Publish,
              Commit, AssemblyErrs, Settle, TimesOut, Probe, GiveUp
<1> QED
  BY <1>1, <1>3, <1>4, <1>5, <1>6, <1>7, <1>8 DEF Next

LEMMA StorageInit == Init => StorageInv
<1> SUFFICES ASSUME Init PROVE StorageInv
  OBVIOUS
<1>1. TypeOK
  BY AssemblyConstants DEF Init, TypeOK, Job, Attempt, NoAttempt
<1>2. AttemptsFit /\ LateIsTrue
  BY DEF Init, NoAttempt, AttemptsFit, LateIsTrue, Fits, Reporting
<1>3. VideoHasItsManifest /\ CompletedIsDelivered
  BY DEF Init, VideoHasItsManifest, CompletedIsDelivered
<1> QED
  BY <1>1, <1>2, <1>3 DEF StorageInv

LEMMA StorageHolds == Spec => []StorageInv
<1>1. ASSUME StorageInv, [Next]_vars PROVE StorageInv'
  <2>1. job' \in Job
    BY <1>1, RowStep DEF StorageInv
  <2> QED
    BY <1>1, <2>1, StorageStep, AttemptStep, LateStep, CompletionStep, RestStep
    DEF StorageInv, TypeOK
<1> QED
  BY <1>1, StorageInit, PTL DEF Spec

\* Two workers, of which one has lost its lease, may publish at once, and each
\* may die between the manifest and the video (recoverable assembly, the
\* conditional writes of the object store): whatever is at the delivery key is
\* described by the manifest.
THEOREM VideoIsDescribed == Spec => []VideoHasItsManifest
BY StorageHolds, PTL DEF StorageInv

\* The queue calls the assembly completed on the word of a report that may be
\* carried out long after its sender has given it up: what it reports is still
\* there.
THEOREM CompletionIsDelivery == Spec => []CompletedIsDelivered
BY StorageHolds, PTL DEF StorageInv

\* No attempt of any worker, late, repeated or restarted, replaces the manifest
\* of a delivery or undoes a delivery that is complete (the conditional writes
\* of the object store, ifNoneMatch).
THEOREM DeliveriesArePermanent ==
  Spec => [][(manifest # None => manifest' = manifest) /\ (Delivered => Delivered')]_<<manifest, video>>
<1>1. StorageInv /\ [Next]_vars
        => [(manifest # None => manifest' = manifest) /\ (Delivered => Delivered')]_<<manifest, video>>
  BY StorageStep
<1> QED
  BY <1>1, StorageHolds, PTL DEF Spec

-----------------------------------------------------------------------------
(* The run.                                                                *)

LEMMA RunStep ==
  ASSUME StorageInv, RunInv, [Next]_vars
  PROVE  RunInv'
<1> USE DEF StorageInv, TypeOK, RunInv
<1>1. RowMoves /\ job' \in Job
  BY RowStep
<1>2. job.status \in Terminal => job' = job
  BY <1>1 DEF RowMoves, Claimable
<1>3. ASSUME NEW o \in owed
      PROVE  job'.status = (IF o.report = "complete" THEN "completed" ELSE "failed")
  BY <1>2 DEF OwedAsSettled
<1>4. ASSUME NEW r \in Report, NEW t, NEW o \in Owes(r, t)
      PROVE  job'.status = (IF o.report = "complete" THEN "completed" ELSE "failed")
  BY DEF Owes, Confirmed
<1>5. RunEndsAsItsJob /\ run' = run => RunEndsAsItsJob'
  BY <1>2 DEF RunEndsAsItsJob
<1>6. CASE owed' \subseteq owed /\ run' = run
  BY <1>3, <1>5, <1>6 DEF OwedAsSettled
<1>7. CASE UNCHANGED vars \/ Sweep \/ LeaseExpires
  BY <1>6, <1>7 DEF vars, Sweep, LeaseExpires
<1>8. CASE Enqueue
  BY <1>3, <1>8 DEF Enqueue, OwedAsSettled, RunEndsAsItsJob
<1>9. ASSUME NEW w \in Worker, Serve(w) PROVE RunInv'
  <2>1. attempt[w].report \in Report
    BY <1>9 DEF Serve, AttemptsFit, Fits, Reporting
  <2>2. run' = run /\ owed' = owed \cup Owes(attempt[w].report, attempt[w].token)
    BY <1>9 DEF Serve
  <2>3. OwedAsSettled'
    BY <1>3, <1>4, <2>1, <2>2 DEF OwedAsSettled
  <2> QED
    BY <1>5, <2>2, <2>3
<1>10. ASSUME NEW m \in late, ServeLate(m) PROVE RunInv'
  <2>1. m.report \in Report /\ run' = run /\ owed' = owed \cup Owes(m.report, m.token)
    BY <1>10 DEF ServeLate
  <2>2. OwedAsSettled'
    BY <1>3, <1>4, <2>1 DEF OwedAsSettled
  <2> QED
    BY <1>5, <2>1, <2>2
<1>11. ASSUME NEW o \in owed, FollowUp(o) PROVE RunInv'
  <2>1. /\ owed' \subseteq owed
        /\ run' = run \/ run' = (IF o.report = "complete" THEN "completed" ELSE "failed")
    BY <1>11 DEF FollowUp
  <2>2. run' \in Terminal => job'.status = run'
    BY <1>2, <1>3, <2>1 DEF RunEndsAsItsJob
  <2> QED
    BY <1>3, <2>1, <2>2 DEF OwedAsSettled, RunEndsAsItsJob
<1>12. ASSUME NEW o \in owed, FollowUpFails(o) PROVE RunInv'
  BY <1>6, <1>12 DEF FollowUpFails
<1>13. ASSUME NEW w \in Worker, Step(w), ~Serve(w) PROVE owed' = owed /\ run' = run
  BY <1>13 DEF Step, row, Claim, Start, Heartbeat, ClockFences, Crash, Look, Encode, Publish,
               Commit, AssemblyErrs, Settle, TimesOut, Probe, GiveUp
<1> QED
  BY <1>6, <1>7, <1>8, <1>9, <1>10, <1>11, <1>12, <1>13 DEF Next

\* A report and its follow-up are committed apart, and follow-ups may come late
\* and twice (the routes of the delivery assembly): the run never ends before
\* its job, or otherwise.
THEOREM RunFollowsItsJob == Spec => []RunEndsAsItsJob
<1>1. Init => RunInv
  BY DEF Init, RunInv, OwedAsSettled, RunEndsAsItsJob
<1> QED
  BY <1>1, RunStep, StorageHolds, PTL DEF Spec, RunInv

-----------------------------------------------------------------------------
(* The life of the job.                                                    *)

LEMMA LifecycleInit == Init => Lifecycle!Init
BY DEF Init, Lifecycle!Init

LEMMA LifecycleStep ==
  ASSUME job \in Job, job' \in Job, RowMoves
  PROVE  [Lifecycle!Next]_(Lifecycle!lifecycleVars)
<1> USE DEF Lifecycle!lifecycleVars, Lifecycle!Next, Job
<1>1. CASE job' = job
  BY <1>1
<1>2. CASE job.status = "absent" /\ job' = [job EXCEPT !.status = "queued"]
  BY <1>2 DEF Lifecycle!Submit
<1>3. CASE job.status \in Active /\ job' = [job EXCEPT !.status = "failed"]
  <2>1. Lifecycle!Bury({1})
    BY <1>3 DEF Lifecycle!Bury
  <2> QED
    BY <2>1
<1>4. CASE Claimable /\ job' = Leased
  <2>1. Lifecycle!Grant(1)
    BY <1>4 DEF Lifecycle!Grant, Claimable, Leased
  <2> QED
    BY <2>1
<1>5. CASE job.status \in Active /\ job' = [job EXCEPT !.live = FALSE]
  <2>1. Lifecycle!Lapse(1)
    BY <1>5 DEF Lifecycle!Lapse
  <2> QED
    BY <2>1
<1>6. CASE job.status \in Active /\ job' = [job EXCEPT !.status = "rendering"]
  BY <1>6
<1>7. CASE job.status \in Active /\ job' = [job EXCEPT !.live = TRUE]
  <2>1. Lifecycle!Renew(1)
    BY <1>7 DEF Lifecycle!Renew
  <2> QED
    BY <2>1
<1>8. CASE job.status \in Active /\ job' = Requeued
  <2>1. Lifecycle!Release(1)
    BY <1>8 DEF Lifecycle!Release, Requeued
  <2> QED
    BY <2>1
<1>9. CASE job.status \in Active /\ job' = [job EXCEPT !.status = "completed"]
  <2>1. Lifecycle!Finish(1)
    BY <1>9 DEF Lifecycle!Finish
  <2> QED
    BY <2>1
<1> QED
  BY <1>1, <1>2, <1>3, <1>4, <1>5, <1>6, <1>7, <1>8, <1>9 DEF RowMoves

\* The row of the assembly keeps what the dispatch contract promises of every
\* durable job: one owner, epochs that grow, one result, from the owner.
THEOREM AssemblyIsADurableJob == Spec => ImplementsLifecycle
<1>1. StorageInv /\ [Next]_vars => [Lifecycle!Next]_(Lifecycle!lifecycleVars)
  BY RowStep, LifecycleStep DEF StorageInv, TypeOK
<1> QED
  BY <1>1, LifecycleInit, StorageHolds, PTL DEF Spec, ImplementsLifecycle, Lifecycle!Spec
=============================================================================
