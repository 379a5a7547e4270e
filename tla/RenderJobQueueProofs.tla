------------------------ MODULE RenderJobQueueProofs ------------------------
(***************************************************************************)
(* Theorems about the render queue, for any number of jobs, workers and    *)
(* retries.  The invariants of RenderJobQueue are not inductive one by     *)
(* one: an open completion is safe because it owns its row, a manifest is  *)
(* written once because an open completion owns its row, and a failed job  *)
(* is hopeless because a completion that lost its slot lost it to another  *)
(* job.  Inv gathers what each of them needs of the others.                *)
(***************************************************************************)
EXTENDS RenderJobQueue, TLAPS

\* A row that waits has used up none of the leases its retries allow.
WaitingBudget ==
  \A j \in Job : job[j].status \in {"absent", "queued"} =>
    job[j].token <= job[j].retries + defers[j]

\* A completion that lost its slot lost it to another job.
ConflictsAreLost ==
  \A c \in conflict : /\ c.job \in Job
                      /\ job[c.job].status # "absent"
                      /\ Kind[c.job] = "candidate"
                      /\ candidates[Slot[c.job]] \notin {c.job, NoJob}

Inv ==
  /\ TypeOK
  /\ OpenCompletionOwns
  /\ RetryBudget
  /\ WaitingBudget
  /\ CandidatesAreCompletions
  /\ ManifestsAreCompletions
  /\ ConflictsAreLost
  /\ FailedOnlyWhenHopeless

USE DEF JobKind, NoJob, Active, Terminal, Status

-----------------------------------------------------------------------------
LEMMA InitInv == Init => Inv
<1> SUFFICES ASSUME Init PROVE Inv
  OBVIOUS
<1> USE JobAssumption, DefersAssumption, RetriesAssumption
<1>1. TypeOK
  BY DEF Init, TypeOK, Row, GateAnswer, SlotSet
<1>2. OpenCompletionOwns /\ RetryBudget /\ WaitingBudget
  BY DEF Init, OpenCompletionOwns, RetryBudget, WaitingBudget
<1>3. CandidatesAreCompletions /\ ManifestsAreCompletions
  BY DEF Init, CandidatesAreCompletions, ManifestsAreCompletions
<1>4. ConflictsAreLost /\ FailedOnlyWhenHopeless
  BY DEF Init, ConflictsAreLost, FailedOnlyWhenHopeless
<1> QED
  BY <1>1, <1>2, <1>3, <1>4 DEF Inv

LEMMA TypeStep == TypeOK /\ [Next]_vars => TypeOK'
<1> SUFFICES ASSUME TypeOK, [Next]_vars PROVE TypeOK'
  OBVIOUS
<1> USE JobAssumption, DefersAssumption DEF TypeOK, Row
<1>1. ASSUME NEW j \in Job, Enqueue(j) PROVE TypeOK'
  BY <1>1 DEF Enqueue, SetStatus
<1>2. ASSUME NEW w \in Worker, BeginClaim(w) PROVE TypeOK'
  BY <1>2 DEF BeginClaim, Exhausted
<1>3. ASSUME NEW w \in Worker, ClaimRow(w) PROVE TypeOK'
  <2>1. PICK j \in Job : job' = [job EXCEPT ![j] = Leased(j)] /\ live' = live \cup {j}
    BY <1>3 DEF ClaimRow
  <2>2. Leased(j) \in Row
    BY DEF Leased, IsActive
  <2> QED
    BY <1>3, <2>1, <2>2 DEF ClaimRow, EndClaim, GateAnswer
<1>4. ASSUME NEW w \in Worker, ClaimNothing(w) PROVE TypeOK'
  BY <1>4 DEF ClaimNothing, EndClaim, GateAnswer
<1>5. ASSUME NEW j \in Job, NEW t \in Issued(j), Call(j, t) PROVE TypeOK'
  <2>1. t \in Nat
    BY <1>5 DEF Issued
  <2>2. CASE Start(j, t)
    BY <2>2 DEF Start, SetStatus
  <2>3. CASE Heartbeat(j, t)
    BY <2>3 DEF Heartbeat
  <2>4. CASE BeginComplete(j, t)
    BY <2>1, <2>4 DEF BeginComplete
  <2>5. CASE Fail(j, t)
    BY <2>5 DEF Fail, SetStatus
  <2>6. CASE Defer(j, t)
    <3>1. defers[j] + 1 \in 0 .. MaxDefers
      BY <2>6 DEF Defer
    <3> QED
      BY <2>6, <3>1 DEF Defer, SetStatus
  <2> QED
    BY <1>5, <2>2, <2>3, <2>4, <2>5, <2>6 DEF Call
<1>6. ASSUME NEW j \in Job, Settle(j) PROVE TypeOK'
  <2>1. CASE CommitProduction(j)
    BY <2>1 DEF CommitProduction, SetStatus, Manifest
  <2>2. CASE CommitCandidate(j)
    BY <2>2 DEF CommitCandidate, SetStatus, SlotSet
  <2>3. CASE RollbackComplete(j)
    BY <2>3 DEF RollbackComplete
  <2>4. CASE ConflictComplete(j)
    BY <2>4 DEF ConflictComplete, Completion
  <2> QED
    BY <1>6, <2>1, <2>2, <2>3, <2>4 DEF Settle
<1>7. ASSUME NEW c \in conflict, FailConflicted(c) \/ LoseConflict(c) PROVE TypeOK'
  BY <1>7 DEF FailConflicted, LoseConflict, SetStatus, Completion
<1>8. ASSUME NEW j \in Job, Expire(j) PROVE TypeOK'
  BY <1>8 DEF Expire
<1>9. CASE MoveGate
  BY <1>9 DEF MoveGate
<1>10. CASE UNCHANGED vars
  BY <1>10 DEF vars
<1> QED
  BY <1>1, <1>2, <1>3, <1>4, <1>5, <1>6, <1>7, <1>8, <1>9, <1>10 DEF Next, Claim

\* Type correctness of the queue: every row, lease, open transaction,
\* manifest and candidate is of its kind whatever is called in what order.
THEOREM QueueTypeCorrect == Spec => []TypeOK
<1>1. Init => TypeOK
  BY InitInv DEF Inv
<1> QED
  BY <1>1, TypeStep, PTL DEF Spec
-----------------------------------------------------------------------------
\* Steps that leave the rows and what was recorded alone keep Inv.
LEMMA InvFrame ==
  ASSUME Inv, TypeOK', UNCHANGED <<job, defers, tx, conflict, manifests, candidates>>
  PROVE  Inv'
BY DEF Inv, OpenCompletionOwns, RetryBudget, WaitingBudget, CandidatesAreCompletions,
       ManifestsAreCompletions, ConflictsAreLost, FailedOnlyWhenHopeless, RetriesLeft

LEMMA InvStep == Inv /\ [Next]_vars => Inv'
<1> SUFFICES ASSUME Inv, [Next]_vars PROVE Inv'
  OBVIOUS
<1> USE JobAssumption, RetriesAssumption DEF Inv, TypeOK, Row
<1>t. TypeOK'
  BY TypeStep
<1>1. ASSUME NEW j \in Job, Enqueue(j)
      PROVE  Inv'
  <2>1. OpenCompletionOwns'
    BY <1>1 DEF Enqueue, SetStatus, OpenCompletionOwns
  <2>2. RetryBudget'
    BY <1>1 DEF Enqueue, SetStatus, RetryBudget
  <2>3. WaitingBudget'
    BY <1>1 DEF Enqueue, SetStatus, WaitingBudget
  <2>4. CandidatesAreCompletions'
    BY <1>1 DEF Enqueue, SetStatus, CandidatesAreCompletions, SlotSet
  <2>5. ManifestsAreCompletions'
    BY <1>1 DEF Enqueue, SetStatus, ManifestsAreCompletions
  <2>6. ConflictsAreLost'
    BY <1>1 DEF Enqueue, SetStatus, ConflictsAreLost
  <2>7. FailedOnlyWhenHopeless'
    BY <1>1 DEF Enqueue, SetStatus, FailedOnlyWhenHopeless, RetriesLeft
  <2> QED
    BY <1>t, <2>1, <2>2, <2>3, <2>4, <2>5, <2>6, <2>7
<1>2. ASSUME NEW w \in Worker, BeginClaim(w)
      PROVE  Inv'
  <2>1. OpenCompletionOwns'
    BY <1>2 DEF BeginClaim, Exhausted, Expired, IsActive, RetriesLeft, Unlocked, OpenCompletionOwns
  <2>2. RetryBudget'
    BY <1>2 DEF BeginClaim, Exhausted, Expired, IsActive, RetriesLeft, Unlocked, RetryBudget
  <2>3. WaitingBudget'
    BY <1>2 DEF BeginClaim, Exhausted, Expired, IsActive, RetriesLeft, Unlocked, WaitingBudget
  <2>4. CandidatesAreCompletions'
    BY <1>2 DEF BeginClaim, Exhausted, Expired, IsActive, RetriesLeft, Unlocked, CandidatesAreCompletions, SlotSet
  <2>5. ManifestsAreCompletions'
    <3>1. \A k \in Job : (job'[k].status = "completed") <=> (job[k].status = "completed")
      BY <1>2 DEF BeginClaim, Exhausted, Expired, IsActive
    <3>2. \A k \in Job : job'[k].token = job[k].token /\ job'[k].retries = job[k].retries
      BY <1>2 DEF BeginClaim
    <3>3. manifests' = manifests
      BY <1>2 DEF BeginClaim
    <3> QED
      BY <3>1, <3>2, <3>3 DEF ManifestsAreCompletions
  <2>6. ConflictsAreLost'
    BY <1>2 DEF BeginClaim, Exhausted, Expired, IsActive, RetriesLeft, Unlocked, ConflictsAreLost
  <2>7. FailedOnlyWhenHopeless'
    BY <1>2 DEF BeginClaim, Exhausted, Expired, IsActive, RetriesLeft, Unlocked, FailedOnlyWhenHopeless
  <2> QED
    BY <1>t, <2>1, <2>2, <2>3, <2>4, <2>5, <2>6, <2>7
<1>3. ASSUME NEW w \in Worker, ClaimRow(w)
      PROVE  Inv'
  <2>0. PICK j \in Claimable(w) :
          /\ job' = [job EXCEPT ![j] = Leased(j)]
          /\ UNCHANGED <<defers, tx, conflict, manifests, candidates>>
    BY <1>3 DEF ClaimRow, EndClaim, IsOldest
  <2>j. /\ j \in Job
        /\ tx[j] = 0
        /\ job[j].status = "queued" \/ (IsActive(j) /\ job[j].retries < MaxRetries[j])
    <3>1. j \in Serves[w] /\ Serves[w] \subseteq Job
      BY <2>0, ServesAssumption DEF Claimable
    <3>2. Unlocked(j) /\ (job[j].status = "queued" \/ (Expired(j) /\ RetriesLeft(j)))
      BY <2>0 DEF Claimable
    <3>3. (Expired(j) /\ RetriesLeft(j)) => (IsActive(j) /\ job[j].retries < MaxRetries[j])
      BY DEF Expired, RetriesLeft
    <3> QED
      BY <3>1, <3>2, <3>3 DEF Unlocked
  <2>k. /\ Leased(j).status = "leased"
        /\ Leased(j).token = job[j].token + 1
        /\ Leased(j).retries \in Nat
        /\ Leased(j).retries <= MaxRetries[j]
        /\ job[j].token <= Leased(j).retries + defers[j]
    BY <2>j DEF Leased, IsActive, RetryBudget, WaitingBudget
  <2>1. OpenCompletionOwns'
    BY <2>0, <2>j, <2>k DEF OpenCompletionOwns
  <2>2. RetryBudget'
    BY <2>0, <2>j, <2>k DEF RetryBudget
  <2>3. WaitingBudget'
    BY <2>0, <2>j, <2>k DEF WaitingBudget
  <2>4. CandidatesAreCompletions'
    BY <2>0, <2>j, <2>k DEF CandidatesAreCompletions, SlotSet, IsActive
  <2>5. ManifestsAreCompletions'
    <3>1. job[j].status # "completed" /\ job'[j].status # "completed"
      BY <2>0, <2>j, <2>k DEF IsActive
    <3>2. \A k \in Job : k # j => job'[k] = job[k]
      BY <2>0, <2>j
    <3> QED
      BY <2>0, <3>1, <3>2 DEF ManifestsAreCompletions
  <2>6. ConflictsAreLost'
    BY <2>0, <2>j, <2>k DEF ConflictsAreLost
  <2>7. FailedOnlyWhenHopeless'
    BY <2>0, <2>j, <2>k DEF FailedOnlyWhenHopeless, RetriesLeft
  <2> QED
    BY <1>t, <2>1, <2>2, <2>3, <2>4, <2>5, <2>6, <2>7
<1>4. ASSUME NEW w \in Worker, ClaimNothing(w)
      PROVE  Inv'
  BY <1>t, <1>4, InvFrame DEF ClaimNothing, EndClaim
<1>5. ASSUME NEW j \in Job, NEW t \in Issued(j), Start(j, t)
      PROVE  Inv'
  <2>1. OpenCompletionOwns'
    BY <1>5 DEF Start, SetStatus, Unlocked, OpenCompletionOwns
  <2>2. RetryBudget'
    BY <1>5 DEF Start, SetStatus, Unlocked, RetryBudget
  <2>3. WaitingBudget'
    BY <1>5 DEF Start, SetStatus, Unlocked, WaitingBudget
  <2>4. CandidatesAreCompletions'
    BY <1>5 DEF Start, SetStatus, Unlocked, CandidatesAreCompletions, SlotSet
  <2>5. ManifestsAreCompletions'
    BY <1>5 DEF Start, SetStatus, Unlocked, ManifestsAreCompletions
  <2>6. ConflictsAreLost'
    BY <1>5 DEF Start, SetStatus, Unlocked, ConflictsAreLost
  <2>7. FailedOnlyWhenHopeless'
    BY <1>5 DEF Start, SetStatus, Unlocked, FailedOnlyWhenHopeless, RetriesLeft
  <2> QED
    BY <1>t, <2>1, <2>2, <2>3, <2>4, <2>5, <2>6, <2>7
<1>6. ASSUME NEW j \in Job, NEW t \in Issued(j), Heartbeat(j, t)
      PROVE  Inv'
  BY <1>t, <1>6, InvFrame DEF Heartbeat
<1>7. ASSUME NEW j \in Job, NEW t \in Issued(j), BeginComplete(j, t)
      PROVE  Inv'
  <2>1. OpenCompletionOwns'
    BY <1>7 DEF BeginComplete, Unlocked, Issued, OpenCompletionOwns
  <2>2. RetryBudget'
    BY <1>7 DEF BeginComplete, Unlocked, Issued, RetryBudget
  <2>3. WaitingBudget'
    BY <1>7 DEF BeginComplete, Unlocked, Issued, WaitingBudget
  <2>4. CandidatesAreCompletions'
    BY <1>7 DEF BeginComplete, Unlocked, Issued, CandidatesAreCompletions, SlotSet
  <2>5. ManifestsAreCompletions'
    BY <1>7 DEF BeginComplete, Unlocked, Issued, ManifestsAreCompletions
  <2>6. ConflictsAreLost'
    BY <1>7 DEF BeginComplete, Unlocked, Issued, ConflictsAreLost
  <2>7. FailedOnlyWhenHopeless'
    BY <1>7 DEF BeginComplete, Unlocked, Issued, FailedOnlyWhenHopeless, RetriesLeft
  <2> QED
    BY <1>t, <2>1, <2>2, <2>3, <2>4, <2>5, <2>6, <2>7
<1>8. ASSUME NEW j \in Job, CommitProduction(j)
      PROVE  Inv'
  <2>1. OpenCompletionOwns'
    BY <1>8 DEF CommitProduction, SetStatus, Unlocked, OpenCompletionOwns
  <2>2. RetryBudget'
    BY <1>8 DEF CommitProduction, SetStatus, Unlocked, RetryBudget
  <2>3. WaitingBudget'
    BY <1>8 DEF CommitProduction, SetStatus, Unlocked, WaitingBudget
  <2>4. CandidatesAreCompletions'
    BY <1>8 DEF CommitProduction, SetStatus, Unlocked, CandidatesAreCompletions, SlotSet
  <2>5. ManifestsAreCompletions'
    <3>1. job[j].status = "rendering" /\ tx[j] = job[j].token
      BY <1>8 DEF CommitProduction, Unlocked, OpenCompletionOwns
    <3>2. /\ job'[j].status = "completed"
          /\ job'[j].token = job[j].token
          /\ job'[j].retries = job[j].retries
          /\ \A k \in Job : k # j => job'[k] = job[k]
      BY <1>8 DEF CommitProduction, SetStatus
    <3>3. manifests' = manifests \cup
            {[job |-> j, token |-> job[j].token, attempt |-> job[j].retries + 1]}
      BY <1>8, <3>1 DEF CommitProduction
    <3>4. Kind[j] = "production"
      BY <1>8 DEF CommitProduction
    <3> QED
      BY <3>1, <3>2, <3>3, <3>4 DEF ManifestsAreCompletions
  <2>6. ConflictsAreLost'
    BY <1>8 DEF CommitProduction, SetStatus, Unlocked, ConflictsAreLost
  <2>7. FailedOnlyWhenHopeless'
    BY <1>8 DEF CommitProduction, SetStatus, Unlocked, FailedOnlyWhenHopeless, RetriesLeft
  <2> QED
    BY <1>t, <2>1, <2>2, <2>3, <2>4, <2>5, <2>6, <2>7
<1>9. ASSUME NEW j \in Job, CommitCandidate(j)
      PROVE  Inv'
  <2>1. OpenCompletionOwns'
    BY <1>9 DEF CommitCandidate, SetStatus, Unlocked, SlotSet, OpenCompletionOwns
  <2>2. RetryBudget'
    BY <1>9 DEF CommitCandidate, SetStatus, Unlocked, SlotSet, RetryBudget
  <2>3. WaitingBudget'
    BY <1>9 DEF CommitCandidate, SetStatus, Unlocked, SlotSet, WaitingBudget
  <2>4. CandidatesAreCompletions'
    BY <1>9 DEF CommitCandidate, SetStatus, Unlocked, SlotSet, CandidatesAreCompletions
  <2>5. ManifestsAreCompletions'
    BY <1>9 DEF CommitCandidate, SetStatus, Unlocked, SlotSet, ManifestsAreCompletions
  <2>6. ConflictsAreLost'
    BY <1>9 DEF CommitCandidate, SetStatus, Unlocked, SlotSet, ConflictsAreLost
  <2>7. FailedOnlyWhenHopeless'
    BY <1>9 DEF CommitCandidate, SetStatus, Unlocked, SlotSet, FailedOnlyWhenHopeless, RetriesLeft
  <2> QED
    BY <1>t, <2>1, <2>2, <2>3, <2>4, <2>5, <2>6, <2>7
<1>10. ASSUME NEW j \in Job, RollbackComplete(j)
      PROVE  Inv'
  <2>1. OpenCompletionOwns'
    BY <1>10 DEF RollbackComplete, OpenCompletionOwns
  <2>2. RetryBudget'
    BY <1>10 DEF RollbackComplete, RetryBudget
  <2>3. WaitingBudget'
    BY <1>10 DEF RollbackComplete, WaitingBudget
  <2>4. CandidatesAreCompletions'
    BY <1>10 DEF RollbackComplete, CandidatesAreCompletions, SlotSet
  <2>5. ManifestsAreCompletions'
    BY <1>10 DEF RollbackComplete, ManifestsAreCompletions
  <2>6. ConflictsAreLost'
    BY <1>10 DEF RollbackComplete, ConflictsAreLost
  <2>7. FailedOnlyWhenHopeless'
    BY <1>10 DEF RollbackComplete, FailedOnlyWhenHopeless, RetriesLeft
  <2> QED
    BY <1>t, <2>1, <2>2, <2>3, <2>4, <2>5, <2>6, <2>7
<1>11. ASSUME NEW j \in Job, ConflictComplete(j)
      PROVE  Inv'
  <2>1. OpenCompletionOwns'
    BY <1>11 DEF ConflictComplete, OpenCompletionOwns
  <2>2. RetryBudget'
    BY <1>11 DEF ConflictComplete, RetryBudget
  <2>3. WaitingBudget'
    BY <1>11 DEF ConflictComplete, WaitingBudget
  <2>4. CandidatesAreCompletions'
    BY <1>11 DEF ConflictComplete, CandidatesAreCompletions, SlotSet
  <2>5. ManifestsAreCompletions'
    BY <1>11 DEF ConflictComplete, ManifestsAreCompletions
  <2>6. ConflictsAreLost'
    <3>0. job[j].status = "rendering" /\ Slot[j] \in SlotSet
      BY <1>11 DEF ConflictComplete, Unlocked, OpenCompletionOwns, SlotSet
    <3>1. candidates[Slot[j]] # j
      BY <3>0 DEF CandidatesAreCompletions
    <3> QED
      BY <1>11, <3>0, <3>1 DEF ConflictComplete, ConflictsAreLost
  <2>7. FailedOnlyWhenHopeless'
    BY <1>11 DEF ConflictComplete, FailedOnlyWhenHopeless, RetriesLeft
  <2> QED
    BY <1>t, <2>1, <2>2, <2>3, <2>4, <2>5, <2>6, <2>7
<1>12. ASSUME NEW c \in conflict, FailConflicted(c)
      PROVE  Inv'
  <2>0. /\ c.job \in Job
        /\ tx[c.job] = 0
        /\ UNCHANGED <<defers, tx, manifests, candidates>>
        /\ conflict' \subseteq conflict
        /\ \/ UNCHANGED job
           \/ /\ job[c.job].status # "completed"
              /\ job' = [job EXCEPT ![c.job].status = "failed"]
    BY <1>12 DEF FailConflicted, SetStatus, Completion, Unlocked
  <2>1. OpenCompletionOwns'
    BY <2>0 DEF OpenCompletionOwns
  <2>2. RetryBudget'
    BY <2>0 DEF RetryBudget
  <2>3. WaitingBudget'
    BY <2>0 DEF WaitingBudget
  <2>4. CandidatesAreCompletions'
    <3>1. \A k \in Job : (job[k].status = "completed") <=> (job'[k].status = "completed")
      <4>1. CASE UNCHANGED job
        BY <4>1
      <4>2. CASE /\ job[c.job].status # "completed"
                 /\ job' = [job EXCEPT ![c.job].status = "failed"]
        BY <2>0, <4>2
      <4> QED
        BY <2>0, <4>1, <4>2
    <3> QED
      BY <2>0, <3>1 DEF CandidatesAreCompletions, SlotSet
  <2>5. ManifestsAreCompletions'
    <3>1. \A k \in Job : /\ (job[k].status = "completed") <=> (job'[k].status = "completed")
                         /\ job'[k].token = job[k].token
                         /\ job'[k].retries = job[k].retries
      <4>1. CASE UNCHANGED job
        BY <4>1
      <4>2. CASE /\ job[c.job].status # "completed"
                 /\ job' = [job EXCEPT ![c.job].status = "failed"]
        BY <2>0, <4>2
      <4> QED
        BY <2>0, <4>1, <4>2
    <3> QED
      BY <2>0, <3>1 DEF ManifestsAreCompletions
  <2>6. ConflictsAreLost'
    BY <2>0 DEF ConflictsAreLost
  <2>7. FailedOnlyWhenHopeless'
    <3>1. Kind[c.job] = "candidate" /\ candidates[Slot[c.job]] \notin {c.job, NoJob}
      BY DEF ConflictsAreLost
    <3>2. \A k \in Job : /\ job'[k].retries = job[k].retries
                         /\ k # c.job => job'[k] = job[k]
      <4>1. CASE UNCHANGED job
        BY <4>1
      <4>2. CASE job' = [job EXCEPT ![c.job].status = "failed"]
        <5>1. job \in [Job -> Row] /\ \A k \in Job : job[k] \in Row
          BY DEF TypeOK
        <5> HIDE DEF Inv, TypeOK
        <5> QED
          BY <4>2, <5>1 DEF Row
      <4> QED
        BY <2>0, <4>1, <4>2
    <3>3. ASSUME NEW k \in Job, job'[k].status = "failed"
          PROVE  \/ ~RetriesLeft(k)'
                 \/ Kind[k] = "candidate" /\ candidates'[Slot[k]] \notin {k, NoJob}
      <4>1. CASE k = c.job
        BY <2>0, <3>1, <4>1
      <4>2. CASE k # c.job
        BY <2>0, <3>2, <3>3, <4>2 DEF FailedOnlyWhenHopeless, RetriesLeft
      <4> QED
        BY <4>1, <4>2
    <3> QED
      BY <3>3 DEF FailedOnlyWhenHopeless
  <2> QED
    BY <1>t, <2>1, <2>2, <2>3, <2>4, <2>5, <2>6, <2>7
<1>13. ASSUME NEW c \in conflict, LoseConflict(c)
      PROVE  Inv'
  <2>1. OpenCompletionOwns'
    BY <1>13 DEF LoseConflict, OpenCompletionOwns
  <2>2. RetryBudget'
    BY <1>13 DEF LoseConflict, RetryBudget
  <2>3. WaitingBudget'
    BY <1>13 DEF LoseConflict, WaitingBudget
  <2>4. CandidatesAreCompletions'
    BY <1>13 DEF LoseConflict, CandidatesAreCompletions, SlotSet
  <2>5. ManifestsAreCompletions'
    BY <1>13 DEF LoseConflict, ManifestsAreCompletions
  <2>6. ConflictsAreLost'
    BY <1>13 DEF LoseConflict, ConflictsAreLost
  <2>7. FailedOnlyWhenHopeless'
    BY <1>13 DEF LoseConflict, FailedOnlyWhenHopeless, RetriesLeft
  <2> QED
    BY <1>t, <2>1, <2>2, <2>3, <2>4, <2>5, <2>6, <2>7
<1>14. ASSUME NEW j \in Job, NEW t \in Issued(j), Fail(j, t)
      PROVE  Inv'
  <2>0. /\ IsActive(j)
        /\ tx[j] = 0
        /\ \A k \in Job : k # j => job'[k] = job[k]
        /\ job'[j].token = job[j].token
        /\ \/ /\ job[j].retries < MaxRetries[j]
              /\ job'[j].status = "queued"
              /\ job'[j].retries = job[j].retries + 1
           \/ /\ ~(job[j].retries < MaxRetries[j])
              /\ job'[j].status = "failed"
              /\ job'[j].retries = job[j].retries
        /\ UNCHANGED <<defers, tx, conflict, manifests, candidates>>
    BY <1>14 DEF Fail, Holds, RetriesLeft, SetStatus, Unlocked
  <2>c. job[j].status # "completed" /\ job'[j].status # "completed"
    BY <2>0 DEF IsActive
  <2>1. OpenCompletionOwns'
    BY <2>0 DEF OpenCompletionOwns
  <2>2. RetryBudget'
    BY <2>0 DEF RetryBudget
  <2>3. WaitingBudget'
    BY <2>0 DEF WaitingBudget, RetryBudget
  <2>4. CandidatesAreCompletions'
    <3>1. \A k \in Job : (job[k].status = "completed") <=> (job'[k].status = "completed")
      BY <2>0, <2>c
    <3>2. \A s \in SlotSet : candidates[s] # NoJob => candidates[s] \in Job
      OBVIOUS
    <3>3. candidates' = candidates
      BY <2>0
    <3> QED
      BY <3>1, <3>2, <3>3 DEF CandidatesAreCompletions
  <2>5. ManifestsAreCompletions'
    BY <2>0, <2>c DEF ManifestsAreCompletions
  <2>6. ConflictsAreLost'
    BY <2>0 DEF ConflictsAreLost
  <2>7. FailedOnlyWhenHopeless'
    BY <2>0 DEF FailedOnlyWhenHopeless, RetriesLeft
  <2> QED
    BY <1>t, <2>1, <2>2, <2>3, <2>4, <2>5, <2>6, <2>7
<1>15. ASSUME NEW j \in Job, NEW t \in Issued(j), Defer(j, t)
      PROVE  Inv'
  <2>1. OpenCompletionOwns'
    BY <1>15 DEF Defer, Holds, IsActive, SetStatus, Unlocked, OpenCompletionOwns
  <2>2. RetryBudget'
    BY <1>15 DEF Defer, Holds, IsActive, SetStatus, Unlocked, RetryBudget
  <2>3. WaitingBudget'
    BY <1>15 DEF Defer, SetStatus, WaitingBudget, RetryBudget
  <2>4. CandidatesAreCompletions'
    BY <1>15 DEF Defer, Holds, IsActive, SetStatus, Unlocked, CandidatesAreCompletions, SlotSet
  <2>5. ManifestsAreCompletions'
    BY <1>15 DEF Defer, Holds, IsActive, SetStatus, Unlocked, ManifestsAreCompletions
  <2>6. ConflictsAreLost'
    BY <1>15 DEF Defer, Holds, IsActive, SetStatus, Unlocked, ConflictsAreLost
  <2>7. FailedOnlyWhenHopeless'
    BY <1>15 DEF Defer, Holds, IsActive, SetStatus, Unlocked, FailedOnlyWhenHopeless, RetriesLeft
  <2> QED
    BY <1>t, <2>1, <2>2, <2>3, <2>4, <2>5, <2>6, <2>7
<1>16. ASSUME NEW j \in Job, Expire(j)
      PROVE  Inv'
  BY <1>t, <1>16, InvFrame DEF Expire
<1>17. CASE MoveGate \/ UNCHANGED vars
  BY <1>t, <1>17, InvFrame DEF MoveGate, vars
<1> QED
  BY <1>1, <1>2, <1>3, <1>4, <1>5, <1>6, <1>7, <1>8, <1>9, <1>10, <1>11, <1>12, <1>13, <1>14, <1>15, <1>16, <1>17 DEF Next, Claim, Call, Settle

\* The queue keeps every invariant its runs check: one manifest per completed
\* production job, written by its last lease; one completed job per candidate
\* slot; retries within max_retries and leases within retries and deferrals;
\* no job failed with a chance left; no completion that lost its row.
LEMMA QueueInvariant == Spec => []Inv
BY InitInv, InvStep, PTL DEF Spec

\* One manifest per completed production job, of its last lease (complete).
THEOREM QueueExactlyOnce == Spec => []ManifestsAreCompletions
<1>1. Inv => ManifestsAreCompletions
  BY DEF Inv
<1> QED
  BY <1>1, QueueInvariant, PTL

\* A candidate row belongs to the one completed job of its slot, however often
\* the job was leased and whoever reported (insertCandidateRow, ON CONFLICT).
THEOREM QueueFillsSlotsOnce == Spec => []CandidatesAreCompletions
<1>1. Inv => CandidatesAreCompletions
  BY DEF Inv
<1> QED
  BY <1>1, QueueInvariant, PTL

\* Retries stay within max_retries, leases within retries and deferrals.
THEOREM QueueRetryBudget == Spec => []RetryBudget
<1>1. Inv => RetryBudget
  BY DEF Inv
<1> QED
  BY <1>1, QueueInvariant, PTL

\* Only a job without a retry left, or whose slot is another's, is failed.
THEOREM QueueFailedOnlyWhenHopeless == Spec => []FailedOnlyWhenHopeless
<1>1. Inv => FailedOnlyWhenHopeless
  BY DEF Inv
<1> QED
  BY <1>1, QueueInvariant, PTL

\* completed and failed are final for every sequence of calls.
LEMMA TerminalStep ==
  ASSUME Inv, [Next]_vars, NEW k \in Job, job[k].status \in Terminal
  PROVE  job'[k] = job[k]
<1> USE DEF Inv, TypeOK, Row
<1>1. ASSUME NEW j \in Job, Enqueue(j) PROVE job'[k] = job[k]
  BY <1>1 DEF Enqueue, SetStatus
<1>2. ASSUME NEW w \in Worker, BeginClaim(w) PROVE job'[k] = job[k]
  BY <1>2 DEF BeginClaim, Exhausted, Expired, IsActive
<1>3. ASSUME NEW w \in Worker, ClaimRow(w) PROVE job'[k] = job[k]
  <2>1. PICK j \in Claimable(w) : job' = [job EXCEPT ![j] = Leased(j)]
    BY <1>3 DEF ClaimRow, IsOldest
  <2>2. j # k
    BY <2>1 DEF Claimable, Expired, IsActive
  <2> QED
    BY <2>1, <2>2
<1>4. ASSUME NEW w \in Worker, ClaimNothing(w) PROVE job'[k] = job[k]
  BY <1>4 DEF ClaimNothing
<1>5. ASSUME NEW j \in Job, NEW t \in Issued(j), Call(j, t) PROVE job'[k] = job[k]
  BY <1>5 DEF Call, Start, Heartbeat, BeginComplete, Fail, Defer, SetStatus, Holds, IsActive
<1>6. ASSUME NEW j \in Job, Settle(j) PROVE job'[k] = job[k]
  BY <1>6 DEF Settle, CommitProduction, CommitCandidate, RollbackComplete, ConflictComplete,
              SetStatus, Unlocked, OpenCompletionOwns
<1>7. ASSUME NEW c \in conflict, FailConflicted(c) \/ LoseConflict(c) PROVE job'[k] = job[k]
  <2>1. c.job \in Job
    BY DEF ConflictsAreLost
  <2> QED
    BY <1>7, <2>1 DEF FailConflicted, LoseConflict, SetStatus
<1>8. CASE \/ \E j \in Job : Expire(j)
           \/ MoveGate
           \/ UNCHANGED vars
  BY <1>8 DEF Expire, MoveGate, vars
<1> QED
  BY <1>1, <1>2, <1>3, <1>4, <1>5, <1>6, <1>7, <1>8 DEF Next, Claim

\* No operation, replay or sweep changes a completed or failed row.
THEOREM QueueTerminalIsFinal == Spec => TerminalIsFinal
<1>1. Inv /\ [Next]_vars
        => [\A j \in Job : job[j].status \in Terminal => job'[j] = job[j]]_vars
  BY TerminalStep
<1> QED
  BY <1>1, QueueInvariant, PTL DEF Spec, TerminalIsFinal

-----------------------------------------------------------------------------
(***************************************************************************)
(* The queue implements JobLifecycle: a step of the queue is a step of the *)
(* job it touches, a sweep buries the exhausted jobs together, and the     *)
(* steps of the gate, of claims that find nothing and of open transactions *)
(* are stuttering steps.                                                   *)
(***************************************************************************)
LEMMA RefineInit == Init => Lifecycle!Init
BY DEF Init, Lifecycle!Init, PhaseOf

LEMMA RefineStep == Inv /\ [Next]_vars => [Lifecycle!Next]_(Lifecycle!lifecycleVars)
<1> SUFFICES ASSUME Inv, [Next]_vars PROVE [Lifecycle!Next]_(Lifecycle!lifecycleVars)
  OBVIOUS
<1> USE DEF Inv, TypeOK, Row
<1>1. ASSUME NEW j \in Job, Enqueue(j) PROVE Lifecycle!Submit(j)
  BY <1>1 DEF Enqueue, SetStatus, Lifecycle!Submit, PhaseOf
<1>2. ASSUME NEW w \in Worker, BeginClaim(w) PROVE Lifecycle!Bury(Exhausted)
  <2>1. \A k \in Exhausted : job[k].status \in Active
    BY DEF Exhausted, Expired, IsActive
  <2>2. /\ \A k \in Exhausted : job'[k].status = "failed"
        /\ \A k \in Job \ Exhausted : job'[k] = job[k]
        /\ \A k \in Job : job'[k].token = job[k].token
        /\ live' = live
    BY <1>2 DEF BeginClaim, Exhausted
  <2> QED
    BY <2>1, <2>2 DEF Lifecycle!Bury, PhaseOf, Exhausted
<1>3. ASSUME NEW w \in Worker, ClaimRow(w) PROVE \E j \in Job : Lifecycle!Grant(j)
  <2>1. PICK j \in Claimable(w) : job' = [job EXCEPT ![j] = Leased(j)] /\ live' = live \cup {j}
    BY <1>3 DEF ClaimRow, IsOldest
  <2>2. /\ j \in Job
        /\ (job[j].status = "queued") \/ (job[j].status \in Active /\ j \notin live)
    <3>1. j \in Serves[w] /\ Serves[w] \subseteq Job
      BY <2>1, ServesAssumption DEF Claimable
    <3>2. (job[j].status = "queued") \/ Expired(j)
      BY <2>1 DEF Claimable
    <3> QED
      BY <3>1, <3>2 DEF Expired, IsActive
  <2>3. Leased(j).status = "leased" /\ Leased(j).token = job[j].token + 1
    BY DEF Leased
  <2>4. Lifecycle!Grant(j)
    BY <2>1, <2>2, <2>3 DEF Lifecycle!Grant, PhaseOf
  <2> QED
    BY <2>2, <2>4
<1>4. ASSUME job' = job, live' = live PROVE UNCHANGED Lifecycle!lifecycleVars
  BY <1>4 DEF Lifecycle!lifecycleVars, PhaseOf
<1>5. ASSUME NEW j \in Job, NEW t \in Issued(j), Start(j, t)
      PROVE  UNCHANGED Lifecycle!lifecycleVars
  BY <1>5 DEF Start, SetStatus, Lifecycle!lifecycleVars, PhaseOf
<1>6. ASSUME NEW j \in Job, NEW t \in Issued(j), Heartbeat(j, t) PROVE Lifecycle!Renew(j)
  BY <1>6 DEF Heartbeat, Holds, IsActive, Lifecycle!Renew, PhaseOf
<1>7. ASSUME NEW j \in Job, NEW t \in Issued(j), Fail(j, t)
      PROVE  Lifecycle!Release(j) \/ Lifecycle!Bury({j})
  <2>0. job[j].status \in Active
    BY <1>7 DEF Fail, Holds, IsActive
  <2>1. CASE RetriesLeft(j)
    BY <1>7, <2>0, <2>1 DEF Fail, Lifecycle!Release, PhaseOf
  <2>2. CASE ~RetriesLeft(j)
    BY <1>7, <2>0, <2>2 DEF Fail, SetStatus, Lifecycle!Bury, PhaseOf
  <2> QED
    BY <2>1, <2>2
<1>8. ASSUME NEW j \in Job, NEW t \in Issued(j), Defer(j, t) PROVE Lifecycle!Release(j)
  BY <1>8 DEF Defer, SetStatus, Holds, IsActive, Lifecycle!Release, PhaseOf
<1>9. ASSUME NEW j \in Job, CommitProduction(j) \/ CommitCandidate(j)
      PROVE  Lifecycle!Finish(j)
  <2>1. job[j].status = "rendering"
    BY <1>9 DEF CommitProduction, CommitCandidate, Unlocked, OpenCompletionOwns
  <2>2. /\ job' = [job EXCEPT ![j].status = "completed"]
        /\ live' = live
    BY <1>9 DEF CommitProduction, CommitCandidate, SetStatus
  <2>3. /\ job'[j].status = "completed" /\ job'[j].token = job[j].token
        /\ \A k \in Job : k # j => job'[k] = job[k]
        /\ \A k \in Job : job'[k].token = job[k].token
    BY <2>2
  <2> QED
    BY <2>1, <2>2, <2>3 DEF Lifecycle!Finish, PhaseOf
<1>10. ASSUME NEW c \in conflict, FailConflicted(c)
       PROVE  Lifecycle!Bury({c.job}) \/ UNCHANGED Lifecycle!lifecycleVars
  <2>1. c.job \in Job /\ job[c.job].status # "absent"
    BY DEF ConflictsAreLost
  <2>2. CASE job[c.job].status \in Terminal
    BY <1>10, <2>1, <2>2 DEF FailConflicted, SetStatus, Lifecycle!lifecycleVars, PhaseOf
  <2>3. CASE job[c.job].status \notin Terminal
    BY <1>10, <2>1, <2>3 DEF FailConflicted, SetStatus, Lifecycle!Bury, PhaseOf
  <2> QED
    BY <2>2, <2>3
<1>11. ASSUME NEW j \in Job, Expire(j) PROVE Lifecycle!Lapse(j)
  BY <1>11 DEF Expire, Lifecycle!Lapse, PhaseOf
<1>12. ASSUME NEW w \in Worker, Claim(w) PROVE [Lifecycle!Next]_(Lifecycle!lifecycleVars)
  <2>1. Exhausted \in SUBSET Job
    BY DEF Exhausted
  <2> QED
    BY <1>2, <1>3, <1>4, <1>12, <2>1 DEF Claim, ClaimNothing, Lifecycle!Next
<1>13. ASSUME NEW j \in Job, NEW t \in Issued(j), Call(j, t)
       PROVE  [Lifecycle!Next]_(Lifecycle!lifecycleVars)
  BY <1>4, <1>5, <1>6, <1>7, <1>8, <1>13 DEF Call, BeginComplete, Lifecycle!Next
<1>14. ASSUME NEW j \in Job, Settle(j) PROVE [Lifecycle!Next]_(Lifecycle!lifecycleVars)
  BY <1>4, <1>9, <1>14 DEF Settle, RollbackComplete, ConflictComplete, Lifecycle!Next
<1>15. ASSUME NEW c \in conflict, FailConflicted(c) \/ LoseConflict(c)
       PROVE  [Lifecycle!Next]_(Lifecycle!lifecycleVars)
  <2>1. {c.job} \in SUBSET Job
    BY DEF ConflictsAreLost
  <2> QED
    BY <1>4, <1>10, <1>15, <2>1 DEF LoseConflict, Lifecycle!Next
<1>16. CASE MoveGate \/ UNCHANGED vars
  BY <1>4, <1>16 DEF MoveGate, vars
<1> QED
  BY <1>1, <1>11, <1>12, <1>13, <1>14, <1>15, <1>16 DEF Next, Lifecycle!Next

\* The queue keeps the dispatch contract of JobLifecycle for every job:
\* at most one living lease, epochs that only grow, one result per job,
\* left by the lease that owned the job.
THEOREM QueueImplementsLifecycle == Spec => ImplementsLifecycle
BY RefineInit, RefineStep, QueueInvariant, PTL DEF Spec, ImplementsLifecycle, Lifecycle!Spec
=============================================================================
