--------------------------- MODULE RenderJobQueue ---------------------------
(***************************************************************************)
(* The durable render queue: the table render_jobs and the operations of   *)
(* PostgresJobQueue on it.  Every operation is one SQL statement or one    *)
(* transaction; an operation that is several of them (claim, complete) is  *)
(* several actions, so that everything else may happen in between.         *)
(*                                                                         *)
(* Any token ever handed out for a job may be presented at any time, any   *)
(* number of times: that is what a worker behind a lossy network, a        *)
(* superseded worker and a retried request look like from the database.    *)
(*                                                                         *)
(* lease_token is a fresh uuid per claim that is only ever compared with   *)
(* the token of the same row, so the n-th token of a row is the number n.  *)
(***************************************************************************)
EXTENDS Naturals, FiniteSets

CONSTANTS
  Job,         \* jobs, numbered in the order of (created_at, job_id)
  Kind,        \* Kind[j]: job_kind, "candidate" or "production"
  Slot,        \* Slot[j]: the (scene, revision, variant, beat) a candidate
               \* job fills
  MaxRetries,  \* MaxRetries[j]: max_retries
  Worker,      \* the callers of claim
  Serves,      \* Serves[w]: the jobs of the kinds and scopes w asks for
  MaxDefers    \* bound: how often one job is deferred

JobKind == {"candidate", "production"}
NoJob == 0
SlotSet == {Slot[j] : j \in Job}

ASSUME JobAssumption == Job \subseteq Nat \ {NoJob}
ASSUME KindAssumption == Kind \in [Job -> JobKind]
ASSUME RetriesAssumption == MaxRetries \in [Job -> Nat]
ASSUME ServesAssumption == Serves \in [Worker -> SUBSET Job]
ASSUME DefersAssumption == MaxDefers \in Nat

VARIABLES
  job,         \* job[j]: the row's status, lease_token and retry_count
  live,        \* the rows with lease_expires_at > NOW()
  defers,      \* how often each job was deferred (history)
  gate,        \* the job kinds the storage-admission gate admits now
  claiming,    \* claiming[w]: the kinds a claim in flight found admissible
  tx,          \* tx[j]: the token of the open transaction completing j, or 0
  conflict,    \* completions that lost their slot, rolled back and not yet
               \* followed by the clean-up statement
  manifests,   \* rows of generation_manifests
  candidates   \* candidates[s]: the job whose row of storyboard_candidates
               \* fills slot s

vars == <<job, live, defers, gate, claiming, tx, conflict, manifests, candidates>>

-----------------------------------------------------------------------------
Active == {"leased", "rendering"}
Terminal == {"completed", "failed"}
Status == {"absent", "queued"} \cup Active \cup Terminal
Row == [status : Status, token : Nat, retries : Nat]
Completion == [job : Job, token : Nat]
Manifest == [job : Job, token : Nat, attempt : Nat]

\* What the gate can answer: normal and warning watermarks admit everything,
\* degraded only production, critical nothing.
GateAnswer == {JobKind, {"production"}, {}}

TypeOK ==
  /\ job \in [Job -> Row]
  /\ live \subseteq Job
  /\ defers \in [Job -> 0 .. MaxDefers]
  /\ gate \in GateAnswer
  /\ claiming \in [Worker -> GateAnswer]
  /\ tx \in [Job -> Nat]
  /\ conflict \subseteq Completion
  /\ manifests \subseteq Manifest
  /\ candidates \in [SlotSet -> Job \cup {NoJob}]

Init ==
  /\ job = [j \in Job |-> [status |-> "absent", token |-> 0, retries |-> 0]]
  /\ live = {}
  /\ defers = [j \in Job |-> 0]
  /\ gate = JobKind
  /\ claiming = [w \in Worker |-> {}]
  /\ tx = [j \in Job |-> 0]
  /\ conflict = {}
  /\ manifests = {}
  /\ candidates = [s \in SlotSet |-> NoJob]

-----------------------------------------------------------------------------
Issued(j) == 1 .. job[j].token
IsActive(j) == job[j].status \in Active
Unlocked(j) == tx[j] = 0
Holds(j, t) == IsActive(j) /\ job[j].token = t
Expired(j) == IsActive(j) /\ j \notin live
RetriesLeft(j) == job[j].retries < MaxRetries[j]
SetStatus(j, s) == job' = [job EXCEPT ![j].status = s]

\* insertRenderJob
Enqueue(j) ==
  /\ job[j].status = "absent"
  /\ SetStatus(j, "queued")
  /\ UNCHANGED <<live, defers, gate, claiming, tx, conflict, manifests, candidates>>

-----------------------------------------------------------------------------
\* claim, first statement, committed on its own: whatever has expired with no
\* retry left fails, for every kind and scope.  Then the gate is asked; with
\* nothing admissible the claim returns undefined.
Exhausted == {j \in Job : Expired(j) /\ ~RetriesLeft(j)}

\* Mutant: the claim forgets the statement that fails what is exhausted.
BeginClaimWithoutSweep(w) ==
  /\ claiming[w] = {}
  /\ claiming' = [claiming EXCEPT ![w] = gate]
  /\ UNCHANGED <<job, live, defers, gate, tx, conflict, manifests, candidates>>

BeginClaim(w) ==
  /\ claiming[w] = {}
  /\ \A j \in Exhausted : Unlocked(j)
  /\ job' = [j \in Job |-> IF j \in Exhausted
                           THEN [job[j] EXCEPT !.status = "failed"]
                           ELSE job[j]]
  /\ claiming' = [claiming EXCEPT ![w] = gate]
  /\ UNCHANGED <<live, defers, gate, tx, conflict, manifests, candidates>>

\* Mutant: an active row is reclaimed whether its lease has expired or not.
ClaimableUnexpired(w) ==
  {j \in Serves[w] : /\ \/ job[j].status = "queued"
                        \/ IsActive(j) /\ RetriesLeft(j)
                     /\ Kind[j] \in claiming[w]
                     /\ Unlocked(j)}

\* claim, the transaction: rows locked by another transaction are skipped.
Claimable(w) ==
  {j \in Serves[w] : /\ \/ job[j].status = "queued"
                        \/ Expired(j) /\ RetriesLeft(j)
                     /\ Kind[j] \in claiming[w]
                     /\ Unlocked(j)}

\* ORDER BY created_at, job_id LIMIT 1
IsOldest(j, S) == j \in S /\ \A k \in S : j <= k

\* Mutant: a reclaim does not count as a retry.
LeasedForFree(j) ==
  [status |-> "leased", token |-> job[j].token + 1, retries |-> job[j].retries]

Leased(j) ==
  [status |-> "leased",
   token |-> job[j].token + 1,
   retries |-> job[j].retries + (IF IsActive(j) THEN 1 ELSE 0)]

EndClaim(w) ==
  /\ claiming' = [claiming EXCEPT ![w] = {}]
  /\ UNCHANGED <<defers, gate, tx, conflict, manifests, candidates>>

ClaimRow(w) ==
  /\ claiming[w] # {}
  /\ \E j \in Job :
       /\ IsOldest(j, Claimable(w))
       /\ Kind[j] \in gate
       /\ job' = [job EXCEPT ![j] = Leased(j)]
       /\ live' = live \cup {j}
  /\ EndClaim(w)

\* No row, or the gate no longer admits the one picked: ROLLBACK.
ClaimNothing(w) ==
  /\ claiming[w] # {}
  /\ \A j \in Job : IsOldest(j, Claimable(w)) => Kind[j] \notin gate
  /\ UNCHANGED <<job, live>>
  /\ EndClaim(w)

-----------------------------------------------------------------------------
Start(j, t) ==
  /\ job[j].status = "leased"
  /\ job[j].token = t
  /\ Unlocked(j)
  /\ SetStatus(j, "rendering")
  /\ UNCHANGED <<live, defers, gate, claiming, tx, conflict, manifests, candidates>>

\* Nothing asks whether the lease is still alive: an expired one is revived
\* as long as nobody has reclaimed the row.
Heartbeat(j, t) ==
  /\ Holds(j, t)
  /\ Unlocked(j)
  /\ live' = live \cup {j}
  /\ UNCHANGED <<job, defers, gate, claiming, tx, conflict, manifests, candidates>>

\* Mutant: complete does not compare the token.
BeginCompleteUnfenced(j, t) ==
  /\ job[j].status = "rendering"
  /\ Unlocked(j)
  /\ tx' = [tx EXCEPT ![j] = t]
  /\ UNCHANGED <<job, live, defers, gate, claiming, conflict, manifests, candidates>>

\* complete, BEGIN and its UPDATE: the row is locked, the change invisible.
BeginComplete(j, t) ==
  /\ job[j].status = "rendering"
  /\ job[j].token = t
  /\ Unlocked(j)
  /\ tx' = [tx EXCEPT ![j] = t]
  /\ UNCHANGED <<job, live, defers, gate, claiming, conflict, manifests, candidates>>

CommitProduction(j) ==
  /\ ~Unlocked(j)
  /\ Kind[j] = "production"
  /\ \A m \in manifests : m.job # j
  /\ SetStatus(j, "completed")
  /\ manifests' = manifests \cup
       {[job |-> j, token |-> tx[j], attempt |-> job[j].retries + 1]}
  /\ tx' = [tx EXCEPT ![j] = 0]
  /\ UNCHANGED <<live, defers, gate, claiming, conflict, candidates>>

\* Mutant: the candidate row replaces the one that fills the slot.
CommitCandidateOverwriting(j) ==
  /\ ~Unlocked(j)
  /\ Kind[j] = "candidate"
  /\ SetStatus(j, "completed")
  /\ candidates' = [candidates EXCEPT ![Slot[j]] = j]
  /\ tx' = [tx EXCEPT ![j] = 0]
  /\ UNCHANGED <<live, defers, gate, claiming, conflict, manifests>>

CommitCandidate(j) ==
  /\ ~Unlocked(j)
  /\ Kind[j] = "candidate"
  /\ candidates[Slot[j]] = NoJob
  /\ SetStatus(j, "completed")
  /\ candidates' = [candidates EXCEPT ![Slot[j]] = j]
  /\ tx' = [tx EXCEPT ![j] = 0]
  /\ UNCHANGED <<live, defers, gate, claiming, conflict, manifests>>

\* An invalid payload, or a connection that dies: ROLLBACK.
RollbackComplete(j) ==
  /\ ~Unlocked(j)
  /\ tx' = [tx EXCEPT ![j] = 0]
  /\ UNCHANGED <<job, live, defers, gate, claiming, conflict, manifests, candidates>>

\* The insert violates the uniqueness of the candidate slot: ROLLBACK, and
\* the handler goes on to fail the job with a statement of its own.
ConflictComplete(j) ==
  /\ ~Unlocked(j)
  /\ Kind[j] = "candidate"
  /\ candidates[Slot[j]] # NoJob
  /\ conflict' = conflict \cup {[job |-> j, token |-> tx[j]]}
  /\ tx' = [tx EXCEPT ![j] = 0]
  /\ UNCHANGED <<job, live, defers, gate, claiming, manifests, candidates>>

\* That statement: WHERE job_id = $1 AND status <> 'completed', no token.
FailConflicted(c) ==
  /\ c \in conflict
  /\ Unlocked(c.job)
  /\ IF job[c.job].status = "completed" THEN UNCHANGED job
                                        ELSE SetStatus(c.job, "failed")
  /\ conflict' = conflict \ {c}
  /\ UNCHANGED <<live, defers, gate, claiming, tx, manifests, candidates>>

\* The process dies between the two.
LoseConflict(c) ==
  /\ c \in conflict
  /\ conflict' = conflict \ {c}
  /\ UNCHANGED <<job, live, defers, gate, claiming, tx, manifests, candidates>>

\* Mutant: the last retry is never used.
FailOneEarly(j, t) ==
  /\ Holds(j, t)
  /\ Unlocked(j)
  /\ job[j].retries + 1 >= MaxRetries[j]
  /\ SetStatus(j, "failed")
  /\ UNCHANGED <<live, defers, gate, claiming, tx, conflict, manifests, candidates>>

Fail(j, t) ==
  /\ Holds(j, t)
  /\ Unlocked(j)
  /\ IF RetriesLeft(j)
     THEN /\ job' = [job EXCEPT ![j].status = "queued", ![j].retries = @ + 1]
          /\ live' = live \ {j}
     ELSE /\ SetStatus(j, "failed")
          /\ UNCHANGED live
  /\ UNCHANGED <<defers, gate, claiming, tx, conflict, manifests, candidates>>

Defer(j, t) ==
  /\ Holds(j, t)
  /\ Unlocked(j)
  /\ defers[j] < MaxDefers
  /\ SetStatus(j, "queued")
  /\ live' = live \ {j}
  /\ defers' = [defers EXCEPT ![j] = @ + 1]
  /\ UNCHANGED <<gate, claiming, tx, conflict, manifests, candidates>>

-----------------------------------------------------------------------------
\* The clock passes lease_expires_at.
Expire(j) ==
  /\ j \in live
  /\ live' = live \ {j}
  /\ UNCHANGED <<job, defers, gate, claiming, tx, conflict, manifests, candidates>>

\* The storage watermark moves.
MoveGate ==
  /\ gate' \in GateAnswer \ {gate}
  /\ UNCHANGED <<job, live, defers, claiming, tx, conflict, manifests, candidates>>

Settle(j) ==
  \/ CommitProduction(j) \/ CommitCandidate(j)
  \/ RollbackComplete(j) \/ ConflictComplete(j)

Call(j, t) ==
  \/ Start(j, t) \/ Heartbeat(j, t) \/ BeginComplete(j, t)
  \/ Fail(j, t) \/ Defer(j, t)

Claim(w) == BeginClaim(w) \/ ClaimRow(w) \/ ClaimNothing(w)

Next ==
  \/ \E w \in Worker : Claim(w)
  \/ \E j \in Job : \/ Enqueue(j) \/ Settle(j) \/ Expire(j)
                    \/ \E t \in Issued(j) : Call(j, t)
  \/ \E c \in conflict : FailConflicted(c) \/ LoseConflict(c)
  \/ MoveGate

Spec == Init /\ [][Next]_vars

-----------------------------------------------------------------------------
(***************************************************************************)
(* Safety.                                                                 *)
(***************************************************************************)
\* The manifests are exactly one per completed production job, written by
\* the last lease the job was given and numbered by its retries (complete,
\* the transaction of the UPDATE and the INSERT): a superseded holder, a
\* duplicated or a late completion never leaves a second or a foreign one.
ManifestsAreCompletions ==
  manifests = {[job |-> j, token |-> job[j].token, attempt |-> job[j].retries + 1] :
                 j \in {k \in Job : /\ Kind[k] = "production"
                                    /\ job[k].status = "completed"}}

\* A candidate slot is filled by the one completed job that targets it, and
\* every completed candidate job fills its slot (complete, insertCandidateRow
\* and the uniqueness of storyboard_candidates): the "inconsistent duplicate
\* state" errors of complete are unreachable.
CandidatesAreCompletions ==
  /\ \A s \in SlotSet : candidates[s] # NoJob =>
       /\ Slot[candidates[s]] = s
       /\ Kind[candidates[s]] = "candidate"
       /\ job[candidates[s]].status = "completed"
  /\ \A j \in Job : Kind[j] = "candidate" /\ job[j].status = "completed"
       => candidates[Slot[j]] = j

\* Retries never pass max_retries (the table's CHECK would make the statement
\* fail), and a job is given at most one lease per attempt plus one per
\* deferral, however claims, reclaims, failures and deferrals interleave.
RetryBudget ==
  \A j \in Job :
    /\ job[j].retries <= MaxRetries[j]
    /\ job[j].token <= 1 + job[j].retries + defers[j]

\* A job fails only when its retries are spent, or when another job has
\* taken its candidate slot for good (fail, claim and the branch of complete
\* for a lost slot).
FailedOnlyWhenHopeless ==
  \A j \in Job : job[j].status = "failed" =>
    \/ ~RetriesLeft(j)
    \/ Kind[j] = "candidate" /\ candidates[Slot[j]] \notin {j, NoJob}

\* An open completion belongs to the lease that still owns the row: nothing
\* gets between the UPDATE of complete and its COMMIT.
OpenCompletionOwns ==
  \A j \in Job : tx[j] # 0 => job[j].status = "rendering" /\ job[j].token = tx[j]

\* No operation, replay or sweep moves a row out of completed or failed.
TerminalIsFinal ==
  [][\A j \in Job : job[j].status \in Terminal => job'[j] = job[j]]_vars

\* The dispatch contract, implemented: ownership, epochs and results.
PhaseOf(j) ==
  CASE job[j].status = "absent" -> "absent"
    [] job[j].status = "queued" -> "waiting"
    [] job[j].status \in Active -> "owned"
    [] job[j].status = "completed" -> "done"
    [] job[j].status = "failed" -> "dead"

Lifecycle == INSTANCE JobLifecycle WITH
  phase <- [j \in Job |-> PhaseOf(j)],
  epoch <- [j \in Job |-> job[j].token],
  alive <- live,
  result <- [j \in Job |-> IF job[j].status = "completed" THEN job[j].token ELSE 0]

ImplementsLifecycle == Lifecycle!Spec
=============================================================================
