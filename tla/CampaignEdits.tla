---------------------------- MODULE CampaignEdits ----------------------------
(***************************************************************************)
(* A planned campaign before production: the director edits, approves and  *)
(* replans its scenes, with commands that are late, repeated, or sent      *)
(* under an id that was used before.  Each delivery of a command is a      *)
(* database transaction (READ COMMITTED): it takes row locks one after the *)
(* other, reads what it has locked and what nobody locks (the duration     *)
(* plan and its bindings), and commits what it computed from that.  The    *)
(* approval that completes the campaign creates the production run, which  *)
(* ProductionRun takes up.                                                 *)
(*                                                                         *)
(* The campaign has a duration plan, so that a change of a scene's engine  *)
(* or duration alone is always refused (review-scene.ts:786) and has no    *)
(* action.  Commands of one scene whose id and bindings do not matter here *)
(* are one step: a selection, a reroll.  Candidates and shot plans are     *)
(* made in ShotPlanning; here there is one of every revision.              *)
(***************************************************************************)
EXTENDS Naturals, Sequences, FiniteSets, SceneAggregate

CONSTANTS SceneId,      \* scenes, numbered in the order of the campaign
          Session,      \* deliveries under way
          Action,       \* ids of commands
          MaxRevision,  \* bound on the revisions of a scene
          MaxRequests   \* bound on the commands sent, without their copies

ASSUME EditsConstants ==
  /\ IsFiniteSet(SceneId) /\ SceneId = 1..Cardinality(SceneId) /\ SceneId # {}
  /\ MaxRevision \in Nat \ {0} /\ MaxRequests \in Nat

VARIABLES scene,     \* the scenes
          madeBy,    \* what made the present revision of a scene
          plan,      \* revision of the current duration plan
          binding,   \* spec revision in the binding of a scene to that plan
          counted,   \* approvedScenes of the campaign
          run,       \* the production run
          sent,      \* the requests sent under an action id
          applied,   \* the request recorded under it, in review_events or replan_action_receipts
          answered,  \* those of its requests that were answered with success
          session    \* the delivery of a session

rows == <<scene, madeBy, plan, binding, counted, run, applied>>
vars == <<scene, madeBy, plan, binding, counted, run, applied, sent, answered, session>>

N == Cardinality(SceneId)
NoRun == [plan |-> 0, revision |-> [i \in SceneId |-> 0]]
-----------------------------------------------------------------------------
(* A request is what its hash is computed over.  It names the revision of its
   scene, or of every scene and of the plan, that the client has seen. *)
SceneKinds == {"edit", "references", "approve"}
Request ==
  [kind : SceneKinds \cup {"replan"}, scene : SceneId \cup {0},
   seen : [SceneId -> 0..MaxRevision], plan : 0..MaxRevision]

NoRequest ==
  [kind |-> "none", scene |-> 0, seen |-> [i \in SceneId |-> 0], plan |-> 0]

Revisions == [i \in SceneId |-> scene[i].revision]

(* What a client can put together from what it reads now. *)
Offered ==
  {[kind |-> k, scene |-> i, seen |-> [NoRequest.seen EXCEPT ![i] = Revisions[i]], plan |-> 0] :
      k \in SceneKinds, i \in SceneId}
  \cup {[kind |-> "replan", scene |-> 0, seen |-> Revisions, plan |-> plan]}

(* Rows to lock.  The campaign is row 0. *)
Campaign == 0
EveryScene == [i \in SceneId |-> i]

\* Mutant: an approval locks its scene only, and reads its siblings.
LocksOwn(r) ==
  CASE r.kind = "replan" -> <<Campaign>> \o EveryScene
    [] r.kind = "references" -> <<r.scene>> \o EveryScene
    [] OTHER -> <<r.scene>>

\* Mutant: an approval locks its scene before the campaign and its siblings.
LocksOwnFirst(r) ==
  CASE r.kind = "replan" -> <<Campaign>> \o EveryScene
    [] r.kind = "approve" -> <<r.scene, Campaign>> \o EveryScene
    [] r.kind = "references" -> <<r.scene>> \o EveryScene
    [] OTHER -> <<r.scene>>

Locks(r) ==
  CASE r.kind \in {"approve", "replan"} -> <<Campaign>> \o EveryScene
    [] r.kind = "references" -> <<r.scene>> \o EveryScene
    [] OTHER -> <<r.scene>>

Idle == [pc |-> "idle", action |-> "none", request |-> NoRequest, todo |-> <<>>,
         held |-> {}, scenes |-> <<>>, binding |-> <<>>]

HeldByOther(s, row) == \E u \in Session \ {s} : row \in session[u].held
Unlocked(row) == \A u \in Session : row \notin session[u].held

Init ==
  /\ scene = [i \in SceneId |-> [NewScene EXCEPT !.status = "director_review", !.candidate = 1]]
  /\ madeBy = [i \in SceneId |-> "plan"]
  /\ plan = 1 /\ binding = [i \in SceneId |-> 1] /\ counted = 0 /\ run = NoRun
  /\ sent = [a \in Action |-> {}]
  /\ applied = [a \in Action |-> NoRequest]
  /\ answered = [a \in Action |-> {}]
  /\ session = [s \in Session |-> Idle]
-----------------------------------------------------------------------------
(* Delivery of commands. *)
Requests == UNION {{<<a, r>> : r \in sent[a]} : a \in Action}

(* An id is used again for a command of the same table, by a client that takes
   it for a new one. *)
SameTable(x, r) == (x.kind = "replan") = (r.kind = "replan")

Send(a) ==
  /\ Cardinality(Requests) < MaxRequests
  /\ \E r \in Offered :
       /\ \A x \in sent[a] : SameTable(x, r)
       /\ sent' = [sent EXCEPT ![a] = @ \cup {r}]
  /\ UNCHANGED <<rows, answered, session>>

\* A request arrives, for the first time or again, and a transaction gets its
\* first lock; until then it is as if it had not arrived.
Begin(s) ==
  /\ session[s].pc = "idle"
  /\ \E a \in Action : \E r \in sent[a] :
       /\ Unlocked(Head(Locks(r)))
       /\ session' = [session EXCEPT ![s] = [Idle EXCEPT
                        !.pc = "locking", !.action = a, !.request = r,
                        !.todo = Tail(Locks(r)), !.held = {Head(Locks(r))}]]
  /\ UNCHANGED <<rows, sent, answered>>

(* The action id is looked up, and the revision compared, under the lock of the
   own scene or of the campaign; an approval has locked every scene by then. *)
LooksUp(s) ==
  /\ session[s].pc = "locking"
  /\ session[s].request.kind = "approve" => session[s].todo = <<>>

Recorded(s) == applied[session[s].action]

AsSeen(s) ==
  LET r == session[s].request
  IN IF r.kind = "replan" THEN r.plan = plan ELSE r.seen[r.scene] = scene[r.scene].revision

\* Mutant: whatever is recorded under the id and the scene is taken for the request.
SameRequestUnhashed(x, r) == x.scene = r.scene

SameRequest(x, r) == x = r

Fresh(s) == Recorded(s) = NoRequest /\ AsSeen(s)

Acquire(s) ==
  LET row == Head(session[s].todo)
  IN /\ session[s].pc = "locking" /\ session[s].todo # <<>>
     /\ LooksUp(s) => Fresh(s)
     /\ ~HeldByOther(s, row)
     /\ session' = [session EXCEPT ![s].todo = Tail(@), ![s].held = @ \cup {row}]
     /\ UNCHANGED <<rows, sent, answered>>

End(s) == session' = [session EXCEPT ![s] = Idle]
Succeed(s) ==
  /\ answered' = [answered EXCEPT ![session[s].action] = @ \cup {session[s].request}]
  /\ End(s)

\* The request has been carried out: it is answered, and nothing is written.
Replay(s) ==
  /\ LooksUp(s)
  /\ Recorded(s) # NoRequest /\ SameRequest(Recorded(s), session[s].request)
  /\ Succeed(s)
  /\ UNCHANGED <<rows, sent>>

\* A conflict of ids, a stale revision, a refusal of the scene, a deadlock that
\* the database breaks, a failure.
RollBack(s) ==
  /\ session[s].pc # "idle"
  /\ End(s)
  /\ UNCHANGED <<rows, sent, answered>>

\* With all locks held, the reads.  What is not locked may change from now on.
Look(s) ==
  /\ session[s].pc = "locking" /\ session[s].todo = <<>>
  /\ LooksUp(s) /\ Fresh(s)
  /\ session' = [session EXCEPT ![s].pc = "deciding", ![s].scenes = scene, ![s].binding = binding]
  /\ UNCHANGED <<rows, sent, answered>>
-----------------------------------------------------------------------------
(* Commits.  A scene is saved as it was read; the bindings of the whole plan are
   saved as they were read, but for the scene's own. *)
Ready(s, kind) ==
  /\ session[s].pc = "deciding" /\ session[s].request.kind = kind
  /\ Recorded(s) = NoRequest

Record(s) ==
  /\ applied' = [applied EXCEPT ![session[s].action] = session[s].request]
  /\ Succeed(s)

OwnScene(s) == session[s].request.scene
AsRead(s) == session[s].scenes[OwnScene(s)]

SaveBindings(s, revision) ==
  binding' = IF session[s].binding[OwnScene(s)] = revision THEN binding
             ELSE [session[s].binding EXCEPT ![OwnScene(s)] = revision]

\* A new prompt, LoRA or set of references.
Edit(s) ==
  LET x == AsRead(s)
  IN /\ Ready(s, "edit") \/ Ready(s, "references")
     /\ MayEdit(x) /\ x.revision < MaxRevision
     /\ scene' = [scene EXCEPT ![OwnScene(s)] = Edited(x)]
     /\ madeBy' = [madeBy EXCEPT ![OwnScene(s)] = "edit"]
     /\ SaveBindings(s, x.revision + 1)
     /\ Record(s)
     /\ UNCHANGED <<plan, counted, run, sent>>

\* The references are those the scene has.
KeepReferences(s) ==
  /\ Ready(s, "references") /\ MayEdit(AsRead(s))
  /\ SaveBindings(s, AsRead(s).revision)
  /\ Record(s)
  /\ UNCHANGED <<scene, madeBy, plan, counted, run, sent>>

WithApproval(s) == [session[s].scenes EXCEPT ![OwnScene(s)] = Approved(@)]
AllApproved(scenes) == \A i \in SceneId : scenes[i].status = "approved"

ApproveOne(s) ==
  /\ Ready(s, "approve") /\ MayApprove(AsRead(s))
  /\ ~AllApproved(WithApproval(s))
  /\ scene' = [scene EXCEPT ![OwnScene(s)] = Approved(AsRead(s))]
  /\ counted' = Cardinality({i \in SceneId : WithApproval(s)[i].status = "approved"})
  /\ Record(s)
  /\ UNCHANGED <<madeBy, plan, binding, run, sent>>

\* The last approval: a run of the revisions there are, and a job per scene.
Dispatch(s) ==
  /\ Ready(s, "approve") /\ MayApprove(AsRead(s))
  /\ AllApproved(WithApproval(s)) /\ run = NoRun
  /\ \A i \in SceneId : MayQueue(WithApproval(s)[i])
  /\ run' = [plan |-> plan, revision |-> [i \in SceneId |-> WithApproval(s)[i].revision]]
  /\ scene' = [i \in SceneId |-> Queued(WithApproval(s)[i], i)]
  /\ counted' = N
  /\ Record(s)
  /\ UNCHANGED <<madeBy, plan, binding, sent>>

\* Mutant: a new allocation leaves the approval of a scene.
ReallocatedApproved(x) ==
  IF x.status = "approved" THEN [x EXCEPT !.revision = @ + 1] ELSE Edited(x)

Reallocated(x) == Edited(x)

\* Every scene gets a new revision and its place in a new plan.
Replan(s) ==
  LET xs == session[s].scenes
  IN /\ Ready(s, "replan")
     /\ \A i \in SceneId : /\ session[s].request.seen[i] = xs[i].revision
                           /\ MayEdit(xs[i]) /\ xs[i].revision < MaxRevision
     /\ plan' = plan + 1
     /\ scene' = [i \in SceneId |-> Reallocated(xs[i])]
     /\ madeBy' = [i \in SceneId |-> "plan"]
     /\ binding' = [i \in SceneId |-> xs[i].revision + 1]
     /\ counted' = 0
     /\ Record(s)
     /\ UNCHANGED <<run, sent>>

-----------------------------------------------------------------------------
(* Transactions that lock one scene and read no bindings. *)
ChangeAlone(i, x, maker) ==
  /\ Unlocked(i)
  /\ scene' = [scene EXCEPT ![i] = x]
  /\ madeBy' = [madeBy EXCEPT ![i] = maker]
  /\ UNCHANGED <<plan, binding, counted, run, sent, applied, answered, session>>

Select(i) ==
  /\ MaySelect(scene[i], scene[i].revision)
  /\ ChangeAlone(i, CandidateSelected(scene[i], scene[i].revision), madeBy[i])

Reroll(i) ==
  /\ MayReroll(scene[i]) /\ scene[i].revision < MaxRevision
  /\ ChangeAlone(i, Rerolled(scene[i]), "reroll")

\* The follow-up of the last candidate job.
SubmitForReview(i) ==
  /\ MaySubmitForReview(scene[i])
  /\ ChangeAlone(i, SubmittedForReview(scene[i]), madeBy[i])

Next ==
  \/ \E a \in Action : Send(a)
  \/ \E s \in Session :
       \/ Begin(s) \/ Acquire(s) \/ Look(s) \/ Replay(s) \/ RollBack(s)
       \/ Edit(s) \/ KeepReferences(s) \/ ApproveOne(s) \/ Dispatch(s) \/ Replan(s)
  \/ \E i \in SceneId : Select(i) \/ Reroll(i) \/ SubmitForReview(i)

Spec == Init /\ [][Next]_vars
-----------------------------------------------------------------------------
(* Properties. *)
\* The last approval dispatches the campaign: approvals of different scenes
\* that are under way at once do not each find the other one missing, and no
\* edit or replan gets in between (the locks of dispatch-campaign-production.ts).
AllApprovedMeansDispatched == AllApproved(scene) => run # NoRun

\* What goes into production is, scene by scene, the revision the director
\* named when he approved it, under the plan it was made for, and it stays
\* that: an edit, a replan or a reroll that is under way or late changes
\* neither (review-scene.ts, replan-campaign.ts against the dispatch).
RunIsWhatWasApproved ==
  run # NoRun =>
    /\ run.plan = plan
    /\ \A i \in SceneId :
         /\ scene[i].status \in InProduction
         /\ run.revision[i] = scene[i].revision
         /\ \E a \in Action :
              applied[a].kind = "approve" /\ applied[a].seen[i] = run.revision[i]

\* A client that is told its command succeeded has its own command carried
\* out, not another one that used the same id, in time or before
\* (prepareReviewExecution and its copies, the receipts of a replan).
AnswerIsTrue == \A a \in Action : \A r \in answered[a] : applied[a] = r

\* Transactions that wait for each other in a circle: a change of references,
\* which locks its own scene before the others, is among them.  Approvals,
\* replans and other edits cannot lock each other out (the lock order that
\* dispatch-campaign-production.test.ts enforces).
WaitsFor(s, u) ==
  /\ session[s].pc = "locking" /\ session[s].todo # <<>>
  /\ Head(session[s].todo) \in session[u].held

OnlyReferenceChangesDeadlock ==
  \A D \in (SUBSET Session) \ {{}} :
    (\A s \in D : \E u \in D \ {s} : WaitsFor(s, u))
      => \E s \in D : session[s].request.kind = "references"

\* "Creative edits that bump scene.specRevision must keep this scene's
\* SceneDurationBinding in sync" (review-scene.ts:1111): a scene whose present
\* revision an edit or a replan made has a binding of that revision.
BindingsFollowEdits ==
  \A i \in SceneId : madeBy[i] # "reroll" => binding[i] = scene[i].revision
=============================================================================
