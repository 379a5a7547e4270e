------------------------- MODULE CampaignEditsProofs -------------------------
(***************************************************************************)
(* For any number of scenes, deliveries, ids and revisions: a success that *)
(* is answered is true, the last approval dispatches, and what is          *)
(* dispatched is what was approved, under the present plan.  The argument: *)
(* a transaction that decides holds the rows it writes and, but for an     *)
(* edit, all scenes; so what it read is what there is.                     *)
(***************************************************************************)
EXTENDS CampaignEdits, SequenceTheorems, FiniteSetTheorems, TLAPS

\* A request that a client sends.
Sendable ==
  {r \in [kind : SceneKinds \cup {"replan"}, scene : SceneId \cup {0},
          seen : [SceneId -> Nat], plan : Nat] :
     r.kind # "replan" => r.scene \in SceneId}

SessionRecord ==
  [pc : {"idle", "locking", "deciding"}, action : Action \cup {"none"},
   request : Sendable \cup {NoRequest}, todo : Seq(Nat), held : SUBSET Nat,
   scenes : [SceneId -> SceneRecord] \cup {<<>>}, binding : [SceneId -> Nat] \cup {<<>>}]

Types ==
  /\ scene \in [SceneId -> SceneRecord]
  /\ madeBy \in [SceneId -> {"plan", "edit", "reroll"}]
  /\ plan \in Nat \ {0} /\ binding \in [SceneId -> Nat] /\ counted \in Nat
  /\ run \in [plan : Nat, revision : [SceneId -> Nat]]
  /\ sent \in [Action -> SUBSET Sendable]
  /\ applied \in [Action -> Sendable \cup {NoRequest}]
  /\ answered \in [Action -> SUBSET Sendable]
  /\ session \in [Session -> SessionRecord]

\* The scenes a request must hold before it decides.
Needed(r) == IF r.kind = "edit" THEN {r.scene} ELSE SceneId

\* A delivery holds or is yet to lock what it needs, and looks when it has all.
\* Only a change of references waits without the campaign's row.
Sound(x) ==
  /\ x.pc # "idle" =>
       /\ x.action \in Action /\ x.request \in Sendable
       /\ \A i \in Needed(x.request) : i \in x.held \/ \E k \in 1..Len(x.todo) : x.todo[k] = i
       /\ x.request.kind \in {"approve", "replan"} => Campaign \in x.held
       /\ x.request.kind = "edit" => x.todo = <<>>
  /\ x.pc = "deciding" =>
       /\ x.todo = <<>>
       /\ x.scenes \in [SceneId -> SceneRecord] /\ x.binding \in [SceneId -> Nat]
       /\ x.request.kind = "approve" =>
            x.request.seen[x.request.scene] = x.scenes[x.request.scene].revision

LocksApart ==
  \A s, u \in Session : s # u => session[s].held \cap session[u].held = {}

\* What a transaction has read under its locks is what there is.
SnapshotsHold ==
  \A s \in Session : session[s].pc = "deciding" =>
    \A i \in Needed(session[s].request) : session[s].scenes[i] = scene[i]

\* An approval is of the revision the director named.
ApprovedAsNamed ==
  \A i \in SceneId : scene[i].status = "approved" =>
    \E a \in Action : applied[a].kind = "approve" /\ applied[a].seen[i] = scene[i].revision

Locking == (\A s \in Session : Sound(session[s])) /\ LocksApart

Inv ==
  /\ Types /\ Locking /\ SnapshotsHold /\ ApprovedAsNamed
  /\ AllApprovedMeansDispatched /\ RunIsWhatWasApproved /\ AnswerIsTrue

-----------------------------------------------------------------------------
(* One scene.                                                              *)

\* Fields that an edit sets.
LEMMA EditUpdate ==
  ASSUME NEW t \in SceneRecord, NEW to \in Status, NEW a \in Nat
  PROVE  [t EXCEPT !.revision = @ + 1, !.status = to, !.approval = a] \in SceneRecord
<1>1. t.revision + 1 \in Nat
  BY DEF SceneRecord
<1> QED
  BY <1>1 DEF SceneRecord

\* What the commands leave of a scene, as far as the campaign looks at it.
LEMMA SceneMoves ==
  ASSUME NEW x \in SceneRecord
  PROVE  /\ Approved(x) \in SceneRecord /\ Approved(x).status = "approved"
         /\ Approved(x).revision = x.revision
         /\ MayEdit(x) => Edited(x) \in SceneRecord /\ Edited(x).status # "approved"
         /\ Rerolled(x) \in SceneRecord /\ Rerolled(x).status # "approved"
         /\ SubmittedForReview(x) \in SceneRecord /\ SubmittedForReview(x).status # "approved"
         /\ \A rev \in Nat : /\ CandidateSelected(x, rev) \in SceneRecord
                             /\ CandidateSelected(x, rev).status = x.status
         /\ \A j \in Nat : /\ Queued(x, j) \in SceneRecord /\ Queued(x, j).status = "queued"
                           /\ Queued(x, j).revision = x.revision
<1> USE DEF SceneRecord, Status, InProduction, Terminal, MovedTo, None
<1>1. Approved(x) \in SceneRecord /\ Approved(x).status = "approved"
      /\ Approved(x).revision = x.revision
  <2> DEFINE from == IF x.status = "failed" THEN "none" ELSE x.failedFrom
             t == [x EXCEPT !.status = "approved", !.failedFrom = from, !.approval = x.revision]
             u == [t EXCEPT !.approvedPlan = x.plan, !.approvedPlanRevision = x.revision]
  <2>1. from \in Status \cup {"none"}
    OBVIOUS
  <2>2. [x EXCEPT !.status = "approved"].failedFrom = x.failedFrom
    OBVIOUS
  <2>3. [MovedTo(x, "approved") EXCEPT !.approval = x.revision] = t
    BY <2>2
  <2>4. Approved(x) = IF HasValidPlan(x) THEN u ELSE t
    BY <2>3 DEF Approved
  <2> HIDE DEF from
  <2>5. t \in SceneRecord /\ t.status = "approved" /\ t.revision = x.revision
    BY <2>1
  <2>6. u \in SceneRecord /\ u.status = "approved" /\ u.revision = x.revision
    BY <2>5
  <2> QED
    BY <2>4, <2>5, <2>6
<1>2. ASSUME MayEdit(x) PROVE Edited(x) \in SceneRecord /\ Edited(x).status # "approved"
  <2> DEFINE y == WithoutSelection(x)
             to == IF y.status = "approved" THEN "director_review" ELSE y.status
             app == IF x.status = "approved" THEN None ELSE y.approval
  <2>1. y \in SceneRecord /\ y.status = x.status
    BY DEF WithoutSelection, WithoutApprovedPlan
  <2>2. y.status \in {"draft_pending", "director_review", "approved"}
    BY <1>2, <2>1 DEF MayEdit
  <2>3. Edited(x) = [y EXCEPT !.revision = @ + 1, !.status = to, !.approval = app]
    BY DEF Edited
  <2>4. to \in Status /\ app \in Nat
    BY <2>1, <2>2
  <2>5. Edited(x).status = IF x.status = "approved" THEN "director_review" ELSE x.status
    BY DEF Edited, WithoutSelection, WithoutApprovedPlan
  <2>6. Edited(x).status # "approved"
    BY <1>2, <2>5 DEF MayEdit
  <2> HIDE DEF y, to, app, SceneRecord, Status
  <2>7. [y EXCEPT !.revision = @ + 1, !.status = to, !.approval = app] \in SceneRecord
    BY <2>1, <2>4, EditUpdate
  <2>8. Edited(x) \in SceneRecord
    BY <2>3, <2>7
  <2> QED
    BY <2>6, <2>8
<1>3. Rerolled(x) \in SceneRecord /\ Rerolled(x).status # "approved"
  <2> DEFINE y == WithoutSelection(MovedTo(x, "generating_candidates"))
  <2>1. MovedTo(x, "generating_candidates") \in SceneRecord
    OBVIOUS
  <2>2. y \in SceneRecord /\ y.status = "generating_candidates"
    BY DEF WithoutSelection, WithoutApprovedPlan
  <2>3. Rerolled(x) = [y EXCEPT !.revision = @ + 1]
    BY DEF Rerolled
  <2> HIDE DEF y
  <2> QED
    BY <2>2, <2>3
<1>4. SubmittedForReview(x) \in SceneRecord /\ SubmittedForReview(x).status # "approved"
  BY DEF SubmittedForReview
<1>5. ASSUME NEW rev \in Nat
      PROVE  /\ CandidateSelected(x, rev) \in SceneRecord
             /\ CandidateSelected(x, rev).status = x.status
  BY DEF CandidateSelected
<1>6. ASSUME NEW j \in Nat
      PROVE  /\ Queued(x, j) \in SceneRecord /\ Queued(x, j).status = "queued"
             /\ Queued(x, j).revision = x.revision
  <2>1. x.ordinal + 1 \in Nat
    OBVIOUS
  <2> QED
    BY <2>1 DEF Queued
<1> QED
  BY <1>1, <1>2, <1>3, <1>4, <1>5, <1>6

LEMMA SceneIdIsNat == SceneId \subseteq Nat \ {0} /\ N \in Nat /\ SceneId = 1..N
BY EditsConstants, FS_CardinalityType DEF N

\* What a request needs is among what it locks, and the campaign comes first.
LEMMA LocksCover ==
  ASSUME NEW r \in Sendable
  PROVE  /\ Locks(r) \in Seq(Nat) /\ Locks(r) # <<>>
         /\ \A i \in Needed(r) : \E k \in 1..Len(Locks(r)) : Locks(r)[k] = i
         /\ r.kind \in {"approve", "replan"} => Head(Locks(r)) = Campaign
         /\ r.kind = "edit" => Tail(Locks(r)) = <<>>
<1>1. EveryScene \in Seq(Nat) /\ Len(EveryScene) = N /\ \A i \in SceneId : EveryScene[i] = i
  BY SceneIdIsNat DEF EveryScene
<1>2. ASSUME NEW x \in Nat
      PROVE  /\ <<x>> \o EveryScene \in Seq(Nat) /\ Len(<<x>> \o EveryScene) = N + 1
             /\ \A i \in SceneId : (<<x>> \o EveryScene)[i + 1] = i
  <2>1. <<x>> \in Seq(Nat) /\ Len(<<x>>) = 1
    OBVIOUS
  <2>2. \A i \in SceneId : i + 1 \in 1..(1 + N) /\ ~(i + 1 <= 1) /\ i + 1 - 1 = i
    BY SceneIdIsNat
  <2> QED
    BY <1>1, <2>1, <2>2, ConcatProperties, SceneIdIsNat
<1>3. \A i \in SceneId : i + 1 \in 1..(N + 1)
  BY SceneIdIsNat
<1>4. CASE r.kind \in {"approve", "replan"}
  <2>1. Locks(r) = <<Campaign>> \o EveryScene /\ Needed(r) = SceneId /\ Campaign \in Nat
    BY <1>4 DEF Locks, Needed, Campaign
  <2>2. Locks(r) # <<>>
    BY <2>1, <1>2, SceneIdIsNat
  <2>3. Head(Locks(r)) = Campaign
    <3>1. <<Campaign>> \in Seq(Nat) /\ Len(<<Campaign>>) = 1 /\ <<Campaign>>[1] = Campaign
      BY <2>1
    <3>2. (<<Campaign>> \o EveryScene)[1] = Campaign
      BY <1>1, <3>1, SceneIdIsNat, ConcatProperties
    <3> QED
      BY <1>2, <2>1, <2>2, <3>2
  <2> QED
    BY <1>4, <2>1, <2>2, <2>3, <1>2, <1>3
<1>5. CASE r.kind = "references"
  <2>1. Locks(r) = <<r.scene>> \o EveryScene /\ Needed(r) = SceneId /\ r.scene \in Nat
    BY <1>5, SceneIdIsNat DEF Locks, Needed, Sendable
  <2>2. Locks(r) # <<>>
    BY <2>1, <1>2, SceneIdIsNat
  <2> QED
    BY <1>5, <2>1, <2>2, <1>2, <1>3
<1>6. CASE r.kind = "edit"
  <2>1. Locks(r) = <<r.scene>> /\ Needed(r) = {r.scene} /\ r.scene \in Nat
    BY <1>6, SceneIdIsNat DEF Locks, Needed, Sendable
  <2> QED
    BY <1>6, <2>1
<1> QED
  BY <1>4, <1>5, <1>6 DEF Sendable, SceneKinds

-----------------------------------------------------------------------------
(* One delivery.                                                           *)

LEMMA IdleIsSound == Idle \in SessionRecord /\ Sound(Idle)
BY DEF Idle, SessionRecord, Sound

\* A delivery goes on to x, which is sound, with no row that another one holds.
LEMMA SessionGoes ==
  ASSUME Types, Locking, NEW s \in Session, NEW x \in SessionRecord, Sound(x),
         session' = [session EXCEPT ![s] = x],
         \A row \in x.held : row \in session[s].held \/ ~HeldByOther(s, row)
  PROVE  session' \in [Session -> SessionRecord] /\ Locking'
<1>1. session' \in [Session -> SessionRecord]
  BY DEF Types
<1>2. \A u \in Session : session'[u] = IF u = s THEN x ELSE session[u]
  BY DEF Types
<1>3. \A u \in Session : Sound(session'[u])
  BY <1>2 DEF Locking
<1>4. LocksApart'
  <2>1. \A u \in Session \ {s} : session[u].held \cap x.held = {}
    BY DEF HeldByOther, Locking, LocksApart
  <2> QED
    BY <1>2, <2>1 DEF Locking, LocksApart
<1> QED
  BY <1>1, <1>3, <1>4 DEF Locking

\* A delivery that decides holds what it needs; nobody else does.
LEMMA DeciderHolds ==
  ASSUME Types, Locking, SnapshotsHold, NEW s \in Session, session[s].pc = "deciding"
  PROVE  /\ session[s].action \in Action /\ session[s].request \in Sendable
         /\ Needed(session[s].request) \subseteq session[s].held
         /\ session[s].scenes \in [SceneId -> SceneRecord]
         /\ session[s].binding \in [SceneId -> Nat]
         /\ \A i \in Needed(session[s].request) : session[s].scenes[i] = scene[i]
         /\ session[s].request.kind = "approve" =>
              session[s].request.seen[OwnScene(s)] = session[s].scenes[OwnScene(s)].revision
<1>1. Sound(session[s])
  BY DEF Locking
<1>2. session[s].todo = <<>>
  BY <1>1 DEF Sound
<1>3. Len(<<>>) = 0
  OBVIOUS
<1>4. ~\E k \in 1..Len(session[s].todo) : TRUE
  BY <1>2, <1>3
<1> QED
  BY <1>1, <1>4 DEF Sound, SnapshotsHold, OwnScene

\* A delivery ends, having written only rows it held: the others have read
\* what there is.
LEMMA DeliveryEnds ==
  ASSUME Types, Locking, SnapshotsHold, NEW s \in Session,
         session' = [session EXCEPT ![s] = Idle],
         \A i \in SceneId : scene'[i] # scene[i] => i \in session[s].held
  PROVE  session' \in [Session -> SessionRecord] /\ Locking' /\ SnapshotsHold'
<1>1. session' \in [Session -> SessionRecord] /\ Locking'
  <2>1. Idle.held = {}
    BY DEF Idle
  <2> QED
    BY <2>1, IdleIsSound, SessionGoes
<1>2. ASSUME NEW u \in Session, session'[u].pc = "deciding",
             NEW i \in Needed(session'[u].request)
      PROVE  session'[u].scenes[i] = scene'[i]
  <2>1. u # s /\ session'[u] = session[u]
    BY <1>2 DEF Types, Idle
  <2>2. i \in session[u].held /\ session[u].scenes[i] = scene[i] /\ i \in SceneId
    BY <1>2, <2>1, DeciderHolds DEF Needed, Sendable, SceneKinds
  <2>3. i \notin session[s].held
    BY <2>1, <2>2 DEF Locking, LocksApart
  <2> QED
    BY <2>1, <2>2, <2>3
<1> QED
  BY <1>1, <1>2 DEF SnapshotsHold

-----------------------------------------------------------------------------
(* What an action leaves of the campaign.                                  *)

\* A command is recorded under an id that has none, and is answered.
LEMMA Recording ==
  ASSUME Types, AnswerIsTrue, NEW s \in Session, Record(s), Recorded(s) = NoRequest,
         session[s].action \in Action, session[s].request \in Sendable
  PROVE  /\ session' = [session EXCEPT ![s] = Idle]
         /\ applied' \in [Action -> Sendable \cup {NoRequest}]
         /\ answered' \in [Action -> SUBSET Sendable]
         /\ AnswerIsTrue'
         /\ applied'[session[s].action] = session[s].request
         /\ \A a \in Action : applied[a].kind = "approve" => applied'[a] = applied[a]
<1> DEFINE b == session[s].action
           q == session[s].request
<1>1. /\ applied' = [applied EXCEPT ![b] = q] /\ answered' = [answered EXCEPT ![b] = @ \cup {q}]
      /\ session' = [session EXCEPT ![s] = Idle] /\ applied[b] = NoRequest
  BY DEF Record, Succeed, End, Recorded
<1>2. b \in Action /\ q \in Sendable
  OBVIOUS
<1> HIDE DEF b, q
<1>3. answered[b] = {}
  <2>1. NoRequest \notin Sendable
    BY DEF NoRequest, Sendable, SceneKinds
  <2> QED
    BY <1>1, <1>2, <2>1 DEF AnswerIsTrue, Types
<1>4. /\ applied' \in [Action -> Sendable \cup {NoRequest}]
      /\ answered' \in [Action -> SUBSET Sendable]
  BY <1>1, <1>2, <1>3 DEF Types
<1>5. AnswerIsTrue'
  BY <1>1, <1>2, <1>3 DEF AnswerIsTrue, Types
<1>6. NoRequest.kind = "none"
  BY DEF NoRequest
<1>7. applied'[b] = q /\ \A a \in Action : applied[a].kind = "approve" => applied'[a] = applied[a]
  BY <1>1, <1>2, <1>6 DEF Types
<1> QED
  BY <1>1, <1>4, <1>5, <1>7 DEF b, q

LEMMA NothingHappens ==
  ASSUME Inv, UNCHANGED <<scene, plan, run, applied>>
  PROVE  ApprovedAsNamed' /\ AllApprovedMeansDispatched' /\ RunIsWhatWasApproved'
BY DEF Inv, ApprovedAsNamed, AllApprovedMeansDispatched, AllApproved, RunIsWhatWasApproved

\* A scene that is not in production shows that there is no run yet.
LEMMA BeforeTheRun ==
  ASSUME Inv, NEW i \in SceneId, scene[i].status \notin InProduction
  PROVE  run = NoRun
BY DEF Inv, RunIsWhatWasApproved

\* Before the run, with no scene newly approved but one that is named, and not
\* all of them approved.
LEMMA CampaignGoesOn ==
  ASSUME Inv, run = NoRun, run' = run,
         \A a \in Action : applied[a].kind = "approve" => applied'[a] = applied[a],
         \A i \in SceneId : scene'[i].status = "approved" =>
           \/ scene[i].status = "approved" /\ scene'[i].revision = scene[i].revision
           \/ \E a \in Action : applied'[a].kind = "approve"
                              /\ applied'[a].seen[i] = scene'[i].revision,
         ~AllApproved(scene')
  PROVE  ApprovedAsNamed' /\ AllApprovedMeansDispatched' /\ RunIsWhatWasApproved'
<1>1. ApprovedAsNamed'
  BY DEF Inv, ApprovedAsNamed
<1>2. AllApprovedMeansDispatched' /\ RunIsWhatWasApproved'
  BY DEF AllApprovedMeansDispatched, RunIsWhatWasApproved, AllApproved
<1> QED
  BY <1>1, <1>2

-----------------------------------------------------------------------------
(* The actions.                                                            *)

LEMMA InitInv == Init => Inv
<1> SUFFICES ASSUME Init PROVE Inv
  OBVIOUS
<1>1. [NewScene EXCEPT !.status = "director_review", !.candidate = 1] \in SceneRecord
  BY DEF NewScene, SceneRecord, Status, InProduction, Terminal, None
<1>2. \A i \in SceneId : scene[i] \in SceneRecord /\ scene[i].status = "director_review"
  BY <1>1 DEF Init, NewScene
<1>3. scene \in [SceneId -> SceneRecord]
  BY <1>1 DEF Init
<1>4. Types
  BY <1>3, IdleIsSound DEF Init, Types, NoRun
<1>5. Locking /\ SnapshotsHold
  <2>1. \A s \in Session : session[s] = Idle
    BY DEF Init
  <2> QED
    BY <2>1, IdleIsSound DEF Locking, LocksApart, SnapshotsHold, Idle
<1>6. ApprovedAsNamed /\ ~AllApproved(scene)
  BY <1>2, EditsConstants DEF ApprovedAsNamed, AllApproved
<1>7. run = NoRun /\ AnswerIsTrue
  BY DEF Init, AnswerIsTrue
<1> QED
  BY <1>4, <1>5, <1>6, <1>7 DEF Inv, AllApprovedMeansDispatched, RunIsWhatWasApproved

LEMMA SendStep ==
  ASSUME Inv, NEW a \in Action, Send(a)
  PROVE  Inv'
<1>1. Offered \subseteq Sendable
  <2>1. NoRequest.seen \in [SceneId -> Nat]
    BY DEF NoRequest
  <2>2. Revisions \in [SceneId -> Nat]
    BY DEF Revisions, Inv, Types, SceneRecord
  <2>3. \A i \in SceneId : [NoRequest.seen EXCEPT ![i] = Revisions[i]] \in [SceneId -> Nat]
    BY <2>1, <2>2
  <2> QED
    BY <2>2, <2>3 DEF Offered, Sendable, SceneKinds, Inv, Types
<1>2. sent' \in [Action -> SUBSET Sendable]
  BY <1>1 DEF Send, Inv, Types
<1>3. UNCHANGED <<scene, madeBy, plan, binding, counted, run, applied, answered, session>>
  BY DEF Send, rows
<1> QED
  BY <1>2, <1>3, NothingHappens
     DEF Inv, Types, Locking, LocksApart, SnapshotsHold, AnswerIsTrue

LEMMA BeginStep ==
  ASSUME Inv, NEW s \in Session, Begin(s)
  PROVE  Inv'
<1>0. PICK a \in Action : \E r \in sent[a] :
        /\ Unlocked(Head(Locks(r)))
        /\ session' = [session EXCEPT ![s] = [Idle EXCEPT
                         !.pc = "locking", !.action = a, !.request = r,
                         !.todo = Tail(Locks(r)), !.held = {Head(Locks(r))}]]
  BY DEF Begin
<1>1. PICK r \in sent[a] :
        /\ Unlocked(Head(Locks(r)))
        /\ session' = [session EXCEPT ![s] = [Idle EXCEPT
                         !.pc = "locking", !.action = a, !.request = r,
                         !.todo = Tail(Locks(r)), !.held = {Head(Locks(r))}]]
  BY <1>0
<1> DEFINE first == Head(Locks(r))
           rest == Tail(Locks(r))
           x == [Idle EXCEPT !.pc = "locking", !.action = a, !.request = r,
                             !.todo = rest, !.held = {first}]
<1>2. r \in Sendable
  BY DEF Inv, Types
<1>3. first \in Nat /\ rest \in Seq(Nat)
  BY <1>2, LocksCover, HeadTailProperties
<1>4. ASSUME NEW i \in Needed(r) PROVE i = first \/ \E k \in 1..Len(rest) : rest[k] = i
  <2>1. PICK k \in 1..Len(Locks(r)) : Locks(r)[k] = i
    BY <1>2, LocksCover
  <2>2. CASE k = 1
    BY <1>2, <2>1, <2>2, LocksCover
  <2>3. CASE k # 1
    <3>1. /\ Len(rest) = Len(Locks(r)) - 1 /\ Len(Locks(r)) \in Nat
          /\ \A j \in 1..Len(rest) : rest[j] = Locks(r)[j + 1]
      BY <1>2, LocksCover, HeadTailProperties, LenProperties
    <3>2. k - 1 \in 1..Len(rest) /\ k - 1 + 1 = k
      BY <2>3, <3>1
    <3> QED
      BY <2>1, <3>1, <3>2
  <2> QED
    BY <2>2, <2>3
<1>4a. /\ r.kind \in {"approve", "replan"} => first = Campaign
       /\ r.kind = "edit" => rest = <<>>
  BY <1>2, LocksCover
<1>5. session' = [session EXCEPT ![s] = x] /\ ~HeldByOther(s, first)
  BY <1>1 DEF Unlocked, HeldByOther
<1> HIDE DEF first, rest
<1>6. /\ x.pc = "locking" /\ x.action = a /\ x.request = r /\ x.todo = rest
      /\ x.held = {first} /\ x \in SessionRecord
  BY <1>2, <1>3, IdleIsSound DEF SessionRecord
<1> HIDE DEF x
<1>7. Sound(x)
  <2>1. x.request \in Sendable /\ x.action \in Action
    BY <1>2, <1>6
  <2>2. ASSUME NEW i \in Needed(x.request)
        PROVE  i \in x.held \/ \E k \in 1..Len(x.todo) : x.todo[k] = i
    <3>1. i \in Needed(r)
      BY <1>6
    <3> QED
      BY <1>4, <1>6, <3>1
  <2>3. /\ x.request.kind \in {"approve", "replan"} => Campaign \in x.held
        /\ x.request.kind = "edit" => x.todo = <<>>
    BY <1>4a, <1>6
  <2> QED
    BY <1>6, <2>1, <2>2, <2>3 DEF Sound
<1>8. UNCHANGED <<scene, madeBy, plan, binding, counted, run, applied, sent, answered>>
  BY DEF Begin, rows
<1>9. session' \in [Session -> SessionRecord] /\ Locking'
  BY <1>5, <1>6, <1>7, SessionGoes DEF Inv
<1>10. SnapshotsHold'
  <2>1. \A u \in Session : session'[u] = IF u = s THEN x ELSE session[u]
    BY <1>5 DEF Inv, Types
  <2>2. ASSUME NEW u \in Session, session'[u].pc = "deciding",
               NEW i \in Needed(session'[u].request)
        PROVE  session'[u].scenes[i] = scene'[i]
    BY <1>6, <1>8, <2>1, <2>2 DEF Inv, SnapshotsHold
  <2> QED
    BY <2>2 DEF SnapshotsHold
<1> QED
  BY <1>8, <1>9, <1>10, NothingHappens DEF Inv, Types, AnswerIsTrue

LEMMA AcquireStep ==
  ASSUME Inv, NEW s \in Session, Acquire(s)
  PROVE  Inv'
<1> DEFINE z == session[s]
           row == Head(z.todo)
           rest == Tail(z.todo)
           x == [z EXCEPT !.todo = rest, !.held = @ \cup {row}]
<1>1. /\ z.pc = "locking" /\ z.todo # <<>> /\ ~HeldByOther(s, row)
      /\ session' = [session EXCEPT ![s].todo = rest, ![s].held = @ \cup {row}]
      /\ UNCHANGED <<scene, madeBy, plan, binding, counted, run, applied, sent, answered>>
  BY DEF Acquire, rows
<1>2. z \in SessionRecord /\ Sound(z)
  BY DEF Inv, Types, Locking
<1>3. session' = [session EXCEPT ![s] = x]
  BY <1>1, <1>2 DEF Inv, Types
<1>4. z.todo \in Seq(Nat)
  BY <1>2 DEF SessionRecord
<1>5. row \in Nat /\ rest \in Seq(Nat)
  BY <1>1, <1>4, HeadTailProperties
<1>6. ASSUME NEW i \in Needed(z.request)
      PROVE  i \in z.held \cup {row} \/ \E k \in 1..Len(rest) : rest[k] = i
  <2>1. CASE i \in z.held
    BY <2>1
  <2>2. CASE i \notin z.held
    <3>1. PICK k \in 1..Len(z.todo) : z.todo[k] = i
      BY <1>1, <1>2, <2>2 DEF Sound
    <3>2. CASE k = 1
      BY <1>1, <1>4, <3>1, <3>2
    <3>3. CASE k # 1
      <4>1. /\ Len(rest) = Len(z.todo) - 1 /\ Len(z.todo) \in Nat
            /\ \A j \in 1..Len(rest) : rest[j] = z.todo[j + 1]
        BY <1>1, <1>4, HeadTailProperties, LenProperties
      <4>2. k - 1 \in 1..Len(rest) /\ k - 1 + 1 = k
        BY <3>3, <4>1
      <4> QED
        BY <3>1, <4>1, <4>2
    <3> QED
      BY <3>2, <3>3
  <2> QED
    BY <2>1, <2>2
<1> HIDE DEF row, rest
<1>7. /\ x.pc = z.pc /\ x.action = z.action /\ x.request = z.request /\ x.todo = rest
      /\ x.held = z.held \cup {row} /\ x \in SessionRecord
  BY <1>2, <1>5 DEF SessionRecord
<1> HIDE DEF x
<1>8. Sound(x)
  BY <1>1, <1>2, <1>6, <1>7 DEF Sound
<1>9. session' \in [Session -> SessionRecord] /\ Locking'
  BY <1>1, <1>3, <1>7, <1>8, SessionGoes DEF Inv
<1>10. SnapshotsHold'
  <2>1. \A u \in Session : session'[u] = IF u = s THEN x ELSE session[u]
    BY <1>3 DEF Inv, Types
  <2>2. ASSUME NEW u \in Session, session'[u].pc = "deciding",
               NEW i \in Needed(session'[u].request)
        PROVE  session'[u].scenes[i] = scene'[i]
    <3>1. CASE u = s
      BY <1>1, <1>7, <2>1, <2>2, <3>1
    <3>2. CASE u # s
      <4>1. session'[u] = session[u] /\ session[u].pc = "deciding"
        BY <2>1, <2>2, <3>2
      <4>2. i \in Needed(session[u].request)
        BY <4>1
      <4> QED
        BY <1>1, <4>1, <4>2 DEF Inv, SnapshotsHold
    <3> QED
      BY <3>1, <3>2
  <2> QED
    BY <2>2 DEF SnapshotsHold
<1> QED
  BY <1>1, <1>9, <1>10, NothingHappens DEF Inv, Types, AnswerIsTrue

LEMMA LookStep ==
  ASSUME Inv, NEW s \in Session, Look(s)
  PROVE  Inv'
<1> DEFINE z == session[s]
           x == [z EXCEPT !.pc = "deciding", !.scenes = scene, !.binding = binding]
<1>1. /\ z.pc = "locking" /\ z.todo = <<>> /\ AsSeen(s)
      /\ session' = [session EXCEPT ![s].pc = "deciding", ![s].scenes = scene,
                                    ![s].binding = binding]
      /\ UNCHANGED <<scene, madeBy, plan, binding, counted, run, applied, sent, answered>>
  BY DEF Look, Fresh, rows
<1>2. z \in SessionRecord /\ Sound(z)
  BY DEF Inv, Types, Locking
<1>3. session' = [session EXCEPT ![s] = x]
  BY <1>1, <1>2 DEF Inv, Types
<1>4. /\ x.pc = "deciding" /\ x.action = z.action /\ x.request = z.request /\ x.todo = z.todo
      /\ x.held = z.held /\ x.scenes = scene /\ x.binding = binding /\ x \in SessionRecord
  BY <1>2 DEF SessionRecord, Inv, Types
<1> HIDE DEF x
<1>5. z.request.kind = "approve" =>
        z.request.seen[z.request.scene] = scene[z.request.scene].revision
  BY <1>1 DEF AsSeen
<1>6. Sound(x)
  BY <1>1, <1>2, <1>4, <1>5 DEF Sound, Inv, Types
<1>7. session' \in [Session -> SessionRecord] /\ Locking'
  BY <1>3, <1>4, <1>6, SessionGoes DEF Inv
<1>8. SnapshotsHold'
  <2>1. \A u \in Session : session'[u] = IF u = s THEN x ELSE session[u]
    BY <1>3 DEF Inv, Types
  <2>2. ASSUME NEW u \in Session, session'[u].pc = "deciding",
               NEW i \in Needed(session'[u].request)
        PROVE  session'[u].scenes[i] = scene'[i]
    <3>1. CASE u = s
      BY <1>1, <1>4, <2>1, <2>2, <3>1
    <3>2. CASE u # s
      <4>1. session'[u] = session[u] /\ session[u].pc = "deciding"
        BY <2>1, <2>2, <3>2
      <4>2. i \in Needed(session[u].request)
        BY <4>1
      <4> QED
        BY <1>1, <4>1, <4>2 DEF Inv, SnapshotsHold
    <3> QED
      BY <3>1, <3>2
  <2> QED
    BY <2>2 DEF SnapshotsHold
<1> QED
  BY <1>1, <1>7, <1>8, NothingHappens DEF Inv, Types, AnswerIsTrue

LEMMA EndStep ==
  ASSUME Inv, NEW s \in Session, Replay(s) \/ RollBack(s)
  PROVE  Inv'
<1>1. /\ session' = [session EXCEPT ![s] = Idle]
      /\ UNCHANGED <<scene, madeBy, plan, binding, counted, run, applied, sent>>
  BY DEF Replay, RollBack, Succeed, End, rows
<1>2. session' \in [Session -> SessionRecord] /\ Locking' /\ SnapshotsHold'
  BY <1>1, DeliveryEnds DEF Inv
<1>3. answered' \in [Action -> SUBSET Sendable] /\ AnswerIsTrue'
  <2>1. CASE RollBack(s)
    BY <2>1, <1>1 DEF RollBack, Inv, Types, AnswerIsTrue
  <2>2. CASE Replay(s)
    <3>1. session[s].pc # "idle" /\ Sound(session[s])
      BY <2>2 DEF Replay, LooksUp, Inv, Locking
    <3>2. /\ session[s].action \in Action /\ session[s].request \in Sendable
          /\ applied[session[s].action] = session[s].request
          /\ answered' = [answered EXCEPT ![session[s].action] = @ \cup {session[s].request}]
      BY <2>2, <3>1 DEF Replay, Recorded, SameRequest, Succeed, Sound
    <3> QED
      BY <1>1, <3>2 DEF Inv, Types, AnswerIsTrue
  <2> QED
    BY <2>1, <2>2
<1> QED
  BY <1>1, <1>2, <1>3, NothingHappens DEF Inv, Types

-----------------------------------------------------------------------------
(* The commits.                                                            *)

\* A transaction that commits: what it read is what there is, and its request
\* is recorded.
LEMMA Committing ==
  ASSUME Inv, NEW s \in Session, NEW kind, Ready(s, kind), Record(s),
         \A i \in SceneId : scene'[i] # scene[i] => i \in Needed(session[s].request)
  PROVE  /\ session[s].request \in Sendable /\ session[s].request.kind = kind
         /\ session[s].binding \in [SceneId -> Nat]
         /\ session[s].scenes \in [SceneId -> SceneRecord]
         /\ \A i \in Needed(session[s].request) : session[s].scenes[i] = scene[i]
         /\ kind # "replan" => /\ OwnScene(s) \in SceneId
                                /\ OwnScene(s) \in Needed(session[s].request)
                                /\ AsRead(s) = scene[OwnScene(s)]
         /\ kind = "approve" => session[s].request.seen[OwnScene(s)] = AsRead(s).revision
         /\ session' \in [Session -> SessionRecord] /\ Locking' /\ SnapshotsHold'
         /\ applied' \in [Action -> Sendable \cup {NoRequest}]
         /\ answered' \in [Action -> SUBSET Sendable]
         /\ AnswerIsTrue'
         /\ session[s].action \in Action
         /\ applied'[session[s].action] = session[s].request
         /\ \A a \in Action : applied[a].kind = "approve" => applied'[a] = applied[a]
<1>1. session[s].pc = "deciding" /\ session[s].request.kind = kind /\ Recorded(s) = NoRequest
  BY DEF Ready
<1>2. /\ session[s].action \in Action /\ session[s].request \in Sendable
      /\ Needed(session[s].request) \subseteq session[s].held
      /\ session[s].scenes \in [SceneId -> SceneRecord]
      /\ session[s].binding \in [SceneId -> Nat]
      /\ \A i \in Needed(session[s].request) : session[s].scenes[i] = scene[i]
      /\ kind = "approve" => session[s].request.seen[OwnScene(s)]
                              = session[s].scenes[OwnScene(s)].revision
  BY <1>1, DeciderHolds DEF Inv
<1>3. kind # "replan" => OwnScene(s) \in SceneId /\ OwnScene(s) \in Needed(session[s].request)
  BY <1>1, <1>2 DEF OwnScene, Needed, Sendable
<1>4. /\ session' = [session EXCEPT ![s] = Idle]
      /\ applied' \in [Action -> Sendable \cup {NoRequest}]
      /\ answered' \in [Action -> SUBSET Sendable]
      /\ AnswerIsTrue'
      /\ applied'[session[s].action] = session[s].request
      /\ \A a \in Action : applied[a].kind = "approve" => applied'[a] = applied[a]
  BY <1>1, <1>2, Recording DEF Inv
<1>5. session' \in [Session -> SessionRecord] /\ Locking' /\ SnapshotsHold'
  BY <1>2, <1>4, DeliveryEnds DEF Inv
<1> QED
  BY <1>1, <1>2, <1>3, <1>4, <1>5 DEF AsRead

LEMMA SavedBindings ==
  ASSUME Types, NEW s \in Session, session[s].binding \in [SceneId -> Nat],
         NEW revision \in Nat, SaveBindings(s, revision)
  PROVE  binding' \in [SceneId -> Nat]
BY DEF SaveBindings, Types

LEMMA EditStep ==
  ASSUME Inv, NEW s \in Session, Edit(s)
  PROVE  Inv'
<1> DEFINE i == OwnScene(s)
           x == AsRead(s)
<1>1. PICK kind \in {"edit", "references"} : Ready(s, kind)
  BY DEF Edit
<1>2. /\ MayEdit(x) /\ scene' = [scene EXCEPT ![i] = Edited(x)]
      /\ madeBy' = [madeBy EXCEPT ![i] = "edit"] /\ SaveBindings(s, x.revision + 1)
      /\ Record(s) /\ UNCHANGED <<plan, counted, run, sent>>
  BY DEF Edit
<1>3. i \in SceneId /\ i \in Needed(session[s].request) /\ x = scene[i]
  <2>1. session[s].pc = "deciding" /\ session[s].request.kind = kind
    BY <1>1 DEF Ready
  <2> QED
    BY <1>1, <2>1, DeciderHolds DEF Inv, OwnScene, AsRead, Needed, Sendable
<1>4. \A j \in SceneId : scene'[j] = IF j = i THEN Edited(x) ELSE scene[j]
  BY <1>2, <1>3 DEF Inv, Types
<1>5. \A j \in SceneId : scene'[j] # scene[j] => j \in Needed(session[s].request)
  BY <1>3, <1>4
<1>6. /\ session[s].binding \in [SceneId -> Nat]
      /\ session' \in [Session -> SessionRecord] /\ Locking' /\ SnapshotsHold'
      /\ applied' \in [Action -> Sendable \cup {NoRequest}]
      /\ answered' \in [Action -> SUBSET Sendable]
      /\ AnswerIsTrue'
      /\ \A a \in Action : applied[a].kind = "approve" => applied'[a] = applied[a]
  BY <1>1, <1>2, <1>5, Committing
<1>7. x \in SceneRecord /\ Edited(x) \in SceneRecord /\ Edited(x).status # "approved"
  BY <1>2, <1>3, SceneMoves DEF Inv, Types
<1>8. x.revision + 1 \in Nat
  BY <1>7 DEF SceneRecord
<1>9. Types'
  <2>1. scene' \in [SceneId -> SceneRecord]
    BY <1>2, <1>3, <1>7 DEF Inv, Types
  <2>2. madeBy' \in [SceneId -> {"plan", "edit", "reroll"}]
    BY <1>2, <1>3 DEF Inv, Types
  <2>3. binding' \in [SceneId -> Nat]
    BY <1>2, <1>6, <1>8, SavedBindings DEF Inv
  <2> QED
    BY <1>2, <1>6, <2>1, <2>2, <2>3 DEF Inv, Types
<1>10. run = NoRun
  BY <1>2, <1>3, BeforeTheRun DEF MayEdit, InProduction
<1>11. ~AllApproved(scene')
  BY <1>3, <1>4, <1>7 DEF AllApproved
<1>12. ApprovedAsNamed' /\ AllApprovedMeansDispatched' /\ RunIsWhatWasApproved'
  BY <1>2, <1>4, <1>6, <1>7, <1>10, <1>11, CampaignGoesOn
<1> QED
  BY <1>6, <1>9, <1>12 DEF Inv

LEMMA KeepReferencesStep ==
  ASSUME Inv, NEW s \in Session, KeepReferences(s)
  PROVE  Inv'
<1>1. /\ Ready(s, "references") /\ MayEdit(AsRead(s)) /\ SaveBindings(s, AsRead(s).revision)
      /\ Record(s) /\ UNCHANGED <<scene, madeBy, plan, counted, run, sent>>
  BY DEF KeepReferences
<1>2. /\ OwnScene(s) \in SceneId /\ AsRead(s) = scene[OwnScene(s)]
      /\ session[s].binding \in [SceneId -> Nat]
      /\ session' \in [Session -> SessionRecord] /\ Locking' /\ SnapshotsHold'
      /\ applied' \in [Action -> Sendable \cup {NoRequest}]
      /\ answered' \in [Action -> SUBSET Sendable]
      /\ AnswerIsTrue'
      /\ \A a \in Action : applied[a].kind = "approve" => applied'[a] = applied[a]
  BY <1>1, Committing
<1>3. AsRead(s).revision \in Nat
  BY <1>2 DEF Inv, Types, SceneRecord
<1>4. Types'
  BY <1>1, <1>2, <1>3, SavedBindings DEF Inv, Types
<1>5. run = NoRun
  BY <1>1, <1>2, BeforeTheRun DEF MayEdit, InProduction
<1>6. ~AllApproved(scene')
  BY <1>1, <1>5 DEF Inv, AllApprovedMeansDispatched
<1>7. ASSUME NEW i \in SceneId, scene'[i].status = "approved"
      PROVE  scene[i].status = "approved" /\ scene'[i].revision = scene[i].revision
  BY <1>1, <1>7
<1>8. ApprovedAsNamed' /\ AllApprovedMeansDispatched' /\ RunIsWhatWasApproved'
  BY <1>1, <1>2, <1>5, <1>6, <1>7, CampaignGoesOn
<1> QED
  BY <1>2, <1>4, <1>8 DEF Inv

\* An approval has locked and read every scene.
LEMMA Approving ==
  ASSUME Inv, NEW s \in Session, Ready(s, "approve")
  PROVE  /\ Needed(session[s].request) = SceneId
         /\ session[s].scenes = scene /\ OwnScene(s) \in SceneId
         /\ AsRead(s) = scene[OwnScene(s)] /\ AsRead(s) \in SceneRecord
         /\ WithApproval(s) = [scene EXCEPT ![OwnScene(s)] = Approved(AsRead(s))]
         /\ WithApproval(s) \in [SceneId -> SceneRecord]
<1>1. session[s].pc = "deciding" /\ session[s].request.kind = "approve"
  BY DEF Ready
<1>2. Needed(session[s].request) = SceneId
  BY <1>1 DEF Needed
<1>3. OwnScene(s) \in SceneId
  BY <1>1, DeciderHolds DEF Inv, OwnScene, Sendable
<1>4. session[s].scenes = scene
  <2>1. /\ session[s].scenes \in [SceneId -> SceneRecord]
        /\ \A i \in SceneId : session[s].scenes[i] = scene[i]
    BY <1>1, <1>2, DeciderHolds DEF Inv
  <2> QED
    BY <2>1 DEF Inv, Types
<1>5. AsRead(s) = scene[OwnScene(s)] /\ AsRead(s) \in SceneRecord
  BY <1>3, <1>4 DEF AsRead, Inv, Types
<1>6. WithApproval(s) = [scene EXCEPT ![OwnScene(s)] = Approved(AsRead(s))]
  BY <1>4, <1>5 DEF WithApproval
<1>7. WithApproval(s) \in [SceneId -> SceneRecord]
  BY <1>3, <1>5, <1>6, SceneMoves DEF Inv, Types
<1> QED
  BY <1>2, <1>3, <1>4, <1>5, <1>6, <1>7

LEMMA ApproveOneStep ==
  ASSUME Inv, NEW s \in Session, ApproveOne(s)
  PROVE  Inv'
<1> DEFINE i == OwnScene(s)
           x == AsRead(s)
<1>1. /\ Ready(s, "approve") /\ MayApprove(x) /\ ~AllApproved(WithApproval(s))
      /\ scene' = [scene EXCEPT ![i] = Approved(x)]
      /\ counted' = Cardinality({j \in SceneId : WithApproval(s)[j].status = "approved"})
      /\ Record(s) /\ UNCHANGED <<madeBy, plan, binding, run, sent>>
  BY DEF ApproveOne
<1>2. /\ i \in SceneId /\ x = scene[i] /\ x \in SceneRecord /\ scene' = WithApproval(s)
      /\ scene' \in [SceneId -> SceneRecord] /\ Needed(session[s].request) = SceneId
  BY <1>1, Approving
<1>3. \A j \in SceneId : scene'[j] = IF j = i THEN Approved(x) ELSE scene[j]
  BY <1>1, <1>2 DEF Inv, Types
<1>4. /\ session[s].request.kind = "approve" /\ session[s].request.seen[i] = x.revision
      /\ session' \in [Session -> SessionRecord] /\ Locking' /\ SnapshotsHold'
      /\ applied' \in [Action -> Sendable \cup {NoRequest}]
      /\ answered' \in [Action -> SUBSET Sendable]
      /\ AnswerIsTrue'
      /\ session[s].action \in Action /\ applied'[session[s].action] = session[s].request
      /\ \A a \in Action : applied[a].kind = "approve" => applied'[a] = applied[a]
  BY <1>1, <1>2, Committing
<1>5. counted' \in Nat
  <2>1. {j \in SceneId : WithApproval(s)[j].status = "approved"} \subseteq SceneId
    OBVIOUS
  <2> QED
    BY <1>1, <2>1, EditsConstants, FS_Subset, FS_CardinalityType
<1>6. Types'
  BY <1>1, <1>2, <1>4, <1>5 DEF Inv, Types
<1>7. run = NoRun
  BY <1>1, <1>2, BeforeTheRun DEF MayApprove, InProduction
<1>8. ASSUME NEW j \in SceneId, scene'[j].status = "approved"
      PROVE  \/ scene[j].status = "approved" /\ scene'[j].revision = scene[j].revision
             \/ \E a \in Action : applied'[a].kind = "approve"
                                /\ applied'[a].seen[j] = scene'[j].revision
  <2>1. CASE j = i
    <3>1. scene'[j].revision = x.revision
      BY <1>2, <1>3, <2>1, SceneMoves
    <3> QED
      BY <1>4, <2>1, <3>1
  <2>2. CASE j # i
    BY <1>3, <1>8, <2>2
  <2> QED
    BY <2>1, <2>2
<1>9. ApprovedAsNamed' /\ AllApprovedMeansDispatched' /\ RunIsWhatWasApproved'
  BY <1>1, <1>2, <1>4, <1>7, <1>8, CampaignGoesOn
<1> QED
  BY <1>4, <1>6, <1>9 DEF Inv

\* The run is made of the approvals: of the one that comes last, and of those
\* that the director named before.
LEMMA DispatchStep ==
  ASSUME Inv, NEW s \in Session, Dispatch(s)
  PROVE  Inv'
<1> DEFINE i == OwnScene(s)
           x == AsRead(s)
           w == WithApproval(s)
<1>1. /\ Ready(s, "approve") /\ AllApproved(w)
      /\ run' = [plan |-> plan, revision |-> [j \in SceneId |-> w[j].revision]]
      /\ scene' = [j \in SceneId |-> Queued(w[j], j)]
      /\ counted' = N
      /\ Record(s) /\ UNCHANGED <<madeBy, plan, binding, sent>>
  BY DEF Dispatch
<1>2. /\ i \in SceneId /\ x = scene[i] /\ x \in SceneRecord
      /\ w = [scene EXCEPT ![i] = Approved(x)]
      /\ w \in [SceneId -> SceneRecord] /\ Needed(session[s].request) = SceneId
  BY <1>1, Approving
<1>3. \A j \in SceneId : w[j] = IF j = i THEN Approved(x) ELSE scene[j]
  BY <1>2 DEF Inv, Types
<1>4. /\ session[s].request.kind = "approve" /\ session[s].request.seen[i] = x.revision
      /\ session' \in [Session -> SessionRecord] /\ Locking' /\ SnapshotsHold'
      /\ applied' \in [Action -> Sendable \cup {NoRequest}]
      /\ answered' \in [Action -> SUBSET Sendable]
      /\ AnswerIsTrue'
      /\ session[s].action \in Action /\ applied'[session[s].action] = session[s].request
      /\ \A a \in Action : applied[a].kind = "approve" => applied'[a] = applied[a]
  BY <1>1, <1>2, Committing
<1> HIDE DEF w, x, i
<1>5. ASSUME NEW j \in SceneId
      PROVE  /\ scene'[j] \in SceneRecord /\ scene'[j].status = "queued"
             /\ scene'[j].revision = w[j].revision
  <2>1. w[j] \in SceneRecord /\ j \in Nat
    BY <1>2, SceneIdIsNat
  <2> QED
    BY <1>1, <2>1, SceneMoves
<1>6. ASSUME NEW j \in SceneId
      PROVE  \E a \in Action : applied'[a].kind = "approve" /\ applied'[a].seen[j] = w[j].revision
  <2>1. CASE j = i
    <3>1. w[j].revision = x.revision
      BY <1>2, <1>3, <2>1, SceneMoves
    <3> QED
      BY <1>4, <2>1, <3>1
  <2>2. CASE j # i
    <3>1. w[j] = scene[j] /\ scene[j].status = "approved"
      BY <1>1, <1>3, <2>2 DEF AllApproved
    <3> QED
      BY <1>4, <3>1 DEF Inv, ApprovedAsNamed
  <2> QED
    BY <2>1, <2>2
<1>7. run' \in [plan : Nat, revision : [SceneId -> Nat]]
  <2>1. \A j \in SceneId : w[j].revision \in Nat
    BY <1>2 DEF SceneRecord
  <2> QED
    BY <1>1, <2>1 DEF Inv, Types
<1>8. Types'
  <2>1. scene' \in [SceneId -> SceneRecord]
    BY <1>1, <1>5
  <2> QED
    BY <1>1, <1>4, <1>7, <2>1, SceneIdIsNat DEF Inv, Types
<1>9. RunIsWhatWasApproved'
  <2>1. run'.plan = plan' /\ \A j \in SceneId : run'.revision[j] = w[j].revision
    BY <1>1
  <2> QED
    BY <1>5, <1>6, <2>1 DEF RunIsWhatWasApproved, InProduction
<1>10. ApprovedAsNamed'
  BY <1>5 DEF ApprovedAsNamed
<1>11. AllApprovedMeansDispatched'
  <2>1. SceneId # {} /\ ~AllApproved(scene')
    BY <1>5, EditsConstants DEF AllApproved
  <2> QED
    BY <2>1 DEF AllApprovedMeansDispatched
<1> QED
  BY <1>4, <1>8, <1>9, <1>10, <1>11 DEF Inv

LEMMA ReplanStep ==
  ASSUME Inv, NEW s \in Session, Replan(s)
  PROVE  Inv'
<1> DEFINE xs == session[s].scenes
<1>1. /\ Ready(s, "replan") /\ \A i \in SceneId : MayEdit(xs[i])
      /\ plan' = plan + 1 /\ scene' = [i \in SceneId |-> Edited(xs[i])]
      /\ madeBy' = [i \in SceneId |-> "plan"]
      /\ binding' = [i \in SceneId |-> xs[i].revision + 1]
      /\ counted' = 0 /\ Record(s) /\ UNCHANGED <<run, sent>>
  BY DEF Replan, Reallocated
<1>2. Needed(session[s].request) = SceneId
  BY <1>1 DEF Ready, Needed
<1>3. /\ xs \in [SceneId -> SceneRecord] /\ \A i \in SceneId : xs[i] = scene[i]
      /\ session' \in [Session -> SessionRecord] /\ Locking' /\ SnapshotsHold'
      /\ applied' \in [Action -> Sendable \cup {NoRequest}]
      /\ answered' \in [Action -> SUBSET Sendable]
      /\ AnswerIsTrue'
      /\ \A a \in Action : applied[a].kind = "approve" => applied'[a] = applied[a]
  BY <1>1, <1>2, Committing
<1> HIDE DEF xs
<1>4. ASSUME NEW i \in SceneId
      PROVE  scene'[i] \in SceneRecord /\ scene'[i].status # "approved"
  BY <1>1, <1>3, SceneMoves
<1>5. \A i \in SceneId : xs[i].revision + 1 \in Nat
  BY <1>3 DEF SceneRecord
<1>6. Types'
  <2>1. scene' \in [SceneId -> SceneRecord]
    BY <1>1, <1>4
  <2> QED
    BY <1>1, <1>3, <1>5, <2>1 DEF Inv, Types
<1>7. PICK i \in SceneId : TRUE
  BY EditsConstants
<1>8. run = NoRun /\ ~AllApproved(scene')
  BY <1>1, <1>3, <1>4, <1>7, BeforeTheRun DEF MayEdit, InProduction, AllApproved
<1>9. ApprovedAsNamed' /\ AllApprovedMeansDispatched' /\ RunIsWhatWasApproved'
  BY <1>1, <1>3, <1>4, <1>8, CampaignGoesOn
<1> QED
  BY <1>3, <1>6, <1>9 DEF Inv

\* A command of one scene, in review or waiting for it, that nobody has locked.
LEMMA ChangedAlone ==
  ASSUME Inv, NEW i \in SceneId, NEW x \in SceneRecord, NEW maker \in {"plan", "edit", "reroll"},
         ChangeAlone(i, x, maker), x.status # "approved",
         scene[i].status \notin InProduction
  PROVE  Inv'
<1>1. /\ Unlocked(i) /\ scene' = [scene EXCEPT ![i] = x] /\ madeBy' = [madeBy EXCEPT ![i] = maker]
      /\ UNCHANGED <<plan, binding, counted, run, sent, applied, answered, session>>
  BY DEF ChangeAlone
<1>2. \A j \in SceneId : scene'[j] = IF j = i THEN x ELSE scene[j]
  BY <1>1 DEF Inv, Types
<1>3. Types' /\ AnswerIsTrue' /\ Locking'
  BY <1>1 DEF Inv, Types, AnswerIsTrue, Locking, LocksApart
<1>4. SnapshotsHold'
  <2> SUFFICES ASSUME NEW u \in Session, session[u].pc = "deciding",
                      NEW j \in Needed(session[u].request)
               PROVE  session[u].scenes[j] = scene'[j]
    BY <1>1 DEF SnapshotsHold
  <2>1. j \in session[u].held /\ session[u].scenes[j] = scene[j] /\ j \in SceneId
    BY DeciderHolds DEF Inv, Needed, Sendable, SceneKinds
  <2>2. j # i
    BY <1>1, <2>1 DEF Unlocked
  <2> QED
    BY <1>2, <2>1, <2>2
<1>5. run = NoRun
  BY BeforeTheRun
<1>6. ~AllApproved(scene')
  BY <1>2 DEF AllApproved
<1>7. ApprovedAsNamed' /\ AllApprovedMeansDispatched' /\ RunIsWhatWasApproved'
  BY <1>1, <1>2, <1>5, <1>6, CampaignGoesOn
<1> QED
  BY <1>3, <1>4, <1>7 DEF Inv

LEMMA AloneStep ==
  ASSUME Inv, NEW i \in SceneId, Select(i) \/ Reroll(i) \/ SubmitForReview(i)
  PROVE  Inv'
<1>1. scene[i] \in SceneRecord /\ scene[i].revision \in Nat
      /\ madeBy[i] \in {"plan", "edit", "reroll"}
  BY DEF Inv, Types, SceneRecord
<1>2. CASE Select(i)
  <2>1. scene[i].status = "director_review"
    BY <1>2 DEF Select, MaySelect
  <2> QED
    BY <1>1, <1>2, <2>1, SceneMoves, ChangedAlone DEF Select, InProduction
<1>3. CASE Reroll(i)
  <2>1. scene[i].status = "director_review"
    BY <1>3 DEF Reroll, MayReroll
  <2> QED
    BY <1>1, <1>3, <2>1, SceneMoves, ChangedAlone DEF Reroll, InProduction
<1>4. CASE SubmitForReview(i)
  <2>1. scene[i].status = "generating_candidates"
    BY <1>4 DEF SubmitForReview, MaySubmitForReview
  <2> QED
    BY <1>1, <1>4, <2>1, SceneMoves, ChangedAlone DEF SubmitForReview, InProduction
<1> QED
  BY <1>2, <1>3, <1>4

LEMMA InvStep == Inv /\ [Next]_vars => Inv'
<1> SUFFICES ASSUME Inv, [Next]_vars PROVE Inv'
  OBVIOUS
<1>1. CASE Next
  BY <1>1, SendStep, BeginStep, AcquireStep, LookStep, EndStep, EditStep, KeepReferencesStep,
     ApproveOneStep, DispatchStep, ReplanStep, AloneStep
     DEF Next
<1>2. CASE UNCHANGED vars
  BY <1>2, NothingHappens
     DEF vars, Inv, Types, Locking, LocksApart, SnapshotsHold, AnswerIsTrue
<1> QED
  BY <1>1, <1>2

LEMMA InvHolds == Spec => []Inv
BY InitInv, InvStep, PTL DEF Spec

-----------------------------------------------------------------------------
\* Of transactions that wait for each other all would hold the campaign's row.
LEMMA NoOtherDeadlock == Inv => OnlyReferenceChangesDeadlock
<1> SUFFICES ASSUME Inv, NEW D \in (SUBSET Session) \ {{}},
                    \A s \in D : \E u \in D \ {s} : WaitsFor(s, u)
             PROVE  \E s \in D : session[s].request.kind = "references"
  BY DEF OnlyReferenceChangesDeadlock
<1> SUFFICES ASSUME \A s \in D : session[s].request.kind # "references"
             PROVE  FALSE
  OBVIOUS
<1>1. ASSUME NEW s \in D PROVE Campaign \in session[s].held
  <2>1. session[s].pc = "locking" /\ session[s].todo # <<>>
    BY DEF WaitsFor
  <2>2. Sound(session[s])
    BY DEF Inv, Locking
  <2>3. session[s].request.kind \in SceneKinds \cup {"replan"}
    BY <2>1, <2>2 DEF Sound, Sendable
  <2>4. session[s].request.kind # "edit"
    BY <2>1, <2>2 DEF Sound
  <2> QED
    BY <2>1, <2>2, <2>3, <2>4 DEF Sound, SceneKinds
<1>2. PICK s \in D : TRUE
  <2>1. D # {}
    BY Zenon
  <2> QED
    BY <2>1
<1>3. PICK u \in D \ {s} : WaitsFor(s, u)
  OBVIOUS
<1> QED
  BY <1>1, <1>2, <1>3 DEF Inv, Locking, LocksApart

\* However many scenes are approved at once, by deliveries that are repeated or
\* late, the approval that is the last one finds that it is, and dispatches
\* (dispatch-campaign-production.ts).
THEOREM LastApprovalDispatches == Spec => []AllApprovedMeansDispatched
BY InvHolds, PTL DEF Inv

\* What goes into production is what the director approved, revision by
\* revision, under the plan that is current, and nothing changes it after
\* (review-scene.ts, replan-campaign.ts, dispatch-campaign-production.ts).
THEOREM DispatchedAsApproved == Spec => []RunIsWhatWasApproved
BY InvHolds, PTL DEF Inv

\* A success is answered to those requests only that were carried out under
\* their id (prepareReviewExecution, the receipts of a replan).
THEOREM SuccessesAreTrue == Spec => []AnswerIsTrue
BY InvHolds, PTL DEF Inv

\* Transactions that wait for each other in a circle, of any length, have a
\* change of references among them (the order of locks that the repositories
\* take for approvals, replans and edits).
THEOREM OthersDoNotDeadlock == Spec => []OnlyReferenceChangesDeadlock
BY InvHolds, NoOtherDeadlock, PTL
-----------------------------------------------------------------------------
(* What a commit does to what is there, not to what it has read.           *)

\* One method of the aggregate, or an approval with the queueing that follows
\* it in the same transaction, takes scene i as it is to what it becomes.
SceneMethod(i) ==
  LET x == scene[i]
      y == scene'[i]
  IN \/ MayEdit(x) /\ y = Edited(x)
     \/ MayReroll(x) /\ y = Rerolled(x)
     \/ MaySelect(x, x.revision) /\ y = CandidateSelected(x, x.revision)
     \/ MaySubmitForReview(x) /\ y = SubmittedForReview(x)
     \/ MayApprove(x) /\ y \in {Approved(x), Queued(Approved(x), i)}
     \/ x.status = "approved" /\ y = Queued(x, i)

\* Repositories save the whole aggregate that the transaction has read; even so
\* no edit, approval or selection overwrites another that came in between
\* (findByIdForUpdate and save of the repositories of scenes).
NoUpdateIsLost == [][\A i \in SceneId : scene'[i] = scene[i] \/ SceneMethod(i)]_vars

\* A campaign that is in production is out of reach of the commands of the
\* review, late or repeated as they may be.
DispatchedCampaignStays == [][run # NoRun => UNCHANGED <<scene, plan, run>>]_vars

\* What is recorded under an id stays what it is: an id never counts for a
\* second command (review_events, replan_action_receipts).
RecordsArePermanent ==
  [][\A a \in Action : applied[a] # NoRequest => applied'[a] = applied[a]]_vars

\* A decision rests on rows the transaction holds, so it is one about them.
LEMMA ReadIsThere ==
  ASSUME Inv, NEW s \in Session, NEW kind \in {"edit", "references"}, Ready(s, kind)
  PROVE  OwnScene(s) \in SceneId /\ AsRead(s) = scene[OwnScene(s)]
<1>1. session[s].pc = "deciding" /\ session[s].request.kind = kind
  BY DEF Ready
<1> QED
  BY <1>1, DeciderHolds DEF Inv, OwnScene, AsRead, Needed, Sendable

\* Each commit, scene by scene.
LEMMA CommitsAreMethods ==
  ASSUME Inv, [Next]_vars, NEW i \in SceneId
  PROVE  scene'[i] = scene[i] \/ SceneMethod(i)
<1>1. CASE \E s \in Session : Edit(s)
  <2>1. PICK s \in Session : Edit(s)
    BY <1>1
  <2>2. PICK kind \in {"edit", "references"} : Ready(s, kind)
    BY <2>1 DEF Edit
  <2>3. OwnScene(s) \in SceneId /\ AsRead(s) = scene[OwnScene(s)]
    BY <2>2, ReadIsThere
  <2>4. MayEdit(AsRead(s)) /\ scene' = [scene EXCEPT ![OwnScene(s)] = Edited(AsRead(s))]
    BY <2>1 DEF Edit
  <2> QED
    BY <2>3, <2>4 DEF Inv, Types, SceneMethod
<1>2. CASE \E s \in Session : ApproveOne(s)
  <2>1. PICK s \in Session : ApproveOne(s)
    BY <1>2
  <2>2. /\ Ready(s, "approve") /\ MayApprove(AsRead(s))
        /\ scene' = [scene EXCEPT ![OwnScene(s)] = Approved(AsRead(s))]
    BY <2>1 DEF ApproveOne
  <2>3. OwnScene(s) \in SceneId /\ AsRead(s) = scene[OwnScene(s)]
    BY <2>2, Approving
  <2> QED
    BY <2>2, <2>3 DEF Inv, Types, SceneMethod
<1>3. CASE \E s \in Session : Dispatch(s)
  <2>1. PICK s \in Session : Dispatch(s)
    BY <1>3
  <2> DEFINE w == WithApproval(s)
  <2>2. /\ Ready(s, "approve") /\ MayApprove(AsRead(s)) /\ AllApproved(w)
        /\ scene' = [j \in SceneId |-> Queued(w[j], j)]
    BY <2>1 DEF Dispatch
  <2>3. /\ OwnScene(s) \in SceneId /\ AsRead(s) = scene[OwnScene(s)]
        /\ w = [scene EXCEPT ![OwnScene(s)] = Approved(AsRead(s))]
    BY <2>2, Approving
  <2> HIDE DEF w
  <2>4. CASE i = OwnScene(s)
    <3>1. w[i] = Approved(scene[i])
      BY <2>3, <2>4 DEF Inv, Types
    <3> QED
      BY <2>2, <2>3, <2>4, <3>1 DEF SceneMethod
  <2>5. CASE i # OwnScene(s)
    <3>1. w[i] = scene[i] /\ scene[i].status = "approved"
      BY <2>2, <2>3, <2>5 DEF Inv, Types, AllApproved
    <3> QED
      BY <2>2, <3>1 DEF SceneMethod
  <2> QED
    BY <2>4, <2>5
<1>4. CASE \E s \in Session : Replan(s)
  <2>1. PICK s \in Session : Replan(s)
    BY <1>4
  <2>2. /\ Ready(s, "replan") /\ MayEdit(session[s].scenes[i])
        /\ scene' = [j \in SceneId |-> Edited(session[s].scenes[j])]
    BY <2>1 DEF Replan, Reallocated
  <2>3. session[s].pc = "deciding" /\ Needed(session[s].request) = SceneId
    BY <2>2 DEF Ready, Needed
  <2>4. session[s].scenes[i] = scene[i]
    BY <2>3, DeciderHolds DEF Inv
  <2> QED
    BY <2>2, <2>4 DEF SceneMethod
<1>5. CASE \E j \in SceneId : Select(j) \/ Reroll(j) \/ SubmitForReview(j)
  BY <1>5 DEF Select, Reroll, SubmitForReview, ChangeAlone, Inv, Types, SceneMethod
<1>6. CASE UNCHANGED scene
  BY <1>6
<1>7. CASE \E s \in Session : Begin(s) \/ Acquire(s) \/ Look(s) \/ Replay(s) \/ RollBack(s)
                              \/ KeepReferences(s)
  BY <1>6, <1>7 DEF Begin, Acquire, Look, Replay, RollBack, KeepReferences, rows
<1>8. CASE \E a \in Action : Send(a)
  BY <1>6, <1>8 DEF Send, rows
<1> QED
  BY <1>1, <1>2, <1>3, <1>4, <1>5, <1>6, <1>7, <1>8 DEF Next, vars

\* No scene of a run has a method left that a commit of this phase calls.
LEMMA NothingReachesTheRun ==
  ASSUME Inv, Inv', [Next]_vars, run # NoRun
  PROVE  UNCHANGED <<scene, plan, run>>
<1>1. \A i \in SceneId : scene[i].status \in InProduction
  BY DEF Inv, RunIsWhatWasApproved
<1>2. scene' = scene
  <2>1. \A i \in SceneId : ~SceneMethod(i)
    BY <1>1 DEF SceneMethod, InProduction, MayEdit, MayReroll, MaySelect, MaySubmitForReview,
                MayApprove
  <2>2. \A i \in SceneId : scene'[i] = scene[i]
    BY <2>1, CommitsAreMethods
  <2> QED
    BY <2>2 DEF Inv, Types
<1>3. ASSUME NEW s \in Session, Replan(s) PROVE FALSE
  <2>1. PICK i \in SceneId : TRUE
    BY EditsConstants
  <2>2. Ready(s, "replan") /\ MayEdit(session[s].scenes[i])
    BY <1>3, <2>1 DEF Replan
  <2>3. session[s].pc = "deciding" /\ Needed(session[s].request) = SceneId
    BY <2>2 DEF Ready, Needed
  <2>4. session[s].scenes[i] = scene[i]
    BY <2>1, <2>3, DeciderHolds DEF Inv
  <2> QED
    BY <1>1, <2>1, <2>2, <2>4 DEF MayEdit, InProduction
<1>4. plan' = plan /\ run' = run
  BY <1>3 DEF Next, vars, rows, Send, Begin, Acquire, Look, Replay, RollBack, Edit,
              KeepReferences, ApproveOne, Dispatch, Select, Reroll, SubmitForReview, ChangeAlone
<1> QED
  BY <1>2, <1>4

\* Whoever records under an id has found nothing under it, with the lock held
\* that every command of the id needs.
LEMMA RecordsStay ==
  ASSUME Inv, [Next]_vars, NEW a \in Action, applied[a] # NoRequest
  PROVE  applied'[a] = applied[a]
<1>1. ASSUME NEW s \in Session, Record(s), Recorded(s) = NoRequest
      PROVE  applied'[a] = applied[a]
  BY <1>1 DEF Record, Recorded, Inv, Types
<1>2. CASE \E s \in Session : Edit(s) \/ KeepReferences(s) \/ ApproveOne(s) \/ Dispatch(s)
                              \/ Replan(s)
  BY <1>1, <1>2 DEF Edit, KeepReferences, ApproveOne, Dispatch, Replan, Ready
<1>3. CASE UNCHANGED applied
  BY <1>3
<1>4. CASE \E s \in Session : Begin(s) \/ Acquire(s) \/ Look(s) \/ Replay(s) \/ RollBack(s)
  BY <1>3, <1>4 DEF Begin, Acquire, Look, Replay, RollBack, rows
<1>5. CASE \E i \in SceneId : Select(i) \/ Reroll(i) \/ SubmitForReview(i)
  BY <1>3, <1>5 DEF Select, Reroll, SubmitForReview, ChangeAlone
<1>6. CASE \E b \in Action : Send(b)
  BY <1>3, <1>6 DEF Send, rows
<1> QED
  BY <1>2, <1>3, <1>4, <1>5, <1>6 DEF Next, vars

\* Every change of a scene is a method called on the scene as it is at the
\* commit: the snapshot that the transaction saves is never stale.
THEOREM UpdatesAreNotLost == Spec => NoUpdateIsLost
<1>1. Inv /\ [Next]_vars => [\A i \in SceneId : scene'[i] = scene[i] \/ SceneMethod(i)]_vars
  BY CommitsAreMethods
<1> QED
  BY <1>1, InvHolds, PTL DEF Spec, NoUpdateIsLost

\* Once dispatched, a campaign keeps the scenes, the plan and the run it was
\* dispatched with, whatever edits, approvals and replans are under way.
THEOREM DispatchIsFinal == Spec => DispatchedCampaignStays
<1>1. Inv /\ Inv' /\ [Next]_vars => [run # NoRun => UNCHANGED <<scene, plan, run>>]_vars
  BY NothingReachesTheRun
<1> QED
  BY <1>1, InvHolds, PTL DEF Spec, DispatchedCampaignStays

\* An id counts for one command for ever.
THEOREM CommandsKeepTheirIds == Spec => RecordsArePermanent
<1>1. Inv /\ [Next]_vars
        => [\A a \in Action : applied[a] # NoRequest => applied'[a] = applied[a]]_vars
  BY RecordsStay
<1> QED
  BY <1>1, InvHolds, PTL DEF Spec, RecordsArePermanent
=============================================================================
