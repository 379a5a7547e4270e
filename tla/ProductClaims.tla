---------------------------- MODULE ProductClaims ----------------------------
(***************************************************************************)
(* Product claims and the evidence they rest on, for one batch of one SKU: *)
(* the commands of the claim, evidence, laboratory report and product      *)
(* registers as database transactions.  A command is discovered without a  *)
(* lock, then takes its row locks one after the other in the canonical     *)
(* order, checks everything again under them, and commits.  A command that *)
(* makes a dependency ineligible runs the triggers of migration 029 in its *)
(* own transaction: they list the active claims that cite the dependency   *)
(* and lock and invalidate them in the order of their ids.                 *)
(*                                                                         *)
(* A session is one delivery of a command: late, or never, and a command   *)
(* may be delivered in several sessions, at once or one after the other.   *)
(* A transaction may be rolled back at any step before it commits: a       *)
(* refused check, a lock timeout, a deadlock, a crash.                     *)
(*                                                                         *)
(* The version of a row is left out: each update of a row changes the part *)
(* of it kept here, and no value of that part comes back, so the expected  *)
(* version of a command is the value the client saw ("seen").  Also left   *)
(* out: who acts (the reviewer is neither author nor attester), and what a *)
(* claim says (its parameters match the measurement or the attested fact). *)
(***************************************************************************)
EXTENDS Naturals, Sequences, FiniteSets

CONSTANTS Claim,          \* the ids of claims, numbers: rows are locked in their order
          Evidence,       \* the ids of evidence assets, numbers
          Cited,          \* the assets that claims cite
          Session,
          Action,         \* ids of commands
          MaxLinks,       \* bound on the links of a claim
          MaxRevision,    \* bound on the revisions of a claim, an asset, a report, the facts
          MaxCommands     \* bound on the commands issued, without their copies

ASSUME ClaimsConstants ==
    /\ Claim \subseteq Nat \ {0} /\ IsFiniteSet(Claim) /\ Claim # {}
    /\ IsFiniteSet(Evidence) /\ Evidence = 1..Cardinality(Evidence) /\ 1 \in Evidence
    /\ IsFiniteSet(Session) /\ IsFiniteSet(Action)
    /\ Cardinality(Action) >= Cardinality(Session)
    /\ MaxLinks \in Nat \ {0}
    /\ MaxRevision \in Nat \ {0} /\ MaxCommands \in Nat
    /\ Cited \subseteq Evidence

VARIABLES parent,     \* [sku, batch: archived?, facts: current facts revision]
          evidence,   \* the current revision of an evidence asset
          available,  \* per revision of an asset: its source object is available
          events,     \* evidence_verification_events, in order
          report,     \* the laboratory report, which is about asset 1
          reference,  \* whether the reference asset is archived
          claim,      \* head of a claim: [revision, state]
          links,      \* claim_source_links of the current revision of a claim
          receipts,   \* action ids with a command receipt
          session,    \* the command and the transaction of a session
          issued      \* number of commands issued

data == <<parent, evidence, available, events, report, reference, claim, links>>
vars == <<parent, evidence, available, events, report, reference, claim, links,
          receipts, session, issued>>

Revision == 1..MaxRevision
MaxEvents == Cardinality(Evidence) + MaxCommands
Active == {"evidence_linked", "reviewer_approved"}

-----------------------------------------------------------------------------
(* What a claim cites.  An attestation pins the batch facts and relies on a
   verification event, a measurement pins a report revision, a visual pins a
   reference derivative; each cites a revision of an asset and its bytes. *)
Link == [kind : {"attestation", "measurement", "visual"}, evidence : Evidence,
         revision : Revision, facts : 0..MaxRevision, event : 0..MaxEvents, report : 0..MaxRevision]

Withdrawn(v) == \E i \in DOMAIN events : events[i].outcome = "withdrawn" /\ events[i].of = v

Disputed(e, r) ==
    \E i \in DOMAIN events : /\ events[i].evidence = e /\ events[i].revision = r
                             /\ events[i].outcome = "disputed" /\ ~Withdrawn(i)

Verified(v) == v \in DOMAIN events /\ events[v].outcome = "verified" /\ ~Withdrawn(v)

ReportSupports(r) ==
    /\ ~report.archived /\ report.revision = r
    /\ report.decision[r] = "approved"
    /\ report.lab[r] # 0 => Verified(report.lab[r])

(* The block reasons of one link, none of which may hold. *)
LinkEligible(l) ==
    /\ available[l.evidence][l.revision]
    /\ evidence[l.evidence] = l.revision
    /\ ~Disputed(l.evidence, l.revision)
    /\ l.kind = "attestation" => Verified(l.event)
    /\ l.facts # 0 => l.facts = parent.facts
    /\ l.kind = "measurement" => ReportSupports(l.report)
    /\ l.kind = "visual" => ~reference

SupportEligible(ls) ==
    /\ ~parent.sku /\ ~parent.batch
    /\ ls # {}
    /\ \A l \in ls : LinkEligible(l)

-----------------------------------------------------------------------------
(* Rows, as tuples in the canonical order of locks, and the locks a command
   takes: a sequence of <<mode, row>>, sorted unless said otherwise.  A command
   that locks the batch locks its SKU in the same mode just before: the SKU and
   the batch are one row here. *)
Parents == <<1, 0, 0>>
Source(e, r) == <<3, e, r>>
Asset(e) == <<4, e, 0>>
AssetRevision(e, r) == <<5, e, r>>
Report == <<6, 0, 0>>
Reference == <<7, 0, 0>>
ClaimRow(c) == <<8, c, 0>>

Before(p, q) ==
    \/ p[1] < q[1]
    \/ p[1] = q[1] /\ (p[2] < q[2] \/ (p[2] = q[2] /\ p[3] < q[3]))

(* How many of the rows come before this one, and which row is the i-th. *)
Rank(row, rows) == Cardinality({q \in rows : Before(q, row)})
Nth(i, rows) == CHOOSE row \in rows : Rank(row, rows) = i - 1

Locks(mode, rows) == [i \in 1..Cardinality(rows) |-> <<mode, Nth(i, rows)>>]

CitedRows(ls) ==
    UNION {{Source(l.evidence, l.revision), Asset(l.evidence)}
               \cup (IF l.kind = "measurement" THEN {Report} ELSE {})
               \cup (IF l.kind = "visual" THEN {Reference} ELSE {}) : l \in ls}

(* The locks of a claim command: parents and dependencies shared, then the
   claim for update. *)
ClaimLocks(ls, cs) ==
    Locks("share", {Parents} \cup CitedRows(ls)) \o Locks("update", {ClaimRow(c) : c \in cs})

(* The cascades lock the claims they invalidate in the order of their ids. *)
CascadeLocks(cs) == Locks("update", {ClaimRow(c) : c \in cs})

(* Another session holds a lock that conflicts with this one. *)
Conflict(s, lock) ==
    \E u \in Session \ {s} : \E h \in session[u].held :
        h[2] = lock[2] /\ "update" \in {h[1], lock[1]}

-----------------------------------------------------------------------------
(* Commands.  "seen" is the value of the row whose version the client expects. *)
NoCommand == [op |-> "none", action |-> "none", claim |-> 0, evidence |-> 0, revision |-> 0,
              event |-> 0, outcome |-> "none", links |-> {}, seen |-> <<>>]

Idle == [pc |-> "idle", cmd |-> NoCommand, todo |-> <<>>, held |-> {}, list |-> {}]

ClaimOps == {"revise", "link", "approve", "reject", "invalidate"}

(* The part of the database a command's expected version stands for. *)
Versioned(cmd) ==
    CASE cmd.op \in ClaimOps -> <<claim[cmd.claim].revision, claim[cmd.claim].state>>
      [] cmd.op \in {"archive batch", "append facts"} -> <<parent.batch, parent.facts>>
      [] cmd.op = "archive sku" -> <<parent.sku>>
      [] cmd.op = "supersede evidence" -> <<evidence[cmd.evidence]>>
      [] cmd.op \in {"supersede report", "review report", "archive report"} ->
             <<report.revision, report.decision[report.revision], report.archived>>
      [] OTHER -> <<>>

VersionHolds(cmd) == Versioned(cmd) = cmd.seen

(* An append of batch facts may name the evidence they come from. *)
NamesOrigin(cmd) == cmd.op = "append facts" /\ cmd.evidence # 0

(* Two changes are a single UPDATE, not a command with an id of its own. *)
Bare == {"quarantine", "archive reference"}

(* Links a client can put together from what it reads now. *)
Offered ==
    {[kind |-> "attestation", evidence |-> e, revision |-> evidence[e],
      facts |-> parent.facts, event |-> v, report |-> 0] :
        e \in Cited, v \in {i \in DOMAIN events : events[i].outcome = "verified"}}
    \cup {[kind |-> "measurement", evidence |-> 1, revision |-> report.cites[report.revision],
           facts |-> 0, event |-> 0, report |-> report.revision]}
    \cup {[kind |-> "visual", evidence |-> e, revision |-> evidence[e],
           facts |-> 0, event |-> 0, report |-> 0] : e \in Cited}

LinkSets == {ls \in SUBSET Offered : Cardinality(ls) \in 1..MaxLinks}

ClaimCommands ==
    {[NoCommand EXCEPT !.op = "create", !.claim = c] :
        c \in {c \in Claim : claim[c].state = "none"}}
    \cup {[NoCommand EXCEPT !.op = "revise", !.claim = c] :
        c \in {c \in Claim : claim[c].revision \in 1..(MaxRevision - 1)}}
    \cup {[NoCommand EXCEPT !.op = "link", !.claim = c, !.links = ls] :
        c \in {c \in Claim : claim[c].state = "draft"}, ls \in LinkSets}
    \cup {[NoCommand EXCEPT !.op = o, !.claim = c, !.links = links[c]] :
        o \in {"approve", "reject", "invalidate"}, c \in {c \in Claim : claim[c].state \in Active}}

ParentCommands ==
    {[NoCommand EXCEPT !.op = "archive sku"], [NoCommand EXCEPT !.op = "archive batch"],
     [NoCommand EXCEPT !.op = "archive reference"]}
    \cup {[NoCommand EXCEPT !.op = "append facts", !.evidence = e,
                            !.revision = IF e = 0 THEN 0 ELSE evidence[e]] :
             e \in {0} \cup Evidence}

(* Any verification event may be withdrawn; what else changes is a cited asset. *)
EvidenceCommands ==
    {[NoCommand EXCEPT !.op = "quarantine", !.evidence = e, !.revision = evidence[e]] :
        e \in Cited}
    \cup {[NoCommand EXCEPT !.op = "supersede evidence", !.evidence = e] :
        e \in {e \in Cited : evidence[e] < MaxRevision}}
    \cup {[NoCommand EXCEPT !.op = "append event", !.evidence = e, !.revision = evidence[e],
                            !.outcome = o] : e \in Cited, o \in {"verified", "disputed"}}
    \cup {[NoCommand EXCEPT !.op = "append event", !.evidence = events[v].evidence,
                            !.revision = events[v].revision, !.outcome = "withdrawn",
                            !.event = v] :
        v \in {i \in DOMAIN events : events[i].outcome # "withdrawn"}}

ReportCommands ==
    {[NoCommand EXCEPT !.op = "supersede report", !.revision = evidence[1], !.event = v] :
        v \in IF report.revision = MaxRevision THEN {}
              ELSE {0} \cup {i \in DOMAIN events : events[i].outcome = "verified"}}
    \cup {[NoCommand EXCEPT !.op = "review report", !.outcome = d] : d \in {"approved", "rejected"}}
    \cup {[NoCommand EXCEPT !.op = "archive report"]}

Commands == ClaimCommands \cup ParentCommands \cup EvidenceCommands \cup ReportCommands

-----------------------------------------------------------------------------
(* A laboratory report on the first asset, reviewed or not, a verification event
   per asset, and claims that are yet to be written, to be linked or to be reviewed. *)
Init ==
    /\ parent = [sku |-> FALSE, batch |-> FALSE, facts |-> 1]
    /\ evidence = [e \in Evidence |-> 1]
    /\ available = [e \in Evidence |-> [r \in Revision |-> TRUE]]
    /\ events = [e \in Evidence |-> [evidence |-> e, revision |-> 1, outcome |-> "verified", of |-> 0]]
    /\ \E d \in {"none", "approved"} :
          report = [revision |-> 1, archived |-> FALSE,
                    cites |-> [r \in Revision |-> 1],
                    lab |-> [r \in Revision |-> IF r = 1 THEN 1 ELSE 0],
                    decision |-> [r \in Revision |-> IF r = 1 THEN d ELSE "none"]]
    /\ reference = FALSE
    /\ \E given \in [Claim -> {"none", "draft", "evidence_linked"}] :
          /\ claim = [c \in Claim |-> [revision |-> IF given[c] = "none" THEN 0 ELSE 1,
                                      state |-> given[c]]]
          /\ links \in [Claim -> {{}} \cup LinkSets]
          /\ \A c \in Claim : IF given[c] = "evidence_linked" THEN SupportEligible(links[c])
                                                             ELSE links[c] = {}
    /\ receipts = {}
    /\ session = [s \in Session |-> Idle]
    /\ issued = 0

(* A client reads, and decides on a command under a fresh action id. *)
Issue(s) ==
    /\ session[s].pc = "idle" /\ issued < MaxCommands
    /\ issued' = issued + 1
    /\ \E cmd \in Commands, a \in Action :
          /\ \A u \in Session : session[u].cmd.action # a
          /\ session' = [session EXCEPT ![s].pc = "issued",
                            ![s].cmd = [cmd EXCEPT !.action = a, !.seen = Versioned(cmd)]]
    /\ UNCHANGED <<data, receipts>>

(* The same command once more: a retry of it, or a copy. *)
Duplicate(s, u) ==
    /\ session[s].pc = "idle" /\ session[u].pc # "idle"
    /\ session' = [session EXCEPT ![s] = [Idle EXCEPT !.pc = "issued", !.cmd = session[u].cmd]]
    /\ UNCHANGED <<data, receipts, issued>>

(* A receipt is for ever; that of an id that no session holds is dropped here, so
   that the id can be used again. *)
Held(a, s) == \E u \in Session \ {s} : session[u].cmd.action = a

(* The delivery ends, or never was: its command is held by other sessions only. *)
End(s, receipted) ==
    /\ session' = [session EXCEPT ![s] = Idle]
    /\ receipts' = {a \in receipts \cup receipted : Held(a, s)}

Forget(s) ==
    /\ session[s].pc = "issued"
    /\ End(s, {})
    /\ UNCHANGED <<data, issued>>

\* Mutant: receipts are written and not read.
Unreceipted(s) == TRUE

(* No receipt of the action: else the stored answer is replayed, with no write. *)
Unapplied(s) == session[s].cmd.action \notin receipts

(* The advisory lock of the action is free. *)
Alone(s) ==
    session[s].cmd.op \notin Bare =>
        \A u \in Session \ {s} :
            session[u].cmd.action = session[s].cmd.action => session[u].pc \in {"idle", "issued"}

(* The transaction begins; locks are those its discovery finds it needs. *)
Begin(s, op, locks) ==
    /\ session[s].pc = "issued" /\ session[s].cmd.op = op
    /\ Unapplied(s) /\ Alone(s)
    /\ session' = [session EXCEPT ![s].pc = "locking", ![s].todo = locks]
    /\ UNCHANGED <<data, receipts, issued>>

Acquire(s) ==
    /\ session[s].todo # <<>>
    /\ ~Conflict(s, Head(session[s].todo))
    /\ session' = [session EXCEPT ![s].todo = Tail(@),
                                  ![s].held = @ \cup {Head(session[s].todo)}]
    /\ UNCHANGED <<data, receipts, issued>>

RollBack(s) ==
    /\ session[s].pc \in {"locking", "cascading"}
    /\ End(s, {})
    /\ UNCHANGED <<data, issued>>

(* All locks are held; the primary key of the receipts still guards the write. *)
Ready(s, pc, op) ==
    /\ session[s].pc = pc /\ session[s].cmd.op = op
    /\ session[s].todo = <<>> /\ Unapplied(s)

Commit(s) == End(s, IF session[s].cmd.op \in Bare THEN {} ELSE {session[s].cmd.action})

ParentsActive == ~parent.sku /\ ~parent.batch

-----------------------------------------------------------------------------
(* Claim commands. *)
BeginCreate(s) == Begin(s, "create", ClaimLocks({}, {}))

CreateClaim(s) ==
    LET c == session[s].cmd.claim
    IN  /\ Ready(s, "locking", "create") /\ ParentsActive
        /\ claim[c].state = "none"
        /\ claim' = [claim EXCEPT ![c] = [revision |-> 1, state |-> "draft"]]
        /\ Commit(s)
        /\ UNCHANGED <<parent, evidence, available, events, report, reference, links, issued>>

BeginRevise(s) ==
    /\ VersionHolds(session[s].cmd)
    /\ Begin(s, "revise", ClaimLocks({}, {session[s].cmd.claim}))

AppendRevision(s) ==
    LET c == session[s].cmd.claim
    IN  /\ Ready(s, "locking", "revise") /\ ParentsActive
        /\ VersionHolds(session[s].cmd)
        /\ claim' = [claim EXCEPT ![c] = [revision |-> @.revision + 1, state |-> "draft"]]
        /\ links' = [links EXCEPT ![c] = {}]
        /\ Commit(s)
        /\ UNCHANGED <<parent, evidence, available, events, report, reference, issued>>

BeginLink(s) ==
    /\ VersionHolds(session[s].cmd)
    /\ Begin(s, "link", ClaimLocks(session[s].cmd.links, {session[s].cmd.claim}))

LinkEvidence(s) ==
    LET c == session[s].cmd.claim
    IN  /\ Ready(s, "locking", "link") /\ ParentsActive
        /\ SupportEligible(session[s].cmd.links)
        /\ VersionHolds(session[s].cmd) /\ claim[c].state = "draft"
        /\ links' = [links EXCEPT ![c] = session[s].cmd.links]
        /\ claim' = [claim EXCEPT ![c].state = "evidence_linked"]
        /\ Commit(s)
        /\ UNCHANGED <<parent, evidence, available, events, report, reference, issued>>

(* Review and manual invalidation lock what the claim cites when they discover it. *)
BeginOnLinked(s, op) ==
    /\ VersionHolds(session[s].cmd)
    /\ Begin(s, op, ClaimLocks(links[session[s].cmd.claim], {session[s].cmd.claim}))

\* Mutant: under the lock only the state of the head is compared.
HeadIsOnlyInState(s, states) == claim[session[s].cmd.claim].state \in states

(* The head is read again under the lock. *)
HeadIs(s, states) ==
    VersionHolds(session[s].cmd) /\ claim[session[s].cmd.claim].state \in states

SetState(s, state) ==
    /\ claim' = [claim EXCEPT ![session[s].cmd.claim].state = state]
    /\ Commit(s)
    /\ UNCHANGED <<parent, evidence, available, events, report, reference, links, issued>>

Approve(s) ==
    /\ Ready(s, "locking", "approve") /\ ParentsActive
    /\ HeadIs(s, {"evidence_linked"})
    /\ SupportEligible(links[session[s].cmd.claim])
    /\ SetState(s, "reviewer_approved")

Reject(s) ==
    /\ Ready(s, "locking", "reject") /\ ParentsActive
    /\ HeadIs(s, {"evidence_linked"})
    /\ SetState(s, "rejected")

(* A cause must match a dependency that is ineligible now. *)
Invalidate(s) ==
    /\ Ready(s, "locking", "invalidate")
    /\ HeadIs(s, Active)
    /\ ~SupportEligible(links[session[s].cmd.claim])
    /\ SetState(s, "invalidated")

ClaimStep(s) ==
    \/ BeginCreate(s) \/ CreateClaim(s)
    \/ BeginRevise(s) \/ AppendRevision(s)
    \/ BeginLink(s) \/ LinkEvidence(s)
    \/ \E op \in {"approve", "reject", "invalidate"} : BeginOnLinked(s, op)
    \/ Approve(s) \/ Reject(s) \/ Invalidate(s)

-----------------------------------------------------------------------------
(* Changes of dependencies.  Under its locks the command updates its rows, and
   the trigger lists the active claims that cite them; the update is visible to
   others when the transaction commits with the cascade done. *)
Linked == UNION {links[c] : c \in Claim}

(* The active claims with one of these links. *)
Citing(ls) == {c \in Claim : claim[c].state \in Active /\ links[c] \cap ls # {}}

StartCascade(s, list) ==
    /\ session' = [session EXCEPT ![s].pc = "cascading", ![s].list = list,
                                  ![s].todo = CascadeLocks(list)]
    /\ UNCHANGED <<data, receipts, issued>>

(* process_claim_invalidation, for each listed claim: under the lock only the
   state is read again. *)
CommitChange(s, op) ==
    /\ Ready(s, "cascading", op)
    /\ claim' = [c \in Claim |->
                    IF c \in session[s].list /\ claim[c].state \in Active
                    THEN [claim[c] EXCEPT !.state = "invalidated"] ELSE claim[c]]
    /\ Commit(s)
    /\ UNCHANGED <<links, issued>>

BeginArchiveSku(s) == Begin(s, "archive sku", Locks("update", {Parents}))

ArchiveSku(s) ==
    /\ Ready(s, "locking", "archive sku")
    /\ ~parent.sku /\ VersionHolds(session[s].cmd)
    /\ StartCascade(s, Citing(Linked))

SkuArchived(s) ==
    /\ CommitChange(s, "archive sku")
    /\ parent' = [parent EXCEPT !.sku = TRUE]
    /\ UNCHANGED <<evidence, available, events, report, reference>>

BeginArchiveBatch(s) == Begin(s, "archive batch", Locks("update", {Parents}))

ArchiveBatch(s) ==
    /\ Ready(s, "locking", "archive batch")
    /\ ~parent.batch /\ VersionHolds(session[s].cmd)
    /\ StartCascade(s, Citing(Linked))

BatchArchived(s) ==
    /\ CommitChange(s, "archive batch")
    /\ parent' = [parent EXCEPT !.batch = TRUE]
    /\ UNCHANGED <<evidence, available, events, report, reference>>

(* Facts that name their origin lock the evidence revision, then the asset, then
   the source object: the order of the code, which is not the canonical one. *)
BeginAppendFacts(s) ==
    LET e == session[s].cmd.evidence
        r == session[s].cmd.revision
    IN  Begin(s, "append facts",
              Locks("update", {Parents})
              \o IF e = 0 THEN <<>>
                 ELSE << <<"share", AssetRevision(e, r)>>, <<"share", Asset(e)>>,
                         <<"share", Source(e, r)>> >>)

AppendFacts(s) ==
    LET e == session[s].cmd.evidence
        r == session[s].cmd.revision
    IN  /\ Ready(s, "locking", "append facts")
        /\ ParentsActive /\ VersionHolds(session[s].cmd) /\ parent.facts < MaxRevision
        /\ e # 0 => available[e][r] /\ ~Disputed(e, r)
        /\ StartCascade(s, Citing({l \in Linked : l.facts # 0}))

FactsAppended(s) ==
    /\ CommitChange(s, "append facts")
    /\ parent' = [parent EXCEPT !.facts = @ + 1]
    /\ UNCHANGED <<evidence, available, events, report, reference>>

BeginQuarantine(s) ==
    Begin(s, "quarantine",
          Locks("update", {Source(session[s].cmd.evidence, session[s].cmd.revision)}))

Quarantine(s) ==
    LET e == session[s].cmd.evidence
        r == session[s].cmd.revision
    IN  /\ Ready(s, "locking", "quarantine")
        /\ StartCascade(s, IF available[e][r]
                           THEN Citing({l \in Linked : l.evidence = e /\ l.revision = r}) ELSE {})

Quarantined(s) ==
    /\ CommitChange(s, "quarantine")
    /\ available' = [available EXCEPT ![session[s].cmd.evidence][session[s].cmd.revision] = FALSE]
    /\ UNCHANGED <<parent, evidence, events, report, reference>>

BeginSupersede(s) ==
    LET e == session[s].cmd.evidence
    IN  Begin(s, "supersede evidence",
              Locks("update", {Parents, Source(e, evidence[e]), Asset(e)}))

SupersedeEvidence(s) ==
    LET e == session[s].cmd.evidence
    IN  /\ Ready(s, "locking", "supersede evidence")
        /\ ParentsActive /\ VersionHolds(session[s].cmd)
        /\ \A r \in Revision : ~Disputed(e, r)
        /\ StartCascade(s, Citing({l \in Linked : l.evidence = e /\ l.revision <= evidence[e]}))

EvidenceSuperseded(s) ==
    /\ CommitChange(s, "supersede evidence")
    /\ evidence' = [evidence EXCEPT ![session[s].cmd.evidence] = @ + 1]
    /\ UNCHANGED <<parent, available, events, report, reference>>

\* Mutant: the asset and its revision first, then the source object.
BeginAppendEventAssetFirst(s) ==
    LET e == session[s].cmd.evidence
        r == session[s].cmd.revision
    IN  Begin(s, "append event", Locks("update", {Asset(e), AssetRevision(e, r)})
                                 \o Locks("update", {Source(e, r)}))

(* Disputed stands for a rejected outcome too. *)
BeginAppendEvent(s) ==
    LET e == session[s].cmd.evidence
        r == session[s].cmd.revision
    IN  Begin(s, "append event", Locks("update", {Source(e, r), Asset(e), AssetRevision(e, r)}))

\* Mutant: a withdrawal does not look at the reports that rely on the event.
HitByEventDirectly(cmd) ==
    CASE cmd.outcome = "disputed" ->
             Citing({l \in Linked : l.evidence = cmd.evidence /\ l.revision = cmd.revision})
      [] cmd.outcome = "withdrawn" -> Citing({l \in Linked : l.event = cmd.event})
      [] OTHER -> {}

(* What the trigger on the events table looks for, by the outcome. *)
HitByEvent(cmd) ==
    CASE cmd.outcome = "disputed" ->
             Citing({l \in Linked : l.evidence = cmd.evidence /\ l.revision = cmd.revision})
      [] cmd.outcome = "withdrawn" ->
             Citing({l \in Linked : \/ l.event = cmd.event
                                    \/ l.report # 0 /\ report.lab[l.report] = cmd.event})
      [] OTHER -> {}

AppendEvent(s) ==
    /\ Ready(s, "locking", "append event")
    /\ StartCascade(s, HitByEvent(session[s].cmd))

EventAppended(s) ==
    LET cmd == session[s].cmd
    IN  /\ CommitChange(s, "append event")
        /\ events' = Append(events, [evidence |-> cmd.evidence, revision |-> cmd.revision,
                                     outcome |-> cmd.outcome, of |-> cmd.event])
        /\ UNCHANGED <<parent, evidence, available, report, reference>>

(* The bytes a report cites now are fit for a new statement about them. *)
Lineage(r, lab) ==
    /\ ParentsActive /\ available[1][r] /\ ~Disputed(1, r)
    /\ lab # 0 => Verified(lab) /\ events[lab].evidence = 1 /\ events[lab].revision = r

CitedByReport == report.cites[report.revision]

BeginSupersedeReport(s) ==
    /\ VersionHolds(session[s].cmd)
    /\ Begin(s, "supersede report",
             Locks("update", {Parents, Source(1, CitedByReport),
                              Source(1, session[s].cmd.revision), Asset(1), Report}))

SupersedeReport(s) ==
    /\ Ready(s, "locking", "supersede report")
    /\ VersionHolds(session[s].cmd) /\ ~report.archived
    /\ Lineage(session[s].cmd.revision, session[s].cmd.event)
    /\ ~Disputed(1, CitedByReport)
    /\ StartCascade(s, Citing({l \in Linked : l.report # 0 /\ l.report <= report.revision}))

ReportSuperseded(s) ==
    LET r == report.revision + 1
    IN  /\ CommitChange(s, "supersede report")
        /\ report' = [report EXCEPT !.revision = r, !.cites[r] = session[s].cmd.revision,
                                    !.lab[r] = session[s].cmd.event]
        /\ UNCHANGED <<parent, evidence, available, events, reference>>

BeginReviewReport(s) ==
    /\ VersionHolds(session[s].cmd)
    /\ Begin(s, "review report",
             Locks("update", {Parents, Source(1, CitedByReport), Asset(1), Report}))

ReviewReport(s) ==
    /\ Ready(s, "locking", "review report")
    /\ VersionHolds(session[s].cmd) /\ ~report.archived
    /\ report.decision[report.revision] = "none"
    /\ Lineage(CitedByReport, report.lab[report.revision])
    /\ session[s].cmd.outcome = "approved" => CitedByReport = evidence[1]
    /\ StartCascade(s, {})

ReportReviewed(s) ==
    /\ CommitChange(s, "review report")
    /\ report' = [report EXCEPT !.decision[report.revision] = session[s].cmd.outcome]
    /\ UNCHANGED <<parent, evidence, available, events, reference>>

BeginArchiveReport(s) ==
    /\ VersionHolds(session[s].cmd)
    /\ Begin(s, "archive report", Locks("update", {Parents, Asset(1), Report}))

ArchiveReport(s) ==
    /\ Ready(s, "locking", "archive report")
    /\ ParentsActive /\ VersionHolds(session[s].cmd) /\ ~report.archived
    /\ StartCascade(s, Citing({l \in Linked : l.report # 0}))

ReportArchived(s) ==
    /\ CommitChange(s, "archive report")
    /\ report' = [report EXCEPT !.archived = TRUE]
    /\ UNCHANGED <<parent, evidence, available, events, reference>>

BeginArchiveReference(s) == Begin(s, "archive reference", Locks("update", {Reference}))

ArchiveReference(s) ==
    /\ Ready(s, "locking", "archive reference")
    /\ ~reference
    /\ StartCascade(s, Citing({l \in Linked : l.kind = "visual"}))

ReferenceArchived(s) ==
    /\ CommitChange(s, "archive reference")
    /\ reference' = TRUE
    /\ UNCHANGED <<parent, evidence, available, events, report>>

ProductStep(s) ==
    \/ BeginArchiveSku(s) \/ ArchiveSku(s) \/ SkuArchived(s)
    \/ BeginArchiveBatch(s) \/ ArchiveBatch(s) \/ BatchArchived(s)
    \/ BeginAppendFacts(s) \/ AppendFacts(s) \/ FactsAppended(s)
    \/ BeginArchiveReference(s) \/ ArchiveReference(s) \/ ReferenceArchived(s)

EvidenceStep(s) ==
    \/ BeginQuarantine(s) \/ Quarantine(s) \/ Quarantined(s)
    \/ BeginSupersede(s) \/ SupersedeEvidence(s) \/ EvidenceSuperseded(s)
    \/ BeginAppendEvent(s) \/ AppendEvent(s) \/ EventAppended(s)

ReportStep(s) ==
    \/ BeginSupersedeReport(s) \/ SupersedeReport(s) \/ ReportSuperseded(s)
    \/ BeginReviewReport(s) \/ ReviewReport(s) \/ ReportReviewed(s)
    \/ BeginArchiveReport(s) \/ ArchiveReport(s) \/ ReportArchived(s)

Next ==
    \E s \in Session :
        \/ Issue(s) \/ Forget(s) \/ Acquire(s) \/ RollBack(s)
        \/ \E u \in Session : Duplicate(s, u)
        \/ ClaimStep(s) \/ ProductStep(s) \/ EvidenceStep(s) \/ ReportStep(s)

Spec == Init /\ [][Next]_vars

-----------------------------------------------------------------------------
TypeOK ==
    /\ parent \in [sku : BOOLEAN, batch : BOOLEAN, facts : Revision]
    /\ evidence \in [Evidence -> Revision]
    /\ available \in [Evidence -> [Revision -> BOOLEAN]]
    /\ Len(events) <= MaxEvents
    /\ \A i \in DOMAIN events :
          events[i] \in [evidence : Evidence, revision : Revision,
                         outcome : {"verified", "disputed", "withdrawn"}, of : 0..MaxEvents]
    /\ report \in [revision : Revision, archived : BOOLEAN, cites : [Revision -> Revision],
                   lab : [Revision -> 0..MaxEvents],
                   decision : [Revision -> {"none", "approved", "rejected"}]]
    /\ reference \in BOOLEAN
    /\ claim \in [Claim -> [revision : 0..MaxRevision,
                            state : Active \cup {"none", "draft", "rejected", "invalidated"}]]
    /\ \A c \in Claim : links[c] \subseteq Link
    /\ receipts \subseteq Action
    /\ \A s \in Session : session[s].pc \in {"idle", "issued", "locking", "cascading"}
    /\ issued \in 0..MaxCommands

(* All that a claim cites is eligible, with one exception: an attestation may
   rely on the verification event of another asset than the one it cites, and
   that event may be withdrawn.  linkClaimEvidence takes such an event and locks
   the cited asset only, so a withdrawal that has listed its claims can commit
   after the link; the code's own eligibility, and docs/adr/0009 section 3.4,
   call the claim unsupported then. *)
OwnSupport(c) ==
    /\ ParentsActive /\ links[c] # {}
    /\ \A l \in links[c] :
          \/ LinkEligible(l)
          \/ /\ l.kind = "attestation" /\ events[l.event].evidence # l.evidence
             /\ ~Verified(l.event)
             /\ LinkEligible([l EXCEPT !.kind = "corroborating"])

Authority == INSTANCE ClaimAuthority WITH
    revision <- [c \in Claim |-> claim[c].revision],
    state <- [c \in Claim |-> claim[c].state],
    supported <- [c \in Claim |-> OwnSupport(c)]

(* The step that makes a dependency ineligible is the step that invalidates the
   claims resting on it, whatever transactions overlap, and a claim is linked or
   approved only on eligible evidence: docs/adr/0009, sections 3.3 and 3.4, but
   for a withdrawn verification event of another asset (OwnSupport). *)
ImplementsAuthority == Authority!Spec

(* A reviewer approves the links that were there when the reviewer read the
   claim, however late the command arrives (postgres-product-claim-repository.ts
   :953-968, :1027-1045). *)
ApprovedAsSeen ==
    [][\A s \in Session, c \in Claim :
          /\ claim[c].state # "reviewer_approved" /\ claim'[c].state = "reviewer_approved"
          /\ session'[s] # session[s]
          => session[s].cmd.links = links[c] /\ session[s].cmd.seen[1] = claim[c].revision]_vars

(* A command that has a receipt writes nothing more: a retry, a duplicate or a
   late copy is answered from the receipt (docs/adr/0009, section 3.5).  The
   statements of Bare have none, and a copy of them changes nothing. *)
AppliedOnce ==
    [][\A s \in Session :
          session[s].cmd.action \in receipts /\ session'[s] # session[s] => UNCHANGED data]_vars

(* Whom a session waits for. *)
Waits(s, u) ==
    /\ session[s].todo # <<>>
    /\ \E h \in session[u].held :
          h[2] = Head(session[s].todo)[2] /\ "update" \in {h[1], Head(session[s].todo)[1]}

(* Transactions wait for each other in a circle only if one of them appends batch
   facts and names their origin: it locks the evidence revision before the asset
   and the asset before the source, against the order that docs/adr/0009, lines
   273 and 287, ask of every command and all others keep to. *)
OnlyOriginsDeadlock ==
    \A W \in (SUBSET Session) \ {{}} :
        \/ \E s \in W : NamesOrigin(session[s].cmd)
        \/ \E s \in W : \A u \in W \ {s} : ~Waits(s, u)
=============================================================================
