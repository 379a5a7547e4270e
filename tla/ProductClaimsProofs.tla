------------------------- MODULE ProductClaimsProofs -------------------------
(***************************************************************************)
(* Proofs about ProductClaims, for any claims, assets, sessions and        *)
(* commands.  The argument for the cascades: a transaction that makes a    *)
(* dependency ineligible holds a row of it for update from before it lists *)
(* the claims until it commits, and a transaction that links a claim to    *)
(* the dependency has to share that row; so the list stays complete        *)
(* (Listed), and what the transaction found under its locks stays true     *)
(* (Guarded).  The argument against deadlocks: every transaction asks for  *)
(* its rows in one order, that of Before (Ordered).                        *)
(***************************************************************************)
EXTENDS ProductClaims, TLAPS, FiniteSetTheorems, WellFoundedInduction

Mode == {"share", "update"}
Row == (1..8) \X (Claim \cup Evidence \cup {0}) \X (0..MaxRevision)
Lock == Mode \X Row

ClaimState == Active \cup {"none", "draft", "rejected", "invalidated"}
Outcome == {"verified", "disputed", "withdrawn"}
Decision == {"none", "approved", "rejected"}

LinkRecord ==
    [kind : {"attestation", "measurement", "visual"}, evidence : Evidence,
     revision : Revision, facts : Nat, event : Nat, report : Nat]

EventRecord == [evidence : Evidence, revision : Revision, outcome : Outcome, of : Nat]

ReportRecord ==
    [revision : Revision, archived : BOOLEAN, cites : [Revision -> Revision],
     lab : [Revision -> Nat], decision : [Revision -> Decision]]

ReportOps == {"supersede report", "review report", "archive report"}
EvidenceOps == {"quarantine", "supersede evidence", "append event"}
Op == ClaimOps \cup ReportOps \cup EvidenceOps
          \cup {"none", "create", "archive sku", "archive batch", "append facts",
                "archive reference"}

CommandRecord ==
    [op : Op, action : Action \cup {"none"}, claim : Claim \cup {0},
     evidence : Evidence \cup {0}, revision : 0..MaxRevision, event : Nat,
     outcome : Outcome \cup Decision, links : SUBSET LinkRecord,
     seen : Seq(Nat \cup BOOLEAN \cup ClaimState \cup Decision)]

SessionRecord ==
    [pc : {"idle", "issued", "locking", "cascading"}, cmd : CommandRecord,
     todo : Seq(Lock), held : SUBSET Lock, list : SUBSET Claim]

Types ==
    /\ parent \in [sku : BOOLEAN, batch : BOOLEAN, facts : Revision]
    /\ evidence \in [Evidence -> Revision]
    /\ available \in [Evidence -> [Revision -> BOOLEAN]]
    /\ events \in Seq(EventRecord)
    /\ report \in ReportRecord
    /\ reference \in BOOLEAN
    /\ claim \in [Claim -> [revision : Nat, state : ClaimState]]
    /\ links \in [Claim -> SUBSET LinkRecord]

\* A link names what there is: an event, and the report, which is about asset 1.
Sound(l) ==
    /\ l.kind = "attestation" => l.event \in DOMAIN events
    /\ l.kind = "measurement" => l.evidence = 1 /\ l.report \in Revision

ClaimsSound ==
    \A c \in Claim :
        /\ \A l \in links[c] : Sound(l)
        /\ claim[c].state \in {"none", "draft"} => links[c] = {}
        /\ claim[c].state = "none" <=> claim[c].revision = 0

\* A verification event that a report relies on is about asset 1.
LabSound(v) == v # 0 => v \in DOMAIN events /\ events[v].evidence = 1

Registers == Types /\ ClaimsSound /\ \A r \in Revision : LabSound(report.lab[r])

\* The links of a revision are never changed once they are there: as long as
\* the claim has the revision that the reviewer read, it has the links.
StillAsSeen(cmd) ==
    /\ cmd.seen[1] <= claim[cmd.claim].revision
    /\ claim[cmd.claim].revision = cmd.seen[1] =>
          /\ links[cmd.claim] = cmd.links
          /\ claim[cmd.claim].state \notin {"none", "draft"}

\* A command says what its client could mean by it.
Meant(cmd) ==
    /\ \A l \in cmd.links : Sound(l)
    /\ cmd.op \in ClaimOps \cup {"create"} => cmd.claim \in Claim
    /\ cmd.op \in {"approve", "reject", "invalidate"} =>
          Len(cmd.seen) = 2 /\ cmd.seen[1] \in Nat /\ StillAsSeen(cmd)
    /\ cmd.op \in EvidenceOps => cmd.evidence \in Evidence
    /\ cmd.op \in {"quarantine", "append event"} => cmd.revision \in Revision
    /\ cmd.op = "append event" => cmd.outcome \in Outcome
    /\ cmd.op = "append event" /\ cmd.outcome = "withdrawn" =>
          cmd.event \in DOMAIN events /\ events[cmd.event].evidence = cmd.evidence
    /\ NamesOrigin(cmd) => cmd.revision \in Revision
    /\ cmd.op = "supersede evidence" =>
          cmd.seen[1] \in Revision /\ cmd.seen[1] < MaxRevision
    /\ cmd.op = "supersede report" =>
          /\ cmd.revision \in Revision
          /\ cmd.seen[1] \in Revision /\ cmd.seen[1] < MaxRevision
    /\ cmd.op = "review report" => cmd.outcome \in Decision

\* The locks that keep the list and the findings of a transaction true.
MainLocks(cmd) ==
    CASE cmd.op = "link" ->
             {<<"share", row>> : row \in {Parents} \cup CitedRows(cmd.links)}
      [] cmd.op \in {"archive sku", "archive batch", "append facts"} -> {<<"update", Parents>>}
      [] cmd.op = "quarantine" -> {<<"update", Source(cmd.evidence, cmd.revision)>>}
      [] cmd.op \in {"supersede evidence", "append event"} -> {<<"update", Asset(cmd.evidence)>>}
      [] cmd.op \in ReportOps -> {<<"update", Asset(1)>>, <<"update", Report>>}
      [] cmd.op = "archive reference" -> {<<"update", Reference>>}
      [] OTHER -> {}

Elements(q) == {q[i] : i \in DOMAIN q}

\* A session t has the locks it needs or is going to ask for them.
Fit(t) ==
    /\ t.pc \in {"idle", "issued"} => t.todo = <<>> /\ t.held = {}
    /\ t.pc = "locking" => MainLocks(t.cmd) \subseteq t.held \cup Elements(t.todo)
    /\ t.pc = "cascading" => MainLocks(t.cmd) \subseteq t.held
    /\ t.pc = "locking" /\ t.cmd.op \notin ClaimOps \cup {"create"} =>
          \A k \in t.held \cup Elements(t.todo) : k[2][1] < 8

Sorted(q) == \A i, j \in DOMAIN q : i < j => Before(q[i][2], q[j][2])

Ordered(t) ==
    /\ Sorted(t.todo)
    /\ \A k \in t.held, i \in DOMAIN t.todo : Before(k[2], t.todo[i][2])

\* The change that cmd makes takes away what link l needs.
Hits(cmd, l) ==
    CASE cmd.op \in {"archive sku", "archive batch"} -> TRUE
      [] cmd.op = "append facts" -> l.facts # 0
      [] cmd.op = "quarantine" -> /\ available[cmd.evidence][cmd.revision]
                                  /\ l.evidence = cmd.evidence /\ l.revision = cmd.revision
      [] cmd.op = "supersede evidence" ->
             l.evidence = cmd.evidence /\ l.revision <= evidence[cmd.evidence]
      [] cmd.op = "append event" ->
             \/ /\ cmd.outcome = "disputed"
                /\ l.evidence = cmd.evidence /\ l.revision = cmd.revision
             \/ /\ cmd.outcome = "withdrawn" /\ l.evidence = cmd.evidence
                /\ \/ l.event = cmd.event
                   \/ l.kind = "measurement" /\ report.lab[l.report] = cmd.event
      [] cmd.op = "supersede report" -> l.kind = "measurement" /\ l.report <= report.revision
      [] cmd.op = "archive report" -> l.kind = "measurement"
      [] cmd.op = "archive reference" -> l.kind = "visual"
      [] OTHER -> FALSE

\* No active claim that the change hits is missing from the list.
Lists(cmd, list) ==
    \A c \in Claim :
        claim[c].state \in Active /\ (\E l \in links[c] : Hits(cmd, l)) => c \in list

\* What was checked under the locks.
Checked(cmd) ==
    /\ cmd.op = "append facts" => parent.facts < MaxRevision
    /\ cmd.op = "supersede evidence" => evidence[cmd.evidence] < MaxRevision
    /\ cmd.op = "supersede report" => report.revision < MaxRevision /\ LabSound(cmd.event)
    /\ cmd.op = "review report" => report.decision[report.revision] = "none"

\* While a session cascades, its list is complete and its findings hold.
Listed(t) == t.pc = "cascading" => Lists(t.cmd, t.list)
Guarded(t) == t.pc = "cascading" => Checked(t.cmd)

Fine(t) ==
    /\ Meant(t.cmd) /\ Fit(t) /\ Listed(t) /\ Guarded(t)
    /\ NamesOrigin(t.cmd) \/ Ordered(t)

\* Two sets of locks of two sessions.
Apart(H, K) == \A h \in H, k \in K : h[2] = k[2] => h[1] = "share" /\ k[1] = "share"

LocksApart ==
    \A s, u \in Session : s # u => Apart(session[s].held, session[u].held)

ClaimsInv ==
    /\ Registers /\ session \in [Session -> SessionRecord]
    /\ \A s \in Session : Fine(session[s])
    /\ LocksApart

-----------------------------------------------------------------------------
(* The order of rows, and lists of locks in that order.                    *)

LEMMA Numbers ==
  /\ Claim \subseteq Nat \ {0} /\ IsFiniteSet(Claim)
  /\ Evidence \subseteq Nat \ {0} /\ IsFiniteSet(Evidence) /\ 1 \in Evidence
  /\ MaxRevision \in Nat \ {0} /\ 1 \in Revision /\ Revision \subseteq Nat \ {0}
  /\ IsFiniteSet(Session)
<1>1. Cardinality(Evidence) \in Nat
  BY ClaimsConstants, FS_CardinalityType
<1> QED
  BY <1>1, ClaimsConstants DEF Revision

LEMMA RowsAreOrdered ==
  ASSUME NEW p \in Row, NEW q \in Row, NEW r \in Row
  PROVE  /\ ~Before(p, p)
         /\ Before(p, q) /\ Before(q, r) => Before(p, r)
         /\ p # q => Before(p, q) \/ Before(q, p)
<1>1. ASSUME NEW x \in Row
      PROVE  x = <<x[1], x[2], x[3]>> /\ x[1] \in Nat /\ x[2] \in Nat /\ x[3] \in Nat
  <2>1. PICK a \in 1..8, b \in Claim \cup Evidence \cup {0}, c \in 0..MaxRevision :
          x = <<a, b, c>>
    BY DEF Row
  <2>2. a \in Nat /\ b \in Nat /\ c \in Nat
    BY Numbers
  <2> QED
    BY <2>1, <2>2
<1> QED
  BY <1>1 DEF Before

LEMMA RowsAreFinite == ASSUME NEW rows \in SUBSET Row PROVE IsFiniteSet(rows)
<1> DEFINE A == 1..8
           B == Claim \cup Evidence \cup {0}
           C == 0..MaxRevision
           P == A \X (B \X C)
           f == [x \in P |-> <<x[1], x[2][1], x[2][2]>>]
<1>1. IsFiniteSet(A) /\ IsFiniteSet(C)
  <2>1. 1 \in Int /\ 8 \in Int /\ 0 \in Int /\ MaxRevision \in Int
    BY Numbers
  <2> QED
    BY <2>1, FS_Interval, Zenon
<1>2. IsFiniteSet(B)
  <2>1. IsFiniteSet({0})
    BY FS_Singleton
  <2> QED
    BY <2>1, Numbers, FS_Union
<1>3. IsFiniteSet(P)
  BY <1>1, <1>2, FS_Product, Zenon
<1>4. f \in Surjection(P, Row)
  <2>1. ASSUME NEW x \in P PROVE f[x] \in Row
    BY DEF Row
  <2>2. ASSUME NEW r \in Row PROVE \E x \in P : f[x] = r
    <3>1. PICK a \in A, b \in B, c \in C : r = <<a, b, c>>
      BY DEF Row
    <3>2. <<a, <<b, c>>>> \in P /\ f[<<a, <<b, c>>>>] = r
      BY <3>1
    <3> QED
      BY <3>2
  <2>3. f \in [P -> Row]
    BY <2>1
  <2> HIDE DEF f, P
  <2> QED
    BY <2>2, <2>3 DEF Surjection
<1>5. IsFiniteSet(Row)
  BY <1>3, <1>4, FS_Surjection
<1> QED
  BY <1>5, FS_Subset

\* Ranks are below the number of the rows, and grow with the rows.
LEMMA RankGrows ==
  ASSUME NEW rows \in SUBSET Row, NEW p \in rows, NEW q \in rows
  PROVE  /\ Rank(p, rows) \in 0..(Cardinality(rows) - 1)
         /\ Before(p, q) => Rank(p, rows) < Rank(q, rows)
<1> DEFINE Below(x) == {y \in rows : Before(y, x)}
<1>0. IsFiniteSet(rows) /\ Cardinality(rows) \in Nat
  BY RowsAreFinite, FS_CardinalityType
<1>1. ASSUME NEW x \in rows
      PROVE  /\ IsFiniteSet(Below(x)) /\ Rank(x, rows) = Cardinality(Below(x))
             /\ Cardinality(Below(x)) \in Nat /\ x \notin Below(x)
  <2>1. Rank(x, rows) = Cardinality(Below(x)) /\ Below(x) \subseteq rows
    BY DEF Rank
  <2>2. x \notin Below(x)
    BY RowsAreOrdered
  <2> HIDE DEF Below
  <2> QED
    BY <1>0, <2>1, <2>2, FS_Subset, FS_CardinalityType
<1>2. ASSUME NEW x \in rows, NEW y \in rows, Before(x, y)
      PROVE  Rank(x, rows) < Rank(y, rows)
  <2>1. Below(x) \subseteq Below(y) /\ x \in Below(y)
    BY <1>2, RowsAreOrdered
  <2>2. Below(x) # Below(y)
    BY <1>1, <2>1
  <2> HIDE DEF Below
  <2>3. Cardinality(Below(x)) < Cardinality(Below(y))
    <3>1. Cardinality(Below(x)) <= Cardinality(Below(y))
      BY <1>1, <2>1, FS_Subset
    <3>2. Cardinality(Below(x)) # Cardinality(Below(y))
      BY <1>1, <2>1, <2>2, FS_Subset
    <3> QED
      BY <1>1, <3>1, <3>2
  <2> QED
    BY <1>1, <2>3
<1>3. Rank(p, rows) < Cardinality(rows)
  <2>1. Below(p) \subseteq rows /\ Below(p) # rows
    BY <1>1
  <2> HIDE DEF Below
  <2>2. Cardinality(Below(p)) <= Cardinality(rows) /\ Cardinality(Below(p)) # Cardinality(rows)
    BY <1>0, <1>1, <2>1, FS_Subset
  <2> QED
    BY <1>0, <1>1, <2>2
<1> QED
  <2>1. Rank(p, rows) \in Nat
    BY <1>1
  <2>2. Before(p, q) => Rank(p, rows) < Rank(q, rows)
    BY <1>2
  <2> QED
    BY <1>0, <1>3, <2>1, <2>2

\* Every rank below the number of the rows is one of a row.
LEMMA RanksAreTaken ==
  ASSUME NEW rows \in SUBSET Row, NEW i \in 1..Cardinality(rows)
  PROVE  \E row \in rows : Rank(row, rows) = i - 1
<1> DEFINE n == Cardinality(rows)
           f == [row \in rows |-> Rank(row, rows)]
           D == 0..(n - 1)
<1>0. IsFiniteSet(rows) /\ n \in Nat
  BY RowsAreFinite, FS_CardinalityType
<1>1. f \in Injection(rows, D)
  <2>1. ASSUME NEW x \in rows PROVE f[x] \in D
    BY RankGrows
  <2>2. ASSUME NEW x \in rows, NEW y \in rows, x # y PROVE f[x] # f[y]
    <3>1. Before(x, y) \/ Before(y, x)
      BY <2>2, RowsAreOrdered
    <3>2. Rank(x, rows) < Rank(y, rows) \/ Rank(y, rows) < Rank(x, rows)
      BY <3>1, RankGrows
    <3>3. Rank(x, rows) \in Nat /\ Rank(y, rows) \in Nat
      BY RankGrows
    <3> QED
      BY <3>2, <3>3
  <2>3. f \in [rows -> D]
    BY <2>1
  <2> HIDE DEF f, D
  <2> QED
    BY <2>2, <2>3 DEF Injection, IsInjective
<1>2. IsFiniteSet(D) /\ Cardinality(D) = n
  <2>1. 0 \in Int /\ n - 1 \in Int
    BY <1>0
  <2>2. IsFiniteSet(D)
    BY <2>1, FS_Interval, Zenon
  <2>3. Cardinality(D) = IF 0 > n - 1 THEN 0 ELSE (n - 1) - 0 + 1
    BY <2>1, FS_Interval
  <2> QED
    BY <1>0, <2>2, <2>3
<1> HIDE DEF f, D
<1>3. f \in Surjection(rows, D)
  BY <1>0, <1>1, <1>2, FS_Injection
<1>4. i - 1 \in D
  BY <1>0 DEF D
<1>5. PICK row \in rows : f[row] = i - 1
  BY <1>3, <1>4 DEF Surjection
<1> QED
  BY <1>5 DEF f

LEMMA NthRow ==
  ASSUME NEW rows \in SUBSET Row, NEW i \in 1..Cardinality(rows)
  PROVE  Nth(i, rows) \in rows /\ Rank(Nth(i, rows), rows) = i - 1
BY RanksAreTaken DEF Nth

LEMMA LocksAreSorted ==
  ASSUME NEW mode \in Mode, NEW rows \in SUBSET Row
  PROVE  /\ Locks(mode, rows) \in Seq(Lock) /\ Sorted(Locks(mode, rows))
         /\ Elements(Locks(mode, rows)) = {<<mode, row>> : row \in rows}
<1> DEFINE n == Cardinality(rows)
           q == [i \in 1..n |-> <<mode, Nth(i, rows)>>]
<1>0. Locks(mode, rows) = q
  BY DEF Locks
<1>1. n \in Nat
  BY RowsAreFinite, FS_CardinalityType
<1>2. \A i \in 1..n : q[i] = <<mode, Nth(i, rows)>> /\ Nth(i, rows) \in rows
                      /\ Rank(Nth(i, rows), rows) = i - 1
  BY NthRow
<1>3. \A i \in 1..n : q[i] \in Lock
  BY <1>2 DEF Lock
<1>4. q \in Seq(Lock) /\ DOMAIN q = 1..n
  <2>1. q \in [1..n -> Lock]
    BY <1>3
  <2> QED
    BY <1>1, <2>1
<1> HIDE DEF q
<1>5. ASSUME NEW i \in 1..n, NEW j \in 1..n, i < j PROVE Before(q[i][2], q[j][2])
  <2> DEFINE x == Nth(i, rows)
             y == Nth(j, rows)
  <2>1. x \in rows /\ y \in rows /\ Rank(x, rows) = i - 1 /\ Rank(y, rows) = j - 1
        /\ q[i][2] = x /\ q[j][2] = y
    BY <1>2
  <2> HIDE DEF x, y
  <2>2. x # y /\ ~(Rank(y, rows) < Rank(x, rows))
    BY <1>1, <1>5, <2>1
  <2>3. Before(x, y) \/ Before(y, x)
    BY <2>1, <2>2, RowsAreOrdered
  <2>4. ~Before(y, x)
    BY <2>1, <2>2, RankGrows
  <2> QED
    BY <2>1, <2>3, <2>4
<1>6. ASSUME NEW row \in rows PROVE \E i \in 1..n : q[i] = <<mode, row>>
  <2>1. Rank(row, rows) \in 0..(n - 1)
    BY RankGrows
  <2> DEFINE i == Rank(row, rows) + 1
             x == Nth(i, rows)
  <2>2. i \in 1..n /\ i - 1 = Rank(row, rows)
    BY <1>1, <2>1
  <2> HIDE DEF i
  <2>3. x \in rows /\ Rank(x, rows) = Rank(row, rows) /\ q[i] = <<mode, x>>
    BY <1>2, <2>2
  <2> HIDE DEF x
  <2>4. Rank(x, rows) \in Nat
    BY <2>1, <2>3
  <2>5. x = row
    <3>1. ~(Rank(x, rows) < Rank(row, rows)) /\ ~(Rank(row, rows) < Rank(x, rows))
      BY <2>3, <2>4
    <3>2. ~Before(x, row) /\ ~Before(row, x)
      BY <2>3, <3>1, RankGrows
    <3> QED
      BY <2>3, <3>2, RowsAreOrdered
  <2> QED
    BY <2>2, <2>3, <2>5
<1>7. Elements(q) = {<<mode, row>> : row \in rows}
  BY <1>2, <1>4, <1>6 DEF Elements
<1>8. Sorted(q)
  BY <1>4, <1>5 DEF Sorted
<1> QED
  BY <1>0, <1>4, <1>7, <1>8

LEMMA JoinedAreSorted ==
  ASSUME NEW p \in Seq(Lock), NEW q \in Seq(Lock)
  PROVE  /\ p \o q \in Seq(Lock) /\ Elements(p \o q) = Elements(p) \cup Elements(q)
         /\ (/\ Sorted(p) /\ Sorted(q)
             /\ \A k \in Elements(p), l \in Elements(q) : Before(k[2], l[2]))
               => Sorted(p \o q)
<1> DEFINE r == p \o q
<1>1. /\ r \in Seq(Lock) /\ Len(r) = Len(p) + Len(q)
      /\ DOMAIN r = 1..(Len(p) + Len(q)) /\ DOMAIN p = 1..Len(p) /\ DOMAIN q = 1..Len(q)
      /\ Len(p) \in Nat /\ Len(q) \in Nat
  OBVIOUS
<1>2. \A i \in 1..(Len(p) + Len(q)) : r[i] = IF i <= Len(p) THEN p[i] ELSE q[i - Len(p)]
  OBVIOUS
<1> HIDE DEF r
<1>3. Elements(r) = Elements(p) \cup Elements(q)
  <2>1. \A i \in 1..Len(p) : i \in 1..(Len(p) + Len(q)) /\ i <= Len(p)
    BY <1>1
  <2>2. \A i \in 1..Len(q) : /\ i + Len(p) \in 1..(Len(p) + Len(q)) /\ ~(i + Len(p) <= Len(p))
                             /\ (i + Len(p)) - Len(p) = i
    BY <1>1
  <2>3. \A i \in 1..(Len(p) + Len(q)) : i <= Len(p) \/ i - Len(p) \in 1..Len(q)
    BY <1>1
  <2>4. ASSUME NEW i \in DOMAIN r PROVE r[i] \in Elements(p) \cup Elements(q)
    <3>1. CASE i <= Len(p)
      <4>1. i \in 1..Len(p) /\ r[i] = p[i]
        BY <1>1, <1>2, <3>1
      <4> QED
        BY <1>1, <4>1 DEF Elements
    <3>2. CASE ~(i <= Len(p))
      <4>1. i - Len(p) \in 1..Len(q) /\ r[i] = q[i - Len(p)]
        BY <1>1, <1>2, <2>3, <3>2
      <4> QED
        BY <1>1, <4>1 DEF Elements
    <3> QED
      BY <3>1, <3>2
  <2>5. ASSUME NEW i \in DOMAIN p PROVE p[i] \in Elements(r)
    BY <1>1, <1>2, <2>1 DEF Elements
  <2>6. ASSUME NEW i \in DOMAIN q PROVE q[i] \in Elements(r)
    <3>1. i + Len(p) \in DOMAIN r /\ r[i + Len(p)] = q[i]
      BY <1>1, <1>2, <2>2
    <3> QED
      BY <3>1 DEF Elements
  <2> QED
    BY <2>4, <2>5, <2>6 DEF Elements
<1>4. ASSUME Sorted(p), Sorted(q), \A k \in Elements(p), l \in Elements(q) : Before(k[2], l[2])
      PROVE  Sorted(r)
  <2> SUFFICES ASSUME NEW i \in 1..(Len(p) + Len(q)), NEW j \in 1..(Len(p) + Len(q)), i < j
               PROVE  Before(r[i][2], r[j][2])
    BY <1>1 DEF Sorted
  <2>1. CASE j <= Len(p)
    <3>1. i \in 1..Len(p) /\ j \in 1..Len(p) /\ r[i] = p[i] /\ r[j] = p[j]
      BY <1>1, <1>2, <2>1
    <3> QED
      BY <1>1, <1>4, <3>1 DEF Sorted
  <2>2. CASE i <= Len(p) /\ ~(j <= Len(p))
    <3>1. i \in 1..Len(p) /\ j - Len(p) \in 1..Len(q) /\ r[i] = p[i] /\ r[j] = q[j - Len(p)]
      BY <1>1, <1>2, <2>2
    <3>2. r[i] \in Elements(p) /\ r[j] \in Elements(q)
      BY <1>1, <3>1 DEF Elements
    <3> QED
      BY <1>4, <3>2
  <2>3. CASE ~(i <= Len(p))
    <3>1. /\ i - Len(p) \in 1..Len(q) /\ j - Len(p) \in 1..Len(q) /\ i - Len(p) < j - Len(p)
          /\ r[i] = q[i - Len(p)] /\ r[j] = q[j - Len(p)]
      BY <1>1, <1>2, <2>3
    <3> QED
      BY <1>1, <1>4, <3>1 DEF Sorted
  <2> QED
    BY <2>1, <2>2, <2>3
<1> QED
  BY <1>1, <1>3, <1>4 DEF r

-----------------------------------------------------------------------------
(* The rows that commands lock.                                            *)

LEMMA RowsTyped ==
  /\ Parents \in Row /\ Report \in Row /\ Reference \in Row
  /\ \A e \in Evidence : Asset(e) \in Row
  /\ \A e \in Evidence, r \in Revision : Source(e, r) \in Row /\ AssetRevision(e, r) \in Row
  /\ \A c \in Claim : ClaimRow(c) \in Row
BY Numbers DEF Row, Parents, Report, Reference, Asset, Source, AssetRevision, ClaimRow, Revision

\* Everything comes before the claims.
LEMMA RowsBeforeClaims ==
  /\ Parents[1] < 8 /\ Report[1] < 8 /\ Reference[1] < 8
  /\ \A e, r : Asset(e)[1] < 8 /\ Source(e, r)[1] < 8 /\ AssetRevision(e, r)[1] < 8
  /\ \A c : ClaimRow(c)[1] = 8
BY DEF Parents, Report, Reference, Asset, Source, AssetRevision, ClaimRow

LEMMA CitedAreRows ==
  ASSUME NEW ls \in SUBSET LinkRecord
  PROVE  CitedRows(ls) \in SUBSET Row /\ \A row \in CitedRows(ls) : row[1] < 8
<1> SUFFICES ASSUME NEW row \in CitedRows(ls) PROVE row \in Row /\ row[1] < 8
  OBVIOUS
<1>1. PICK l \in ls :
        row \in {Source(l.evidence, l.revision), Asset(l.evidence), Report, Reference}
  BY DEF CitedRows
<1>2. l.evidence \in Evidence /\ l.revision \in Revision
  BY DEF LinkRecord
<1> QED
  BY <1>1, <1>2, RowsTyped, RowsBeforeClaims

\* What a claim command asks for: the claims last.
LEMMA ClaimLocksAreSorted ==
  ASSUME NEW ls \in SUBSET LinkRecord, NEW cs \in SUBSET Claim
  PROVE  /\ ClaimLocks(ls, cs) \in Seq(Lock) /\ Sorted(ClaimLocks(ls, cs))
         /\ {<<"share", row>> : row \in {Parents} \cup CitedRows(ls)}
               \subseteq Elements(ClaimLocks(ls, cs))
<1> DEFINE R == {Parents} \cup CitedRows(ls)
           C == {ClaimRow(c) : c \in cs}
           p == Locks("share", R)
           q == Locks("update", C)
<1>1. /\ R \in SUBSET Row /\ C \in SUBSET Row
      /\ \A row \in R : row[1] < 8 /\ row[1] \in Nat
      /\ \A row \in C : row[1] = 8
  BY CitedAreRows, RowsTyped, RowsBeforeClaims DEF Row
<1> HIDE DEF R, C
<1>2. /\ p \in Seq(Lock) /\ Sorted(p) /\ Elements(p) = {<<"share", row>> : row \in R}
      /\ q \in Seq(Lock) /\ Sorted(q) /\ Elements(q) = {<<"update", row>> : row \in C}
  BY <1>1, LocksAreSorted DEF Mode
<1>3. \A k \in Elements(p), l \in Elements(q) : Before(k[2], l[2])
  BY <1>1, <1>2 DEF Before
<1>4. ClaimLocks(ls, cs) = p \o q
  BY DEF ClaimLocks, R, C
<1> HIDE DEF p, q
<1> QED
  BY <1>2, <1>3, <1>4, JoinedAreSorted DEF R

LEMMA CascadeLocksAreSorted ==
  ASSUME NEW cs \in SUBSET Claim
  PROVE  /\ CascadeLocks(cs) \in Seq(Lock) /\ Sorted(CascadeLocks(cs))
         /\ \A k \in Elements(CascadeLocks(cs)) : k[2][1] = 8
<1> DEFINE C == {ClaimRow(c) : c \in cs}
<1>1. C \in SUBSET Row /\ \A row \in C : row[1] = 8
  BY RowsTyped, RowsBeforeClaims
<1> HIDE DEF C
<1>2. /\ Locks("update", C) \in Seq(Lock) /\ Sorted(Locks("update", C))
      /\ Elements(Locks("update", C)) = {<<"update", row>> : row \in C}
  BY <1>1, LocksAreSorted DEF Mode
<1>3. \A k \in Elements(Locks("update", C)) : k[2][1] = 8
  BY <1>1, <1>2
<1> QED
  BY <1>2, <1>3 DEF CascadeLocks, C

-----------------------------------------------------------------------------
(* Nobody waits for ever for a session that comes later in the order.      *)

LEMMA OrderlyDoNotDeadlock ==
  ASSUME ClaimsInv, NEW W \in SUBSET Session, W # {},
         \A s \in W : ~NamesOrigin(session[s].cmd)
  PROVE  \E s \in W : \A u \in W \ {s} : ~Waits(s, u)
<1> DEFINE Next1(s) == Head(session[s].todo)[2]
           Later(s) == {u \in W : session[u].todo # <<>> /\ Before(Next1(s), Next1(u))}
           R == StrictSubsetOrdering(Session)
<1>1. SUFFICES ASSUME \A s \in W : \E u \in W \ {s} : Waits(s, u) PROVE FALSE
  OBVIOUS
<1>2. ASSUME NEW s \in W
      PROVE  /\ session[s] \in SessionRecord /\ Ordered(session[s])
             /\ session[s].todo # <<>> => Head(session[s].todo) = session[s].todo[1]
             /\ session[s].todo # <<>> => 1 \in DOMAIN session[s].todo /\ Next1(s) \in Row
  <2>1. session[s] \in SessionRecord /\ Ordered(session[s])
    BY DEF ClaimsInv, Fine
  <2>2. session[s].todo \in Seq(Lock)
    BY <2>1 DEF SessionRecord
  <2>3. session[s].todo # <<>> =>
          /\ 1 \in DOMAIN session[s].todo /\ Head(session[s].todo) = session[s].todo[1]
          /\ session[s].todo[1] \in Lock
    BY <2>2
  <2> QED
    BY <2>1, <2>3 DEF Lock
<1>3. ASSUME NEW s \in W, NEW u \in W, Waits(s, u), session[u].todo # <<>>
      PROVE  Before(Next1(s), Next1(u))
  BY <1>2, <1>3 DEF Waits, Ordered
<1>4. \A s \in W : session[s].todo # <<>>
  BY <1>1 DEF Waits
<1>5. ASSUME NEW s \in W PROVE \E u \in W : <<Later(u), Later(s)>> \in R
  <2>1. PICK u \in W \ {s} : Waits(s, u)
    BY <1>1
  <2>2. Before(Next1(s), Next1(u)) /\ Next1(s) \in Row /\ Next1(u) \in Row
    BY <1>2, <1>3, <1>4, <2>1
  <2>3. u \in Later(s) /\ u \notin Later(u)
    BY <1>4, <2>2, RowsAreOrdered
  <2>4. ASSUME NEW v \in Later(u) PROVE v \in Later(s)
    <3>1. Next1(v) \in Row
      BY <1>2
    <3> HIDE DEF Next1
    <3> QED
      BY <2>2, <3>1, RowsAreOrdered
  <2>5. Later(u) \in SUBSET Session /\ Later(s) \in SUBSET Session
    OBVIOUS
  <2> HIDE DEF Later
  <2> QED
    BY <2>3, <2>4, <2>5 DEF StrictSubsetOrdering
<1> DEFINE T == {Later(s) : s \in W}
<1>6. T \subseteq FiniteSubsetsOf(Session) /\ T # {}
  <2>1. FiniteSubsetsOf(Session) = SUBSET Session
    BY Numbers, FS_FiniteSubsetsOfFinite
  <2>2. \A s \in W : Later(s) \in SUBSET Session
    OBVIOUS
  <2> HIDE DEF Later
  <2>3. T \subseteq SUBSET Session
    BY <2>2
  <2>4. PICK s \in W : TRUE
    OBVIOUS
  <2>5. Later(s) \in T
    BY <2>4
  <2> QED
    BY <2>1, <2>3, <2>5
<1>7. \E x \in T : \A y \in T : <<y, x>> \notin R
  <2>1. IsWellFoundedOn(R, FiniteSubsetsOf(Session))
    BY FS_StrictSubsetOrderingWellFounded
  <2> HIDE DEF T, R
  <2> QED
    BY <1>6, <2>1, WFMin
<1> HIDE DEF Later, R
<1> QED
  BY <1>5, <1>7

-----------------------------------------------------------------------------
(* What a session does by itself: the registers stay as they are.          *)

LEMMA FineStays ==
  ASSUME NEW t, UNCHANGED data, Fine(t)
  PROVE  Fine(t)'
<1> USE DEF data
<1>1. Meant(t.cmd)'
  BY DEF Fine, Meant, Sound, StillAsSeen, NamesOrigin
<1>2. Fit(t)' /\ (NamesOrigin(t.cmd) \/ Ordered(t))'
  BY DEF Fine
<1>3. Listed(t)'
  BY DEF Fine, Listed, Lists, Hits
<1>4. Guarded(t)'
  BY DEF Fine, Guarded, Checked, LabSound
<1> QED
  BY <1>1, <1>2, <1>3, <1>4 DEF Fine

LEMMA RegistersStay ==
  ASSUME UNCHANGED data, Registers
  PROVE  Registers'
BY DEF data, Registers, Types, ClaimsSound, Sound, LabSound

\* Whoever acts, the other sessions and their locks are left alone.
LEMMA OneSessionMoves ==
  ASSUME ClaimsInv, NEW s \in Session, NEW t \in SessionRecord,
         session' = [session EXCEPT ![s] = t],
         Registers', Fine(t)',
         \A v \in SessionRecord : Fine(v) /\ Apart(v.held, session[s].held) => Fine(v)',
         \A u \in Session \ {s} : Apart(t.held, session[u].held)
  PROVE  ClaimsInv'
<1>0. session \in [Session -> SessionRecord]
  BY DEF ClaimsInv
<1>1. session' \in [Session -> SessionRecord]
  BY <1>0
<1>2. session'[s] = t /\ \A u \in Session \ {s} : session'[u] = session[u]
  BY <1>0
<1>3. ASSUME NEW u \in Session PROVE Fine(session[u])'
  <2>1. CASE u = s
    BY <1>2, <2>1
  <2>2. CASE u # s
    <3>1. PICK v \in SessionRecord : v = session[u]
      BY <1>0
    <3>2. Fine(v) /\ Apart(v.held, session[s].held)
      BY <2>2, <3>1 DEF ClaimsInv, LocksApart
    <3>3. v = session'[u]
      BY <1>2, <2>2, <3>1
    <3> QED
      BY <3>2, <3>3
  <2> QED
    BY <2>1, <2>2
<1>4. ASSUME NEW u \in Session, NEW v \in Session, u # v
      PROVE  Apart(session'[u].held, session'[v].held)
  <2>1. CASE u # s /\ v # s
    BY <1>2, <1>4, <2>1 DEF ClaimsInv, LocksApart
  <2>2. CASE u = s
    BY <1>2, <1>4, <2>2
  <2>3. CASE v = s
    <3>1. Apart(session'[v].held, session'[u].held)
      BY <1>2, <1>4, <2>3
    <3> QED
      BY <3>1 DEF Apart
  <2> QED
    BY <2>1, <2>2, <2>3
<1> QED
  BY <1>1, <1>3, <1>4 DEF ClaimsInv, LocksApart

LEMMA SessionMoves ==
  ASSUME ClaimsInv, NEW s \in Session, NEW t \in SessionRecord,
         session' = [session EXCEPT ![s] = t], UNCHANGED data, Fine(t),
         \A u \in Session \ {s} : Apart(t.held, session[u].held)
  PROVE  ClaimsInv'
<1>1. Registers'
  BY RegistersStay DEF ClaimsInv
<1>2. Fine(t)' /\ \A v \in SessionRecord : Fine(v) => Fine(v)'
  BY FineStays
<1> QED
  BY <1>1, <1>2, OneSessionMoves

-----------------------------------------------------------------------------
(* Commands as their clients make them.                                    *)

LEMMA IdleIsFine == Idle \in SessionRecord /\ Fine(Idle) /\ Fine(Idle)'
<1>1. NoCommand \in CommandRecord /\ NoCommand.op = "none" /\ NoCommand.links = {}
  BY Numbers DEF NoCommand, CommandRecord, Op, Outcome, Decision
<1>2. /\ Idle \in SessionRecord /\ Idle.pc = "idle" /\ Idle.cmd = NoCommand
      /\ Idle.todo = <<>> /\ Idle.held = {}
  BY <1>1 DEF Idle, SessionRecord
<1>3. Meant(NoCommand) /\ Meant(NoCommand)' /\ ~NamesOrigin(NoCommand)
  BY <1>1 DEF Meant, NamesOrigin, ClaimOps, EvidenceOps
<1>4. Fit(Idle) /\ Ordered(Idle)
  BY <1>2 DEF Fit, Ordered, Sorted
<1>5. Listed(Idle) /\ Guarded(Idle) /\ Listed(Idle)' /\ Guarded(Idle)'
  BY <1>2 DEF Listed, Guarded
<1> QED
  BY <1>2, <1>3, <1>4, <1>5 DEF Fine

LEMMA OfferedAreSound ==
  ASSUME parent \in [sku : BOOLEAN, batch : BOOLEAN, facts : Revision],
         evidence \in [Evidence -> Revision], events \in Seq(EventRecord),
         report \in ReportRecord, NEW ls \in LinkSets
  PROVE  ls \in SUBSET LinkRecord /\ \A l \in ls : Sound(l)
<1>0. 1 \in Evidence /\ Revision \subseteq Nat /\ 0 \in Nat /\ Cited \subseteq Evidence
  BY Numbers, ClaimsConstants
<1>1. /\ parent.facts \in Nat /\ DOMAIN events \subseteq Nat
      /\ \A e \in Cited : e \in Evidence /\ evidence[e] \in Revision
  <2>2. parent.facts \in Nat
    BY <1>0
  <2>3. DOMAIN events = 1..Len(events)
    OBVIOUS
  <2>4. DOMAIN events \subseteq Nat
    BY <2>3
  <2>5. ASSUME NEW e \in Cited PROVE e \in Evidence /\ evidence[e] \in Revision
    BY <1>0
  <2> QED
    BY <2>2, <2>4, <2>5
<1>2. report.revision \in Revision /\ report.cites[report.revision] \in Revision
  BY DEF ReportRecord
<1>3. ASSUME NEW e \in Cited, NEW v \in DOMAIN events, NEW l,
             l = [kind |-> "attestation", evidence |-> e, revision |-> evidence[e],
                  facts |-> parent.facts, event |-> v, report |-> 0]
      PROVE  l \in LinkRecord /\ Sound(l)
  BY <1>0, <1>1, <1>3 DEF LinkRecord, Sound
<1>4. ASSUME NEW l,
             l = [kind |-> "measurement", evidence |-> 1,
                  revision |-> report.cites[report.revision], facts |-> 0, event |-> 0,
                  report |-> report.revision]
      PROVE  l \in LinkRecord /\ Sound(l)
  BY <1>0, <1>2, <1>4 DEF LinkRecord, Sound
<1>5. ASSUME NEW e \in Cited, NEW l,
             l = [kind |-> "visual", evidence |-> e, revision |-> evidence[e], facts |-> 0,
                  event |-> 0, report |-> 0]
      PROVE  l \in LinkRecord /\ Sound(l)
  BY <1>0, <1>1, <1>5 DEF LinkRecord, Sound
<1>6. ASSUME NEW l \in Offered PROVE l \in LinkRecord /\ Sound(l)
  BY <1>3, <1>4, <1>5 DEF Offered
<1> QED
  BY <1>6 DEF LinkSets

\* What Meant says of a command, but for the version that the client saw.
Fields(cmd) ==
    /\ cmd \in CommandRecord
    /\ \A l \in cmd.links : Sound(l)
    /\ cmd.op \in ClaimOps \cup {"create"} => cmd.claim \in Claim
    /\ cmd.op \in {"approve", "reject", "invalidate"} =>
          links[cmd.claim] = cmd.links /\ claim[cmd.claim].state \in Active
    /\ cmd.op \in EvidenceOps => cmd.evidence \in Evidence
    /\ cmd.op \in {"quarantine", "append event"} => cmd.revision \in Revision
    /\ cmd.op = "append event" => cmd.outcome \in Outcome
    /\ cmd.op = "append event" /\ cmd.outcome = "withdrawn" =>
          cmd.event \in DOMAIN events /\ events[cmd.event].evidence = cmd.evidence
    /\ NamesOrigin(cmd) => cmd.revision \in Revision
    /\ cmd.op = "supersede evidence" => evidence[cmd.evidence] < MaxRevision
    /\ cmd.op = "supersede report" => cmd.revision \in Revision /\ report.revision < MaxRevision
    /\ cmd.op = "review report" => cmd.outcome \in Decision

LEMMA CommandsHaveFields ==
  ASSUME Registers, NEW cmd \in Commands
  PROVE  Fields(cmd)
<1>0. /\ {} \in SUBSET LinkRecord /\ <<>> \in Seq(Nat \cup BOOLEAN \cup ClaimState \cup Decision)
      /\ 0 \in Nat /\ 0 \in 0..MaxRevision /\ Revision \subseteq 0..MaxRevision
      /\ DOMAIN events \subseteq Nat
      /\ \A v \in DOMAIN events : events[v] \in EventRecord
      /\ \A e \in Evidence : evidence[e] \in Revision
      /\ \A c \in Claim : links[c] \in SUBSET LinkRecord /\ \A l \in links[c] : Sound(l)
      /\ Cited \subseteq Evidence
  BY Numbers, ClaimsConstants DEF Registers, Types, ClaimsSound, Revision
<1>1. CASE cmd \in ClaimCommands
  <2>0. \/ \E c \in Claim : cmd = [NoCommand EXCEPT !.op = "create", !.claim = c]
        \/ \E c \in Claim : cmd = [NoCommand EXCEPT !.op = "revise", !.claim = c]
        \/ \E c \in Claim, ls \in LinkSets :
              cmd = [NoCommand EXCEPT !.op = "link", !.claim = c, !.links = ls]
        \/ \E o \in {"approve", "reject", "invalidate"}, c \in Claim :
              /\ claim[c].state \in Active
              /\ cmd = [NoCommand EXCEPT !.op = o, !.claim = c, !.links = links[c]]
    <3> DEFINE create(c) == [NoCommand EXCEPT !.op = "create", !.claim = c]
               revise(c) == [NoCommand EXCEPT !.op = "revise", !.claim = c]
               link(c, ls) == [NoCommand EXCEPT !.op = "link", !.claim = c, !.links = ls]
               review(o, c) == [NoCommand EXCEPT !.op = o, !.claim = c, !.links = links[c]]
    <3>1. ClaimCommands =
            {create(c) : c \in {c \in Claim : claim[c].state = "none"}}
            \cup {revise(c) : c \in {c \in Claim : claim[c].revision \in 1..(MaxRevision - 1)}}
            \cup {link(c, ls) : c \in {c \in Claim : claim[c].state = "draft"}, ls \in LinkSets}
            \cup {review(o, c) : o \in {"approve", "reject", "invalidate"},
                                  c \in {c \in Claim : claim[c].state \in Active}}
      BY DEF ClaimCommands
    <3> HIDE DEF create, revise, link, review
    <3>2. \/ \E c \in Claim : cmd = create(c)
          \/ \E c \in Claim : cmd = revise(c)
          \/ \E c \in Claim, ls \in LinkSets : cmd = link(c, ls)
          \/ \E o \in {"approve", "reject", "invalidate"}, c \in Claim :
                claim[c].state \in Active /\ cmd = review(o, c)
      BY <1>1, <3>1
    <3> QED
      BY <3>2 DEF create, revise, link, review
  <2> USE <1>0 DEF Fields, NoCommand, CommandRecord, Op, ClaimOps, EvidenceOps, ReportOps,
                   Outcome, Decision, NamesOrigin
  <2>1. ASSUME NEW c \in Claim, cmd = [NoCommand EXCEPT !.op = "create", !.claim = c]
        PROVE Fields(cmd)
    BY <2>1
  <2>2. ASSUME NEW c \in Claim, cmd = [NoCommand EXCEPT !.op = "revise", !.claim = c]
        PROVE Fields(cmd)
    BY <2>2
  <2>3. ASSUME NEW c \in Claim, NEW ls \in LinkSets,
               cmd = [NoCommand EXCEPT !.op = "link", !.claim = c, !.links = ls]
        PROVE Fields(cmd)
    <3>1. ls \in SUBSET LinkRecord /\ \A l \in ls : Sound(l)
      BY OfferedAreSound DEF Registers, Types
    <3> QED
      BY <2>3, <3>1
  <2>4. ASSUME NEW c \in Claim, claim[c].state \in Active,
               NEW o \in {"approve", "reject", "invalidate"},
               cmd = [NoCommand EXCEPT !.op = o, !.claim = c, !.links = links[c]]
        PROVE Fields(cmd)
    BY <2>4
  <2> QED
    BY <2>0, <2>1, <2>2, <2>3, <2>4
<1>2. CASE cmd \in ParentCommands
  <2> USE <1>0 DEF Fields, NoCommand, CommandRecord, Op, ClaimOps, EvidenceOps, ReportOps,
                   Outcome, Decision, NamesOrigin
  <2>1. ASSUME NEW o \in {"archive sku", "archive batch", "archive reference"},
               cmd = [NoCommand EXCEPT !.op = o]
        PROVE Fields(cmd)
    BY <2>1
  <2>2. ASSUME cmd = [NoCommand EXCEPT !.op = "append facts", !.evidence = 0, !.revision = 0]
        PROVE Fields(cmd)
    BY <2>2
  <2>3. ASSUME NEW e \in Evidence,
               cmd = [NoCommand EXCEPT !.op = "append facts", !.evidence = e,
                                       !.revision = evidence[e]]
        PROVE Fields(cmd)
    BY <2>3
  <2> QED
    BY <1>2, <2>1, <2>2, <2>3, Numbers DEF ParentCommands
<1>3. CASE cmd \in EvidenceCommands
  <2>0. \/ \E e \in Evidence : cmd = [NoCommand EXCEPT !.op = "quarantine", !.evidence = e,
                                                       !.revision = evidence[e]]
        \/ \E e \in Evidence :
              /\ evidence[e] < MaxRevision
              /\ cmd = [NoCommand EXCEPT !.op = "supersede evidence", !.evidence = e]
        \/ \E e \in Evidence, o \in {"verified", "disputed"} :
              cmd = [NoCommand EXCEPT !.op = "append event", !.evidence = e,
                                      !.revision = evidence[e], !.outcome = o]
        \/ \E v \in DOMAIN events :
              cmd = [NoCommand EXCEPT !.op = "append event", !.evidence = events[v].evidence,
                                      !.revision = events[v].revision,
                                      !.outcome = "withdrawn", !.event = v]
    <3> DEFINE quarantine(e) == [NoCommand EXCEPT !.op = "quarantine", !.evidence = e,
                                                  !.revision = evidence[e]]
               supersede(e) == [NoCommand EXCEPT !.op = "supersede evidence", !.evidence = e]
               append(e, o) == [NoCommand EXCEPT !.op = "append event", !.evidence = e,
                                                 !.revision = evidence[e], !.outcome = o]
               withdraw(v) == [NoCommand EXCEPT !.op = "append event",
                                  !.evidence = events[v].evidence,
                                  !.revision = events[v].revision,
                                  !.outcome = "withdrawn", !.event = v]
    <3>1. EvidenceCommands =
            {quarantine(e) : e \in Cited}
            \cup {supersede(e) : e \in {e \in Cited : evidence[e] < MaxRevision}}
            \cup {append(e, o) : e \in Cited, o \in {"verified", "disputed"}}
            \cup {withdraw(v) : v \in {i \in DOMAIN events : events[i].outcome # "withdrawn"}}
      BY DEF EvidenceCommands
    <3> HIDE DEF quarantine, supersede, append, withdraw
    <3>2. \/ \E e \in Evidence : cmd = quarantine(e)
          \/ \E e \in Evidence : evidence[e] < MaxRevision /\ cmd = supersede(e)
          \/ \E e \in Evidence, o \in {"verified", "disputed"} : cmd = append(e, o)
          \/ \E v \in DOMAIN events : cmd = withdraw(v)
      BY <1>0, <1>3, <3>1
    <3> QED
      BY <3>2 DEF quarantine, supersede, append, withdraw
  <2> USE <1>0 DEF Fields, NoCommand, CommandRecord, Op, ClaimOps, EvidenceOps, ReportOps,
                   Outcome, Decision, NamesOrigin, EventRecord
  <2>1. ASSUME NEW e \in Evidence,
               cmd = [NoCommand EXCEPT !.op = "quarantine", !.evidence = e,
                                       !.revision = evidence[e]]
        PROVE Fields(cmd)
    BY <2>1
  <2>2. ASSUME NEW e \in Evidence, evidence[e] < MaxRevision,
               cmd = [NoCommand EXCEPT !.op = "supersede evidence", !.evidence = e]
        PROVE Fields(cmd)
    BY <2>2
  <2>3. ASSUME NEW e \in Evidence, NEW o \in {"verified", "disputed"},
               cmd = [NoCommand EXCEPT !.op = "append event", !.evidence = e,
                                       !.revision = evidence[e], !.outcome = o]
        PROVE Fields(cmd)
    BY <2>3
  <2>4. ASSUME NEW v \in DOMAIN events,
               cmd = [NoCommand EXCEPT !.op = "append event", !.evidence = events[v].evidence,
                            !.revision = events[v].revision, !.outcome = "withdrawn",
                            !.event = v]
        PROVE Fields(cmd)
    BY <2>4
  <2> QED
    BY <2>0, <2>1, <2>2, <2>3, <2>4
<1>4. CASE cmd \in ReportCommands
  <2> USE <1>0 DEF Fields, NoCommand, CommandRecord, Op, ClaimOps, EvidenceOps, ReportOps,
                   Outcome, Decision, NamesOrigin
  <2>1. ASSUME NEW v \in {0} \cup DOMAIN events, report.revision # MaxRevision,
               cmd = [NoCommand EXCEPT !.op = "supersede report", !.revision = evidence[1],
                                       !.event = v]
        PROVE Fields(cmd)
    <3>1. report.revision < MaxRevision /\ evidence[1] \in Revision
      BY <2>1, Numbers DEF Registers, Types, ReportRecord, Revision
    <3> QED
      BY <2>1, <3>1
  <2>2. ASSUME NEW d \in {"approved", "rejected"},
               cmd = [NoCommand EXCEPT !.op = "review report", !.outcome = d]
        PROVE Fields(cmd)
    BY <2>2
  <2>3. ASSUME cmd = [NoCommand EXCEPT !.op = "archive report"] PROVE Fields(cmd)
    BY <2>3
  <2> QED
    BY <1>4, <2>1, <2>2, <2>3 DEF ReportCommands
<1> QED
  BY <1>1, <1>2, <1>3, <1>4 DEF Commands

LEMMA VersionsSeen ==
  ASSUME Registers, NEW cmd \in CommandRecord, Fields(cmd)
  PROVE  /\ Versioned(cmd) \in Seq(Nat \cup BOOLEAN \cup ClaimState \cup Decision)
         /\ cmd.op \in ClaimOps =>
               Versioned(cmd) = <<claim[cmd.claim].revision, claim[cmd.claim].state>>
         /\ cmd.op = "supersede evidence" => Versioned(cmd)[1] = evidence[cmd.evidence]
         /\ cmd.op \in ReportOps => Versioned(cmd)[1] = report.revision
<1> DEFINE Value == Nat \cup BOOLEAN \cup ClaimState \cup Decision
<1>1. /\ cmd.op \in ClaimOps =>
            Versioned(cmd) = <<claim[cmd.claim].revision, claim[cmd.claim].state>>
      /\ cmd.op \in {"archive batch", "append facts"} =>
            Versioned(cmd) = <<parent.batch, parent.facts>>
      /\ cmd.op = "archive sku" => Versioned(cmd) = <<parent.sku>>
      /\ cmd.op = "supersede evidence" => Versioned(cmd) = <<evidence[cmd.evidence]>>
      /\ cmd.op \in ReportOps =>
            Versioned(cmd) = <<report.revision, report.decision[report.revision],
                               report.archived>>
      /\ cmd.op \notin ClaimOps \cup ReportOps
                        \cup {"archive batch", "append facts", "archive sku", "supersede evidence"}
            => Versioned(cmd) = <<>>
  BY DEF Versioned, ClaimOps, ReportOps
<1>2. /\ cmd.op \in ClaimOps =>
            claim[cmd.claim].revision \in Value /\ claim[cmd.claim].state \in Value
      /\ parent.batch \in Value /\ parent.facts \in Value /\ parent.sku \in Value
      /\ cmd.op = "supersede evidence" => evidence[cmd.evidence] \in Value
      /\ report.revision \in Value /\ report.decision[report.revision] \in Value
      /\ report.archived \in Value
  <2>1. Revision \subseteq Nat
    BY Numbers
  <2>2. parent.batch \in Value /\ parent.facts \in Value /\ parent.sku \in Value
    BY <2>1 DEF Registers, Types
  <2>3. cmd.op \in ClaimOps =>
            claim[cmd.claim].revision \in Value /\ claim[cmd.claim].state \in Value
    BY DEF Registers, Types, Fields
  <2>4. cmd.op = "supersede evidence" => evidence[cmd.evidence] \in Value
    BY <2>1 DEF Registers, Types, Fields, EvidenceOps
  <2>5. /\ report.revision \in Value /\ report.decision[report.revision] \in Value
        /\ report.archived \in Value
    BY <2>1 DEF Registers, Types, ReportRecord
  <2> QED
    BY <2>2, <2>3, <2>4, <2>5
<1> HIDE DEF Value
<1>3. Versioned(cmd) \in Seq(Value)
  <2>1. \A x, y, z \in Value : /\ <<>> \in Seq(Value) /\ <<x>> \in Seq(Value)
                               /\ <<x, y>> \in Seq(Value) /\ <<x, y, z>> \in Seq(Value)
    OBVIOUS
  <2> QED
    BY <1>1, <1>2, <2>1
<1>4. ASSUME cmd.op = "supersede evidence" PROVE Versioned(cmd)[1] = evidence[cmd.evidence]
  <2>1. Versioned(cmd) = <<evidence[cmd.evidence]>>
    BY <1>1, <1>4
  <2>2. PICK x : x = evidence[cmd.evidence]
    OBVIOUS
  <2> QED
    BY <2>1, <2>2
<1>5. ASSUME cmd.op \in ReportOps PROVE Versioned(cmd)[1] = report.revision
  <2>1. Versioned(cmd) = <<report.revision, report.decision[report.revision], report.archived>>
    BY <1>1, <1>5
  <2> QED
    BY <2>1
<1> QED
  BY <1>1, <1>3, <1>4, <1>5 DEF Value

LEMMA IssuedIsMeant ==
  ASSUME Registers, NEW cmd \in Commands, NEW a \in Action, NEW d,
         d = [cmd EXCEPT !.action = a, !.seen = Versioned(cmd)]
  PROVE  d \in CommandRecord /\ Meant(d)
<1>1. Fields(cmd) /\ cmd \in CommandRecord
  BY CommandsHaveFields DEF Fields
<1>2. /\ d \in CommandRecord /\ d.seen = Versioned(cmd)
      /\ d.op = cmd.op /\ d.claim = cmd.claim /\ d.evidence = cmd.evidence
      /\ d.revision = cmd.revision /\ d.event = cmd.event /\ d.outcome = cmd.outcome
      /\ d.links = cmd.links
  BY <1>1, VersionsSeen DEF CommandRecord
<1>3. /\ \A e \in Evidence : evidence[e] \in Revision
      /\ report.revision \in Revision
      /\ \A c \in Claim : claim[c].revision \in Nat
  BY DEF Registers, Types, ReportRecord
<1>4. d.op \in {"approve", "reject", "invalidate"} =>
          Len(d.seen) = 2 /\ d.seen[1] \in Nat /\ StillAsSeen(d)
  <2> SUFFICES ASSUME d.op \in {"approve", "reject", "invalidate"}
               PROVE  Len(d.seen) = 2 /\ d.seen[1] \in Nat /\ StillAsSeen(d)
    OBVIOUS
  <2>1. d.seen = <<claim[d.claim].revision, claim[d.claim].state>> /\ d.claim \in Claim
    BY <1>1, <1>2, VersionsSeen DEF ClaimOps, Fields
  <2>2. links[d.claim] = d.links /\ claim[d.claim].state \in Active
    BY <1>1, <1>2 DEF Fields
  <2> QED
    BY <1>3, <2>1, <2>2 DEF StillAsSeen, Active
<1>5. d.op = "supersede evidence" => d.seen[1] \in Revision /\ d.seen[1] < MaxRevision
  <2> SUFFICES ASSUME d.op = "supersede evidence"
               PROVE  d.seen[1] \in Revision /\ d.seen[1] < MaxRevision
    OBVIOUS
  <2>1. Versioned(cmd)[1] = evidence[cmd.evidence]
    BY <1>1, <1>2, VersionsSeen
  <2>2. cmd.evidence \in Evidence /\ evidence[cmd.evidence] < MaxRevision
    BY <1>1, <1>2 DEF Fields, EvidenceOps
  <2> QED
    BY <1>2, <1>3, <2>1, <2>2
<1>6. d.op = "supersede report" => d.seen[1] \in Revision /\ d.seen[1] < MaxRevision
  <2> SUFFICES ASSUME d.op = "supersede report"
               PROVE  d.seen[1] \in Revision /\ d.seen[1] < MaxRevision
    OBVIOUS
  <2>1. Versioned(cmd)[1] = report.revision
    BY <1>1, <1>2, VersionsSeen DEF ReportOps
  <2>2. report.revision < MaxRevision
    BY <1>1, <1>2 DEF Fields
  <2> QED
    BY <1>2, <1>3, <2>1, <2>2
<1> QED
  BY <1>1, <1>2, <1>4, <1>5, <1>6 DEF Meant, Fields, NamesOrigin

-----------------------------------------------------------------------------
(* A session is given a command, gives it up, or gets a lock.              *)

LEMMA GivenStep ==
  ASSUME ClaimsInv, NEW s \in Session, NEW t \in SessionRecord,
         session' = [session EXCEPT ![s] = t], UNCHANGED data,
         t.pc = "issued", t.todo = <<>>, t.held = {}, Meant(t.cmd)
  PROVE  ClaimsInv'
<1>1. Fine(t)
  BY DEF Fine, Fit, Listed, Guarded, Ordered, Sorted
<1>2. \A u \in Session : Apart(t.held, session[u].held)
  BY DEF Apart
<1> QED
  BY <1>1, <1>2, SessionMoves

LEMMA IssueStep == ASSUME ClaimsInv, NEW s \in Session, Issue(s) PROVE ClaimsInv'
<1>1. PICK cmd \in Commands, a \in Action :
        session' = [session EXCEPT ![s].pc = "issued",
                            ![s].cmd = [cmd EXCEPT !.action = a, !.seen = Versioned(cmd)]]
  BY DEF Issue
<1>2. PICK d \in CommandRecord :
        d = [cmd EXCEPT !.action = a, !.seen = Versioned(cmd)] /\ Meant(d)
  BY IssuedIsMeant DEF ClaimsInv
<1>3. session[s] \in SessionRecord /\ session[s].pc = "idle" /\ Fit(session[s])
  BY DEF Issue, ClaimsInv, Fine
<1>4. PICK t \in SessionRecord :
        /\ session' = [session EXCEPT ![s] = t]
        /\ t.pc = "issued" /\ t.cmd = d /\ t.todo = <<>> /\ t.held = {}
  <2> DEFINE t == [session[s] EXCEPT !.pc = "issued", !.cmd = d]
  <2>1. session' = [session EXCEPT ![s] = t]
    BY <1>1, <1>2 DEF ClaimsInv
  <2>2. t \in SessionRecord
    BY <1>3 DEF SessionRecord
  <2>3. t.pc = "issued" /\ t.cmd = d /\ t.todo = session[s].todo /\ t.held = session[s].held
    BY <1>3 DEF SessionRecord
  <2>4. session[s].todo = <<>> /\ session[s].held = {}
    BY <1>3 DEF Fit
  <2> HIDE DEF t
  <2> QED
    BY <2>1, <2>2, <2>3, <2>4
<1>5. UNCHANGED data
  BY DEF Issue
<1> QED
  BY <1>2, <1>4, <1>5, GivenStep

LEMMA DuplicateStep ==
  ASSUME ClaimsInv, NEW s \in Session, NEW u \in Session, Duplicate(s, u)
  PROVE  ClaimsInv'
<1>1. session[u].cmd \in CommandRecord /\ Meant(session[u].cmd)
  BY DEF ClaimsInv, Fine, SessionRecord
<1>2. PICK t \in SessionRecord :
        /\ session' = [session EXCEPT ![s] = t]
        /\ t.pc = "issued" /\ t.cmd = session[u].cmd /\ t.todo = <<>> /\ t.held = {}
  <2> DEFINE t == [Idle EXCEPT !.pc = "issued", !.cmd = session[u].cmd]
  <2>1. Idle \in SessionRecord /\ Idle.todo = <<>> /\ Idle.held = {}
    BY IdleIsFine DEF Idle
  <2>2. t \in SessionRecord /\ t.pc = "issued" /\ t.cmd = session[u].cmd
        /\ t.todo = Idle.todo /\ t.held = Idle.held
    BY <1>1, <2>1 DEF SessionRecord
  <2>3. session' = [session EXCEPT ![s] = t]
    BY DEF Duplicate
  <2> HIDE DEF t
  <2> QED
    BY <2>1, <2>2, <2>3
<1>3. UNCHANGED data
  BY DEF Duplicate
<1> QED
  BY <1>1, <1>2, <1>3, GivenStep

LEMMA EndStep ==
  ASSUME ClaimsInv, NEW s \in Session, session' = [session EXCEPT ![s] = Idle], UNCHANGED data
  PROVE  ClaimsInv'
<1>1. \A u \in Session : Apart(Idle.held, session[u].held)
  BY DEF Apart, Idle
<1> QED
  BY <1>1, IdleIsFine, SessionMoves

LEMMA AcquireStep == ASSUME ClaimsInv, NEW s \in Session, Acquire(s) PROVE ClaimsInv'
<1> DEFINE o == session[s]
           k == Head(o.todo)
<1>1. o \in SessionRecord /\ Fine(o) /\ o.todo \in Seq(Lock) /\ o.todo # <<>> /\ o.held \subseteq Lock
  BY DEF ClaimsInv, Acquire, SessionRecord
<1>2. PICK t \in SessionRecord :
        /\ session' = [session EXCEPT ![s] = t]
        /\ t.pc = o.pc /\ t.cmd = o.cmd /\ t.list = o.list
        /\ t.todo = Tail(o.todo) /\ t.held = o.held \cup {k}
  <2> DEFINE t == [o EXCEPT !.todo = Tail(o.todo), !.held = o.held \cup {k}]
  <2>1. session' = [session EXCEPT ![s] = t]
    BY DEF ClaimsInv, Acquire
  <2>2. k \in Lock /\ Tail(o.todo) \in Seq(Lock)
    BY <1>1
  <2>3. t \in SessionRecord
    BY <1>1, <2>2 DEF SessionRecord
  <2>4. /\ t.pc = o.pc /\ t.cmd = o.cmd /\ t.list = o.list
        /\ t.todo = Tail(o.todo) /\ t.held = o.held \cup {k}
    BY <1>1 DEF SessionRecord
  <2> HIDE DEF t, o, k
  <2> QED
    BY <2>1, <2>3, <2>4
<1>3. /\ Elements(o.todo) = {k} \cup Elements(t.todo)
      /\ Sorted(o.todo) => Sorted(t.todo) /\ \A i \in DOMAIN t.todo : Before(k[2], t.todo[i][2])
      /\ \A i \in DOMAIN t.todo : t.todo[i] \in Elements(o.todo)
      /\ k = o.todo[1] /\ 1 \in DOMAIN o.todo
  <2>1. /\ DOMAIN t.todo = 1..(Len(o.todo) - 1) /\ DOMAIN o.todo = 1..Len(o.todo)
        /\ Len(o.todo) \in Nat \ {0}
        /\ k = o.todo[1] /\ \A i \in 1..(Len(o.todo) - 1) : t.todo[i] = o.todo[i + 1]
    BY <1>1, <1>2
  <2>2. \A i \in 1..Len(o.todo) : i = 1 \/ (i - 1 \in 1..(Len(o.todo) - 1) /\ i = (i - 1) + 1)
    BY <2>1
  <2>3. \A i \in 1..(Len(o.todo) - 1) : i + 1 \in 1..Len(o.todo) /\ 1 < i + 1
    BY <2>1
  <2>4. 1 \in 1..Len(o.todo)
    BY <2>1
  <2> HIDE DEF o, k
  <2>5. ASSUME NEW x \in Elements(o.todo) PROVE x = k \/ x \in Elements(t.todo)
    <3>1. PICK i \in 1..Len(o.todo) : x = o.todo[i]
      BY <2>1 DEF Elements
    <3>2. CASE i = 1
      BY <2>1, <3>1, <3>2
    <3>3. CASE i # 1
      <4>1. i - 1 \in DOMAIN t.todo /\ t.todo[i - 1] = o.todo[(i - 1) + 1]
        BY <2>1, <2>2, <3>3
      <4>2. (i - 1) + 1 = i
        BY <2>2, <3>3
      <4> QED
        BY <3>1, <4>1, <4>2 DEF Elements
    <3> QED
      BY <3>2, <3>3
  <2>6. k \in Elements(o.todo) /\ \A x \in Elements(t.todo) : x \in Elements(o.todo)
    BY <2>1, <2>3, <2>4 DEF Elements
  <2>7. ASSUME Sorted(o.todo) PROVE Sorted(t.todo)
    <3> SUFFICES ASSUME NEW i \in 1..(Len(o.todo) - 1), NEW j \in 1..(Len(o.todo) - 1), i < j
                 PROVE  Before(t.todo[i][2], t.todo[j][2])
      BY <2>1 DEF Sorted
    <3>1. i + 1 \in DOMAIN o.todo /\ j + 1 \in DOMAIN o.todo /\ i + 1 < j + 1
      BY <2>1, <2>3
    <3>2. Before(o.todo[i + 1][2], o.todo[j + 1][2])
      BY <2>7, <3>1 DEF Sorted
    <3> QED
      BY <2>1, <3>2
  <2>8. Sorted(o.todo) => \A i \in DOMAIN t.todo : Before(k[2], t.todo[i][2])
    BY <2>1, <2>3, <2>4 DEF Sorted
  <2>9. \A i \in DOMAIN t.todo : t.todo[i] \in Elements(o.todo)
    BY <2>1, <2>3 DEF Elements
  <2> QED
    BY <2>1, <2>4, <2>5, <2>6, <2>7, <2>8, <2>9
<1>4. Fit(t)
  BY <1>1, <1>2, <1>3 DEF Fine, Fit
<1>5. Ordered(o) => Ordered(t)
  <2>1. Ordered(o) => \A h \in o.held, x \in Elements(o.todo) : Before(h[2], x[2])
    BY DEF Ordered, Elements
  <2> HIDE DEF o, k
  <2> QED
    BY <1>2, <1>3, <2>1 DEF Ordered
<1>6. Fine(t)
  BY <1>1, <1>2, <1>4, <1>5 DEF Fine, Listed, Guarded
<1>7. ASSUME NEW u \in Session \ {s} PROVE Apart(t.held, session[u].held)
  <2>1. Apart(o.held, session[u].held)
    BY DEF ClaimsInv, LocksApart
  <2>2. \A h \in session[u].held : h[2] = k[2] => h[1] # "update" /\ k[1] # "update"
    BY DEF Acquire, Conflict
  <2>3. k \in Lock /\ session[u].held \subseteq Lock
    BY <1>1 DEF ClaimsInv, SessionRecord
  <2>4. \A h \in Lock : h[1] = "share" \/ h[1] = "update"
    BY DEF Lock, Mode
  <2> HIDE DEF o, k
  <2> QED
    BY <1>2, <2>1, <2>2, <2>3, <2>4 DEF Apart
<1> HIDE DEF o, k
<1> QED
  BY <1>2, <1>6, <1>7, SessionMoves DEF Acquire

-----------------------------------------------------------------------------
(* A transaction begins.                                                   *)

LEMMA BeginStep ==
  ASSUME ClaimsInv, NEW s \in Session, NEW op, NEW locks \in Seq(Lock), Begin(s, op, locks),
         MainLocks(session[s].cmd) \subseteq Elements(locks),
         op \notin ClaimOps \cup {"create"} => \A k \in Elements(locks) : k[2][1] < 8,
         NamesOrigin(session[s].cmd) \/ Sorted(locks)
  PROVE  ClaimsInv'
<1>1. /\ session[s] \in SessionRecord /\ Fine(session[s])
      /\ session[s].pc = "issued" /\ session[s].cmd.op = op /\ UNCHANGED data
  BY DEF ClaimsInv, Begin
<1>2. session[s].held = {}
  BY <1>1 DEF Fine, Fit
<1>3. PICK t \in SessionRecord :
        /\ session' = [session EXCEPT ![s] = t]
        /\ t.pc = "locking" /\ t.cmd = session[s].cmd /\ t.todo = locks /\ t.held = {}
  <2> DEFINE t == [session[s] EXCEPT !.pc = "locking", !.todo = locks]
  <2>1. session' = [session EXCEPT ![s] = t]
    BY DEF ClaimsInv, Begin
  <2>2. t \in SessionRecord
    BY <1>1 DEF SessionRecord
  <2>3. t.pc = "locking" /\ t.cmd = session[s].cmd /\ t.todo = locks /\ t.held = session[s].held
    BY <1>1 DEF SessionRecord
  <2> HIDE DEF t
  <2> QED
    BY <1>2, <2>1, <2>2, <2>3
<1>4. Fit(t)
  BY <1>1, <1>3 DEF Fit
<1>5. NamesOrigin(t.cmd) \/ Ordered(t)
  BY <1>3 DEF Ordered
<1>6. Fine(t)
  BY <1>1, <1>3, <1>4, <1>5 DEF Fine, Listed, Guarded
<1>7. \A u \in Session : Apart(t.held, session[u].held)
  BY <1>3 DEF Apart
<1> QED
  BY <1>1, <1>3, <1>6, <1>7, SessionMoves

\* What a command locks at least.
LEMMA MainLocksOf ==
  ASSUME NEW cmd
  PROVE  /\ cmd.op = "link" =>
               MainLocks(cmd) = {<<"share", row>> : row \in {Parents} \cup CitedRows(cmd.links)}
         /\ cmd.op \in {"archive sku", "archive batch", "append facts"} =>
               MainLocks(cmd) = {<<"update", Parents>>}
         /\ cmd.op = "quarantine" =>
               MainLocks(cmd) = {<<"update", Source(cmd.evidence, cmd.revision)>>}
         /\ cmd.op \in {"supersede evidence", "append event"} =>
               MainLocks(cmd) = {<<"update", Asset(cmd.evidence)>>}
         /\ cmd.op \in ReportOps => MainLocks(cmd) = {<<"update", Asset(1)>>, <<"update", Report>>}
         /\ cmd.op = "archive reference" => MainLocks(cmd) = {<<"update", Reference>>}
BY DEF MainLocks, ReportOps

\* A command on a claim.
LEMMA BeginOnClaim ==
  ASSUME ClaimsInv, NEW s \in Session, NEW op \in ClaimOps \cup {"create"},
         NEW ls \in SUBSET LinkRecord, NEW cs \in SUBSET Claim, Begin(s, op, ClaimLocks(ls, cs)),
         op = "link" => ls = session[s].cmd.links
  PROVE  ClaimsInv'
<1>1. session[s].cmd.op = op
  BY DEF Begin
<1>2. MainLocks(session[s].cmd) \subseteq Elements(ClaimLocks(ls, cs))
  <2>1. CASE op = "link"
    <3>1. ls = session[s].cmd.links
      BY <2>1
    <3> QED
      BY <1>1, <2>1, <3>1, ClaimLocksAreSorted, MainLocksOf
  <2>2. CASE op # "link"
    BY <1>1, <2>2 DEF MainLocks, ClaimOps, ReportOps
  <2> QED
    BY <2>1, <2>2
<1> QED
  BY <1>2, BeginStep, ClaimLocksAreSorted

\* A command on dependencies, with its locks in order.
LEMMA BeginOnRows ==
  ASSUME ClaimsInv, NEW s \in Session, NEW op, NEW rows \in SUBSET Row,
         Begin(s, op, Locks("update", rows)),
         \A row \in rows : row[1] < 8,
         MainLocks(session[s].cmd) \subseteq {<<"update", row>> : row \in rows}
  PROVE  ClaimsInv'
<1>1. /\ Locks("update", rows) \in Seq(Lock) /\ Sorted(Locks("update", rows))
      /\ Elements(Locks("update", rows)) = {<<"update", row>> : row \in rows}
  BY LocksAreSorted DEF Mode
<1>2. \A k \in Elements(Locks("update", rows)) : k[2][1] < 8
  BY <1>1
<1> QED
  BY <1>1, <1>2, BeginStep

LEMMA BeginClaimStep ==
  ASSUME ClaimsInv, NEW s \in Session,
         \/ BeginCreate(s) \/ BeginRevise(s) \/ BeginLink(s)
         \/ \E op \in {"approve", "reject", "invalidate"} : BeginOnLinked(s, op)
  PROVE  ClaimsInv'
<1>1. /\ session[s].cmd.links \in SUBSET LinkRecord
      /\ session[s].cmd.op \in ClaimOps => session[s].cmd.claim \in Claim
      /\ \A c \in Claim : links[c] \in SUBSET LinkRecord
  BY DEF ClaimsInv, Registers, Types, SessionRecord, CommandRecord, Fine, Meant
<1> DEFINE c == session[s].cmd.claim
<1>2. CASE BeginCreate(s)
  <2>1. {} \in SUBSET LinkRecord /\ {} \in SUBSET Claim /\ "create" \in ClaimOps \cup {"create"}
    OBVIOUS
  <2> QED
    BY <1>2, <2>1, BeginOnClaim DEF BeginCreate
<1>3. CASE BeginRevise(s)
  <2>1. /\ {} \in SUBSET LinkRecord /\ {c} \in SUBSET Claim /\ "revise" \in ClaimOps \cup {"create"}
        /\ Begin(s, "revise", ClaimLocks({}, {c}))
    BY <1>1, <1>3 DEF BeginRevise, Begin, ClaimOps
  <2> QED
    BY <2>1, BeginOnClaim
<1>4. CASE BeginLink(s)
  <2>1. /\ {c} \in SUBSET Claim /\ "link" \in ClaimOps \cup {"create"}
        /\ Begin(s, "link", ClaimLocks(session[s].cmd.links, {c}))
    BY <1>1, <1>4 DEF BeginLink, Begin, ClaimOps
  <2> QED
    BY <1>1, <2>1, BeginOnClaim
<1>5. ASSUME NEW op \in {"approve", "reject", "invalidate"}, BeginOnLinked(s, op)
      PROVE  ClaimsInv'
  <2>1. /\ c \in Claim /\ op \in ClaimOps \cup {"create"} /\ op # "link"
        /\ Begin(s, op, ClaimLocks(links[c], {c}))
    BY <1>1, <1>5 DEF BeginOnLinked, Begin, ClaimOps
  <2>2. links[c] \in SUBSET LinkRecord /\ {c} \in SUBSET Claim
    BY <1>1, <2>1
  <2> QED
    BY <2>1, <2>2, BeginOnClaim
<1> QED
  BY <1>2, <1>3, <1>4, <1>5

LEMMA BeginProductStep ==
  ASSUME ClaimsInv, NEW s \in Session,
         \/ BeginArchiveSku(s) \/ BeginArchiveBatch(s) \/ BeginArchiveReference(s)
  PROVE  ClaimsInv'
<1> USE RowsTyped, RowsBeforeClaims
<1>1. CASE BeginArchiveSku(s)
  <2> DEFINE rows == {Parents}
  <2>1. Begin(s, "archive sku", Locks("update", rows)) /\ session[s].cmd.op = "archive sku"
    BY <1>1 DEF BeginArchiveSku, Begin
  <2>2. rows \in SUBSET Row /\ \A row \in rows : row[1] < 8
    OBVIOUS
  <2>3. MainLocks(session[s].cmd) \subseteq {<<"update", row>> : row \in rows}
    BY <2>1, MainLocksOf
  <2> HIDE DEF rows
  <2> QED
    BY <2>1, <2>2, <2>3, BeginOnRows
<1>2. CASE BeginArchiveBatch(s)
  <2> DEFINE rows == {Parents}
  <2>1. Begin(s, "archive batch", Locks("update", rows)) /\ session[s].cmd.op = "archive batch"
    BY <1>2 DEF BeginArchiveBatch, Begin
  <2>2. rows \in SUBSET Row /\ \A row \in rows : row[1] < 8
    OBVIOUS
  <2>3. MainLocks(session[s].cmd) \subseteq {<<"update", row>> : row \in rows}
    BY <2>1, MainLocksOf
  <2> HIDE DEF rows
  <2> QED
    BY <2>1, <2>2, <2>3, BeginOnRows
<1>3. CASE BeginArchiveReference(s)
  <2> DEFINE rows == {Reference}
  <2>1. Begin(s, "archive reference", Locks("update", rows)) /\ session[s].cmd.op = "archive reference"
    BY <1>3 DEF BeginArchiveReference, Begin
  <2>2. rows \in SUBSET Row /\ \A row \in rows : row[1] < 8
    OBVIOUS
  <2>3. MainLocks(session[s].cmd) \subseteq {<<"update", row>> : row \in rows}
    BY <2>1, MainLocksOf
  <2> HIDE DEF rows
  <2> QED
    BY <2>1, <2>2, <2>3, BeginOnRows
<1> QED
  BY <1>1, <1>2, <1>3

\* Facts with an origin lock out of order.
LEMMA BeginFactsStep ==
  ASSUME ClaimsInv, NEW s \in Session, BeginAppendFacts(s)
  PROVE  ClaimsInv'
<1> DEFINE cmd == session[s].cmd
           e == cmd.evidence
           r == cmd.revision
           p == Locks("update", {Parents})
           q == IF e = 0 THEN <<>>
                ELSE << <<"share", AssetRevision(e, r)>>, <<"share", Asset(e)>>,
                        <<"share", Source(e, r)>> >>
<1>1. Begin(s, "append facts", p \o q) /\ cmd.op = "append facts"
  BY DEF BeginAppendFacts, Begin
<1>2. e \in Evidence \cup {0} /\ (e # 0 => r \in Revision)
  BY <1>1 DEF ClaimsInv, SessionRecord, CommandRecord, Fine, Meant, NamesOrigin
<1>3. /\ p \in Seq(Lock) /\ Sorted(p) /\ Elements(p) = {<<"update", Parents>>}
  BY LocksAreSorted, RowsTyped DEF Mode
<1>4. q \in Seq(Lock) /\ \A k \in Elements(q) : k[2][1] < 8
  <2>1. CASE e = 0
    BY <2>1 DEF Elements
  <2>2. CASE e # 0
    <3> DEFINE a == <<"share", AssetRevision(e, r)>>
               b == <<"share", Asset(e)>>
               c == <<"share", Source(e, r)>>
    <3>1. a \in Lock /\ b \in Lock /\ c \in Lock /\ a[2][1] < 8 /\ b[2][1] < 8 /\ c[2][1] < 8
      BY <1>2, <2>2, RowsTyped, RowsBeforeClaims DEF Lock, Mode
    <3>2. q = <<a, b, c>>
      BY <2>2
    <3> HIDE DEF a, b, c, q
    <3>3. q \in Seq(Lock) /\ DOMAIN q = 1..3 /\ q[1] = a /\ q[2] = b /\ q[3] = c
      BY <3>1, <3>2
    <3>4. Elements(q) = {a, b, c}
      BY <3>3 DEF Elements
    <3> QED
      BY <3>1, <3>3, <3>4
  <2> QED
    BY <2>1, <2>2
<1>5. NamesOrigin(cmd) \/ (Elements(q) = {} /\ Sorted(q))
  <2>1. CASE e = 0
    <3>1. q = <<>> /\ DOMAIN q = {}
      BY <2>1
    <3> QED
      BY <3>1, Zenon DEF Elements, Sorted
  <2>2. CASE e # 0
    BY <1>1, <2>2 DEF NamesOrigin
  <2> QED
    BY <2>1, <2>2
<1> HIDE DEF p, q
<1>6. /\ p \o q \in Seq(Lock) /\ Elements(p \o q) = Elements(p) \cup Elements(q)
      /\ NamesOrigin(cmd) \/ Sorted(p \o q)
  BY <1>3, <1>4, <1>5, JoinedAreSorted
<1>7. \A k \in Elements(p \o q) : k[2][1] < 8
  BY <1>3, <1>4, <1>6, RowsBeforeClaims
<1>8. MainLocks(cmd) \subseteq Elements(p \o q)
  BY <1>1, <1>3, <1>6, MainLocksOf
<1> QED
  BY <1>1, <1>6, <1>7, <1>8, BeginStep

LEMMA BeginEvidenceStep ==
  ASSUME ClaimsInv, NEW s \in Session,
         BeginQuarantine(s) \/ BeginSupersede(s) \/ BeginAppendEvent(s)
  PROVE  ClaimsInv'
<1> DEFINE e == session[s].cmd.evidence
           r == session[s].cmd.revision
<1> USE RowsTyped, RowsBeforeClaims
<1>1. /\ session[s].cmd.op \in EvidenceOps => e \in Evidence
      /\ session[s].cmd.op \in {"quarantine", "append event"} => r \in Revision
      /\ \A x \in Evidence : evidence[x] \in Revision
  BY DEF ClaimsInv, Fine, Meant, Registers, Types
<1>2. CASE BeginQuarantine(s)
  <2> DEFINE rows == {Source(e, r)}
  <2>1. Begin(s, "quarantine", Locks("update", rows)) /\ session[s].cmd.op = "quarantine"
    BY <1>2 DEF BeginQuarantine, Begin
  <2>2. rows \in SUBSET Row /\ \A row \in rows : row[1] < 8
    BY <1>1, <2>1 DEF EvidenceOps
  <2>3. MainLocks(session[s].cmd) \subseteq {<<"update", row>> : row \in rows}
    BY <2>1, MainLocksOf
  <2> HIDE DEF rows
  <2> QED
    BY <2>1, <2>2, <2>3, BeginOnRows
<1>3. CASE BeginSupersede(s)
  <2> DEFINE rows == {Parents, Source(e, evidence[e]), Asset(e)}
  <2>1. /\ Begin(s, "supersede evidence", Locks("update", rows))
        /\ session[s].cmd.op = "supersede evidence"
    BY <1>3 DEF BeginSupersede, Begin
  <2>2. rows \in SUBSET Row /\ \A row \in rows : row[1] < 8
    BY <1>1, <2>1 DEF EvidenceOps
  <2>3. MainLocks(session[s].cmd) \subseteq {<<"update", row>> : row \in rows}
    BY <2>1, MainLocksOf
  <2> HIDE DEF rows
  <2> QED
    BY <2>1, <2>2, <2>3, BeginOnRows
<1>4. CASE BeginAppendEvent(s)
  <2> DEFINE rows == {Source(e, r), Asset(e), AssetRevision(e, r)}
  <2>1. /\ Begin(s, "append event", Locks("update", rows)) /\ session[s].cmd.op = "append event"
    BY <1>4 DEF BeginAppendEvent, Begin
  <2>2. rows \in SUBSET Row /\ \A row \in rows : row[1] < 8
    BY <1>1, <2>1 DEF EvidenceOps
  <2>3. MainLocks(session[s].cmd) \subseteq {<<"update", row>> : row \in rows}
    BY <2>1, MainLocksOf
  <2> HIDE DEF rows
  <2> QED
    BY <2>1, <2>2, <2>3, BeginOnRows
<1> QED
  BY <1>2, <1>3, <1>4

LEMMA BeginReportStep ==
  ASSUME ClaimsInv, NEW s \in Session,
         BeginSupersedeReport(s) \/ BeginReviewReport(s) \/ BeginArchiveReport(s)
  PROVE  ClaimsInv'
<1> DEFINE r == session[s].cmd.revision
<1> USE RowsTyped, RowsBeforeClaims
<1>1. /\ 1 \in Evidence /\ CitedByReport \in Revision
      /\ session[s].cmd.op = "supersede report" => r \in Revision
  BY Numbers DEF ClaimsInv, Fine, Meant, Registers, Types, ReportRecord, CitedByReport
<1>2. CASE BeginSupersedeReport(s)
  <2> DEFINE rows == {Parents, Source(1, CitedByReport), Source(1, r), Asset(1), Report}
  <2>1. /\ Begin(s, "supersede report", Locks("update", rows))
        /\ session[s].cmd.op = "supersede report"
    BY <1>2 DEF BeginSupersedeReport, Begin
  <2>2. rows \in SUBSET Row /\ \A row \in rows : row[1] < 8
    BY <1>1, <2>1
  <2>3. MainLocks(session[s].cmd) \subseteq {<<"update", row>> : row \in rows}
    BY <2>1, MainLocksOf DEF ReportOps
  <2> HIDE DEF rows
  <2> QED
    BY <2>1, <2>2, <2>3, BeginOnRows
<1>3. CASE BeginReviewReport(s)
  <2> DEFINE rows == {Parents, Source(1, CitedByReport), Asset(1), Report}
  <2>1. /\ Begin(s, "review report", Locks("update", rows)) /\ session[s].cmd.op = "review report"
    BY <1>3 DEF BeginReviewReport, Begin
  <2>2. rows \in SUBSET Row /\ \A row \in rows : row[1] < 8
    BY <1>1
  <2>3. MainLocks(session[s].cmd) \subseteq {<<"update", row>> : row \in rows}
    BY <2>1, MainLocksOf DEF ReportOps
  <2> HIDE DEF rows
  <2> QED
    BY <2>1, <2>2, <2>3, BeginOnRows
<1>4. CASE BeginArchiveReport(s)
  <2> DEFINE rows == {Parents, Asset(1), Report}
  <2>1. /\ Begin(s, "archive report", Locks("update", rows))
        /\ session[s].cmd.op = "archive report"
    BY <1>4 DEF BeginArchiveReport, Begin
  <2>2. rows \in SUBSET Row /\ \A row \in rows : row[1] < 8
    BY <1>1
  <2>3. MainLocks(session[s].cmd) \subseteq {<<"update", row>> : row \in rows}
    BY <2>1, MainLocksOf DEF ReportOps
  <2> HIDE DEF rows
  <2> QED
    BY <2>1, <2>2, <2>3, BeginOnRows
<1> QED
  BY <1>2, <1>3, <1>4

-----------------------------------------------------------------------------
(* A transaction finds the claims that its change hits.                    *)

LEMMA CascadeStep ==
  ASSUME ClaimsInv, NEW s \in Session, NEW op, op \notin ClaimOps \cup {"create"},
         Ready(s, "locking", op), NEW list \in SUBSET Claim, StartCascade(s, list),
         Lists(session[s].cmd, list), Checked(session[s].cmd)
  PROVE  ClaimsInv'
<1> DEFINE o == session[s]
<1>1. /\ o \in SessionRecord /\ Fine(o) /\ o.pc = "locking" /\ o.cmd.op = op /\ o.todo = <<>>
      /\ UNCHANGED data
  BY DEF ClaimsInv, Ready, StartCascade
<1>2. PICK t \in SessionRecord :
        /\ session' = [session EXCEPT ![s] = t]
        /\ t.pc = "cascading" /\ t.cmd = o.cmd /\ t.list = list /\ t.held = o.held
        /\ t.todo = CascadeLocks(list)
  <2> DEFINE t == [o EXCEPT !.pc = "cascading", !.list = list, !.todo = CascadeLocks(list)]
  <2>1. session' = [session EXCEPT ![s] = t]
    BY DEF ClaimsInv, StartCascade
  <2>2. t \in SessionRecord
    BY <1>1, CascadeLocksAreSorted DEF SessionRecord
  <2>3. /\ t.pc = "cascading" /\ t.cmd = o.cmd /\ t.list = list /\ t.held = o.held
        /\ t.todo = CascadeLocks(list)
    BY <1>1 DEF SessionRecord
  <2> HIDE DEF t, o
  <2> QED
    BY <2>1, <2>2, <2>3
<1>3. /\ MainLocks(o.cmd) \subseteq o.held
      /\ \A k \in o.held : k[2][1] < 8
  <2>1. Elements(o.todo) = {}
    <3>1. DOMAIN o.todo = {}
      BY <1>1
    <3> QED
      BY <3>1, Zenon DEF Elements
  <2> QED
    BY <1>1, <2>1 DEF Fine, Fit
<1>4. Fit(t)
  BY <1>2, <1>3 DEF Fit
<1>5. Ordered(t)
  <2>1. \A k \in Elements(CascadeLocks(list)) : k[2][1] = 8
    BY CascadeLocksAreSorted
  <2>2. \A k \in o.held : k[2][1] < 8
    BY <1>3
  <2>3. \A k \in t.held, x \in Elements(t.todo) : Before(k[2], x[2])
    BY <1>2, <2>1, <2>2 DEF Before
  <2>4. \A k \in t.held, i \in DOMAIN t.todo : Before(k[2], t.todo[i][2])
    BY <2>3 DEF Elements
  <2>5. Sorted(t.todo)
    BY <1>2, CascadeLocksAreSorted
  <2> QED
    BY <2>4, <2>5 DEF Ordered
<1>6. Fine(t)
  BY <1>1, <1>2, <1>4, <1>5 DEF Fine, Listed, Guarded
<1>7. \A u \in Session \ {s} : Apart(t.held, session[u].held)
  BY <1>2 DEF ClaimsInv, LocksApart
<1> HIDE DEF o
<1> QED
  BY <1>1, <1>2, <1>6, <1>7, SessionMoves

\* The triggers look for the links that the change hits.
LEMMA CitingLists ==
  ASSUME NEW cmd, NEW ls, \A c \in Claim : \A l \in links[c] : Hits(cmd, l) => l \in ls
  PROVE  Lists(cmd, Citing(ls))
BY DEF Lists, Citing

LEMMA LinksAreLinked == \A c \in Claim : \A l \in links[c] : l \in Linked
BY DEF Linked

LEMMA CitingAreClaims == \A ls : Citing(ls) \in SUBSET Claim
BY DEF Citing

LEMMA ProductCascades ==
  ASSUME ClaimsInv, NEW s \in Session,
         ArchiveSku(s) \/ ArchiveBatch(s) \/ AppendFacts(s) \/ ArchiveReference(s)
  PROVE  ClaimsInv'
<1> DEFINE cmd == session[s].cmd
<1> USE LinksAreLinked
<1>1. CASE ArchiveSku(s)
  <2>1. Ready(s, "locking", "archive sku") /\ StartCascade(s, Citing(Linked))
        /\ cmd.op = "archive sku"
    BY <1>1 DEF ArchiveSku, Ready
  <2>2. Lists(cmd, Citing(Linked)) /\ Checked(cmd)
    BY <2>1, CitingLists DEF Checked
  <2> HIDE DEF cmd
  <2> QED
    BY <2>1, <2>2, CitingAreClaims, CascadeStep DEF ClaimOps, cmd
<1>2. CASE ArchiveBatch(s)
  <2>1. Ready(s, "locking", "archive batch") /\ StartCascade(s, Citing(Linked))
        /\ cmd.op = "archive batch"
    BY <1>2 DEF ArchiveBatch, Ready
  <2>2. Lists(cmd, Citing(Linked)) /\ Checked(cmd)
    BY <2>1, CitingLists DEF Checked
  <2> HIDE DEF cmd
  <2> QED
    BY <2>1, <2>2, CitingAreClaims, CascadeStep DEF ClaimOps, cmd
<1>3. CASE AppendFacts(s)
  <2> DEFINE ls == {l \in Linked : l.facts # 0}
  <2>1. /\ Ready(s, "locking", "append facts") /\ StartCascade(s, Citing(ls))
        /\ cmd.op = "append facts" /\ parent.facts < MaxRevision
    BY <1>3 DEF AppendFacts, Ready
  <2>2. \A c \in Claim : \A l \in links[c] : Hits(cmd, l) => l \in ls
    BY <2>1 DEF Hits
  <2> HIDE DEF cmd, ls
  <2>3. Lists(cmd, Citing(ls)) /\ Checked(cmd)
    BY <2>1, <2>2, CitingLists DEF Checked
  <2> QED
    BY <2>1, <2>3, CitingAreClaims, CascadeStep DEF ClaimOps, cmd
<1>4. CASE ArchiveReference(s)
  <2> DEFINE ls == {l \in Linked : l.kind = "visual"}
  <2>1. /\ Ready(s, "locking", "archive reference") /\ StartCascade(s, Citing(ls))
        /\ cmd.op = "archive reference"
    BY <1>4 DEF ArchiveReference, Ready
  <2>2. \A c \in Claim : \A l \in links[c] : Hits(cmd, l) => l \in ls
    BY <2>1 DEF Hits, ReportOps
  <2> HIDE DEF cmd, ls
  <2>3. Lists(cmd, Citing(ls)) /\ Checked(cmd)
    BY <2>1, <2>2, CitingLists DEF Checked
  <2> QED
    BY <2>1, <2>3, CitingAreClaims, CascadeStep DEF ClaimOps, cmd
<1> QED
  BY <1>1, <1>2, <1>3, <1>4

LEMMA EvidenceCascades ==
  ASSUME ClaimsInv, NEW s \in Session,
         Quarantine(s) \/ SupersedeEvidence(s) \/ AppendEvent(s)
  PROVE  ClaimsInv'
<1> DEFINE cmd == session[s].cmd
           e == cmd.evidence
           r == cmd.revision
<1> USE LinksAreLinked
<1>1. /\ Meant(cmd) /\ \A c \in Claim : \A l \in links[c] : Sound(l)
  BY DEF ClaimsInv, Fine, Registers, ClaimsSound
<1>2. CASE Quarantine(s)
  <2> DEFINE ls == {l \in Linked : l.evidence = e /\ l.revision = r}
             list == IF available[e][r] THEN Citing(ls) ELSE {}
  <2>1. Ready(s, "locking", "quarantine") /\ StartCascade(s, list) /\ cmd.op = "quarantine"
    BY <1>2 DEF Quarantine, Ready
  <2>2. \A c \in Claim : \A l \in links[c] : Hits(cmd, l) => available[e][r] /\ l \in ls
    BY <2>1 DEF Hits
  <2> HIDE DEF cmd, ls
  <2>3. Lists(cmd, list)
    BY <2>2 DEF Lists, Citing
  <2>4. list \in SUBSET Claim
    BY CitingAreClaims
  <2>5. Checked(cmd)
    BY <2>1 DEF Checked
  <2> HIDE DEF list
  <2> QED
    BY <2>1, <2>3, <2>4, <2>5, CascadeStep DEF ClaimOps, cmd
<1>3. CASE SupersedeEvidence(s)
  <2> DEFINE ls == {l \in Linked : l.evidence = e /\ l.revision <= evidence[e]}
  <2>1. /\ Ready(s, "locking", "supersede evidence") /\ StartCascade(s, Citing(ls))
        /\ cmd.op = "supersede evidence" /\ VersionHolds(cmd)
    BY <1>3 DEF SupersedeEvidence, Ready
  <2>2. \A c \in Claim : \A l \in links[c] : Hits(cmd, l) => l \in ls
    BY <2>1 DEF Hits
  <2>3. cmd.seen = <<evidence[cmd.evidence]>>
    BY <2>1 DEF VersionHolds, Versioned, ClaimOps
  <2>4. cmd.seen[1] = evidence[cmd.evidence]
    BY <2>3
  <2>5. evidence[cmd.evidence] < MaxRevision
    BY <1>1, <2>1, <2>4 DEF Meant
  <2> HIDE DEF cmd, ls
  <2>6. Lists(cmd, Citing(ls)) /\ Checked(cmd)
    BY <2>1, <2>2, <2>5, CitingLists DEF Checked
  <2> QED
    BY <2>1, <2>6, CitingAreClaims, CascadeStep DEF ClaimOps, cmd
<1>4. CASE AppendEvent(s)
  <2>1. /\ Ready(s, "locking", "append event") /\ StartCascade(s, HitByEvent(cmd))
        /\ cmd.op = "append event"
    BY <1>4 DEF AppendEvent, Ready
  <2>2. cmd.outcome \in Outcome
    BY <1>1, <2>1 DEF Meant
  <2> HIDE DEF cmd
  <2>3. Lists(cmd, HitByEvent(cmd)) /\ HitByEvent(cmd) \in SUBSET Claim
    <3>1. CASE cmd.outcome = "disputed"
      <4> DEFINE ls == {l \in Linked : l.evidence = cmd.evidence /\ l.revision = cmd.revision}
      <4>1. HitByEvent(cmd) = Citing(ls)
        BY <3>1 DEF HitByEvent
      <4>2. \A c \in Claim : \A l \in links[c] : Hits(cmd, l) => l \in ls
        BY <2>1, <3>1 DEF Hits
      <4> HIDE DEF ls
      <4> QED
        BY <4>1, <4>2, CitingLists, CitingAreClaims
    <3>2. CASE cmd.outcome = "withdrawn"
      <4> DEFINE ls == {l \in Linked : \/ l.event = cmd.event
                                       \/ l.report # 0 /\ report.lab[l.report] = cmd.event}
      <4>1. HitByEvent(cmd) = Citing(ls)
        BY <3>2 DEF HitByEvent
      <4>2. \A c \in Claim : \A l \in links[c] : Hits(cmd, l) => l \in ls
        <5> SUFFICES ASSUME NEW c \in Claim, NEW l \in links[c], Hits(cmd, l) PROVE l \in ls
          OBVIOUS
        <5>1. l.event = cmd.event \/ (l.kind = "measurement" /\ report.lab[l.report] = cmd.event)
          BY <2>1, <3>2 DEF Hits
        <5>2. l.kind = "measurement" => l.report # 0
          BY <1>1, Numbers DEF Sound
        <5> QED
          BY <5>1, <5>2
      <4> HIDE DEF ls
      <4> QED
        BY <4>1, <4>2, CitingLists, CitingAreClaims
    <3>3. CASE cmd.outcome = "verified"
      <4>1. HitByEvent(cmd) = {}
        BY <3>3 DEF HitByEvent
      <4>2. \A l : ~Hits(cmd, l)
        BY <2>1, <3>3 DEF Hits
      <4> QED
        BY <4>1, <4>2 DEF Lists
    <3> QED
      BY <2>2, <3>1, <3>2, <3>3 DEF Outcome
  <2>4. Checked(cmd)
    BY <2>1 DEF Checked
  <2> QED
    BY <2>1, <2>3, <2>4, CascadeStep DEF ClaimOps, cmd
<1> QED
  BY <1>2, <1>3, <1>4

LEMMA ReportCascades ==
  ASSUME ClaimsInv, NEW s \in Session,
         SupersedeReport(s) \/ ReviewReport(s) \/ ArchiveReport(s)
  PROVE  ClaimsInv'
<1> DEFINE cmd == session[s].cmd
<1> USE LinksAreLinked
<1>1. /\ Meant(cmd) /\ \A c \in Claim : \A l \in links[c] : l.kind = "measurement" => l.report # 0
  BY Numbers DEF ClaimsInv, Fine, Registers, ClaimsSound, Sound
<1>2. CASE SupersedeReport(s)
  <2> DEFINE ls == {l \in Linked : l.report # 0 /\ l.report <= report.revision}
  <2>1. /\ Ready(s, "locking", "supersede report") /\ StartCascade(s, Citing(ls))
        /\ cmd.op = "supersede report" /\ VersionHolds(cmd)
        /\ Lineage(cmd.revision, cmd.event)
    BY <1>2 DEF SupersedeReport, Ready
  <2>2. \A c \in Claim : \A l \in links[c] : Hits(cmd, l) => l \in ls
    BY <1>1, <2>1 DEF Hits
  <2>3. cmd.seen = <<report.revision, report.decision[report.revision], report.archived>>
    BY <2>1 DEF VersionHolds, Versioned, ClaimOps
  <2>4. cmd.seen[1] = report.revision
    BY <2>3
  <2>5. report.revision < MaxRevision
    BY <1>1, <2>1, <2>4 DEF Meant
  <2>6. LabSound(cmd.event)
    BY <2>1 DEF Lineage, LabSound, Verified
  <2> HIDE DEF cmd, ls
  <2>7. Lists(cmd, Citing(ls)) /\ Checked(cmd)
    BY <2>1, <2>2, <2>5, <2>6, CitingLists DEF Checked
  <2> QED
    BY <2>1, <2>7, CitingAreClaims, CascadeStep DEF ClaimOps, cmd
<1>3. CASE ReviewReport(s)
  <2>1. /\ Ready(s, "locking", "review report") /\ StartCascade(s, {})
        /\ cmd.op = "review report" /\ report.decision[report.revision] = "none"
    BY <1>3 DEF ReviewReport, Ready
  <2>2. \A l : ~Hits(cmd, l)
    BY <2>1 DEF Hits
  <2> HIDE DEF cmd
  <2>3. Lists(cmd, {}) /\ Checked(cmd) /\ {} \in SUBSET Claim
    BY <2>1, <2>2 DEF Lists, Checked
  <2> QED
    BY <2>1, <2>3, CascadeStep DEF ClaimOps, cmd
<1>4. CASE ArchiveReport(s)
  <2> DEFINE ls == {l \in Linked : l.report # 0}
  <2>1. /\ Ready(s, "locking", "archive report") /\ StartCascade(s, Citing(ls))
        /\ cmd.op = "archive report"
    BY <1>4 DEF ArchiveReport, Ready
  <2>2. \A c \in Claim : \A l \in links[c] : Hits(cmd, l) => l \in ls
    BY <1>1, <2>1 DEF Hits
  <2> HIDE DEF cmd, ls
  <2>3. Lists(cmd, Citing(ls)) /\ Checked(cmd)
    BY <2>1, <2>2, CitingLists DEF Checked
  <2> QED
    BY <2>1, <2>3, CitingAreClaims, CascadeStep DEF ClaimOps, cmd
<1> QED
  BY <1>2, <1>3, <1>4

-----------------------------------------------------------------------------
(* What a commit may do to the commands and the cascades of others.        *)

\* Events are there for ever.
EventsStay == \A i \in DOMAIN events : i \in DOMAIN events' /\ events'[i] = events[i]

\* A revision that is linked keeps its links, and revisions only grow.
RevisionsStay ==
  \A c \in Claim :
    /\ claim'[c].revision >= claim[c].revision
    /\ claim'[c].revision = claim[c].revision /\ claim[c].state \notin {"none", "draft"} =>
          links'[c] = links[c] /\ claim'[c].state \notin {"none", "draft"}

LEMMA MeantStays ==
  ASSUME Registers, Registers', EventsStay, RevisionsStay, NEW cmd \in CommandRecord, Meant(cmd)
  PROVE  Meant(cmd)'
<1>1. \A l : Sound(l) => Sound(l)'
  BY DEF Sound, EventsStay
<1>2. \A c \in Claim : claim[c].revision \in Nat /\ claim'[c].revision \in Nat
  BY DEF Registers, Types
<1>3. ASSUME cmd.op \in {"approve", "reject", "invalidate"} PROVE StillAsSeen(cmd)'
  <2>1. cmd.claim \in Claim /\ cmd.seen[1] \in Nat /\ StillAsSeen(cmd)
    BY <1>3 DEF Meant, ClaimOps
  <2> QED
    BY <1>2, <2>1 DEF StillAsSeen, RevisionsStay
<1> QED
  BY <1>1, <1>3 DEF Meant, NamesOrigin, EventsStay

\* Two transactions do not hold the same row, one of them for update.
LEMMA LocksConflict ==
  ASSUME NEW H, NEW K, Apart(H, K), NEW row, <<"update", row>> \in H
  PROVE  <<"update", row>> \notin K /\ <<"share", row>> \notin K
BY DEF Apart

\* A session that cascades, as another session may meet it.
CascadesBeside(v, s) ==
  v \in SessionRecord /\ Fine(v) /\ v.pc = "cascading" /\ Apart(v.held, session[s].held)

\* No cascade can hit what a transaction links that shares all it links to.
LEMMA LinkedAreSafe ==
  ASSUME NEW s \in Session, session[s].cmd.op = "link",
         MainLocks(session[s].cmd) \subseteq session[s].held,
         NEW l \in session[s].cmd.links, NEW v, CascadesBeside(v, s)
  PROVE  ~Hits(v.cmd, l)
<1> DEFINE K == session[s].held
<1>1. /\ <<"share", Parents>> \in K
      /\ \A row \in CitedRows(session[s].cmd.links) : <<"share", row>> \in K
  <2>1. MainLocks(session[s].cmd) =
          {<<"share", row>> : row \in {Parents} \cup CitedRows(session[s].cmd.links)}
    BY MainLocksOf
  <2> QED
    BY <2>1
<1>2. /\ <<"share", Source(l.evidence, l.revision)>> \in K
      /\ <<"share", Asset(l.evidence)>> \in K
      /\ l.kind = "measurement" => <<"share", Report>> \in K
      /\ l.kind = "visual" => <<"share", Reference>> \in K
  <2>1. /\ Source(l.evidence, l.revision) \in CitedRows(session[s].cmd.links)
        /\ Asset(l.evidence) \in CitedRows(session[s].cmd.links)
        /\ l.kind = "measurement" => Report \in CitedRows(session[s].cmd.links)
        /\ l.kind = "visual" => Reference \in CitedRows(session[s].cmd.links)
    BY DEF CitedRows
  <2> QED
    BY <1>1, <2>1
<1>3. /\ MainLocks(v.cmd) \subseteq v.held
      /\ \A row : <<"update", row>> \in v.held => <<"share", row>> \notin K
  BY LocksConflict DEF CascadesBeside, Fine, Fit
<1> HIDE DEF K
<1>4. v.cmd.op \notin {"archive sku", "archive batch", "append facts"}
  BY <1>1, <1>3, MainLocksOf
<1>5. v.cmd.op = "quarantine" => ~(l.evidence = v.cmd.evidence /\ l.revision = v.cmd.revision)
  BY <1>2, <1>3, MainLocksOf
<1>6. v.cmd.op \in {"supersede evidence", "append event"} => l.evidence # v.cmd.evidence
  BY <1>2, <1>3, MainLocksOf
<1>7. v.cmd.op \in ReportOps => l.kind # "measurement"
  BY <1>2, <1>3, MainLocksOf
<1>8. v.cmd.op = "archive reference" => l.kind # "visual"
  BY <1>2, <1>3, MainLocksOf
<1> QED
  BY <1>4, <1>5, <1>6, <1>7, <1>8 DEF Hits, ReportOps

-----------------------------------------------------------------------------
(* A command on a claim commits.                                           *)

\* An active claim has its links already, or no cascade can hit them.
ClaimsAreListed(s) ==
  \A c \in Claim : claim'[c].state \in Active =>
    \A l \in links'[c] :
      \/ claim[c].state \in Active /\ l \in links[c]
      \/ \A v : CascadesBeside(v, s) => ~Hits(v.cmd, l)

LEMMA ClaimCommits ==
  ASSUME ClaimsInv, NEW s \in Session, session' = [session EXCEPT ![s] = Idle],
         UNCHANGED <<parent, evidence, available, events, report, reference>>,
         claim' \in [Claim -> [revision : Nat, state : ClaimState]],
         links' \in [Claim -> SUBSET LinkRecord],
         ClaimsSound', RevisionsStay, ClaimsAreListed(s)
  PROVE  ClaimsInv'
<1>1. Registers'
  BY DEF ClaimsInv, Registers, Types, LabSound
<1>2. ASSUME NEW v \in SessionRecord, Fine(v), Apart(v.held, session[s].held) PROVE Fine(v)'
  <2>1. Meant(v.cmd)'
    <3>1. v.cmd \in CommandRecord /\ Meant(v.cmd) /\ Registers /\ EventsStay
      BY <1>2 DEF SessionRecord, Fine, ClaimsInv, EventsStay
    <3> QED
      BY <1>1, <3>1, MeantStays
  <2>2. Fit(v)' /\ (NamesOrigin(v.cmd) \/ Ordered(v))'
    BY <1>2 DEF Fine
  <2>3. Guarded(v)'
    BY <1>2 DEF Fine, Guarded, Checked, LabSound
  <2>4. ASSUME v.pc = "cascading" PROVE Lists(v.cmd, v.list)'
    <3>1. Lists(v.cmd, v.list) /\ CascadesBeside(v, s)
      BY <1>2, <2>4 DEF Fine, Listed, CascadesBeside
    <3>2. \A l : Hits(v.cmd, l)' <=> Hits(v.cmd, l)
      BY DEF Hits
    <3> SUFFICES ASSUME NEW c \in Claim, claim'[c].state \in Active,
                        NEW l \in links'[c], Hits(v.cmd, l)
                 PROVE  c \in v.list
      BY <3>2 DEF Lists
    <3> QED
      BY <3>1 DEF ClaimsAreListed, Lists
  <2>5. Listed(v)'
    BY <2>4 DEF Listed
  <2> QED
    BY <2>1, <2>2, <2>3, <2>5 DEF Fine
<1>3. \A u \in Session : Apart(Idle.held, session[u].held)
  BY DEF Apart, Idle
<1> QED
  BY <1>1, <1>2, <1>3, IdleIsFine, OneSessionMoves

\* What a command on a claim finds.
LEMMA ReadyFacts ==
  ASSUME ClaimsInv, NEW s \in Session, NEW op \in ClaimOps \cup {"create"},
         Ready(s, "locking", op)
  PROVE  /\ session[s].cmd.op = op /\ session[s].cmd.claim \in Claim
         /\ session[s].cmd.links \in SUBSET LinkRecord
         /\ \A l \in session[s].cmd.links : Sound(l)
         /\ MainLocks(session[s].cmd) \subseteq session[s].held
         /\ \A c \in Claim :
               /\ claim[c] \in [revision : Nat, state : ClaimState]
               /\ links[c] \in SUBSET LinkRecord /\ \A l \in links[c] : Sound(l)
               /\ claim[c].state \in {"none", "draft"} => links[c] = {}
               /\ claim[c].state = "none" <=> claim[c].revision = 0
<1>1. /\ session[s].cmd.op = op /\ session[s].todo = <<>> /\ session[s].pc = "locking"
      /\ Fine(session[s]) /\ session[s] \in SessionRecord
  BY DEF Ready, ClaimsInv
<1>2. MainLocks(session[s].cmd) \subseteq session[s].held
  <2>1. Elements(session[s].todo) = {}
    <3>1. DOMAIN session[s].todo = {}
      BY <1>1
    <3> QED
      BY <3>1, Zenon DEF Elements
  <2> QED
    BY <1>1, <2>1 DEF Fine, Fit
<1>3. /\ session[s].cmd.claim \in Claim /\ session[s].cmd.links \in SUBSET LinkRecord
      /\ \A l \in session[s].cmd.links : Sound(l)
  BY <1>1 DEF Fine, Meant, SessionRecord, CommandRecord
<1> QED
  BY <1>1, <1>2, <1>3 DEF ClaimsInv, Registers, Types, ClaimsSound

LEMMA CreateStep == ASSUME ClaimsInv, NEW s \in Session, CreateClaim(s) PROVE ClaimsInv'
<1> DEFINE c == session[s].cmd.claim
<1>1. /\ c \in Claim /\ claim[c].state = "none" /\ claim[c].revision = 0 /\ links[c] = {}
      /\ Ready(s, "locking", "create")
  BY ReadyFacts DEF CreateClaim
<1> HIDE DEF c
<1>2. /\ claim' = [claim EXCEPT ![c] = [revision |-> 1, state |-> "draft"]]
      /\ session' = [session EXCEPT ![s] = Idle]
      /\ UNCHANGED <<parent, evidence, available, events, report, reference, links>>
  BY DEF CreateClaim, Commit, End, c
<1>3. /\ claim \in [Claim -> [revision : Nat, state : ClaimState]]
      /\ links \in [Claim -> SUBSET LinkRecord] /\ ClaimsSound
  BY DEF ClaimsInv, Registers, Types
<1>4. claim' \in [Claim -> [revision : Nat, state : ClaimState]]
  BY <1>1, <1>2, <1>3 DEF ClaimState
<1>5. /\ claim'[c].revision = 1 /\ claim'[c].state = "draft"
      /\ \A d \in Claim \ {c} : claim'[d] = claim[d]
  BY <1>1, <1>2, <1>3
<1>6. ClaimsSound'
  BY <1>1, <1>2, <1>3, <1>5 DEF ClaimsSound, Sound
<1>7. RevisionsStay
  BY <1>1, <1>2, <1>3, <1>5 DEF RevisionsStay
<1>8. ClaimsAreListed(s)
  BY <1>2, <1>5 DEF ClaimsAreListed, Active
<1> QED
  BY <1>2, <1>3, <1>4, <1>6, <1>7, <1>8, ClaimCommits

LEMMA ReviseStep == ASSUME ClaimsInv, NEW s \in Session, AppendRevision(s) PROVE ClaimsInv'
<1> DEFINE c == session[s].cmd.claim
<1>1. c \in Claim /\ claim[c].revision \in Nat
  BY ReadyFacts DEF AppendRevision, ClaimOps
<1> HIDE DEF c
<1>2. /\ claim' = [claim EXCEPT ![c] = [revision |-> claim[c].revision + 1, state |-> "draft"]]
      /\ links' = [links EXCEPT ![c] = {}]
      /\ session' = [session EXCEPT ![s] = Idle]
      /\ UNCHANGED <<parent, evidence, available, events, report, reference>>
  BY <1>1 DEF AppendRevision, Commit, End, c
<1>3. /\ claim \in [Claim -> [revision : Nat, state : ClaimState]]
      /\ links \in [Claim -> SUBSET LinkRecord] /\ ClaimsSound
  BY DEF ClaimsInv, Registers, Types
<1>4. /\ claim' \in [Claim -> [revision : Nat, state : ClaimState]]
      /\ links' \in [Claim -> SUBSET LinkRecord]
  BY <1>1, <1>2, <1>3 DEF ClaimState
<1>5. /\ claim'[c].revision = claim[c].revision + 1 /\ claim'[c].state = "draft" /\ links'[c] = {}
      /\ \A d \in Claim \ {c} : claim'[d] = claim[d] /\ links'[d] = links[d]
  BY <1>1, <1>2, <1>3
<1>6. ClaimsSound'
  BY <1>1, <1>2, <1>3, <1>5 DEF ClaimsSound, Sound
<1>7. RevisionsStay
  BY <1>1, <1>3, <1>5 DEF RevisionsStay
<1>8. ClaimsAreListed(s)
  BY <1>5 DEF ClaimsAreListed, Active
<1> QED
  BY <1>2, <1>4, <1>6, <1>7, <1>8, ClaimCommits

LEMMA LinkStep == ASSUME ClaimsInv, NEW s \in Session, LinkEvidence(s) PROVE ClaimsInv'
<1> DEFINE c == session[s].cmd.claim
           ls == session[s].cmd.links
<1>1. /\ c \in Claim /\ claim[c].state = "draft" /\ claim[c].revision \in Nat
      /\ claim[c].revision # 0 /\ ls \in SUBSET LinkRecord /\ \A l \in ls : Sound(l)
      /\ session[s].cmd.op = "link" /\ MainLocks(session[s].cmd) \subseteq session[s].held
  BY ReadyFacts DEF LinkEvidence, ClaimOps
<1>9. \A l \in ls : \A v : CascadesBeside(v, s) => ~Hits(v.cmd, l)
  BY <1>1, LinkedAreSafe
<1>2. /\ claim' = [claim EXCEPT ![c].state = "evidence_linked"]
      /\ links' = [links EXCEPT ![c] = ls]
      /\ session' = [session EXCEPT ![s] = Idle]
      /\ UNCHANGED <<parent, evidence, available, events, report, reference>>
  BY DEF LinkEvidence, Commit, End
<1> HIDE DEF c, ls
<1>3. /\ claim \in [Claim -> [revision : Nat, state : ClaimState]]
      /\ links \in [Claim -> SUBSET LinkRecord] /\ ClaimsSound
  BY DEF ClaimsInv, Registers, Types
<1>4. /\ claim' \in [Claim -> [revision : Nat, state : ClaimState]]
      /\ links' \in [Claim -> SUBSET LinkRecord]
  BY <1>1, <1>2, <1>3 DEF ClaimState, Active
<1>5. /\ claim'[c].revision = claim[c].revision /\ claim'[c].state = "evidence_linked"
      /\ links'[c] = ls
      /\ \A d \in Claim \ {c} : claim'[d] = claim[d] /\ links'[d] = links[d]
  BY <1>1, <1>2, <1>3
<1>6. ClaimsSound'
  BY <1>1, <1>2, <1>3, <1>5 DEF ClaimsSound, Sound
<1>7. RevisionsStay
  BY <1>1, <1>3, <1>5 DEF RevisionsStay
<1>8. ClaimsAreListed(s)
  BY <1>5, <1>9 DEF ClaimsAreListed
<1> QED
  BY <1>2, <1>4, <1>6, <1>7, <1>8, ClaimCommits

LEMMA StateStep ==
  ASSUME ClaimsInv, NEW s \in Session, NEW op \in ClaimOps, Ready(s, "locking", op),
         claim[session[s].cmd.claim].state \in Active,
         NEW state \in {"reviewer_approved", "rejected", "invalidated"}, SetState(s, state)
  PROVE  ClaimsInv'
<1> DEFINE c == session[s].cmd.claim
<1>1. /\ c \in Claim /\ claim[c].state \in Active /\ claim[c].revision \in Nat
      /\ claim[c].revision # 0
  BY ReadyFacts DEF Active
<1>2. /\ claim' = [claim EXCEPT ![c].state = state]
      /\ session' = [session EXCEPT ![s] = Idle]
      /\ UNCHANGED <<parent, evidence, available, events, report, reference, links>>
  BY DEF SetState, Commit, End
<1> HIDE DEF c
<1>3. /\ claim \in [Claim -> [revision : Nat, state : ClaimState]]
      /\ links \in [Claim -> SUBSET LinkRecord] /\ ClaimsSound
  BY DEF ClaimsInv, Registers, Types
<1>4. claim' \in [Claim -> [revision : Nat, state : ClaimState]]
  BY <1>1, <1>2, <1>3 DEF ClaimState, Active
<1>5. /\ claim'[c].revision = claim[c].revision /\ claim'[c].state = state
      /\ \A d \in Claim \ {c} : claim'[d] = claim[d]
  BY <1>1, <1>2, <1>3
<1>6. ClaimsSound'
  BY <1>1, <1>2, <1>3, <1>5 DEF ClaimsSound, Sound
<1>7. RevisionsStay
  BY <1>1, <1>2, <1>3, <1>5 DEF RevisionsStay
<1>8. ClaimsAreListed(s)
  BY <1>1, <1>2, <1>5 DEF ClaimsAreListed
<1> QED
  BY <1>2, <1>3, <1>4, <1>6, <1>7, <1>8, ClaimCommits

LEMMA ReviewStep ==
  ASSUME ClaimsInv, NEW s \in Session, Approve(s) \/ Reject(s) \/ Invalidate(s)
  PROVE  ClaimsInv'
<1>1. CASE Approve(s)
  BY <1>1, StateStep DEF Approve, HeadIs, ClaimOps, Active
<1>2. CASE Reject(s)
  BY <1>2, StateStep DEF Reject, HeadIs, ClaimOps, Active
<1>3. CASE Invalidate(s)
  BY <1>3, StateStep DEF Invalidate, HeadIs, ClaimOps
<1> QED
  BY <1>1, <1>2, <1>3

-----------------------------------------------------------------------------
(* A change of dependencies commits, with its cascade.                     *)

\* The change hits nothing that the cascade of another has missed, and leaves
\* what another has checked.
CascadesStay(s) ==
  \A v : CascadesBeside(v, s) =>
    /\ \A l \in LinkRecord : Sound(l) /\ Hits(v.cmd, l)' => Hits(v.cmd, l)
    /\ Checked(v.cmd)'

LEMMA ChangeCommits ==
  ASSUME ClaimsInv, NEW s \in Session, NEW op, CommitChange(s, op),
         parent' \in [sku : BOOLEAN, batch : BOOLEAN, facts : Revision],
         evidence' \in [Evidence -> Revision],
         available' \in [Evidence -> [Revision -> BOOLEAN]],
         events' \in Seq(EventRecord), report' \in ReportRecord, reference' \in BOOLEAN,
         EventsStay, \A r \in Revision : LabSound(report.lab[r])',
         CascadesStay(s)
  PROVE  ClaimsInv'
<1>1. /\ session' = [session EXCEPT ![s] = Idle] /\ links' = links
      /\ claim' = [c \in Claim |-> IF c \in session[s].list /\ claim[c].state \in Active
                                   THEN [claim[c] EXCEPT !.state = "invalidated"] ELSE claim[c]]
  BY DEF CommitChange, Commit, End
<1>2. /\ claim \in [Claim -> [revision : Nat, state : ClaimState]]
      /\ links \in [Claim -> SUBSET LinkRecord] /\ ClaimsSound
  BY DEF ClaimsInv, Registers, Types
<1>3. \A c \in Claim : /\ claim'[c].revision = claim[c].revision
                       /\ \/ claim'[c].state = claim[c].state
                          \/ claim'[c].state = "invalidated" /\ claim[c].state \in Active
  BY <1>1, <1>2
<1>4. claim' \in [Claim -> [revision : Nat, state : ClaimState]]
  <2>1. \A c \in Claim : [claim[c] EXCEPT !.state = "invalidated"]
                            \in [revision : Nat, state : ClaimState]
    BY <1>2 DEF ClaimState
  <2> QED
    BY <1>1, <1>2, <2>1
<1>5. ClaimsSound'
  <2>1. \A l : Sound(l) => Sound(l)'
    BY DEF Sound, EventsStay
  <2> SUFFICES ASSUME NEW c \in Claim
               PROVE  /\ \A l \in links[c] : Sound(l)'
                      /\ claim'[c].state \in {"none", "draft"} => links[c] = {}
                      /\ claim'[c].state = "none" <=> claim'[c].revision = 0
    BY <1>1 DEF ClaimsSound
  <2> QED
    BY <1>2, <1>3, <2>1 DEF ClaimsSound, Active
<1>6. Registers'
  BY <1>1, <1>2, <1>4, <1>5 DEF Registers, Types
<1>7. RevisionsStay
  BY <1>1, <1>2, <1>3 DEF RevisionsStay
<1>8. ASSUME NEW v \in SessionRecord, Fine(v), Apart(v.held, session[s].held) PROVE Fine(v)'
  <2>1. Meant(v.cmd)'
    <3>1. v.cmd \in CommandRecord /\ Meant(v.cmd) /\ Registers
      BY <1>8 DEF SessionRecord, Fine, ClaimsInv
    <3> QED
      BY <1>6, <1>7, <3>1, MeantStays
  <2>2. Fit(v)' /\ (NamesOrigin(v.cmd) \/ Ordered(v))'
    BY <1>8 DEF Fine
  <2>3. ASSUME v.pc = "cascading" PROVE Lists(v.cmd, v.list)' /\ Checked(v.cmd)'
    <3>1. Lists(v.cmd, v.list) /\ CascadesBeside(v, s)
      BY <1>8, <2>3 DEF Fine, Listed, CascadesBeside
    <3>2. \A l \in LinkRecord : Sound(l) /\ Hits(v.cmd, l)' => Hits(v.cmd, l)
      BY <3>1 DEF CascadesStay
    <3>3. ASSUME NEW c \in Claim, claim'[c].state \in Active,
                 NEW l \in links[c], Hits(v.cmd, l)'
          PROVE  c \in v.list
      <4>1. claim[c].state \in Active
        BY <1>3, <3>3 DEF Active
      <4>2. Sound(l) /\ l \in LinkRecord
        BY <1>2 DEF ClaimsSound
      <4> QED
        BY <3>1, <3>2, <3>3, <4>1, <4>2 DEF Lists
    <3>4. Lists(v.cmd, v.list)'
      BY <1>1, <3>3 DEF Lists
    <3> QED
      BY <3>1, <3>4 DEF CascadesStay
  <2>4. Listed(v)' /\ Guarded(v)'
    BY <2>3 DEF Listed, Guarded
  <2> QED
    BY <2>1, <2>2, <2>4 DEF Fine
<1>9. \A u \in Session : Apart(Idle.held, session[u].held)
  BY DEF Apart, Idle
<1> QED
  BY <1>1, <1>6, <1>8, <1>9, IdleIsFine, OneSessionMoves

\* What a committing change holds, and what it has checked.
LEMMA CommittingFacts ==
  ASSUME ClaimsInv, NEW s \in Session, NEW op, CommitChange(s, op)
  PROVE  /\ session[s].pc = "cascading" /\ session[s].cmd.op = op /\ Meant(session[s].cmd)
         /\ session[s].cmd \in CommandRecord
         /\ MainLocks(session[s].cmd) \subseteq session[s].held
         /\ Checked(session[s].cmd) /\ Lists(session[s].cmd, session[s].list)
         /\ session[s].list \in SUBSET Claim
         /\ Types /\ \A r \in Revision : LabSound(report.lab[r])
BY DEF CommitChange, Ready, ClaimsInv, Registers, Fine, Fit, Listed, Guarded, SessionRecord

\* Nobody cascades beside it with the same row for update.
LEMMA RowsAreExclusive ==
  ASSUME NEW s \in Session, NEW row, <<"update", row>> \in session[s].held,
         NEW v, CascadesBeside(v, s)
  PROVE  <<"update", row>> \notin MainLocks(v.cmd)
BY DEF CascadesBeside, Apart, Fine, Fit

LEMMA RevisionsGoOn == \A r \in Revision : r < MaxRevision => r + 1 \in Revision
<1> SUFFICES ASSUME NEW r \in 1..MaxRevision, r < MaxRevision PROVE r + 1 \in 1..MaxRevision
  BY DEF Revision
<1> QED
  BY Numbers

LEMMA ParentCommits ==
  ASSUME ClaimsInv, NEW s \in Session, SkuArchived(s) \/ BatchArchived(s) \/ FactsAppended(s)
  PROVE  ClaimsInv'
<1>1. PICK op \in {"archive sku", "archive batch", "append facts"} :
        /\ CommitChange(s, op) /\ UNCHANGED <<evidence, available, events, report, reference>>
        /\ \/ op = "archive sku" /\ parent' = [parent EXCEPT !.sku = TRUE]
           \/ op = "archive batch" /\ parent' = [parent EXCEPT !.batch = TRUE]
           \/ op = "append facts" /\ parent' = [parent EXCEPT !.facts = parent.facts + 1]
  BY DEF SkuArchived, BatchArchived, FactsAppended,ClaimsInv, Registers, Types
<1>2. /\ session[s].cmd.op = op /\ Checked(session[s].cmd) /\ Types
      /\ <<"update", Parents>> \in session[s].held
      /\ \A r \in Revision : LabSound(report.lab[r])
  <2>1. /\ session[s].cmd.op = op /\ Checked(session[s].cmd) /\ Types
        /\ MainLocks(session[s].cmd) \subseteq session[s].held
        /\ \A r \in Revision : LabSound(report.lab[r])
    BY <1>1, CommittingFacts
  <2>2. MainLocks(session[s].cmd) = {<<"update", Parents>>}
    BY <2>1, MainLocksOf
  <2> QED
    BY <2>1, <2>2
<1>3. parent' \in [sku : BOOLEAN, batch : BOOLEAN, facts : Revision]
  <2>1. parent \in [sku : BOOLEAN, batch : BOOLEAN, facts : Revision]
    BY <1>2 DEF Types
  <2>2. op = "append facts" => parent.facts + 1 \in Revision
    <3>1. parent.facts \in Revision
      BY <2>1
    <3>2. op = "append facts" => parent.facts < MaxRevision
      BY <1>2 DEF Checked
    <3> QED
      BY <3>1, <3>2, RevisionsGoOn
  <2> QED
    BY <1>1, <2>1, <2>2
<1>4. CascadesStay(s)
  <2> SUFFICES ASSUME NEW v, CascadesBeside(v, s)
               PROVE  /\ \A l \in LinkRecord : Sound(l) /\ Hits(v.cmd, l)' => Hits(v.cmd, l)
                      /\ Checked(v.cmd)'
    BY DEF CascadesStay
  <2>1. v.cmd.op # "append facts"
    <3>1. <<"update", Parents>> \notin MainLocks(v.cmd)
      BY <1>2, RowsAreExclusive
    <3>2. v.cmd.op = "append facts" => MainLocks(v.cmd) = {<<"update", Parents>>}
      BY MainLocksOf
    <3> QED
      BY <3>1, <3>2
  <2>2. Checked(v.cmd)
    BY DEF CascadesBeside, Fine, Guarded
  <2> QED
    BY <1>1, <2>1, <2>2 DEF Hits, Checked, LabSound
<1>5. EventsStay /\ \A r \in Revision : LabSound(report.lab[r])'
  BY <1>1, <1>2 DEF EventsStay, LabSound
<1> QED
  BY <1>1, <1>2, <1>3, <1>4, <1>5, ChangeCommits DEF Types

LEMMA EvidenceCommits ==
  ASSUME ClaimsInv, NEW s \in Session, Quarantined(s) \/ EvidenceSuperseded(s)
  PROVE  ClaimsInv'
<1> DEFINE e == session[s].cmd.evidence
           r == session[s].cmd.revision
<1>1. CASE Quarantined(s)
  <2>1. /\ CommitChange(s, "quarantine") /\ available' = [available EXCEPT ![e][r] = FALSE]
        /\ UNCHANGED <<parent, evidence, events, report, reference>>
    BY <1>1 DEF Quarantined
  <2>2. /\ Types /\ \A x \in Revision : LabSound(report.lab[x])
        /\ e \in Evidence /\ r \in Revision
    BY <2>1, CommittingFacts DEF Meant, EvidenceOps
  <2>3. available' \in [Evidence -> [Revision -> BOOLEAN]]
    BY <2>1, <2>2 DEF Types
  <2>4. \A x \in Evidence, y \in Revision : available'[x][y] => available[x][y]
    BY <2>1, <2>2 DEF Types
  <2>5. CascadesStay(s)
    <3> SUFFICES ASSUME NEW v, CascadesBeside(v, s)
                 PROVE  /\ \A l \in LinkRecord : Sound(l) /\ Hits(v.cmd, l)' => Hits(v.cmd, l)
                        /\ Checked(v.cmd)'
      BY DEF CascadesStay
    <3>1. Checked(v.cmd) /\ Meant(v.cmd)
      BY DEF CascadesBeside, Fine, Guarded
    <3>2. v.cmd.op = "quarantine" => v.cmd.evidence \in Evidence /\ v.cmd.revision \in Revision
      BY <3>1 DEF Meant, EvidenceOps
    <3>3. Checked(v.cmd)'
      BY <2>1, <3>1 DEF Checked, LabSound
    <3> QED
      BY <2>1, <2>4, <3>2, <3>3 DEF Hits
  <2>6. EventsStay /\ \A x \in Revision : LabSound(report.lab[x])'
    BY <2>1, <2>2 DEF EventsStay, LabSound
  <2> QED
    BY <2>1, <2>2, <2>3, <2>5, <2>6, ChangeCommits DEF Types
<1>2. CASE EvidenceSuperseded(s)
  <2>1. /\ CommitChange(s, "supersede evidence")
        /\ evidence' = [evidence EXCEPT ![e] = evidence[e] + 1]
        /\ UNCHANGED <<parent, available, events, report, reference>>
    BY <1>2 DEF EvidenceSuperseded
  <2>2. /\ Types /\ \A x \in Revision : LabSound(report.lab[x])
        /\ e \in Evidence /\ evidence[e] < MaxRevision
        /\ <<"update", Asset(e)>> \in session[s].held
    <3>1. /\ session[s].cmd.op = "supersede evidence" /\ Meant(session[s].cmd)
          /\ Types /\ \A x \in Revision : LabSound(report.lab[x])
          /\ MainLocks(session[s].cmd) \subseteq session[s].held /\ Checked(session[s].cmd)
      BY <2>1, CommittingFacts
    <3>2. MainLocks(session[s].cmd) = {<<"update", Asset(e)>>}
      BY <3>1, MainLocksOf
    <3> QED
      BY <3>1, <3>2 DEF Meant, EvidenceOps, Checked
  <2>3. evidence' \in [Evidence -> Revision]
    <3>1. evidence[e] + 1 \in Revision
      BY <2>2, RevisionsGoOn DEF Types
    <3> QED
      BY <2>1, <2>2, <3>1 DEF Types
  <2>4. \A x \in Evidence \ {e} : evidence'[x] = evidence[x]
    BY <2>1, <2>2 DEF Types
  <2> HIDE DEF e
  <2>5. CascadesStay(s)
    <3> SUFFICES ASSUME NEW v, CascadesBeside(v, s)
                 PROVE  /\ \A l \in LinkRecord : Sound(l) /\ Hits(v.cmd, l)' => Hits(v.cmd, l)
                        /\ Checked(v.cmd)'
      BY DEF CascadesStay
    <3>1. Checked(v.cmd) /\ Meant(v.cmd)
      BY DEF CascadesBeside, Fine, Guarded
    <3>2. v.cmd.op = "supersede evidence" => v.cmd.evidence \in Evidence \ {e}
      <4> SUFFICES ASSUME v.cmd.op = "supersede evidence"
                   PROVE  v.cmd.evidence \in Evidence \ {e}
        OBVIOUS
      <4>1. MainLocks(v.cmd) = {<<"update", Asset(v.cmd.evidence)>>}
        BY MainLocksOf
      <4>2. <<"update", Asset(e)>> \notin MainLocks(v.cmd)
        BY <2>2, RowsAreExclusive
      <4> QED
        BY <3>1, <4>1, <4>2 DEF Meant, EvidenceOps
    <3>3. Checked(v.cmd)'
      BY <2>1, <2>4, <3>1, <3>2 DEF Checked, LabSound
    <3> QED
      BY <2>1, <2>4, <3>2, <3>3 DEF Hits
  <2>6. EventsStay /\ \A x \in Revision : LabSound(report.lab[x])'
    BY <2>1, <2>2 DEF EventsStay, LabSound
  <2> QED
    BY <2>1, <2>2, <2>3, <2>5, <2>6, ChangeCommits DEF Types
<1> QED
  BY <1>1, <1>2

LEMMA AppendKeeps ==
  ASSUME NEW S, NEW q \in Seq(S), NEW x \in S
  PROVE  /\ Append(q, x) \in Seq(S) /\ DOMAIN q \subseteq DOMAIN Append(q, x)
         /\ \A i \in DOMAIN q : Append(q, x)[i] = q[i]
<1>1. Append(q, x) \in Seq(S) /\ Len(Append(q, x)) = Len(q) + 1 /\ Len(q) \in Nat
  OBVIOUS
<1>2. DOMAIN q = 1..Len(q) /\ DOMAIN Append(q, x) = 1..(Len(q) + 1)
  BY <1>1
<1> QED
  BY <1>1, <1>2

LEMMA EventCommits == ASSUME ClaimsInv, NEW s \in Session, EventAppended(s) PROVE ClaimsInv'
<1> DEFINE cmd == session[s].cmd
           x == [evidence |-> cmd.evidence, revision |-> cmd.revision,
                 outcome |-> cmd.outcome, of |-> cmd.event]
<1>1. /\ CommitChange(s, "append event") /\ events' = Append(events, x)
      /\ UNCHANGED <<parent, evidence, available, report, reference>>
  BY DEF EventAppended
<1>2. /\ Types /\ \A r \in Revision : LabSound(report.lab[r])
      /\ Meant(cmd) /\ cmd \in CommandRecord /\ cmd.op = "append event"
  BY <1>1, CommittingFacts
<1>3. x \in EventRecord
  BY <1>2 DEF Meant, EvidenceOps, CommandRecord, EventRecord
<1> HIDE DEF x, cmd
<1>4. events \in Seq(EventRecord)
  BY <1>2 DEF Types
<1>5. /\ events' \in Seq(EventRecord)
      /\ DOMAIN events \subseteq DOMAIN events'
      /\ \A i \in DOMAIN events : events'[i] = events[i]
  <2>1. /\ Append(events, x) \in Seq(EventRecord)
        /\ DOMAIN events \subseteq DOMAIN Append(events, x)
        /\ \A i \in DOMAIN events : Append(events, x)[i] = events[i]
    BY <1>3, <1>4, AppendKeeps
  <2> QED
    BY <1>1, <2>1, Zenon
<1>6. EventsStay
  BY <1>5 DEF EventsStay
<1>7. \A v : LabSound(v) => LabSound(v)'
  BY <1>6 DEF LabSound, EventsStay
<1>8. CascadesStay(s)
  <2> SUFFICES ASSUME NEW v, CascadesBeside(v, s)
               PROVE  /\ \A l \in LinkRecord : Sound(l) /\ Hits(v.cmd, l)' => Hits(v.cmd, l)
                      /\ Checked(v.cmd)'
    BY DEF CascadesStay
  <2>1. Checked(v.cmd)
    BY DEF CascadesBeside, Fine, Guarded
  <2>2. LabSound(v.cmd.event) => LabSound(v.cmd.event)'
    BY <1>7
  <2>3. Checked(v.cmd)'
    BY <1>1, <2>1, <2>2 DEF Checked
  <2> QED
    BY <1>1, <2>3 DEF Hits
<1>9. \A r \in Revision : LabSound(report.lab[r])'
  BY <1>1, <1>2, <1>7
<1> QED
  BY <1>1, <1>2, <1>5, <1>6, <1>8, <1>9, ChangeCommits DEF Types


\* A change of the report is beside no cascade that reads the report.
LEMMA ReportChange ==
  ASSUME ClaimsInv, NEW s \in Session, NEW op \in ReportOps, CommitChange(s, op),
         UNCHANGED <<parent, evidence, available, events, reference>>,
         report' \in ReportRecord, \A r \in Revision : LabSound(report'.lab[r])
  PROVE  ClaimsInv'
<1>1. /\ Types /\ session[s].cmd.op = op
      /\ MainLocks(session[s].cmd) \subseteq session[s].held
  BY CommittingFacts
<1>2. <<"update", Asset(1)>> \in session[s].held /\ <<"update", Report>> \in session[s].held
  <2>1. MainLocks(session[s].cmd) = {<<"update", Asset(1)>>, <<"update", Report>>}
    BY <1>1, MainLocksOf
  <2> QED
    BY <1>1, <2>1
<1>3. CascadesStay(s)
  <2> SUFFICES ASSUME NEW v, CascadesBeside(v, s)
               PROVE  /\ \A l \in LinkRecord : Sound(l) /\ Hits(v.cmd, l)' => Hits(v.cmd, l)
                      /\ Checked(v.cmd)'
    BY DEF CascadesStay
  <2>1. <<"update", Asset(1)>> \notin MainLocks(v.cmd) /\ <<"update", Report>> \notin MainLocks(v.cmd)
    BY <1>2, RowsAreExclusive
  <2>2. v.cmd.op \notin ReportOps
    BY <2>1, MainLocksOf
  <2>3. v.cmd.op = "append event" => v.cmd.evidence # 1
    BY <2>1, MainLocksOf
  <2>4. Checked(v.cmd)
    BY DEF CascadesBeside, Fine, Guarded
  <2>5. Checked(v.cmd)'
    BY <2>2, <2>4 DEF Checked, ReportOps
  <2>6. ASSUME NEW l \in LinkRecord, Sound(l), Hits(v.cmd, l)' PROVE Hits(v.cmd, l)
    <3>1. CASE v.cmd.op = "append event"
      <4>1. l.kind = "measurement" => l.evidence = 1
        BY <2>6 DEF Sound
      <4> QED
        BY <2>3, <2>6, <3>1, <4>1 DEF Hits
    <3>2. CASE v.cmd.op # "append event"
      BY <2>2, <2>6, <3>2 DEF Hits, ReportOps
    <3> QED
      BY <3>1, <3>2
  <2> QED
    BY <2>5, <2>6
<1>4. EventsStay
  BY DEF EventsStay
<1>5. \A r \in Revision : LabSound(report.lab[r])'
  BY DEF LabSound
<1> QED
  BY <1>1, <1>3, <1>4, <1>5, ChangeCommits DEF Types

LEMMA ReportCommits ==
  ASSUME ClaimsInv, NEW s \in Session,
         ReportSuperseded(s) \/ ReportReviewed(s) \/ ReportArchived(s)
  PROVE  ClaimsInv'
<1> DEFINE cmd == session[s].cmd
           r == report.revision + 1
<1>1. CASE ReportSuperseded(s)
  <2>1. /\ CommitChange(s, "supersede report")
        /\ UNCHANGED <<parent, evidence, available, events, reference>>
        /\ report' = [report EXCEPT !.revision = r, !.cites[r] = cmd.revision, !.lab[r] = cmd.event]
    BY <1>1 DEF ReportSuperseded
  <2>2. /\ cmd \in CommandRecord /\ cmd.op = "supersede report" /\ Meant(cmd) /\ Checked(cmd)
        /\ Types /\ \A x \in Revision : LabSound(report.lab[x])
    BY <2>1, CommittingFacts
  <2>3. /\ report \in ReportRecord /\ cmd.revision \in Revision /\ cmd.event \in Nat
        /\ report.revision < MaxRevision /\ LabSound(cmd.event)
    BY <2>2 DEF Types, Meant, Checked, CommandRecord
  <2>4. r \in Revision
    BY <2>3, RevisionsGoOn DEF ReportRecord
  <2> HIDE DEF cmd, r
  <2>5. report' \in ReportRecord
    BY <2>1, <2>3, <2>4 DEF ReportRecord
  <2>6. \A x \in Revision : report'.lab[x] = report.lab[x] \/ report'.lab[x] = cmd.event
    BY <2>1, <2>3, <2>4 DEF ReportRecord
  <2>7. \A x \in Revision : LabSound(report'.lab[x])
    BY <2>2, <2>3, <2>6
  <2> QED
    BY <2>1, <2>5, <2>7, ReportChange DEF ReportOps
<1>2. CASE ReportReviewed(s)
  <2>1. /\ CommitChange(s, "review report")
        /\ UNCHANGED <<parent, evidence, available, events, reference>>
        /\ report' = [report EXCEPT !.decision[report.revision] = cmd.outcome]
    BY <1>2 DEF ReportReviewed
  <2>2. /\ cmd.op = "review report" /\ Meant(cmd)
        /\ Types /\ \A x \in Revision : LabSound(report.lab[x])
    BY <2>1, CommittingFacts
  <2>3. report \in ReportRecord /\ cmd.outcome \in Decision
    BY <2>2 DEF Types, Meant
  <2> HIDE DEF cmd, r
  <2>4. report' \in ReportRecord /\ report'.lab = report.lab
    BY <2>1, <2>3 DEF ReportRecord
  <2> QED
    BY <2>1, <2>2, <2>4, ReportChange DEF ReportOps
<1>3. CASE ReportArchived(s)
  <2>1. /\ CommitChange(s, "archive report")
        /\ UNCHANGED <<parent, evidence, available, events, reference>>
        /\ report' = [report EXCEPT !.archived = TRUE]
    BY <1>3 DEF ReportArchived
  <2>2. Types /\ \A x \in Revision : LabSound(report.lab[x])
    BY <2>1, CommittingFacts
  <2>3. report' \in ReportRecord /\ report'.lab = report.lab
    BY <2>1, <2>2 DEF Types, ReportRecord
  <2> QED
    BY <2>1, <2>2, <2>3, ReportChange DEF ReportOps
<1> QED
  BY <1>1, <1>2, <1>3

LEMMA ReferenceCommits == ASSUME ClaimsInv, NEW s \in Session, ReferenceArchived(s) PROVE ClaimsInv'
<1>1. /\ CommitChange(s, "archive reference") /\ reference' = TRUE
      /\ UNCHANGED <<parent, evidence, available, events, report>>
  BY DEF ReferenceArchived
<1>2. Types /\ \A r \in Revision : LabSound(report.lab[r])
  BY <1>1, CommittingFacts
<1>3. CascadesStay(s)
  <2> SUFFICES ASSUME NEW v, CascadesBeside(v, s)
               PROVE  /\ \A l \in LinkRecord : Sound(l) /\ Hits(v.cmd, l)' => Hits(v.cmd, l)
                      /\ Checked(v.cmd)'
    BY DEF CascadesStay
  <2>1. Checked(v.cmd)
    BY DEF CascadesBeside, Fine, Guarded
  <2>2. Checked(v.cmd)'
    BY <1>1, <2>1 DEF Checked, LabSound
  <2> QED
    BY <1>1, <2>2 DEF Hits
<1>4. EventsStay /\ \A r \in Revision : LabSound(report.lab[r])'
  BY <1>1, <1>2 DEF EventsStay, LabSound
<1> QED
  BY <1>1, <1>2, <1>3, <1>4, ChangeCommits DEF Types

-----------------------------------------------------------------------------
(* The invariant.                                                          *)

LEMMA InitInv == Init => ClaimsInv
<1> SUFFICES ASSUME Init PROVE ClaimsInv
  OBVIOUS
<1>0. /\ 1 \in Revision /\ 1 \in Evidence /\ 0 \in Nat /\ Revision \subseteq Nat \ {0}
      /\ Cardinality(Evidence) \in Nat /\ Evidence = 1..Cardinality(Evidence)
  BY Numbers, ClaimsConstants, FS_CardinalityType
<1>1. /\ parent \in [sku : BOOLEAN, batch : BOOLEAN, facts : Revision]
      /\ evidence \in [Evidence -> Revision]
      /\ available \in [Evidence -> [Revision -> BOOLEAN]]
      /\ reference \in BOOLEAN
  BY <1>0 DEF Init
<1>2. events \in Seq(EventRecord) /\ DOMAIN events = Evidence /\ events[1].evidence = 1
  <2> DEFINE x(e) == [evidence |-> e, revision |-> 1, outcome |-> "verified", of |-> 0]
  <2>1. events = [e \in Evidence |-> x(e)] /\ \A e \in Evidence : x(e) \in EventRecord
    BY <1>0 DEF Init, EventRecord, Outcome
  <2>2. x(1).evidence = 1
    OBVIOUS
  <2> HIDE DEF x
  <2>3. events \in [1..Cardinality(Evidence) -> EventRecord]
    BY <1>0, <2>1
  <2>4. events \in Seq(EventRecord)
    BY <1>0, <2>3
  <2> QED
    BY <1>0, <2>1, <2>2, <2>4
<1>3. report \in ReportRecord /\ \A r \in Revision : report.lab[r] \in {0, 1}
  <2>1. PICK d \in {"none", "approved"} :
          report = [revision |-> 1, archived |-> FALSE, cites |-> [r \in Revision |-> 1],
                    lab |-> [r \in Revision |-> IF r = 1 THEN 1 ELSE 0],
                    decision |-> [r \in Revision |-> IF r = 1 THEN d ELSE "none"]]
    BY DEF Init
  <2>2. /\ [r \in Revision |-> 1] \in [Revision -> Revision]
        /\ [r \in Revision |-> IF r = 1 THEN 1 ELSE 0] \in [Revision -> Nat]
        /\ [r \in Revision |-> IF r = 1 THEN d ELSE "none"] \in [Revision -> Decision]
    BY <1>0 DEF Decision
  <2> QED
    BY <1>0, <2>1, <2>2 DEF ReportRecord
<1>4. \A r \in Revision : LabSound(report.lab[r])
  BY <1>0, <1>2, <1>3 DEF LabSound
<1>5. PICK given \in [Claim -> {"none", "draft", "evidence_linked"}] :
        /\ claim = [c \in Claim |-> [revision |-> IF given[c] = "none" THEN 0 ELSE 1,
                                    state |-> given[c]]]
        /\ links \in [Claim -> {{}} \cup LinkSets]
        /\ \A c \in Claim : IF given[c] = "evidence_linked" THEN SupportEligible(links[c])
                                                           ELSE links[c] = {}
  BY DEF Init
<1>6. \A ls \in {{}} \cup LinkSets : ls \in SUBSET LinkRecord /\ \A l \in ls : Sound(l)
  BY <1>1, <1>2, <1>3, OfferedAreSound
<1>7. /\ claim \in [Claim -> [revision : Nat, state : ClaimState]]
      /\ links \in [Claim -> SUBSET LinkRecord]
  BY <1>5, <1>6 DEF ClaimState, Active
<1>8. ClaimsSound
  <2> SUFFICES ASSUME NEW c \in Claim
               PROVE  /\ \A l \in links[c] : Sound(l)
                      /\ claim[c].state \in {"none", "draft"} => links[c] = {}
                      /\ claim[c].state = "none" <=> claim[c].revision = 0
    BY DEF ClaimsSound
  <2> QED
    BY <1>5, <1>6
<1>9. Registers
  BY <1>1, <1>2, <1>3, <1>4, <1>7, <1>8 DEF Registers, Types
<1>10. /\ session \in [Session -> SessionRecord]
       /\ \A s \in Session : session[s] = Idle
  BY IdleIsFine DEF Init
<1>11. Idle.held = {}
  BY DEF Idle
<1> QED
  BY <1>9, <1>10, <1>11, IdleIsFine DEF ClaimsInv, LocksApart, Apart

LEMMA NextInv == ClaimsInv /\ [Next]_vars => ClaimsInv'
<1>1. ASSUME ClaimsInv, UNCHANGED vars PROVE ClaimsInv'
  <2>1. UNCHANGED data /\ session' = session
    BY <1>1 DEF vars, data
  <2>2. Registers'
    BY <1>1, <2>1, RegistersStay DEF ClaimsInv
  <2>3. \A s \in Session : Fine(session[s]) /\ Fine(session'[s])
    BY <1>1, <2>1 DEF ClaimsInv
  <2>4. \A t : Fine(t) => Fine(t)'
    BY <2>1, FineStays
  <2>5. \A s \in Session : Fine(session[s])'
    BY <2>1, <2>3, <2>4
  <2> QED
    BY <1>1, <2>1, <2>2, <2>5 DEF ClaimsInv, LocksApart
<1>2. ASSUME ClaimsInv, NEW s \in Session, Forget(s) \/ RollBack(s) PROVE ClaimsInv'
  BY <1>2, EndStep DEF Forget, RollBack, End
<1>3. ASSUME ClaimsInv, NEW s \in Session,
             Issue(s) \/ Acquire(s) \/ \E u \in Session : Duplicate(s, u)
      PROVE  ClaimsInv'
  BY <1>3, IssueStep, AcquireStep, DuplicateStep
<1>4. ASSUME ClaimsInv, NEW s \in Session, ClaimStep(s) PROVE ClaimsInv'
  BY <1>4, BeginClaimStep, CreateStep, ReviseStep, LinkStep, ReviewStep DEF ClaimStep
<1>5. ASSUME ClaimsInv, NEW s \in Session, ProductStep(s) PROVE ClaimsInv'
  BY <1>5, BeginProductStep, BeginFactsStep, ProductCascades, ParentCommits, ReferenceCommits
     DEF ProductStep
<1>6. ASSUME ClaimsInv, NEW s \in Session, EvidenceStep(s) PROVE ClaimsInv'
  BY <1>6, BeginEvidenceStep, EvidenceCascades, EvidenceCommits, EventCommits DEF EvidenceStep
<1>7. ASSUME ClaimsInv, NEW s \in Session, ReportStep(s) PROVE ClaimsInv'
  BY <1>7, BeginReportStep, ReportCascades, ReportCommits DEF ReportStep
<1> QED
  BY <1>1, <1>2, <1>3, <1>4, <1>5, <1>6, <1>7 DEF Next

\* In every reachable state the lists of the cascades are complete, what was
\* checked under locks still holds, and locks that conflict have one owner.
THEOREM ClaimsInvariant == Spec => []ClaimsInv
<1> QED
  BY InitInv, NextInv, PTL DEF Spec

(* In every circle of waiting transactions one appends batch facts and names
   their origin: all others take their rows in the canonical order
   (docs/adr/0009, lines 273 and 287). *)
THEOREM DeadlocksNeedAnOrigin == Spec => []OnlyOriginsDeadlock
<1>1. ClaimsInv => OnlyOriginsDeadlock
  BY OrderlyDoNotDeadlock DEF OnlyOriginsDeadlock
<1> QED
  BY <1>1, ClaimsInvariant, PTL

-----------------------------------------------------------------------------
(* What a step changes, and who makes it.                                  *)

ClaimCommit(s) ==
    \/ CreateClaim(s) \/ AppendRevision(s) \/ LinkEvidence(s)
    \/ Approve(s) \/ Reject(s) \/ Invalidate(s)

ChangeCommit(s) ==
    \/ SkuArchived(s) \/ BatchArchived(s) \/ FactsAppended(s) \/ ReferenceArchived(s)
    \/ Quarantined(s) \/ EvidenceSuperseded(s) \/ EventAppended(s)
    \/ ReportSuperseded(s) \/ ReportReviewed(s) \/ ReportArchived(s)

OthersStay(s) == \A u \in Session \ {s} : session'[u] = session[u]

LEMMA OthersDoStay ==
  ASSUME ClaimsInv, NEW s \in Session
  PROVE  /\ \A receipted : End(s, receipted) => OthersStay(s)
         /\ \A op, locks : Begin(s, op, locks) => OthersStay(s) /\ UNCHANGED data
         /\ \A list : StartCascade(s, list) => OthersStay(s) /\ UNCHANGED data
         /\ Acquire(s) => OthersStay(s) /\ UNCHANGED data
         /\ Issue(s) => OthersStay(s) /\ UNCHANGED data
         /\ \A u : Duplicate(s, u) => OthersStay(s) /\ UNCHANGED data
<1>1. session \in [Session -> SessionRecord]
  BY DEF ClaimsInv
<1> QED
  BY <1>1 DEF End, Begin, StartCascade, Acquire, Issue, Duplicate, OthersStay

LEMMA StepCases ==
  ASSUME ClaimsInv, Next
  PROVE  \E s \in Session :
            OthersStay(s) /\ (UNCHANGED data \/ ClaimCommit(s) \/ ChangeCommit(s))
<1>1. ASSUME NEW s \in Session, ClaimStep(s)
      PROVE  OthersStay(s) /\ (UNCHANGED data \/ ClaimCommit(s))
  <2>1. ClaimCommit(s) => OthersStay(s)
    BY OthersDoStay DEF ClaimCommit, CreateClaim, AppendRevision, LinkEvidence, Approve, Reject,
                        Invalidate, SetState, Commit
  <2>2. ASSUME \/ BeginCreate(s) \/ BeginRevise(s) \/ BeginLink(s)
               \/ \E op \in {"approve", "reject", "invalidate"} : BeginOnLinked(s, op)
        PROVE  OthersStay(s) /\ UNCHANGED data
    BY <2>2, OthersDoStay DEF BeginCreate, BeginRevise, BeginLink, BeginOnLinked
  <2> QED
    BY <1>1, <2>1, <2>2 DEF ClaimStep, ClaimCommit
<1>2. ASSUME NEW s \in Session, ProductStep(s) \/ EvidenceStep(s) \/ ReportStep(s)
      PROVE  OthersStay(s) /\ (UNCHANGED data \/ ChangeCommit(s))
  <2>1. ChangeCommit(s) => OthersStay(s)
    <3>1. \A op : CommitChange(s, op) => OthersStay(s)
      BY OthersDoStay DEF CommitChange, Commit
    <3> QED
      BY <3>1 DEF ChangeCommit, SkuArchived, BatchArchived, FactsAppended, ReferenceArchived,
                  Quarantined, EvidenceSuperseded, EventAppended, ReportSuperseded,
                  ReportReviewed, ReportArchived
  <2>2. ASSUME \/ BeginArchiveSku(s) \/ BeginArchiveBatch(s) \/ BeginAppendFacts(s)
               \/ BeginArchiveReference(s) \/ BeginQuarantine(s) \/ BeginSupersede(s)
               \/ BeginAppendEvent(s) \/ BeginSupersedeReport(s) \/ BeginReviewReport(s)
               \/ BeginArchiveReport(s)
        PROVE  OthersStay(s) /\ UNCHANGED data
    BY <2>2, OthersDoStay DEF BeginArchiveSku, BeginArchiveBatch, BeginAppendFacts,
         BeginArchiveReference, BeginQuarantine, BeginSupersede, BeginAppendEvent,
         BeginSupersedeReport, BeginReviewReport, BeginArchiveReport
  <2>3. ASSUME \/ ArchiveSku(s) \/ ArchiveBatch(s) \/ AppendFacts(s) \/ ArchiveReference(s)
               \/ Quarantine(s) \/ SupersedeEvidence(s) \/ AppendEvent(s)
               \/ SupersedeReport(s) \/ ReviewReport(s) \/ ArchiveReport(s)
        PROVE  OthersStay(s) /\ UNCHANGED data
    <3>1. PICK list : StartCascade(s, list)
      BY <2>3 DEF ArchiveSku, ArchiveBatch, AppendFacts, ArchiveReference, Quarantine,
           SupersedeEvidence, AppendEvent, SupersedeReport, ReviewReport, ArchiveReport
    <3> QED
      BY <3>1, OthersDoStay
  <2> QED
    BY <1>2, <2>1, <2>2, <2>3 DEF ProductStep, EvidenceStep, ReportStep, ChangeCommit
<1>3. ASSUME NEW s \in Session,
             \/ Issue(s) \/ Forget(s) \/ Acquire(s) \/ RollBack(s)
             \/ \E u \in Session : Duplicate(s, u)
      PROVE  OthersStay(s) /\ UNCHANGED data
  BY <1>3, OthersDoStay DEF Forget, RollBack
<1> QED
  BY <1>1, <1>2, <1>3 DEF Next

LEMMA ChangesAreChanges ==
  ASSUME NEW s \in Session, ChangeCommit(s)
  PROVE  \E op : CommitChange(s, op)
BY DEF ChangeCommit, SkuArchived, BatchArchived, FactsAppended, ReferenceArchived,
       Quarantined, EvidenceSuperseded, EventAppended, ReportSuperseded, ReportReviewed,
       ReportArchived

(* A command with a receipt writes no data, whoever delivers it and whatever it
   was doing when the receipt came (docs/adr/0009, section 3.5). *)
THEOREM CommandsAreAppliedOnce == Spec => AppliedOnce
<1>1. ASSUME ClaimsInv, Next, NEW s \in Session,
             session[s].cmd.action \in receipts, session'[s] # session[s]
      PROVE  UNCHANGED data
  <2>1. PICK t \in Session :
          OthersStay(t) /\ (UNCHANGED data \/ ClaimCommit(t) \/ ChangeCommit(t))
    BY <1>1, StepCases
  <2>2. s = t
    BY <1>1, <2>1 DEF OthersStay
  <2>3. ~ClaimCommit(s)
    BY <1>1 DEF ClaimCommit, CreateClaim, AppendRevision, LinkEvidence, Approve, Reject,
                Invalidate, Ready, Unapplied
  <2>4. ~ChangeCommit(s)
    BY <1>1, ChangesAreChanges DEF CommitChange, Ready, Unapplied
  <2> QED
    BY <2>1, <2>2, <2>3, <2>4
<1>2. ClaimsInv /\ [Next]_vars =>
        [\A s \in Session :
           session[s].cmd.action \in receipts /\ session'[s] # session[s] => UNCHANGED data]_vars
  BY <1>1
<1> QED
  BY <1>2, ClaimsInvariant, PTL DEF Spec, AppliedOnce

(* However late it arrives, an approval is of the revision and of the links that
   the reviewer read (postgres-product-claim-repository.ts:953-968, :1027-1045). *)
THEOREM ReviewersApproveWhatTheySaw == Spec => ApprovedAsSeen
<1>1. ASSUME ClaimsInv, Next, NEW s \in Session, NEW c \in Claim,
             claim[c].state # "reviewer_approved", claim'[c].state = "reviewer_approved",
             session'[s] # session[s]
      PROVE  session[s].cmd.links = links[c] /\ session[s].cmd.seen[1] = claim[c].revision
  <2> DEFINE cmd == session[s].cmd
  <2>1. PICK t \in Session :
          OthersStay(t) /\ (UNCHANGED data \/ ClaimCommit(t) \/ ChangeCommit(t))
    BY <1>1, StepCases
  <2>2. s = t
    BY <1>1, <2>1 DEF OthersStay
  <2>3. claim \in [Claim -> [revision : Nat, state : ClaimState]] /\ ~UNCHANGED claim
    BY <1>1 DEF ClaimsInv, Registers, Types
  <2>4. ~ChangeCommit(s)
    BY <1>1, <2>3, ChangesAreChanges DEF CommitChange
  <2>5. Approve(s)
    BY <1>1, <2>1, <2>2, <2>3, <2>4
       DEF ClaimCommit, CreateClaim, AppendRevision, LinkEvidence, Reject, Invalidate, SetState, data
  <2>6. cmd.op = "approve" /\ cmd.claim = c /\ VersionHolds(cmd)
    BY <1>1, <2>3, <2>5 DEF Approve, Ready, HeadIs, SetState
  <2>7. Versioned(cmd) = <<claim[c].revision, claim[c].state>>
    BY <2>6 DEF Versioned, ClaimOps
  <2>8. cmd.seen[1] = claim[c].revision
    BY <2>6, <2>7 DEF VersionHolds
  <2>9. StillAsSeen(cmd)
    BY <1>1, <2>6 DEF ClaimsInv, Fine, Meant
  <2> QED
    BY <2>6, <2>8, <2>9 DEF StillAsSeen
<1>2. ClaimsInv /\ [Next]_vars =>
        [\A s \in Session, c \in Claim :
            /\ claim[c].state # "reviewer_approved" /\ claim'[c].state = "reviewer_approved"
            /\ session'[s] # session[s]
            => session[s].cmd.links = links[c] /\ session[s].cmd.seen[1] = claim[c].revision]_vars
  BY <1>1
<1> QED
  BY <1>2, ClaimsInvariant, PTL DEF Spec, ApprovedAsSeen

-----------------------------------------------------------------------------
(* The claims implement ClaimAuthority.                                    *)

\* What a link of a supported claim rests on, kind by kind.
Rests(l) ==
    /\ available[l.evidence][l.revision] /\ evidence[l.evidence] = l.revision
    /\ ~Disputed(l.evidence, l.revision)
    /\ l.facts # 0 => l.facts = parent.facts
    /\ l.kind = "attestation" => Verified(l.event) \/ events[l.event].evidence # l.evidence
    /\ l.kind = "measurement" => ReportSupports(l.report)
    /\ l.kind = "visual" => ~reference

SupportRests ==
  \A c \in Claim :
    /\ OwnSupport(c) <=> ParentsActive /\ links[c] # {} /\ \A l \in links[c] : Rests(l)
    /\ SupportEligible(links[c]) => OwnSupport(c)

LEMMA OwnSupportOf == links \in [Claim -> SUBSET LinkRecord] => SupportRests
<1>1. ASSUME NEW l \in LinkRecord
      PROVE  LET m == [l EXCEPT !.kind = "corroborating"]
             IN  /\ LinkEligible(m) <=>
                      /\ available[l.evidence][l.revision] /\ evidence[l.evidence] = l.revision
                      /\ ~Disputed(l.evidence, l.revision)
                      /\ l.facts # 0 => l.facts = parent.facts
                 /\ l.kind \in {"attestation", "measurement", "visual"}
  <2> DEFINE m == [l EXCEPT !.kind = "corroborating"]
  <2>1. /\ m.kind = "corroborating" /\ m.evidence = l.evidence /\ m.revision = l.revision
        /\ m.facts = l.facts /\ l.kind \in {"attestation", "measurement", "visual"}
    BY DEF LinkRecord
  <2> HIDE DEF m
  <2>2. LinkEligible(m) <=>
          /\ available[l.evidence][l.revision] /\ evidence[l.evidence] = l.revision
          /\ ~Disputed(l.evidence, l.revision)
          /\ l.facts # 0 => l.facts = parent.facts
    BY <2>1 DEF LinkEligible
  <2> QED
    BY <2>1, <2>2 DEF m
<1>2. ASSUME NEW l \in LinkRecord
      PROVE  Rests(l) <=>
               \/ LinkEligible(l)
               \/ /\ l.kind = "attestation" /\ events[l.event].evidence # l.evidence
                  /\ ~Verified(l.event)
                  /\ LinkEligible([l EXCEPT !.kind = "corroborating"])
  BY <1>1, <1>2 DEF Rests, LinkEligible
<1>3. ASSUME links \in [Claim -> SUBSET LinkRecord], NEW c \in Claim
      PROVE  /\ OwnSupport(c) <=> ParentsActive /\ links[c] # {} /\ \A l \in links[c] : Rests(l)
             /\ SupportEligible(links[c]) => OwnSupport(c)
  <2>1. \A l \in links[c] : l \in LinkRecord
    BY <1>3
  <2> QED
    BY <1>2, <2>1 DEF OwnSupport, SupportEligible, ParentsActive
<1> QED
  BY <1>3 DEF SupportRests

LEMMA OwnSupportThen == (links \in [Claim -> SUBSET LinkRecord])' => SupportRests'
BY OwnSupportOf, PTL

\* A change that does not hit a link leaves what the link rests on.
LEMMA UnhitByProduct ==
  ASSUME ClaimsInv, NEW s \in Session,
         \/ SkuArchived(s) \/ BatchArchived(s) \/ FactsAppended(s) \/ ReferenceArchived(s)
         \/ Quarantined(s) \/ EvidenceSuperseded(s),
         NEW l \in LinkRecord, Rests(l), ~Hits(session[s].cmd, l)
  PROVE  Rests(l)'
<1> DEFINE cmd == session[s].cmd
<1>1. Types /\ l.evidence \in Evidence /\ l.revision \in Revision
  BY DEF ClaimsInv, Registers, LinkRecord
<1>2. CASE SkuArchived(s) \/ BatchArchived(s)
  BY <1>1, <1>2 DEF Hits, SkuArchived, BatchArchived, CommitChange, Ready
<1>3. CASE FactsAppended(s)
  <2>1. /\ cmd.op = "append facts"
        /\ UNCHANGED <<evidence, available, events, report, reference>>
    BY <1>3 DEF FactsAppended, CommitChange, Ready
  <2>2. l.facts = 0
    BY <2>1 DEF Hits
  <2> QED
    BY <2>1, <2>2 DEF Rests, Verified, Disputed, Withdrawn, ReportSupports
<1>4. CASE ReferenceArchived(s)
  <2>1. cmd.op = "archive reference" /\ UNCHANGED <<parent, evidence, available, events, report>>
    BY <1>4 DEF ReferenceArchived, CommitChange, Ready
  <2>2. l.kind # "visual"
    BY <2>1 DEF Hits
  <2> QED
    BY <2>1, <2>2 DEF Rests, Verified, Disputed, Withdrawn, ReportSupports
<1>5. CASE Quarantined(s)
  <2>1. /\ CommitChange(s, "quarantine")
        /\ available' = [available EXCEPT ![cmd.evidence][cmd.revision] = FALSE]
        /\ UNCHANGED <<parent, evidence, events, report, reference>>
    BY <1>5 DEF Quarantined
  <2>2. cmd.op = "quarantine" /\ cmd.evidence \in Evidence /\ cmd.revision \in Revision
    BY <2>1, CommittingFacts DEF Meant, EvidenceOps
  <2>3. available[l.evidence][l.revision]
    BY DEF Rests
  <2>4. l.evidence # cmd.evidence \/ l.revision # cmd.revision
    BY <2>2, <2>3 DEF Hits
  <2>5. available'[l.evidence][l.revision]
    <3>1. available \in [Evidence -> [Revision -> BOOLEAN]]
      BY <1>1 DEF Types
    <3> HIDE DEF cmd
    <3> QED
      BY <1>1, <2>1, <2>2, <2>3, <2>4, <3>1
  <2> QED
    BY <2>1, <2>5 DEF Rests, Verified, Disputed, Withdrawn, ReportSupports
<1>6. CASE EvidenceSuperseded(s)
  <2>1. /\ CommitChange(s, "supersede evidence")
        /\ evidence' = [evidence EXCEPT ![cmd.evidence] = @ + 1]
        /\ UNCHANGED <<parent, available, events, report, reference>>
    BY <1>6 DEF EvidenceSuperseded
  <2>2. cmd.op = "supersede evidence" /\ evidence \in [Evidence -> Revision]
    BY <1>1, <2>1 DEF CommitChange, Ready, Types
  <2>3. evidence[l.evidence] = l.revision
    BY DEF Rests
  <2>4. l.evidence # cmd.evidence
    <3>1. l.revision \in Nat
      BY <1>1, Numbers
    <3>2. l.revision <= l.revision
      BY <3>1
    <3> QED
      BY <2>2, <2>3, <3>2 DEF Hits
  <2>5. evidence'[l.evidence] = l.revision
    BY <1>1, <2>1, <2>2, <2>3, <2>4
  <2> QED
    BY <2>1, <2>5 DEF Rests, Verified, Disputed, Withdrawn, ReportSupports
<1> QED
  BY <1>2, <1>3, <1>4, <1>5, <1>6

\* An event leaves the other events as they are, and withdraws one event at most.
LEMMA EventsAppended ==
  ASSUME ClaimsInv, NEW s \in Session, EventAppended(s)
  PROVE  LET cmd == session[s].cmd
         IN  /\ \A v \in DOMAIN events : v \in DOMAIN events' /\ events'[v] = events[v]
             /\ \A v : Withdrawn(v)' <=>
                      Withdrawn(v) \/ (cmd.outcome = "withdrawn" /\ v = cmd.event)
             /\ \A e, r : Disputed(e, r)' =>
                      \/ Disputed(e, r)
                      \/ cmd.outcome = "disputed" /\ cmd.evidence = e /\ cmd.revision = r
<1> DEFINE cmd == session[s].cmd
           n == Len(events) + 1
           x == [evidence |-> cmd.evidence, revision |-> cmd.revision,
                 outcome |-> cmd.outcome, of |-> cmd.event]
<1>1. events' = Append(events, x) /\ events \in Seq(EventRecord)
  BY DEF EventAppended, ClaimsInv, Registers, Types
<1>2. /\ x.outcome = cmd.outcome /\ x.of = cmd.event
      /\ x.evidence = cmd.evidence /\ x.revision = cmd.revision
  OBVIOUS
<1> HIDE DEF x, cmd
<1>3. /\ Len(events) \in Nat /\ DOMAIN events = 1..Len(events)
      /\ DOMAIN events' = 1..n /\ events'[n] = x
      /\ \A v \in 1..Len(events) : events'[v] = events[v]
  BY <1>1
<1>4. /\ DOMAIN events' = DOMAIN events \cup {n}
      /\ \A v \in DOMAIN events : events'[v] = events[v]
  BY <1>3
<1> HIDE DEF n
<1>5. ASSUME NEW v
      PROVE  Withdrawn(v)' <=> Withdrawn(v) \/ (cmd.outcome = "withdrawn" /\ v = cmd.event)
  BY <1>2, <1>3, <1>4 DEF Withdrawn
<1>6. ASSUME NEW e, NEW r, Disputed(e, r)'
      PROVE  \/ Disputed(e, r)
             \/ cmd.outcome = "disputed" /\ cmd.evidence = e /\ cmd.revision = r
  <2>1. PICK i \in DOMAIN events' :
          /\ events'[i].evidence = e /\ events'[i].revision = r
          /\ events'[i].outcome = "disputed" /\ ~Withdrawn(i)'
    BY <1>6 DEF Disputed
  <2>2. CASE i \in DOMAIN events
    BY <1>4, <1>5, <2>1, <2>2 DEF Disputed
  <2>3. CASE i = n
    BY <1>2, <1>3, <2>1, <2>3
  <2> QED
    BY <1>4, <2>1, <2>2, <2>3
<1> QED
  BY <1>4, <1>5, <1>6 DEF cmd

LEMMA UnhitByEvent ==
  ASSUME ClaimsInv, NEW s \in Session, EventAppended(s),
         NEW l \in LinkRecord, Sound(l), Rests(l), ~Hits(session[s].cmd, l)
  PROVE  Rests(l)'
<1> DEFINE cmd == session[s].cmd
<1>1. /\ CommitChange(s, "append event")
      /\ UNCHANGED <<parent, evidence, available, report, reference>>
  BY DEF EventAppended
<1>2. /\ cmd.op = "append event" /\ Meant(cmd)
      /\ \A r \in Revision : LabSound(report.lab[r])
  BY <1>1, CommittingFacts
<1>3. cmd.outcome = "withdrawn" =>
        cmd.event \in DOMAIN events /\ events[cmd.event].evidence = cmd.evidence
  BY <1>2 DEF Meant
<1>4. /\ \A v \in DOMAIN events : v \in DOMAIN events' /\ events'[v] = events[v]
      /\ \A v : Withdrawn(v)' <=> Withdrawn(v) \/ (cmd.outcome = "withdrawn" /\ v = cmd.event)
      /\ \A e, r : Disputed(e, r)' =>
               \/ Disputed(e, r)
               \/ cmd.outcome = "disputed" /\ cmd.evidence = e /\ cmd.revision = r
  BY EventsAppended
<1>5. /\ ~(cmd.outcome = "disputed" /\ l.evidence = cmd.evidence /\ l.revision = cmd.revision)
      /\ ~(/\ cmd.outcome = "withdrawn" /\ l.evidence = cmd.evidence
           /\ \/ l.event = cmd.event
              \/ l.kind = "measurement" /\ report.lab[l.report] = cmd.event)
  BY <1>2 DEF Hits
<1> HIDE DEF cmd
<1>6. ~Disputed(l.evidence, l.revision)'
  BY <1>4, <1>5 DEF Rests
<1>7. ASSUME l.kind = "attestation"
      PROVE  Verified(l.event)' \/ events'[l.event].evidence # l.evidence
  <2>1. /\ l.event \in DOMAIN events
        /\ Verified(l.event) \/ events[l.event].evidence # l.evidence
    BY <1>7 DEF Sound, Rests
  <2> QED
    BY <1>3, <1>4, <1>5, <2>1 DEF Verified
<1>8. ASSUME l.kind = "measurement" PROVE ReportSupports(l.report)'
  <2>1. l.evidence = 1 /\ l.report \in Revision /\ ReportSupports(l.report)
    BY <1>8 DEF Sound, Rests
  <2>2. LabSound(report.lab[l.report])
    BY <1>2, <2>1
  <2>3. report.lab[l.report] # 0 => Verified(report.lab[l.report])'
    <3> SUFFICES ASSUME report.lab[l.report] # 0 PROVE Verified(report.lab[l.report])'
      OBVIOUS
    <3> DEFINE v == report.lab[l.report]
    <3>1. v \in DOMAIN events /\ events[v].evidence = 1 /\ Verified(v)
      BY <2>1, <2>2 DEF ReportSupports, LabSound
    <3>2. v' = v
      BY <1>1
    <3> HIDE DEF v
    <3>3. v # cmd.event \/ cmd.outcome # "withdrawn"
      BY <1>3, <1>5, <1>8, <2>1, <3>1 DEF v
    <3>4. Verified(v)'
      BY <1>4, <3>1, <3>2, <3>3 DEF Verified
    <3> QED
      BY <3>4 DEF v
  <2> QED
    BY <1>1, <2>1, <2>3 DEF ReportSupports
<1> QED
  BY <1>1, <1>6, <1>7, <1>8 DEF Rests

LEMMA UnhitByReport ==
  ASSUME ClaimsInv, NEW s \in Session,
         ReportSuperseded(s) \/ ReportReviewed(s) \/ ReportArchived(s),
         NEW l \in LinkRecord, Sound(l), Rests(l), ~Hits(session[s].cmd, l)
  PROVE  Rests(l)'
<1> DEFINE cmd == session[s].cmd
<1>1. UNCHANGED <<parent, evidence, available, events, reference>>
  BY DEF ReportSuperseded, ReportReviewed, ReportArchived
<1>2. l.kind # "measurement"
  <2> SUFFICES ASSUME l.kind = "measurement" PROVE FALSE
    OBVIOUS
  <2>1. l.report \in Revision /\ ReportSupports(l.report)
    BY DEF Sound, Rests
  <2>2. report.revision = l.report /\ report.decision[l.report] = "approved"
    BY <2>1 DEF ReportSupports
  <2>3. CASE ReportSuperseded(s)
    <3>1. cmd.op = "supersede report"
      BY <2>3 DEF ReportSuperseded, CommitChange, Ready
    <3>2. l.report \in Nat
      BY <2>1, Numbers
    <3>3. l.report <= l.report
      BY <3>2
    <3> QED
      BY <2>2, <3>1, <3>3 DEF Hits
  <2>4. CASE ReportReviewed(s)
    <3>1. cmd.op = "review report" /\ Checked(cmd)
      BY <2>4, CommittingFacts DEF ReportReviewed
    <3> QED
      BY <2>2, <3>1 DEF Checked
  <2>5. CASE ReportArchived(s)
    BY <2>5 DEF ReportArchived, CommitChange, Ready, Hits
  <2> QED
    BY <2>3, <2>4, <2>5
<1> QED
  BY <1>1, <1>2 DEF Rests, Verified, Disputed, Withdrawn

\* The heart of the matter: an active claim that loses its support is on the list.
LEMMA LostAreListed ==
  ASSUME ClaimsInv, NEW s \in Session, ChangeCommit(s),
         NEW c \in Claim, claim[c].state \in Active, OwnSupport(c), ~OwnSupport(c)'
  PROVE  c \in session[s].list
<1> DEFINE cmd == session[s].cmd
<1>1. PICK op : CommitChange(s, op)
  BY ChangesAreChanges
<1>2. Lists(cmd, session[s].list)
  BY <1>1, CommittingFacts
<1>3. links' = links /\ links \in [Claim -> SUBSET LinkRecord] /\ \A l \in links[c] : Sound(l)
  BY <1>1 DEF CommitChange, ClaimsInv, Registers, Types, ClaimsSound
<1>4. /\ ParentsActive /\ links[c] # {} /\ \A l \in links[c] : Rests(l) /\ l \in LinkRecord
      /\ ~(ParentsActive' /\ \A l \in links[c] : Rests(l)')
  <2>1. OwnSupport(c) <=> ParentsActive /\ links[c] # {} /\ \A l \in links[c] : Rests(l)
    BY <1>3, OwnSupportOf DEF SupportRests
  <2>2. OwnSupport(c)' <=> ParentsActive' /\ links'[c] # {} /\ \A l \in links'[c] : Rests(l)'
    BY <1>3, OwnSupportThen DEF SupportRests
  <2> QED
    BY <1>3, <2>1, <2>2
<1>5. \E l \in links[c] : Hits(cmd, l)
  <2>1. CASE ~ParentsActive'
    <3>0. parent \in [sku : BOOLEAN, batch : BOOLEAN, facts : Revision]
      BY DEF ClaimsInv, Registers, Types
    <3>1. SkuArchived(s) \/ BatchArchived(s)
      BY <1>4, <2>1, <3>0 DEF ChangeCommit, ParentsActive, FactsAppended, ReferenceArchived,
           Quarantined, EvidenceSuperseded, EventAppended, ReportSuperseded, ReportReviewed,
           ReportArchived
    <3>2. cmd.op \in {"archive sku", "archive batch"}
      BY <3>1 DEF SkuArchived, BatchArchived, CommitChange, Ready
    <3> QED
      BY <1>4, <3>2 DEF Hits
  <2>2. CASE \E l \in links[c] : ~Rests(l)'
    BY <1>3, <1>4, <2>2, UnhitByProduct, UnhitByEvent, UnhitByReport DEF ChangeCommit
  <2> QED
    BY <1>4, <2>1, <2>2
<1> QED
  BY <1>2, <1>5 DEF Lists

\* The initial claims are initial claims of ClaimAuthority.
LEMMA AuthorityInit == Init => Authority!Init
<1> SUFFICES ASSUME Init PROVE Authority!Init
  OBVIOUS
<1>1. PICK given \in [Claim -> {"none", "draft", "evidence_linked"}] :
        /\ claim = [c \in Claim |-> [revision |-> IF given[c] = "none" THEN 0 ELSE 1,
                                    state |-> given[c]]]
        /\ \A c \in Claim : IF given[c] = "evidence_linked" THEN SupportEligible(links[c])
                                                           ELSE links[c] = {}
  BY DEF Init
<1>2. links \in [Claim -> SUBSET LinkRecord]
  BY InitInv DEF ClaimsInv, Registers, Types
<1>3. \A c \in Claim : /\ claim[c].state = given[c]
                       /\ claim[c].revision = IF given[c] = "none" THEN 0 ELSE 1
  BY <1>1
<1>4. \A c \in Claim : OwnSupport(c) <=> given[c] = "evidence_linked"
  BY <1>1, <1>2, OwnSupportOf DEF SupportRests
<1>5. \A c \in Claim : OwnSupport(c) = (claim[c].state = "evidence_linked")
  BY <1>3, <1>4 DEF OwnSupport
<1> HIDE DEF OwnSupport
<1> QED
  BY <1>3, <1>5 DEF Authority!Init

\* A commit of a claim command leaves the other claims, and what they rest on.
LEMMA ClaimCommitSupport ==
  ASSUME ClaimsInv, ClaimsInv', NEW c \in Claim,
         UNCHANGED <<parent, evidence, available, events, report, reference>>,
         \A d \in Claim \ {c} : links'[d] = links[d]
  PROVE  /\ \A d \in Claim \ {c} : OwnSupport(d)' <=> OwnSupport(d)
         /\ links'[c] = links[c] => (OwnSupport(c)' <=> OwnSupport(c))
         /\ links'[c] = {} => ~OwnSupport(c)'
         /\ SupportEligible(links'[c]) => OwnSupport(c)'
<1>1. SupportRests /\ SupportRests'
  BY OwnSupportOf, OwnSupportThen DEF ClaimsInv, Registers, Types
<1>2. \A l : Rests(l)' <=> Rests(l)
  BY DEF Rests, Verified, Disputed, Withdrawn, ReportSupports
<1>3. ParentsActive' <=> ParentsActive
  BY DEF ParentsActive
<1>4. SupportEligible(links'[c]) <=> SupportEligible(links[c])'
  BY DEF SupportEligible, LinkEligible, Verified, Disputed, Withdrawn, ReportSupports
<1> QED
  BY <1>1, <1>2, <1>3, <1>4 DEF SupportRests

\* The mapped steps, in terms of the claims.
LEMMA AuthorityDraft ==
  ASSUME NEW c \in Claim, claim \in [Claim -> [revision : Nat, state : ClaimState]],
         claim' = [claim EXCEPT ![c] = [revision |-> claim[c].revision + 1, state |-> "draft"]],
         \A d \in Claim \ {c} : OwnSupport(d)' <=> OwnSupport(d), ~OwnSupport(c)'
  PROVE  Authority!Draft(c)
<1>1. \A d \in Claim : /\ claim'[d].revision = IF d = c THEN claim[d].revision + 1 ELSE claim[d].revision
                       /\ claim'[d].state = IF d = c THEN "draft" ELSE claim[d].state
  OBVIOUS
<1>2. \A d \in Claim : OwnSupport(d)' = IF d = c THEN FALSE ELSE OwnSupport(d)
  <2>1. \A d \in Claim : OwnSupport(d) \in BOOLEAN /\ OwnSupport(d)' \in BOOLEAN
    BY DEF OwnSupport
  <2> QED
    BY <2>1
<1> HIDE DEF OwnSupport
<1> QED
  BY <1>1, <1>2 DEF Authority!Draft

LEMMA MappedState ==
  ASSUME NEW c \in Claim, claim \in [Claim -> [revision : Nat, state : ClaimState]], NEW x,
         claim' = [claim EXCEPT ![c].state = x]
  PROVE  /\ [d \in Claim |-> claim'[d].revision] = [d \in Claim |-> claim[d].revision]
         /\ [d \in Claim |-> claim'[d].state]
               = [[d \in Claim |-> claim[d].state] EXCEPT ![c] = x]
         /\ [d \in Claim |-> claim'[d].state]
               = [d \in Claim |-> IF d \in {c} THEN x ELSE claim[d].state]
<1>1. \A d \in Claim : /\ claim'[d].revision = claim[d].revision
                       /\ claim'[d].state = IF d = c THEN x ELSE claim[d].state
  OBVIOUS
<1> QED
  BY <1>1

LEMMA MappedSupport ==
  ASSUME \A d \in Claim : OwnSupport(d)' <=> OwnSupport(d)
  PROVE  [d \in Claim |-> OwnSupport(d)]' = [d \in Claim |-> OwnSupport(d)]
<1>1. \A d \in Claim : OwnSupport(d) \in BOOLEAN /\ OwnSupport(d)' \in BOOLEAN
  BY DEF OwnSupport
<1>2. \A d \in Claim : OwnSupport(d)' = OwnSupport(d)
  BY <1>1
<1> HIDE DEF OwnSupport
<1> QED
  BY <1>2

LEMMA ClaimCommitsMap ==
  ASSUME ClaimsInv, ClaimsInv', NEW s \in Session, ClaimCommit(s)
  PROVE  Authority!Next
<1>1. /\ claim \in [Claim -> [revision : Nat, state : ClaimState]]
      /\ links \in [Claim -> SUBSET LinkRecord] /\ SupportRests
  BY OwnSupportOf DEF ClaimsInv, Registers, Types
<1>2. PICK c \in Claim :
        /\ c = session[s].cmd.claim
        /\ claim[c].state = "none" <=> claim[c].revision = 0
        /\ claim[c].state = "none" => links[c] = {}
        /\ UNCHANGED <<parent, evidence, available, events, report, reference>>
  <2>1. PICK op \in ClaimOps \cup {"create"} : Ready(s, "locking", op)
    BY DEF ClaimCommit, CreateClaim, AppendRevision, LinkEvidence, Approve, Reject,
           Invalidate, ClaimOps
  <2>2. UNCHANGED <<parent, evidence, available, events, report, reference>>
    BY DEF ClaimCommit, CreateClaim, AppendRevision, LinkEvidence, Approve, Reject,
           Invalidate, SetState
  <2> QED
    BY <2>1, <2>2, ReadyFacts
<1>3. CASE CreateClaim(s) \/ AppendRevision(s)
  <2>1. claim' = [claim EXCEPT ![c] = [revision |-> claim[c].revision + 1, state |-> "draft"]]
    BY <1>1, <1>2, <1>3 DEF CreateClaim, AppendRevision
  <2>2. links'[c] = {} /\ \A d \in Claim \ {c} : links'[d] = links[d]
    <3>1. CASE CreateClaim(s)
      BY <1>2, <3>1 DEF CreateClaim
    <3>2. CASE AppendRevision(s)
      BY <1>1, <1>2, <3>2 DEF AppendRevision
    <3> QED
      BY <1>3, <3>1, <3>2
  <2>3. ~OwnSupport(c)' /\ \A d \in Claim \ {c} : OwnSupport(d)' <=> OwnSupport(d)
    BY <1>2, <2>2, ClaimCommitSupport
  <2>4. Authority!Draft(c)
    BY <1>1, <1>2, <2>1, <2>3, AuthorityDraft
  <2> QED
    BY <1>2, <2>4 DEF Authority!Next
<1>4. CASE LinkEvidence(s)
  <2>1. /\ claim' = [claim EXCEPT ![c].state = "evidence_linked"]
        /\ links' = [links EXCEPT ![c] = session[s].cmd.links]
        /\ claim[c].state = "draft" /\ SupportEligible(session[s].cmd.links)
    BY <1>2, <1>4 DEF LinkEvidence
  <2>2. links'[c] = session[s].cmd.links /\ \A d \in Claim \ {c} : links'[d] = links[d]
    BY <1>1, <1>2, <2>1
  <2>3. OwnSupport(c)' /\ \A d \in Claim \ {c} : OwnSupport(d)' <=> OwnSupport(d)
    <3>1. SupportEligible(links'[c])
      BY <2>1, <2>2
    <3> QED
      BY <1>2, <2>2, <3>1, ClaimCommitSupport
  <2>4. [d \in Claim |-> OwnSupport(d)]' = [[d \in Claim |-> OwnSupport(d)] EXCEPT ![c] = TRUE]
    <3>1. \A d \in Claim : OwnSupport(d) \in BOOLEAN /\ OwnSupport(d)' \in BOOLEAN
      BY DEF OwnSupport
    <3>2. \A d \in Claim : OwnSupport(d)' = IF d = c THEN TRUE ELSE OwnSupport(d)
      BY <2>3, <3>1
    <3> HIDE DEF OwnSupport
    <3> QED
      BY <3>2
  <2>5. Authority!Link(c)
    <3> HIDE DEF OwnSupport
    <3> QED
      BY <1>1, <1>2, <2>1, <2>4, MappedState DEF Authority!Link
  <2> QED
    BY <1>2, <2>5 DEF Authority!Next
<1>5. CASE Approve(s) \/ Reject(s) \/ Invalidate(s)
  <2>1. PICK x \in {"reviewer_approved", "rejected", "invalidated"} :
          /\ claim' = [claim EXCEPT ![c].state = x] /\ links' = links
          /\ x = "invalidated" => claim[c].state \in Active
          /\ x # "invalidated" => claim[c].state = "evidence_linked"
          /\ x = "reviewer_approved" => SupportEligible(links[c])
    BY <1>2, <1>5 DEF Approve, Reject, Invalidate, HeadIs, SetState
  <2>2. [d \in Claim |-> OwnSupport(d)]' = [d \in Claim |-> OwnSupport(d)]
    <3>1. \A d \in Claim : OwnSupport(d)' <=> OwnSupport(d)
      BY <1>2, <2>1, ClaimCommitSupport
    <3> QED
      BY <3>1, MappedSupport
  <2>3. x = "reviewer_approved" => OwnSupport(c)
    BY <1>1, <1>2, <2>1 DEF SupportRests
  <2>4. /\ [d \in Claim |-> claim'[d].revision] = [d \in Claim |-> claim[d].revision]
        /\ [d \in Claim |-> claim'[d].state]
              = [[d \in Claim |-> claim[d].state] EXCEPT ![c] = x]
        /\ [d \in Claim |-> claim'[d].state]
              = [d \in Claim |-> IF d \in {c} THEN x ELSE claim[d].state]
    <3>1. claim \in [Claim -> [revision : Nat, state : ClaimState]] /\ c \in Claim
      BY <1>1, <1>2
    <3>2. claim' = [claim EXCEPT ![c].state = x]
      BY <2>1
    <3> QED
      BY <3>1, <3>2, MappedState
  <2>5. CASE x = "reviewer_approved"
    <3>1. Authority!Approve(c)
      <4> HIDE DEF OwnSupport
      <4> QED
        BY <1>2, <2>1, <2>2, <2>3, <2>4, <2>5 DEF Authority!Approve
    <3> QED
      BY <1>2, <3>1 DEF Authority!Next
  <2>6. CASE x = "rejected"
    <3>1. Authority!Reject(c)
      <4> HIDE DEF OwnSupport
      <4> QED
        BY <1>2, <2>1, <2>2, <2>4, <2>6 DEF Authority!Reject
    <3> QED
      BY <1>2, <3>1 DEF Authority!Next
  <2>7. CASE x = "invalidated"
    <3>1. Authority!WorldChanges({}, {c})
      <4>1. [d \in Claim |-> OwnSupport(d)] \in [Claim -> BOOLEAN]
        BY DEF OwnSupport
      <4> HIDE DEF OwnSupport
      <4>2. [d \in Claim |-> claim[d].state][c] \in Active
        BY <1>2, <2>1, <2>7
      <4> QED
        BY <1>2, <2>2, <2>4, <2>7, <4>1, <4>2 DEF Authority!WorldChanges, Authority!Active, Active
    <3> QED
      BY <1>2, <3>1 DEF Authority!Next
  <2> QED
    BY <2>5, <2>6, <2>7
<1> QED
  BY <1>3, <1>4, <1>5 DEF ClaimCommit

LEMMA ChangeCommitsMap ==
  ASSUME ClaimsInv, ClaimsInv', NEW s \in Session, ChangeCommit(s)
  PROVE  Authority!Next
<1> DEFINE Ended == {c \in session[s].list : claim[c].state \in Active}
           Lost == {c \in Claim : OwnSupport(c) /\ ~OwnSupport(c)'}
<1>1. PICK op : CommitChange(s, op)
  BY ChangesAreChanges
<1>2. /\ claim \in [Claim -> [revision : Nat, state : ClaimState]]
      /\ session[s].list \in SUBSET Claim
      /\ claim' = [c \in Claim |-> IF c \in session[s].list /\ claim[c].state \in Active
                                   THEN [claim[c] EXCEPT !.state = "invalidated"] ELSE claim[c]]
  BY <1>1, CommittingFacts DEF CommitChange, Types
<1>3. \A c \in Claim : /\ claim'[c].revision = claim[c].revision
                       /\ claim'[c].state = IF c \in Ended THEN "invalidated" ELSE claim[c].state
  BY <1>2
<1>4. /\ Ended \in SUBSET Claim /\ Lost \in SUBSET Claim
      /\ \A c \in Ended : claim[c].state \in Active
      /\ \A c \in Lost : claim[c].state \in Active => c \in Ended
  BY <1>2, LostAreListed
<1>5. \A c \in Claim : /\ OwnSupport(c) \in BOOLEAN /\ OwnSupport(c)' \in BOOLEAN
                       /\ OwnSupport(c) /\ ~OwnSupport(c)' => c \in Lost
  BY DEF OwnSupport
<1>6. PICK lost \in SUBSET Claim, ended \in SUBSET Claim : lost = Lost /\ ended = Ended
  BY <1>4
<1> HIDE DEF Ended, Lost, OwnSupport
<1>7. Authority!WorldChanges(lost, ended)
  BY <1>3, <1>4, <1>5, <1>6 DEF Authority!WorldChanges, Authority!Active, Active
<1> QED
  BY <1>7 DEF Authority!Next

LEMMA AuthorityStep == ClaimsInv /\ ClaimsInv' /\ [Next]_vars => [Authority!Next]_(Authority!vars)
<1>1. ASSUME ClaimsInv, ClaimsInv', Next PROVE Authority!Next \/ UNCHANGED data
  BY <1>1, StepCases, ClaimCommitsMap, ChangeCommitsMap
<1>2. ASSUME UNCHANGED data PROVE UNCHANGED Authority!vars
  <2>1. \A c \in Claim : OwnSupport(c)' <=> OwnSupport(c)
    BY <1>2 DEF data, OwnSupport, ParentsActive, LinkEligible, Verified, Disputed, Withdrawn,
                ReportSupports
  <2>2. [c \in Claim |-> OwnSupport(c)]' = [c \in Claim |-> OwnSupport(c)]
    BY <2>1, MappedSupport
  <2>3. claim' = claim
    BY <1>2 DEF data
  <2> HIDE DEF OwnSupport
  <2> QED
    BY <2>2, <2>3 DEF Authority!vars
<1> QED
  BY <1>1, <1>2 DEF vars, data

(* The claim register keeps what ClaimAuthority promises, in every order of the
   commands, their copies and the cascades (docs/adr/0009, sections 3.3, 3.4),
   except for attestations that rely on the withdrawn verification event of
   another asset, which OwnSupport counts as supported and the code does not:
   the cascade of the withdrawal can miss those. *)
THEOREM ClaimsImplementAuthority == Spec => ImplementsAuthority
<1> QED
  BY AuthorityInit, AuthorityStep, ClaimsInvariant, PTL DEF Spec, ImplementsAuthority, Authority!Spec

LEMMA AuthorityKeepsSupport ==
  Authority!ActiveIsSupported /\ [Authority!Next]_(Authority!vars) => Authority!ActiveIsSupported'
<1> DEFINE Kept == \A c \in Claim : claim[c].state \in Active => OwnSupport(c)
<1>1. /\ Authority!ActiveIsSupported <=> Kept
      /\ Authority!ActiveIsSupported' <=> Kept'
  BY DEF Authority!ActiveIsSupported, Authority!Active, Active
<1> SUFFICES ASSUME Kept, [Authority!Next]_(Authority!vars), NEW c \in Claim,
                    claim'[c].state \in Active
             PROVE  OwnSupport(c)'
  BY <1>1
<1> HIDE DEF OwnSupport
<1>2. ASSUME NEW d \in Claim, Authority!Draft(d) PROVE OwnSupport(c)'
  <2>1. /\ [x \in Claim |-> claim'[x].state][c]
             = [[x \in Claim |-> claim[x].state] EXCEPT ![d] = "draft"][c]
        /\ [x \in Claim |-> OwnSupport(x)']
             = [[x \in Claim |-> OwnSupport(x)] EXCEPT ![d] = FALSE]
    BY <1>2 DEF Authority!Draft
  <2>2. claim'[c].state = IF c = d THEN "draft" ELSE claim[c].state
    BY <2>1
  <2>3. c # d /\ claim[c].state \in Active
    BY <2>2 DEF Active
  <2>4. [x \in Claim |-> OwnSupport(x)'][c] = [x \in Claim |-> OwnSupport(x)][c]
    BY <2>1, <2>3
  <2> QED
    BY <2>3, <2>4
<1>3. ASSUME NEW d \in Claim, Authority!Link(d) PROVE OwnSupport(c)'
  <2>1. /\ [x \in Claim |-> claim'[x].state]
             = [[x \in Claim |-> claim[x].state] EXCEPT ![d] = "evidence_linked"]
        /\ [x \in Claim |-> OwnSupport(x)']
             = [[x \in Claim |-> OwnSupport(x)] EXCEPT ![d] = TRUE]
    BY <1>3 DEF Authority!Link
  <2>2. CASE c = d
    <3>1. [x \in Claim |-> OwnSupport(x)'][c] = TRUE
      BY <2>1, <2>2
    <3> QED
      BY <3>1
  <2>3. CASE c # d
    <3>1. [x \in Claim |-> OwnSupport(x)'][c] = [x \in Claim |-> OwnSupport(x)][c]
      BY <2>1, <2>3
    <3>2. [x \in Claim |-> claim'[x].state][c] = [x \in Claim |-> claim[x].state][c]
      BY <2>1, <2>3
    <3> QED
      BY <3>1, <3>2
  <2> QED
    BY <2>2, <2>3
<1>4. ASSUME NEW d \in Claim, Authority!Approve(d) \/ Authority!Reject(d) PROVE OwnSupport(c)'
  <2>1. PICK x \in {"reviewer_approved", "rejected"} :
          /\ [e \in Claim |-> claim[e].state][d] = "evidence_linked"
          /\ [e \in Claim |-> claim'[e].state] = [[e \in Claim |-> claim[e].state] EXCEPT ![d] = x]
          /\ [e \in Claim |-> OwnSupport(e)'] = [e \in Claim |-> OwnSupport(e)]
    BY <1>4 DEF Authority!Approve, Authority!Reject
  <2>2. claim[c].state \in Active
    <3>1. claim'[c].state = IF c = d THEN x ELSE claim[c].state
      BY <2>1
    <3> QED
      BY <2>1, <3>1 DEF Active
  <2>3. [e \in Claim |-> OwnSupport(e)'][c] = [e \in Claim |-> OwnSupport(e)][c]
    BY <2>1
  <2> QED
    BY <2>2, <2>3
<1>5. ASSUME NEW lost \in SUBSET Claim, NEW ended \in SUBSET Claim,
             Authority!WorldChanges(lost, ended)
      PROVE  OwnSupport(c)'
  <2>1. /\ claim[c].state \in Active => (c \in lost => c \in ended)
        /\ claim'[c].state = IF c \in ended THEN "invalidated" ELSE claim[c].state
    BY <1>5 DEF Authority!WorldChanges, Authority!Active, Active
  <2>2. claim[c].state \in Active /\ c \notin lost
    BY <2>1 DEF Active
  <2>3. [x \in Claim |-> OwnSupport(x)][c] /\ ~[x \in Claim |-> OwnSupport(x)'][c] => c \in lost
    BY <1>5 DEF Authority!WorldChanges
  <2> QED
    BY <2>2, <2>3
<1>6. ASSUME UNCHANGED Authority!vars PROVE OwnSupport(c)'
  <2>1. /\ [x \in Claim |-> claim'[x].state] = [x \in Claim |-> claim[x].state]
        /\ [x \in Claim |-> OwnSupport(x)'] = [x \in Claim |-> OwnSupport(x)]
    BY <1>6 DEF Authority!vars
  <2>2. [x \in Claim |-> claim'[x].state][c] = [x \in Claim |-> claim[x].state][c]
    BY <2>1
  <2>3. [x \in Claim |-> OwnSupport(x)'][c] = [x \in Claim |-> OwnSupport(x)][c]
    BY <2>1
  <2> QED
    BY <2>2, <2>3
<1> QED
  BY <1>2, <1>3, <1>4, <1>5, <1>6 DEF Authority!Next

(* A claim that is linked or approved rests on eligible evidence, whatever has
   been changed, withdrawn or archived beside it: the purpose of the cascades of
   migration 029 (docs/adr/0009, line 250). *)
THEOREM ActiveClaimsAreSupported == Spec => []Authority!ActiveIsSupported
<1>1. Init => Authority!ActiveIsSupported
  <2> SUFFICES ASSUME Init, NEW c \in Claim, claim[c].state \in Active PROVE OwnSupport(c)
    BY DEF Authority!ActiveIsSupported, Authority!Active, Active
  <2>1. PICK given \in [Claim -> {"none", "draft", "evidence_linked"}] :
          /\ claim[c].state = given[c]
          /\ given[c] = "evidence_linked" => SupportEligible(links[c])
    BY DEF Init
  <2>2. SupportEligible(links[c]) /\ links \in [Claim -> SUBSET LinkRecord]
    BY <2>1, InitInv DEF Active, ClaimsInv, Registers, Types
  <2> QED
    BY <2>2, OwnSupportOf DEF SupportRests
<1> QED
  BY <1>1, AuthorityStep, AuthorityKeepsSupport, ClaimsInvariant, PTL DEF Spec

LEMMA OverStep ==
  ASSUME ClaimsInv, Next, NEW c \in Claim, claim[c].state \in {"rejected", "invalidated"},
         claim'[c].state # claim[c].state
  PROVE  claim'[c].revision = claim[c].revision + 1 /\ claim'[c].state = "draft"
<1>1. claim \in [Claim -> [revision : Nat, state : ClaimState]] /\ claim' # claim
  BY DEF ClaimsInv, Registers, Types
<1>2. PICK s \in Session : ClaimCommit(s) \/ ChangeCommit(s)
  BY <1>1, StepCases DEF data
<1>3. CASE ChangeCommit(s)
  <2>1. claim'[c] = claim[c]
    BY <1>3, ChangesAreChanges DEF CommitChange, Active
  <2> QED
    BY <2>1
<1>4. CASE CreateClaim(s) \/ AppendRevision(s)
  <2>1. PICK d \in Claim :
          \/ claim' = [claim EXCEPT ![d] = [revision |-> claim[d].revision + 1, state |-> "draft"]]
          \/ /\ claim[d].state = "none"
             /\ claim' = [claim EXCEPT ![d] = [revision |-> 1, state |-> "draft"]]
    BY <1>1, <1>4, ReadyFacts DEF CreateClaim, AppendRevision, ClaimOps
  <2>2. c = d
    BY <1>1, <2>1
  <2> QED
    BY <1>1, <2>1, <2>2
<1>5. CASE LinkEvidence(s) \/ Approve(s) \/ Reject(s) \/ Invalidate(s)
  <2>1. PICK d \in Claim, x \in ClaimState :
          /\ claim' = [claim EXCEPT ![d].state = x]
          /\ claim[d].state \in Active \cup {"draft"}
    BY <1>1, <1>5, ReadyFacts
       DEF LinkEvidence, Approve, Reject, Invalidate, HeadIs, SetState, ClaimOps, Active, ClaimState
  <2>2. c = d
    BY <1>1, <2>1
  <2> QED
    BY <2>1, <2>2 DEF Active
<1> QED
  BY <1>2, <1>3, <1>4, <1>5 DEF ClaimCommit

(* A rejected or an invalidated revision is left by a new revision only, whatever
   cascades and late commands come after it (docs/adr/0009, lines 249 and 250). *)
THEOREM OverRevisionsAreOver == Spec => Authority!OverIsOver
<1>1. ASSUME ClaimsInv, [Next]_vars, NEW c \in Claim,
             claim[c].state \in {"rejected", "invalidated"}, claim'[c].state # claim[c].state
      PROVE  claim'[c].revision = claim[c].revision + 1 /\ claim'[c].state = "draft"
  BY <1>1, OverStep DEF vars
<1> DEFINE St == [c \in Claim |-> claim[c].state]
           Rev == [c \in Claim |-> claim[c].revision]
<1>2. ClaimsInv /\ [Next]_vars =>
        [\A c \in Claim : St[c] \in {"rejected", "invalidated"} /\ St'[c] # St[c]
            => Rev'[c] = Rev[c] + 1 /\ St'[c] = "draft"]_(Authority!vars)
  BY <1>1
<1> QED
  BY <1>2, ClaimsInvariant, PTL DEF Spec, Authority!OverIsOver
=============================================================================
