--------------------------- MODULE ClaimAuthority ---------------------------
(***************************************************************************)
(* What the claim register promises (docs/adr/0009, section 3): a claim    *)
(* revision is linked and approved only while everything it rests on is    *)
(* eligible; the step in which a dependency fails is the step in which the *)
(* claims that rest on it are invalidated; a rejected or an invalidated    *)
(* revision is over, and only a new revision starts again.                 *)
(***************************************************************************)
EXTENDS Naturals

CONSTANT Claim

VARIABLES revision,   \* the current revision of a claim, 0 before it exists
          state,      \* the state of the current revision
          supported   \* whether all that the current revision cites is eligible

vars == <<revision, state, supported>>

State == {"none", "draft", "evidence_linked", "reviewer_approved", "rejected", "invalidated"}

Active == {"evidence_linked", "reviewer_approved"}

Init ==
    /\ state \in [Claim -> {"none", "draft", "evidence_linked"}]
    /\ revision = [c \in Claim |-> IF state[c] = "none" THEN 0 ELSE 1]
    /\ supported = [c \in Claim |-> state[c] = "evidence_linked"]

(* A claim is written down, or revised: whatever it was, a draft again. *)
Draft(c) ==
    /\ revision' = [revision EXCEPT ![c] = @ + 1]
    /\ state' = [state EXCEPT ![c] = "draft"]
    /\ supported' = [supported EXCEPT ![c] = FALSE]

(* A draft is linked to a set of evidence that supports it. *)
Link(c) ==
    /\ state[c] = "draft"
    /\ state' = [state EXCEPT ![c] = "evidence_linked"]
    /\ supported' = [supported EXCEPT ![c] = TRUE]
    /\ UNCHANGED revision

Approve(c) ==
    /\ state[c] = "evidence_linked"
    /\ supported[c]
    /\ state' = [state EXCEPT ![c] = "reviewer_approved"]
    /\ UNCHANGED <<revision, supported>>

Reject(c) ==
    /\ state[c] = "evidence_linked"
    /\ state' = [state EXCEPT ![c] = "rejected"]
    /\ UNCHANGED <<revision, supported>>

(* The world changes: the active claims that lose their support, and perhaps
   others, are invalidated in the same step. *)
WorldChanges(lost, ended) ==
    /\ {c \in lost : state[c] \in Active} \subseteq ended
    /\ \A c \in ended : state[c] \in Active
    /\ state' = [c \in Claim |-> IF c \in ended THEN "invalidated" ELSE state[c]]
    /\ supported' \in [Claim -> BOOLEAN]
    /\ \A c \in Claim : supported[c] /\ ~supported'[c] => c \in lost
    /\ UNCHANGED revision

Next ==
    \/ \E c \in Claim : Draft(c) \/ Link(c) \/ Approve(c) \/ Reject(c)
    \/ \E lost, ended \in SUBSET Claim : WorldChanges(lost, ended)

Spec == Init /\ [][Next]_vars

TypeOK ==
    /\ revision \in [Claim -> Nat]
    /\ state \in [Claim -> State]
    /\ supported \in [Claim -> BOOLEAN]

(* An active claim revision rests on eligible evidence: the purpose of the
   cascade of docs/adr/0009, line 250. *)
ActiveIsSupported == \A c \in Claim : state[c] \in Active => supported[c]

(* A rejected or invalidated revision is over: it leaves that state only as a
   new revision (docs/adr/0009, lines 249 and 250). *)
OverIsOver ==
    [][\A c \in Claim :
          state[c] \in {"rejected", "invalidated"} /\ state'[c] # state[c]
              => revision'[c] = revision[c] + 1 /\ state'[c] = "draft"]_vars
=============================================================================
