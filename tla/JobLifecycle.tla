---------------------------- MODULE JobLifecycle ----------------------------
(***************************************************************************)
(* What the dispatch contract promises of one durable job, whatever table, *)
(* worker or transport carries it: a job is owned by at most one lease at  *)
(* a time, leases of a job are numbered by an epoch that only grows, a     *)
(* lease that is still alive is never taken from its holder, and a job     *)
(* leaves a result only through the lease that owns it at that moment, and *)
(* only once.  RenderJobQueue is shown to implement this module.           *)
(***************************************************************************)
EXTENDS Naturals

CONSTANT Job

VARIABLES
  phase,    \* phase[j]: what the outside can tell of j
  epoch,    \* epoch[j]: how many leases j has been given
  alive,    \* the jobs whose current lease has not expired
  result    \* result[j]: the epoch whose holder finished j, 0 before that

lifecycleVars == <<phase, epoch, alive, result>>

Phase == {"absent", "waiting", "owned", "done", "dead"}

Init ==
  /\ phase = [j \in Job |-> "absent"]
  /\ epoch = [j \in Job |-> 0]
  /\ alive = {}
  /\ result = [j \in Job |-> 0]

Submit(j) ==
  /\ phase[j] = "absent"
  /\ phase' = [phase EXCEPT ![j] = "waiting"]
  /\ UNCHANGED <<epoch, alive, result>>

\* A waiting job, or one whose lease has expired, is leased afresh.
Grant(j) ==
  /\ \/ phase[j] = "waiting"
     \/ phase[j] = "owned" /\ j \notin alive
  /\ phase' = [phase EXCEPT ![j] = "owned"]
  /\ epoch' = [epoch EXCEPT ![j] = @ + 1]
  /\ alive' = alive \cup {j}
  /\ UNCHANGED result

Renew(j) ==
  /\ phase[j] = "owned"
  /\ alive' = alive \cup {j}
  /\ UNCHANGED <<phase, epoch, result>>

Lapse(j) ==
  /\ alive' = alive \ {j}
  /\ UNCHANGED <<phase, epoch, result>>

\* The holder gives the job back (a failure to retry, or a deferral).
Release(j) ==
  /\ phase[j] = "owned"
  /\ phase' = [phase EXCEPT ![j] = "waiting"]
  /\ alive' = alive \ {j}
  /\ UNCHANGED <<epoch, result>>

Finish(j) ==
  /\ phase[j] = "owned"
  /\ phase' = [phase EXCEPT ![j] = "done"]
  /\ result' = [result EXCEPT ![j] = epoch[j]]
  /\ UNCHANGED <<epoch, alive>>

\* Jobs are given up for good, several at a time when leases are swept.
Bury(S) ==
  /\ \A j \in S : phase[j] \in {"waiting", "owned"}
  /\ phase' = [j \in Job |-> IF j \in S THEN "dead" ELSE phase[j]]
  /\ UNCHANGED <<epoch, alive, result>>

Next ==
  \/ \E j \in Job : \/ Submit(j) \/ Grant(j) \/ Renew(j) \/ Lapse(j)
                    \/ Release(j) \/ Finish(j)
  \/ \E S \in SUBSET Job : Bury(S)

Spec == Init /\ [][Next]_lifecycleVars
=============================================================================
