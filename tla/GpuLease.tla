------------------------------ MODULE GpuLease ------------------------------
(***************************************************************************)
(* The lease on a host's GPU: LocalFsGpuLeaseAdapter, a lock file made by  *)
(* link(2) with its reclaim guard, and the one caller that takes and       *)
(* returns it, ExecuteProfileRenderUseCase.  Every system call is a step,  *)
(* so the file read in one step may be another file in the next; the probe *)
(* kill(pid, 0) is a step of its own for the same reason.                  *)
(*                                                                         *)
(* A process is its pid: a restarted worker is another process, and pids   *)
(* are not reused.  A process asks for one lease at a time, so its pid     *)
(* stands for the leaseId too.  All processes run on one host, and the     *)
(* lock files are only ever written by this code, whole.                   *)
(*                                                                         *)
(* ComfyUI, which does the rendering, is a process of its own: what has    *)
(* been queued there goes on when its client dies or gives up.             *)
(***************************************************************************)
CONSTANTS
  Proc,      \* the processes that render on this host
  Mortal,    \* those that may die at any moment
  Governed,  \* those whose renders have an executionPolicy (H3 candidates)
  NoHolder   \* no lock file

ASSUME MortalAssumption == Mortal \subseteq Proc
ASSUME GovernedAssumption == Governed \subseteq Proc
ASSUME NoHolderAssumption == NoHolder \notin Proc

VARIABLES
  pc,        \* pc[p]: the next system call of p
  seen,      \* seen[p]: the holder p read from a lock file
  lock,      \* the holder named by the lock file
  guard,     \* the holder named by the reclaim guard
  resume,    \* resume[p]: where p goes on once its guard is gone
  generating,  \* the processes with a generation that ComfyUI may be at
  quarantined, \* the processes that have kept their lease for good
  untimely     \* history: a death at an UntimelyMoment has happened

engineVars == <<generating, quarantined, untimely>>
leaseVars == <<pc, seen, lock, guard, resume, generating, quarantined, untimely>>

Acquiring == {"link", "read", "probe"}
Guarding == {"linkGuard", "readGuard", "probeGuard", "unlinkGuard"}
Guarded == {"reread", "reprobe", "unlinkLock", "checkGuard", "dropGuard"}
Owning == {"render", "checkLock", "dropLock"}
Step == Acquiring \cup Guarding \cup Guarded \cup Owning \cup {"idle", "dead"}

Holder == Proc \cup {NoHolder}

LeaseTypeOK ==
  /\ pc \in [Proc -> Step]
  /\ seen \in [Proc -> Holder]
  /\ lock \in Holder
  /\ guard \in Holder
  /\ resume \in [Proc -> {"link", "idle"}]
  /\ generating \subseteq Proc
  /\ quarantined \subseteq Governed
  /\ untimely \in BOOLEAN

LeaseInit ==
  /\ pc = [p \in Proc |-> "idle"]
  /\ seen = [p \in Proc |-> NoHolder]
  /\ lock = NoHolder
  /\ guard = NoHolder
  /\ resume = [p \in Proc |-> "idle"]
  /\ generating = {}
  /\ quarantined = {}
  /\ untimely = FALSE

Live(p) == pc[p] # "dead"
Goto(p, step) == pc' = [pc EXCEPT ![p] = step]
AtCall(p, step) == pc[p] = step
Remember(p, holder) == seen' = [seen EXCEPT ![p] = holder]
Forget(p) == Remember(p, NoHolder)

-----------------------------------------------------------------------------
\* acquireLease.
Acquire(p) ==
  /\ AtCall(p, "idle")
  /\ Goto(p, "link")
  /\ UNCHANGED <<seen, lock, guard, resume, engineVars>>

\* With the lease the use case goes on to queueRender.
Link(p) ==
  /\ AtCall(p, "link")
  /\ \/ lock = NoHolder /\ lock' = p /\ generating' = generating \cup {p} /\ Goto(p, "render")
     \/ lock # NoHolder /\ Goto(p, "read") /\ UNCHANGED <<lock, generating>>
  /\ UNCHANGED <<seen, guard, resume, quarantined, untimely>>

\* A lock released in the meantime is tried again.
Read(p) ==
  /\ AtCall(p, "read")
  /\ Remember(p, lock)
  /\ Goto(p, IF lock = NoHolder THEN "link" ELSE "probe")
  /\ UNCHANGED <<lock, guard, resume, engineVars>>

\* A live holder is refused, GpuLeaseUnavailableError.
Probe(p) ==
  /\ AtCall(p, "probe")
  /\ Goto(p, IF Live(seen[p]) THEN "idle" ELSE "linkGuard")
  /\ Forget(p)
  /\ UNCHANGED <<lock, guard, resume, engineVars>>

-----------------------------------------------------------------------------
\* reclaimDeadHolder: own the guard first.
LinkGuard(p) ==
  /\ AtCall(p, "linkGuard")
  /\ \/ guard = NoHolder /\ guard' = p /\ Goto(p, "reread")
     \/ guard # NoHolder /\ Goto(p, "readGuard") /\ UNCHANGED guard
  /\ UNCHANGED <<seen, lock, resume, engineVars>>

ReadGuard(p) ==
  /\ AtCall(p, "readGuard")
  /\ Remember(p, guard)
  /\ Goto(p, IF guard = NoHolder THEN "linkGuard" ELSE "probeGuard")
  /\ UNCHANGED <<lock, guard, resume, engineVars>>

\* Mutant: the guard of a dead reclaimer is respected for ever.
ProbeGuardForgiving(p) ==
  /\ AtCall(p, "probeGuard")
  /\ Goto(p, "idle")
  /\ Forget(p)
  /\ UNCHANGED <<lock, guard, resume, engineVars>>

ProbeGuard(p) ==
  /\ AtCall(p, "probeGuard")
  /\ Goto(p, IF Live(seen[p]) THEN "idle" ELSE "unlinkGuard")
  /\ Forget(p)
  /\ UNCHANGED <<lock, guard, resume, engineVars>>

\* The path is unlinked, whichever guard is there by now.
UnlinkGuard(p) ==
  /\ AtCall(p, "unlinkGuard")
  /\ guard' = NoHolder
  /\ Goto(p, "linkGuard")
  /\ UNCHANGED <<seen, lock, resume, engineVars>>

\* With the guard owned, the lock is read and its holder probed again.
Reread(p) ==
  /\ AtCall(p, "reread")
  /\ Remember(p, lock)
  /\ IF lock = NoHolder
     THEN Goto(p, "checkGuard") /\ resume' = [resume EXCEPT ![p] = "link"]
     ELSE Goto(p, "reprobe") /\ UNCHANGED resume
  /\ UNCHANGED <<lock, guard, engineVars>>

Reprobe(p) ==
  /\ AtCall(p, "reprobe")
  /\ IF Live(seen[p])
     THEN Goto(p, "checkGuard") /\ resume' = [resume EXCEPT ![p] = "idle"]
     ELSE Goto(p, "unlinkLock") /\ UNCHANGED resume
  /\ Forget(p)
  /\ UNCHANGED <<lock, guard, engineVars>>

\* The path is unlinked here too, whichever lock is there by now.
UnlinkLock(p) ==
  /\ AtCall(p, "unlinkLock")
  /\ lock' = NoHolder
  /\ resume' = [resume EXCEPT ![p] = "link"]
  /\ Goto(p, "checkGuard")
  /\ UNCHANGED <<seen, guard, engineVars>>

\* finally: the guard is dropped if it is still ours.
CheckGuard(p) ==
  /\ AtCall(p, "checkGuard")
  /\ IF guard = p
     THEN Goto(p, "dropGuard") /\ UNCHANGED resume
     ELSE Goto(p, resume[p]) /\ resume' = [resume EXCEPT ![p] = "idle"]
  /\ UNCHANGED <<seen, lock, guard, engineVars>>

DropGuard(p) ==
  /\ AtCall(p, "dropGuard")
  /\ guard' = NoHolder
  /\ Goto(p, resume[p])
  /\ resume' = [resume EXCEPT ![p] = "idle"]
  /\ UNCHANGED <<seen, lock, engineVars>>

-----------------------------------------------------------------------------
\* ComfyUI is done with a generation, has been interrupted, or the prompt
\* never got there; its client may be waiting, gone or dead.
GenerationEnds(p) ==
  /\ p \in generating
  /\ generating' = generating \ {p}
  /\ UNCHANGED <<pc, seen, lock, guard, resume, quarantined, untimely>>

\* The render has ended, and the models are unloaded: release.  Without an
\* executionPolicy a failure to unload them is swallowed.
Finish(p) ==
  /\ AtCall(p, "render")
  /\ p \notin generating
  /\ Goto(p, "checkLock")
  /\ UNCHANGED <<seen, lock, guard, resume, engineVars>>

\* A timeout, a lost socket or a lost answer ends the render for its client
\* only.  Cancelling is an interrupt that does not report its own failure,
\* and without a receipt there is none: the lease goes back all the same.
AbandonRender(p) ==
  /\ AtCall(p, "render")
  /\ p \in generating
  /\ Goto(p, "checkLock")
  /\ UNCHANGED <<seen, lock, guard, resume, engineVars>>

\* Mutant: the lease goes back with the models of the render on the GPU.
QuarantineReleasing(p) ==
  /\ AtCall(p, "render")
  /\ p \in Governed
  /\ quarantined' = quarantined \cup {p}
  /\ Goto(p, "checkLock")
  /\ UNCHANGED <<seen, lock, guard, resume, generating, untimely>>

\* The models of a governed render cannot be unloaded, whatever came of its
\* generation: the lease is kept (skipLeaseRelease), the process goes on.
Quarantine(p) ==
  /\ AtCall(p, "render")
  /\ p \in Governed
  /\ quarantined' = quarantined \cup {p}
  /\ Goto(p, "idle")
  /\ UNCHANGED <<seen, lock, guard, resume, generating, untimely>>

\* release: a lock file that is gone or another's is left alone.
CheckLock(p) ==
  /\ AtCall(p, "checkLock")
  /\ Goto(p, IF lock = p THEN "dropLock" ELSE "idle")
  /\ UNCHANGED <<seen, lock, guard, resume, engineVars>>

DropLock(p) ==
  /\ AtCall(p, "dropLock")
  /\ lock' = NoHolder
  /\ Goto(p, "idle")
  /\ UNCHANGED <<seen, guard, resume, engineVars>>

\* The moments at which a death undoes what a reclaimer relies on: p owns the
\* guard, or a reclaimer has read p from a file and is about to probe p, so
\* that it takes what is under the path by then for the file of a dead one.
UntimelyMoment(p) ==
  \/ guard = p
  \/ \E q \in Proc : seen[q] = p /\ pc[q] \in {"probeGuard", "reprobe"}

\* Lock, guard and generation outlive their process.
Die(p) ==
  /\ p \in Mortal
  /\ Live(p)
  /\ Goto(p, "dead")
  /\ Forget(p)
  /\ resume' = [resume EXCEPT ![p] = "idle"]
  /\ untimely' = (untimely \/ UntimelyMoment(p))
  /\ UNCHANGED <<lock, guard, generating, quarantined>>

-----------------------------------------------------------------------------
Recover(p) ==
  \/ LinkGuard(p) \/ ReadGuard(p) \/ ProbeGuard(p) \/ UnlinkGuard(p)
  \/ Reread(p) \/ Reprobe(p) \/ UnlinkLock(p) \/ CheckGuard(p) \/ DropGuard(p)

Return(p) == Finish(p) \/ AbandonRender(p) \/ Quarantine(p) \/ CheckLock(p) \/ DropLock(p)

Run(p) == Acquire(p) \/ Link(p) \/ Read(p) \/ Probe(p) \/ Recover(p) \/ Return(p)

LeaseNext == \E p \in Proc : Run(p) \/ GenerationEnds(p) \/ Die(p)

LeaseSpec == LeaseInit /\ [][LeaseNext]_leaseVars

\* A live worker keeps running, and after a refused lease its job is retried:
\* the claim loop of the worker asks for the lease again.
LeaseFairness == \A p \in Proc : WF_leaseVars(Run(p))

FairLeaseSpec == LeaseSpec /\ LeaseFairness

-----------------------------------------------------------------------------
\* The GPU is in use by p: ComfyUI may be at its generation, or has its models.
Occupies(p) == p \in generating \cup quarantined

\* Nobody answers for what ComfyUI does for p: p died, or gave the lease back.
Abandoned(p) == ~Live(p) \/ (pc[p] # "render" /\ p \notin quarantined)

\* One user of the GPU at a time: acquireLease lets nobody in beside a live
\* process that renders, or that has kept its lease because its models could
\* not be unloaded, however many others die while they hold the lock or
\* reclaim it.  The exceptions are three, each real in the code: a generation
\* whose process has died, one that was given up with its lease returned, and
\* everything after a death at an UntimelyMoment.
MutualExclusion ==
  ~untimely =>
    \A p, q \in Proc :
      Occupies(p) /\ Occupies(q) => p = q \/ Abandoned(p) \/ Abandoned(q)

\* The lock file names the process that renders, releases or is in quarantine:
\* nobody removes or replaces a live holder's lock, so release never finds its
\* ownership lost, but after a death at an UntimelyMoment.
HolderOwnsLock ==
  ~untimely =>
    \A p \in Proc : Live(p) /\ (pc[p] \in Owning \/ p \in quarantined) => lock = p

\* The lock of a dead holder, and the guard of a dead reclaimer on the way,
\* do not keep the GPU unused for ever while somebody alive asks for it.
DeadLockIsReclaimed ==
  \A d \in Mortal :
    (lock = d /\ ~Live(d)) ~> (lock # d \/ \A p \in Proc : ~Live(p))
=============================================================================
