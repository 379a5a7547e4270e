-------------------------- MODULE MCRenderJobQueue --------------------------
(***************************************************************************)
(* Small instances of RenderJobQueue for TLC.                              *)
(***************************************************************************)
EXTENDS RenderJobQueue

\* Jobs 1 and 2 are candidate jobs that target the same slot, job 3 renders
\* for production.
MCKind == [j \in Job |-> IF j = 3 THEN "production" ELSE "candidate"]
MCSlot == [j \in Job |-> IF j = 3 THEN "none" ELSE "beat1"]
MCMaxRetries == [j \in Job |-> IF j = 2 THEN 0 ELSE 1]
MCServes == [w \in Worker |-> Job]
=============================================================================
