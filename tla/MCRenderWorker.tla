--------------------------- MODULE MCRenderWorker ---------------------------
(***************************************************************************)
(* Small instances of RenderWorker for TLC: two workers that share a       *)
(* machine, jobs with one retry.                                           *)
(***************************************************************************)
EXTENDS RenderWorker

MCMaxRetries == [j \in Job |-> 1]
MCServes == [w \in Worker |-> Job]
MCHostOf == [w \in Worker |-> "trinidad"]
=============================================================================
