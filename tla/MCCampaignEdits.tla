--------------------------- MODULE MCCampaignEdits ---------------------------
(***************************************************************************)
(* The sessions are interchangeable, and so are the ids of commands.       *)
(***************************************************************************)
EXTENDS CampaignEdits, TLC

SessionsAndActions == Permutations(Session) \cup Permutations(Action)
=============================================================================
