--------------------------- MODULE MCProductClaims ---------------------------
(***************************************************************************)
(* The sessions are interchangeable, and so are the ids of commands.       *)
(***************************************************************************)
EXTENDS ProductClaims, TLC

SessionsAndActions == Permutations(Session) \cup Permutations(Action)
=============================================================================
