---------------------------- MODULE MCGlobalHost ----------------------------
(* Players are alike.                                                       *)
EXTENDS GlobalHost, TLC

Alike == Permutations(Apps)
=============================================================================
