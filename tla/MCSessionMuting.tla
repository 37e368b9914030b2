--------------------------- MODULE MCSessionMuting ---------------------------
(* Instances of SessionMuting for TLC: one session for each app but our own. *)
EXTENDS SessionMuting, TLC

CONSTANTS own, appA, appB, sidA, sidB

MCOwner == (sidA :> appA) @@ (sidB :> appB)
MCOwner1 == (sidA :> appA)
=============================================================================
