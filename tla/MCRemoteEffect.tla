--------------------------- MODULE MCRemoteEffect ---------------------------
(* Instances of RemoteEffect for TLC.  Every outcome a file can have is      *)
(* there for a kind that has it.                                            *)
EXTENDS RemoteEffect, TLC

MCFilesOf ==
    [k \in Kinds |-> CASE k = "geq" -> {"g1"}
                       [] k = "prog" -> {"p1", "pNoInit", "pSyntax", "pEmpty"}
                       [] k = "ir" -> {"i1", "iTooLong"}
                       [] k = "hrir" -> {"h1"}]

MCOutcome ==
    [f \in Files |-> CASE f = "pSyntax" -> "refused"
                       [] f = "pNoInit" -> "kept"
                       [] f = "iTooLong" -> "geometry"
                       [] f = "pEmpty" -> "empty"
                       [] OTHER -> "ok"]
=============================================================================
