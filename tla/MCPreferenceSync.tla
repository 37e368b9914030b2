-------------------------- MODULE MCPreferenceSync --------------------------
(* Instances of PreferenceSync for TLC: two cards with two keys each.       *)
EXTENDS PreferenceSync, TLC

CONSTANTS eq, bass

MCKeySeq == <<"eqEnable", "eqBands", "bassEnable", "bassGain">>
MCNsOf == ("eqEnable" :> eq) @@ ("eqBands" :> eq) @@
          ("bassEnable" :> bass) @@ ("bassGain" :> bass)
=============================================================================
