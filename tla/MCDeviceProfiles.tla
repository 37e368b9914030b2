-------------------------- MODULE MCDeviceProfiles --------------------------
(* Outputs are alike, and so are the effects of a kind.  One preset has      *)
(* nothing to say of the effects that ViPER4Android lacks.                   *)
EXTENDS DeviceProfiles, TLC

Alike == Permutations(Profiles)

MCPresets ==
    {[e \in Effects |-> IF e \in Original THEN "on" ELSE "missing"],
     [e \in Effects |-> IF e \in Original THEN "off" ELSE "on"]}
=============================================================================
