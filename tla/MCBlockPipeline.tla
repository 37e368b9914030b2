-------------------------- MODULE MCBlockPipeline --------------------------
(* Instances of BlockPipeline for TLC.                                      *)
EXTENDS BlockPipeline, TLC

MCRates == {48000, 96000, 32000, 64000, 12000}
MCNum == [r \in MCRates |->
    CASE r = 48000 -> 1 [] r = 96000 -> 1 [] r = 32000 -> 3 [] r = 64000 -> 3 [] OTHER -> 4]
MCDen == [r \in MCRates |->
    CASE r = 48000 -> 1 [] r = 96000 -> 2 [] r = 32000 -> 2 [] r = 64000 -> 4 [] OTHER -> 1]
=============================================================================
