----------------------------- MODULE MCStage1Fsm -----------------------------
(* Kernel, stage 2 and the command line of one or two blocks, the optional    *)
(* files also absent, under every combination of the build and header flags   *)
(* that differ in control.                                                    *)
EXTENDS Stage1Fsm

MCConfigs ==
    {c \in [delayCompiled : BOOLEAN, noDelay : BOOLEAN, checksum : BOOLEAN,
            stage2Fits : BOOLEAN, length : [Images -> {0, 1, 2}]] :
        /\ c.length["kernel"] = 2 /\ c.length["stage2"] \in {1, 2}
        /\ c.length["initramfs"] \in {0, 1} /\ c.length["command_line"] \in {0, 1}}
=============================================================================
