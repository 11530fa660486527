------------------------------- MODULE MCStage1 -------------------------------
(* The instance of MCStage1Fsm, after resets that leave every source masked,    *)
(* the video interface unmasked, as a program that was reset does, or others;   *)
(* the transfer of stage 1 has left its interrupt raised.                       *)
EXTENDS Stage1

MCConfigs ==
    {c \in [delayCompiled : BOOLEAN, noDelay : BOOLEAN, checksum : BOOLEAN,
            stage2Fits : BOOLEAN, length : [Images -> {0, 1, 2}]] :
        /\ c.length["kernel"] = 2 /\ c.length["stage2"] \in {1, 2}
        /\ c.length["initramfs"] \in {0, 1} /\ c.length["command_line"] \in {0, 1}}

MCResets ==
    {[mask |-> {}, interrupt |-> {"pi"}], [mask |-> {"vi"}, interrupt |-> {"pi", "vi"}],
     [mask |-> {"ai", "pi"}, interrupt |-> {"vi"}]}
=============================================================================
