---------------------------- MODULE MCBootFiles ----------------------------
(* RDRAM of 24 addresses in pages of 4.  The kernel is linked where stage 1
   is, across its end, or clear of it; the files are absent, small, or too
   large for one heap or for both. *)
EXTENDS BootFiles

MCHeaders ==
    {h \in [addr_load : {1, 4, 8, 12, 15},
            memory : {2, 6, 9},
            length : [Files -> {0, 1, 2, 5, 6, 9, 12}]] :
        h.length["kernel"] > 0 /\ h.length["kernel"] <= h.memory}
=============================================================================
