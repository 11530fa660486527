------------------------------ MODULE MCCache ------------------------------
(* Twelve cells in lines of two and four, blocks of two.  Stage 1 ends in the
   middle of a data line and of an instruction line, with something it only
   reads; the kernel and the command line begin in the rest of that line or
   behind it, and may share a line with each other. *)
EXTENDS Cache

MCCode == {0, 6}
MCData == {4, 5}

File1(start, cells) == [start |-> start, cells |-> cells]

(* Stage 2 loads a file where stage 1 lay but never had a line cached, ... *)
MCUntouched == [stage1 |-> <<File1(7, 3)>>, stage2 |-> <<File1(10, 2)>>]

MCBoots ==
    {[stage1 |-> <<File1(9, 3), File1(c, 9 - c)>>, stage2 |-> << >>] :
        c \in {7, 8}}
    \cup {[stage1 |-> <<File1(7, 5)>>, stage2 |-> << >>], MCUntouched}

(* ... and where its code and its data were. *)
MCStage2Boots == {[stage1 |-> <<File1(8, 3)>>, stage2 |-> <<File1(3, 3)>>]}
=============================================================================
