---------------------------- MODULE MCVideo --------------------------------
(* A framebuffer of two blocks, the second the remainder, with a cell of text
   in each. *)
EXTENDS Video

MCBlocks ==
    << [cells |-> {"cell1"}, logo |-> "logo1"],
       [cells |-> {"cell2"}, logo |-> "logo2"] >>
=============================================================================
