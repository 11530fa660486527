-------------------------- MODULE MCArenaAllocator --------------------------
(* A small heap for TLC: 14 addresses, alignments 1 and 4, and in-place      *)
(* requests that fall inside, across and outside its bounds.                 *)
EXTENDS ArenaAllocator

MCInplaceRequests ==
    [address : {1, 2, 6, 11, 15}, bytes : {1, 2, 6}]

MCAllocRequests == [bytes : {1, 3, 6}, alignment : {1, 4}]
=============================================================================
