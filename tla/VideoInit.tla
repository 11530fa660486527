----------------------------- MODULE VideoInit -----------------------------
(***************************************************************************)
(* tux64_boot_stage1_video_initialize_context, store by store: the loop    *)
(* that fills the clear colour buffer, and the two members of the context  *)
(* that follow the buffer in memory.  Memory is a function from the        *)
(* 8-byte words counted from the start of the buffer.                      *)
(***************************************************************************)
EXTENDS Naturals

CONSTANTS
    BufferWords,    \* 0x1000 / 8, the length of the buffer in words
    WordBytes       \* 8

(* Behind the buffer come the fence and the index of the displayed framebuffer,
   given a word each, then other variables. *)
Buffer == 0 .. BufferWords - 1
Fence == BufferWords
Index == BufferWords + 1
Others == BufferWords + 2 .. BufferWords * WordBytes + 1

VARIABLES pc, iter_dma_buffer, words_remaining, memory
vars == <<pc, iter_dma_buffer, words_remaining, memory>>

Init ==
    /\ pc = "fill"
    /\ iter_dma_buffer = 0
    /\ words_remaining = BufferWords * WordBytes    \* sizeof the buffer
    /\ memory = [w \in Buffer \cup {Fence, Index} \cup Others |-> "old"]

Fill ==
    /\ pc = "fill"
    /\ memory' = [memory EXCEPT ![iter_dma_buffer] = "color"]
    /\ iter_dma_buffer' = iter_dma_buffer + 1
    /\ words_remaining' = words_remaining - 1
    /\ pc' = IF words_remaining = 1 THEN "fence" ELSE "fill"

(* A variant that leaves the fence as the static storage has it. *)
FaultyInitializeFence ==
    /\ pc = "fence" /\ pc' = "index"
    /\ UNCHANGED <<iter_dma_buffer, words_remaining, memory>>

InitializeFence ==
    /\ pc = "fence" /\ pc' = "index"
    /\ memory' = [memory EXCEPT ![Fence] = "clear"]
    /\ UNCHANGED <<iter_dma_buffer, words_remaining>>

(* The framebuffers, before the buffer in memory, have been cleared. *)
SetDisplaying ==
    /\ pc = "index" /\ pc' = "done"
    /\ memory' = [memory EXCEPT ![Index] = "last"]
    /\ UNCHANGED <<iter_dma_buffer, words_remaining>>

Next == Fill \/ InitializeFence \/ SetDisplaying

Spec == Init /\ [][Next]_vars
-----------------------------------------------------------------------------
(* Whatever the loop stores behind the buffer, the context is initialised when
   the function returns: the colour is in every word of the buffer, the fence is
   clear and the last framebuffer is the displayed one. *)
ContextReady ==
    pc = "done" =>
        /\ \A w \in Buffer : memory[w] = "color"
        /\ memory[Fence] = "clear" /\ memory[Index] = "last"

(* "we now fill the rsp dma buffer 8 bytes at a time" (video.c:183): no other
   word is written. *)
OnlyBufferIsFilled == \A w \in Others : memory[w] = "old"
=============================================================================
