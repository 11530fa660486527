-------------------------------- MODULE Video --------------------------------
(* The initialisation of the video context (VideoInit), then the frames       *)
(* (VideoLoop): while the context is filled the interrupt of the video        *)
(* interface is masked (stage1.c:107-112), and the framebuffer behind the     *)
(* first frame is cleared through the colour buffer that has been filled.     *)
EXTENDS VideoLoop

CONSTANTS BufferWords, WordBytes    \* see VideoInit

ASSUME BufferAssumption == BufferWords \in Nat \ {0} /\ WordBytes \in Nat \ {0}

VARIABLES init_pc, iter_dma_buffer, words_remaining, memory

context == <<init_pc, iter_dma_buffer, words_remaining, memory>>
Context == INSTANCE VideoInit WITH pc <- init_pc

VideoStart == Init /\ Context!Init

ClearColor == Context!Fill /\ UNCHANGED vars

(* The fence is the one the vertical blank signals.                           *)
FenceInitialize ==
    /\ Context!InitializeFence
    /\ vblank' = FALSE
    /\ UNCHANGED <<config, pc, todo, text, engine, overrun, screen>>

ClearDisplaying == init_pc = "index" /\ StartTransfer /\ UNCHANGED context

IndexDisplaying == todo = << >> /\ Context!SetDisplaying /\ UNCHANGED vars

Initialize == ClearColor \/ FenceInitialize \/ ClearDisplaying \/ IndexDisplaying

Frames == init_pc = "done" /\ Cpu /\ UNCHANGED context
VideoInterrupt == init_pc = "done" /\ VBlank /\ UNCHANGED context
Engine == Dma /\ UNCHANGED context

VideoNext == Initialize \/ Frames \/ VideoInterrupt \/ Engine

VideoSpec ==
    /\ VideoStart /\ [][VideoNext]_<<vars, context>>
    /\ WF_<<vars, context>>(Initialize \/ Frames)
    /\ WF_<<vars, context>>(Engine) /\ WF_<<vars, context>>(VideoInterrupt)
-----------------------------------------------------------------------------
(* Whatever the colour loop stores behind its buffer, every word of the buffer,
   the fence and the index are initialised when the function returns
   (video.c:283-306). *)
ContextReady == Context!ContextReady
=============================================================================
