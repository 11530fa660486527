----------------------------- MODULE VideoLoop -----------------------------
(***************************************************************************)
(* Drawing a frame with RSP DMA: the CPU queues transfers that clear the   *)
(* framebuffer, print the console and draw the logo, all of them through   *)
(* the one buffer RSP IMEM, while the DMA engine works in the background,  *)
(* the video interface reads the other framebuffer and its interrupt       *)
(* signals the vertical blank.                                             *)
(*                                                                         *)
(* A framebuffer is cut in blocks, one per clearing transfer.  What can be *)
(* told apart in a block are its cells of text and its part of the logo.   *)
(***************************************************************************)
EXTENDS Naturals, Sequences, SequencesExt

CONSTANTS
    Blocks,         \* sequence of blocks, each with its cells and its part
                    \* of the logo
    InitOutlastsDma \* have the transfers of the initialisation ended when
                    \* the first frame begins?

Cells == UNION {Blocks[b].cells : b \in DOMAIN Blocks}
LogoParts == {Blocks[b].logo : b \in DOMAIN Blocks}
Places == Cells \cup LogoParts
Contents == {"garbage", "clear", "font"} \cup LogoParts

ASSUME LayoutAssumption ==
    /\ Blocks \in Seq([cells : SUBSET STRING, logo : STRING]) /\ Blocks # << >>
    /\ IsFiniteSet(Cells)
    /\ Cells \cap LogoParts = {} /\ "imem" \notin LogoParts
    /\ InitOutlastsDma \in BOOLEAN

VARIABLES
    config,       \* [doubleBuffering, logo]: build options
    pc,           \* "draw", "vblank_wait" or "vblank_end"; "start" before
    todo,         \* transfers of this frame the CPU has still to start
    text,         \* cells with a character that is not a space
    dma,          \* transfers of the engine: the active one, then the queued
    overrun,      \* has a transfer been started with the queue full?
    imem,         \* what RSP IMEM holds
    framebuffers, \* contents of both framebuffers
    displaying,   \* framebuffer_index_displaying
    origin,       \* the framebuffer VI_ORIGIN points to, 2 for neither
    expected,     \* what the frame in VI_ORIGIN was meant to show
    vblank        \* the vertical blank fence

engine == <<dma, imem, framebuffers>>
screen == <<displaying, origin, expected>>
vars == <<config, pc, todo, text, engine, overrun, screen, vblank>>

Rendering == (displaying + 1) % 2

(* What a frame shows: the background, the characters and the logo. *)
Image(cells) ==
    [p \in Places |-> IF p \in cells THEN "font"
                      ELSE IF p \in LogoParts /\ config.logo THEN p ELSE "clear"]
-----------------------------------------------------------------------------
(* A transfer, with what the CPU waits for before it starts it.  A load fills
   IMEM, a store copies IMEM to places of a framebuffer. *)

Load(waits, data) == [waits |-> waits, data |-> data, to |-> {}, buffer |-> 0]
Store(waits, buffer, places) ==
    [waits |-> waits, data |-> "imem", to |-> places, buffer |-> buffer]

(* The definitions named Faulty... are variants with a plausible bug, which the
   properties of this module must tell from the code. *)

(* The first transfer does not wait: its caller has.  The last block is the
   remainder of the framebuffer. *)
ClearFramebuffer(buffer) ==
    <<Load("none", "clear")>>
        \o [b \in DOMAIN Blocks |-> Store("queue", buffer, {Blocks[b].logo} \cup Blocks[b].cells)]

FaultyFbconRender(buffer, cells) ==
    LET drawn == SetToSeq(cells)
    IN  [i \in DOMAIN drawn |-> Store("queue", buffer, {drawn[i]})]
        \o <<Load("queue", "font")>>

(* Its caller waits for the queue before the font map is loaded. *)
FbconRender(buffer, cells) ==
    LET drawn == SetToSeq(cells)
    IN  <<Load("queue", "font")>>
        \o [i \in DOMAIN drawn |-> Store("queue", buffer, {drawn[i]})]

(* Each part of the logo is loaded, then stored. *)
LogoRender(buffer) ==
    [i \in 1 .. 2 * Len(Blocks) |->
        LET part == Blocks[(i + 1) \div 2].logo
        IN  IF i % 2 = 1 THEN Load("queue", part) ELSE Store("queue", buffer, {part})]

Frame(buffer, cells) ==
    ClearFramebuffer(buffer) \o FbconRender(buffer, cells)
        \o (IF config.logo THEN LogoRender(buffer) ELSE << >>)

(* tux64_boot_rsp_dma_wait_queue, whose registers the engine keeps. *)
FaultyMayStart(waits) == Len(dma) <= 2

MayStart(waits) ==
    waits = "queue" => IF config.doubleBuffering THEN Len(dma) < 2 ELSE dma = << >>

(* The engine holds one active and one queued transfer; writing its registers
   with both in use replaces the queued one. *)
Enqueue(transfer) ==
    dma' = IF Len(dma) < 2 THEN Append(dma, transfer) ELSE <<dma[1], transfer>>
-----------------------------------------------------------------------------
(* tux64_boot_stage1_video_initialize: framebuffer 1 is cleared and taken as
   the displayed one; VI_ORIGIN still has the value of the register table. *)
Init ==
    /\ config \in [doubleBuffering : BOOLEAN, logo : BOOLEAN]
    /\ pc = "start"
    /\ displaying = 1 /\ origin = 2
    /\ todo = ClearFramebuffer(1)
    /\ text = {} /\ expected = [p \in Places |-> "garbage"]
    /\ dma = << >> /\ overrun = FALSE
    /\ imem = "garbage"
    /\ framebuffers = [b \in {0, 1} |-> [p \in Places |-> "garbage"]]
    /\ vblank = FALSE

StartTransfer ==
    /\ pc \in {"start", "draw"} /\ todo # << >>
    /\ MayStart(Head(todo).waits)
    /\ Enqueue(Head(todo))
    /\ overrun' = (overrun \/ Len(dma) = 2)
    /\ todo' = Tail(todo)
    /\ UNCHANGED <<config, pc, text, imem, framebuffers, screen, vblank>>

(* The state machine has run and left any text on the console. *)
BeginFrame ==
    /\ \/ pc = "start" /\ todo = << >> /\ (InitOutlastsDma => dma = << >>)
       \/ pc = "execute"
    /\ text' \in SUBSET Cells
    /\ todo' = Frame(Rendering, text')
    /\ pc' = "draw"
    /\ UNCHANGED <<config, engine, overrun, screen, vblank>>

FaultyWaitIdle ==
    /\ pc = "draw" /\ todo = << >>
    /\ pc' = "vblank_wait"
    /\ UNCHANGED <<config, todo, text, engine, overrun, screen, vblank>>

(* tux64_boot_rsp_dma_wait_idle, before the wait for the vertical blank. *)
WaitIdle ==
    /\ pc = "draw" /\ todo = << >>
    /\ dma = << >>
    /\ pc' = "vblank_wait"
    /\ UNCHANGED <<config, todo, text, engine, overrun, screen, vblank>>

FaultySwapIndex ==
    /\ pc = "vblank_wait" /\ vblank
    /\ displaying' = displaying + 1
    /\ origin' = displaying'
    /\ expected' = Image(text)
    /\ pc' = "vblank_end"
    /\ UNCHANGED <<config, todo, text, engine, overrun, vblank>>

SwapBuffers ==
    /\ pc = "vblank_wait" /\ vblank
    /\ displaying' = Rendering
    /\ origin' = Rendering
    /\ expected' = Image(text)
    /\ pc' = "vblank_end"
    /\ UNCHANGED <<config, todo, text, engine, overrun, vblank>>

VblankEnd ==
    /\ pc = "vblank_end"
    /\ vblank' = FALSE
    /\ pc' = "execute"
    /\ UNCHANGED <<config, todo, text, engine, overrun, screen>>

(* The engine completes the active transfer and goes on with the queued one. *)
Dma ==
    /\ dma # << >>
    /\ LET t == Head(dma)
       IN  /\ imem' = IF t.data = "imem" THEN imem ELSE t.data
           /\ framebuffers' =
                  [framebuffers EXCEPT ![t.buffer] =
                      [p \in Places |-> IF p \in t.to THEN imem ELSE @[p]]]
    /\ dma' = Tail(dma)
    /\ UNCHANGED <<config, pc, todo, text, overrun, screen, vblank>>

FaultyVBlank ==
    /\ pc # "start"
    /\ vblank' = (pc = "draw")
    /\ UNCHANGED <<config, pc, todo, text, engine, overrun, screen>>

(* The interrupt of the video interface and its handler. *)
VBlank ==
    /\ vblank' = TRUE
    /\ UNCHANGED <<config, pc, todo, text, engine, overrun, screen>>

Cpu == StartTransfer \/ BeginFrame \/ WaitIdle \/ SwapBuffers \/ VblankEnd

Next == Cpu \/ Dma \/ VBlank

Fairness == WF_vars(Cpu) /\ WF_vars(Dma) /\ WF_vars(VBlank)

Spec == Init /\ [][Next]_vars /\ Fairness
-----------------------------------------------------------------------------
(* Every variable has its type. *)
TypeOK ==
    /\ config \in [doubleBuffering : BOOLEAN, logo : BOOLEAN]
    /\ pc \in {"start", "execute", "draw", "vblank_wait", "vblank_end"}
    /\ text \subseteq Cells
    /\ Len(dma) <= 2
    /\ overrun \in BOOLEAN
    /\ imem \in Contents
    /\ framebuffers \in [{0, 1} -> [Places -> Contents]]
    /\ displaying \in {0, 1} /\ origin \in {0, 1, 2}
    /\ expected \in [Places -> Contents]
    /\ vblank \in BOOLEAN

(* No transfer, active or queued, writes to the framebuffer on the screen:
   the CPU lets all of them end before it swaps, even when the vertical blank
   came before the frame was drawn (stage1.c:151-154). *)
NoTearing ==
    \A i \in DOMAIN dma : dma[i].to # {} => dma[i].buffer # origin

(* What is on the screen is one whole frame, though every transfer goes
   through the same IMEM and none waits for the one before it to end. *)
ScreenIsWhole == origin # 2 => framebuffers[origin] = expected

(* The queue of the engine is never overrun (video.h:119-123). *)
NeverOverrun == ~overrun

(* Frames go on being displayed. *)
FramesGoOn == []<>(pc = "vblank_end")
=============================================================================
