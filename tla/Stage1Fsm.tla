------------------------------ MODULE Stage1Fsm ------------------------------
(* Stage 1 of the boot loader after its initialisation: the finite state      *)
(* machine that allocates and loads the boot files and starts the kernel or   *)
(* stage 2, inside the frame loop that renders the console, waits for the     *)
(* vertical blank and swaps the framebuffers.  The CPU runs concurrently with *)
(* the vertical blank interrupt and with the PI DMA engine.                   *)
(*                                                                            *)
(* Where a file is placed is BootFiles' subject: here transition_start gets   *)
(* any status the allocation can return.  The contents of a block are either  *)
(* what was requested or corrupt, and the checksum tells the two apart.       *)
EXTENDS Naturals

CONSTANTS
    Configs,     \* build options, header flags and file lengths, in blocks
    DelayTicks   \* frames a step of the boot is delayed for

Files == {"kernel", "initramfs", "command_line"}
Images == Files \cup {"stage2"}
Waits == {"halt", "boot_kernel_wait", "boot_stage2_wait"}
Transitions == Waits \cup
    {"start", "load_initramfs", "load_command_line", "load_stage2", "boot_kernel", "boot_stage2"}
Messages == {"no_memory", "checksum", "boot_kernel", "boot_stage2"}

(* A file other than an optional one has at least one block, and a delay      *)
(* lasts at least one frame.                                                  *)
ASSUME ConfigAssumption ==
    /\ DelayTicks \in Nat \ {0}
    /\ \A c \in Configs :
        /\ c.delayCompiled \in BOOLEAN /\ c.noDelay \in BOOLEAN
        /\ c.checksum \in BOOLEAN /\ c.stage2Fits \in BOOLEAN
        /\ c.length \in [Images -> Nat]
        /\ c.length["kernel"] > 0 /\ c.length["stage2"] > 0

VARIABLES
    config,      \* the element of Configs this boot runs with
    status,      \* load_info.status: files stage 1 can load itself
    state,       \* the state function of the machine
    memory,      \* the union of the states' private memory
    arguments,   \* are the kernel arguments written?
    console,     \* messages pushed to the console
    back, front, \* messages in the rendered and in the displayed framebuffer
    seen,        \* messages that were displayed at some vertical blank
    pc,          \* where the CPU is in the frame loop
    vblank,      \* is the vertical blank fence signalled?
    video,       \* is the video output enabled?
    interrupts,  \* are interrupts enabled?
    pi,          \* the PI DMA engine
    corrupt,     \* images that got a corrupt block
    loaded,      \* images whose last block has arrived
    outcome      \* how stage 1 ended

machine == <<state, memory, console>>
allocations == <<status, arguments>>
frame == <<back, front, seen>>
hardware == <<video, interrupts, pi, corrupt, loaded>>
vars == <<config, machine, allocations, frame, pc, vblank, hardware, outcome>>
-----------------------------------------------------------------------------
(* Transitions: each sets the next state, and may call the following          *)
(* transition directly.  They are defined from the last to the first.         *)

Delay(transition, ticks) ==
    /\ memory' = [kind |-> "delay", transition |-> transition, ticks |-> ticks]
    /\ state' = "delay"

(* The definitions named Faulty... are variants with a plausible bug, which    *)
(* the properties of this module must tell from the code.                     *)

(* A last message gets one frame, unless delays are compiled out.             *)
LastMessage(message, wait, next) ==
    /\ console' = console \cup {message}
    /\ IF config.delayCompiled
       THEN Delay(wait, 1)
       ELSE state' = next /\ UNCHANGED memory
    /\ UNCHANGED outcome

FaultyFail(reason) ==
    /\ console' = console \cup {reason}
    /\ state' = "halt"
    /\ UNCHANGED <<memory, outcome>>

Fail(reason) == LastMessage(reason, "halt", "halt")
BootKernel == LastMessage("boot_kernel", "boot_kernel_wait", "boot_kernel")
BootStage2 == LastMessage("boot_stage2", "boot_stage2_wait", "boot_stage2")

LoadFile(file, next) ==
    /\ memory' = [kind |-> "load_file", file |-> file,
                  remaining |-> config.length[file], next |-> next]
    /\ state' = "load_file"
    /\ UNCHANGED <<console, outcome>>

LoadStage2 ==
    IF config.stage2Fits
    THEN LoadFile("stage2", "boot_stage2")
    ELSE outcome' = "halted" /\ UNCHANGED machine

(* An empty file got no address, and a file outside stage 1's heap is left    *)
(* to stage 2.                                                                *)
Loadable(file) == config.length[file] > 0 /\ file \in status'

LoadCommandLine ==
    LET next == IF status' = Files THEN "boot_kernel" ELSE "load_stage2"
    IN  IF Loadable("command_line") THEN LoadFile("command_line", next)
        ELSE IF next = "boot_kernel" THEN BootKernel
        ELSE LoadStage2

LoadInitramfs ==
    IF Loadable("initramfs") THEN LoadFile("initramfs", "load_command_line")
    ELSE LoadCommandLine

LoadKernel ==
    IF Loadable("kernel") THEN LoadFile("kernel", "load_initramfs")
    ELSE LoadInitramfs

(* The allocation flags every empty file and those that fit stage 1's heap,   *)
(* or finds that a file fits neither heap.  See BootFiles.                    *)
Start ==
    \/ /\ Fail("no_memory")
       /\ status' \in SUBSET Files
       /\ UNCHANGED arguments
    \/ /\ status' \in {s \in SUBSET Files : \A f \in Files \ s : config.length[f] > 0}
       /\ arguments' = TRUE
       /\ LoadKernel

Run(transition) ==
    \/ transition = "start" /\ Start
    \/ /\ transition # "start"
       /\ UNCHANGED allocations
       /\ \/ transition = "load_initramfs" /\ LoadInitramfs
          \/ transition = "load_command_line" /\ LoadCommandLine
          \/ transition = "load_stage2" /\ LoadStage2
          \/ transition = "boot_kernel" /\ BootKernel
          \/ transition = "boot_stage2" /\ BootStage2
          \/ /\ transition \in Waits
             /\ state' = CASE transition = "halt" -> "halt"
                           [] transition = "boot_kernel_wait" -> "boot_kernel"
                           [] transition = "boot_stage2_wait" -> "boot_stage2"
             /\ UNCHANGED <<memory, console, outcome>>

Transition(transition) ==
    IF config.delayCompiled /\ ~config.noDelay
    THEN Delay(transition, DelayTicks) /\ UNCHANGED <<allocations, console, outcome>>
    ELSE Run(transition)
-----------------------------------------------------------------------------
(* The CPU.  Interrupts and video are on before the machine is initialised,   *)
(* so a vertical blank may already be signalled when the first frame starts.  *)

Init ==
    /\ config \in Configs
    /\ status = {} /\ state = "none" /\ memory = [kind |-> "none"]
    /\ arguments = FALSE
    /\ console = {} /\ back = {} /\ front = {} /\ seen = {}
    /\ pc = "initialize" /\ vblank \in BOOLEAN
    /\ video = TRUE /\ interrupts = TRUE
    /\ pi = "idle" /\ corrupt = {} /\ loaded = {}
    /\ outcome = "none"

Running(place) == outcome = "none" /\ pc = place
Goto(place) == pc' = place /\ UNCHANGED config

Initialize ==
    /\ Running("initialize")
    /\ Transition("start")
    /\ Goto("execute")
    /\ UNCHANGED <<frame, vblank, hardware>>

FaultyStateDelay ==
    /\ Running("execute") /\ state = "delay"
    /\ IF memory.ticks > 0
       THEN /\ memory' = [memory EXCEPT !.ticks = @ - 1]
            /\ UNCHANGED <<state, console, allocations, outcome>>
       ELSE Run(memory.transition)
    /\ Goto("render")
    /\ UNCHANGED <<frame, vblank, hardware>>

StateDelay ==
    /\ Running("execute") /\ state = "delay"
    /\ IF memory.ticks > 1
       THEN /\ memory' = [memory EXCEPT !.ticks = @ - 1]
            /\ UNCHANGED <<state, console, allocations, outcome>>
       ELSE Run(memory.transition)
    /\ Goto("render")
    /\ UNCHANGED <<frame, vblank, hardware>>

StateHalt ==
    /\ Running("execute") /\ state = "halt"
    /\ outcome' = "halted"
    /\ UNCHANGED <<config, machine, allocations, frame, pc, vblank, hardware>>

(* One round of state_load_file up to the start of the DMA transfer ...       *)
StateLoadFile ==
    /\ Running("execute") /\ state = "load_file"
    /\ pi' = "busy"
    /\ memory' = [memory EXCEPT !.remaining = @ - 1]
    /\ Goto("dma")
    /\ UNCHANGED <<state, console, allocations, frame, vblank, outcome>>
    /\ UNCHANGED <<video, interrupts, corrupt, loaded>>

FaultyBadChecksum == ~config.checksum /\ memory.file \in corrupt

FaultyWaitIdle ==
    /\ Running("dma") /\ pi = "idle"
    /\ \/ /\ memory.remaining > 0 \/ vblank
          /\ Goto(IF vblank THEN "render" ELSE "execute")
          /\ UNCHANGED <<machine, allocations, loaded, outcome>>
       \/ /\ memory.remaining = 0 /\ ~vblank
          /\ loaded' = loaded \cup {memory.file}
          /\ IF config.checksum /\ memory.file \in corrupt
             THEN Fail("checksum") /\ UNCHANGED allocations
             ELSE Transition(memory.next)
          /\ Goto("render")
    /\ UNCHANGED <<frame, vblank, video, interrupts, pi, corrupt>>

(* ... and from the end of it: wait_idle loops until the transfer completes,  *)
(* so the I/O error it could return is never handled.                         *)
BadChecksum == config.checksum /\ memory.file \in corrupt

WaitIdle ==
    /\ Running("dma") /\ pi = "idle"
    /\ \/ /\ memory.remaining > 0
          /\ Goto(IF vblank THEN "render" ELSE "execute")
          /\ UNCHANGED <<machine, allocations, loaded, outcome>>
       \/ /\ memory.remaining = 0
          /\ loaded' = loaded \cup {memory.file}
          /\ IF BadChecksum
             THEN Fail("checksum") /\ UNCHANGED allocations
             ELSE Transition(memory.next)
          /\ Goto("render")
    /\ UNCHANGED <<frame, vblank, video, interrupts, pi, corrupt>>

(* Resetting the hardware and leaving for the kernel or stage 2.              *)
StateBoot ==
    /\ Running("execute") /\ state \in {"boot_kernel", "boot_stage2"}
    /\ video' = FALSE /\ interrupts' = FALSE
    /\ outcome' = IF state = "boot_kernel" THEN "kernel" ELSE "stage2"
    /\ UNCHANGED <<config, machine, allocations, frame, pc, vblank, pi, corrupt, loaded>>

Render ==
    /\ Running("render")
    /\ back' = console
    /\ Goto("vblank_wait")
    /\ UNCHANGED <<machine, allocations, front, seen, vblank, hardware, outcome>>

SwapBuffers ==
    /\ Running("vblank_wait") /\ vblank
    /\ front' = back
    /\ Goto("vblank_end")
    /\ UNCHANGED <<machine, allocations, back, seen, vblank, hardware, outcome>>

FaultyVblankEnd ==
    /\ Running("vblank_end")
    /\ Goto("execute")
    /\ UNCHANGED <<machine, allocations, frame, vblank, hardware, outcome>>

VblankEnd ==
    /\ Running("vblank_end")
    /\ vblank' = FALSE
    /\ Goto("execute")
    /\ UNCHANGED <<machine, allocations, frame, hardware, outcome>>
-----------------------------------------------------------------------------
(* The hardware: the vertical blank interrupt and its handler, and the PI.    *)

VBlank ==
    /\ interrupts
    /\ vblank' = TRUE
    /\ seen' = IF video THEN seen \cup front ELSE seen
    /\ UNCHANGED <<config, machine, allocations, back, front, pc, hardware, outcome>>

PiComplete ==
    /\ pi = "busy" /\ pi' = "idle"
    /\ corrupt' \in {corrupt, corrupt \cup {memory.file}}
    /\ UNCHANGED <<config, machine, allocations, frame, pc, vblank>>
    /\ UNCHANGED <<video, interrupts, loaded, outcome>>

PiError ==
    /\ pi = "busy" /\ pi' = "error"
    /\ UNCHANGED <<config, machine, allocations, frame, pc, vblank>>
    /\ UNCHANGED <<video, interrupts, corrupt, loaded, outcome>>

Cpu ==
    \/ Initialize \/ StateDelay \/ StateHalt \/ StateLoadFile \/ WaitIdle \/ StateBoot
    \/ Render \/ SwapBuffers \/ VblankEnd

Pi == PiComplete \/ PiError

Next == Cpu \/ VBlank \/ Pi

(* The CPU keeps executing, a transfer ends, and the video interface raises   *)
(* its interrupt once per field.                                              *)
Fairness == WF_vars(Cpu) /\ WF_vars(Pi) /\ WF_vars(VBlank)

Spec == Init /\ [][Next]_vars /\ Fairness
-----------------------------------------------------------------------------
(* Every variable has its type.                                               *)
TypeOK ==
    /\ config \in Configs /\ status \subseteq Files
    /\ state \in {"none", "delay", "halt", "load_file", "boot_kernel", "boot_stage2"}
    /\ memory \in [kind : {"none"}]
           \cup [kind : {"delay"}, transition : Transitions, ticks : 1 .. DelayTicks]
           \cup [kind : {"load_file"}, file : Images, remaining : Nat, next : Transitions]
    /\ arguments \in BOOLEAN
    /\ \A shown \in {console, back, front, seen} : shown \subseteq Messages
    /\ pc \in {"initialize", "execute", "dma", "render", "vblank_wait", "vblank_end"}
    /\ vblank \in BOOLEAN /\ video \in BOOLEAN /\ interrupts \in BOOLEAN
    /\ pi \in {"idle", "busy", "error"}
    /\ corrupt \subseteq Images /\ loaded \subseteq Images
    /\ outcome \in {"none", "halted", "kernel", "stage2"}

(* The states share one union.  A state reads the member its transition       *)
(* wrote, also after the frames the vertical blank took the CPU away for.     *)
MemoryMatchesState ==
    outcome = "none" =>
        /\ state = "delay" => memory.kind = "delay"
        /\ state = "load_file" \/ pc = "dma" => memory.kind = "load_file" /\ state = "load_file"
        /\ pc = "execute" /\ state = "load_file" => memory.remaining > 0

(* What must have been loaded before stage 1 hands over, and with what        *)
(* contents: with checksums on, nothing that arrived corrupt is started.      *)
Nonempty(files) == {f \in files : config.length[f] > 0}
Trusted(images) == config.checksum => images \cap corrupt = {}

(* The kernel is entered only with every non-empty file loaded and verified,  *)
(* its arguments written and the PI at rest; stage 2 only with itself and the *)
(* files stage 1 vouches for in the status it is given, and never when        *)
(* nothing is left for it.                                                    *)
BootsWhatWasLoaded ==
    /\ outcome = "kernel" =>
        loaded = Nonempty(Files) /\ Trusted(loaded) /\ arguments /\ pi = "idle"
    /\ outcome = "stage2" =>
        /\ loaded = Nonempty(status) \cup {"stage2"} /\ status # Files
        /\ Trusted(loaded) /\ arguments /\ pi = "idle"

(* The error that halts stage 1 is in the displayed framebuffer when it       *)
(* halts.  The exceptions are the code's own: without delays compiled in, an  *)
(* error of the initial state has no frame to be rendered in, and the size    *)
(* check of stage 2 halts at once.                                            *)
ErrorIsDisplayed ==
    outcome = "halted" =>
        \/ front \cap {"no_memory", "checksum"} # {}
        \/ ~config.delayCompiled /\ console = {"no_memory"}
        \/ ~config.stage2Fits /\ console = {}

(* The boot message has been displayed for a frame before the video output    *)
(* is switched off, if delays are compiled in, however late the frame was.    *)
BootMessageIsSeen ==
    outcome \in {"kernel", "stage2"} /\ config.delayCompiled =>
        (IF outcome = "kernel" THEN "boot_kernel" ELSE "boot_stage2") \in seen

(* A lost or late vertical blank never stops the boot: without I/O errors     *)
(* stage 1 halts with a reason or hands over.                                 *)
BootEnds == <>(outcome # "none" \/ pi = "error")

(* pi.h says of wait_idle: it waits until the transfer "either completes or   *)
(* an I/O error is encountered".                                              *)
IoErrorEndsWait == pi = "error" ~> pc # "dma"
=============================================================================
