-------------------------------- MODULE Stage1 --------------------------------
(* The main function of stage 1 (boot/stage1/stage1.c): the start, in which     *)
(* interrupts are switched on, and then the frame loop (Stage1Fsm), with the    *)
(* interrupts as the hardware raises them (Interrupts).  The CPU goes on where  *)
(* it was interrupted only when no source it is interrupted by is left.         *)
EXTENDS Stage1Fsm, Interrupts

CONSTANT Resets    \* the mask and the raised interrupts stage 0 leaves

ASSUME ResetAssumption == Resets \subseteq [mask : SUBSET Sources, interrupt : SUBSET Sources]

VARIABLES
    main,       \* the next call of the main function
    cleared     \* was every source masked at the start?

lines == <<mi_mask, mi_interrupt>>
stage1Vars == <<vars, lines, main, cleared>>

Stage1Init ==
    /\ Init
    /\ \E r \in Resets : mi_mask = r.mask /\ mi_interrupt = r.interrupt
    /\ cleared = (mi_mask = {})
    /\ main = "interrupt_initialize"

(* Interrupts are on from interrupt_initialize to interrupt_disable.            *)
Interrupted == main # "interrupt_initialize" /\ interrupts /\ Taken # {}

Call(function, next) ==
    ~Interrupted /\ main = function /\ main' = next /\ UNCHANGED cleared

InterruptInitialize ==
    Call("interrupt_initialize", "vi_disable") /\ UNCHANGED <<vars, lines>>

ViDisable ==
    /\ Call("vi_disable", "video_initialize") /\ interrupt_vi_disable
    /\ UNCHANGED <<vars, mi_interrupt>>

(* The fence is made new; the rest is VideoInit.                                *)
VideoInitialize ==
    /\ Call("video_initialize", "vi_enable") /\ vblank' = FALSE
    /\ UNCHANGED <<config, machine, allocations, frame, pc, hardware, outcome, lines>>

ViEnable ==
    /\ Call("vi_enable", "fsm_initialize") /\ interrupt_vi_enable
    /\ UNCHANGED <<vars, mi_interrupt>>

FsmInitialize ==
    Call("fsm_initialize", "terminate_boot") /\ Initialize /\ UNCHANGED lines

FaultyTerminateBoot ==
    /\ Call("terminate_boot", "frames") /\ vblank' = FALSE
    /\ UNCHANGED <<config, machine, allocations, frame, pc, hardware, outcome, lines>>

TerminateBoot ==
    Call("terminate_boot", "frames") /\ UNCHANGED <<vars, lines>>

Start1 ==
    \/ InterruptInitialize \/ ViDisable \/ VideoInitialize \/ ViEnable
    \/ FsmInitialize \/ TerminateBoot

Frames == Call("frames", "frames") /\ Cpu /\ UNCHANGED lines

(* A halted CPU is not interrupted any more.                                    *)
ServiceRoutine ==
    /\ Interrupted /\ outcome = "none"
    /\ Handle /\ VBlank
    /\ UNCHANGED <<mi_mask, main, cleared>>

(* A vertical blank, the end of a transfer of the PI, and the end of the write  *)
(* of the command to the PIF, which goes through the serial interface.          *)
VideoInterface ==
    /\ "vi" \notin mi_interrupt /\ outcome = "none" /\ Raise("vi")
    /\ UNCHANGED <<vars, mi_mask, main, cleared>>

PeripheralInterface ==
    Pi /\ Raise("pi") /\ UNCHANGED <<mi_mask, main, cleared>>

SerialInterface ==
    /\ main = "frames" /\ "si" \notin mi_interrupt /\ outcome = "none" /\ Raise("si")
    /\ UNCHANGED <<vars, mi_mask, main, cleared>>

Stage1Next ==
    \/ Start1 \/ Frames \/ ServiceRoutine
    \/ VideoInterface \/ PeripheralInterface \/ SerialInterface

(* Between two vertical blanks the CPU gets on with what they interrupted: a    *)
(* field is much longer than the service routine.                               *)
Stage1Spec ==
    /\ Stage1Init /\ [][Stage1Next]_stage1Vars
    /\ SF_stage1Vars(Start1 \/ Frames)
    /\ WF_stage1Vars(ServiceRoutine) /\ WF_stage1Vars(VideoInterface)
    /\ WF_stage1Vars(PeripheralInterface)
-----------------------------------------------------------------------------
(* The service routine is only entered for what it can end, and never while the
   fence it signals is initialised.  Sources that are unmasked at the start are
   left out of the first part: a set bit of the mask is written back as the bit
   that sets or clears another source, so that enabling and disabling the video
   interface changes others, for which the routine returns and is entered again
   (interrupt.c:236-252). *)
OnlyAwaitedInterrupts ==
    /\ Interrupted /\ cleared => Taken = {"vi"}
    /\ main = "video_initialize" => "vi" \notin mi_mask

(* Interrupts that come when they like never stop the boot: with every source
   masked at the start, stage 1 halts with a reason or hands over, or a transfer
   has failed (see BootEnds). *)
BootEndsIfMasked == cleared => BootEnds

(* Whatever was masked, and in whichever order interrupts come, the program is
   the one of Stage1Fsm, with the fence as it will be once initialised: no
   vertical blank is lost, and none is seen that was not. *)
Fsm == INSTANCE Stage1Fsm WITH
    vblank <- main \notin {"interrupt_initialize", "vi_disable", "video_initialize"} /\ vblank
ImplementsFsm == Fsm!Init /\ [][Fsm!Next]_(Fsm!vars)
=============================================================================
