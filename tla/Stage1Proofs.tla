----------------------------- MODULE Stage1Proofs -----------------------------
(***************************************************************************)
(* Stage 1.  The first part is the frame loop and its state machine, for   *)
(* every configuration, files of any number of blocks and delays of any    *)
(* number of frames.  The second is the whole program, for every mask and  *)
(* every set of raised interrupts it starts with: the interrupts change    *)
(* nothing of what is proved of the loop, and the program they interrupt   *)
(* is the one of Stage1Fsm.                                                *)
(***************************************************************************)
EXTENDS Stage1, TLAPS

NoMemory == [kind : {"none"}]
DelayMemory == [kind : {"delay"}, transition : Transitions, ticks : 1 .. DelayTicks]
LoadMemory == [kind : {"load_file"}, file : Images, remaining : Nat, next : Transitions]

MachineTypes ==
    /\ config \in Configs /\ status \subseteq Files /\ arguments \in BOOLEAN
    /\ state \in {"none", "delay", "halt", "load_file", "boot_kernel", "boot_stage2"}
    /\ memory \in NoMemory \cup DelayMemory \cup LoadMemory
    /\ console \subseteq Messages
    /\ outcome \in {"none", "halted", "kernel", "stage2"}

(* What has been loaded, verified and written when a transition is made.  The
   transitions that only show an error need nothing. *)
Reached(transition) ==
    LET own == Nonempty(status)
    IN  /\ transition \notin {"start", "halt"} => arguments /\ Trusted(loaded)
        /\ transition = "start" => loaded = {}
        /\ transition = "load_initramfs" => loaded = own \cap {"kernel"}
        /\ transition = "load_command_line" => loaded = own \cap {"kernel", "initramfs"}
        /\ transition = "load_stage2" => loaded = own /\ status # Files
        /\ transition \in {"boot_kernel", "boot_kernel_wait"} => loaded = own /\ status = Files
        /\ transition \in {"boot_stage2", "boot_stage2_wait"} =>
              loaded = own \cup {"stage2"} /\ status # Files

(* The same while a file is being loaded: it is one of stage 1's own, or stage 2,
   and the transition after it is the one for it. *)
Loading(file, next) ==
    LET own == Nonempty(status)
    IN  /\ arguments /\ Trusted(loaded) /\ file \notin loaded
        /\ \/ file = "kernel" /\ next = "load_initramfs" /\ loaded = {}
           \/ file = "initramfs" /\ next = "load_command_line" /\ loaded = own \cap {"kernel"}
           \/ /\ file = "command_line" /\ loaded = own \cap {"kernel", "initramfs"}
              /\ next = IF status = Files THEN "boot_kernel" ELSE "load_stage2"
           \/ /\ file = "stage2" /\ next = "boot_stage2"
              /\ loaded = own /\ status # Files
        /\ file = "stage2" \/ file \in own

(* The state and the member of the union it reads. *)
Consistent ==
    /\ state # "none"
    /\ state = "delay" => memory \in DelayMemory /\ Reached(memory.transition)
    /\ state = "load_file" => /\ memory \in LoadMemory /\ memory.remaining > 0
                              /\ Loading(memory.file, memory.next)
    /\ state \in {"boot_kernel", "boot_stage2"} => Reached(state)
-----------------------------------------------------------------------------
(* Transitions lead from what has been reached to a consistent state, or halt. *)

LEMMA ConfigTypes ==
    ASSUME config \in Configs
    PROVE  /\ config.length \in [Images -> Nat] /\ config.checksum \in BOOLEAN
           /\ config.length["kernel"] > 0 /\ config.length["stage2"] > 0
           /\ DelayTicks \in Nat \ {0}
  BY ConfigAssumption

LEMMA DelayLeads ==
    ASSUME NEW transition \in Transitions, NEW ticks \in 1 .. DelayTicks,
           Delay(transition, ticks), Reached(transition)'
    PROVE  Consistent' /\ memory' \in DelayMemory /\ state' = "delay"
<1>1. /\ memory' = [kind |-> "delay", transition |-> transition, ticks |-> ticks]
      /\ state' = "delay"
  BY DEF Delay
<1>2. memory' \in DelayMemory /\ memory'.transition = transition
  BY <1>1 DEF DelayMemory
<1>. QED
  BY <1>1, <1>2 DEF Consistent

(* What every transition but the first preserves, and establishes. *)
Steady == config \in Configs /\ config' = config /\ MachineTypes
          /\ outcome = "none" /\ status' \subseteq Files /\ arguments' \in BOOLEAN

Leads == MachineTypes' /\ ((outcome' = "none" /\ Consistent') \/ outcome' = "halted")

LEMMA LastMessageLeads ==
    ASSUME Steady, NEW message \in Messages, NEW wait \in Waits,
           NEW next \in {"halt", "boot_kernel", "boot_stage2"},
           LastMessage(message, wait, next), Reached(wait)',
           next # "halt" => Reached(next)'
    PROVE  Leads
<1>1. console' \subseteq Messages /\ outcome' = "none"
  BY DEF LastMessage, Steady, MachineTypes
<1>2. CASE Delay(wait, 1)
  <2>1. 1 \in 1 .. DelayTicks
    BY ConfigAssumption
  <2>2. Consistent' /\ memory' \in DelayMemory /\ state' = "delay"
    BY <1>2, <2>1, DelayLeads DEF Transitions
  <2>. QED
    BY <1>1, <2>2 DEF Leads, MachineTypes, Steady
<1>3. CASE state' = next /\ memory' = memory
  <2>1. Consistent'
    BY <1>3 DEF Consistent
  <2>2. MachineTypes'
    BY <1>1, <1>3 DEF MachineTypes, Steady
  <2>. QED
    BY <1>1, <2>1, <2>2 DEF Leads
<1>. QED
  BY <1>2, <1>3 DEF LastMessage

LEMMA FailLeads ==
    ASSUME Steady, NEW reason \in Messages, Fail(reason)
    PROVE  Leads
<1>1. Reached("halt")'
  BY DEF Reached
<1>. QED
  BY <1>1, LastMessageLeads DEF Fail, Waits

LEMMA BootKernelLeads ==
    ASSUME Steady, BootKernel, Reached("boot_kernel")'
    PROVE  Leads
<1>1. Reached("boot_kernel_wait")'
  BY DEF Reached
<1>. QED
  BY <1>1, LastMessageLeads DEF BootKernel, Waits, Messages

LEMMA BootStage2Leads ==
    ASSUME Steady, BootStage2, Reached("boot_stage2")'
    PROVE  Leads
<1>1. Reached("boot_stage2_wait")'
  BY DEF Reached
<1>. QED
  BY <1>1, LastMessageLeads DEF BootStage2, Waits, Messages

LEMMA LoadFileLeads ==
    ASSUME Steady, NEW file \in Images, NEW next \in Transitions,
           LoadFile(file, next), config.length[file] > 0, Loading(file, next)'
    PROVE  Leads
<1>1. /\ memory' = [kind |-> "load_file", file |-> file,
                    remaining |-> config.length[file], next |-> next]
      /\ state' = "load_file" /\ console' = console /\ outcome' = "none"
  BY DEF LoadFile, Steady
<1>2. config.length[file] \in Nat
  BY ConfigTypes DEF Steady
<1>3. memory' \in LoadMemory /\ memory'.file = file /\ memory'.next = next
      /\ memory'.remaining > 0
  BY <1>1, <1>2 DEF LoadMemory
<1>4. Consistent'
  BY <1>1, <1>3 DEF Consistent
<1>5. MachineTypes'
  BY <1>1, <1>3 DEF MachineTypes, Steady
<1>. QED
  BY <1>1, <1>4, <1>5 DEF Leads

LEMMA LoadStage2Leads ==
    ASSUME Steady, LoadStage2, Reached("load_stage2")'
    PROVE  Leads
<1>1. CASE LoadFile("stage2", "boot_stage2")
  <2>2. Loading("stage2", "boot_stage2")'
    BY DEF Reached, Loading, Nonempty, Steady, Files
  <2>. QED
    BY <1>1, <2>2, LoadFileLeads, ConfigTypes DEF Steady, Images, Transitions
<1>2. CASE outcome' = "halted" /\ UNCHANGED machine
  BY <1>2 DEF Leads, MachineTypes, Steady, machine
<1>. QED
  BY <1>1, <1>2 DEF LoadStage2

LEMMA LoadCommandLineLeads ==
    ASSUME Steady, LoadCommandLine, Reached("load_command_line")'
    PROVE  Leads
<1>1. CASE Loadable("command_line")
  <2>0. "command_line" \in Images /\ config.length["command_line"] > 0
        /\ "boot_kernel" \in Transitions /\ "load_stage2" \in Transitions
    BY <1>1 DEF Loadable, Images, Files, Transitions
  <2>1. CASE status' = Files
    <3>1. LoadFile("command_line", "boot_kernel")
      BY <1>1, <2>1 DEF LoadCommandLine
    <3>2. Loading("command_line", "boot_kernel")'
      BY <1>1, <2>1 DEF Reached, Loading, Loadable, Nonempty, Steady
    <3>. QED
      BY <2>0, <3>1, <3>2, LoadFileLeads
  <2>2. CASE status' # Files
    <3>1. LoadFile("command_line", "load_stage2")
      BY <1>1, <2>2 DEF LoadCommandLine
    <3>2. Loading("command_line", "load_stage2")'
      BY <1>1, <2>2 DEF Reached, Loading, Loadable, Nonempty, Steady
    <3>. QED
      BY <2>0, <3>1, <3>2, LoadFileLeads
  <2>. QED
    BY <2>1, <2>2
<1>2. CASE ~Loadable("command_line")
  <2>1. Nonempty(status)' \cap {"kernel", "initramfs"} = Nonempty(status)'
    BY <1>2 DEF Loadable, Nonempty, Steady, Files
  <2>2. CASE status' = Files
    <3>1. BootKernel
      BY <1>2, <2>2 DEF LoadCommandLine
    <3>2. Reached("boot_kernel")'
      BY <2>1, <2>2 DEF Reached
    <3>. QED
      BY <3>1, <3>2, BootKernelLeads
  <2>3. CASE status' # Files
    <3>1. LoadStage2
      BY <1>2, <2>3 DEF LoadCommandLine
    <3>2. Reached("load_stage2")'
      BY <2>1, <2>3 DEF Reached
    <3>. QED
      BY <3>1, <3>2, LoadStage2Leads
  <2>. QED
    BY <2>2, <2>3
<1>. QED
  BY <1>1, <1>2

LEMMA LoadInitramfsLeads ==
    ASSUME Steady, LoadInitramfs, Reached("load_initramfs")'
    PROVE  Leads
<1>1. CASE Loadable("initramfs")
  <2>1. LoadFile("initramfs", "load_command_line")
    BY <1>1 DEF LoadInitramfs
  <2>2. Loading("initramfs", "load_command_line")'
    BY <1>1 DEF Reached, Loading, Loadable, Nonempty, Steady
  <2>. QED
    BY <1>1, <2>1, <2>2, LoadFileLeads DEF Loadable, Images, Files, Transitions
<1>2. CASE ~Loadable("initramfs")
  <2>1. Nonempty(status)' \cap {"kernel", "initramfs"} = Nonempty(status)' \cap {"kernel"}
    BY <1>2 DEF Loadable, Nonempty, Steady
  <2>2. Reached("load_command_line")'
    BY <2>1 DEF Reached
  <2>. QED
    BY <1>2, <2>2, LoadCommandLineLeads DEF LoadInitramfs
<1>. QED
  BY <1>1, <1>2

LEMMA LoadKernelLeads ==
    ASSUME Steady, LoadKernel, arguments', loaded' = {}
    PROVE  Leads
<1>0. Trusted(loaded)'
  BY DEF Trusted
<1>1. CASE Loadable("kernel")
  <2>1. LoadFile("kernel", "load_initramfs")
    BY <1>1 DEF LoadKernel
  <2>2. Loading("kernel", "load_initramfs")'
    BY <1>0, <1>1 DEF Loading, Loadable, Nonempty, Steady
  <2>. QED
    BY <1>1, <2>1, <2>2, LoadFileLeads DEF Loadable, Images, Files, Transitions
<1>2. CASE ~Loadable("kernel")
  <2>1. Nonempty(status)' \cap {"kernel"} = {}
    BY <1>2 DEF Loadable, Nonempty, Steady
  <2>2. Reached("load_initramfs")'
    BY <1>0, <2>1 DEF Reached
  <2>. QED
    BY <1>2, <2>2, LoadInitramfsLeads DEF LoadKernel
<1>. QED
  BY <1>1, <1>2

LEMMA RunLeads ==
    ASSUME Steady, NEW transition \in Transitions, Run(transition),
           IF transition = "start" THEN loaded' = {} ELSE Reached(transition)'
    PROVE  Leads
<1>1. CASE transition = "start"
  <2>1. Start /\ loaded' = {}
    BY <1>1 DEF Run
  <2>2. CASE Fail("no_memory")
    BY <2>2, FailLeads DEF Messages
  <2>3. CASE arguments' = TRUE /\ LoadKernel
    BY <2>1, <2>3, LoadKernelLeads
  <2>. QED
    BY <2>1, <2>2, <2>3 DEF Start
<1>2. CASE transition # "start" /\ transition \notin Waits
  <2>1. CASE transition = "load_initramfs" /\ LoadInitramfs
    BY <2>1, LoadInitramfsLeads
  <2>2. CASE transition = "load_command_line" /\ LoadCommandLine
    BY <2>2, LoadCommandLineLeads
  <2>3. CASE transition = "load_stage2" /\ LoadStage2
    BY <2>3, LoadStage2Leads
  <2>4. CASE transition = "boot_kernel" /\ BootKernel
    BY <2>4, BootKernelLeads
  <2>5. CASE transition = "boot_stage2" /\ BootStage2
    BY <2>5, BootStage2Leads
  <2>. QED
    BY <1>2, <2>1, <2>2, <2>3, <2>4, <2>5 DEF Run
<1>3. CASE transition \in Waits
  <2>1. /\ UNCHANGED <<memory, console, outcome>> /\ transition # "start"
        /\ transition = "halt" => state' = "halt"
        /\ transition = "boot_kernel_wait" => state' = "boot_kernel"
        /\ transition = "boot_stage2_wait" => state' = "boot_stage2"
    BY <1>3 DEF Run, Waits
  <2>2. Reached(transition)'
    BY <2>1
  <2>3. /\ transition = "boot_kernel_wait" => Reached("boot_kernel")'
        /\ transition = "boot_stage2_wait" => Reached("boot_stage2")'
    BY <2>2 DEF Reached
  <2>4. Consistent'
    BY <1>3, <2>1, <2>3 DEF Consistent, Waits
  <2>5. MachineTypes'
    BY <1>3, <2>1 DEF MachineTypes, Steady, Waits
  <2>. QED
    BY <2>1, <2>4, <2>5 DEF Leads, Steady
<1>. QED
  BY <1>1, <1>2, <1>3

LEMMA TransitionLeads ==
    ASSUME config \in Configs, config' = config, MachineTypes, outcome = "none",
           NEW transition \in Transitions, Transition(transition),
           IF transition = "start" THEN loaded' = {} ELSE Reached(transition)'
    PROVE  Leads
<1>1. Steady
  <2>1. CASE UNCHANGED allocations
    BY <2>1 DEF Steady, MachineTypes, allocations
  <2>2. CASE Run(transition)
    <3>1. status' \subseteq Files /\ arguments' \in BOOLEAN
      BY <2>2 DEF Run, Start, MachineTypes, allocations
    <3>. QED
      BY <3>1 DEF Steady
  <2>. QED
    BY <2>1, <2>2 DEF Transition
<1>2. CASE Run(transition)
  BY <1>1, <1>2, RunLeads
<1>3. CASE Delay(transition, DelayTicks) /\ UNCHANGED <<allocations, console, outcome>>
  <2>1. DelayTicks \in 1 .. DelayTicks
    BY ConfigAssumption
  <2>2. Reached(transition)'
    BY DEF Reached
  <2>3. Consistent' /\ memory' \in DelayMemory /\ state' = "delay"
    BY <1>3, <2>1, <2>2, DelayLeads
  <2>4. MachineTypes'
    BY <1>1, <1>3, <2>3 DEF MachineTypes, Steady, allocations
  <2>. QED
    BY <1>3, <2>3, <2>4 DEF Leads
<1>. QED
  BY <1>2, <1>3 DEF Transition
-----------------------------------------------------------------------------
(* The inductive invariant: until stage 1 has ended the machine is consistent,
   but for the initial state and the block under way; and the PI is busy with
   nothing else. *)
MachineInv ==
    outcome = "none" =>
        /\ pc = "initialize" => state = "none" /\ loaded = {}
        /\ pc = "dma" => /\ state = "load_file" /\ memory \in LoadMemory
                        /\ Loading(memory.file, memory.next)
        /\ pc \notin {"initialize", "dma"} => Consistent

PiInv == pi # "idle" => pc = "dma" /\ outcome = "none"

(* The types of what the machine does not touch. *)
OtherTypes ==
    /\ back \subseteq Messages /\ front \subseteq Messages /\ seen \subseteq Messages
    /\ pc \in {"initialize", "execute", "dma", "render", "vblank_wait", "vblank_end"}
    /\ vblank \in BOOLEAN /\ video \in BOOLEAN /\ interrupts \in BOOLEAN
    /\ pi \in {"idle", "busy", "error"} /\ corrupt \subseteq Images /\ loaded \subseteq Images

IInv == MachineTypes /\ OtherTypes /\ MachineInv /\ PiInv /\ BootsWhatWasLoaded

LEMMA IInvTypeOK == MachineTypes /\ OtherTypes => TypeOK
<1>. SUFFICES ASSUME MachineTypes, OtherTypes
              PROVE  TypeOK
  OBVIOUS
<1>1. \A shown \in {console, back, front, seen} : shown \subseteq Messages
  BY DEF MachineTypes, OtherTypes
<1>. QED
  BY <1>1 DEF TypeOK, MachineTypes, OtherTypes, NoMemory, DelayMemory, LoadMemory

LEMMA IInvMatches == IInv => MemoryMatchesState
<1>. SUFFICES ASSUME IInv, outcome = "none"
              PROVE  /\ state = "delay" => memory.kind = "delay"
                     /\ state = "load_file" \/ pc = "dma" =>
                           memory.kind = "load_file" /\ state = "load_file"
                     /\ pc = "execute" /\ state = "load_file" => memory.remaining > 0
  BY DEF MemoryMatchesState
<1>1. CASE pc = "initialize"
  BY <1>1 DEF IInv, MachineInv
<1>2. CASE pc = "dma"
  BY <1>2 DEF IInv, MachineInv, LoadMemory
<1>3. CASE pc \notin {"initialize", "dma"}
  BY <1>3 DEF IInv, MachineInv, Consistent, DelayMemory, LoadMemory
<1>. QED
  BY <1>1, <1>2, <1>3

LEMMA InitIInv == Init => IInv
<1>. SUFFICES ASSUME Init
              PROVE  IInv
  OBVIOUS
<1>1. MachineTypes
  BY DEF Init, MachineTypes, NoMemory
<1>2. OtherTypes
  BY DEF Init, OtherTypes
<1>. QED
  BY <1>1, <1>2 DEF Init, IInv, MachineInv, PiInv, BootsWhatWasLoaded

(* A step that leads on keeps the invariant. *)
LEMMA LeadsKeep ==
    ASSUME IInv, outcome = "none", Leads,
           pc' \in {"execute", "render"}, pi' = "idle",
           UNCHANGED <<frame, video, interrupts, corrupt>>, vblank' \in BOOLEAN,
           loaded' \subseteq Images
    PROVE  IInv'
<1>1. MachineTypes' /\ OtherTypes'
  BY DEF Leads, IInv, OtherTypes, frame
<1>2. MachineInv'
  BY DEF Leads, MachineInv
<1>3. PiInv' /\ BootsWhatWasLoaded'
  BY DEF PiInv, BootsWhatWasLoaded, Leads
<1>. QED
  BY <1>1, <1>2, <1>3 DEF IInv

LEMMA InitializeKeeps == IInv /\ Initialize => IInv'
<1>. SUFFICES ASSUME IInv, Initialize
              PROVE  IInv'
  OBVIOUS
<1>1. /\ outcome = "none" /\ pc = "initialize" /\ pc' = "execute" /\ config' = config
      /\ Transition("start") /\ UNCHANGED <<frame, vblank, hardware>>
  BY DEF Initialize, Running, Goto
<1>2. loaded' = {} /\ pi' = "idle"
  BY <1>1 DEF IInv, MachineInv, PiInv, hardware
<1>3. config \in Configs /\ MachineTypes /\ "start" \in Transitions
  BY DEF IInv, MachineTypes, Transitions
<1>4. Leads
  BY <1>1, <1>2, <1>3, TransitionLeads
<1>5. vblank' \in BOOLEAN
  BY <1>1 DEF IInv, OtherTypes
<1>. QED
  BY <1>1, <1>2, <1>4, <1>5, LeadsKeep DEF hardware

LEMMA StateDelayKeeps == IInv /\ StateDelay => IInv'
<1>. SUFFICES ASSUME IInv, StateDelay
              PROVE  IInv'
  OBVIOUS
<1>1. /\ outcome = "none" /\ pc = "execute" /\ pc' = "render" /\ config' = config
      /\ state = "delay" /\ UNCHANGED <<frame, vblank, hardware>>
  BY DEF StateDelay, Running, Goto
<1>2. memory \in DelayMemory /\ Reached(memory.transition)
  BY <1>1 DEF IInv, MachineInv, Consistent
<1>3. config \in Configs /\ MachineTypes /\ vblank' \in BOOLEAN /\ loaded' \subseteq Images
      /\ pi' = "idle"
  <2>1. config \in Configs /\ MachineTypes
    BY DEF IInv, MachineTypes
  <2>2. vblank' \in BOOLEAN
    BY <1>1 DEF IInv, OtherTypes
  <2>3. loaded' \subseteq Images /\ pi' = "idle"
    BY <1>1 DEF IInv, OtherTypes, PiInv, hardware
  <2>. QED
    BY <2>1, <2>2, <2>3
<1>4. CASE memory.ticks > 1
  <2>1. /\ memory' = [memory EXCEPT !.ticks = @ - 1]
        /\ UNCHANGED <<state, console, allocations, outcome>>
    BY <1>4 DEF StateDelay
  <2>2. memory' \in DelayMemory /\ memory'.transition = memory.transition
    <3>1. memory.ticks \in 1 .. DelayTicks /\ DelayTicks \in Nat
      BY <1>2, ConfigAssumption DEF DelayMemory
    <3>2. memory.ticks - 1 \in 1 .. DelayTicks
      BY <1>4, <3>1
    <3>. QED
      BY <1>2, <2>1, <3>2 DEF DelayMemory
  <2>3. Reached(memory.transition)'
    BY <1>1, <1>2, <2>1, <2>2 DEF Reached, Nonempty, Trusted, allocations, hardware
  <2>4. Consistent'
    BY <1>1, <2>1, <2>2, <2>3 DEF Consistent
  <2>5. MachineTypes'
    BY <1>1, <1>3, <2>1, <2>2 DEF MachineTypes, allocations
  <2>6. Leads
    BY <1>1, <2>1, <2>4, <2>5 DEF Leads
  <2>. QED
    BY <1>1, <1>3, <2>6, LeadsKeep DEF hardware
<1>5. CASE ~(memory.ticks > 1)
  <2>. DEFINE transition == memory.transition
  <2>1. Run(transition) /\ transition \in Transitions
    BY <1>2, <1>5 DEF StateDelay, DelayMemory
  <2>2. Steady
    <3>1. status' \subseteq Files /\ arguments' \in BOOLEAN
      BY <1>3, <2>1 DEF Run, Start, MachineTypes, allocations
    <3>. QED
      BY <1>1, <1>3, <3>1 DEF Steady
  <2>3. IF transition = "start" THEN loaded' = {} ELSE Reached(memory.transition)
    BY <1>1, <1>2 DEF Reached, hardware
  <2>4. PICK t \in Transitions : t = transition
    BY <2>1
  <2>5. t # "start" => Reached(t)'
    <3>1. t # "start" => UNCHANGED allocations
      BY <2>1, <2>4 DEF Run
    <3>. QED
      BY <1>1, <2>3, <2>4, <3>1 DEF Reached, Nonempty, Trusted, allocations, hardware
  <2>6. Leads
    BY <2>1, <2>2, <2>3, <2>4, <2>5, RunLeads
  <2>. QED
    BY <1>1, <1>3, <2>6, LeadsKeep DEF hardware
<1>. QED
  BY <1>4, <1>5

LEMMA StateLoadFileKeeps == IInv /\ StateLoadFile => IInv'
<1>. SUFFICES ASSUME IInv, StateLoadFile
              PROVE  IInv'
  OBVIOUS
<1>1. /\ outcome = "none" /\ pc = "execute" /\ state = "load_file" /\ pc' = "dma"
      /\ pi' = "busy" /\ memory' = [memory EXCEPT !.remaining = @ - 1]
      /\ UNCHANGED <<config, state, console, status, arguments, back, front, seen, vblank,
                     outcome, video, interrupts, corrupt, loaded>>
  BY DEF StateLoadFile, Running, Goto, allocations, frame
<1>2. memory \in LoadMemory /\ memory.remaining > 0 /\ Loading(memory.file, memory.next)
  BY <1>1 DEF IInv, MachineInv, Consistent
<1>3. memory' \in LoadMemory /\ memory'.file = memory.file /\ memory'.next = memory.next
  BY <1>1, <1>2 DEF LoadMemory
<1>4. Loading(memory.file, memory.next)'
  BY <1>1, <1>2, <1>3 DEF Loading, Nonempty, Trusted
<1>5. MachineInv' /\ PiInv'
  BY <1>1, <1>3, <1>4 DEF MachineInv, PiInv
<1>6. MachineTypes' /\ OtherTypes'
  BY <1>1, <1>3 DEF IInv, MachineTypes, OtherTypes
<1>7. BootsWhatWasLoaded'
  BY <1>1 DEF BootsWhatWasLoaded
<1>. QED
  BY <1>5, <1>6, <1>7 DEF IInv

LEMMA WaitIdleKeeps == IInv /\ WaitIdle => IInv'
<1>. SUFFICES ASSUME IInv, WaitIdle
              PROVE  IInv'
  OBVIOUS
<1>1. /\ outcome = "none" /\ pc = "dma" /\ pi = "idle" /\ config' = config
      /\ UNCHANGED <<frame, vblank, video, interrupts, pi, corrupt>>
  BY DEF WaitIdle, Running, Goto
<1>2. state = "load_file" /\ memory \in LoadMemory /\ Loading(memory.file, memory.next)
  BY <1>1 DEF IInv, MachineInv
<1>3. vblank' \in BOOLEAN /\ MachineTypes /\ config \in Configs
  BY <1>1 DEF IInv, OtherTypes, MachineTypes
<1>4. CASE memory.remaining > 0 /\ UNCHANGED <<machine, allocations, loaded, outcome>>
           /\ pc' = IF vblank THEN "render" ELSE "execute"
  <2>1. UNCHANGED <<state, memory, console, status, arguments>>
    BY <1>4 DEF machine, allocations
  <2>2. Loading(memory.file, memory.next)'
    BY <1>1, <1>2, <1>4, <2>1 DEF Loading, Nonempty, Trusted
  <2>3. Consistent'
    BY <1>2, <1>4, <2>1, <2>2 DEF Consistent
  <2>4. Leads
    BY <1>1, <1>3, <1>4, <2>1, <2>3 DEF Leads, MachineTypes
  <2>5. loaded' \subseteq Images
    BY <1>4 DEF IInv, OtherTypes
  <2>. QED
    BY <1>1, <1>3, <1>4, <2>4, <2>5, LeadsKeep
<1>5. CASE /\ loaded' = loaded \cup {memory.file} /\ pc' = "render"
           /\ IF BadChecksum THEN Fail("checksum") /\ UNCHANGED allocations
              ELSE Transition(memory.next)
  <2>1. memory.file \in Images /\ memory.next \in Transitions
    BY <1>2 DEF LoadMemory
  <2>2. loaded' \subseteq Images
    BY <1>5, <2>1 DEF IInv, OtherTypes
  <2>3. CASE BadChecksum
    <3>1. Fail("checksum") /\ UNCHANGED allocations
      BY <1>5, <2>3
    <3>2. Steady
      BY <1>1, <1>3, <3>1 DEF Steady, MachineTypes, allocations
    <3>3. Leads
      BY <3>1, <3>2, FailLeads DEF Messages
    <3>. QED
      BY <1>1, <1>3, <1>5, <2>2, <3>3, LeadsKeep
  <2>4. CASE ~BadChecksum
    <3>1. PICK t \in Transitions : t = memory.next
      BY <2>1
    <3>2. Transition(t) /\ t # "start"
      <4>1. memory.next # "start"
        BY <1>2 DEF Loading
      <4>. QED
        BY <1>5, <2>4, <3>1, <4>1
    <3>3. UNCHANGED allocations
      BY <3>2 DEF Transition, Run
    <3>4. Trusted(loaded)'
      BY <1>1, <1>2, <1>5, <2>4 DEF Trusted, Loading, BadChecksum
    <3>5. Reached(t)'
      <4>1. Nonempty(status)' = Nonempty(status) /\ status' = status /\ arguments'
        BY <1>1, <1>2, <3>3 DEF Nonempty, allocations, Loading
      <4>2. CASE memory.file = "kernel"
        BY <1>2, <1>5, <3>1, <3>4, <4>1, <4>2 DEF Reached, Loading
      <4>3. CASE memory.file = "initramfs"
        BY <1>2, <1>5, <3>1, <3>4, <4>1, <4>3 DEF Reached, Loading
      <4>4. CASE memory.file = "command_line"
        <5>1. Nonempty(status) \subseteq {"kernel", "initramfs", "command_line"}
          BY <1>3 DEF Nonempty, MachineTypes, Files
        <5>. QED
          BY <1>2, <1>5, <3>1, <3>4, <4>1, <4>4, <5>1 DEF Reached, Loading
      <4>5. CASE memory.file = "stage2"
        BY <1>2, <1>5, <3>1, <3>4, <4>1, <4>5 DEF Reached, Loading
      <4>. QED
        BY <1>2, <4>2, <4>3, <4>4, <4>5 DEF Loading
    <3>6. Leads
      BY <1>1, <1>3, <3>2, <3>5, TransitionLeads
    <3>. QED
      BY <1>1, <1>3, <1>5, <2>2, <3>6, LeadsKeep
  <2>. QED
    BY <2>3, <2>4
<1>. QED
  BY <1>4, <1>5 DEF WaitIdle, Goto

LEMMA StateBootKeeps == IInv /\ StateBoot => IInv'
<1>. SUFFICES ASSUME IInv, StateBoot
              PROVE  IInv'
  OBVIOUS
<1>1. /\ outcome = "none" /\ pc = "execute" /\ state \in {"boot_kernel", "boot_stage2"}
      /\ video' = FALSE /\ interrupts' = FALSE
      /\ outcome' = IF state = "boot_kernel" THEN "kernel" ELSE "stage2"
      /\ UNCHANGED <<config, state, memory, console, status, arguments, back, front, seen,
                     pc, vblank, pi, corrupt, loaded>>
  BY DEF StateBoot, Running, machine, allocations, frame
<1>2. Reached(state) /\ pi = "idle"
  BY <1>1 DEF IInv, MachineInv, Consistent, PiInv
<1>3. BootsWhatWasLoaded'
  BY <1>1, <1>2 DEF BootsWhatWasLoaded, Reached, Nonempty, Trusted
<1>4. MachineTypes' /\ OtherTypes'
  <2>1. video' \in BOOLEAN /\ interrupts' \in BOOLEAN
    BY <1>1
  <2>2. OtherTypes'
    BY <1>1, <2>1 DEF IInv, OtherTypes
  <2>3. MachineTypes'
    BY <1>1 DEF IInv, MachineTypes
  <2>. QED
    BY <2>2, <2>3
<1>5. MachineInv' /\ PiInv'
  BY <1>1, <1>2 DEF MachineInv, PiInv
<1>. QED
  BY <1>3, <1>4, <1>5 DEF IInv

(* Steps that leave the machine and what it has loaded alone, and neither begin
   nor end the wait for a block. *)
LEMMA ElsewhereKeeps ==
    ASSUME IInv, OtherTypes',
           UNCHANGED <<config, machine, allocations, pi, corrupt, loaded, outcome>>,
           pc' = pc \/ {pc, pc'} \cap {"initialize", "dma"} = {}
    PROVE  IInv'
<1>1. UNCHANGED <<config, state, memory, console, status, arguments, pi, corrupt, loaded, outcome>>
  BY DEF machine, allocations
<1>2. MachineTypes'
  BY <1>1 DEF IInv, MachineTypes
<1>3. BootsWhatWasLoaded'
  BY <1>1 DEF IInv, BootsWhatWasLoaded, Nonempty, Trusted
<1>4. PiInv'
  BY <1>1 DEF IInv, PiInv
<1>5. Consistent => Consistent'
  <2>. SUFFICES ASSUME Consistent
                PROVE  Consistent'
    OBVIOUS
  <2>1. Reached(memory.transition) => Reached(memory.transition)'
    BY <1>1 DEF Reached, Nonempty, Trusted
  <2>2. Loading(memory.file, memory.next) => Loading(memory.file, memory.next)'
    BY <1>1 DEF Loading, Nonempty, Trusted
  <2>3. Reached(state) => Reached(state)'
    BY <1>1 DEF Reached, Nonempty, Trusted
  <2>. QED
    BY <1>1, <2>1, <2>2, <2>3 DEF Consistent
<1>6. MachineInv'
  <2>1. Loading(memory.file, memory.next) => Loading(memory.file, memory.next)'
    BY <1>1 DEF Loading, Nonempty, Trusted
  <2>. QED
    BY <1>1, <1>5, <2>1 DEF IInv, MachineInv
<1>. QED
  BY <1>2, <1>3, <1>4, <1>6 DEF IInv

LEMMA PiKeeps == IInv /\ Pi => IInv'
<1>. SUFFICES ASSUME IInv, Pi
              PROVE  IInv'
  OBVIOUS
<1>1. /\ pi = "busy" /\ pi' \in {"idle", "error"}
      /\ corrupt' \in {corrupt, corrupt \cup {memory.file}}
      /\ UNCHANGED <<config, state, memory, console, status, arguments, back, front, seen,
                     pc, vblank, video, interrupts, loaded, outcome>>
  BY DEF Pi, PiComplete, PiError, machine, allocations, frame
<1>2. pc = "dma" /\ outcome = "none"
  BY <1>1 DEF IInv, PiInv
<1>3. memory \in LoadMemory /\ Loading(memory.file, memory.next) /\ state = "load_file"
  BY <1>2 DEF IInv, MachineInv
<1>4. Loading(memory.file, memory.next)'
  <2>1. Trusted(loaded)' /\ memory.file \notin loaded
    BY <1>1, <1>3 DEF Trusted, Loading
  <2>. QED
    BY <1>1, <1>3, <2>1 DEF Loading, Nonempty
<1>5. MachineTypes' /\ OtherTypes'
  <2>1. corrupt' \subseteq Images
    BY <1>1, <1>3 DEF IInv, OtherTypes, LoadMemory
  <2>2. OtherTypes'
    BY <1>1, <2>1 DEF IInv, OtherTypes
  <2>3. MachineTypes'
    BY <1>1 DEF IInv, MachineTypes
  <2>. QED
    BY <2>2, <2>3
<1>6. MachineInv' /\ PiInv'
  BY <1>1, <1>2, <1>3, <1>4 DEF MachineInv, PiInv
<1>7. BootsWhatWasLoaded'
  BY <1>1, <1>2 DEF BootsWhatWasLoaded
<1>. QED
  BY <1>5, <1>6, <1>7 DEF IInv

LEMMA NextKeeps == IInv /\ [Next]_vars => IInv'
<1>. SUFFICES ASSUME IInv, [Next]_vars
              PROVE  IInv'
  OBVIOUS
<1>1. CASE Initialize
  BY <1>1, InitializeKeeps
<1>2. CASE StateDelay
  BY <1>2, StateDelayKeeps
<1>3. CASE StateHalt
  <2>1. /\ outcome = "none" /\ outcome' = "halted" /\ pc = "execute"
        /\ UNCHANGED <<config, state, memory, console, status, arguments, back, front, seen,
                       pc, vblank, video, interrupts, pi, corrupt, loaded>>
    BY <1>3 DEF StateHalt, Running, machine, allocations, frame, hardware
  <2>2. MachineTypes' /\ OtherTypes'
    BY <2>1 DEF IInv, MachineTypes, OtherTypes
  <2>. QED
    BY <2>1, <2>2 DEF IInv, MachineInv, PiInv, BootsWhatWasLoaded
<1>4. CASE StateLoadFile
  BY <1>4, StateLoadFileKeeps
<1>5. CASE WaitIdle
  BY <1>5, WaitIdleKeeps
<1>6. CASE StateBoot
  BY <1>6, StateBootKeeps
<1>7. CASE Render \/ SwapBuffers \/ VblankEnd
  <2>1. /\ UNCHANGED <<config, machine, allocations, pi, corrupt, loaded, outcome>>
        /\ {pc, pc'} \cap {"initialize", "dma"} = {}
    BY <1>7 DEF Render, SwapBuffers, VblankEnd, Running, Goto, hardware
  <2>2. OtherTypes'
    BY <1>7 DEF Render, SwapBuffers, VblankEnd, Running, Goto, hardware, frame, machine,
       IInv, OtherTypes, MachineTypes
  <2>. QED
    BY <2>1, <2>2, ElsewhereKeeps
<1>8. CASE VBlank
  <2>1. UNCHANGED <<config, machine, allocations, pi, corrupt, loaded, outcome, pc>>
    BY <1>8 DEF VBlank, hardware
  <2>2. OtherTypes'
    <3>1. vblank' = TRUE /\ seen' \subseteq Messages
      BY <1>8 DEF VBlank, IInv, OtherTypes
    <3>2. UNCHANGED <<back, front, pc, video, interrupts, pi, corrupt, loaded>>
      BY <1>8 DEF VBlank, hardware
    <3>. QED
      BY <3>1, <3>2 DEF IInv, OtherTypes
  <2>. QED
    BY <2>1, <2>2, ElsewhereKeeps
<1>9. CASE Pi
  BY <1>9, PiKeeps
<1>10. CASE UNCHANGED vars
  <2>1. UNCHANGED <<config, machine, allocations, pi, corrupt, loaded, outcome, pc>>
    BY <1>10 DEF vars, hardware
  <2>2. OtherTypes'
    BY <1>10 DEF vars, hardware, frame, IInv, OtherTypes
  <2>. QED
    BY <2>1, <2>2, ElsewhereKeeps
<1>. QED
  BY <1>1, <1>2, <1>3, <1>4, <1>5, <1>6, <1>7, <1>8, <1>9, <1>10 DEF Next, Cpu
-----------------------------------------------------------------------------
(* The inductive invariant, what every state of the machine owns and what the PI
   may still write, holds in every frame (fsm.c). *)
THEOREM InvariantHolds == Spec => []IInv
  BY InitIInv, NextKeeps, PTL DEF Spec

(* Every variable has its type (fsm.h). *)
THEOREM TypeCorrect == Spec => []TypeOK
<1>1. IInv => TypeOK
  BY IInvTypeOK DEF IInv
<1>. QED
  BY <1>1, InvariantHolds, PTL

(* A state only reads the member of the union its transition wrote, whichever
   frames came between (fsm.c). *)
THEOREM StatesOwnTheirMemory == Spec => []MemoryMatchesState
  BY IInvMatches, InvariantHolds, PTL

(* The kernel and stage 2 are entered only with every file they are promised
   loaded and verified, and the PI at rest. *)
THEOREM OnlyLoadedIsBooted == Spec => []BootsWhatWasLoaded
<1>1. IInv => BootsWhatWasLoaded
  BY DEF IInv
<1>. QED
  BY <1>1, InvariantHolds, PTL
-----------------------------------------------------------------------------
(***************************************************************************)
(* What stage 1 says before it halts or hands over is seen, for every      *)
(* configuration and however late the vertical blanks are.                 *)
(***************************************************************************)

Errors == {"no_memory", "checksum"}
DelayedTo(transition) == state = "delay" /\ memory.transition = transition

(* The last message is on the console from the moment the machine waits for its
   frame, and nothing is before. *)
Announced ==
    /\ state \in {"none", "load_file"} => console = {}
    /\ state = "delay" => console = {} \/ memory.transition \in Waits
    /\ state = "halt" \/ DelayedTo("halt") => console \cap Errors # {}
    /\ state = "boot_kernel" \/ DelayedTo("boot_kernel_wait") => "boot_kernel" \in console
    /\ state = "boot_stage2" \/ DelayedTo("boot_stage2_wait") => "boot_stage2" \in console

(* What the machine may do in the frame of which nothing was rendered before. *)
FirstFrame ==
    \/ state = "load_file" \/ DelayedTo("start") \/ DelayedTo("halt")
    \/ ~config.delayCompiled /\ state = "halt" /\ console = {"no_memory"}

(* A state is run with its messages in the displayed framebuffer. *)
Displayed ==
    /\ pc = "initialize" => state = "none"
    /\ pc \in {"execute", "dma"} => front = console \/ FirstFrame
    /\ pc = "vblank_wait" => back = console
    /\ pc = "vblank_end" => front = console

(* The vertical blank that ends the frame of a wait has shown its message: the one
   before it was taken back when the message was put in the displayed framebuffer. *)
Shown(message, wait) ==
    /\ DelayedTo(wait) /\ pc = "execute" => message \in front /\ (vblank => message \in seen)
    /\ state = message =>
          /\ pc \in {"render", "vblank_wait"} => message \in front /\ (vblank => message \in seen)
          /\ pc \in {"vblank_end", "execute"} => message \in seen

DisplayInv ==
    outcome = "none" =>
        /\ video = TRUE
        /\ Announced /\ Displayed
        /\ config.delayCompiled =>
              Shown("boot_kernel", "boot_kernel_wait") /\ Shown("boot_stage2", "boot_stage2_wait")

DInv == DisplayInv /\ ErrorIsDisplayed /\ BootMessageIsSeen
-----------------------------------------------------------------------------
(* Where a transition that does not wait for a message leads to. *)
Says(message, wait, next) ==
    /\ outcome' = "none" /\ console' = {message}
    /\ IF config.delayCompiled THEN state' = "delay" /\ memory'.transition = wait
                               ELSE state' = next

Loads == outcome' = "none" /\ console' = {} /\ state' = "load_file"
Gives == outcome' = "halted" /\ console' = {} /\ ~config.stage2Fits
SaysKernel == Says("boot_kernel", "boot_kernel_wait", "boot_kernel")
SaysStage2 == Says("boot_stage2", "boot_stage2_wait", "boot_stage2")

LEMMA LastMessageSays ==
    ASSUME console = {}, outcome = "none", NEW message, NEW wait, NEW next,
           LastMessage(message, wait, next)
    PROVE  Says(message, wait, next)
<1>1. console' = {message} /\ outcome' = "none"
  BY DEF LastMessage
<1>2. CASE config.delayCompiled
  <2>1. memory' = [kind |-> "delay", transition |-> wait, ticks |-> 1] /\ state' = "delay"
    BY <1>2 DEF LastMessage, Delay
  <2>. QED
    BY <1>1, <1>2, <2>1 DEF Says
<1>3. CASE ~config.delayCompiled
  BY <1>1, <1>3 DEF LastMessage, Says
<1>. QED
  BY <1>2, <1>3

LEMMA LoadStage2Goes ==
    ASSUME console = {}, outcome = "none", LoadStage2
    PROVE  Loads \/ Gives
BY DEF LoadStage2, LoadFile, machine, Loads, Gives

LEMMA LoadCommandLineGoes ==
    ASSUME console = {}, outcome = "none", LoadCommandLine
    PROVE  Loads \/ Gives \/ (status' = Files /\ SaysKernel)
<1>1. CASE Loadable("command_line")
  BY <1>1 DEF LoadCommandLine, LoadFile, Loads
<1>2. CASE ~Loadable("command_line") /\ status' = Files
  <2>1. BootKernel
    BY <1>2 DEF LoadCommandLine
  <2>. QED
    BY <1>2, <2>1, LastMessageSays DEF BootKernel, SaysKernel
<1>3. CASE ~Loadable("command_line") /\ status' # Files
  <2>1. LoadStage2
    BY <1>3 DEF LoadCommandLine
  <2>. QED
    BY <2>1, LoadStage2Goes
<1>. QED
  BY <1>1, <1>2, <1>3

LEMMA LoadInitramfsGoes ==
    ASSUME console = {}, outcome = "none", LoadInitramfs
    PROVE  Loads \/ Gives \/ (status' = Files /\ SaysKernel)
<1>1. CASE Loadable("initramfs")
  BY <1>1 DEF LoadInitramfs, LoadFile, Loads
<1>2. CASE LoadCommandLine
  BY <1>2, LoadCommandLineGoes
<1>. QED
  BY <1>1, <1>2 DEF LoadInitramfs

(* The kernel is a file with blocks, so the first transition ends in a load, in an
   error or in the size check of stage 2. *)
LEMMA StartGoes ==
    ASSUME config \in Configs, console = {}, outcome = "none", Start
    PROVE  Loads \/ Gives \/ Says("no_memory", "halt", "halt")
<1>1. CASE Fail("no_memory")
  BY <1>1, LastMessageSays DEF Fail
<1>2. CASE LoadKernel
  <2>1. CASE Loadable("kernel")
    BY <1>2, <2>1 DEF LoadKernel, LoadFile, Loads
  <2>2. CASE ~Loadable("kernel")
    <3>1. status' # Files
      BY <2>2, ConfigTypes DEF Loadable, Files
    <3>2. LoadInitramfs
      BY <1>2, <2>2 DEF LoadKernel
    <3>. QED
      BY <3>1, <3>2, LoadInitramfsGoes
  <2>. QED
    BY <2>1, <2>2
<1>. QED
  BY <1>1, <1>2 DEF Start

LEMMA RunGoes ==
    ASSUME config \in Configs, console = {}, outcome = "none",
           NEW transition \in Transitions \ Waits, Run(transition)
    PROVE  \/ Loads \/ Gives
           \/ Says("no_memory", "halt", "halt")
           \/ transition # "start" /\ (SaysKernel \/ SaysStage2)
<1>1. CASE transition = "start"
  BY <1>1, StartGoes DEF Run
<1>2. CASE transition # "start"
  <2>1. \/ LoadInitramfs \/ LoadCommandLine \/ LoadStage2 \/ BootKernel \/ BootStage2
    BY <1>2 DEF Run
  <2>2. CASE LoadInitramfs
    BY <1>2, <2>2, LoadInitramfsGoes
  <2>3. CASE LoadCommandLine
    BY <1>2, <2>3, LoadCommandLineGoes
  <2>4. CASE LoadStage2
    BY <2>4, LoadStage2Goes
  <2>5. CASE BootKernel
    BY <1>2, <2>5, LastMessageSays DEF BootKernel, SaysKernel
  <2>6. CASE BootStage2
    BY <1>2, <2>6, LastMessageSays DEF BootStage2, SaysStage2
  <2>. QED
    BY <2>1, <2>2, <2>3, <2>4, <2>5, <2>6
<1>. QED
  BY <1>1, <1>2

(* A delayed transition has said nothing yet. *)
Delays(transition) ==
    /\ outcome' = "none" /\ console' = {}
    /\ state' = "delay" /\ memory'.transition = transition

LEMMA TransitionGoes ==
    ASSUME config \in Configs, console = {}, outcome = "none",
           NEW transition \in Transitions \ Waits, Transition(transition)
    PROVE  \/ Delays(transition) \/ Loads \/ Gives
           \/ Says("no_memory", "halt", "halt")
           \/ transition # "start" /\ (SaysKernel \/ SaysStage2)
<1>1. CASE Run(transition)
  BY <1>1, RunGoes
<1>2. CASE Delay(transition, DelayTicks) /\ UNCHANGED <<console, outcome>>
  <2>1. memory' = [kind |-> "delay", transition |-> transition, ticks |-> DelayTicks]
        /\ state' = "delay"
    BY <1>2 DEF Delay
  <2>. QED
    BY <1>2, <2>1 DEF Delays
<1>. QED
  BY <1>1, <1>2 DEF Transition
-----------------------------------------------------------------------------
(* Wherever a transition leads to, its message has a frame to come. *)
Goes(transition) ==
    \/ Delays(transition) \/ Loads \/ Gives
    \/ \E reason \in Errors : Says(reason, "halt", "halt")
    \/ SaysKernel \/ SaysStage2

LEMMA GoesAnnounced ==
    ASSUME NEW transition \in Transitions \ Waits, Goes(transition), outcome' = "none"
    PROVE  /\ Announced'
           /\ config.delayCompiled => state' \notin {"boot_kernel", "boot_stage2"}
<1>1. CASE Delays(transition)
  BY <1>1 DEF Delays, Announced, DelayedTo, Waits
<1>2. CASE Loads
  BY <1>2 DEF Loads, Announced, DelayedTo
<1>3. ASSUME NEW reason \in Errors, Says(reason, "halt", "halt")
      PROVE  /\ Announced'
             /\ config.delayCompiled => state' \notin {"boot_kernel", "boot_stage2"}
  BY <1>3 DEF Says, Announced, DelayedTo, Waits, Errors
<1>4. CASE SaysKernel
  BY <1>4 DEF SaysKernel, Says, Announced, DelayedTo, Waits
<1>5. CASE SaysStage2
  BY <1>5 DEF SaysStage2, Says, Announced, DelayedTo, Waits
<1>. QED
  BY <1>1, <1>2, <1>3, <1>4, <1>5 DEF Goes, Gives

LEMMA GoesKeeps ==
    ASSUME NEW transition \in Transitions \ Waits, Goes(transition), config' = config,
           video' = TRUE, pc' = "render"
    PROVE  DInv'
<1>1. CASE outcome' = "none"
  <2>1. Announced' /\ (config.delayCompiled => state' \notin {"boot_kernel", "boot_stage2"})
    BY <1>1, GoesAnnounced
  <2>2. Displayed'
    BY DEF Displayed
  <2>3. config'.delayCompiled =>
          Shown("boot_kernel", "boot_kernel_wait")' /\ Shown("boot_stage2", "boot_stage2_wait")'
    BY <2>1 DEF Shown
  <2>. QED
    BY <1>1, <2>1, <2>2, <2>3 DEF DInv, DisplayInv, ErrorIsDisplayed, BootMessageIsSeen
<1>2. CASE Gives
  BY <1>2 DEF Gives, DInv, DisplayInv, ErrorIsDisplayed, BootMessageIsSeen
<1>3. outcome' = "none" \/ Gives
  BY DEF Goes, Delays, Loads, Says, SaysKernel, SaysStage2
<1>. QED
  BY <1>1, <1>2, <1>3
-----------------------------------------------------------------------------
(* Steps of the CPU and the hardware. *)

LEMMA InitDInv == Init => DInv
BY DEF Init, DInv, DisplayInv, Announced, Displayed, Shown, DelayedTo, ErrorIsDisplayed,
       BootMessageIsSeen

LEMMA InitializeShows == IInv /\ DInv /\ Initialize => DInv'
<1>. SUFFICES ASSUME IInv, DInv, Initialize PROVE DInv'
  OBVIOUS
<1>1. /\ outcome = "none" /\ pc = "initialize" /\ pc' = "execute" /\ config' = config
      /\ Transition("start") /\ video' = video /\ config \in Configs
  BY DEF Initialize, Running, Goto, hardware, IInv, MachineTypes
<1>2. console = {} /\ video' = TRUE
  BY <1>1 DEF DInv, DisplayInv, Displayed, Announced
<1>3. "start" \in Transitions \ Waits
  BY DEF Transitions, Waits
<1>4. Delays("start") \/ Loads \/ Gives \/ Says("no_memory", "halt", "halt")
  BY <1>1, <1>2, <1>3, TransitionGoes
<1>5. CASE outcome' = "none"
  <2>1. /\ Announced'
        /\ config.delayCompiled => state' \notin {"boot_kernel", "boot_stage2"}
    BY <1>3, <1>4, <1>5, GoesAnnounced DEF Goes, Errors
  <2>2. FirstFrame' /\ ~DelayedTo("boot_kernel_wait")' /\ ~DelayedTo("boot_stage2_wait")'
    <3>1. CASE Delays("start")
      BY <3>1 DEF Delays, FirstFrame, DelayedTo
    <3>2. CASE Loads
      BY <3>2 DEF Loads, FirstFrame, DelayedTo
    <3>3. CASE Says("no_memory", "halt", "halt")
      BY <1>1, <3>3 DEF Says, FirstFrame, DelayedTo
    <3>. QED
      BY <1>4, <1>5, <3>1, <3>2, <3>3 DEF Gives
  <2>3. Displayed'
    BY <1>1, <2>2 DEF Displayed
  <2>4. config'.delayCompiled =>
          Shown("boot_kernel", "boot_kernel_wait")' /\ Shown("boot_stage2", "boot_stage2_wait")'
    BY <1>1, <2>1, <2>2 DEF Shown
  <2>. QED
    BY <1>2, <1>5, <2>1, <2>3, <2>4 DEF DInv, DisplayInv, ErrorIsDisplayed, BootMessageIsSeen
<1>6. CASE Gives
  BY <1>1, <1>6 DEF Gives, DInv, DisplayInv, ErrorIsDisplayed, BootMessageIsSeen
<1>. QED
  BY <1>4, <1>5, <1>6 DEF Delays, Loads, Says

LEMMA StateDelayShows == IInv /\ DInv /\ StateDelay => DInv'
<1>. SUFFICES ASSUME IInv, DInv, StateDelay PROVE DInv'
  OBVIOUS
<1>1. /\ outcome = "none" /\ pc = "execute" /\ pc' = "render" /\ config' = config
      /\ state = "delay" /\ UNCHANGED <<back, front, seen, vblank, video>>
  BY DEF StateDelay, Running, Goto, frame, hardware
<1>2. /\ config \in Configs /\ memory \in DelayMemory
      /\ video' = TRUE /\ Announced
      /\ config.delayCompiled =>
          Shown("boot_kernel", "boot_kernel_wait") /\ Shown("boot_stage2", "boot_stage2_wait")
  BY <1>1 DEF IInv, MachineTypes, MachineInv, Consistent, DInv, DisplayInv
<1>3. CASE /\ memory' = [memory EXCEPT !.ticks = @ - 1]
           /\ UNCHANGED <<state, console, outcome>>
  <2>1. memory'.transition = memory.transition
    BY <1>2, <1>3 DEF DelayMemory
  <2>2. Announced'
    BY <1>1, <1>2, <1>3, <2>1 DEF Announced, DelayedTo
  <2>3. Displayed' /\ Shown("boot_kernel", "boot_kernel_wait")'
                   /\ Shown("boot_stage2", "boot_stage2_wait")'
    BY <1>1, <1>3 DEF Displayed, Shown
  <2>. QED
    BY <1>1, <1>2, <1>3, <2>2, <2>3 DEF DInv, DisplayInv, ErrorIsDisplayed, BootMessageIsSeen
<1>4. ASSUME Run(memory.transition), memory.transition \notin Waits PROVE DInv'
  <2>1. PICK t \in Transitions \ Waits : t = memory.transition
    BY <1>2, <1>4 DEF DelayMemory
  <2>2. console = {}
    BY <1>1, <1>2, <1>4 DEF Announced
  <2>3. Goes(t)
    BY <1>1, <1>2, <1>4, <2>1, <2>2, RunGoes DEF Goes, Errors
  <2>. QED
    BY <1>1, <1>2, <2>3, GoesKeeps
<1>5. ASSUME Run(memory.transition), memory.transition \in Waits PROVE DInv'
  <2>1. /\ UNCHANGED <<memory, console, outcome>>
        /\ \/ memory.transition = "halt" /\ state' = "halt"
           \/ memory.transition = "boot_kernel_wait" /\ state' = "boot_kernel"
           \/ memory.transition = "boot_stage2_wait" /\ state' = "boot_stage2"
    BY <1>5 DEF Run, Waits
  <2>2. Announced'
    BY <1>1, <1>2, <2>1 DEF Announced, DelayedTo
  <2>3. Displayed'
    BY <1>1 DEF Displayed
  <2>4. config'.delayCompiled =>
          Shown("boot_kernel", "boot_kernel_wait")' /\ Shown("boot_stage2", "boot_stage2_wait")'
    BY <1>1, <1>2, <2>1 DEF Shown, DelayedTo
  <2>. QED
    BY <1>1, <1>2, <2>1, <2>2, <2>3, <2>4 DEF DInv, DisplayInv, ErrorIsDisplayed,
          BootMessageIsSeen
<1>. QED
  BY <1>3, <1>4, <1>5 DEF StateDelay

LEMMA StateHaltShows == IInv /\ DInv /\ StateHalt => DInv'
<1>. SUFFICES ASSUME IInv, DInv, StateHalt PROVE DInv'
  OBVIOUS
<1>1. /\ outcome = "none" /\ pc = "execute" /\ state = "halt" /\ outcome' = "halted"
      /\ UNCHANGED <<config, console, front>>
  BY DEF StateHalt, Running, machine, frame
<1>2. console \cap Errors # {} /\ (front = console \/ FirstFrame)
  BY <1>1 DEF DInv, DisplayInv, Announced, Displayed
<1>3. ErrorIsDisplayed'
  BY <1>1, <1>2 DEF ErrorIsDisplayed, FirstFrame, DelayedTo, Errors
<1>. QED
  BY <1>1, <1>3 DEF DInv, DisplayInv, BootMessageIsSeen

LEMMA StateLoadFileShows == IInv /\ DInv /\ StateLoadFile => DInv'
<1>. SUFFICES ASSUME IInv, DInv, StateLoadFile PROVE DInv'
  OBVIOUS
<1>1. /\ outcome = "none" /\ pc = "execute" /\ state = "load_file" /\ pc' = "dma"
      /\ UNCHANGED <<config, state, console, back, front, seen, vblank, outcome, video>>
  BY DEF StateLoadFile, Running, Goto, frame
<1>2. video' = TRUE /\ Announced' /\ Displayed'
  BY <1>1 DEF DInv, DisplayInv, Announced, Displayed, FirstFrame, DelayedTo
<1>3. Shown("boot_kernel", "boot_kernel_wait")' /\ Shown("boot_stage2", "boot_stage2_wait")'
  BY <1>1 DEF Shown
<1>. QED
  BY <1>1, <1>2, <1>3 DEF DInv, DisplayInv, ErrorIsDisplayed, BootMessageIsSeen

LEMMA WaitIdleShows == IInv /\ DInv /\ WaitIdle => DInv'
<1>. SUFFICES ASSUME IInv, DInv, WaitIdle PROVE DInv'
  OBVIOUS
<1>1. /\ outcome = "none" /\ pc = "dma" /\ config' = config /\ config \in Configs
      /\ UNCHANGED <<back, front, seen, vblank, video>>
  BY DEF WaitIdle, Running, Goto, frame, IInv, MachineTypes
<1>2. /\ state = "load_file" /\ memory \in LoadMemory /\ Loading(memory.file, memory.next)
      /\ console = {} /\ video' = TRUE
  BY <1>1 DEF IInv, MachineInv, DInv, DisplayInv, Announced
<1>3. CASE UNCHANGED <<machine, outcome>> /\ pc' = IF vblank THEN "render" ELSE "execute"
  <2>1. Announced' /\ Displayed'
    BY <1>1, <1>2, <1>3 DEF machine, Announced, Displayed, FirstFrame, DelayedTo
  <2>2. Shown("boot_kernel", "boot_kernel_wait")' /\ Shown("boot_stage2", "boot_stage2_wait")'
    BY <1>1, <1>2, <1>3 DEF machine, Shown, DelayedTo
  <2>. QED
    BY <1>1, <1>2, <1>3, <2>1, <2>2 DEF DInv, DisplayInv, ErrorIsDisplayed, BootMessageIsSeen
<1>4. CASE /\ pc' = "render"
           /\ IF BadChecksum THEN Fail("checksum") ELSE Transition(memory.next)
  <2>1. PICK t \in Transitions \ Waits : t = memory.next
    <3>1. memory.next \in Transitions \ Waits
      BY <1>2 DEF Loading, LoadMemory, Waits
    <3>. QED
      BY <3>1
  <2>2. CASE BadChecksum
    <3>1. Says("checksum", "halt", "halt")
      BY <1>1, <1>2, <1>4, <2>2, LastMessageSays DEF Fail
    <3>2. Goes(t)
      BY <3>1 DEF Goes, Errors
    <3>. QED
      BY <1>1, <1>2, <1>4, <3>2, GoesKeeps
  <2>3. CASE ~BadChecksum
    <3>1. Transition(t)
      BY <1>4, <2>1, <2>3
    <3>2. Goes(t)
      BY <1>1, <1>2, <3>1, TransitionGoes DEF Goes, Errors
    <3>. QED
      BY <1>1, <1>2, <1>4, <3>2, GoesKeeps
  <2>. QED
    BY <2>2, <2>3
<1>. QED
  BY <1>3, <1>4 DEF WaitIdle, Goto

LEMMA StateBootShows == IInv /\ DInv /\ StateBoot => DInv'
<1>. SUFFICES ASSUME IInv, DInv, StateBoot PROVE DInv'
  OBVIOUS
<1>1. /\ outcome = "none" /\ pc = "execute" /\ state \in {"boot_kernel", "boot_stage2"}
      /\ outcome' = IF state = "boot_kernel" THEN "kernel" ELSE "stage2"
      /\ UNCHANGED <<config, seen>>
  BY DEF StateBoot, Running, frame
<1>2. config.delayCompiled => state \in seen
  BY <1>1 DEF DInv, DisplayInv, Shown
<1>. QED
  BY <1>1, <1>2 DEF DInv, DisplayInv, ErrorIsDisplayed, BootMessageIsSeen

LEMMA FrameShows == IInv /\ DInv /\ (Render \/ SwapBuffers \/ VblankEnd) => DInv'
<1>. SUFFICES ASSUME IInv, DInv, Render \/ SwapBuffers \/ VblankEnd PROVE DInv'
  OBVIOUS
<1>1. /\ outcome = "none" /\ UNCHANGED <<config, state, memory, console, outcome, seen, video>>
      /\ \/ pc = "render" /\ pc' = "vblank_wait" /\ back' = console /\ UNCHANGED <<front, vblank>>
         \/ pc = "vblank_wait" /\ vblank /\ pc' = "vblank_end" /\ front' = back /\ vblank' = vblank
         \/ pc = "vblank_end" /\ pc' = "execute" /\ vblank' = FALSE /\ front' = front
  BY DEF Render, SwapBuffers, VblankEnd, Running, Goto, machine, frame, hardware
<1>2. /\ video' = TRUE /\ Announced /\ Displayed
      /\ config.delayCompiled =>
          Shown("boot_kernel", "boot_kernel_wait") /\ Shown("boot_stage2", "boot_stage2_wait")
  BY <1>1 DEF DInv, DisplayInv
<1>3. Announced'
  BY <1>1, <1>2 DEF Announced, DelayedTo
<1>4. Displayed'
  BY <1>1, <1>2 DEF Displayed
<1>5. ASSUME NEW message, NEW wait, Shown(message, wait),
             state = message \/ DelayedTo(wait) => message \in console
      PROVE  Shown(message, wait)'
  <2>1. CASE pc = "render" /\ pc' = "vblank_wait" /\ UNCHANGED <<front, vblank>>
    BY <1>1, <1>5, <2>1 DEF Shown, DelayedTo
  <2>2. CASE pc = "vblank_wait" /\ vblank /\ pc' = "vblank_end"
    BY <1>1, <1>5, <2>2 DEF Shown, DelayedTo
  <2>3. CASE pc = "vblank_end" /\ pc' = "execute" /\ vblank' = FALSE /\ front' = front
    <3>1. front = console
      BY <1>2, <2>3 DEF Displayed
    <3>. QED
      BY <1>1, <1>5, <2>3, <3>1 DEF Shown, DelayedTo
  <2>. QED
    BY <1>1, <2>1, <2>2, <2>3
<1>6. config'.delayCompiled =>
        Shown("boot_kernel", "boot_kernel_wait")' /\ Shown("boot_stage2", "boot_stage2_wait")'
  BY <1>1, <1>2, <1>5 DEF Announced
<1>. QED
  BY <1>1, <1>2, <1>3, <1>4, <1>6 DEF DInv, DisplayInv, ErrorIsDisplayed, BootMessageIsSeen

LEMMA VBlankShows == IInv /\ DInv /\ VBlank => DInv'
<1>. SUFFICES ASSUME IInv, DInv, VBlank PROVE DInv'
  OBVIOUS
<1>1. /\ vblank' = TRUE /\ seen' = IF video THEN seen \cup front ELSE seen
      /\ UNCHANGED <<config, state, memory, console, back, front, pc, video, outcome>>
  BY DEF VBlank, machine, hardware
<1>2. seen \subseteq seen'
  BY <1>1
<1>3. ErrorIsDisplayed' /\ BootMessageIsSeen'
  BY <1>1, <1>2 DEF DInv, ErrorIsDisplayed, BootMessageIsSeen
<1>4. CASE outcome = "none"
  <2>1. /\ video = TRUE /\ Announced' /\ Displayed'
    BY <1>1, <1>4 DEF DInv, DisplayInv, Announced, Displayed, DelayedTo, FirstFrame
  <2>2. seen' = seen \cup front
    BY <1>1, <2>1
  <2>3. ASSUME NEW message, NEW wait, Shown(message, wait) PROVE Shown(message, wait)'
    BY <1>1, <2>2, <2>3 DEF Shown, DelayedTo
  <2>. QED
    BY <1>1, <1>3, <1>4, <2>1, <2>3 DEF DInv, DisplayInv
<1>. QED
  BY <1>1, <1>3, <1>4 DEF DInv, DisplayInv

LEMMA OthersShow == IInv /\ DInv /\ (Pi \/ UNCHANGED vars) => DInv'
<1>. SUFFICES ASSUME DInv, Pi \/ UNCHANGED vars PROVE DInv'
  OBVIOUS
<1>1. UNCHANGED <<config, state, memory, console, back, front, seen, pc, vblank, video, outcome>>
  BY DEF Pi, PiComplete, PiError, vars, machine, frame, hardware
<1>. QED
  BY <1>1 DEF DInv, DisplayInv, Announced, Displayed, Shown, DelayedTo, FirstFrame,
        ErrorIsDisplayed, BootMessageIsSeen

LEMMA NextShows == IInv /\ DInv /\ [Next]_vars => DInv'
BY InitializeShows, StateDelayShows, StateHaltShows, StateLoadFileShows, WaitIdleShows,
   StateBootShows, FrameShows, VBlankShows, OthersShow DEF Next, Cpu
-----------------------------------------------------------------------------
(* Messages are announced, displayed and seen in this order, in every frame
   (fsm.c, main.c). *)
THEOREM DisplayHolds == Spec => [](IInv /\ DInv)
<1>1. Init => IInv /\ DInv
  BY InitIInv, InitDInv
<1>2. IInv /\ DInv /\ [Next]_vars => (IInv /\ DInv)'
  BY NextKeeps, NextShows
<1>. QED
  BY <1>1, <1>2, PTL DEF Spec

(* The error that halts stage 1 is in the displayed framebuffer when it halts. *)
THEOREM ErrorsAreDisplayed == Spec => []ErrorIsDisplayed
<1>1. IInv /\ DInv => ErrorIsDisplayed
  BY DEF DInv
<1>. QED
  BY <1>1, DisplayHolds, PTL

(* With delays compiled in, the boot message was on the screen at a vertical blank
   before the video output is switched off. *)
THEOREM BootMessagesAreSeen == Spec => []BootMessageIsSeen
<1>1. IInv /\ DInv => BootMessageIsSeen
  BY DEF DInv
<1>. QED
  BY <1>1, DisplayHolds, PTL
-----------------------------------------------------------------------------
(* The whole program.                                                         *)

BeforeFence == {"interrupt_initialize", "vi_disable", "video_initialize"}
BeforeMachine == BeforeFence \cup {"vi_enable", "fsm_initialize"}

(* The machine is not initialised before its turn, and nothing can be displayed
   before that.  If every source is masked at the start, only the video interface
   is ever unmasked, and not before its fence is new. *)
StartInv ==
    /\ main \in BeforeMachine \cup {"terminate_boot", "frames"}
    /\ mi_mask \subseteq Sources /\ mi_interrupt \subseteq Sources /\ cleared \in BOOLEAN
    /\ main \in BeforeMachine <=> pc = "initialize"
    /\ main \in BeforeMachine => front = {} /\ seen = {} /\ outcome = "none"
    /\ cleared => mi_mask \subseteq {"vi"}
    /\ cleared /\ main \in BeforeFence \cup {"vi_enable"} => mi_mask = {}
    /\ main = "video_initialize" => "vi" \notin mi_mask

Stage1Inv == IInv /\ DInv /\ StartInv
-----------------------------------------------------------------------------
(* The registers. *)

LEMMA BitsAre ==
    /\ "vi" \in Sources /\ ClearBit("vi") = 6 /\ SetBit("vi") = 7
    /\ \A s \in Sources : /\ Bit[s] \in 0 .. 5
                          /\ ClearBit(s) = 6 => s = "vi"
                          /\ SetBit(s) = 7 => s = "vi"
                          /\ SetBit(s) # 6 /\ ClearBit(s) # 7
BY DEF Sources, Bit, ClearBit, SetBit

(* Disabling the video interface masks it, whatever else it does, and leaves
   nothing unmasked that was not if nothing was. *)
LEMMA ViDisableMasks ==
    ASSUME mi_mask \subseteq Sources, interrupt_vi_disable
    PROVE  /\ mi_mask' \subseteq Sources /\ "vi" \notin mi_mask'
           /\ mi_mask = {} => mi_mask' = {}
<1>1. 6 \in MaskRead \cup {6} /\ 7 \notin MaskRead \cup {6}
  BY BitsAre DEF MaskRead
<1>2. mi_mask' \subseteq Sources /\ "vi" \notin mi_mask'
  BY <1>1, BitsAre DEF interrupt_vi_disable, MaskWrite
<1>3. ASSUME mi_mask = {}, NEW s \in mi_mask' PROVE FALSE
  <2>1. MaskRead = {}
    BY <1>3 DEF MaskRead
  <2>2. s \in Sources /\ s # "vi"
    BY <1>2, <1>3
  <2>3. {SetBit(s), ClearBit(s)} \cap {6} = {}
    BY <2>2, BitsAre
  <2>. QED
    BY <1>3, <2>1, <2>2, <2>3, BitsAre DEF interrupt_vi_disable, MaskWrite
<1>. QED
  BY <1>2, <1>3

(* Enabling it unmasks nothing else if nothing was unmasked. *)
LEMMA ViEnableUnmasks ==
    ASSUME mi_mask \subseteq Sources, interrupt_vi_enable
    PROVE  /\ mi_mask' \subseteq Sources
           /\ mi_mask \subseteq {"vi"} /\ "vi" \notin mi_mask => mi_mask' \subseteq {"vi"}
<1>1. mi_mask' \subseteq Sources
  BY DEF interrupt_vi_enable, MaskWrite
<1>2. ASSUME mi_mask = {}, NEW s \in mi_mask', s # "vi" PROVE FALSE
  <2>1. MaskRead = {}
    BY <1>2 DEF MaskRead
  <2>2. s \in Sources
    BY <1>1, <1>2
  <2>3. {SetBit(s), ClearBit(s)} \cap {7} = {}
    BY <1>2, <2>2, BitsAre
  <2>. QED
    BY <1>2, <2>1, <2>2, <2>3, BitsAre DEF interrupt_vi_enable, MaskWrite
<1>. QED
  BY <1>1, <1>2
-----------------------------------------------------------------------------
(* What the steps of stage 1 are to the frame loop. *)

LEMMA StepsAre ==
    ASSUME [Stage1Next]_stage1Vars
    PROVE  [Next]_vars \/ VideoInitialize
BY DEF Stage1Next, stage1Vars, Start1, InterruptInitialize, ViDisable, ViEnable,
       FsmInitialize, TerminateBoot, Frames, ServiceRoutine, VideoInterface,
       PeripheralInterface, SerialInterface, Next, Cpu

(* A fence that is made new keeps what is known of the frame loop. *)
LEMMA VideoInitializeKeeps == IInv /\ DInv /\ VideoInitialize => IInv' /\ DInv'
<1>. SUFFICES ASSUME IInv, DInv, VideoInitialize
              PROVE  IInv' /\ DInv'
  OBVIOUS
<1>1. /\ vblank' = FALSE
      /\ UNCHANGED <<config, state, memory, console, status, arguments, back, front, seen,
                     pc, video, interrupts, pi, corrupt, loaded, outcome>>
  BY DEF VideoInitialize, machine, allocations, frame, hardware
<1>2. OtherTypes'
  BY <1>1 DEF IInv, OtherTypes
<1>3. IInv'
  BY <1>1, <1>2, ElsewhereKeeps DEF machine, allocations
<1>4. Shown("boot_kernel", "boot_kernel_wait") => Shown("boot_kernel", "boot_kernel_wait")'
  BY <1>1 DEF Shown, DelayedTo
<1>5. Shown("boot_stage2", "boot_stage2_wait") => Shown("boot_stage2", "boot_stage2_wait")'
  BY <1>1 DEF Shown, DelayedTo
<1>6. DInv'
  BY <1>1, <1>4, <1>5 DEF DInv, DisplayInv, Announced, Displayed, DelayedTo, FirstFrame,
        ErrorIsDisplayed, BootMessageIsSeen
<1>. QED
  BY <1>3, <1>6

LEMMA LoopKeeps == IInv /\ DInv /\ [Stage1Next]_stage1Vars => IInv' /\ DInv'
  BY StepsAre, VideoInitializeKeeps, NextKeeps, NextShows

(* The CPU leaves the initial place once, and nothing goes back to it. *)
LEMMA CpuLeaves == Cpu => pc' # "initialize" /\ (pc # "initialize" => ~Initialize)
BY DEF Cpu, Initialize, StateDelay, StateHalt, StateLoadFile, WaitIdle, StateBoot, Render,
       SwapBuffers, VblankEnd, Running, Goto

LEMMA HardwareKeepsPlace == VBlank \/ Pi => pc' = pc /\ outcome' = outcome /\ front' = front
BY DEF VBlank, Pi, PiComplete, PiError, frame

LEMMA InitStartInv == Stage1Init => Stage1Inv
<1>. SUFFICES ASSUME Stage1Init
              PROVE  Stage1Inv
  OBVIOUS
<1>1. IInv /\ DInv
  BY InitIInv, InitDInv DEF Stage1Init
<1>2. mi_mask \subseteq Sources /\ mi_interrupt \subseteq Sources
  BY ResetAssumption DEF Stage1Init
<1>. QED
  BY <1>1, <1>2 DEF Stage1Init, Init, Stage1Inv, StartInv, BeforeFence, BeforeMachine

LEMMA StartKeeps == StartInv /\ Start1 => StartInv'
<1>. SUFFICES ASSUME StartInv, Start1
              PROVE  StartInv'
  OBVIOUS
<1>. USE DEF BeforeFence, BeforeMachine, Call, lines
<1>1. CASE InterruptInitialize \/ VideoInitialize \/ TerminateBoot
  BY <1>1 DEF InterruptInitialize, VideoInitialize, TerminateBoot, StartInv, vars, frame
<1>2. CASE ViDisable
  <2>1. mi_mask' \subseteq Sources /\ "vi" \notin mi_mask' /\ (mi_mask = {} => mi_mask' = {})
    BY <1>2, ViDisableMasks DEF ViDisable, StartInv
  <2>. QED
    BY <1>2, <2>1 DEF ViDisable, StartInv, vars, frame
<1>3. CASE ViEnable
  <2>1. mi_mask' \subseteq Sources /\ (mi_mask = {} => mi_mask' \subseteq {"vi"})
    BY <1>3, ViEnableUnmasks DEF ViEnable, StartInv
  <2>. QED
    BY <1>3, <2>1 DEF ViEnable, StartInv, vars, frame
<1>4. CASE FsmInitialize
  <2>1. pc' # "initialize"
    BY <1>4 DEF FsmInitialize, Initialize, Goto
  <2>. QED
    BY <1>4, <2>1 DEF FsmInitialize, StartInv
<1>. QED
  BY <1>1, <1>2, <1>3, <1>4 DEF Start1

LEMMA RestKeeps ==
    StartInv /\ [Frames \/ ServiceRoutine \/ VideoInterface
                  \/ PeripheralInterface \/ SerialInterface]_stage1Vars => StartInv'
<1>. SUFFICES ASSUME StartInv,
                     [Frames \/ ServiceRoutine \/ VideoInterface
                      \/ PeripheralInterface \/ SerialInterface]_stage1Vars
              PROVE  StartInv'
  OBVIOUS
<1>1. CASE Frames
  <2>1. pc' # "initialize"
    BY <1>1, CpuLeaves DEF Frames
  <2>. QED
    BY <1>1, <2>1 DEF Frames, Call, lines, StartInv, BeforeFence, BeforeMachine
<1>2. CASE ServiceRoutine
  <2>1. UNCHANGED <<main, cleared, mi_mask>> /\ mi_interrupt' \subseteq mi_interrupt
    BY <1>2 DEF ServiceRoutine, Handle
  <2>2. pc' = pc /\ front' = front /\ outcome' = outcome
    BY <1>2, HardwareKeepsPlace DEF ServiceRoutine
  <2>3. front = {} /\ seen = {} => seen' = {}
    BY <1>2 DEF ServiceRoutine, VBlank
  <2>. QED
    BY <2>1, <2>2, <2>3 DEF StartInv
<1>3. CASE PeripheralInterface
  <2>1. UNCHANGED <<main, cleared, mi_mask>> /\ mi_interrupt' \subseteq Sources
    BY <1>3 DEF PeripheralInterface, Raise, StartInv, Sources
  <2>2. pc' = pc /\ outcome' = outcome /\ front' = front /\ seen' = seen
    BY <1>3, HardwareKeepsPlace DEF PeripheralInterface, Pi, PiComplete, PiError, frame
  <2>. QED
    BY <2>1, <2>2 DEF StartInv
<1>4. CASE VideoInterface \/ SerialInterface \/ UNCHANGED stage1Vars
  <2>1. UNCHANGED <<main, cleared, mi_mask, pc, outcome, front, seen>>
    BY <1>4 DEF VideoInterface, SerialInterface, stage1Vars, vars, lines, frame
  <2>2. mi_interrupt' \subseteq Sources
    BY <1>4 DEF VideoInterface, SerialInterface, stage1Vars, lines, Raise, StartInv, Sources
  <2>. QED
    BY <2>1, <2>2 DEF StartInv
<1>. QED
  BY <1>1, <1>2, <1>3, <1>4

LEMMA Stage1NextKeeps == Stage1Inv /\ [Stage1Next]_stage1Vars => Stage1Inv'
<1>1. StartInv /\ [Stage1Next]_stage1Vars => StartInv'
  BY StartKeeps, RestKeeps DEF Stage1Next
<1>. QED
  BY <1>1, LoopKeeps DEF Stage1Inv
-----------------------------------------------------------------------------
(* The invariant of the frame loop and the order of the start hold however the
   interrupts come (stage1.c, interrupt.c). *)
THEOREM Stage1InvariantHolds == Stage1Spec => []Stage1Inv
  BY InitStartInv, Stage1NextKeeps, PTL DEF Stage1Spec

(* The service routine is never entered while the fence it signals is made new,
   and, if every source is masked at the start, only for the video interface
   (interrupt.c). *)
THEOREM OnlyAwaitedInterruptsAreTaken == Stage1Spec => []OnlyAwaitedInterrupts
<1>1. Stage1Inv => OnlyAwaitedInterrupts
  BY DEF Stage1Inv, StartInv, OnlyAwaitedInterrupts, Interrupted, Taken
<1>. QED
  BY <1>1, Stage1InvariantHolds, PTL

(* Every property of the frame loop holds of stage 1 with the interrupts as the
   hardware raises them: its types and the memory its states own ... *)
THEOREM Stage1StatesOwnTheirMemory == Stage1Spec => [](TypeOK /\ MemoryMatchesState)
<1>1. Stage1Inv => TypeOK /\ MemoryMatchesState
  BY IInvTypeOK, IInvMatches DEF Stage1Inv, IInv
<1>. QED
  BY <1>1, Stage1InvariantHolds, PTL

(* ... what it has loaded when it hands over ... *)
THEOREM Stage1BootsWhatWasLoaded == Stage1Spec => []BootsWhatWasLoaded
<1>1. Stage1Inv => BootsWhatWasLoaded
  BY DEF Stage1Inv, IInv
<1>. QED
  BY <1>1, Stage1InvariantHolds, PTL

(* ... and what has been displayed when it halts or hands over. *)
THEOREM Stage1SaysWhatItDoes == Stage1Spec => [](ErrorIsDisplayed /\ BootMessageIsSeen)
<1>1. Stage1Inv => ErrorIsDisplayed /\ BootMessageIsSeen
  BY DEF Stage1Inv, DInv
<1>. QED
  BY <1>1, Stage1InvariantHolds, PTL
-----------------------------------------------------------------------------
(* The refinement: once the fence is initialised, a step of the frame loop is the
   same step of Stage1Fsm, with the same fence. *)

LEMMA RunIsFsms ==
    ASSUME NEW transition
    PROVE  Fsm!Run(transition) <=> Run(transition)
BY DEF Run, Fsm!Run, Delay, Fsm!Delay, Start, Fsm!Start,
       Fail, Fsm!Fail, BootKernel, Fsm!BootKernel, BootStage2, Fsm!BootStage2,
       LastMessage, Fsm!LastMessage, LoadFile, Fsm!LoadFile, LoadStage2, Fsm!LoadStage2,
       Loadable, Fsm!Loadable, LoadCommandLine, Fsm!LoadCommandLine,
       LoadInitramfs, Fsm!LoadInitramfs, LoadKernel, Fsm!LoadKernel,
       Files, Fsm!Files, Images, Fsm!Images, Waits, Fsm!Waits, machine, Fsm!machine,
       allocations, Fsm!allocations

LEMMA TransitionIsFsms ==
    ASSUME NEW transition
    PROVE  Fsm!Transition(transition) <=> Transition(transition)
BY RunIsFsms DEF Transition, Fsm!Transition, Delay, Fsm!Delay, allocations, Fsm!allocations

FsmVblank == main \notin BeforeFence /\ vblank

LEMMA SameFence ==
    /\ vblank \in BOOLEAN /\ main \notin BeforeFence => FsmVblank = vblank
    /\ main \in BeforeFence => FsmVblank = FALSE
BY DEF FsmVblank

LEMMA CpuIsFsms ==
    ASSUME FsmVblank = vblank, FsmVblank' = vblank', Cpu
    PROVE  Fsm!Cpu
<1>. USE DEF Running, Fsm!Running, Goto, Fsm!Goto, machine, Fsm!machine, allocations,
       Fsm!allocations, frame, Fsm!frame, hardware, Fsm!hardware, FsmVblank, BeforeFence
<1>1. CASE Initialize
  BY <1>1, TransitionIsFsms DEF Initialize, Fsm!Initialize, Fsm!Cpu
<1>2. CASE StateDelay
  BY <1>2, RunIsFsms DEF StateDelay, Fsm!StateDelay, Fsm!Cpu
<1>3. CASE StateHalt \/ StateLoadFile \/ StateBoot
  BY <1>3 DEF StateHalt, StateLoadFile, StateBoot, Fsm!StateHalt, Fsm!StateLoadFile,
     Fsm!StateBoot, Fsm!Cpu
<1>4. CASE WaitIdle
  BY <1>4, TransitionIsFsms DEF WaitIdle, Fsm!WaitIdle, Fsm!Cpu, BadChecksum, Fsm!BadChecksum,
     Fail, Fsm!Fail, LastMessage, Fsm!LastMessage, Delay, Fsm!Delay
<1>5. CASE Render \/ SwapBuffers \/ VblankEnd
  BY <1>5 DEF Render, SwapBuffers, VblankEnd, Fsm!Render, Fsm!SwapBuffers, Fsm!VblankEnd, Fsm!Cpu
<1>. QED
  BY <1>1, <1>2, <1>3, <1>4, <1>5 DEF Cpu

LEMMA HardwareIsFsms ==
    ASSUME FsmVblank = vblank, FsmVblank' = vblank', VBlank \/ Pi
    PROVE  Fsm!VBlank \/ Fsm!Pi
BY DEF VBlank, Fsm!VBlank, Pi, Fsm!Pi, PiComplete, Fsm!PiComplete, PiError, Fsm!PiError,
       machine, Fsm!machine, allocations, Fsm!allocations, frame, Fsm!frame,
       hardware, Fsm!hardware, FsmVblank, BeforeFence

(* A step that changes nothing but the fence before it is initialised changes
   nothing at all. *)
LEMMA StutterIsFsms ==
    ASSUME FsmVblank' = FsmVblank,
           UNCHANGED <<config, machine, allocations, frame, pc, hardware, outcome>>
    PROVE  UNCHANGED Fsm!vars
BY DEF Fsm!vars, machine, Fsm!machine, allocations, Fsm!allocations, frame, Fsm!frame,
       hardware, Fsm!hardware, FsmVblank, BeforeFence

LEMMA NextRefines ==
    Stage1Inv /\ [Stage1Next]_stage1Vars => [Fsm!Next]_(Fsm!vars)
<1>. SUFFICES ASSUME Stage1Inv, [Stage1Next]_stage1Vars
              PROVE  [Fsm!Next]_(Fsm!vars)
  OBVIOUS
<1>1. vblank \in BOOLEAN /\ vblank' \in BOOLEAN
  BY Stage1NextKeeps DEF Stage1Inv, IInv, OtherTypes
<1>2. CASE InterruptInitialize \/ ViDisable \/ VideoInitialize
  <2>1. FsmVblank' = FsmVblank
    BY <1>2, <1>1 DEF InterruptInitialize, ViDisable, VideoInitialize, Call, FsmVblank, BeforeFence
  <2>. QED
    BY <1>2, <2>1, StutterIsFsms DEF InterruptInitialize, ViDisable, VideoInitialize, vars
<1>3. CASE ViEnable \/ TerminateBoot \/ VideoInterface \/ SerialInterface \/ UNCHANGED stage1Vars
  <2>1. /\ UNCHANGED vars
        /\ main' = main \/ {main, main'} \cap BeforeFence = {}
    BY <1>3 DEF ViEnable, TerminateBoot, VideoInterface, SerialInterface, stage1Vars, Call,
       BeforeFence
  <2>2. FsmVblank' = FsmVblank
    BY <2>1 DEF FsmVblank, vars
  <2>. QED
    BY <2>1, <2>2, StutterIsFsms DEF vars
<1>4. CASE FsmInitialize \/ Frames
  <2>1. Cpu /\ main \notin BeforeFence /\ main' \notin BeforeFence
    BY <1>4 DEF FsmInitialize, Frames, Call, Cpu, BeforeFence
  <2>2. FsmVblank = vblank /\ FsmVblank' = vblank'
    BY <1>1, <2>1 DEF FsmVblank
  <2>. QED
    BY <2>1, <2>2, CpuIsFsms DEF Fsm!Next
<1>5. CASE ServiceRoutine \/ PeripheralInterface
  <2>1. (VBlank \/ Pi) /\ main' = main
    BY <1>5 DEF ServiceRoutine, PeripheralInterface
  <2>2. CASE main \notin BeforeFence
    <3>1. FsmVblank = vblank /\ FsmVblank' = vblank'
      BY <1>1, <2>1, <2>2 DEF FsmVblank
    <3>. QED
      BY <2>1, <3>1, HardwareIsFsms DEF Fsm!Next
  <2>3. CASE main \in BeforeFence
    <3>1. ~Pi /\ front = {} /\ seen = {}
      BY <2>3 DEF Stage1Inv, StartInv, IInv, PiInv, BeforeMachine, Pi, PiComplete, PiError
    <3>2. UNCHANGED <<config, machine, allocations, frame, pc, hardware, outcome>>
      BY <2>1, <3>1 DEF VBlank, frame
    <3>3. FsmVblank' = FsmVblank
      BY <2>1, <2>3 DEF FsmVblank
    <3>. QED
      BY <3>2, <3>3, StutterIsFsms
  <2>. QED
    BY <2>2, <2>3
<1>. QED
  BY <1>2, <1>3, <1>4, <1>5 DEF Stage1Next, Start1

LEMMA InitRefines == Stage1Init => Fsm!Init
<1>. SUFFICES ASSUME Stage1Init
              PROVE  Fsm!Init
  OBVIOUS
<1>1. main \in BeforeFence
  BY DEF Stage1Init, BeforeFence
<1>. QED
  BY <1>1 DEF Stage1Init, Init, Fsm!Init, BeforeFence

(* Stage 1 with its interrupts is the frame loop of Stage1Fsm: whatever is masked
   or raised at the start, and whenever an interrupt is taken, no vertical blank is
   lost or made up (stage1.c, interrupt.c). *)
THEOREM Stage1ImplementsFsm == Stage1Spec => ImplementsFsm
  BY InitRefines, NextRefines, Stage1InvariantHolds, PTL DEF Stage1Spec, ImplementsFsm
=============================================================================
