------------------------------ MODULE Interrupts ------------------------------
(* The interrupts of stage 1 (boot/stage1/interrupt.c): the mask of the MIPS    *)
(* interface, which selects the sources that interrupt the CPU, and the service *)
(* routine, which knows the video interface only.                               *)
(*                                                                              *)
(* The mask is read as one bit per source and written as two, one that clears   *)
(* and one that sets; vi_enable and vi_disable write what they have read, with  *)
(* a bit added.  A register is the set of the numbers of its bits.              *)
EXTENDS Naturals

VARIABLES
    mi_mask,        \* sources that interrupt the CPU
    mi_interrupt    \* sources that have something to say

Sources == {"sp", "si", "ai", "vi", "pi", "dp"}
Bit == [sp |-> 0, si |-> 1, ai |-> 2, vi |-> 3, pi |-> 4, dp |-> 5]

ClearBit(s) == 2 * Bit[s]
SetBit(s) == 2 * Bit[s] + 1

MaskRead == {Bit[s] : s \in mi_mask}

(* Of a source that is both set and cleared, nothing is said.                   *)
MaskWrite(bits) ==
    mi_mask' \in {m \in SUBSET Sources : \A s \in Sources :
        /\ SetBit(s) \in bits /\ ClearBit(s) \notin bits => s \in m
        /\ ClearBit(s) \in bits /\ SetBit(s) \notin bits => s \notin m
        /\ {SetBit(s), ClearBit(s)} \cap bits = {} => (s \in m <=> s \in mi_mask)}

FaultyViEnable == MaskWrite(MaskRead \cup {Bit["vi"]})
interrupt_vi_enable == MaskWrite(MaskRead \cup {SetBit("vi")})
interrupt_vi_disable == MaskWrite(MaskRead \cup {ClearBit("vi")})

Taken == mi_mask \cap mi_interrupt

Raise(s) == mi_interrupt' = mi_interrupt \cup {s}

(* The routine looks for the video interface and makes it quiet; it returns     *)
(* from every other source with nothing done.                                   *)
FaultyHandle == "vi" \in mi_interrupt /\ UNCHANGED mi_interrupt
Handle == "vi" \in mi_interrupt /\ mi_interrupt' = mi_interrupt \ {"vi"}
=============================================================================
