------------------------------ MODULE KernelElf ------------------------------
(* The ELF parser that finds the kernel image in its file                     *)
(* (lib/src/tux64/platform/mips/n64/kernel.c).  Files of both classes go      *)
(* through the same code, with the fields of a 32-bit file widened.           *)
(*                                                                            *)
(* A file is a record: its length, the fields of its identification and ELF   *)
(* header (a BOOLEAN says whether one has the value the parser wants), and    *)
(* segments, its program headers: load says whether the type is PT_LOAD.      *)
EXTENDS Integers, Sequences

CONSTANTS
    Word32, Word64,   \* 2^32 and 2^64
    IdentBytes,       \* TUX64_ELF_HEADER_IDENT_BYTES
    HeaderBytes,      \* bytes of an ELF header, by class
    SegmentBytes      \* bytes of a program header, by class

ASSUME ElfAssumption ==
    /\ {Word32, Word64, IdentBytes} \subseteq Nat \ {0} /\ Word32 < Word64
    /\ HeaderBytes \in [{32, 64} -> Nat] /\ SegmentBytes \in [{32, 64} -> Nat]

(* Every file, and the fields of its headers as the parser widens them.       *)
Fields64 == 0 .. Word64 - 1
Segments ==
    [load : BOOLEAN, offset : Fields64, filesz : Fields64, memsz : Fields64, vaddr : Fields64,
     align : Fields64]
ElfFiles ==
    [bytes : 0 .. Word32 - 1, magic : BOOLEAN, big_endian : BOOLEAN, version : BOOLEAN,
     class : Nat, exec : BOOLEAN, mips : BOOLEAN, e_version : BOOLEAN, sizes : BOOLEAN,
     entry : Fields64, phoff : Fields64, segments : Seq(Segments)]

Fault(status) == [status |-> status]

(* The load address has the offset's place in an aligned block.               *)
AlignmentVerify(segment) ==
    segment.align > 1 =>
        /\ \E n \in 1 .. segment.align : 2^n = segment.align
        /\ (segment.vaddr - segment.offset) % segment.align = 0

(* The headers must be in the file.  The check counts program headers of the  *)
(* 64-bit class whatever the file's.                                          *)
ProgramHeadersPresent(elf) ==
    /\ elf.phoff <= elf.bytes
    /\ Len(elf.segments) * SegmentBytes[64] <= elf.bytes - elf.phoff

ParseMainSegment(elf, segment) ==
    IF \/ segment.filesz >= Word32 \/ segment.memsz >= Word32
       \/ segment.memsz < segment.filesz
       \/ elf.entry < segment.vaddr \/ elf.entry - segment.vaddr > segment.filesz
    THEN Fault("corrupt_image")
    ELSE [status |-> "ok", offset |-> segment.offset % Word32, bytes |-> segment.filesz,
          memory |-> segment.memsz, addr_load |-> segment.vaddr % Word32,
          addr_entry |-> elf.entry % Word32]

Loadable(elf) == {i \in DOMAIN elf.segments : elf.segments[i].load}

(* A parser that believes the segment's place in the file.                    *)
FaultyParseProgramHeaders(elf) ==
    IF Loadable(elf) = {} THEN Fault("main_segment_missing")
    ELSE ParseMainSegment(elf, elf.segments[CHOOSE i \in Loadable(elf) : TRUE])

(* The one loadable segment, or the fault of having none or several.          *)
ParseProgramHeaders(elf) ==
    LET segment == elf.segments[CHOOSE i \in Loadable(elf) : TRUE]
    IN  IF Loadable(elf) = {} THEN Fault("main_segment_missing")
        ELSE IF \E i, j \in Loadable(elf) : i # j THEN Fault("main_segment_duplicate")
        ELSE IF \/ (segment.offset + segment.filesz) % Word64 > elf.bytes
                \/ ~AlignmentVerify(segment)
        THEN Fault("corrupt_image")
        ELSE ParseMainSegment(elf, segment)

ParseElfHeader(elf) ==
    IF elf.bytes < HeaderBytes[elf.class] THEN Fault("corrupt_image")
    ELSE IF ~elf.exec THEN Fault("invalid_type")
    ELSE IF ~elf.mips THEN Fault("invalid_machine")
    ELSE IF ~elf.e_version THEN Fault("bad_version")
    ELSE IF ~elf.sizes \/ ~ProgramHeadersPresent(elf) THEN Fault("corrupt_image")
    ELSE ParseProgramHeaders(elf)

KernelParse(elf) ==
    IF elf.bytes < IdentBytes \/ ~elf.magic THEN Fault("corrupt_image")
    ELSE IF ~elf.big_endian THEN Fault("invalid_endianess")
    ELSE IF ~elf.version THEN Fault("bad_version")
    ELSE IF elf.class \notin {32, 64} THEN Fault("corrupt_image")
    ELSE ParseElfHeader(elf)
=============================================================================
