----------------------------- MODULE RomBuilder -----------------------------
(* tux64-mkrom's builder (mkrom/src/tux64-mkrom/builder.c): it measures the   *)
(* ROM, fills in the boot header, and copies the files into the image.  The   *)
(* three agree on where a file is only because they add up the same lengths.  *)
(*                                                                            *)
(* An input gives the bytes of each file, the characters of the command line  *)
(* with its final NUL, and "bss", the memory of stage 1 beyond its file.      *)
EXTENDS Integers, Sequences

CONSTANTS
    Word,             \* 2^32: lengths and offsets are 32-bit integers
    Boundary,         \* TUX64_MKROM_BUILDER_ALIGNMENT_BOUNDARY
    RomAlignment,     \* TUX64_MKROM_BUILDER_ROM_SIZE_ALIGNMENT
    Ipl3End,          \* 0x1000, where stage 0 and its CIC data end
    RomHeader,        \* bytes of the ROM header
    BootHeader,       \* bytes of the boot header
    MaxRom,           \* TUX64_MKROM_BUILDER_MAX_ROM_BYTES
    MaxCommandLine    \* TUX64_UINT16_MAX

ASSUME RomAssumption ==
    /\ {Word, Boundary, RomAlignment, Ipl3End, RomHeader, BootHeader} \subseteq Nat \ {0}
    /\ MaxRom \in Nat /\ MaxCommandLine \in Nat
    /\ RomHeader < Ipl3End
    /\ Word % Boundary = 0 /\ Ipl3End % Boundary = 0 /\ BootHeader % Boundary = 0
    /\ MaxRom + RomAlignment < Word

(* The files the boot header describes, in the order of the image.            *)
Files == <<"stage1", "stage2", "kernel", "initramfs", "command_line">>
FileNames == {Files[i] : i \in DOMAIN Files}
Inputs == [FileNames \cup {"stage0", "stage0_cic", "bss"} -> 0 .. Word - 1]

Rounded(value, alignment) == ((value + alignment - 1) \div alignment) * alignment
AlignForward(value, alignment) == Rounded(value, alignment) % Word
Pad(bytes) == AlignForward(bytes, Boundary)
-----------------------------------------------------------------------------
(* Where each file starts, and "end" where the last one ends, when the first  *)
(* starts at begin and each takes its padded length.                          *)
Starts(begin, bytes) ==
    LET stage2 == begin + Pad(bytes["stage1"])
        kernel == stage2 + Pad(bytes["stage2"])
        initramfs == kernel + Pad(bytes["kernel"])
        command_line == initramfs + Pad(bytes["initramfs"])
    IN  [stage1 |-> begin, stage2 |-> stage2, kernel |-> kernel, initramfs |-> initramfs,
         command_line |-> command_line, end |-> command_line + Pad(bytes["command_line"])]

Empty(input) == input["command_line"] = 1

(* The length of the command line differs: the boot header's counts the NUL,  *)
(* the measured one counts it twice, and both are 0 for an empty one.  The    *)
(* definition named Faulty... is a variant that mixes the two up.             *)
FaultyDescribed(input) ==
    [input EXCEPT !["command_line"] = IF Empty(input) THEN 0 ELSE @ + 1]
Described(input) ==
    [input EXCEPT !["command_line"] = IF Empty(input) THEN 0 ELSE @]
Measured(input) ==
    [input EXCEPT !["command_line"] = IF Empty(input) THEN 0 ELSE (@ + 1) % Word]

MaxValue == (Word - 1) - ((Word - 1) % Boundary)

(* The lengths are added up in the order of the code; each sum is the marker  *)
(* before a length.  A length the marker leaves no room for is an overflow.   *)
Overflows(input) ==
    LET Next(marker, bytes) == Pad((marker + bytes) % Word)
        cic == Next(Next(RomHeader, input["stage0"]), BootHeader)
        stage1 == Next(cic, input["stage0_cic"])
        stage2 == Next(stage1, input["stage1"])
        kernel == Next(stage2, input["stage2"])
        initramfs == Next(kernel, input["kernel"])
        command_line == Next(initramfs, input["initramfs"])
        marker == [stage0 |-> RomHeader, stage0_cic |-> cic, stage1 |-> stage1,
                   stage2 |-> stage2, kernel |-> kernel, initramfs |-> initramfs,
                   command_line |-> command_line]
    IN  {f \in DOMAIN marker : marker[f] > (MaxValue - input[f]) % Word}
            \cup {f \in {"command_line"} : input[f] > MaxCommandLine}

(* The files at which the image is longer than the largest ROM.               *)
TooLong(input) ==
    LET start == Starts(Ipl3End + Pad(BootHeader), Measured(input))
        end == [stage1 |-> start.stage2, stage2 |-> start.kernel, kernel |-> start.initramfs,
                initramfs |-> start.command_line, command_line |-> start.end]
    IN  {f \in FileNames : end[f] % Word > MaxRom}

(* Of several errors the first in the order of the checks is reported, and an *)
(* overflow by the command line as one by the initramfs.                      *)
FirstOf(names) ==
    LET order == <<"stage0", "stage0_cic">> \o Files
        i == CHOOSE i \in DOMAIN order :
                order[i] \in names /\ \A j \in 1 .. i - 1 : order[j] \notin names
    IN  order[i]

(* A stage 0 that is too long sets an error too, which is overwritten.        *)
MeasureStatus(input) ==
    IF Overflows(input) # {}
    THEN IF FirstOf(Overflows(input)) = "command_line" THEN "initramfs" ELSE FirstOf(Overflows(input))
    ELSE IF TooLong(input) # {} THEN FirstOf(TooLong(input)) ELSE "ok"

RomBytes(input) ==
    AlignForward(Starts(Ipl3End + Pad(BootHeader), Measured(input)).end % Word, RomAlignment)

(* The boot header: the cartridge offset and the length of each file, and the *)
(* memory stage 1 is loaded into.                                             *)
HeaderOf(input) ==
    LET start == Starts(Ipl3End + BootHeader, Described(input))
    IN  [offset |-> [f \in FileNames |-> start[f] % Word],
         length |-> [f \in FileNames |-> Described(input)[f]],
         memory |-> (input["stage1"] + input["bss"]) % Word]
-----------------------------------------------------------------------------
(* The copies the builder makes, in order.                                    *)
Copies(input) ==
    LET start == Starts(Ipl3End + Pad(BootHeader), input)
        Copy(file, at, bytes) == [file |-> file, at |-> at, bytes |-> bytes]
    IN  <<Copy("rom_header", 0, RomHeader),
          Copy("stage0", RomHeader, input["stage0"]),
          Copy("stage0_cic", Ipl3End - input["stage0_cic"], input["stage0_cic"]),
          Copy("boot_header", Ipl3End, BootHeader)>>
            \o [i \in DOMAIN Files |-> Copy(Files[i], start[Files[i]], input[Files[i]])]

(* The image: what the last copy over a byte has put there.                   *)
Image(input, bytes) ==
    LET copy == Copies(input)
        Over(byte) == {i \in DOMAIN copy :
                          copy[i].at <= byte /\ byte < copy[i].at + copy[i].bytes}
        Last(S) == CHOOSE i \in S : \A j \in S : j <= i
    IN  [byte \in 0 .. bytes - 1 |->
            IF Over(byte) = {} THEN <<"zero", 0>>
            ELSE LET i == Last(Over(byte)) IN <<copy[i].file, byte - copy[i].at>>]
-----------------------------------------------------------------------------
(* Every copy stays inside an image of that many bytes.                       *)
CopiesFit(input, bytes) ==
    \A i \in DOMAIN Copies(input) :
        LET copy == Copies(input)[i]
        IN  copy.bytes > 0 => copy.at >= 0 /\ copy.at + copy.bytes <= bytes

(* Each file the header describes is whole where the header says it is.       *)
HeaderDescribes(header, image) ==
    \A f \in FileNames : \A i \in 0 .. header.length[f] - 1 :
        header.offset[f] + i \in DOMAIN image /\ image[header.offset[f] + i] = <<f, i>>

(* The lengths of an image, padding and gap included, add up in 32 bits.  A   *)
(* single length may not: the padding of one close to 2^32 is nothing.        *)
SumFits(input) ==
    LET Padded(bytes) == Rounded(bytes, Boundary)
    IN  Ipl3End + Padded(BootHeader) + Padded(input["stage1"]) + Padded(input["stage2"])
            + Padded(input["kernel"]) + Padded(input["initramfs"])
            + Padded(input["command_line"] + 1) < Word
=============================================================================
