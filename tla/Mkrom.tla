------------------------------- MODULE Mkrom -------------------------------
(* tux64-mkrom (mkrom/src/tux64-mkrom/tux64-mkrom.c): it parses its command   *)
(* line, loads the configuration file and the files that names, builds the    *)
(* ROM and saves it.  Any step may fail; the steps before are then undone in  *)
(* reverse order, except that what an error message quotes is kept until the  *)
(* message is printed.                                                        *)
EXTENDS Arguments, KernelElf, RomBuilder

CONSTANTS
    CommandLines,   \* sequences of arguments mkrom is called with
    MaxArguments,   \* TUX64_MKROM_ARGC_MAX, less one for argv[0]
    ConfigFiles,    \* configuration files, as sequences of arguments
    Lengths,        \* a function from files to sets of lengths in bytes
    Elfs,           \* kernel files
    CharactersOf    \* a function from the command lines for the kernel to their lengths

CommandLineList ==
    [required |-> <<"config", "output">>, optional |-> {"prefix", "help", "version"},
     flags |-> {"help", "version"}, menus |-> {"help", "version"}, checked |-> {}]
ConfigFileList ==
    [required |-> <<"stage0", "stage0_cic", "stage1", "stage1_bss", "stage2", "kernel",
                    "initramfs">>,
     optional |-> {"command_line", "no_checksum", "no_delay", "memory_display", "clock_rate",
                   "boot_address", "check_code", "game_title", "game_code"},
     flags |-> {"no_checksum", "no_delay", "memory_display"}, menus |-> {},
     checked |-> {"clock_rate", "boot_address", "check_code", "game_title", "game_code"}]

(* What is loaded or allocated after the configuration file, in order; the    *)
(* last is the copy of the kernel's command line.                             *)
Loads == ConfigFileList.required \o <<"command_line">>
Allocations == {"config", "rom"} \cup {Loads[i] : i \in DOMAIN Loads}
NoRom == <<>>

(* A file has less than 2^32 bytes, and so has a command line that is given   *)
(* in one, with its final NUL.                                                *)
ASSUME MkromAssumption ==
    /\ Word32 = Word
    /\ Elfs \subseteq ElfFiles
    /\ Lengths \in [{"stage0", "stage0_cic", "stage1", "stage2", "initramfs", "bss"}
                       -> SUBSET (0 .. Word - 1)]
    /\ CharactersOf \in [DOMAIN CharactersOf -> 0 .. Word - 2]
    /\ \A file \in ConfigFiles :
          LET values == Parse(ConfigFileList, file).values
          IN  "command_line" \in DOMAIN values => values["command_line"] \in DOMAIN CharactersOf

VARIABLES
    pc,
    level,         \* how many of Loads are there
    heap,          \* the state of each allocation
    misuse,        \* was something freed twice, used without being there, or never set?
    cmdline,       \* the values of the command line's options
    config_file_parsed,     \* the values of the configuration file's options
    config_file_loaded, stage1_bss_file_loaded,   \* the flags of the cleanup
    clean_list,    \* what is freed after the message is printed
    slice,         \* whose memory the message quotes
    input,         \* lengths of the builder's input
    elf, kernel,   \* the kernel's file and what its parse gave
    header, rom,   \* the boot header and the image
    disk,          \* the file at the output path
    status         \* the exit status

allocator == <<heap, misuse>>
parameters == <<cmdline, config_file_parsed>>
flags == <<config_file_loaded, stage1_bss_file_loaded, clean_list>>
builder == <<input, elf, kernel, header, rom, disk>>
vars == <<pc, level, allocator, parameters, flags, slice, builder, status>>
-----------------------------------------------------------------------------
(* Memory.  A step may read some allocations, then free some and make others; *)
(* given says that the options it reads were given.  misuse remembers the     *)
(* first time something that is read or freed is not there.                   *)
Live == {a \in Allocations : heap[a] = "live"}
Use(given, read, freed, allocated) ==
    /\ misuse' = (misuse \/ ~given \/ ~(read \cup freed \subseteq Live))
    /\ heap' = [a \in Allocations |->
                   IF a \in freed THEN "freed" ELSE IF a \in allocated THEN "live" ELSE heap[a]]

Return(result) == status' = result /\ pc' = "display"

(* The goto to the label that undoes the loads so far.                        *)
Unwind(result) == status' = result /\ pc' = "unwind"

(* Flags of the cleanup are not initialised before they are first set.        *)
Init ==
    /\ pc = "main" /\ level = 0
    /\ heap = [a \in Allocations |-> "none"] /\ misuse = FALSE
    /\ cmdline = <<>> /\ config_file_parsed = <<>>
    /\ config_file_loaded \in BOOLEAN /\ stage1_bss_file_loaded \in BOOLEAN
    /\ clean_list = <<>> /\ slice = "none"
    /\ input = [f \in FileNames \cup {"stage0", "stage0_cic", "bss"} |-> 0] /\ elf = <<>> /\ kernel = <<>>
    /\ header = <<>> /\ rom = NoRom /\ disk = "old" /\ status = "none"

(* main, tux64_mkrom_main: without arguments the menu is printed.             *)
Main ==
    /\ pc = "main"
    /\ \E arguments \in CommandLines :
        LET result == Parse(CommandLineList, arguments)
        IN  IF Len(arguments) > MaxArguments
            THEN Return("too_many_arguments") /\ UNCHANGED <<cmdline, slice>>
            ELSE IF arguments = <<>> \/ result.status = "exit"
            THEN Return("ok") /\ UNCHANGED <<cmdline, slice>>
            ELSE IF result.status = "ok"
            THEN pc' = "load_config" /\ cmdline' = result.values /\ UNCHANGED <<status, slice>>
            ELSE Return("arguments_parse_error") /\ slice' = "argv" /\ UNCHANGED cmdline
    /\ UNCHANGED <<level, allocator, config_file_parsed, flags, builder>>

(* A load copies its path, and fails for lack of memory or by an I/O error.   *)
Failures == {"out_of_memory", "fs_error"}
LoadConfig ==
    /\ pc = "load_config"
    /\ \/ /\ Use("config" \in DOMAIN cmdline, {}, {}, {"config"})
          /\ config_file_loaded' = TRUE
          /\ pc' = "parse_config" /\ UNCHANGED status
       \/ /\ Use("config" \in DOMAIN cmdline, {}, {}, {})
          /\ \E failure \in Failures : Return(failure)
          /\ UNCHANGED config_file_loaded
    /\ UNCHANGED <<level, parameters, stage1_bss_file_loaded, clean_list, slice, builder>>

(* The values are slices of the file, and so is what an error quotes.         *)
ParseConfig ==
    /\ pc = "parse_config"
    /\ Use(TRUE, {"config"}, {}, {})
    /\ \E file \in ConfigFiles :
        LET result == Parse(ConfigFileList, file)
        IN  /\ config_file_parsed' = result.values
            /\ IF result.status = "ok"
               THEN pc' = "load" /\ UNCHANGED <<status, clean_list, slice>>
               ELSE /\ Return("arguments_parse_error")
                    /\ clean_list' = Append(clean_list, "config") /\ slice' = "config"
    /\ UNCHANGED <<level, cmdline, config_file_loaded, stage1_bss_file_loaded, builder>>

(* A file of the configuration, and what is known of it once it is there.     *)
Load ==
    /\ pc = "load" /\ level < Len(Loads) - 1
    /\ LET file == Loads[level + 1]
           given == file \in DOMAIN config_file_parsed
       IN  \/ /\ Use(given, {"config"}, {}, {file})
              /\ level' = level + 1
              /\ IF file = "kernel" THEN elf' \in Elfs ELSE UNCHANGED elf
              /\ IF file \in DOMAIN Lengths
                 THEN \E bytes \in Lengths[file] : input' = [input EXCEPT ![file] = bytes]
                 ELSE UNCHANGED input
              /\ stage1_bss_file_loaded' = (file = "stage1_bss" \/ stage1_bss_file_loaded)
              /\ UNCHANGED <<pc, status>>
           \/ /\ Use(given, {"config"}, {}, {})
              /\ \E failure \in Failures : Unwind(failure)
              /\ UNCHANGED <<level, input, elf, stage1_bss_file_loaded>>
    /\ UNCHANGED <<parameters, config_file_loaded, clean_list, slice, kernel, header, rom, disk>>

(* The kernel's command line is copied with a final NUL; it may be empty.     *)
Characters ==
    IF "command_line" \in DOMAIN config_file_parsed
    THEN CharactersOf[config_file_parsed["command_line"]] ELSE 0
CopyCommandLine ==
    /\ pc = "load" /\ level = Len(Loads) - 1
    /\ \/ /\ Use(TRUE, {"config"}, {}, {"command_line"})
          /\ level' = level + 1
          /\ input' = [input EXCEPT !["command_line"] = Characters + 1]
          /\ pc' = "parse_bss" /\ UNCHANGED status
       \/ Unwind("out_of_memory") /\ UNCHANGED <<level, input, allocator>>
    /\ UNCHANGED <<parameters, flags, slice, elf, kernel, header, rom, disk>>

(* The file of the length is freed as soon as it is parsed.                   *)
ParseBss ==
    /\ pc = "parse_bss"
    /\ Use(TRUE, {"stage1_bss"}, {"stage1_bss"}, {})
    /\ stage1_bss_file_loaded' = FALSE
    /\ \/ /\ \E bytes \in Lengths["bss"] : input' = [input EXCEPT !["bss"] = bytes]
          /\ pc' = "parse_kernel" /\ UNCHANGED status
       \/ Unwind("parse_string_integer_error") /\ UNCHANGED input
    /\ UNCHANGED <<level, parameters, config_file_loaded, clean_list, slice, elf, kernel, header,
                   rom, disk>>

(* From here on nothing is borrowed from the configuration file.              *)
ParseKernel ==
    /\ pc = "parse_kernel"
    /\ kernel' = KernelParse(elf)
    /\ IF kernel'.status = "ok"
       THEN /\ Use(TRUE, {"kernel"}, {"config"}, {})
            /\ config_file_loaded' = FALSE
            /\ input' = [input EXCEPT !["kernel"] = kernel'.bytes]
            /\ pc' = "measure" /\ UNCHANGED status
       ELSE /\ Use(TRUE, {"kernel"}, {}, {})
            /\ Unwind("parse_kernel_error")
            /\ UNCHANGED <<config_file_loaded, input>>
    /\ UNCHANGED <<level, parameters, stage1_bss_file_loaded, clean_list, slice, elf, header, rom,
                   disk>>

(* The checksums of the boot header read every file it describes.             *)
Measure ==
    /\ pc = "measure"
    /\ Use(TRUE, FileNames, {}, {})
    /\ IF MeasureStatus(input) = "ok"
       THEN header' = HeaderOf(input) /\ pc' = "construct" /\ UNCHANGED status
       ELSE Unwind("builder_error") /\ UNCHANGED header
    /\ UNCHANGED <<level, parameters, flags, slice, input, elf, kernel, rom, disk>>

Construct ==
    /\ pc = "construct"
    /\ \/ /\ Use(TRUE, FileNames \cup {"stage0", "stage0_cic"}, {}, {"rom"})
          /\ rom' = Image(input, RomBytes(input))
          /\ pc' = "save" /\ UNCHANGED status
       \/ Unwind("out_of_memory") /\ UNCHANGED <<allocator, rom>>
    /\ UNCHANGED <<level, parameters, flags, slice, input, elf, kernel, header, disk>>

(* The old file is lost once the new one is open.  What the last write leaves *)
(* in the buffer of the stream is written when it is closed, unchecked.       *)
Save ==
    /\ pc = "save"
    /\ Use("output" \in DOMAIN cmdline, {"rom"}, {"rom"}, {})
    /\ \/ \E failure \in Failures : Unwind(failure) /\ disk' \in {disk, "partial"}
       \/ Unwind("ok") /\ disk' \in {"rom", "partial"}
    /\ UNCHANGED <<level, parameters, flags, slice, input, elf, kernel, header, rom>>

(* Variants with a plausible bug, which the properties must tell from the     *)
(* code: labels that do not look at the flags, a label that is missing, and a *)
(* cleanup that runs past the last label.                                     *)
FaultyFreedAt(k) == IF k = 0 THEN {"config"} ELSE {Loads[k]}

LeakingFreedAt(k) ==
    IF k = 0 \/ (Loads[k] = "stage1_bss" /\ ~stage1_bss_file_loaded) THEN {} ELSE {Loads[k]}

(* The labels load_err_exit8 down to load_err_exit0.                          *)
FreedAt(k) ==
    IF k = 0 THEN IF config_file_loaded THEN {"config"} ELSE {}
    ELSE IF Loads[k] = "stage1_bss" /\ ~stage1_bss_file_loaded THEN {}
    ELSE {Loads[k]}

FaultyCleanup ==
    /\ pc = "unwind" /\ level >= 0
    /\ Use(TRUE, {}, FreedAt(level), {})
    /\ level' = level - 1 /\ UNCHANGED pc
    /\ UNCHANGED <<parameters, flags, slice, builder, status>>

Cleanup ==
    /\ pc = "unwind"
    /\ Use(TRUE, {}, FreedAt(level), {})
    /\ IF level = 0 THEN pc' = "display" /\ UNCHANGED level
       ELSE level' = level - 1 /\ UNCHANGED pc
    /\ UNCHANGED <<parameters, flags, slice, builder, status>>

Display ==
    /\ pc = "display"
    /\ Use(TRUE, {slice} \cap Allocations, {}, {})
    /\ pc' = "clean"
    /\ UNCHANGED <<level, parameters, flags, slice, builder, status>>

Clean ==
    /\ pc = "clean"
    /\ Use(TRUE, {}, {clean_list[i] : i \in DOMAIN clean_list}, {})
    /\ pc' = "exit"
    /\ UNCHANGED <<level, parameters, flags, slice, builder, status>>

Next ==
    \/ Main \/ LoadConfig \/ ParseConfig \/ Load \/ CopyCommandLine \/ ParseBss \/ ParseKernel
    \/ Measure \/ Construct \/ Save \/ Cleanup \/ Display \/ Clean

Spec == Init /\ [][Next]_vars
-----------------------------------------------------------------------------
TypeOK ==
    /\ level \in 0 .. Len(Loads)
    /\ heap \in [Allocations -> {"none", "live", "freed"}] /\ misuse \in BOOLEAN
    /\ config_file_loaded \in BOOLEAN /\ stage1_bss_file_loaded \in BOOLEAN
    /\ clean_list \in {<<>>, <<"config">>} /\ slice \in {"none", "argv", "config"}
    /\ input \in Inputs

(* No memory is read or freed that is not allocated, and no option is read that
   was not given, whichever step fails: the flags and the labels of the cleanup
   agree (tux64-mkrom.c:618-839), and a message quotes memory that is still there
   ("we run into a lifetime issue", tux64-mkrom.c:212-216). *)
NothingMisused == ~misuse

(* All memory is freed when the program ends. *)
NothingLeaks == pc = "exit" => Live = {}

(* The file the kernel's image is copied from contains it ("make sure the segment
   is contained in the file", kernel.c:516-520).  Offsets and lengths of 64-bit files
   that wrap around 2^64 escape the check. *)
KernelIsInFile ==
    pc \in {"measure", "construct"} =>
        \A i \in DOMAIN elf.segments :
            elf.segments[i].load /\ elf.segments[i].offset + elf.segments[i].filesz < Word64
                => kernel.offset + kernel.bytes <= elf.bytes /\ kernel.bytes <= kernel.memory

(* The console finds every file the boot header describes whole, where it says,
   in a ROM that was written: the builder adds the lengths up three times, with
   three lengths of the command line (builder.c:177-403).  Only lengths that add
   up to more than 32 bits escape its checks. *)
RomIsReadable ==
    pc = "save" /\ SumFits(input) => HeaderDescribes(header, rom)

(* "This also verifies all components can fit into memory" (builder.h:76-77), and
   "'output' should be the number of bytes return from the 'ok' variant"
   (builder.h:86-88): every copy of the builder stays in the image. *)
VerifiedInputFits ==
    pc = "save" /\ SumFits(input) => CopiesFit(input, RomBytes(input))
=============================================================================
