----------------------------- MODULE MkromProofs -----------------------------
(***************************************************************************)
(* The memory of tux64-mkrom and the ROM it writes, for every command      *)
(* line, configuration and kernel file, and every step that fails.         *)
(***************************************************************************)
EXTENDS Mkrom, LibraryProofs

(* What Loads and Allocations are, element by element. *)
LEMMA LoadsAre ==
    /\ Len(Loads) = 8 /\ DOMAIN Loads = 1 .. 8
    /\ Loads[1] = "stage0" /\ Loads[2] = "stage0_cic" /\ Loads[3] = "stage1"
    /\ Loads[4] = "stage1_bss" /\ Loads[5] = "stage2" /\ Loads[6] = "kernel"
    /\ Loads[7] = "initramfs" /\ Loads[8] = "command_line"
<1>1. ConfigFileList.required =
        <<"stage0", "stage0_cic", "stage1", "stage1_bss", "stage2", "kernel", "initramfs">>
  BY DEF ConfigFileList
<1>. QED
  BY <1>1 DEF Loads

LEMMA LoadsDiffer ==
    /\ \A i, j \in 1 .. 8 : Loads[i] = Loads[j] => i = j
    /\ \A i \in 1 .. 8 : Loads[i] \notin {"config", "rom", "none", "argv"}
    /\ \A i \in 1 .. 8 : Loads[i] = "stage1_bss" <=> i = 4
BY LoadsAre

LEMMA AllocationsAre ==
    /\ Allocations = {"config", "rom"} \cup {Loads[i] : i \in 1 .. 8}
    /\ FileNames \subseteq {Loads[i] : i \in {3, 5, 6, 7, 8}}
<1>1. Files = <<"stage1", "stage2", "kernel", "initramfs", "command_line">> /\ DOMAIN Files = 1 .. 5
  BY DEF Files
<1>2. FileNames = {"stage1", "stage2", "kernel", "initramfs", "command_line"}
  BY <1>1 DEF FileNames
<1>. QED
  BY <1>2, LoadsAre DEF Allocations
-----------------------------------------------------------------------------
(* The options that mkrom reads without asking whether they were given. *)
LEMMA ParsedIsGiven ==
    /\ \A arguments : Parse(CommandLineList, arguments).status = "ok" =>
           {"config", "output"} \subseteq DOMAIN Parse(CommandLineList, arguments).values
    /\ \A file : Parse(ConfigFileList, file).status = "ok" =>
           \A i \in 1 .. 7 : Loads[i] \in DOMAIN Parse(ConfigFileList, file).values
<1>1. CommandLineList.required = <<"config", "output">> /\ IsList(CommandLineList.required)
  BY DEF CommandLineList, IsList
<1>2. /\ ConfigFileList.required =
            <<"stage0", "stage0_cic", "stage1", "stage1_bss", "stage2", "kernel", "initramfs">>
      /\ IsList(ConfigFileList.required)
  BY DEF ConfigFileList, IsList
<1>3. ASSUME NEW arguments, Parse(CommandLineList, arguments).status = "ok"
      PROVE  {"config", "output"} \subseteq DOMAIN Parse(CommandLineList, arguments).values
  <2>. DEFINE given == DOMAIN Parse(CommandLineList, arguments).values
  <2>1. \A i \in DOMAIN CommandLineList.required : CommandLineList.required[i] \in given
    BY <1>1, <1>3, RequiredIsGiven
  <2>. HIDE DEF given
  <2>2. "config" \in given /\ "output" \in given
    BY <1>1, <2>1
  <2>. QED
    BY <2>2 DEF given
<1>4. ASSUME NEW file, Parse(ConfigFileList, file).status = "ok"
      PROVE  \A i \in 1 .. 7 : Loads[i] \in DOMAIN Parse(ConfigFileList, file).values
  <2>. DEFINE given == DOMAIN Parse(ConfigFileList, file).values
  <2>1. \A i \in DOMAIN ConfigFileList.required : ConfigFileList.required[i] \in given
    BY <1>2, <1>4, RequiredIsGiven
  <2>2. \A i \in 1 .. 7 : i \in DOMAIN ConfigFileList.required /\ Loads[i] = ConfigFileList.required[i]
    BY <1>2, LoadsAre
  <2>. HIDE DEF given
  <2>3. \A i \in 1 .. 7 : Loads[i] \in given
    BY <2>1, <2>2
  <2>. QED
    BY <2>3 DEF given
<1>. QED
  BY <1>3, <1>4
-----------------------------------------------------------------------------
(* What is held at each step.  The flags of the cleanup say which of the loads
   are there, except where the file of the length of the BSS has not been reached. *)

Held ==
    (IF config_file_loaded THEN {"config"} ELSE {})
        \cup {Loads[i] : i \in {j \in 1 .. level : j = 4 => stage1_bss_file_loaded}}

MemoryTypes ==
    /\ level \in 0 .. 8
    /\ heap \in [Allocations -> {"none", "live", "freed"}]
    /\ config_file_loaded \in BOOLEAN /\ stage1_bss_file_loaded \in BOOLEAN

Before == {"load_config", "parse_config", "load", "parse_bss", "parse_kernel", "measure",
           "construct", "save", "unwind"}

(* The options that will be read were given. *)
OptionsGiven ==
    /\ pc \in Before => {"config", "output"} \subseteq DOMAIN cmdline
    /\ pc = "load" => \A i \in 1 .. 7 : Loads[i] \in DOMAIN config_file_parsed

HeapMatches ==
    /\ pc \in {"main", "load_config", "exit"} => Live = {}
    /\ pc = "parse_config" => Live = {"config"}
    /\ pc \in {"load", "parse_bss", "parse_kernel", "measure", "construct", "unwind"} => Live = Held
    /\ pc = "save" => Live = Held \cup {"rom"}
    /\ pc \in {"display", "clean"} => Live = {clean_list[i] : i \in DOMAIN clean_list}

LevelMatches ==
    /\ pc \in {"main", "load_config", "parse_config"} => level = 0
    /\ pc \in {"parse_config", "load", "parse_bss", "parse_kernel"} => config_file_loaded
    /\ pc = "load" => level <= 7
    /\ pc = "load" /\ level >= 4 => stage1_bss_file_loaded
    /\ pc = "parse_bss" => stage1_bss_file_loaded
    /\ pc \in {"parse_bss", "parse_kernel", "measure", "construct", "save"} => level = 8
    /\ pc \in {"measure", "construct", "save"} => ~config_file_loaded

SliceMatches ==
    /\ pc \in Before \cup {"main"} => slice = "none" /\ clean_list = <<>>
    /\ pc \in {"display", "clean"} =>
          \/ slice \in {"none", "argv"} /\ clean_list = <<>>
          \/ slice = "config" /\ clean_list = <<"config">>

IInv ==
    /\ pc \in Before \cup {"main", "display", "clean", "exit"}
    /\ NothingMisused
    /\ MemoryTypes /\ OptionsGiven /\ HeapMatches /\ LevelMatches /\ SliceMatches
-----------------------------------------------------------------------------
LEMMA LiveUnchanged == UNCHANGED heap => Live' = Live
BY DEF Live

LEMMA InitIInv == Init => IInv
<1>. SUFFICES ASSUME Init PROVE IInv
  OBVIOUS
<1>1. Live = {}
  BY DEF Init, Live
<1>. QED
  BY <1>1 DEF Init, IInv, NothingMisused, MemoryTypes, OptionsGiven, HeapMatches, LevelMatches,
              SliceMatches, Before

(* What a step leaves that changes neither memory nor flags. *)
LEMMA MainKeeps == IInv /\ Main => IInv'
<1>. SUFFICES ASSUME IInv, Main PROVE IInv'
  OBVIOUS
<1>1. /\ pc = "main" /\ UNCHANGED <<level, heap, misuse, config_file_parsed, config_file_loaded,
                                    stage1_bss_file_loaded, clean_list>>
      /\ Live' = Live /\ Live = {} /\ slice = "none" /\ clean_list = <<>>
      /\ MemoryTypes /\ NothingMisused /\ level = 0
  BY LiveUnchanged
     DEF Main, allocator, flags, IInv, HeapMatches, SliceMatches, LevelMatches, Before
<1>2. PICK arguments \in CommandLines :
        LET result == Parse(CommandLineList, arguments)
        IN  IF Len(arguments) > MaxArguments
            THEN Return("too_many_arguments") /\ UNCHANGED <<cmdline, slice>>
            ELSE IF arguments = <<>> \/ result.status = "exit"
            THEN Return("ok") /\ UNCHANGED <<cmdline, slice>>
            ELSE IF result.status = "ok"
            THEN pc' = "load_config" /\ cmdline' = result.values /\ UNCHANGED <<status, slice>>
            ELSE Return("arguments_parse_error") /\ slice' = "argv" /\ UNCHANGED cmdline
  BY Zenon DEF Main
<1>3. \/ pc' = "display" /\ slice' \in {"none", "argv"}
      \/ /\ pc' = "load_config" /\ slice' = "none"
         /\ {"config", "output"} \subseteq DOMAIN cmdline'
  BY <1>1, <1>2, ParsedIsGiven DEF Return
<1>4. MemoryTypes' /\ NothingMisused'
  BY <1>1 DEF MemoryTypes, NothingMisused
<1>5. HeapMatches' /\ OptionsGiven' /\ LevelMatches' /\ SliceMatches'
  BY <1>1, <1>3 DEF HeapMatches, OptionsGiven, LevelMatches, SliceMatches, Before
<1>. QED
  BY <1>3, <1>4, <1>5 DEF IInv, Before

LEMMA LoadConfigKeeps == IInv /\ LoadConfig => IInv'
<1>. SUFFICES ASSUME IInv, LoadConfig PROVE IInv'
  OBVIOUS
<1>1. /\ pc = "load_config" /\ UNCHANGED <<level, cmdline, config_file_parsed,
                                           stage1_bss_file_loaded, clean_list, slice>>
      /\ Live = {} /\ slice = "none" /\ clean_list = <<>> /\ level = 0
      /\ MemoryTypes /\ NothingMisused /\ {"config", "output"} \subseteq DOMAIN cmdline
      /\ heap \in [Allocations -> {"none", "live", "freed"}] /\ "config" \in Allocations
  BY AllocationsAre DEF LoadConfig, parameters, IInv, HeapMatches, SliceMatches, LevelMatches,
        OptionsGiven, Before, MemoryTypes
<1>2. CASE /\ Use("config" \in DOMAIN cmdline, {}, {}, {"config"})
           /\ config_file_loaded' = TRUE /\ pc' = "parse_config"
  <2>1. /\ NothingMisused' /\ heap' \in [Allocations -> {"none", "live", "freed"}]
        /\ Live' = {"config"}
    BY <1>1, <1>2 DEF Use, Live, NothingMisused
  <2>. QED
    BY <1>1, <1>2, <2>1 DEF IInv, MemoryTypes, OptionsGiven, HeapMatches, LevelMatches,
          SliceMatches, Before
<1>3. CASE /\ Use("config" \in DOMAIN cmdline, {}, {}, {})
           /\ pc' = "display" /\ UNCHANGED config_file_loaded
  <2>1. /\ NothingMisused' /\ heap' \in [Allocations -> {"none", "live", "freed"}]
        /\ Live' = {}
    BY <1>1, <1>3 DEF Use, Live, NothingMisused
  <2>. QED
    BY <1>1, <1>3, <2>1 DEF IInv, MemoryTypes, OptionsGiven, HeapMatches, LevelMatches,
          SliceMatches, Before
<1>. QED
  BY <1>2, <1>3 DEF LoadConfig, Return

LEMMA ParseConfigKeeps == IInv /\ ParseConfig => IInv'
<1>. SUFFICES ASSUME IInv, ParseConfig PROVE IInv'
  OBVIOUS
<1>1. /\ pc = "parse_config" /\ UNCHANGED <<level, cmdline, config_file_loaded,
                                            stage1_bss_file_loaded>>
      /\ Live = {"config"} /\ slice = "none" /\ clean_list = <<>> /\ level = 0
      /\ config_file_loaded
      /\ MemoryTypes /\ NothingMisused /\ {"config", "output"} \subseteq DOMAIN cmdline
      /\ heap \in [Allocations -> {"none", "live", "freed"}]
      /\ Use(TRUE, {"config"}, {}, {})
  BY DEF ParseConfig, IInv, HeapMatches, SliceMatches, LevelMatches, OptionsGiven, Before,
         MemoryTypes
<1>2. /\ NothingMisused' /\ heap' \in [Allocations -> {"none", "live", "freed"}]
      /\ Live' = {"config"}
  BY <1>1 DEF Use, Live, NothingMisused
<1>3. PICK file \in ConfigFiles :
        LET result == Parse(ConfigFileList, file)
        IN  /\ config_file_parsed' = result.values
            /\ IF result.status = "ok"
               THEN pc' = "load" /\ UNCHANGED <<status, clean_list, slice>>
               ELSE /\ Return("arguments_parse_error")
                    /\ clean_list' = Append(clean_list, "config") /\ slice' = "config"
  BY Zenon DEF ParseConfig
<1>4. \/ /\ pc' = "load" /\ UNCHANGED <<clean_list, slice>>
         /\ \A i \in 1 .. 7 : Loads[i] \in DOMAIN config_file_parsed'
      \/ pc' = "display" /\ clean_list' = <<"config">> /\ slice' = "config"
  BY <1>1, <1>3, ParsedIsGiven DEF Return
<1>5. MemoryTypes'
  BY <1>1, <1>2 DEF MemoryTypes
<1>6. CASE /\ pc' = "load" /\ UNCHANGED <<clean_list, slice>>
           /\ \A i \in 1 .. 7 : Loads[i] \in DOMAIN config_file_parsed'
  <2>1. Held' = {"config"}
    BY <1>1 DEF Held
  <2>. QED
    BY <1>1, <1>2, <1>5, <1>6, <2>1 DEF IInv, OptionsGiven, HeapMatches, LevelMatches,
          SliceMatches, Before
<1>7. CASE pc' = "display" /\ clean_list' = <<"config">> /\ slice' = "config"
  <2>1. {clean_list'[i] : i \in DOMAIN clean_list'} = {"config"}
    BY <1>7
  <2>. QED
    BY <1>1, <1>2, <1>5, <1>7, <2>1 DEF IInv, OptionsGiven, HeapMatches, LevelMatches,
          SliceMatches, Before
<1>. QED
  BY <1>4, <1>6, <1>7
(* From here on the files of the configuration are held. *)
LEMMA LoadKeeps == IInv /\ Load => IInv'
<1>. SUFFICES ASSUME IInv, Load PROVE IInv'
  OBVIOUS
<1>. DEFINE file == Loads[level + 1]
<1>1. /\ pc = "load" /\ UNCHANGED <<cmdline, config_file_parsed, config_file_loaded, clean_list,
                                    slice>>
      /\ Live = Held /\ slice = "none" /\ clean_list = <<>> /\ level \in 0 .. 6
      /\ config_file_loaded /\ (level >= 4 => stage1_bss_file_loaded)
      /\ MemoryTypes /\ NothingMisused /\ {"config", "output"} \subseteq DOMAIN cmdline
      /\ \A i \in 1 .. 7 : Loads[i] \in DOMAIN config_file_parsed
      /\ heap \in [Allocations -> {"none", "live", "freed"}]
  BY LoadsAre DEF Load, parameters, IInv, HeapMatches, SliceMatches, LevelMatches, OptionsGiven,
         Before, MemoryTypes
<1>2. /\ file \in DOMAIN config_file_parsed /\ file \in Allocations /\ "config" \in Live
      /\ file = "stage1_bss" <=> level = 3
  BY <1>1, LoadsDiffer, AllocationsAre DEF Held
<1>3. CASE /\ Use(file \in DOMAIN config_file_parsed, {"config"}, {}, {file})
           /\ level' = level + 1 /\ pc' = pc
           /\ stage1_bss_file_loaded' = (file = "stage1_bss" \/ stage1_bss_file_loaded)
  <2>1. /\ NothingMisused' /\ heap' \in [Allocations -> {"none", "live", "freed"}]
        /\ Live' = Live \cup {file}
    BY <1>1, <1>2, <1>3 DEF Use, Live, NothingMisused
  <2>3. /\ stage1_bss_file_loaded' \in BOOLEAN /\ level' \in 1 .. 7
        /\ (level' >= 4 => stage1_bss_file_loaded')
    <3>1. stage1_bss_file_loaded' = (file = "stage1_bss" \/ stage1_bss_file_loaded)
      BY <1>3
    <3>2. level' = level + 1 /\ level \in 0 .. 6 /\ level' \in 1 .. 7
      BY <1>1, <1>3
    <3>3. level' >= 4 => level = 3 \/ level >= 4
      BY <3>2
    <3>4. (level = 3 => file = "stage1_bss") /\ (level >= 4 => stage1_bss_file_loaded)
      BY <1>1, <1>2
    <3>. HIDE DEF file
    <3>5. stage1_bss_file_loaded' \in BOOLEAN
      BY <3>1, Zenon
    <3>6. level' >= 4 => stage1_bss_file_loaded'
      BY <3>1, <3>3, <3>4, Zenon
    <3>. QED
      BY <3>2, <3>5, <3>6
  <2>2. Held' = Held \cup {file}
    <3>. DEFINE S == {j \in 1 .. level : j = 4 => stage1_bss_file_loaded}
                T == {j \in 1 .. level' : j = 4 => stage1_bss_file_loaded'}
    <3>1. T = S \cup {level + 1}
      <4>1. \A j \in 1 .. level : j = 4 => level \in 4 .. 6
        BY <1>1
      <4>2. S = 1 .. level
        BY <1>1, <4>1
      <4>3. T = 1 .. level'
        BY <2>3
      <4>. HIDE DEF S, T
      <4>. QED
        BY <1>1, <1>3, <4>2, <4>3
    <3>2. /\ Held = {"config"} \cup {Loads[i] : i \in S}
          /\ Held' = {"config"} \cup {Loads[i] : i \in T}
      BY <1>1 DEF Held
    <3>. HIDE DEF S, T
    <3>. QED
      BY <3>1, <3>2
  <2>4. MemoryTypes'
    BY <1>1, <1>3, <2>1, <2>3 DEF MemoryTypes
  <2>. QED
    BY <1>1, <1>3, <2>1, <2>2, <2>3, <2>4 DEF IInv, OptionsGiven, HeapMatches, LevelMatches,
          SliceMatches, Before
<1>4. CASE /\ Use(file \in DOMAIN config_file_parsed, {"config"}, {}, {})
           /\ pc' = "unwind" /\ UNCHANGED <<level, stage1_bss_file_loaded>>
  <2>1. /\ NothingMisused' /\ heap' \in [Allocations -> {"none", "live", "freed"}]
        /\ Live' = Live
    BY <1>1, <1>2, <1>4 DEF Use, Live, NothingMisused
  <2>2. Held' = Held /\ MemoryTypes'
    BY <1>1, <1>4, <2>1 DEF Held, MemoryTypes
  <2>. QED
    BY <1>1, <1>4, <2>1, <2>2 DEF IInv, OptionsGiven, HeapMatches, LevelMatches, SliceMatches,
          Before
<1>. QED
  BY <1>3, <1>4 DEF Load, Unwind

LEMMA CopyCommandLineKeeps == IInv /\ CopyCommandLine => IInv'
<1>. SUFFICES ASSUME IInv, CopyCommandLine PROVE IInv'
  OBVIOUS
<1>1. /\ pc = "load" /\ UNCHANGED <<cmdline, config_file_parsed, config_file_loaded,
                                    stage1_bss_file_loaded, clean_list, slice>>
      /\ Live = Held /\ slice = "none" /\ clean_list = <<>> /\ level = 7
      /\ config_file_loaded /\ stage1_bss_file_loaded
      /\ MemoryTypes /\ NothingMisused /\ {"config", "output"} \subseteq DOMAIN cmdline
      /\ \A i \in 1 .. 7 : Loads[i] \in DOMAIN config_file_parsed
      /\ heap \in [Allocations -> {"none", "live", "freed"}]
  BY LoadsAre DEF CopyCommandLine, parameters, flags, IInv, HeapMatches, SliceMatches,
         LevelMatches, OptionsGiven, Before, MemoryTypes
<1>2. "command_line" = Loads[8] /\ Loads[8] \in Allocations /\ "config" \in Live
  BY <1>1, LoadsAre, AllocationsAre DEF Held
<1>3. CASE /\ Use(TRUE, {"config"}, {}, {"command_line"})
           /\ level' = level + 1 /\ pc' = "parse_bss"
  <2>1. /\ NothingMisused' /\ heap' \in [Allocations -> {"none", "live", "freed"}]
        /\ Live' = Live \cup {Loads[8]}
    BY <1>1, <1>2, <1>3 DEF Use, Live, NothingMisused
  <2>2. Held' = Held \cup {Loads[8]}
    <3>. DEFINE S == {j \in 1 .. level : j = 4 => stage1_bss_file_loaded}
                T == {j \in 1 .. level' : j = 4 => stage1_bss_file_loaded'}
    <3>1. T = S \cup {8}
      BY <1>1, <1>3
    <3>2. /\ Held = {"config"} \cup {Loads[i] : i \in S}
          /\ Held' = {"config"} \cup {Loads[i] : i \in T}
      BY <1>1 DEF Held
    <3>. HIDE DEF S, T
    <3>. QED
      BY <3>1, <3>2
  <2>3. MemoryTypes'
    BY <1>1, <1>3, <2>1 DEF MemoryTypes
  <2>. QED
    BY <1>1, <1>3, <2>1, <2>2, <2>3 DEF IInv, OptionsGiven, HeapMatches, LevelMatches,
          SliceMatches, Before
<1>4. CASE pc' = "unwind" /\ UNCHANGED <<level, heap, misuse>>
  <2>1. Held' = Held /\ Live' = Live /\ MemoryTypes' /\ NothingMisused'
    BY <1>1, <1>4 DEF Held, Live, MemoryTypes, NothingMisused
  <2>. QED
    BY <1>1, <1>4, <2>1 DEF IInv, OptionsGiven, HeapMatches, LevelMatches, SliceMatches, Before
<1>. QED
  BY <1>3, <1>4 DEF CopyCommandLine, Unwind, allocator

(* The file of the length is the fourth. *)
LEMMA ParseBssKeeps == IInv /\ ParseBss => IInv'
<1>. SUFFICES ASSUME IInv, ParseBss PROVE IInv'
  OBVIOUS
<1>1. /\ pc = "parse_bss" /\ UNCHANGED <<level, cmdline, config_file_parsed, config_file_loaded,
                                         clean_list, slice>>
      /\ Live = Held /\ slice = "none" /\ clean_list = <<>> /\ level = 8
      /\ config_file_loaded /\ stage1_bss_file_loaded
      /\ MemoryTypes /\ NothingMisused /\ {"config", "output"} \subseteq DOMAIN cmdline
      /\ heap \in [Allocations -> {"none", "live", "freed"}]
      /\ Use(TRUE, {"stage1_bss"}, {"stage1_bss"}, {}) /\ stage1_bss_file_loaded' = FALSE
      /\ pc' \in {"parse_kernel", "unwind"}
  BY DEF ParseBss, Unwind, parameters, IInv, HeapMatches, SliceMatches, LevelMatches,
         OptionsGiven, Before, MemoryTypes
<1>2. "stage1_bss" = Loads[4] /\ Loads[4] \in Live
  BY <1>1, LoadsAre DEF Held
<1>3. /\ NothingMisused' /\ heap' \in [Allocations -> {"none", "live", "freed"}]
      /\ Live' = Live \ {Loads[4]}
  BY <1>1, <1>2 DEF Use, Live, NothingMisused
<1>4. Held' = Held \ {Loads[4]}
  <2>1. /\ Held = {"config"} \cup {Loads[i] : i \in 1 .. 8}
        /\ Held' = {"config"} \cup {Loads[i] : i \in (1 .. 8) \ {4}}
    BY <1>1 DEF Held
  <2>. QED
    BY <2>1, LoadsDiffer
<1>5. MemoryTypes'
  BY <1>1, <1>3 DEF MemoryTypes
<1>. QED
  BY <1>1, <1>3, <1>4, <1>5 DEF IInv, OptionsGiven, HeapMatches, LevelMatches, SliceMatches, Before

LEMMA ParseKernelKeeps == IInv /\ ParseKernel => IInv'
<1>. SUFFICES ASSUME IInv, ParseKernel PROVE IInv'
  OBVIOUS
<1>1. /\ pc = "parse_kernel" /\ UNCHANGED <<level, cmdline, config_file_parsed,
                                            stage1_bss_file_loaded, clean_list, slice>>
      /\ Live = Held /\ slice = "none" /\ clean_list = <<>> /\ level = 8 /\ config_file_loaded
      /\ MemoryTypes /\ NothingMisused /\ {"config", "output"} \subseteq DOMAIN cmdline
      /\ heap \in [Allocations -> {"none", "live", "freed"}]
  BY DEF ParseKernel, parameters, IInv, HeapMatches, SliceMatches, LevelMatches,
         OptionsGiven, Before, MemoryTypes
<1>2. "kernel" = Loads[6] /\ "kernel" \in Live /\ "config" \in Live /\ "kernel" # "config"
  BY <1>1, LoadsAre DEF Held
<1>3. CASE /\ Use(TRUE, {"kernel"}, {"config"}, {}) /\ config_file_loaded' = FALSE
           /\ pc' = "measure"
  <2>1. /\ NothingMisused' /\ heap' \in [Allocations -> {"none", "live", "freed"}]
        /\ Live' = Live \ {"config"}
    BY <1>1, <1>2, <1>3 DEF Use, Live, NothingMisused
  <2>2. Held' = Held \ {"config"}
    <3>. DEFINE S == {j \in 1 .. 8 : j = 4 => stage1_bss_file_loaded}
    <3>1. /\ Held = {"config"} \cup {Loads[i] : i \in S}
          /\ Held' = {Loads[i] : i \in S}
      BY <1>1, <1>3 DEF Held
    <3>. QED
      BY <3>1, LoadsDiffer
  <2>3. MemoryTypes'
    BY <1>1, <1>3, <2>1 DEF MemoryTypes
  <2>. QED
    BY <1>1, <1>3, <2>1, <2>2, <2>3 DEF IInv, OptionsGiven, HeapMatches, LevelMatches,
          SliceMatches, Before
<1>4. CASE Use(TRUE, {"kernel"}, {}, {}) /\ pc' = "unwind" /\ UNCHANGED config_file_loaded
  <2>1. /\ NothingMisused' /\ heap' \in [Allocations -> {"none", "live", "freed"}]
        /\ Live' = Live
    BY <1>1, <1>2, <1>4 DEF Use, Live, NothingMisused
  <2>2. Held' = Held /\ MemoryTypes'
    BY <1>1, <1>4, <2>1 DEF Held, MemoryTypes
  <2>. QED
    BY <1>1, <1>4, <2>1, <2>2 DEF IInv, OptionsGiven, HeapMatches, LevelMatches, SliceMatches,
          Before
<1>. QED
  BY <1>3, <1>4 DEF ParseKernel, Unwind

LEMMA MeasureKeeps == IInv /\ Measure => IInv'
<1>. SUFFICES ASSUME IInv, Measure PROVE IInv'
  OBVIOUS
<1>1. /\ pc = "measure" /\ UNCHANGED <<level, cmdline, config_file_parsed, config_file_loaded,
                                       stage1_bss_file_loaded, clean_list, slice>>
      /\ Live = Held /\ slice = "none" /\ clean_list = <<>> /\ level = 8 /\ ~config_file_loaded
      /\ MemoryTypes /\ NothingMisused /\ {"config", "output"} \subseteq DOMAIN cmdline
      /\ heap \in [Allocations -> {"none", "live", "freed"}]
      /\ Use(TRUE, FileNames, {}, {}) /\ pc' \in {"construct", "unwind"}
  BY DEF Measure, Unwind, parameters, flags, IInv, HeapMatches, SliceMatches, LevelMatches,
         OptionsGiven, Before, MemoryTypes
<1>2. FileNames \subseteq Live
  BY <1>1, AllocationsAre DEF Held
<1>3. /\ NothingMisused' /\ heap' \in [Allocations -> {"none", "live", "freed"}]
      /\ Live' = Live
  BY <1>1, <1>2 DEF Use, Live, NothingMisused
<1>4. Held' = Held /\ MemoryTypes'
  BY <1>1, <1>3 DEF Held, MemoryTypes
<1>. QED
  BY <1>1, <1>3, <1>4 DEF IInv, OptionsGiven, HeapMatches, LevelMatches, SliceMatches, Before

LEMMA ConstructKeeps == IInv /\ Construct => IInv'
<1>. SUFFICES ASSUME IInv, Construct PROVE IInv'
  OBVIOUS
<1>1. /\ pc = "construct" /\ UNCHANGED <<level, cmdline, config_file_parsed, config_file_loaded,
                                         stage1_bss_file_loaded, clean_list, slice>>
      /\ Live = Held /\ slice = "none" /\ clean_list = <<>> /\ level = 8 /\ ~config_file_loaded
      /\ MemoryTypes /\ NothingMisused /\ {"config", "output"} \subseteq DOMAIN cmdline
      /\ heap \in [Allocations -> {"none", "live", "freed"}]
  BY DEF Construct, parameters, flags, IInv, HeapMatches, SliceMatches, LevelMatches,
         OptionsGiven, Before, MemoryTypes
<1>2. Held' = Held
  BY <1>1 DEF Held
<1>3. CASE /\ Use(TRUE, FileNames \cup {"stage0", "stage0_cic"}, {}, {"rom"}) /\ pc' = "save"
  <2>1. FileNames \cup {"stage0", "stage0_cic"} \subseteq Live /\ "rom" \in Allocations
    BY <1>1, LoadsAre, AllocationsAre DEF Held
  <2>2. /\ NothingMisused' /\ heap' \in [Allocations -> {"none", "live", "freed"}]
        /\ Live' = Live \cup {"rom"}
    BY <1>1, <1>3, <2>1 DEF Use, Live, NothingMisused
  <2>3. MemoryTypes'
    BY <1>1, <2>2 DEF MemoryTypes
  <2>. QED
    BY <1>1, <1>2, <1>3, <2>2, <2>3 DEF IInv, OptionsGiven, HeapMatches, LevelMatches,
          SliceMatches, Before
<1>4. CASE pc' = "unwind" /\ UNCHANGED <<heap, misuse>>
  <2>1. Live' = Live /\ MemoryTypes' /\ NothingMisused'
    BY <1>1, <1>4 DEF Live, MemoryTypes, NothingMisused
  <2>. QED
    BY <1>1, <1>2, <1>4, <2>1 DEF IInv, OptionsGiven, HeapMatches, LevelMatches, SliceMatches,
          Before
<1>. QED
  BY <1>3, <1>4 DEF Construct, Unwind, allocator

LEMMA SaveKeeps == IInv /\ Save => IInv'
<1>. SUFFICES ASSUME IInv, Save PROVE IInv'
  OBVIOUS
<1>1. /\ pc = "save" /\ UNCHANGED <<level, cmdline, config_file_parsed, config_file_loaded,
                                    stage1_bss_file_loaded, clean_list, slice>>
      /\ Live = Held \cup {"rom"} /\ slice = "none" /\ clean_list = <<>> /\ level = 8
      /\ ~config_file_loaded
      /\ MemoryTypes /\ NothingMisused /\ {"config", "output"} \subseteq DOMAIN cmdline
      /\ heap \in [Allocations -> {"none", "live", "freed"}]
      /\ Use("output" \in DOMAIN cmdline, {"rom"}, {"rom"}, {}) /\ pc' = "unwind"
  BY DEF Save, Unwind, parameters, flags, IInv, HeapMatches, SliceMatches, LevelMatches,
         OptionsGiven, Before, MemoryTypes
<1>2. "rom" \notin Held /\ Held' = Held
  BY <1>1, LoadsDiffer DEF Held
<1>3. /\ NothingMisused' /\ heap' \in [Allocations -> {"none", "live", "freed"}]
      /\ Live' = Live \ {"rom"}
  BY <1>1 DEF Use, Live, NothingMisused
<1>4. MemoryTypes' /\ Live' = Held'
  BY <1>1, <1>2, <1>3 DEF MemoryTypes
<1>. QED
  BY <1>1, <1>3, <1>4 DEF IInv, OptionsGiven, HeapMatches, LevelMatches, SliceMatches, Before

(* One label of the cleanup: what is freed is there, and what is left is what
   the labels below free. *)
LEMMA CleanupKeeps == IInv /\ Cleanup => IInv'
<1>. SUFFICES ASSUME IInv, Cleanup PROVE IInv'
  OBVIOUS
<1>1. /\ pc = "unwind" /\ UNCHANGED <<cmdline, config_file_parsed, config_file_loaded,
                                      stage1_bss_file_loaded, clean_list, slice>>
      /\ Live = Held /\ slice = "none" /\ clean_list = <<>> /\ level \in 0 .. 8
      /\ MemoryTypes /\ NothingMisused /\ {"config", "output"} \subseteq DOMAIN cmdline
      /\ heap \in [Allocations -> {"none", "live", "freed"}]
      /\ Use(TRUE, {}, FreedAt(level), {})
  BY DEF Cleanup, parameters, flags, IInv, HeapMatches, SliceMatches, LevelMatches,
         OptionsGiven, Before, MemoryTypes
<1>2. CASE level = 0
  <2>1. FreedAt(level) = Held
    BY <1>2 DEF FreedAt, Held
  <2>2. pc' = "display" /\ level' = level
    BY <1>2 DEF Cleanup
  <2>3. /\ NothingMisused' /\ heap' \in [Allocations -> {"none", "live", "freed"}]
        /\ Live' = {}
    BY <1>1, <2>1 DEF Use, Live, NothingMisused
  <2>4. MemoryTypes'
    BY <1>1, <2>2, <2>3 DEF MemoryTypes
  <2>. QED
    BY <1>1, <2>2, <2>3, <2>4 DEF IInv, OptionsGiven, HeapMatches, LevelMatches, SliceMatches,
          Before
<1>3. CASE level # 0
  <2>. DEFINE S == {j \in 1 .. level : j = 4 => stage1_bss_file_loaded}
              T == {j \in 1 .. level' : j = 4 => stage1_bss_file_loaded'}
              config == IF config_file_loaded THEN {"config"} ELSE {}
              freed == FreedAt(level)
  <2>1. level' = level - 1 /\ pc' = pc /\ level \in 1 .. 8
    BY <1>1, <1>3 DEF Cleanup
  <2>2. freed = (IF level = 4 /\ ~stage1_bss_file_loaded THEN {} ELSE {Loads[level]})
    BY <1>3, <2>1, LoadsDiffer DEF FreedAt
  <2>3. /\ T \subseteq 1 .. 8 /\ level \notin T
        /\ S = T \cup (IF level = 4 /\ ~stage1_bss_file_loaded THEN {} ELSE {level})
    BY <1>1, <2>1
  <2>4. /\ Held = config \cup {Loads[i] : i \in S}
        /\ Held' = config \cup {Loads[i] : i \in T}
    BY <1>1 DEF Held
  <2>. HIDE DEF S, T, freed
  <2>5. freed \subseteq Held /\ Held' = Held \ freed
    BY <2>1, <2>2, <2>3, <2>4, LoadsDiffer
  <2>6. /\ NothingMisused' /\ heap' \in [Allocations -> {"none", "live", "freed"}]
        /\ Live' = Live \ freed
    BY <1>1, <2>5 DEF Use, Live, NothingMisused, freed
  <2>7. MemoryTypes' /\ Live' = Held'
    BY <1>1, <2>1, <2>5, <2>6 DEF MemoryTypes
  <2>. QED
    BY <1>1, <2>1, <2>6, <2>7 DEF IInv, OptionsGiven, HeapMatches, LevelMatches, SliceMatches,
          Before
<1>. QED
  BY <1>2, <1>3

LEMMA DisplayKeeps == IInv /\ Display => IInv'
<1>. SUFFICES ASSUME IInv, Display PROVE IInv'
  OBVIOUS
<1>1. /\ pc = "display" /\ pc' = "clean"
      /\ UNCHANGED <<level, config_file_loaded, stage1_bss_file_loaded, clean_list, slice>>
      /\ Live = {clean_list[i] : i \in DOMAIN clean_list}
      /\ \/ slice \in {"none", "argv"} /\ clean_list = <<>>
         \/ slice = "config" /\ clean_list = <<"config">>
      /\ MemoryTypes /\ NothingMisused
      /\ heap \in [Allocations -> {"none", "live", "freed"}]
      /\ Use(TRUE, {slice} \cap Allocations, {}, {})
  BY DEF Display, flags, IInv, HeapMatches, SliceMatches, Before, MemoryTypes
<1>2. {"none", "argv"} \cap Allocations = {}
  BY LoadsDiffer, AllocationsAre
<1>3. {slice} \cap Allocations \subseteq Live
  BY <1>1, <1>2
<1>4. /\ NothingMisused' /\ heap' \in [Allocations -> {"none", "live", "freed"}]
      /\ Live' = Live
  BY <1>1, <1>3 DEF Use, Live, NothingMisused
<1>5. MemoryTypes'
  BY <1>1, <1>4 DEF MemoryTypes
<1>. QED
  BY <1>1, <1>4, <1>5 DEF IInv, OptionsGiven, HeapMatches, LevelMatches, SliceMatches, Before

LEMMA CleanKeeps == IInv /\ Clean => IInv'
<1>. SUFFICES ASSUME IInv, Clean PROVE IInv'
  OBVIOUS
<1>. DEFINE freed == {clean_list[i] : i \in DOMAIN clean_list}
<1>1. /\ pc = "clean" /\ pc' = "exit"
      /\ UNCHANGED <<level, config_file_loaded, stage1_bss_file_loaded, clean_list, slice>>
      /\ Live = freed /\ MemoryTypes /\ NothingMisused
      /\ heap \in [Allocations -> {"none", "live", "freed"}]
      /\ Use(TRUE, {}, freed, {})
  BY DEF Clean, flags, IInv, HeapMatches, SliceMatches, Before, MemoryTypes
<1>. HIDE DEF freed
<1>2. /\ NothingMisused' /\ heap' \in [Allocations -> {"none", "live", "freed"}]
      /\ Live' = {}
  BY <1>1 DEF Use, Live, NothingMisused
<1>3. MemoryTypes'
  BY <1>1, <1>2 DEF MemoryTypes
<1>. QED
  BY <1>1, <1>2, <1>3 DEF IInv, OptionsGiven, HeapMatches, LevelMatches, SliceMatches, Before
-----------------------------------------------------------------------------
LEMMA StutterKeeps == IInv /\ UNCHANGED vars => IInv'
<1>. SUFFICES ASSUME IInv, UNCHANGED vars PROVE IInv'
  OBVIOUS
<1>1. UNCHANGED <<pc, level, heap, misuse, cmdline, config_file_parsed, config_file_loaded,
                  stage1_bss_file_loaded, clean_list, slice>>
  BY DEF vars, allocator, parameters, flags
<1>2. Live' = Live /\ Held' = Held
  BY <1>1 DEF Live, Held
<1>. QED
  BY <1>1, <1>2 DEF IInv, NothingMisused, MemoryTypes, OptionsGiven, HeapMatches, LevelMatches,
        SliceMatches

LEMMA NextKeeps == IInv /\ [Next]_vars => IInv'
BY MainKeeps, LoadConfigKeeps, ParseConfigKeeps, LoadKeeps, CopyCommandLineKeeps, ParseBssKeeps,
   ParseKernelKeeps, MeasureKeeps, ConstructKeeps, SaveKeeps, CleanupKeeps, DisplayKeeps,
   CleanKeeps, StutterKeeps DEF Next

(* The inductive invariant: at every step exactly what the flags and the labels
   say is held (tux64-mkrom.c:618-839). *)
THEOREM InvariantHolds == Spec => []IInv
  BY InitIInv, NextKeeps, PTL DEF Spec

(* Nothing is read or freed that is not there, and no option read that was not given,
   whichever step fails. *)
THEOREM NothingIsMisused == Spec => []NothingMisused
<1>1. IInv => NothingMisused
  BY DEF IInv
<1>. QED
  BY <1>1, InvariantHolds, PTL

(* Everything is freed when the program ends. *)
THEOREM NothingIsLeaked == Spec => []NothingLeaks
<1>1. IInv => NothingLeaks
  BY DEF IInv, HeapMatches, NothingLeaks
<1>. QED
  BY <1>1, InvariantHolds, PTL
-----------------------------------------------------------------------------
(* The image: the builder's three sums of the same lengths. *)

FileTypes(input_) == \A f \in FileNames : input_[f] \in Nat

LEMMA FilesAre ==
    /\ DOMAIN Files = 1 .. 5 /\ Len(Files) = 5
    /\ Files[1] = "stage1" /\ Files[2] = "stage2" /\ Files[3] = "kernel"
    /\ Files[4] = "initramfs" /\ Files[5] = "command_line"
    /\ FileNames = {"stage1", "stage2", "kernel", "initramfs", "command_line"}
<1>1. /\ DOMAIN Files = 1 .. 5 /\ Len(Files) = 5
      /\ Files[1] = "stage1" /\ Files[2] = "stage2" /\ Files[3] = "kernel"
      /\ Files[4] = "initramfs" /\ Files[5] = "command_line"
  BY DEF Files
<1>. QED
  BY <1>1 DEF FileNames

LEMMA RoundedIsNext ==
    ASSUME NEW x \in Nat, NEW a \in Nat \ {0}
    PROVE  /\ Rounded(x, a) \in Nat /\ x <= Rounded(x, a) /\ Rounded(x, a) <= x + a - 1
           /\ x % a = 0 => Rounded(x, a) = x
<1>. DEFINE d == (x + a - 1) \div a
            r == (x + a - 1) % a
<1>1. x + a - 1 \in Nat
  OBVIOUS
<1>2. d \in Nat /\ r \in 0 .. a - 1 /\ x + a - 1 = d * a + r
  BY <1>1, DivMod, Zenon
<1>. HIDE DEF d, r
<1>3. d * a \in Nat
  BY <1>2
<1>4. x <= d * a /\ d * a <= x + a - 1
  BY <1>2, <1>3
<1>5. ASSUME x % a = 0 PROVE d * a = x
  <2>1. PICK e \in Nat : x = e * a
    <3>1. x \div a \in Nat /\ x = (x \div a) * a + (x % a)
      BY DivMod
    <3>2. (x \div a) * a \in Nat
      BY <3>1
    <3>3. x = (x \div a) * a
      BY <1>5, <3>1, <3>2
    <3>. QED
      BY <3>1, <3>3
  <2>2. d < e => d * a + a <= e * a
    BY <1>2, <2>1, TimesKeepsOrder
  <2>3. e < d => e * a + a <= d * a
    BY <1>2, <2>1, TimesKeepsOrder
  <2>4. ~(d < e) /\ ~(e < d)
    BY <1>3, <1>4, <2>1, <2>2, <2>3
  <2>5. d = e
    BY <1>2, <2>1, <2>4
  <2>. QED
    BY <2>1, <2>5
<1>6. Rounded(x, a) = d * a
  BY DEF Rounded, d
<1>. QED
  BY <1>3, <1>4, <1>5, <1>6

LEMMA AlignForwardIsNext ==
    ASSUME NEW x \in Nat, NEW a \in Nat \ {0}, Rounded(x, a) < Word
    PROVE  AlignForward(x, a) = Rounded(x, a)
<1>1. Rounded(x, a) \in 0 .. Word - 1 /\ Word \in Nat \ {0}
  BY RoundedIsNext, RomAssumption
<1>. QED
  BY <1>1 DEF AlignForward

Padded(bytes) == Rounded(bytes, Boundary)

LEMMA InputsAre ==
    ASSUME NEW input_ \in Inputs
    PROVE  \A f \in {"stage1", "stage2", "kernel", "initramfs", "command_line", "stage0",
                     "stage0_cic", "bss"} : input_[f] \in Nat /\ input_[f] < Word
<1>1. Word \in Nat
  BY RomAssumption
<1>. QED
  BY <1>1, FilesAre DEF Inputs

(* Nothing wraps in an image whose lengths add up: each file is where the lengths
   before it end, the measured image ends after the last. *)
LEMMA StartsAre ==
    ASSUME NEW input_ \in Inputs, SumFits(input_)
    PROVE  LET stage1 == Ipl3End + BootHeader
               stage2 == stage1 + Padded(input_["stage1"])
               kernel_ == stage2 + Padded(input_["stage2"])
               initramfs == kernel_ + Padded(input_["kernel"])
               command_line == initramfs + Padded(input_["initramfs"])
               end == Starts(Ipl3End + Pad(BootHeader), Measured(input_)).end
               at == [stage1 |-> stage1, stage2 |-> stage2, kernel |-> kernel_,
                      initramfs |-> initramfs, command_line |-> command_line]
           IN  /\ \A f \in FileNames :
                     /\ Starts(Ipl3End + Pad(BootHeader), input_)[f] = at[f]
                     /\ Starts(Ipl3End + BootHeader, Described(input_))[f] = at[f]
                     /\ at[f] \in Nat
               /\ end \in Nat /\ end < Word
               /\ stage1 + input_["stage1"] <= stage2
               /\ stage2 + input_["stage2"] <= kernel_
               /\ kernel_ + input_["kernel"] <= initramfs
               /\ initramfs + input_["initramfs"] <= command_line
               /\ command_line + Described(input_)["command_line"] <= end
<1>. DEFINE stage1 == Ipl3End + BootHeader
            stage2 == stage1 + Padded(input_["stage1"])
            kernel_ == stage2 + Padded(input_["stage2"])
            initramfs == kernel_ + Padded(input_["kernel"])
            command_line == initramfs + Padded(input_["initramfs"])
            last == Padded(input_["command_line"] + 1)
<1>1. /\ Boundary \in Nat \ {0} /\ Word \in Nat /\ Ipl3End \in Nat /\ BootHeader \in Nat
      /\ BootHeader % Boundary = 0
  BY RomAssumption
<1>2. \A f \in {"stage1", "stage2", "kernel", "initramfs", "command_line"} :
         /\ input_[f] \in Nat /\ input_[f] <= Padded(input_[f]) /\ Padded(input_[f]) \in Nat
  BY <1>1, InputsAre, RoundedIsNext DEF Padded
<1>3. Padded(BootHeader) = BootHeader
  BY <1>1, RoundedIsNext DEF Padded
<1>4. last \in Nat /\ input_["command_line"] + 1 <= last
  <2>1. input_["command_line"] + 1 \in Nat
    BY <1>2
  <2>. QED
    BY <1>1, <2>1, RoundedIsNext DEF Padded
<1>5. command_line + last < Word
  BY <1>3 DEF SumFits, Padded
<1>6. \A f \in {"stage1", "stage2", "kernel", "initramfs"} : Padded(input_[f]) < Word
  <2>. HIDE DEF last
  <2>. QED
    BY <1>1, <1>2, <1>4, <1>5
<1>7. \A f \in {"stage1", "stage2", "kernel", "initramfs"} : Pad(input_[f]) = Padded(input_[f])
  BY <1>1, <1>2, <1>6, AlignForwardIsNext DEF Pad, Padded
<1>8. BootHeader < Word
  <2>. HIDE DEF last
  <2>. QED
    BY <1>1, <1>2, <1>4, <1>5
<1>9. Pad(BootHeader) = BootHeader
  BY <1>1, <1>3, <1>8, AlignForwardIsNext DEF Pad, Padded
<1>10. \A f \in {"stage1", "stage2", "kernel", "initramfs"} :
          Described(input_)[f] = input_[f] /\ Measured(input_)[f] = input_[f]
  BY FilesAre DEF Described, Measured, Inputs
<1>. DEFINE m == Measured(input_)["command_line"]
            start == Starts(Ipl3End + Pad(BootHeader), Measured(input_))
<1>11. Pad(m) \in Nat /\ Pad(m) <= last /\ Described(input_)["command_line"] <= Pad(m)
  <2>1. CASE Empty(input_)
    <3>1. m = 0 /\ Described(input_)["command_line"] = 0
      BY <2>1, FilesAre DEF Described, Measured, Inputs
    <3>2. 0 % Boundary = 0
      BY <1>1
    <3>3. Rounded(0, Boundary) = 0
      BY <1>1, <3>2, RoundedIsNext
    <3>4. Pad(0) = 0
      BY <1>1, <1>8, <3>3, AlignForwardIsNext DEF Pad
    <3>. HIDE DEF m
    <3>. QED
      BY <1>4, <3>1, <3>4
  <2>2. CASE ~Empty(input_)
    <3>1. input_["command_line"] + 1 < Word /\ last < Word
      <4>. HIDE DEF last
      <4>. QED
        BY <1>1, <1>2, <1>4, <1>5
    <3>2. (input_["command_line"] + 1) % Word = input_["command_line"] + 1
      BY <1>1, <1>2, <3>1
    <3>3. /\ m = input_["command_line"] + 1
          /\ Described(input_)["command_line"] = input_["command_line"]
      BY <2>2, <3>2, FilesAre DEF Described, Measured, Inputs
    <3>4. Pad(input_["command_line"] + 1) = last
      <4>1. input_["command_line"] + 1 \in Nat
        BY <1>2
      <4>. QED
        BY <1>1, <3>1, <4>1, AlignForwardIsNext DEF Pad, Padded
    <3>. HIDE DEF m, last
    <3>. QED
      BY <1>2, <1>4, <3>3, <3>4
  <2>. QED
    BY <2>1, <2>2
<1>12. start.end = command_line + Pad(m)
  BY <1>7, <1>9, <1>10 DEF Starts
<1>13. start.end \in Nat /\ start.end < Word
       /\ command_line + Described(input_)["command_line"] <= start.end
  <2>1. Described(input_)["command_line"] \in Nat
    BY <1>2, FilesAre DEF Described, Inputs
  <2>2. command_line \in Nat
    BY <1>1, <1>2
  <2>. HIDE DEF m, last, command_line, start
  <2>. QED
    BY <1>1, <1>4, <1>5, <1>11, <1>12, <2>1, <2>2
<1>14. \A f \in FileNames :
          LET at == [stage1 |-> stage1, stage2 |-> stage2, kernel |-> kernel_,
                     initramfs |-> initramfs, command_line |-> command_line]
          IN  /\ Starts(Ipl3End + Pad(BootHeader), input_)[f] = at[f]
              /\ Starts(Ipl3End + BootHeader, Described(input_))[f] = at[f]
              /\ at[f] \in Nat
  BY <1>1, <1>2, <1>7, <1>9, <1>10, FilesAre DEF Starts
<1>15. /\ stage1 + input_["stage1"] <= stage2
       /\ stage2 + input_["stage2"] <= kernel_
       /\ kernel_ + input_["kernel"] <= initramfs
       /\ initramfs + input_["initramfs"] <= command_line
  BY <1>1, <1>2
<1>. QED
  BY <1>13, <1>14, <1>15

(* A measurement that succeeds has found no file too long. *)
LEMMA FirstOfIsOne ==
    ASSUME NEW names, names \subseteq {"stage0", "stage0_cic"} \cup FileNames, names # {}
    PROVE  FirstOf(names) \in names
<1>. DEFINE order == <<"stage0", "stage0_cic">> \o Files
            First(i) == order[i] \in names /\ \A j \in 1 .. i - 1 : order[j] \notin names
<1>1. /\ DOMAIN order = 1 .. 7 /\ order[1] = "stage0" /\ order[2] = "stage0_cic"
      /\ order[3] = "stage1" /\ order[4] = "stage2" /\ order[5] = "kernel"
      /\ order[6] = "initramfs" /\ order[7] = "command_line"
  BY DEF Files
<1>. HIDE DEF order
<1>2. \/ order[1] \in names \/ order[2] \in names \/ order[3] \in names \/ order[4] \in names
      \/ order[5] \in names \/ order[6] \in names \/ order[7] \in names
  BY <1>1, FilesAre
<1>3. \E i \in 1 .. 7 : First(i)
  <2>1. \/ First(1) \/ First(2) \/ First(3) \/ First(4) \/ First(5) \/ First(6) \/ First(7)
    <3>1. 1 .. 0 = {} /\ 1 .. 1 = {1} /\ 1 .. 2 = {1, 2} /\ 1 .. 3 = {1, 2, 3}
          /\ 1 .. 4 = {1, 2, 3, 4} /\ 1 .. 5 = {1, 2, 3, 4, 5} /\ 1 .. 6 = {1, 2, 3, 4, 5, 6}
      OBVIOUS
    <3>. QED
      BY <1>2, <3>1
  <2>. QED
    BY <2>1
<1>4. FirstOf(names) = order[CHOOSE i \in DOMAIN order : First(i)]
  BY DEF FirstOf, order
<1>. QED
  BY <1>1, <1>3, <1>4

LEMMA MeasuredFits ==
    ASSUME NEW input_ \in Inputs, SumFits(input_), MeasureStatus(input_) = "ok"
    PROVE  LET end == Starts(Ipl3End + Pad(BootHeader), Measured(input_)).end
           IN  RomBytes(input_) \in Nat /\ end <= RomBytes(input_)
<1>. DEFINE end == Starts(Ipl3End + Pad(BootHeader), Measured(input_)).end
<1>1. end \in Nat /\ end < Word
  BY StartsAre
<1>2. TooLong(input_) = {}
  <2>1. Overflows(input_) = {}
    <3>1. Overflows(input_) \subseteq {"stage0", "stage0_cic"} \cup FileNames
      BY FilesAre DEF Overflows
    <3>2. ASSUME Overflows(input_) # {} PROVE FALSE
      <4>1. FirstOf(Overflows(input_)) \in {"stage0", "stage0_cic"} \cup FileNames
        BY <3>1, <3>2, FirstOfIsOne
      <4>. QED
        BY <3>2, <4>1, FilesAre DEF MeasureStatus
    <3>. QED
      BY <3>2
  <2>2. TooLong(input_) \subseteq FileNames
    BY DEF TooLong
  <2>3. ASSUME TooLong(input_) # {} PROVE FALSE
    <3>1. FirstOf(TooLong(input_)) \in FileNames
      BY <2>2, <2>3, FirstOfIsOne
    <3>. QED
      BY <2>1, <2>3, <3>1, FilesAre DEF MeasureStatus
  <2>. QED
    BY <2>3
<1>3. ~(end % Word > MaxRom)
  BY <1>2, FilesAre DEF TooLong
<1>. HIDE DEF end
<1>4. Word \in Nat /\ MaxRom \in Nat /\ RomAlignment \in Nat \ {0} /\ MaxRom + RomAlignment < Word
  BY RomAssumption
<1>5. end % Word = end
  BY <1>1, <1>4
<1>6. end <= MaxRom
  BY <1>1, <1>3, <1>4, <1>5
<1>7. /\ Rounded(end, RomAlignment) \in Nat /\ end <= Rounded(end, RomAlignment)
      /\ Rounded(end, RomAlignment) <= end + RomAlignment - 1
  BY <1>1, <1>4, RoundedIsNext
<1>8. AlignForward(end, RomAlignment) = Rounded(end, RomAlignment)
  <2>1. Rounded(end, RomAlignment) < Word
    BY <1>1, <1>4, <1>6, <1>7
  <2>. QED
    BY <1>1, <1>4, <2>1, AlignForwardIsNext
<1>9. RomBytes(input_) = AlignForward(end, RomAlignment)
  BY <1>5 DEF RomBytes, end
<1>. QED
  BY <1>7, <1>8, <1>9 DEF end

LEMMA CopiesAre ==
    ASSUME NEW input_
    PROVE  /\ DOMAIN Copies(input_) = 1 .. 9
           /\ \A k \in 1 .. 5 :
                 Copies(input_)[4 + k] =
                    [file |-> Files[k],
                     at |-> Starts(Ipl3End + Pad(BootHeader), input_)[Files[k]],
                     bytes |-> input_[Files[k]]]
<1>. DEFINE start == Starts(Ipl3End + Pad(BootHeader), input_)
            Copy(file, at, bytes) == [file |-> file, at |-> at, bytes |-> bytes]
            first == <<Copy("rom_header", 0, RomHeader),
                       Copy("stage0", RomHeader, input_["stage0"]),
                       Copy("stage0_cic", Ipl3End - input_["stage0_cic"], input_["stage0_cic"]),
                       Copy("boot_header", Ipl3End, BootHeader)>>
            rest == [i \in DOMAIN Files |-> Copy(Files[i], start[Files[i]], input_[Files[i]])]
<1>1. Copies(input_) = first \o rest
  BY DEF Copies
<1>. DEFINE T == {first[k] : k \in 1 .. 4} \cup {rest[k] : k \in 1 .. 5}
<1>2. Len(first) = 4 /\ first \in Seq(T)
  <2>. DEFINE F == {first[k] : k \in 1 .. 4}
  <2>1. Len(first) = 4 /\ first \in Seq(F)
    OBVIOUS
  <2>. QED
    BY <2>1, SeqMonotonic, Zenon
<1>3. DOMAIN rest = 1 .. 5 /\ \A k \in 1 .. 5 : rest[k] = Copy(Files[k], start[Files[k]], input_[Files[k]])
  BY FilesAre
<1>4. Len(rest) = 5 /\ rest \in Seq(T)
  <2>1. rest \in [1 .. 5 -> T]
    BY <1>3
  <2>2. rest \in Seq(T)
    BY <2>1, SeqDef
  <2>. QED
    BY <1>3, <2>2
<1>. HIDE DEF first, rest, T
<1>. DEFINE q == first \o rest
<1>5. /\ q \in Seq(T) /\ Len(q) = Len(first) + Len(rest)
      /\ \A i \in 1 .. Len(first) + Len(rest) :
            q[i] = IF i <= Len(first) THEN first[i] ELSE rest[i - Len(first)]
  BY <1>2, <1>4, ConcatProperties, Zenon
<1>6. Len(q) = 9 /\ \A i \in 1 .. 9 : q[i] = IF i <= 4 THEN first[i] ELSE rest[i - 4]
  BY <1>2, <1>4, <1>5
<1>7. DOMAIN q = 1 .. Len(q)
  BY <1>5, LenProperties, Zenon
<1>8. Copies(input_) = q
  BY <1>1
<1>. HIDE DEF q
<1>9. ASSUME NEW k \in 1 .. 5 PROVE q[4 + k] = rest[k]
  <2>1. 4 + k \in 1 .. 9 /\ ~(4 + k <= 4) /\ (4 + k) - 4 = k
    OBVIOUS
  <2>. QED
    BY <1>6, <2>1
<1>. QED
  BY <1>3, <1>6, <1>7, <1>8, <1>9

(* A byte of the image is of the last file copied over it. *)
LEMMA LastCopyIsImage ==
    ASSUME NEW input_, NEW bytes \in Nat, NEW byte \in 0 .. bytes - 1, NEW k \in 1 .. 9,
           NEW over, over = {i \in 1 .. 9 : /\ Copies(input_)[i].at <= byte
                                            /\ byte < Copies(input_)[i].at + Copies(input_)[i].bytes},
           k \in over, \A j \in over : j <= k
    PROVE  Image(input_, bytes)[byte] =
              <<Copies(input_)[k].file, byte - Copies(input_)[k].at>>
<1>. DEFINE copy == Copies(input_)
            last == CHOOSE i \in over : \A j \in over : j <= i
<1>1. last = k
  <2>1. \E i \in over : \A j \in over : j <= i
    OBVIOUS
  <2>2. last \in over /\ \A j \in over : j <= last
    BY <2>1
  <2>. HIDE DEF last
  <2>3. last <= k /\ k <= last /\ last \in 1 .. 9
    BY <2>2
  <2>. QED
    BY <2>3
<1>2. DOMAIN copy = 1 .. 9
  BY CopiesAre
<1>3. Image(input_, bytes)[byte] =
        IF over = {} THEN <<"zero", 0>> ELSE <<copy[last].file, byte - copy[last].at>>
  BY <1>2 DEF Image
<1>. HIDE DEF last
<1>. QED
  BY <1>1, <1>3

(* The files are in order and apart, and the header knows where. *)
LEMMA FilesAreApart ==
    ASSUME NEW input_ \in Inputs, SumFits(input_)
    PROVE  LET start == Starts(Ipl3End + Pad(BootHeader), input_)
               end == Starts(Ipl3End + Pad(BootHeader), Measured(input_)).end
           IN  \A k \in 1 .. 5 :
                 /\ HeaderOf(input_).offset[Files[k]] = start[Files[k]]
                 /\ HeaderOf(input_).length[Files[k]] \in Nat
                 /\ HeaderOf(input_).length[Files[k]] <= input_[Files[k]]
                 /\ start[Files[k]] \in Nat
                 /\ start[Files[k]] + HeaderOf(input_).length[Files[k]] <= end
                 /\ \A j \in 1 .. 5 : k < j => start[Files[k]] + input_[Files[k]] <= start[Files[j]]
<1>. DEFINE start == Starts(Ipl3End + Pad(BootHeader), input_)
            end == Starts(Ipl3End + Pad(BootHeader), Measured(input_)).end
            described == Starts(Ipl3End + BootHeader, Described(input_))
            at == [f \in FileNames |-> start[f]]
            length == [f \in FileNames |-> Described(input_)[f]]
<1>1. /\ Ipl3End \in Nat /\ BootHeader \in Nat /\ Boundary \in Nat \ {0} /\ Word \in Nat
  BY RomAssumption
<1>2. \A f \in FileNames : input_[f] \in Nat /\ Padded(input_[f]) \in Nat
  BY <1>1, InputsAre, FilesAre, RoundedIsNext DEF Padded
<1>3. /\ \A f \in FileNames : described[f] = at[f] /\ at[f] \in Nat
      /\ end \in Nat /\ end < Word
      /\ at["stage1"] + input_["stage1"] <= at["stage2"]
      /\ at["stage2"] + input_["stage2"] <= at["kernel"]
      /\ at["kernel"] + input_["kernel"] <= at["initramfs"]
      /\ at["initramfs"] + input_["initramfs"] <= at["command_line"]
      /\ at["command_line"] + length["command_line"] <= end
  BY StartsAre, FilesAre
<1>4. /\ \A f \in FileNames : length[f] \in Nat /\ length[f] <= input_[f]
  BY <1>2, FilesAre DEF Described, Inputs
<1>5. /\ HeaderOf(input_).offset = [f \in FileNames |-> described[f] % Word]
      /\ HeaderOf(input_).length = length
  BY DEF HeaderOf
<1>. HIDE DEF end, described, at, length
<1>6. \A f \in FileNames : at[f] + length[f] <= end
  BY <1>2, <1>3, <1>4, FilesAre
<1>7. \A f \in FileNames : described[f] % Word = at[f]
  BY <1>1, <1>3, <1>4, <1>6
<1>8. \A k, j \in 1 .. 5 : k < j => at[Files[k]] + input_[Files[k]] <= at[Files[j]]
  BY <1>2, <1>3, FilesAre
<1>9. \A k \in 1 .. 5 : Files[k] \in FileNames
  BY FilesAre
<1>10. \A f \in FileNames : start[f] = at[f]
  BY DEF at
<1>. HIDE DEF start
<1>11. \A k \in 1 .. 5 :
         /\ HeaderOf(input_).offset[Files[k]] = start[Files[k]]
         /\ HeaderOf(input_).length[Files[k]] \in Nat
         /\ HeaderOf(input_).length[Files[k]] <= input_[Files[k]]
         /\ start[Files[k]] \in Nat
         /\ start[Files[k]] + HeaderOf(input_).length[Files[k]] <= end
         /\ \A j \in 1 .. 5 : k < j => start[Files[k]] + input_[Files[k]] <= start[Files[j]]
  BY <1>3, <1>4, <1>5, <1>6, <1>7, <1>8, <1>9, <1>10
<1>. QED
  BY <1>11 DEF start, end

LEMMA FilesAreThere ==
    ASSUME NEW input_ \in Inputs, SumFits(input_), MeasureStatus(input_) = "ok"
    PROVE  HeaderDescribes(HeaderOf(input_), Image(input_, RomBytes(input_)))
<1>. DEFINE start == Starts(Ipl3End + Pad(BootHeader), input_)
            end == Starts(Ipl3End + Pad(BootHeader), Measured(input_)).end
            bytes == RomBytes(input_)
            image == Image(input_, bytes)
            h == HeaderOf(input_)
<1>1. bytes \in Nat /\ end <= bytes /\ end \in Nat
  BY MeasuredFits, StartsAre
<1>2. DOMAIN image = 0 .. bytes - 1
  BY DEF Image
<1>3. ASSUME NEW k \in 1 .. 5, NEW i \in 0 .. h.length[Files[k]] - 1
      PROVE  /\ h.offset[Files[k]] + i \in 0 .. bytes - 1
             /\ image[h.offset[Files[k]] + i] = <<Files[k], i>>
  <2>. DEFINE byte == start[Files[k]] + i
              over == {c \in 1 .. 9 : /\ Copies(input_)[c].at <= byte
                                      /\ byte < Copies(input_)[c].at + Copies(input_)[c].bytes}
  <2>1. /\ h.offset[Files[k]] = start[Files[k]] /\ h.length[Files[k]] \in Nat
        /\ h.length[Files[k]] <= input_[Files[k]] /\ start[Files[k]] \in Nat
        /\ start[Files[k]] + h.length[Files[k]] <= end
        /\ \A j \in 1 .. 5 : k < j => start[Files[k]] + input_[Files[k]] <= start[Files[j]]
    BY FilesAreApart
  <2>2. \A j \in 1 .. 5 : input_[Files[j]] \in Nat /\ start[Files[j]] \in Nat
    BY FilesAreApart, InputsAre, FilesAre
  <2>3. \A j \in 1 .. 5 : /\ Copies(input_)[4 + j].file = Files[j]
                          /\ Copies(input_)[4 + j].at = start[Files[j]]
                          /\ Copies(input_)[4 + j].bytes = input_[Files[j]]
    <3>1. \A j \in 1 .. 5 : Copies(input_)[4 + j] =
            [file |-> Files[j], at |-> start[Files[j]], bytes |-> input_[Files[j]]]
      BY CopiesAre
    <3>. HIDE DEF start
    <3>. QED
      BY <3>1
  <2>. HIDE DEF start, end, bytes, image, h
  <2>4. byte \in 0 .. bytes - 1
    BY <1>1, <2>1
  <2>5. start[Files[k]] <= byte /\ byte < start[Files[k]] + input_[Files[k]]
        /\ byte - start[Files[k]] = i /\ byte \in Nat
    BY <2>1, <2>2
  <2>. HIDE DEF byte
  <2>6. 4 + k \in over /\ 4 + k \in 1 .. 9
    BY <2>3, <2>5
  <2>7. \A c \in over : c <= 4 + k
    <3>. SUFFICES ASSUME NEW c \in over, ~(c <= 4 + k) PROVE FALSE
      OBVIOUS
    <3>1. PICK j \in 1 .. 5 : c = 4 + j
      <4>1. c - 4 \in 1 .. 5 /\ c = 4 + (c - 4)
        OBVIOUS
      <4>. QED
        BY <4>1
    <3>2. k < j
      BY <3>1
    <3>3. start[Files[j]] <= byte
      BY <2>3, <3>1
    <3>4. byte < start[Files[j]]
      BY <2>1, <2>2, <2>5, <3>2
    <3>. QED
      BY <2>2, <2>5, <3>3, <3>4
  <2>. HIDE DEF over
  <2>8. Image(input_, bytes)[byte] = <<Copies(input_)[4 + k].file, byte - Copies(input_)[4 + k].at>>
    BY <1>1, <2>4, <2>6, <2>7, LastCopyIsImage DEF over
  <2>. QED
    BY <2>1, <2>3, <2>4, <2>5, <2>8 DEF byte, image
<1>4. \A f \in FileNames : \E k \in 1 .. 5 : f = Files[k]
  BY FilesAre
<1>. HIDE DEF image, h, bytes
<1>5. HeaderDescribes(h, image)
  <2>1. ASSUME NEW f \in FileNames, NEW i \in 0 .. h.length[f] - 1
        PROVE  h.offset[f] + i \in DOMAIN image /\ image[h.offset[f] + i] = <<f, i>>
    <3>1. PICK k \in 1 .. 5 : f = Files[k]
      BY <1>4
    <3>. QED
      BY <1>2, <1>3, <3>1
  <2>. QED
    BY <2>1, Zenon DEF HeaderDescribes
<1>. QED
  BY <1>5 DEF image, h, bytes
-----------------------------------------------------------------------------
(* The kernel's image is where its file says, in the file. *)
LEMMA ParsedImageIsInFile ==
    ASSUME NEW elf_ \in ElfFiles, KernelParse(elf_).status = "ok"
    PROVE  LET image == KernelParse(elf_)
           IN  /\ image.bytes \in 0 .. Word - 1
               /\ \A i \in DOMAIN elf_.segments :
                     elf_.segments[i].load
                        /\ elf_.segments[i].offset + elf_.segments[i].filesz < Word64
                     => /\ image.offset + image.bytes <= elf_.bytes
                        /\ image.bytes <= image.memory
<1>. DEFINE image == KernelParse(elf_)
            loadable == Loadable(elf_)
            segment == elf_.segments[CHOOSE i \in loadable : TRUE]
<1>1. /\ image = ParseProgramHeaders(elf_)
  BY DEF KernelParse, ParseElfHeader, Fault
<1>2. /\ loadable # {} /\ \A i, j \in loadable : i = j
      /\ ~((segment.offset + segment.filesz) % Word64 > elf_.bytes)
      /\ image = ParseMainSegment(elf_, segment)
  BY <1>1 DEF ParseProgramHeaders, Fault
<1>. HIDE DEF image
<1>3. \A i \in DOMAIN elf_.segments : elf_.segments[i].load => segment = elf_.segments[i]
  BY <1>2 DEF Loadable
<1>4. segment \in Segments
  <2>1. \A i \in DOMAIN elf_.segments : elf_.segments[i] \in Segments
    BY DEF ElfFiles
  <2>. QED
    BY <1>2, <2>1 DEF Loadable
<1>. HIDE DEF segment, loadable
<1>5. /\ segment.filesz < Word32 /\ segment.filesz <= segment.memsz
      /\ image.offset = segment.offset % Word32 /\ image.bytes = segment.filesz
      /\ image.memory = segment.memsz
  <2>1. image.status = "ok"
    BY DEF image
  <2>2. /\ ~(segment.filesz >= Word32) /\ ~(segment.memsz < segment.filesz)
        /\ image = [status |-> "ok", offset |-> segment.offset % Word32, bytes |-> segment.filesz,
                    memory |-> segment.memsz, addr_load |-> segment.vaddr % Word32,
                    addr_entry |-> elf_.entry % Word32]
    BY <1>2, <2>1 DEF ParseMainSegment, Fault
  <2>3. segment.filesz \in Nat /\ segment.memsz \in Nat /\ Word32 \in Nat
    BY <1>4, ElfAssumption DEF Segments, Fields64
  <2>. QED
    BY <2>2, <2>3
<1>6. /\ segment.filesz \in Nat /\ segment.offset \in Nat /\ elf_.bytes \in Nat
      /\ Word32 \in Nat \ {0} /\ Word64 \in Nat \ {0} /\ Word = Word32
  BY <1>4, ElfAssumption, MkromAssumption DEF Segments, Fields64, ElfFiles
<1>7. segment.offset % Word32 <= segment.offset /\ segment.offset % Word32 \in Nat
  BY <1>6
<1>8. ASSUME segment.offset + segment.filesz < Word64
      PROVE  (segment.offset % Word32) + segment.filesz <= elf_.bytes
  <2>1. (segment.offset + segment.filesz) % Word64 = segment.offset + segment.filesz
    BY <1>6, <1>8
  <2>. QED
    BY <1>2, <1>6, <1>7, <2>1
<1>9. image.bytes \in 0 .. Word - 1
  BY <1>5, <1>6
<1>10. \A i \in DOMAIN elf_.segments :
          elf_.segments[i].load
             /\ elf_.segments[i].offset + elf_.segments[i].filesz < Word64
          => image.offset + image.bytes <= elf_.bytes /\ image.bytes <= image.memory
  BY <1>3, <1>5, <1>8
<1>. QED
  BY <1>9, <1>10 DEF image
-----------------------------------------------------------------------------
(* What the builder works on: lengths of 32 bits, the kernel's image as it was
   found, and then the header and the image made of the same lengths. *)
CommandLineIsKnown ==
    "command_line" \in DOMAIN config_file_parsed =>
        config_file_parsed["command_line"] \in DOMAIN CharactersOf

RomInv ==
    /\ misuse \in BOOLEAN /\ input \in Inputs
    /\ clean_list \in {<<>>, <<"config">>} /\ slice \in {"none", "argv", "config"}
    /\ pc = "load" => CommandLineIsKnown
    /\ pc \in {"parse_bss", "parse_kernel", "measure", "construct"} \/ (pc = "load" /\ level >= 6)
          => elf \in Elfs
    /\ pc \in {"measure", "construct"} => kernel = KernelParse(elf) /\ kernel.status = "ok"
    /\ pc \in {"construct", "save"} => MeasureStatus(input) = "ok" /\ header = HeaderOf(input)
    /\ pc = "save" => rom = Image(input, RomBytes(input))

LEMMA InitRomInv == Init => RomInv
<1>. SUFFICES ASSUME Init PROVE RomInv
  OBVIOUS
<1>1. input \in Inputs
  <2>1. Word \in Nat \ {0}
    BY RomAssumption
  <2>2. 0 \in 0 .. Word - 1
    BY <2>1
  <2>. QED
    BY <2>2 DEF Init, Inputs
<1>. QED
  BY <1>1 DEF Init, RomInv

(* A length that is written is one of 32 bits. *)
LEMMA InputKept ==
    ASSUME input \in Inputs, NEW f, NEW bytes \in 0 .. Word - 1,
           input' = [input EXCEPT ![f] = bytes]
    PROVE  input' \in Inputs
BY DEF Inputs

LEMMA UseIsBoolean ==
    ASSUME misuse \in BOOLEAN, NEW given \in BOOLEAN, NEW read, NEW freed, NEW allocated,
           Use(given, read, freed, allocated)
    PROVE  misuse' \in BOOLEAN
BY DEF Use

LEMMA MainKeepsRom == IInv /\ RomInv /\ Main => RomInv'
<1>. SUFFICES ASSUME RomInv, Main PROVE RomInv'
  OBVIOUS
<1>1. /\ pc' \in {"display", "load_config"} /\ slice' \in {slice, "argv"}
      /\ UNCHANGED <<misuse, input, clean_list>>
  BY DEF Main, Return, allocator, flags, builder
<1>. QED
  BY <1>1 DEF RomInv

LEMMA ConfigKeepsRom == IInv /\ RomInv /\ (LoadConfig \/ ParseConfig) => RomInv'
<1>. SUFFICES ASSUME IInv, RomInv, LoadConfig \/ ParseConfig PROVE RomInv'
  OBVIOUS
<1>1. CASE LoadConfig
  <2>1. /\ pc' \in {"display", "parse_config"} /\ UNCHANGED <<slice, input, clean_list>>
    BY <1>1 DEF LoadConfig, Return, builder
  <2>2. misuse' \in BOOLEAN
    BY <1>1 DEF LoadConfig, Use
  <2>. QED
    BY <2>1, <2>2 DEF RomInv
<1>2. CASE ParseConfig
  <2>1. PICK file \in ConfigFiles :
           /\ config_file_parsed' = Parse(ConfigFileList, file).values
           /\ pc' \in {"display", "load"}
           /\ UNCHANGED <<clean_list, slice>> \/ (clean_list' = Append(clean_list, "config")
                                                  /\ slice' = "config")
    BY <1>2 DEF ParseConfig, Return
  <2>2. CommandLineIsKnown'
    BY <2>1, MkromAssumption DEF CommandLineIsKnown
  <2>3. clean_list = <<>> /\ level = 0 /\ level' = level /\ input' = input
    BY <1>2 DEF ParseConfig, IInv, SliceMatches, LevelMatches, Before, builder
  <2>4. misuse' \in BOOLEAN
    BY <1>2 DEF ParseConfig, Use
  <2>5. clean_list' \in {<<>>, <<"config">>} /\ slice' \in {"none", "argv", "config"}
    BY <2>1, <2>3 DEF RomInv
  <2>. QED
    BY <2>1, <2>2, <2>3, <2>4, <2>5 DEF RomInv
<1>. QED
  BY <1>1, <1>2

LEMMA LoadKeepsRom == IInv /\ RomInv /\ Load => RomInv'
<1>. SUFFICES ASSUME IInv, RomInv, Load PROVE RomInv'
  OBVIOUS
<1>. DEFINE file == Loads[level + 1]
            given == file \in DOMAIN config_file_parsed
<1>1. /\ pc = "load" /\ level \in 0 .. 6 /\ UNCHANGED <<clean_list, slice, config_file_parsed>>
  BY LoadsAre DEF Load, parameters, IInv, MemoryTypes
<1>2. CommandLineIsKnown'
  BY <1>1 DEF RomInv, CommandLineIsKnown
<1>3. misuse' \in BOOLEAN
  BY DEF Load, Use
<1>4. CASE Unwind("out_of_memory") \/ Unwind("fs_error")
  <2>1. pc' = "unwind"
    BY <1>4 DEF Unwind
  <2>2. input' \in Inputs
    BY <1>1, <2>1 DEF Load, RomInv
  <2>. QED
    BY <1>1, <1>3, <2>1, <2>2 DEF RomInv
<1>5. CASE ~(Unwind("out_of_memory") \/ Unwind("fs_error"))
  <2>1. /\ level' = level + 1 /\ pc' = "load"
        /\ IF file = "kernel" THEN elf' \in Elfs ELSE UNCHANGED elf
        /\ IF file \in DOMAIN Lengths
           THEN \E bytes \in Lengths[file] : input' = [input EXCEPT ![file] = bytes]
           ELSE UNCHANGED input
    BY <1>1, <1>5 DEF Load, Failures
  <2>2. input' \in Inputs
    <3>1. CASE file \in DOMAIN Lengths
      <4>1. Lengths[file] \subseteq 0 .. Word - 1
        BY <3>1, MkromAssumption
      <4>2. PICK bytes \in 0 .. Word - 1 : input' = [input EXCEPT ![file] = bytes]
        BY <2>1, <3>1, <4>1
      <4>. QED
        BY <4>2, InputKept DEF RomInv
    <3>2. CASE file \notin DOMAIN Lengths
      BY <2>1, <3>2 DEF RomInv
    <3>. QED
      BY <3>1, <3>2
  <2>3. level' >= 6 => elf' \in Elfs
    <3>1. CASE level = 5
      BY <2>1, <3>1, LoadsAre
    <3>2. CASE level = 6
      <4>1. file = "initramfs"
        BY <3>2, LoadsAre
      <4>. QED
        BY <1>1, <2>1, <3>2, <4>1 DEF RomInv
    <3>. QED
      BY <1>1, <2>1, <3>1, <3>2
  <2>. QED
    BY <1>1, <1>2, <1>3, <2>1, <2>2, <2>3 DEF RomInv
<1>. QED
  BY <1>4, <1>5

LEMMA CopyCommandLineKeepsRom == IInv /\ RomInv /\ CopyCommandLine => RomInv'
<1>. SUFFICES ASSUME IInv, RomInv, CopyCommandLine PROVE RomInv'
  OBVIOUS
<1>1. /\ pc = "load" /\ level = 7 /\ pc' \in {"parse_bss", "unwind"} /\ elf \in Elfs
      /\ UNCHANGED <<clean_list, slice, elf>>
  <2>1. pc = "load" /\ level = 7
    BY LoadsAre DEF CopyCommandLine
  <2>2. pc' \in {"parse_bss", "unwind"} /\ UNCHANGED <<clean_list, slice, elf>>
    BY DEF CopyCommandLine, Unwind, flags
  <2>. QED
    BY <2>1, <2>2 DEF RomInv
<1>2. Characters + 1 \in 0 .. Word - 1
  <2>1. Word \in Nat \ {0, 1}
    <3>1. Word \in Nat /\ Word # 0 /\ RomHeader \in Nat \ {0} /\ Ipl3End \in Nat
          /\ MaxRom \in Nat /\ RomAlignment \in Nat \ {0} /\ MaxRom + RomAlignment < Word
      BY RomAssumption
    <3>. QED
      BY <3>1
  <2>2. Characters \in 0 .. Word - 2
    <3>1. 0 \in 0 .. Word - 2
      BY <2>1
    <3>2. CommandLineIsKnown
      BY <1>1 DEF RomInv
    <3>3. \A c \in DOMAIN CharactersOf : CharactersOf[c] \in 0 .. Word - 2
      BY MkromAssumption
    <3>. QED
      BY <3>1, <3>2, <3>3 DEF CommandLineIsKnown, Characters
  <2>. QED
    BY <2>1, <2>2
<1>3. input' \in Inputs
  BY <1>2, InputKept DEF CopyCommandLine, RomInv
<1>4. misuse' \in BOOLEAN
  BY DEF CopyCommandLine, Use, RomInv, allocator
<1>. QED
  BY <1>1, <1>3, <1>4 DEF RomInv

LEMMA ParseBssKeepsRom == IInv /\ RomInv /\ ParseBss => RomInv'
<1>. SUFFICES ASSUME RomInv, ParseBss PROVE RomInv'
  OBVIOUS
<1>1. /\ pc' \in {"parse_kernel", "unwind"} /\ elf \in Elfs /\ UNCHANGED <<clean_list, slice, elf>>
  BY DEF ParseBss, Unwind, RomInv
<1>2. input' \in Inputs
  <2>1. Lengths["bss"] \subseteq 0 .. Word - 1
    BY MkromAssumption
  <2>. QED
    BY <2>1, InputKept DEF ParseBss, RomInv
<1>3. misuse' \in BOOLEAN
  BY DEF ParseBss, Use
<1>. QED
  BY <1>1, <1>2, <1>3 DEF RomInv

LEMMA ParseKernelKeepsRom == IInv /\ RomInv /\ ParseKernel => RomInv'
<1>. SUFFICES ASSUME RomInv, ParseKernel PROVE RomInv'
  OBVIOUS
<1>1. /\ elf \in Elfs /\ kernel' = KernelParse(elf) /\ UNCHANGED <<clean_list, slice, elf>>
      /\ \/ pc' = "unwind" /\ input' = input
         \/ /\ pc' = "measure" /\ kernel'.status = "ok"
            /\ input' = [input EXCEPT !["kernel"] = kernel'.bytes]
  BY DEF ParseKernel, Unwind, RomInv
<1>2. input' \in Inputs
  <2>1. CASE kernel'.status = "ok"
    <3>1. elf \in ElfFiles
      BY <1>1, MkromAssumption
    <3>2. kernel'.bytes \in 0 .. Word - 1
      BY <1>1, <2>1, <3>1, ParsedImageIsInFile
    <3>. QED
      BY <1>1, <3>2, InputKept DEF RomInv
  <2>. QED
    BY <1>1, <2>1 DEF RomInv
<1>3. misuse' \in BOOLEAN
  BY DEF ParseKernel, Use
<1>. QED
  BY <1>1, <1>2, <1>3 DEF RomInv

LEMMA MeasureKeepsRom == IInv /\ RomInv /\ Measure => RomInv'
<1>. SUFFICES ASSUME RomInv, Measure PROVE RomInv'
  OBVIOUS
<1>1. /\ UNCHANGED <<clean_list, slice, elf, kernel, input>> /\ pc = "measure"
      /\ \/ pc' = "unwind"
         \/ pc' = "construct" /\ MeasureStatus(input) = "ok" /\ header' = HeaderOf(input)
  BY DEF Measure, Unwind, flags
<1>2. misuse' \in BOOLEAN
  BY DEF Measure, Use
<1>. QED
  BY <1>1, <1>2 DEF RomInv

LEMMA ConstructKeepsRom == IInv /\ RomInv /\ Construct => RomInv'
<1>. SUFFICES ASSUME RomInv, Construct PROVE RomInv'
  OBVIOUS
<1>1. /\ UNCHANGED <<clean_list, slice, elf, kernel, header, input>> /\ pc = "construct"
      /\ pc' = "unwind" \/ (pc' = "save" /\ rom' = Image(input, RomBytes(input)))
  BY DEF Construct, Unwind, flags
<1>2. misuse' \in BOOLEAN
  BY DEF Construct, Use, RomInv, allocator
<1>. QED
  BY <1>1, <1>2 DEF RomInv

LEMMA EndKeepsRom == IInv /\ RomInv /\ (Save \/ Cleanup \/ Display \/ Clean) => RomInv'
<1>. SUFFICES ASSUME RomInv, Save \/ Cleanup \/ Display \/ Clean PROVE RomInv'
  OBVIOUS
<1>1. /\ UNCHANGED <<clean_list, slice, input>>
      /\ pc' \in {"unwind", "display", "clean", "exit"}
  BY DEF Save, Cleanup, Display, Clean, Unwind, flags, builder
<1>2. misuse' \in BOOLEAN
  BY DEF Save, Cleanup, Display, Clean, Use
<1>. QED
  BY <1>1, <1>2 DEF RomInv

LEMMA NextKeepsRom == IInv /\ RomInv /\ [Next]_vars => RomInv'
<1>1. RomInv /\ UNCHANGED vars => RomInv'
  BY DEF RomInv, CommandLineIsKnown, vars, allocator, parameters, flags, builder
<1>. QED
  BY <1>1, MainKeepsRom, ConfigKeepsRom, LoadKeepsRom, CopyCommandLineKeepsRom, ParseBssKeepsRom,
     ParseKernelKeepsRom, MeasureKeepsRom, ConstructKeepsRom, EndKeepsRom DEF Next

(* Lengths, header, image and kernel agree at every step (tux64-mkrom.c, builder.c). *)
THEOREM RomInvariantHolds == Spec => [](IInv /\ RomInv)
<1>1. Init => IInv /\ RomInv
  BY InitIInv, InitRomInv
<1>2. IInv /\ RomInv /\ [Next]_vars => (IInv /\ RomInv)'
  BY NextKeeps, NextKeepsRom
<1>. QED
  BY <1>1, <1>2, PTL DEF Spec

(* Every variable has its type; no length of the builder's input is more than 32 bits
   wide. *)
THEOREM TypeCorrect == Spec => []TypeOK
<1>1. IInv /\ RomInv => TypeOK
  BY LoadsAre DEF IInv, MemoryTypes, RomInv, TypeOK
<1>. QED
  BY <1>1, RomInvariantHolds, PTL

(* The kernel's image is copied from inside its file, whatever the fields of the file
   say, but for sums that wrap around 2^64 (kernel.c:516-520). *)
THEOREM KernelsAreInTheirFiles == Spec => []KernelIsInFile
<1>1. IInv /\ RomInv => KernelIsInFile
  <2>. SUFFICES ASSUME RomInv, pc \in {"measure", "construct"}
                PROVE  \A i \in DOMAIN elf.segments :
                          elf.segments[i].load
                             /\ elf.segments[i].offset + elf.segments[i].filesz < Word64
                          => /\ kernel.offset + kernel.bytes <= elf.bytes
                             /\ kernel.bytes <= kernel.memory
    BY DEF KernelIsInFile
  <2>1. elf \in ElfFiles /\ kernel = KernelParse(elf) /\ kernel.status = "ok"
    BY MkromAssumption DEF RomInv
  <2>. QED
    BY <2>1, ParsedImageIsInFile
<1>. QED
  BY <1>1, RomInvariantHolds, PTL

(* A ROM that is saved has every file whole where its header says, for files of any
   length that adds up (builder.c:177-403). *)
THEOREM RomsAreReadable == Spec => []RomIsReadable
<1>1. IInv /\ RomInv => RomIsReadable
  BY FilesAreThere DEF RomInv, RomIsReadable
<1>. QED
  BY <1>1, RomInvariantHolds, PTL
=============================================================================
