------------------------------ MODULE MCMkrom ------------------------------
(* Small files, and lists of arguments that are right or wrong in every way.  *)
EXTENDS Mkrom

Argument(prefix, option, parameter) ==
    [prefix |-> prefix, option |-> option, parameter |-> parameter,
     text |-> IF prefix = "none" THEN parameter ELSE "-"]
Set(option, parameter) == Argument("long", option, parameter)
Bare(option) == Argument("long", option, "")
Short(option) == Argument("short", option, "")
Text(parameter) == Argument("none", "?", parameter)

MCArguments ==
    {Set("config", "x"), Set("output", "x"), Short("config"), Short("output"), Text("x"), Text(""),
     Short("help"), Set("version", "x"), Set("?", "x")}
MCCommandLines == UNION {[1 .. n -> MCArguments] : n \in 0 .. 4}

Required == [i \in DOMAIN ConfigFileList.required |-> Set(ConfigFileList.required[i], "x")]
Without(i) == SubSeq(Required, 1, i - 1) \o SubSeq(Required, i + 1, Len(Required))
Blank == Argument("blank", "?", "")
MCConfigFiles ==
    {Without(i) : i \in DOMAIN Required} \cup
    {Required \o more : more \in
        {<<>>, <<Set("command_line", "long"), Set("command_line", "x")>>,
         <<Bare("no_delay"), Blank, Set("game_code", "x"), Bare("command_line"), Blank, Text("long")>>,
         <<Set("no_checksum", "x")>>, <<Set("game_title", "bad")>>, <<Bare("clock_rate")>>,
         <<Bare("stage0"), Bare("stage1")>>, <<Text("x")>>, <<Set("?", "x")>>}}

MCLengths ==
    [stage0 |-> {1, 7}, stage0_cic |-> {0, 2}, stage1 |-> {1, 3}, stage2 |-> {2, 50},
     initramfs |-> {0, 3, 9}, bss |-> {5}]
MCCharactersOf == [x |-> 1, long |-> 5]

(* A file with two program headers, the second the loadable one.              *)
Segment(load, offset, filesz) ==
    [load |-> load, offset |-> offset, filesz |-> filesz, memsz |-> filesz + 2,
     vaddr |-> 16, align |-> 2]
MCHeaderBytes == [class \in {32, 64} |-> IF class = 32 THEN 4 ELSE 6]
MCSegmentBytes == [class \in {32, 64} |-> IF class = 32 THEN 2 ELSE 4]
Elf(class) ==
    [bytes |-> 20, magic |-> TRUE, big_endian |-> TRUE, version |-> TRUE, class |-> class,
     exec |-> TRUE, mips |-> TRUE, e_version |-> TRUE, sizes |-> TRUE, entry |-> 17, phoff |-> 6,
     segments |-> <<Segment(FALSE, 0, 0), Segment(TRUE, 16, 3)>>]
Loading(class, offset, filesz) ==
    [Elf(class) EXCEPT !.segments = <<Segment(TRUE, offset, filesz)>>]
MCElfs ==
    {Elf(32), Elf(64), Elf(16), Loading(32, 14, 6), Loading(64, 16, 6), Loading(64, 126, 4),
     [Loading(64, 14, 0) EXCEPT !.entry = 16], Loading(32, 15, 3), [Elf(32) EXCEPT !.segments = <<>>],
     [Elf(32) EXCEPT !.segments = <<Segment(TRUE, 14, 3), Segment(TRUE, 14, 3)>>],
     [Elf(32) EXCEPT !.bytes = 1], [Elf(64) EXCEPT !.bytes = 13], [Elf(64) EXCEPT !.bytes = 5],
     [Elf(32) EXCEPT !.magic = FALSE], [Elf(32) EXCEPT !.big_endian = FALSE],
     [Elf(32) EXCEPT !.version = FALSE], [Elf(32) EXCEPT !.exec = FALSE],
     [Elf(32) EXCEPT !.mips = FALSE], [Elf(32) EXCEPT !.e_version = FALSE],
     [Elf(32) EXCEPT !.sizes = FALSE], [Elf(32) EXCEPT !.entry = 20],
     [Elf(64) EXCEPT !.segments[2].align = 3], [Elf(64) EXCEPT !.segments[2].memsz = 2]}
=============================================================================
