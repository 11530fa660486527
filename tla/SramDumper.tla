----------------------------- MODULE SramDumper -----------------------------
(* tux64-sramdumper: the parser and the formatter between the load and the    *)
(* save of a dump of the registers, which stage 0 wrote to the SRAM of the    *)
(* cartridge (stage0.S), a word at a time.  The four bytes of a word of a     *)
(* status code are characters; all other words are numbers.                   *)
EXTENDS Tool, Characters

CONSTANTS
    MaxCharacters,  \* 2048, the buffer for the text
    Srams           \* files: what an SRAM holds, and the registers that were dumped there

(* The general purpose registers, in order, and the special registers as the  *)
(* table of the formatter has them.                                           *)
RegisterNames ==
    <<"zr", "at", "v0", "v1", "a0", "a1", "a2", "a3", "t0", "t1", "t2", "t3", "t4", "t5", "t6", "t7",
      "s0", "s1", "s2", "s3", "s4", "s5", "s6", "s7", "t8", "t9", "k0", "k1", "gp", "sp", "fp", "ra">>
SpecialRegisterNames == <<"pc", "lo", "hi">>
-----------------------------------------------------------------------------
(* Stage 0.  A status code is two words, "STAG" and "E0:" with a letter.  All *)
(* registers are pushed on the stack and written from there.                  *)
StatusWordHi == <<"S", "T", "A", "G">>
StatusWordLo(code) == <<"E", "0", ":", code>>

StatusCodeWrite(sram, code) == [sram EXCEPT ![2] = StatusWordLo(code)]

Stack(cpu) == [i \in DOMAIN RegisterNames |-> cpu[RegisterNames[i]]] \o <<cpu.pc, cpu.hi, cpu.lo>>
DumpToSram(sram, code, cpu) ==
    [i \in DOMAIN sram |->
        CASE i \in {1, 3} -> StatusWordHi
          [] i = 4 -> StatusWordLo(code)
          [] i > 4 /\ i - 4 \in DOMAIN Stack(cpu) -> Stack(cpu)[i - 4]
          [] OTHER -> sram[i]]

(* An SRAM in which the dump, and the last status code after it, can be written
   again without a change holds them: all but one without a dump are of this kind. *)
HoldsDump(content) ==
    /\ content.code = <<"0", content.code[2]>> /\ content.last = <<"0", content.last[2]>>
    /\ {content.code[2], content.last[2]} \subseteq CharactersIn(Upper)
    /\ content.sram =
          StatusCodeWrite(DumpToSram(content.sram, content.code[2], content.cpu), content.last[2])

InvalidCode == <<>>

ASSUME SramDumperAssumption ==
    /\ MaxCharacters \in Nat /\ MaxCharacters >= 2048
    /\ \A content \in Srams :
        /\ Len(content.sram) \in Nat /\ DOMAIN content.sram = 1 .. Len(content.sram)
        /\ content.code # InvalidCode => HoldsDump(content)
-----------------------------------------------------------------------------
(* The parser.  The two swaps of the bytes of a word, of the console and of   *)
(* the host, cancel.                                                          *)
MinimumWords == 4 + Len(RegisterNames) + Len(SpecialRegisterNames)

ParseStatusCode(hi, lo) ==
    IF /\ hi = StatusWordHi /\ lo[1] = "E" /\ lo[3] = ":"
       /\ lo[2] \in CharactersIn(Digits) /\ lo[4] \in CharactersIn(Upper)
    THEN <<lo[2], lo[4]>> ELSE InvalidCode

FaultySramParse(sram) ==
    [last_written |-> ParseStatusCode(sram[1], sram[2]),
     time_of_dump |-> ParseStatusCode(sram[3], sram[4]),
     register_file |-> SubSeq(sram, 5, 4 + Len(RegisterNames)),
     special_registers |-> SubSeq(sram, 4 + Len(RegisterNames), MinimumWords - 1)]

SramParse(sram) ==
    [last_written |-> ParseStatusCode(sram[1], sram[2]),
     time_of_dump |-> ParseStatusCode(sram[3], sram[4]),
     register_file |-> SubSeq(sram, 5, 4 + Len(RegisterNames)),
     special_registers |-> SubSeq(sram, 5 + Len(RegisterNames), MinimumWords)]
-----------------------------------------------------------------------------
(* The formatter: headings, the two status codes, and rows of registers, each *)
(* with its name above its value in decimal and hexadecimal.                  *)
RegistersPerRow == 4
Row(names, registers) == [names |-> names, registers |-> registers]

FormatRegisterFile(registers) ==
    [row \in 1 .. Len(RegisterNames) \div RegistersPerRow |->
        LET first == (row - 1) * RegistersPerRow + 1
            last == row * RegistersPerRow
        IN  Row(SubSeq(RegisterNames, first, last), SubSeq(registers, first, last))]

SramFormat(dump) ==
    [status_codes |-> <<dump.last_written, dump.time_of_dump>>,
     rows |-> Append(FormatRegisterFile(dump.register_file),
                     Row(SpecialRegisterNames, dump.special_registers))]

(* What sprintf writes, each part with a fixed width, and its final NUL.      *)
StatusCodeCharacters(code) == 31 + (IF code = InvalidCode THEN 9 ELSE 15) + 1
RowCharacters(row) == 2 + 6 + 6 + 2 + 3 * 14 * Len(row.names)
SramCharacters(text) ==
    82 + StatusCodeCharacters(text.status_codes[1]) + StatusCodeCharacters(text.status_codes[2])
       + 83 + Total([n \in DOMAIN text.rows |-> RowCharacters(text.rows[n])])
SramWritten(text) == SramCharacters(text) + 1
-----------------------------------------------------------------------------
SramArguments == List(<<"input", "output">>, {})

SramMain == Main(SramArguments)

(* The file is what stage 0 left in the SRAM, whole or not.                   *)
SramLoad ==
    /\ Load
    /\ IF pc' = "compile" THEN input' \in Srams ELSE UNCHANGED input

(* The text is on the stack, not on the heap.                                 *)
SramParseAndFormat ==
    /\ pc = "compile"
    /\ Use({}, {"input"}, {"input"}, {})
    /\ \/ /\ Len(input.sram) < MinimumWords
          /\ Finish("parse_error") /\ UNCHANGED <<buffer, output>>
       \/ /\ Len(input.sram) >= MinimumWords
          /\ buffer' = MaxCharacters /\ output' = SramFormat(SramParse(input.sram))
          /\ pc' = "save" /\ UNCHANGED status
    /\ UNCHANGED <<tool, parameters, input, encoded, reason>>

(* A save that fails is reported with the status of the load.                 *)
SramSave == Save({}, {}, {}, {}, "ok")

SramDisplay == Display({}, {})

SramDumperNext == SramMain \/ SramLoad \/ SramParseAndFormat \/ SramSave \/ SramDisplay
=============================================================================
