------------------------------ MODULE Compilers ------------------------------
(* The four programs that turn one file into another: the text, image and     *)
(* font compilers, whose output is part of stage 1, and the SRAM dumper.      *)
EXTENDS TextCompiler, ImageCompiler, FontCompiler, SramDumper

vars == <<toolVars, lexerVars>>

Init == tool \in {"text", "image", "font", "sram"} /\ ToolInit /\ LexerInit

Next ==
    \/ tool = "text" /\ TextCompilerNext
    \/ tool = "image" /\ ImageCompilerNext /\ UNCHANGED lexerVars
    \/ tool = "font" /\ FontCompilerNext /\ UNCHANGED lexerVars
    \/ tool = "sram" /\ SramDumperNext /\ UNCHANGED lexerVars

Spec == Init /\ [][Next]_vars /\ WF_vars(Next)
-----------------------------------------------------------------------------
(* Memory is used and freed only while it is there, no code is reached that is marked
   unreachable, and all memory is freed, except where the code is known to fail:
   - a string pushed after a failed growth of the array (lexer.c:38-59) is written
     through a null pointer;
   - a save that fails is reported with the status of the load, which is success and
     marked unreachable (fs.c:272), but in the font compiler;
   - a newline inside a text is a character without a code (formatter.c:183-184), and
     a slice that is counted on from a field's first value (lexer.c:530, 982) is read
     beyond the file (formatter.c:229-233, 298-317): of a file with neither a newline
     inside a value nor a field given twice nothing else is read than the file, and
     every character that is looked up has a code;
   - the image compiler leaks its output without memory for the path
     (tux64-imagecompiler.c:258-262) and the font compiler leaks it when the save fails
     (tux64-fontcompiler.c:234-247).
   What a crash leaves is not looked at, nor what was lost with the array. *)
HeapIsSound ==
    /\ misuse =>
        \/ pc = "exit" /\ status = "crashed" /\ Damaged
        \/ pc = "exit" /\ tool # "font" /\ status = "fs_error" /\ reason = "ok"
        \/ pc \in {"save", "display", "exit"} /\ tool = "text" /\ irregular /\ ~Readable
    /\ pc = "exit" /\ Live # {} /\ status # "crashed" /\ ~Damaged =>
        \/ tool = "image" /\ status = "out_of_memory"
        \/ tool = "font" /\ status \in Failures

(* The length measured first is the length then written, by functions that repeat
   each other (formatter.c:67-158 and 213-412, generator.c:68-97 and 292-360), and so
   nothing is written beyond the allocation; the compressed picture fits its array
   ("this pattern repeated is how we get this magic number", compressor.h:16-20), and
   the dump's text its buffer ("good enough", format.h:13-16). *)
OutputFits ==
    pc = "save" =>
        IF tool = "sram" THEN SramWritten(output) <= buffer
        ELSE /\ Written(output) = buffer
             /\ tool = "image" => Len(Values(output)) - Colors <= MaxBytes

(* Where no newline is inside a value and no field is given twice, each text is what
   the file has between two quotes, the identifiers are whole words of the file, and
   the strings keep their order.  The slices are only ever counted up while the
   iterator moves (lexer.c:131-158), which nothing ties together. *)
SliceEnd(value) == value.ptr + value.characters
Quoted(value) ==
    /\ file[value.ptr - 1] = Quote /\ file[SliceEnd(value)] = Quote
    /\ \A i \in value.ptr .. SliceEnd(value) - 1 : file[i] \in Valid
BeforeWord == Whitespace \cup {"=", Quote}
AfterWord == Whitespace \cup {";"}
WholeWord(value) ==
    /\ file[value.ptr - 1] \in BeforeWord /\ file[SliceEnd(value)] \in AfterWord
    /\ \A i \in value.ptr .. SliceEnd(value) - 1 : file[i] \notin AfterWord

InOrder(before, after) ==
    \A first, next \in Fields : SliceEnd(before[first]) < after[next].ptr

TextIsAsWritten ==
    tool = "text" /\ pc = "save" /\ ~irregular =>
        LET strings == string_array.strings
        IN  \A n \in DOMAIN strings :
                /\ Quoted(strings[n].text)
                /\ WholeWord(strings[n].identifier_data)
                /\ WholeWord(strings[n].identifier_length)
                /\ n > 1 => InOrder(strings[n - 1], strings[n])

(* What stage 1 is compiled with is what was read.  The texts are written out as the
   codes of their characters, each followed by its length (formatter.c:213-412).  The
   logo stage 1 decompresses is the picture with its colours quantised and the
   background where it is transparent (logo.c:265-292), and the font it decompresses
   has the white pixels of the image, character by character (fbcon.c:264-337), for
   images in black and white. *)
White == <<255, 255, 255>>
Black == <<0, 0, 0>>
FontImage(character, row, column) ==
    LET x == (character % CharactersHorizontal) * CharacterColumns + column
        y == (character \div CharactersHorizontal) * CharacterRows + row
    IN  input[y * CharactersHorizontal * CharacterColumns + x + 1]

SourcesAreAsRead ==
    /\ tool = "text" /\ pc = "save" /\ ~irregular =>
        LET codes(text) == [i \in 1 .. text.characters |->
                               StringCharacterConvert(file[text.ptr + i - 1])]
            data(string) == Append(codes(string.text), string.text.characters)
        IN  Values(output) = FlattenSeq([n \in DOMAIN string_array.strings |->
                                            data(string_array.strings[n])])
    /\ tool = "image" /\ pc = "save" => Logo = [i \in DOMAIN input |-> Quantised(input[i])]
    /\ tool = "font" /\ pc = "save" /\ (\A i \in DOMAIN input : input[i] \in {White, Black}) =>
        LET fontmap == FontmapDecompress(Values(output))
        IN  \A character \in 0 .. FontCharacters - 1, row \in 0 .. CharacterRows - 1,
               column \in 0 .. CharacterColumns - 1 :
                fontmap[(character * CharacterRows + row) * CharacterColumns + column] =
                    (IF FontImage(character, row, column) = White THEN 1 ELSE 0)

(* Each register that is shown has the value that was dumped under that name
   (stage0.S:208-306, parse.c:94-142, format.c:57-204), and the status codes are those
   of the dump and the last one.  The names of hi and lo are exchanged: stage 0
   writes hi first, the formatter names lo first. *)
DumpIsRead ==
    tool = "sram" /\ pc = "save" /\ input.code # InvalidCode =>
        /\ output.status_codes = <<input.last, input.code>>
        /\ \A n \in DOMAIN output.rows : \A i \in DOMAIN output.rows[n].names :
            output.rows[n].names[i] \notin {"lo", "hi"} =>
                output.rows[n].registers[i] = input.cpu[output.rows[n].names[i]]

(* The programs end, whatever the file. *)
Exits == <>(pc = "exit")
=============================================================================
