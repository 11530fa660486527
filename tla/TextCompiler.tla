---------------------------- MODULE TextCompiler ----------------------------
(* tux64-textcompiler: the lexer and the formatter between the load and the   *)
(* save.  The strings are slices of the file, so both are kept until the      *)
(* output is there, and the file until a lexer error is printed.              *)
EXTENDS Tool, TextFormatter

CONSTANT TextFiles  \* text files, as sequences of characters

ASSUME TextCompilerAssumption == TextFiles \subseteq Seq(STRING)

TextArguments == List(<<"input", "output">>, {})

TextMain == Main(TextArguments) /\ UNCHANGED lexerVars

TextLoad ==
    /\ Load
    /\ IF pc' = "compile" THEN file' \in TextFiles ELSE UNCHANGED file
    /\ UNCHANGED <<input, slice, func, memory, parse_status, irregular>>

(* tux64_textcompiler_lexer_parse, up to the loop.                            *)
TextLexerParse ==
    /\ pc = "compile"
    /\ \/ Use({}, {}, {}, {"strings"}) /\ LexerBegin /\ pc' = "lex" /\ UNCHANGED status
       \/ Use({}, {}, {"input"}, {}) /\ Finish("out_of_memory") /\ UNCHANGED lexerVars
    /\ UNCHANGED <<tool, parameters, input, encoded, buffer, output, reason>>

TextLexerStep ==
    /\ pc = "lex"
    /\ LexerStep
    /\ Use({}, {"input", "strings"}, {}, {})
    /\ UNCHANGED <<tool, pc, parameters, input, encoded, buffer, output, status, reason>>

(* A string in an array that was lost, or written to a null pointer.          *)
Damaged ==
    \/ func = "crashed"
    \/ \E i \in DOMAIN string_array.strings : string_array.strings[i] = Lost

(* The array is freed if there was an error; free ignores a null pointer.     *)
TextLexerExit ==
    /\ pc = "lex" /\ func = "exited"
    /\ IF parse_status = "ok"
       THEN Use({}, {}, {}, {}) /\ pc' = "format" /\ UNCHANGED status
       ELSE /\ Use({}, {}, IF string_array.ptr = "live" THEN {"strings"} ELSE {}, {})
            /\ Finish("lexer_parse_error")
    /\ UNCHANGED <<tool, parameters, input, encoded, buffer, output, reason, lexerVars>>

(* The program is not followed beyond the use of a string that is not there.  *)
(* One that is not in the file, or has a character that has no code, may end  *)
(* it as well, or else something is written out in its place (TextFormat).    *)
TextCrash ==
    /\ \/ pc = "lex" /\ func = "crashed"
       \/ pc = "format" /\ (Damaged \/ ~Readable)
    /\ misuse' = TRUE /\ pc' = "exit" /\ status' = "crashed"
    /\ UNCHANGED <<tool, parameters, heap, input, encoded, buffer, output, reason, lexerVars>>

TextFormat ==
    /\ pc = "format" /\ ~Damaged
    /\ \/ /\ Misuse(Wrong({}, {"input", "strings"}) \/ ~Readable)
          /\ Change({"input", "strings"}, {"output"})
          /\ buffer' = TextLength(string_array.strings)
          /\ output' = GenerateText(string_array.strings)
          /\ pc' = "save" /\ UNCHANGED status
       \/ /\ Use({}, {"input", "strings"}, {"input", "strings"}, {})
          /\ Finish("out_of_memory") /\ UNCHANGED <<buffer, output>>
    /\ UNCHANGED <<tool, parameters, input, encoded, reason, lexerVars>>

(* A save that fails is reported with the status of the load.                 *)
TextSave ==
    /\ Save({"output"}, {"output"}, {"output"}, {"output"}, "ok")
    /\ UNCHANGED lexerVars

(* A variant that keeps the file a lexer error was printed from.              *)
FaultyTextDisplay == Display({}, {}) /\ UNCHANGED lexerVars

TextDisplay ==
    /\ Display({}, IF status = "lexer_parse_error" THEN {"input"} ELSE {})
    /\ UNCHANGED lexerVars

TextCompilerNext ==
    \/ TextMain \/ TextLoad \/ TextLexerParse \/ TextLexerStep \/ TextLexerExit \/ TextCrash
    \/ TextFormat \/ TextSave \/ TextDisplay
=============================================================================
