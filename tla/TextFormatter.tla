---------------------------- MODULE TextFormatter ----------------------------
(* The C source of the text compiler (rescompiler/textcompiler, formatter.c): *)
(* for each string a macro with the code of each character, and one with      *)
(* their number.                                                              *)
EXTENDS CSource, TextLexer

(* A character the console has no code for was to be rejected by the lexer:   *)
(* the branch is marked unreachable, and what it yields is undefined.         *)
Undefined == -2
StringCharacterConvert(c) ==
    CASE c \in CharactersIn(Upper) -> IndexIn(Upper, c) - 1
      [] c \in CharactersIn(Lower) -> 26 + IndexIn(Lower, c) - 1
      [] c \in CharactersIn(Digits) -> 52 + IndexIn(Digits, c) - 1
      [] c = "%" -> 62
      [] c = "." -> 63
      [] c = " " -> 64
      [] OTHER -> Undefined

(* The characters a slice refers to; beyond the file is anything.             *)
Within(value) == \A i \in 1 .. value.characters : value.ptr + i - 1 \in DOMAIN file
CharactersOf(value) ==
    [i \in 1 .. value.characters |->
        IF value.ptr + i - 1 \in DOMAIN file THEN file[value.ptr + i - 1] ELSE "?"]

(* Does the formatter read the file only, and find a code for what it reads?  *)
Readable ==
    \A n \in DOMAIN string_array.strings :
        LET string == string_array.strings[n]
        IN  /\ Within(string.identifier_data) /\ Within(string.identifier_length)
            /\ Within(string.text)
            /\ \A i \in DOMAIN CharactersOf(string.text) :
                  StringCharacterConvert(CharactersOf(string.text)[i]) # Undefined
-----------------------------------------------------------------------------
(* The measurement.                                                           *)
DefineLength(identifier) ==
    Length.define_prefix + identifier.characters + Length.define_suffix

StringDataLength(identifier, characters) ==
    DefineLength(identifier)
        + (characters - 1) * (Length.uint8_prefix + 2 + Length.suffix_newline)
        + Length.uint8_prefix + 2 + Length.suffix_final

IntegerLength(identifier) ==
    DefineLength(identifier) + Length.integer_prefix + 2 + Length.integer_suffix

StringLength(string) ==
    StringDataLength(string.identifier_data, string.text.characters)
        + IntegerLength(string.identifier_length)

TextLength(strings) ==
    Prelude + Total([n \in DOMAIN strings |-> StringLength(strings[n])])
-----------------------------------------------------------------------------
(* The output.                                                                *)
FaultyStringData(identifier, text) ==
    Define(identifier.characters)
        \o Entries([i \in 1 .. text.characters |-> StringCharacterConvert(CharactersOf(text)[i])],
                   Length.uint8_prefix, 2, Length.suffix_newline, Length.suffix_newline)

StringData(identifier, text) ==
    Define(identifier.characters)
        \o Entries([i \in 1 .. text.characters |-> StringCharacterConvert(CharactersOf(text)[i])],
                   Length.uint8_prefix, 2, Length.suffix_newline, Length.suffix_final)

GenerateInteger(identifier, characters) ==
    Define(identifier.characters) \o Text(Length.integer_prefix)
        \o Hexadecimal(characters, 2) \o Text(Length.integer_suffix)

GenerateString(string) ==
    StringData(string.identifier_data, string.text)
        \o GenerateInteger(string.identifier_length, string.text.characters)

GenerateText(strings) ==
    Text(Prelude) \o FlattenSeq([i \in DOMAIN strings |-> GenerateString(strings[i])])
=============================================================================
