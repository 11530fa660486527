---------------------------- MODULE FontCompiler ----------------------------
(* tux64-fontcompiler: the generator (generator.c) between the load and the   *)
(* save, and the console, which decompresses the font (fbcon.c).  The image   *)
(* holds the characters in a grid, each four pixels wide; a byte of the font  *)
(* is two rows of a character, a bit a pixel.                                 *)
EXTENDS Tool, CSource

CONSTANTS
    CharacterRows,          \* 8
    CharactersHorizontal,   \* 16
    CharactersVertical,     \* 4
    FontImages              \* images, as sequences of pixels <<red, green, blue>>

CharacterColumns == 4
FontCharacters == CharactersVertical * CharactersHorizontal
FontPixels == CharacterRows * CharacterColumns * FontCharacters
FontBytes == FontPixels \div 8

FontArguments == List(<<"input", "output", "name">>, {})

ASSUME FontCompilerAssumption ==
    /\ {CharactersHorizontal, CharactersVertical, CharacterRows} \subseteq Nat \ {0}
    /\ CharacterRows % 2 = 0 /\ CharacterRows > 2 /\ FontCharacters > 1
    /\ FontImages \subseteq Seq([1 .. 3 -> 0 .. 255]) /\ Measured(FontArguments)

FontMain == Main(FontArguments)

FontLoad ==
    /\ Load
    /\ IF pc' = "compile" THEN input' \in FontImages ELSE UNCHANGED input
-----------------------------------------------------------------------------
(* The generator.                                                             *)
FontLength(name_characters) ==
    Prelude + Length.define_prefix + name_characters + Length.define_suffix
        + (Length.uint8_prefix + 2 + Length.font_suffix_newline) * (FontBytes - 1)
        + Length.uint8_prefix + 2 + Length.font_suffix_final

PixelIndex(character, row, column) ==
    (character % CharactersHorizontal) * CharacterColumns
        + (character \div CharactersHorizontal) * CharacterRows * CharacterColumns
              * CharactersHorizontal
        + row * CharacterColumns * CharactersHorizontal
        + column

(* Of the three channels of a pixel the loop adds the first two only, and     *)
(* divides by three.                                                          *)
EncodePixel(image, character, row, column) ==
    LET pixel == image[PixelIndex(character, row, column) + 1]
    IN  IF (pixel[1] + pixel[2]) \div 3 < 255 \div 2 THEN 0 ELSE 1

EncodeRow(image, character, row) ==
    LET bit(column) == EncodePixel(image, character, row, column)
    IN  8 * bit(0) + 4 * bit(1) + 2 * bit(2) + bit(3)

CharacterByte(image, character, rows) ==
    EncodeRow(image, character, rows) * 16 + EncodeRow(image, character, rows + 1)

(* The last byte of the last character ends the macro.                        *)
GenerateFont(image, name_characters) ==
    LET rows == CharacterRows \div 2
        bytes == [i \in 1 .. FontBytes |->
                    CharacterByte(image, (i - 1) \div rows, 2 * ((i - 1) % rows))]
    IN  Text(Prelude) \o Define(name_characters)
            \o Entries(bytes, Length.uint8_prefix, 2, Length.font_suffix_newline,
                       Length.font_suffix_final)

(* tux64_fontcompiler_generator_parse; the file is freed in any case.         *)
FontParse ==
    LET name_characters == ParameterCharacters[parameters["name"]]
    IN  /\ pc = "compile"
        /\ \/ /\ Len(input) # FontPixels
              /\ Use({"name"}, {"input"}, {"input"}, {})
              /\ Finish("generator_parse_error") /\ UNCHANGED <<buffer, output>>
           \/ /\ Len(input) = FontPixels
              /\ Use({"name"}, {"input"}, {"input"}, {})
              /\ Finish("out_of_memory") /\ UNCHANGED <<buffer, output>>
           \/ /\ Len(input) = FontPixels
              /\ Use({"name"}, {"input"}, {"input"}, {"output"})
              /\ buffer' = FontLength(name_characters)
              /\ output' = GenerateFont(input, name_characters)
              /\ pc' = "save" /\ UNCHANGED status
        /\ UNCHANGED <<tool, parameters, input, encoded, reason>>

FontSave == Save({"output"}, {"output"}, {}, {"output"}, "not_found")

FontDisplay == Display({}, {})

FontCompilerNext == FontMain \/ FontLoad \/ FontParse \/ FontSave \/ FontDisplay
-----------------------------------------------------------------------------
(* The console.  The lowest bit of a byte is the last of its eight pixels.    *)
FontmapDecompress(bytes) ==
    [pixel \in 0 .. 8 * Len(bytes) - 1 |->
        (bytes[pixel \div 8 + 1] \div 2 ^ (7 - (pixel % 8))) % 2]
=============================================================================
