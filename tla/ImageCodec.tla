----------------------------- MODULE ImageCodec -----------------------------
(* The image compiler's picture: quantised to 16-bit colours, encoded as      *)
(* indices into a table of them (encoder.c), run-length compressed            *)
(* (compressor.c) and written out as C source (formatter.c); and stage 1's    *)
(* logo, which is decompressed from that source (logo.c).                     *)
EXTENDS CSource

CONSTANTS
    ImagePixels,    \* 64 * 64
    Colors,         \* 15, the entries of the color table, which has no entry 0
    MaxRun          \* 128, the longest run; as a bit of a command it says compressed

ASSUME ImageCodecAssumption ==
    /\ ImagePixels \in Nat /\ ImagePixels > 2 /\ ImagePixels % 2 = 0
    /\ Colors \in Nat \ {0, 1} /\ MaxRun \in Nat \ {0, 1}

EmptyColor == 0
PixelTuples == ImagePixels \div 2
MaxBytes == (PixelTuples * 5) \div 3
-----------------------------------------------------------------------------
(* The encoder.  A pixel is <<red, green, blue, alpha>>; the lowest bit of a  *)
(* colour says that it is opaque.                                             *)
Rgba5551(pixel) ==
    IF pixel[4] < 128 THEN 0
    ELSE (pixel[1] \div 8) * 2 ^ 11 + (pixel[2] \div 8) * 2 ^ 6 + (pixel[3] \div 8) * 2 + 1

(* The table is searched, and filled, from its last entry on.                 *)
LoadPixel(color_table, color) ==
    LET places == {i \in 1 .. Colors : color_table[i] \in {EmptyColor, color}}
    IN  CASE color % 2 = 0 -> [status |-> "ok", index |-> 0, color_table |-> color_table]
          [] color % 2 = 1 /\ places # {} ->
                [status |-> "ok", index |-> Max(places),
                 color_table |-> [color_table EXCEPT ![Max(places)] = color]]
          [] OTHER -> [status |-> "too_many_colors", index |-> 0, color_table |-> color_table]

(* Of a tuple the second pixel is loaded first; the first is the high nibble. *)
EncodePixelTuple(color_table, first, second) ==
    LET right == LoadPixel(color_table, Rgba5551(second))
        left == LoadPixel(right.color_table, Rgba5551(first))
    IN  IF right.status = "ok" THEN [left EXCEPT !.index = @ * (Colors + 1) + right.index]
        ELSE right

Encode(pixels) ==
    LET From[at \in (1 .. PixelTuples + 1) \X [1 .. Colors -> Nat]] ==
            LET n == at[1]
                color_table == at[2]
                tuple == EncodePixelTuple(color_table, pixels[2 * n - 1], pixels[2 * n])
            IN  IF n > PixelTuples
                THEN [status |-> "ok", pixel_tuples |-> <<>>, color_table |-> color_table]
                ELSE IF tuple.status # "ok"
                THEN [status |-> tuple.status, pixel_tuples |-> <<>>, color_table |-> color_table]
                ELSE [From[<<n + 1, tuple.color_table>>] EXCEPT
                         !.pixel_tuples = <<tuple.index>> \o @]
    IN  IF Len(pixels) # ImagePixels THEN [status |-> "invalid_image_format"]
        ELSE From[<<1, [i \in 1 .. Colors |-> EmptyColor]>>]
-----------------------------------------------------------------------------
(* The compressor.  Tuples that differ from the next are collected in a       *)
(* straight run until it is as long as can be, or two equal tuples follow.    *)
NextRunLength(tuples, i) ==
    Max({n \in 1 .. Len(tuples) - i + 1 :
            n <= MaxRun /\ \A j \in i .. i + n - 1 : tuples[j] = tuples[i]})

RunStraight(tuples, i, length) == <<length - 1>> \o SubSeq(tuples, i, i + length - 1)
RunCompressed(tuple, length) == <<MaxRun + length - 1, tuple>>

FaultyCompress(tuples) ==
    LET From[at \in (1 .. Len(tuples) + 1) \X Nat] ==
            LET i == at[1]
                straight == at[2]
                flushed == IF straight = 0 THEN <<>>
                           ELSE RunStraight(tuples, i - straight, straight)
                run == NextRunLength(tuples, i)
            IN  IF i > Len(tuples) THEN flushed
                ELSE IF run = 1 THEN From[<<i + 1, straight + 1>>]
                ELSE flushed \o RunCompressed(tuples[i], run) \o From[<<i + run, 0>>]
    IN  From[<<1, 0>>]

Compress(tuples) ==
    LET From[at \in (1 .. Len(tuples) + 1) \X Nat] ==
            LET i == at[1]
                straight == at[2]
                flushed == IF straight = 0 THEN <<>>
                           ELSE RunStraight(tuples, i - straight, straight)
                run == NextRunLength(tuples, i)
            IN  IF i > Len(tuples) THEN flushed
                ELSE IF run = 1 /\ straight # MaxRun THEN From[<<i + 1, straight + 1>>]
                ELSE IF run = 1 THEN flushed \o From[<<i, 0>>]
                ELSE flushed \o RunCompressed(tuples[i], run) \o From[<<i + run, 0>>]
    IN  From[<<1, 0>>]
-----------------------------------------------------------------------------
(* The formatter: two macros, of the compressed bytes and of the color table. *)
IdentifierLength(characters) == Length.define_prefix + characters + Length.define_suffix

PixelsLength(compressed, name_characters) ==
    IdentifierLength(name_characters)
        + (Length.uint8_prefix + 2 + Length.suffix_newline) * (Len(compressed) - 1)
        + Length.uint8_prefix + 2 + Length.suffix_final

ColorTableLength(name_characters) ==
    IdentifierLength(name_characters)
        + (Length.uint16_prefix + 4 + Length.suffix_newline) * (Colors - 1)
        + Length.uint16_prefix + 4 + Length.suffix_final

ImageLength(compressed, name_pixels, name_color_table) ==
    Prelude + PixelsLength(compressed, name_pixels) + ColorTableLength(name_color_table)

GenerateImage(compressed, color_table, name_pixels, name_color_table) ==
    Text(Prelude)
        \o Define(name_pixels)
        \o Entries(compressed, Length.uint8_prefix, 2, Length.suffix_newline, Length.suffix_final)
        \o Define(name_color_table)
        \o Entries(color_table, Length.uint16_prefix, 4, Length.suffix_newline,
                   Length.suffix_final)
-----------------------------------------------------------------------------
(* The logo.  Entry 0 of its color table is the background of the console.    *)
LogoColorTuple(color_table, background, tuple) ==
    LET color(index) == IF index = 0 THEN background ELSE color_table[index]
    IN  <<color(tuple \div (Colors + 1)), color(tuple % (Colors + 1))>>

LogoTuples(byte) == (byte % MaxRun) + 1
LogoWordsInput(byte) == IF byte < MaxRun THEN LogoTuples(byte) + 1 ELSE 2
LogoRleCommand(bytes, i) ==
    IF bytes[i] < MaxRun THEN SubSeq(bytes, i + 1, i + LogoTuples(bytes[i]))
    ELSE [n \in 1 .. LogoTuples(bytes[i]) |-> bytes[i + 1]]

(* A command that reaches beyond the end makes the count of the bytes that    *)
(* remain wrap, and the decompression run away.                               *)
Runaway == <<>>
LogoDecompress(bytes, color_table, background) ==
    LET From[i \in Nat \ {0}] ==
            IF i > Len(bytes) THEN <<>>
            ELSE LogoRleCommand(bytes, i) \o From[i + LogoWordsInput(bytes[i])]
        Ends[i \in 1 .. Len(bytes) + 1] ==
            i = Len(bytes) + 1 \/
                LET next == i + LogoWordsInput(bytes[i])
                IN  next \in 1 .. Len(bytes) + 1 /\ Ends[next]
        tuples == From[1]
    IN  IF Ends[1]
        THEN FlattenSeq([n \in DOMAIN tuples |->
                            LogoColorTuple(color_table, background, tuples[n])])
        ELSE Runaway
=============================================================================
