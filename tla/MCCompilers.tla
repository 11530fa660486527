----------------------------- MODULE MCCompilers -----------------------------
(* Files of text that differ in one character from a good one, pictures of    *)
(* six tuples, fonts of four characters, and dumps.                           *)
EXTENDS Compilers

Argument(prefix, option, parameter) ==
    [prefix |-> prefix, option |-> option, parameter |-> parameter,
     text |-> IF prefix = "none" THEN parameter ELSE "-"]
Given(option, parameter) == Argument("long", option, parameter)
Files == <<Given("input", "x"), Given("output", "x")>>
MCCommandLines ==
    {<<>>, Files, Append(Files, Given("name", "long")),
     Files \o <<Given("name_color_table", "x"), Given("name_pixels", "long")>>,
     <<Given("input", "x")>>, <<Argument("none", "?", "x")>>, <<Argument("short", "help", "")>>,
     Files \o Files \o Files}
MCParameterCharacters == [x |-> 1, long |-> 5]

MCSpelling == [identifier_data |-> <<"d">>, identifier_length |-> <<"l">>, text |-> <<"t">>]
Data == <<".", "d", "=", "x", ";">>
DataLength == <<".", "l", " ", "=", " ", "y", " ", ";">>
TextField == <<".", "t", "=", "\"", "A", "%", "\"", ";">>
Entry == <<"{">> \o TextField \o Data \o DataLength \o <<"}">>
Comment == <<"/", "*", "*", "/">>
(* A length given twice, the second of which takes the first beyond the end.  *)
Repeated ==
    <<"{">> \o TextField \o Data \o <<".", "l", "=", "y", "y", "y", "y", "y", ";">>
        \o <<".", "l", "=", "y", ";", "}">>
Regular == Comment \o <<"{">> \o Data \o DataLength \o <<"\n">> \o TextField \o <<"}">>
Symbols == {" ", "\n", "{", "}", "/", "*", ".", "=", ";", "\"", "d", "t", "A", "_"}
MCTextFiles ==
    {Regular, Repeated, Entry \o <<"{">>, Entry \o <<"{", "{">>, Entry \o Entry \o Entry,
     Entry \o Comment \o Entry \o Entry \o Entry \o Entry,
     <<"{">> \o TextField \o TextField \o Data \o DataLength \o <<"}">>}
    \cup {ReplaceAt(Regular, i, c) : i \in DOMAIN Regular, c \in Symbols}
    \cup {InsertAt(Regular, i, c) : i \in DOMAIN Regular, c \in Symbols}
    \cup {SubSeq(Regular, 1, i) : i \in 0 .. Len(Regular)}

(* Two colours that are one when quantised, and more than the table holds.    *)
Transparent == <<255, 0, 0, 127>>
Red == <<255, 0, 0, 128>>
Teal == <<8, 16, 24, 255>>
Teal2 == <<15, 16, 24, 255>>
Blue == <<0, 0, 255, 255>>
MCImages ==
    LET tuples == {<<Transparent, Teal>>, <<Red, Teal>>, <<Teal2, Teal>>}
        plain == [i \in 1 .. ImagePixels |-> Teal]
    IN  {FlattenSeq(image) : image \in [1 .. PixelTuples -> tuples]}
        \cup {[plain EXCEPT ![2] = Red, ![i] = Blue] : i \in 4 .. ImagePixels}
        \cup {Append(plain, Red), <<>>}

MCFontImages ==
    LET black == [i \in 1 .. FontPixels |-> Black]
    IN  {black, [i \in 1 .. FontPixels |-> White], Append(black, White),
         [black EXCEPT ![1] = <<0, 0, 255>>]}
        \cup {[black EXCEPT ![i] = White] : i \in 1 .. FontPixels}

(* Dumps, with more status codes written after them, and an SRAM without one. *)
MCCpu ==
    [name \in CharactersIn(RegisterNames \o SpecialRegisterNames) |->
        IF name \in CharactersIn(RegisterNames) THEN IndexIn(RegisterNames, name)
        ELSE 100 + IndexIn(SpecialRegisterNames, name)]
Sram(words) == [i \in 1 .. words |-> <<"?", "?", "?", "?">>]
Dump(words, code, last) ==
    [sram |-> StatusCodeWrite(DumpToSram(Sram(words), code, MCCpu), last), cpu |-> MCCpu,
     code |-> <<"0", code>>, last |-> <<"0", last>>]
MCSrams ==
    {Dump(words, code, last) : words \in {38, 39, 41}, code \in {"A", "B"}, last \in {"A", "C"}}
    \cup {[sram |-> Sram(39), cpu |-> MCCpu, code |-> InvalidCode, last |-> InvalidCode]}
=============================================================================
