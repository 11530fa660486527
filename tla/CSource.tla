------------------------------ MODULE CSource ------------------------------
(* The C source the resource compilers generate: macros that list bytes.      *)
(* Each compiler first measures its output, allocates that much, and writes   *)
(* the output there, by functions of its own for each.                        *)
(*                                                                            *)
(* Output is a sequence of pieces, each a number of characters.  What the     *)
(* characters are matters for hexadecimal digits only: there value says of    *)
(* what number.                                                               *)
EXTENDS Characters

CONSTANT Prelude    \* the characters of the comment with the package's version

ASSUME CSourceAssumption == Prelude \in Nat

(* The lengths of the strings that are copied.                                *)
Length ==
    [define_prefix |-> 8, define_suffix |-> 3, uint8_prefix |-> 25, uint16_prefix |-> 26,
     suffix_newline |-> 6, suffix_final |-> 3, integer_prefix |-> 5, integer_suffix |-> 2,
     font_suffix_newline |-> 5, font_suffix_final |-> 2]

Text(characters) == <<[value |-> -1, characters |-> characters]>>
Hexadecimal(value, digits) == <<[value |-> value, characters |-> digits]>>

Written(output) == Total([i \in DOMAIN output |-> output[i].characters])
Values(output) ==
    FlattenSeq([i \in DOMAIN output |->
        IF output[i].value = -1 THEN <<>> ELSE <<output[i].value>>])

(* The entries of a list, all but the last with a comma.                      *)
Entries(values, prefix, digits, newline, final) ==
    FlattenSeq([i \in DOMAIN values |->
        Text(prefix) \o Hexadecimal(values[i], digits)
            \o Text(IF i = Len(values) THEN final ELSE newline)])

Define(identifier_characters) ==
    Text(Length.define_prefix) \o Text(identifier_characters) \o Text(Length.define_suffix)
=============================================================================
