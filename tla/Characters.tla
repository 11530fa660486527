----------------------------- MODULE Characters -----------------------------
(* Characters, each a string of length one, and the classes of them that the  *)
(* library distinguishes (lib/src/tux64/string.c).                            *)
EXTENDS Integers, Sequences, SequencesExt

(* The characters of ASCII, from the codes 32 and 97 on.                      *)
Ascii32 ==
    <<" ", "!", "\"", "#", "$", "%", "&", "'", "(", ")", "*", "+", ",", "-",
      ".", "/", "0", "1", "2", "3", "4", "5", "6", "7", "8", "9", ":", ";",
      "<", "=", ">", "?", "@", "A", "B", "C", "D", "E", "F", "G", "H", "I",
      "J", "K", "L", "M", "N", "O", "P", "Q", "R", "S", "T", "U", "V", "W",
      "X", "Y", "Z", "[", "\\", "]", "^", "_">>
Ascii97 ==
    <<"a", "b", "c", "d", "e", "f", "g", "h", "i", "j", "k", "l", "m", "n",
      "o", "p", "q", "r", "s", "t", "u", "v", "w", "x", "y", "z", "{", "|",
      "}", "~">>

IndexIn(characters, c) == CHOOSE i \in DOMAIN characters : characters[i] = c
CharactersIn(string) == {string[i] : i \in DOMAIN string}
Total(lengths) == FoldLeft(LAMBDA sum, length : sum + length, 0, lengths)

Whitespace == {" ", "\t", "\n", "\r"}
Quote == "\""
Digits == <<"0", "1", "2", "3", "4", "5", "6", "7", "8", "9">>
Upper == SubSeq(Ascii32, 34, 59)
Lower == SubSeq(Ascii97, 1, 26)

Code(c) ==
    CASE c = "\t" -> 9
      [] c \in CharactersIn(Ascii32) -> 31 + IndexIn(Ascii32, c)
      [] c \in CharactersIn(Ascii97) -> 96 + IndexIn(Ascii97, c)

(* A byte as the set of the bits in it.                                       *)
BitsOf(byte) == {bit \in 0 .. 7 : (byte \div 2 ^ bit) % 2 = 1}
=============================================================================
