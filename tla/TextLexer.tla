------------------------------ MODULE TextLexer ------------------------------
(* The lexer of the text compiler (rescompiler/textcompiler, lexer.c).  It    *)
(* reads a file of string entries, each a C data identifier, a C length       *)
(* identifier and the text:                                                   *)
(*     { .identifier_data = x; .identifier_length = y; .text = "Tux"; }       *)
(* An iterator removes newlines; a state machine takes the other characters   *)
(* one at a time, one state function a character.  A string is not copied:    *)
(* each of its three fields is a slice of the file, begun at its first        *)
(* character and then only counted up.                                        *)
(*                                                                            *)
(* Lines and columns, which only an error message shows, are left out.        *)
EXTENDS Integers, Characters, FiniteSetsExt

CONSTANTS
    MaxText,    \* 255, the longest text
    Spelling    \* the names of the fields, as sequences of characters

Fields == {"identifier_data", "identifier_length", "text"}

ASSUME TextLexerAssumption ==
    MaxText \in Nat \ {0} /\ DOMAIN Spelling = Fields

(* tux64_textcompiler_lexer_fsm_string_entry_character_is_valid               *)
Valid == CharactersIn(Upper \o Lower \o Digits) \cup {"%", ".", " "}

(* The hash of a name: a 32-bit word, rotated by a byte and exclusive-ored    *)
(* with each character.  A byte of it is the set of its bits.                 *)
NoHash == <<{}, {}, {}, {}>>
HashDigest(hash, c) ==
    LET bits == BitsOf(Code(c))
    IN  <<hash[2], hash[3], hash[4], (hash[1] \cup bits) \ (hash[1] \cap bits)>>
HashOf(name) ==
    LET From[i \in 1 .. Len(name) + 1, hash \in Seq(SUBSET (0 .. 7))] ==
            IF i > Len(name) THEN hash ELSE From[i + 1, HashDigest(hash, name[i])]
    IN  From[1, NoHash]

VARIABLES
    file,           \* the text file
    slice,          \* how many characters of it the iterator has passed
    func,           \* the state function to call next; "exited" at the end
    shared,         \* the union: the hash of a name, or the field that has it
    state_prev,     \* where the comment began
    string_array,   \* the strings, where their array is, and its capacity
    parse_status,   \* what the last state function returned
    irregular       \* was a newline inside a value, or a field given twice?

memory == <<shared, state_prev, string_array>>
lexerVars == <<file, slice, func, memory, parse_status, irregular>>

NoValue == [ptr |-> 0, characters |-> 0]
NewString == [field \in Fields |-> NoValue]

(* What a string is after the array that held it was lost.                    *)
Lost == [field \in Fields |-> [ptr |-> -1, characters |-> -1]]

LexerInit ==
    /\ file = <<>> /\ slice = 0 /\ func = "exited" /\ shared = NoHash /\ state_prev = "initial"
    /\ string_array = [strings |-> <<>>, ptr |-> "null", capacity |-> 0]
    /\ parse_status = "ok" /\ irregular = FALSE

(* tux64_textcompiler_lexer_fsm_initialize, for which there is memory         *)
LexerBegin ==
    /\ string_array' = [strings |-> <<>>, ptr |-> "live", capacity |-> 1]
    /\ func' = "initial"
    /\ UNCHANGED <<file, slice, shared, state_prev, parse_status, irregular>>
-----------------------------------------------------------------------------
(* The iterator: the next character that is not a newline, or the end.        *)
Unread == {i \in slice + 1 .. Len(file) : file[i] # "\n"}
EndOfFile == Unread = {}
Next1 == IF EndOfFile THEN Len(file) ELSE Min(Unread)
Reads(characters) == ~EndOfFile /\ file[Next1] \in characters
ReadsOther(characters) == ~EndOfFile /\ file[Next1] \notin characters

Top == Len(string_array.strings)
Value == string_array.strings[Top][shared]
SetValue(value) == string_array' = [string_array EXCEPT !.strings[Top][shared] = value]

(* What misleads the lexer: a slice counts on past a newline as if it were    *)
(* not there, and past the characters of the field's first value.             *)
Misled ==
    \/ func \in {"value_identifier", "value_text"} /\ Next1 > slice + 1
    \/ func = "wait_value" /\ Value.characters # 0

(* A call of a state function, and its ways to return.  The definitions named *)
(* Faulty... are variants with a plausible bug; this one does not advance.    *)
FaultyIterate(state) ==
    /\ func = state /\ slice' = slice /\ irregular' = (irregular \/ Misled)
    /\ UNCHANGED file

Iterate(state) ==
    /\ func = state
    /\ slice' = Next1 /\ irregular' = (irregular \/ Misled)
    /\ UNCHANGED file
Return(state, status) == func' = state /\ parse_status' = status
Goto(state) == Return(state, "ok") /\ UNCHANGED memory
Exit(status) == Return("exited", status) /\ UNCHANGED memory
-----------------------------------------------------------------------------
(* The array grows whenever it is not about to be full, where the author      *)
(* meant when it is.  Where that fails, the old array and what it holds are   *)
(* lost, and the status goes nowhere: the state has not exited, so the loop   *)
(* calls it again.  The next string may then be written to a null pointer.    *)
Grows == Top # string_array.capacity - 1

SetNewStringEntry ==
    LET capacity == string_array.capacity * (IF Grows THEN 2 ELSE 1)
        pushed == [strings |-> Append(string_array.strings, NewString), ptr |-> "live",
                   capacity |-> capacity]
    IN  /\ \/ (Grows \/ string_array.ptr = "live")
              /\ string_array' = pushed /\ Return("entry_initial", "ok")
           \/ Grows
              /\ string_array' = [strings |-> [i \in 1 .. Top |-> Lost], ptr |-> "null",
                                  capacity |-> capacity]
              /\ Return("initial", "out_of_memory")
           \/ ~Grows /\ string_array.ptr = "null"
              /\ Return("crashed", "ok") /\ UNCHANGED string_array
        /\ UNCHANGED <<shared, state_prev>>

SetCommentStart ==
    /\ state_prev' = func /\ Return("comment_start", "ok")
    /\ UNCHANGED <<shared, string_array>>

SetFinalizeStringEntry ==
    \/ /\ \A field \in Fields : string_array.strings[Top][field].characters # 0
       /\ Goto("initial")
    \/ /\ \E field \in Fields : string_array.strings[Top][field].characters = 0
       /\ Exit("missing_required_field")

SetStringEntryIdentifier ==
    /\ shared' = NoHash /\ Return("identifier", "ok")
    /\ UNCHANGED <<state_prev, string_array>>

DigestIdentifierCharacter ==
    /\ shared' = HashDigest(shared, file[Next1]) /\ Return("identifier", "ok")
    /\ UNCHANGED <<state_prev, string_array>>

(* The name is over: whose hash is it?                                        *)
SetStringEntryPostIdentifier(next_state) ==
    \/ \E field \in Fields :
        /\ shared = HashOf(Spelling[field])
        /\ shared' = field /\ Return(next_state, "ok")
        /\ UNCHANGED <<state_prev, string_array>>
    \/ /\ \A field \in Fields : shared # HashOf(Spelling[field])
       /\ Exit("unknown_field")

(* The value of an identifier.  One that begins with a quote is an error that *)
(* does not exit, so the quote is passed over.                                *)
DigestValueIdentifierCharacter(value) ==
    \/ Reads(Whitespace) /\ value.characters # 0 /\ Goto("value_wait_newline")
    \/ Reads({";"}) /\ value.characters # 0 /\ Goto("entry_initial")
    \/ Reads(Whitespace \cup {";"}) /\ value.characters = 0 /\ Exit("missing_value")
    \/ Reads({"{", "}", "/", "*", Quote}) /\ Exit("malformed_field")
    \/ /\ ReadsOther(Whitespace \cup {";", "{", "}", "/", "*", Quote})
       /\ SetValue([value EXCEPT !.characters = @ + 1]) /\ Return("value_identifier", "ok")
       /\ UNCHANGED <<shared, state_prev>>

SetValueIdentifier ==
    LET value == [Value EXCEPT !.ptr = Next1]
    IN  \/ /\ Reads({Quote})
           /\ SetValue(value) /\ Return("wait_value", "incorrect_type_identifier")
           /\ UNCHANGED <<shared, state_prev>>
        \/ ReadsOther({Quote}) /\ DigestValueIdentifierCharacter(value)

(* The value of a text begins after the quote.                                *)
FaultySetValueText ==
    /\ SetValue([Value EXCEPT !.ptr = Next1]) /\ Return("value_text", "ok")
    /\ UNCHANGED <<shared, state_prev>>

StartValueText ==
    /\ SetValue([Value EXCEPT !.ptr = Next1 + 1]) /\ Return("value_text", "ok")
    /\ UNCHANGED <<shared, state_prev>>

SetValueText ==
    \/ Reads({Quote}) /\ StartValueText
    \/ Reads({"="}) /\ Exit("malformed_field")
    \/ ReadsOther({Quote, "="}) /\ Exit("incorrect_type_text")

SetValueTextExit ==
    \/ Value.characters = 0 /\ Exit("string_value_empty")
    \/ Value.characters # 0 /\ Goto("value_wait_newline")

DigestValueTextCharacter ==
    /\ SetValue([Value EXCEPT !.characters = @ + 1]) /\ Return("value_text", "ok")
    /\ UNCHANGED <<shared, state_prev>>
-----------------------------------------------------------------------------
(* The state functions.                                                       *)
StateInitial ==
    /\ Iterate("initial")
    /\ \/ EndOfFile /\ Exit(IF Top = 0 THEN "empty_file" ELSE "ok")
       \/ Reads(Whitespace) /\ Goto("initial")
       \/ Reads({"{"}) /\ SetNewStringEntry
       \/ Reads({"/"}) /\ SetCommentStart
       \/ Reads({"*"}) /\ Exit("comment_end_unmatched")
       \/ ReadsOther(Whitespace \cup {"{", "/", "*"}) /\ Exit("string_entry_malformed")

StateCommentStart ==
    /\ Iterate("comment_start")
    /\ \/ Reads({"*"}) /\ Goto("comment")
       \/ ~Reads({"*"}) /\ Exit("comment_start_invalid")

StateComment ==
    /\ Iterate("comment")
    /\ \/ EndOfFile /\ Exit("comment_unterminated")
       \/ Reads({"*"}) /\ Goto("comment_end")
       \/ ReadsOther({"*"}) /\ Goto("comment")

StateCommentEnd ==
    /\ Iterate("comment_end")
    /\ \/ EndOfFile /\ Exit("comment_unterminated")
       \/ Reads({"/"}) /\ Goto(state_prev)
       \/ Reads({"*"}) /\ Goto("comment_end")
       \/ ReadsOther({"/", "*"}) /\ Goto("comment")

StateStringEntryInitial ==
    /\ Iterate("entry_initial")
    /\ \/ EndOfFile /\ Exit("string_entry_unterminated")
       \/ Reads(Whitespace) /\ Goto("entry_initial")
       \/ Reads({"/"}) /\ SetCommentStart
       \/ Reads({"*"}) /\ Exit("comment_end_unmatched")
       \/ Reads({"."}) /\ SetStringEntryIdentifier
       \/ Reads({"=", ";"}) /\ Exit("missing_identifier")
       \/ Reads({"}"}) /\ SetFinalizeStringEntry
       \/ ReadsOther(Whitespace \cup {"/", "*", ".", "=", ";", "}"}) /\ Exit("malformed_field")

StateStringEntryIdentifier ==
    /\ Iterate("identifier")
    /\ \/ (EndOfFile \/ Reads({";"})) /\ Exit("missing_separator")
       \/ Reads(Whitespace) /\ SetStringEntryPostIdentifier("wait_separator")
       \/ Reads({"="}) /\ SetStringEntryPostIdentifier("wait_value")
       \/ Reads({"{", "}", "/", "*", ".", Quote}) /\ Exit("malformed_field")
       \/ /\ ReadsOther(Whitespace \cup {";", "=", "{", "}", "/", "*", ".", Quote})
          /\ DigestIdentifierCharacter

StateStringEntryWaitSeparator ==
    /\ Iterate("wait_separator")
    /\ \/ Reads(Whitespace) /\ Goto("wait_separator")
       \/ Reads({"="}) /\ Goto("wait_value")
       \/ ~Reads(Whitespace \cup {"="}) /\ Exit("missing_separator")

StateStringEntryWaitValue ==
    /\ Iterate("wait_value")
    /\ \/ (EndOfFile \/ Reads({";"})) /\ Exit("missing_value")
       \/ Reads(Whitespace) /\ Goto("wait_value")
       \/ Reads({"{", "}", "/", "*", "."}) /\ Exit("malformed_field")
       \/ /\ ReadsOther(Whitespace \cup {";", "{", "}", "/", "*", "."})
          /\ IF shared = "text" THEN SetValueText ELSE SetValueIdentifier

StateStringEntryValueIdentifier ==
    /\ Iterate("value_identifier")
    /\ \/ EndOfFile /\ Exit("missing_newline")
       \/ DigestValueIdentifierCharacter(Value)

StateStringEntryValueText ==
    /\ Iterate("value_text")
    /\ \/ EndOfFile /\ Exit("string_entry_unterminated")
       \/ Reads({Quote}) /\ SetValueTextExit
       \/ ReadsOther(Valid \cup {Quote}) /\ Exit("string_value_bad_character")
       \/ Reads(Valid) /\ Value.characters = MaxText /\ Exit("string_value_too_long")
       \/ Reads(Valid) /\ Value.characters # MaxText /\ DigestValueTextCharacter

StateStringEntryValueWaitNewline ==
    /\ Iterate("value_wait_newline")
    /\ \/ EndOfFile /\ Exit("missing_newline")
       \/ Reads(Whitespace) /\ Goto("value_wait_newline")
       \/ Reads({";"}) /\ Goto("entry_initial")
       \/ ReadsOther(Whitespace \cup {";"}) /\ Exit("malformed_field")

LexerStep ==
    \/ StateInitial \/ StateCommentStart \/ StateComment \/ StateCommentEnd
    \/ StateStringEntryInitial \/ StateStringEntryIdentifier \/ StateStringEntryWaitSeparator
    \/ StateStringEntryWaitValue \/ StateStringEntryValueIdentifier
    \/ StateStringEntryValueText \/ StateStringEntryValueWaitNewline
=============================================================================
