--------------------------- MODULE CompilersProofs ---------------------------
(***************************************************************************)
(* The three resource compilers and the SRAM dumper, for every command     *)
(* line, every file and every step that fails: their memory, the texts the *)
(* lexer cuts out of its file, the registers of a dump, that the output    *)
(* fits its buffer, and that it says what was read.                        *)
(***************************************************************************)
EXTENDS Compilers, LibraryProofs

(* The options each program reads, which its list requires. *)
Required ==
    CASE tool = "font" -> {"input", "output", "name"}
      [] tool = "image" -> {"input", "output", "name_pixels", "name_color_table"}
      [] OTHER -> {"input", "output"}

(* A parse that succeeds has given them. *)
LEMMA ParsedIsGiven ==
    ASSUME NEW arguments
    PROVE  /\ Parse(TextArguments, arguments).status = "ok" =>
                 {"input", "output"} \subseteq DOMAIN Parse(TextArguments, arguments).values
           /\ Parse(SramArguments, arguments).status = "ok" =>
                 {"input", "output"} \subseteq DOMAIN Parse(SramArguments, arguments).values
           /\ Parse(FontArguments, arguments).status = "ok" =>
                 {"input", "output", "name"}
                     \subseteq DOMAIN Parse(FontArguments, arguments).values
           /\ Parse(ImageArguments, arguments).status = "ok" =>
                 {"input", "output", "name_pixels", "name_color_table"}
                     \subseteq DOMAIN Parse(ImageArguments, arguments).values
<1>1. /\ TextArguments.required = <<"input", "output">> /\ IsList(TextArguments.required)
      /\ SramArguments.required = <<"input", "output">> /\ IsList(SramArguments.required)
      /\ FontArguments.required = <<"input", "output", "name">> /\ IsList(FontArguments.required)
      /\ ImageArguments.required = <<"input", "output", "name_pixels", "name_color_table">>
      /\ IsList(ImageArguments.required)
  BY DEF TextArguments, SramArguments, FontArguments, ImageArguments, List, IsList
<1>2. ASSUME Parse(TextArguments, arguments).status = "ok"
      PROVE  {"input", "output"} \subseteq DOMAIN Parse(TextArguments, arguments).values
  <2>. DEFINE given == DOMAIN Parse(TextArguments, arguments).values
  <2>1. \A i \in DOMAIN TextArguments.required : TextArguments.required[i] \in given
    BY <1>1, <1>2, RequiredIsGiven
  <2>. HIDE DEF given
  <2>2. {"input", "output"} \subseteq given
    BY <1>1, <2>1
  <2>. QED
    BY <2>2 DEF given
<1>3. ASSUME Parse(SramArguments, arguments).status = "ok"
      PROVE  {"input", "output"} \subseteq DOMAIN Parse(SramArguments, arguments).values
  <2>. DEFINE given == DOMAIN Parse(SramArguments, arguments).values
  <2>1. \A i \in DOMAIN SramArguments.required : SramArguments.required[i] \in given
    BY <1>1, <1>3, RequiredIsGiven
  <2>. HIDE DEF given
  <2>2. {"input", "output"} \subseteq given
    BY <1>1, <2>1
  <2>. QED
    BY <2>2 DEF given
<1>4. ASSUME Parse(FontArguments, arguments).status = "ok"
      PROVE  {"input", "output", "name"} \subseteq DOMAIN Parse(FontArguments, arguments).values
  <2>. DEFINE given == DOMAIN Parse(FontArguments, arguments).values
  <2>1. \A i \in DOMAIN FontArguments.required : FontArguments.required[i] \in given
    BY <1>1, <1>4, RequiredIsGiven
  <2>. HIDE DEF given
  <2>2. {"input", "output", "name"} \subseteq given
    BY <1>1, <2>1
  <2>. QED
    BY <2>2 DEF given
<1>5. ASSUME Parse(ImageArguments, arguments).status = "ok"
      PROVE  {"input", "output", "name_pixels", "name_color_table"}
                 \subseteq DOMAIN Parse(ImageArguments, arguments).values
  <2>. DEFINE given == DOMAIN Parse(ImageArguments, arguments).values
  <2>1. \A i \in DOMAIN ImageArguments.required : ImageArguments.required[i] \in given
    BY <1>1, <1>5, RequiredIsGiven
  <2>. HIDE DEF given
  <2>2. {"input", "output", "name_pixels", "name_color_table"} \subseteq given
    BY <1>1, <2>1
  <2>. QED
    BY <2>2 DEF given
<1>. QED
  BY <1>2, <1>3, <1>4, <1>5
-----------------------------------------------------------------------------
(* What is held at each step, and what each error leaves. *)

Working == {"load", "compile", "lex", "format", "save"}

ToolTypes ==
    /\ tool \in {"text", "image", "font", "sram"}
    /\ pc \in {"main", "display", "exit"} \cup Working
    /\ tool # "text" => pc # "lex"
    /\ heap \in [Allocations -> {"none", "live", "freed"}]
    /\ misuse \in BOOLEAN /\ reason \in {"ok", "not_found"}

OptionsGiven == pc \in Working => Required \subseteq DOMAIN parameters

(* The output is left by the image compiler without memory for the path, and by
   the font compiler whenever the save fails. *)
Leaks ==
    \/ tool = "image" /\ status = "out_of_memory"
    \/ tool = "font" /\ status \in Failures

HeapMatches ==
    /\ pc \in {"main", "load"} => Live = {}
    /\ pc = "compile" => Live = {"input"}
    /\ pc = "lex" => Live = {"input", "strings"}
    /\ pc = "format" => Live = (IF tool = "text" THEN {"input", "strings"} ELSE {})
    /\ pc = "save" => Live = (IF tool = "sram" THEN {} ELSE {"output"})
    /\ pc = "display" /\ tool = "text" /\ status = "lexer_parse_error" =>
          /\ "input" \in Live
          /\ ~Damaged => Live = {"input"}
    /\ pc = "display" /\ ~(tool = "text" /\ status = "lexer_parse_error") =>
          Live = {} \/ Leaks
    /\ pc = "exit" /\ status # "crashed" /\ ~Damaged => Live = {} \/ Leaks

(* Nothing is misused up to the formatter of the texts, which is only misled where the
   lexer was. *)
MisuseMatches ==
    /\ misuse =>
        \/ pc = "exit" /\ status = "crashed" /\ Damaged
        \/ pc = "exit" /\ tool # "font" /\ status = "fs_error" /\ reason = "ok"
        \/ pc \in {"save", "display", "exit"} /\ tool = "text" /\ irregular /\ ~Readable
    /\ tool = "font" /\ status = "fs_error" => reason = "not_found"

(* While the lexer runs.  The array is lost only after the first string, between
   two entries: the strings that are then in it are lost until the array is back. *)
EntryStates ==
    {"entry_initial", "identifier", "wait_separator", "wait_value", "value_identifier",
     "value_text", "value_wait_newline"}
CommentStates == {"comment_start", "comment", "comment_end"}
ValueStates == {"wait_separator", "wait_value", "value_identifier", "value_text"}
InEntry == func \in EntryStates \/ (func \in CommentStates /\ state_prev = "entry_initial")
Slice == [ptr : Int, characters : Int]

LexerTypes ==
    /\ file \in Seq(STRING) /\ slice \in 0 .. Len(file)
    /\ func \in {"initial", "exited", "crashed"} \cup EntryStates \cup CommentStates
    /\ state_prev \in {"initial", "entry_initial"}
    /\ string_array \in [strings : Seq([Fields -> Slice]), ptr : {"live", "null"}, capacity : Nat]
    /\ func \in ValueStates => shared \in Fields
    /\ InEntry => Top > 0

ArrayMatches ==
    /\ Top = 0 => string_array.capacity = 1 /\ string_array.ptr = "live"
    /\ string_array.ptr = "null" => ~InEntry /\ \A i \in 1 .. Top : string_array.strings[i] = Lost

(* The slices.  A string whose entry is closed has its three values in their place
   in the file, behind the iterator; in an entry, a field has its value, none yet, or
   the one that is being read, which ends where the iterator is. *)
Before(value) ==
    /\ value.ptr \in 2 .. slice + 1 /\ value.characters \in Nat /\ SliceEnd(value) \in Nat

Placed(field, value) ==
    /\ Before(value) /\ value.characters > 0 /\ SliceEnd(value) <= slice
    /\ IF field = "text" THEN Quoted(value) ELSE WholeWord(value)

ReadingStates == {"value_identifier", "value_text"}
Reading(n, field) == func \in ReadingStates /\ n = Top /\ field = shared

(* What an error leaves open is not written out. *)
Unfinished == InEntry \/ (func = "exited" /\ parse_status # "ok") \/ func = "crashed"

StringInv(n) ==
    \A field \in Fields :
        LET value == string_array.strings[n][field]
        IN  \/ Placed(field, value)
            \/ Unfinished /\ n = Top /\ value.characters = 0
            \/ Reading(n, field)
            \/ Unfinished /\ ~InEntry /\ n = Top

OrderInv(n) ==
    \A first, next \in Fields :
        LET value == string_array.strings[n][next]
        IN  value.characters # 0 \/ Reading(n, next) =>
                SliceEnd(string_array.strings[n - 1][first]) < value.ptr

ReadingInv ==
    /\ func \in ReadingStates =>
          /\ Before(Value) /\ SliceEnd(Value) = slice + 1
          /\ func = "value_text" <=> shared = "text"
    /\ func = "value_text" =>
          /\ file[Value.ptr - 1] = Quote
          /\ \A i \in Value.ptr .. slice : file[i] \in Valid
    /\ func = "value_identifier" =>
          /\ Value.characters > 0 /\ file[Value.ptr - 1] \in BeforeWord
          /\ \A i \in Value.ptr .. slice : file[i] \notin AfterWord
    /\ func = "wait_value" => slice > 0 /\ file[slice] \in BeforeWord

SlicesInv ==
    ~irregular =>
        /\ \A n \in 1 .. Top : string_array.strings[n] # Lost => StringInv(n)
        /\ \A n \in 2 .. Top :
              string_array.strings[n - 1] # Lost /\ string_array.strings[n] # Lost => OrderInv(n)
        /\ InEntry => string_array.strings[Top] # Lost
        /\ ReadingInv

TextInv ==
    /\ tool = "text" /\ pc \in {"lex", "format"} => SlicesInv
    /\ tool = "text" /\ pc = "format" => LexerTypes
    /\ tool = "text" /\ pc \in {"format", "save"} => func = "exited" /\ parse_status = "ok"
    /\ TextIsAsWritten

LexerFresh == file \in Seq(STRING) /\ slice = 0 /\ state_prev = "initial"

HeapInv ==
    /\ ToolTypes /\ OptionsGiven /\ HeapMatches /\ MisuseMatches
    /\ pc \in {"main", "load", "compile"} => LexerFresh
    /\ pc = "lex" => LexerTypes /\ ArrayMatches
-----------------------------------------------------------------------------
(* The steps of the lexer.                                                    *)


(* The iterator passes newlines only, and no character twice. *)
LEMMA IteratorAdvances ==
    ASSUME file \in Seq(STRING), slice \in 0 .. Len(file)
    PROVE  /\ Next1 \in slice .. Len(file)
           /\ \A i \in slice + 1 .. Next1 - 1 : file[i] = "\n"
           /\ ~EndOfFile => Next1 > slice /\ file[Next1] # "\n"
<1>1. Len(file) \in Nat /\ slice \in Nat /\ Unread \subseteq Nat
  BY DEF Unread
<1>2. CASE EndOfFile
  BY <1>1, <1>2 DEF Next1, EndOfFile, Unread
<1>3. CASE ~EndOfFile
  <2>1. Min(Unread) \in Unread /\ \A i \in Unread : Min(Unread) <= i
    BY <1>1, <1>3, MinIsLeast DEF EndOfFile
  <2>. DEFINE least == Min(Unread)
  <2>2. Next1 = least
    BY <1>3 DEF Next1
  <2>. HIDE DEF least
  <2>3. least \in Unread /\ \A i \in Unread : least <= i
    BY <2>1 DEF least
  <2>4. least \in slice + 1 .. Len(file) /\ file[least] # "\n"
    BY <2>3 DEF Unread
  <2>5. \A i \in slice + 1 .. least - 1 : file[i] = "\n"
    <3>. SUFFICES ASSUME NEW i \in slice + 1 .. least - 1, file[i] # "\n" PROVE FALSE
      OBVIOUS
    <3>1. i \in Unread
      BY <1>1, <2>4 DEF Unread
    <3>. QED
      BY <1>1, <2>3, <2>4, <3>1
  <2>. QED
    BY <1>1, <1>3, <2>2, <2>4, <2>5
<1>. QED
  BY <1>2, <1>3

LexerInv == LexerTypes /\ ArrayMatches

(* A step is a call of the state function that is next, which advances the iterator. *)
LEMMA StepIterates ==
    ASSUME LexerTypes, LexerStep
    PROVE  /\ Iterate(func) /\ func \in {"initial"} \cup EntryStates \cup CommentStates
           /\ file' = file /\ slice' = Next1 /\ Next1 \in 0 .. Len(file) /\ Next1 \in Int
<1>1. Iterate(func) /\ func \in {"initial"} \cup EntryStates \cup CommentStates
  BY DEF LexerStep, StateInitial, StateCommentStart, StateComment, StateCommentEnd,
         StateStringEntryInitial, StateStringEntryIdentifier, StateStringEntryWaitSeparator,
         StateStringEntryWaitValue, StateStringEntryValueIdentifier, StateStringEntryValueText,
         StateStringEntryValueWaitNewline, Iterate, EntryStates, CommentStates
<1>. QED
  BY <1>1, IteratorAdvances DEF Iterate, LexerTypes

(* What keeps the array and its strings keeps the invariant, if the state that is
   next is outside the entries or was reached within one. *)
LEMMA UntouchedArray ==
    ASSUME LexerInv, LexerStep, UNCHANGED string_array,
           func' \in {"initial", "exited", "crashed"} \cup EntryStates \cup CommentStates,
           state_prev' \in {"initial", "entry_initial"},
           func' \in ValueStates => shared' \in Fields,
           InEntry' => InEntry
    PROVE  LexerInv'
<1>1. file' \in Seq(STRING) /\ slice' \in 0 .. Len(file')
  BY StepIterates DEF LexerInv, LexerTypes
<1>2. Top' = Top
  BY DEF Top
<1>3. LexerTypes'
  BY <1>1, <1>2 DEF LexerInv, LexerTypes
<1>4. ArrayMatches'
  BY <1>2 DEF LexerInv, ArrayMatches
<1>. QED
  BY <1>3, <1>4 DEF LexerInv

(* What counting a slice up, or beginning one, changes: there is an entry. *)
LEMMA SetValueGives ==
    ASSUME LexerInv, func \in ValueStates, NEW value \in Slice, SetValue(value)
    PROVE  /\ shared \in Fields /\ Top' = Top /\ Top > 0 /\ InEntry /\ Top \in Nat
           /\ string_array.ptr = "live"
           /\ string_array' \in [strings : Seq([Fields -> Slice]), ptr : {"live"}, capacity : Nat]
           /\ string_array'.capacity = string_array.capacity
           /\ \A n \in 1 .. Top, field \in Fields :
                 /\ n # Top => string_array'.strings[n] = string_array.strings[n]
                 /\ string_array'.strings[n][field] =
                        (IF n = Top /\ field = shared THEN value
                         ELSE string_array.strings[n][field])
<1>1. /\ string_array \in [strings : Seq([Fields -> Slice]), ptr : {"live", "null"}, capacity : Nat]
      /\ shared \in Fields /\ Top > 0 /\ InEntry
  BY DEF LexerInv, LexerTypes, InEntry, EntryStates, ValueStates
<1>. DEFINE strings == string_array.strings
            touched == [strings[Top] EXCEPT ![shared] = value]
<1>2. strings \in Seq([Fields -> Slice]) /\ Top = Len(strings) /\ Top \in 1 .. Len(strings)
  BY <1>1 DEF Top
<1>3. string_array' = [string_array EXCEPT !.strings = [strings EXCEPT ![Top] = touched]]
  BY DEF SetValue
<1>4. strings[Top] \in [Fields -> Slice]
  BY <1>2, ElementOfSeq, Zenon
<1>5. touched \in [Fields -> Slice]
  <2>. HIDE DEF strings
  <2>. QED
    BY <1>4
<1>6. \A field \in Fields : touched[field] = (IF field = shared THEN value ELSE strings[Top][field])
  <2>. HIDE DEF strings
  <2>. QED
    BY <1>4
<1>. HIDE DEF touched
<1>7. /\ string_array'.strings = [strings EXCEPT ![Top] = touched]
      /\ string_array'.ptr = string_array.ptr /\ string_array'.capacity = string_array.capacity
      /\ string_array' = [strings |-> string_array'.strings, ptr |-> string_array'.ptr,
                          capacity |-> string_array'.capacity]
  BY <1>1, <1>3
<1>8. string_array'.strings \in Seq([Fields -> Slice]) /\ Top' = Top
  BY <1>2, <1>5, <1>7 DEF Top
<1>9. string_array.ptr = "live"
  BY <1>1 DEF LexerInv, ArrayMatches
<1>10. \A n \in 1 .. Top :
          string_array'.strings[n] = (IF n = Top THEN touched ELSE string_array.strings[n])
  BY <1>2, <1>7
<1>11. \A n \in 1 .. Top, field \in Fields :
          string_array'.strings[n][field] = (IF n = Top /\ field = shared THEN value
                                             ELSE string_array.strings[n][field])
  <2>. TAKE n \in 1 .. Top, field \in Fields
  <2>1. CASE n = Top
    BY <1>6, <1>10, <2>1
  <2>2. CASE n # Top
    BY <1>10, <2>2
  <2>. QED
    BY <2>1, <2>2
<1>. HIDE DEF strings
<1>12. string_array' \in [strings : Seq([Fields -> Slice]), ptr : {"live"}, capacity : Nat]
  BY <1>1, <1>7, <1>8, <1>9
<1>. QED
  BY <1>1, <1>2, <1>7, <1>8, <1>9, <1>10, <1>11, <1>12

LEMMA TouchedValue ==
    ASSUME LexerInv, LexerStep, func \in ValueStates, NEW value \in Slice, SetValue(value),
           UNCHANGED <<shared, state_prev>>, func' \in EntryStates
    PROVE  LexerInv'
<1>1. file' \in Seq(STRING) /\ slice' \in 0 .. Len(file')
  BY StepIterates DEF LexerInv, LexerTypes
<1>2. LexerTypes'
  BY <1>1, SetValueGives DEF LexerInv, LexerTypes, InEntry
<1>3. ArrayMatches'
  BY SetValueGives DEF ArrayMatches
<1>. QED
  BY <1>2, <1>3 DEF LexerInv

LEMMA NewEntryKeeps ==
    ASSUME LexerInv, LexerStep, func = "initial", SetNewStringEntry
    PROVE  LexerInv'
<1>1. file' \in Seq(STRING) /\ slice' \in 0 .. Len(file')
  BY StepIterates DEF LexerInv, LexerTypes
<1>. DEFINE strings == string_array.strings
            capacity == string_array.capacity * (IF Grows THEN 2 ELSE 1)
<1>2. /\ strings \in Seq([Fields -> Slice]) /\ Top = Len(strings) /\ Top \in Nat
      /\ capacity \in Nat /\ UNCHANGED <<shared, state_prev>>
      /\ state_prev \in {"initial", "entry_initial"}
      /\ string_array \in [strings : Seq([Fields -> Slice]), ptr : {"live", "null"}, capacity : Nat]
  BY DEF LexerInv, LexerTypes, Top, SetNewStringEntry
<1>3. NewString \in [Fields -> Slice] /\ Lost \in [Fields -> Slice]
  BY DEF NewString, NoValue, Lost, Slice
<1>4. CASE /\ string_array' = [strings |-> Append(strings, NewString), ptr |-> "live",
                               capacity |-> capacity]
           /\ Return("entry_initial", "ok")
  <2>1. Append(strings, NewString) \in Seq([Fields -> Slice])
        /\ Len(Append(strings, NewString)) = Top + 1
    BY <1>2, <1>3
  <2>2. Top' = Top + 1
    BY <1>4, <2>1 DEF Top
  <2>. HIDE DEF strings, capacity
  <2>. QED
    BY <1>1, <1>2, <1>4, <2>1, <2>2
       DEF Return, LexerInv, LexerTypes, ArrayMatches, InEntry, EntryStates, ValueStates,
           CommentStates
<1>5. CASE /\ Grows
           /\ string_array' = [strings |-> [i \in 1 .. Top |-> Lost], ptr |-> "null",
                               capacity |-> capacity]
           /\ Return("initial", "out_of_memory")
  <2>1. Top # 0
    BY <1>5 DEF Grows, LexerInv, ArrayMatches
  <2>2. [i \in 1 .. Top |-> Lost] \in Seq([Fields -> Slice]) /\ Len([i \in 1 .. Top |-> Lost]) = Top
    BY <1>2, <1>3
  <2>3. Top' = Top
    BY <1>5, <2>2 DEF Top
  <2>4. LexerTypes'
    <3>. HIDE DEF strings, capacity
    <3>. QED
      BY <1>1, <1>2, <1>5, <2>2, <2>3
         DEF Return, LexerTypes, InEntry, EntryStates, ValueStates, CommentStates
  <2>5. string_array'.ptr = "null" /\ \A i \in 1 .. Top' : string_array'.strings[i] = Lost
    BY <1>5, <2>3
  <2>. QED
    BY <1>5, <2>1, <2>3, <2>4, <2>5
       DEF Return, LexerInv, ArrayMatches, InEntry, EntryStates, CommentStates
<1>6. CASE Return("crashed", "ok") /\ UNCHANGED string_array
  BY <1>2, <1>6, UntouchedArray
     DEF Return, InEntry, EntryStates, ValueStates, CommentStates
<1>. QED
  BY <1>4, <1>5, <1>6, Zenon DEF SetNewStringEntry

LEMMA ValueIdentifierKeeps ==
    ASSUME LexerInv, LexerStep, func \in {"wait_value", "value_identifier"}, NEW value \in Slice,
           DigestValueIdentifierCharacter(value)
    PROVE  LexerInv'
<1>1. shared \in Fields /\ state_prev \in {"initial", "entry_initial"} /\ InEntry
  BY DEF LexerInv, LexerTypes, ValueStates, InEntry, EntryStates
<1>2. CASE /\ UNCHANGED memory
           /\ func' \in {"value_wait_newline", "entry_initial", "exited"}
  BY <1>1, <1>2, UntouchedArray
     DEF memory, InEntry, EntryStates, ValueStates, CommentStates
<1>3. CASE /\ SetValue([value EXCEPT !.characters = @ + 1]) /\ func' = "value_identifier"
           /\ UNCHANGED <<shared, state_prev>>
  <2>1. [value EXCEPT !.characters = @ + 1] \in Slice
    BY DEF Slice
  <2>. QED
    BY <1>3, <2>1, TouchedValue DEF EntryStates, ValueStates
<1>. QED
  BY <1>2, <1>3 DEF DigestValueIdentifierCharacter, Goto, Exit, Return

LEMMA ValueTyped ==
    ASSUME LexerTypes, func \in ValueStates
    PROVE  Value \in Slice
<1>1. /\ string_array.strings \in Seq([Fields -> Slice]) /\ shared \in Fields
      /\ Top \in 1 .. Len(string_array.strings)
  BY DEF LexerTypes, ValueStates, InEntry, EntryStates, Top
<1>2. string_array.strings[Top] \in [Fields -> Slice]
  BY <1>1, ElementOfSeq, Zenon
<1>. QED
  BY <1>1, <1>2 DEF Value

LEMMA WaitValueKeeps ==
    ASSUME LexerInv, LexerStep, func = "wait_value", SetValueText \/ SetValueIdentifier
    PROVE  LexerInv'
<1>1. /\ shared \in Fields /\ state_prev \in {"initial", "entry_initial"} /\ InEntry
      /\ Value \in Slice /\ Next1 \in Int
  BY StepIterates, ValueTyped DEF LexerInv, LexerTypes, InEntry, EntryStates, ValueStates
<1>2. [Value EXCEPT !.ptr = Next1] \in Slice /\ [Value EXCEPT !.ptr = Next1 + 1] \in Slice
  BY <1>1 DEF Slice
<1>3. CASE UNCHANGED memory /\ func' = "exited"
  BY <1>1, <1>3, UntouchedArray
     DEF memory, InEntry, EntryStates, ValueStates, CommentStates
<1>4. CASE StartValueText
  BY <1>2, <1>4, TouchedValue DEF StartValueText, Return, EntryStates, ValueStates
<1>5. CASE /\ SetValue([Value EXCEPT !.ptr = Next1]) /\ func' = "wait_value"
           /\ UNCHANGED <<shared, state_prev>>
  BY <1>2, <1>5, TouchedValue DEF EntryStates, ValueStates
<1>6. CASE DigestValueIdentifierCharacter([Value EXCEPT !.ptr = Next1])
  BY <1>2, <1>6, ValueIdentifierKeeps
<1>. QED
  BY <1>3, <1>4, <1>5, <1>6 DEF SetValueText, SetValueIdentifier, Exit, Return

LEMMA LexerKeeps == LexerInv /\ LexerStep => LexerInv'
<1>. SUFFICES ASSUME LexerInv, LexerStep PROVE LexerInv'
  OBVIOUS
<1>1. /\ state_prev \in {"initial", "entry_initial"}
      /\ func \in ValueStates => shared \in Fields
  BY DEF LexerInv, LexerTypes
<1>2. CASE StateInitial
  <2>1. CASE SetNewStringEntry
    BY <1>2, <2>1, NewEntryKeeps DEF StateInitial, Iterate
  <2>2. CASE SetCommentStart
    BY <1>1, <1>2, <2>2, UntouchedArray
       DEF StateInitial, Iterate, SetCommentStart, Return, InEntry, EntryStates, ValueStates,
           CommentStates
  <2>3. CASE UNCHANGED memory /\ func' \in {"initial", "exited"}
    BY <1>1, <1>2, <2>3, UntouchedArray
       DEF memory, InEntry, EntryStates, ValueStates, CommentStates
  <2>. QED
    BY <1>2, <2>1, <2>2, <2>3 DEF StateInitial, Goto, Exit, Return
<1>3. CASE StateCommentStart \/ StateComment \/ StateCommentEnd
  <2>1. UNCHANGED memory /\ func' \in {state_prev, "exited"} \cup CommentStates
    BY <1>3 DEF StateCommentStart, StateComment, StateCommentEnd, Goto, Exit, Return, CommentStates
  <2>2. func \in CommentStates
    BY <1>3 DEF StateCommentStart, StateComment, StateCommentEnd, Iterate, CommentStates
  <2>. QED
    BY <1>1, <2>1, <2>2, UntouchedArray
       DEF memory, InEntry, EntryStates, ValueStates, CommentStates
<1>4. CASE StateStringEntryInitial
  <2>1. func = "entry_initial" /\ UNCHANGED string_array
    BY <1>4 DEF StateStringEntryInitial, Iterate, Goto, Exit, SetCommentStart,
                SetStringEntryIdentifier, SetFinalizeStringEntry, memory
  <2>2. \/ UNCHANGED state_prev /\ func' \in {"initial", "entry_initial", "identifier", "exited"}
        \/ state_prev' = "entry_initial" /\ func' = "comment_start"
    BY <1>4, <2>1
       DEF StateStringEntryInitial, Goto, Exit, Return, SetCommentStart,
           SetStringEntryIdentifier, SetFinalizeStringEntry, memory
  <2>. QED
    BY <1>1, <2>1, <2>2, UntouchedArray DEF InEntry, EntryStates, ValueStates, CommentStates
<1>5. CASE StateStringEntryIdentifier
  <2>1. func = "identifier" /\ UNCHANGED <<string_array, state_prev>>
    BY <1>5 DEF StateStringEntryIdentifier, Iterate, Goto, Exit, SetStringEntryPostIdentifier,
                DigestIdentifierCharacter, memory
  <2>2. \/ func' \in {"identifier", "exited"}
        \/ func' \in {"wait_separator", "wait_value"} /\ shared' \in Fields
    BY <1>5 DEF StateStringEntryIdentifier, Exit, Return, SetStringEntryPostIdentifier,
                DigestIdentifierCharacter
  <2>. QED
    BY <1>1, <2>1, <2>2, UntouchedArray DEF InEntry, EntryStates, ValueStates, CommentStates
<1>6. CASE StateStringEntryWaitSeparator \/ StateStringEntryValueWaitNewline
  <2>1. UNCHANGED memory /\ func' \in {"entry_initial", "exited"} \cup EntryStates
    BY <1>6 DEF StateStringEntryWaitSeparator, StateStringEntryValueWaitNewline, Goto, Exit,
                Return, EntryStates
  <2>2. /\ func \in {"wait_separator", "value_wait_newline"}
        /\ func' \in ValueStates => func \in ValueStates
    BY <1>6 DEF StateStringEntryWaitSeparator, StateStringEntryValueWaitNewline, Iterate, Goto,
                Exit, Return, ValueStates
  <2>. QED
    BY <1>1, <2>1, <2>2, UntouchedArray DEF memory, InEntry, EntryStates, CommentStates
<1>7. CASE StateStringEntryWaitValue
  <2>1. CASE SetValueText \/ SetValueIdentifier
    BY <1>7, <2>1, WaitValueKeeps DEF StateStringEntryWaitValue, Iterate
  <2>2. CASE UNCHANGED memory /\ func' \in {"wait_value", "exited"}
    BY <1>1, <1>7, <2>2, UntouchedArray
       DEF StateStringEntryWaitValue, Iterate, memory, InEntry, EntryStates, ValueStates,
           CommentStates
  <2>. QED
    BY <1>7, <2>1, <2>2 DEF StateStringEntryWaitValue, Goto, Exit, Return
<1>8. CASE StateStringEntryValueIdentifier
  <2>1. func = "value_identifier" /\ Value \in Slice
    BY <1>8, ValueTyped DEF StateStringEntryValueIdentifier, Iterate, LexerInv, ValueStates
  <2>2. CASE DigestValueIdentifierCharacter(Value)
    BY <2>1, <2>2, ValueIdentifierKeeps
  <2>3. CASE Exit("missing_newline")
    BY <1>1, <2>1, <2>3, UntouchedArray
       DEF Exit, Return, memory, InEntry, EntryStates, ValueStates, CommentStates
  <2>. QED
    BY <1>8, <2>2, <2>3 DEF StateStringEntryValueIdentifier
<1>9. CASE StateStringEntryValueText
  <2>1. func = "value_text" /\ Value \in Slice
    BY <1>9, ValueTyped DEF StateStringEntryValueText, Iterate, LexerInv, ValueStates
  <2>2. CASE DigestValueTextCharacter
    <3>1. [Value EXCEPT !.characters = @ + 1] \in Slice
      BY <2>1 DEF Slice
    <3>. QED
      BY <2>1, <2>2, <3>1, TouchedValue
         DEF DigestValueTextCharacter, Return, EntryStates, ValueStates
  <2>3. CASE UNCHANGED memory /\ func' \in {"value_wait_newline", "exited"}
    BY <1>1, <2>1, <2>3, UntouchedArray
       DEF memory, InEntry, EntryStates, ValueStates, CommentStates
  <2>. QED
    BY <1>9, <2>2, <2>3 DEF StateStringEntryValueText, SetValueTextExit, Goto, Exit, Return
<1>. QED
  BY <1>2, <1>3, <1>4, <1>5, <1>6, <1>7, <1>8, <1>9 DEF LexerStep
-----------------------------------------------------------------------------
(* The slices.  A value in its place stays there while the iterator moves on. *)

LEMMA PlacedStays ==
    ASSUME LexerTypes, LexerStep, NEW n, NEW field,
           string_array'.strings[n][field] = string_array.strings[n][field],
           Placed(field, string_array.strings[n][field])
    PROVE  Placed(field, string_array.strings[n][field])'
<1>1. file' = file /\ slice \in Nat /\ slice' \in Nat /\ slice <= slice'
  BY StepIterates, IteratorAdvances DEF LexerTypes
<1>. DEFINE value == string_array.strings[n][field]
<1>2. Placed(field, value)
  OBVIOUS
<1>3. value' = value
  OBVIOUS
<1>. HIDE DEF value
<1>4. SliceEnd(value)' = SliceEnd(value)
  BY <1>3 DEF SliceEnd
<1>5. Before(value)'
  BY <1>1, <1>2, <1>3, <1>4 DEF Placed, Before
<1>6. Quoted(value)' <=> Quoted(value)
  BY <1>1, <1>3, <1>4 DEF Quoted
<1>7. WholeWord(value)' <=> WholeWord(value)
  BY <1>1, <1>3, <1>4 DEF WholeWord
<1>8. Placed(field, value)'
  BY <1>1, <1>2, <1>3, <1>4, <1>5, <1>6, <1>7 DEF Placed, Before
<1>. QED
  BY <1>8 DEF value

LEMMA NotIrregular ==
    ASSUME LexerTypes, LexerStep, ~irregular'
    PROVE  ~irregular /\ ~Misled
BY StepIterates DEF Iterate

(* Steps that leave the values alone, outside a value. *)
LEMMA SlicesStay ==
    ASSUME LexerInv, SlicesInv, LexerStep, UNCHANGED string_array,
           func \notin ReadingStates, func' \notin ReadingStates,
           Unfinished => Unfinished', InEntry' => InEntry,
           func' = "wait_value" => Next1 > 0 /\ file[Next1] \in BeforeWord
    PROVE  SlicesInv'
<1>. SUFFICES ASSUME ~irregular'
              PROVE  /\ \A n \in 1 .. Top' : (string_array.strings[n] # Lost => StringInv(n))'
                     /\ \A n \in 2 .. Top' :
                           (string_array.strings[n - 1] # Lost /\ string_array.strings[n] # Lost
                                => OrderInv(n))'
                     /\ (InEntry => string_array.strings[Top] # Lost)'
                     /\ ReadingInv'
  BY DEF SlicesInv
<1>1. ~irregular /\ LexerTypes /\ Top' = Top
  BY NotIrregular DEF LexerInv, Top
<1>2. ASSUME NEW n \in 1 .. Top', (string_array.strings[n] # Lost)' PROVE StringInv(n)'
  <2>1. StringInv(n)
    BY <1>1, <1>2 DEF SlicesInv
  <2>. SUFFICES ASSUME NEW field \in Fields
                PROVE  \/ Placed(field, string_array.strings[n][field])'
                       \/ (/\ Unfinished /\ n = Top
                           /\ string_array.strings[n][field].characters = 0)'
                       \/ (Unfinished /\ ~InEntry /\ n = Top)'
    BY DEF StringInv
  <2>2. CASE Placed(field, string_array.strings[n][field])
    BY <1>1, <2>2, PlacedStays
  <2>3. CASE Unfinished /\ n = Top /\ string_array.strings[n][field].characters = 0
    BY <1>1, <2>3
  <2>4. CASE Unfinished /\ ~InEntry /\ n = Top
    BY <1>1, <2>4
  <2>. QED
    BY <2>1, <2>2, <2>3, <2>4 DEF StringInv, Reading
<1>3. ASSUME NEW n \in 2 .. Top', (string_array.strings[n - 1] # Lost)',
             (string_array.strings[n] # Lost)'
      PROVE  OrderInv(n)'
  <2>1. OrderInv(n)
    BY <1>1, <1>3 DEF SlicesInv
  <2>. QED
    BY <2>1 DEF OrderInv, Reading, SliceEnd
<1>4. (InEntry => string_array.strings[Top] # Lost)'
  BY <1>1 DEF SlicesInv
<1>5. ReadingInv'
  BY <1>1, StepIterates DEF ReadingInv, ReadingStates
<1>. QED
  BY <1>2, <1>3, <1>4, <1>5

(* A step that ends a value has put it in its place, or ends with an error. *)
LEMMA SlicesEnd ==
    ASSUME LexerInv, SlicesInv, LexerStep, UNCHANGED <<string_array, shared>>,
           func \in ReadingStates, func' \notin ReadingStates \cup {"wait_value"},
           \/ func' = "exited" /\ parse_status' # "ok"
           \/ InEntry' /\ (~irregular' => Placed(shared, string_array.strings[Top][shared])')
    PROVE  SlicesInv'
<1>. SUFFICES ASSUME ~irregular'
              PROVE  /\ \A n \in 1 .. Top' : (string_array.strings[n] # Lost => StringInv(n))'
                     /\ \A n \in 2 .. Top' :
                           (string_array.strings[n - 1] # Lost /\ string_array.strings[n] # Lost
                                => OrderInv(n))'
                     /\ (InEntry => string_array.strings[Top] # Lost)'
                     /\ ReadingInv'
  BY DEF SlicesInv
<1>1. ~irregular /\ LexerTypes /\ Top' = Top /\ InEntry
  BY NotIrregular DEF LexerInv, Top, InEntry, ReadingStates, EntryStates
<1>2. ASSUME NEW n \in 1 .. Top', (string_array.strings[n] # Lost)' PROVE StringInv(n)'
  <2>1. StringInv(n)
    BY <1>1, <1>2 DEF SlicesInv
  <2>. SUFFICES ASSUME NEW field \in Fields
                PROVE  \/ Placed(field, string_array.strings[n][field])'
                       \/ (/\ Unfinished /\ n = Top
                           /\ string_array.strings[n][field].characters = 0)'
                       \/ (Unfinished /\ ~InEntry /\ n = Top)'
    BY DEF StringInv
  <2>2. Unfinished' /\ (~InEntry' <=> func' = "exited")
    BY DEF Unfinished, InEntry, EntryStates, CommentStates
  <2>3. CASE Placed(field, string_array.strings[n][field])
    BY <1>1, <2>3, PlacedStays
  <2>4. CASE n = Top /\ string_array.strings[n][field].characters = 0
    BY <1>1, <2>2, <2>4
  <2>5. CASE n = Top /\ field = shared
    BY <1>1, <2>2, <2>5
  <2>. QED
    BY <1>1, <2>1, <2>3, <2>4, <2>5 DEF StringInv, Reading
<1>3. ASSUME NEW n \in 2 .. Top', (string_array.strings[n - 1] # Lost)',
             (string_array.strings[n] # Lost)'
      PROVE  OrderInv(n)'
  <2>1. OrderInv(n)
    BY <1>1, <1>3 DEF SlicesInv
  <2>. QED
    BY <2>1 DEF OrderInv, Reading, SliceEnd
<1>4. (InEntry => string_array.strings[Top] # Lost)'
  BY <1>1 DEF SlicesInv
<1>5. ReadingInv'
  BY <1>1 DEF ReadingInv, ReadingStates
<1>. QED
  BY <1>2, <1>3, <1>4, <1>5

(* A step that begins a value behind the iterator, or counts one up. *)
LEMMA SlicesTouched ==
    ASSUME LexerInv, SlicesInv, LexerStep, func \in ValueStates,
           NEW value \in Slice, SetValue(value), UNCHANGED shared,
           func' \in ReadingStates \cup {"wait_value"},
           func' = "wait_value" => value.characters = 0,
           ~irregular' =>
               /\ ReadingInv' /\ value.characters >= 0
               /\ value.ptr > slice \/ (func \in ReadingStates /\ value.ptr = Value.ptr)
    PROVE  SlicesInv'
<1>. SUFFICES ASSUME ~irregular'
              PROVE  /\ \A n \in 1 .. Top' : (string_array.strings[n] # Lost => StringInv(n))'
                     /\ \A n \in 2 .. Top' :
                           (string_array.strings[n - 1] # Lost /\ string_array.strings[n] # Lost
                                => OrderInv(n))'
                     /\ (InEntry => string_array.strings[Top] # Lost)'
  BY DEF SlicesInv
<1>1. /\ ~irregular /\ LexerTypes /\ slice \in Nat
      /\ shared \in Fields /\ Top' = Top /\ Top > 0 /\ InEntry /\ Top \in Nat
      /\ \A n \in 1 .. Top, field \in Fields :
            /\ n # Top => string_array'.strings[n] = string_array.strings[n]
            /\ string_array'.strings[n][field] =
                   (IF n = Top /\ field = shared THEN value
                    ELSE string_array.strings[n][field])
  BY NotIrregular, SetValueGives DEF LexerInv, LexerTypes
<1>2. string_array.strings[Top] # Lost /\ InEntry' /\ Unfinished'
  BY <1>1 DEF SlicesInv, InEntry, Unfinished, ReadingStates, EntryStates
<1>3. string_array'.strings[Top] # Lost
  <2>1. string_array'.strings[Top][shared].characters >= 0
    BY <1>1
  <2>2. Lost[shared].characters = -1
    BY <1>1 DEF Lost
  <2>. QED
    BY <2>1, <2>2
<1>4. ASSUME NEW n \in 1 .. Top', (string_array.strings[n] # Lost)' PROVE StringInv(n)'
  <2>1. string_array.strings[n] # Lost
    BY <1>1, <1>2, <1>4
  <2>2. StringInv(n)
    BY <1>1, <1>4, <2>1 DEF SlicesInv
  <2>. SUFFICES ASSUME NEW field \in Fields
                PROVE  \/ Placed(field, string_array.strings[n][field])'
                       \/ (/\ Unfinished /\ n = Top
                           /\ string_array.strings[n][field].characters = 0)'
                       \/ Reading(n, field)'
    BY DEF StringInv
  <2>3. CASE n = Top /\ field = shared
    BY <1>1, <1>2, <2>3 DEF Reading
  <2>4. CASE ~(n = Top /\ field = shared)
    <3>1. string_array'.strings[n][field] = string_array.strings[n][field]
      BY <1>1, <2>4
    <3>2. CASE Placed(field, string_array.strings[n][field])
      BY <1>1, <3>1, <3>2, PlacedStays
    <3>3. CASE n = Top /\ string_array.strings[n][field].characters = 0
      BY <1>1, <1>2, <3>1, <3>3
    <3>. QED
      BY <1>1, <2>2, <2>4, <3>2, <3>3 DEF StringInv, Reading
  <2>. QED
    BY <2>3, <2>4
<1>5. ASSUME NEW n \in 2 .. Top', (string_array.strings[n - 1] # Lost)',
             (string_array.strings[n] # Lost)'
      PROVE  OrderInv(n)'
  <2>1. /\ n - 1 \in 1 .. Top /\ n - 1 # Top /\ n \in 1 .. Top
        /\ string_array'.strings[n - 1] = string_array.strings[n - 1]
        /\ string_array.strings[n - 1] # Lost /\ string_array.strings[n] # Lost
    BY <1>1, <1>2, <1>5
  <2>2. OrderInv(n) /\ StringInv(n - 1)
    BY <1>1, <1>5, <2>1 DEF SlicesInv
  <2>. SUFFICES ASSUME NEW first \in Fields, NEW next \in Fields,
                       string_array'.strings[n][next].characters # 0 \/ Reading(n, next)'
                PROVE  SliceEnd(string_array.strings[n - 1][first])
                            < string_array'.strings[n][next].ptr
    BY <2>1 DEF OrderInv, SliceEnd
  <2>3. CASE n = Top /\ next = shared
    <3>1. string_array'.strings[n][next] = value
      BY <1>1, <2>3
    <3>2. CASE value.ptr > slice
      <4>1. Placed(first, string_array.strings[n - 1][first])
        BY <2>1, <2>2 DEF StringInv, Reading
      <4>2. /\ SliceEnd(string_array.strings[n - 1][first]) \in Nat
            /\ SliceEnd(string_array.strings[n - 1][first]) <= slice
        BY <4>1 DEF Placed, Before
      <4>. QED
        BY <1>1, <3>1, <3>2, <4>2 DEF Slice
    <3>3. CASE func \in ReadingStates /\ value.ptr = Value.ptr
      BY <2>2, <2>3, <3>1, <3>3 DEF OrderInv, Reading, Value
    <3>. QED
      BY <3>2, <3>3
  <2>4. CASE ~(n = Top /\ next = shared)
    <3>1. string_array'.strings[n][next] = string_array.strings[n][next] /\ ~Reading(n, next)'
      BY <1>1, <2>1, <2>4 DEF Reading
    <3>. QED
      BY <2>2, <3>1 DEF OrderInv
  <2>. QED
    BY <2>3, <2>4
<1>. QED
  BY <1>1, <1>3, <1>4, <1>5

(* Between the entries every string that was not lost is complete. *)
LEMMA NewEntrySlices ==
    ASSUME LexerInv, SlicesInv, LexerStep, func = "initial", SetNewStringEntry
    PROVE  SlicesInv'
<1>. DEFINE strings == string_array.strings
<1>1. /\ strings \in Seq([Fields -> Slice]) /\ Top = Len(strings) /\ Top \in Nat
      /\ LexerTypes /\ ~Unfinished /\ ~InEntry /\ func \notin ReadingStates
  BY DEF LexerInv, LexerTypes, Top, Unfinished, InEntry, EntryStates, CommentStates, ReadingStates
<1>2. CASE string_array'.strings = Append(strings, NewString) /\ Return("entry_initial", "ok")
  <2>1. /\ Top' = Top + 1 /\ string_array'.strings[Top + 1] = NewString
        /\ \A n \in 1 .. Top : string_array'.strings[n] = strings[n]
    BY <1>1, <1>2 DEF Top
  <2>2. /\ func' = "entry_initial" /\ func' \notin ReadingStates /\ InEntry' /\ Unfinished'
        /\ NewString # Lost /\ \A field \in Fields : NewString[field].characters = 0
    <3>1. \A field \in Fields : NewString[field].characters = 0 /\ Lost[field].characters = -1
      BY DEF NewString, NoValue, Lost
    <3>2. "text" \in Fields
      BY DEF Fields
    <3>. QED
      BY <1>2, <3>1, <3>2 DEF Return, ReadingStates, InEntry, Unfinished, EntryStates
  <2>. SUFFICES ASSUME ~irregular'
                PROVE  /\ \A n \in 1 .. Top' : (string_array.strings[n] # Lost => StringInv(n))'
                       /\ \A n \in 2 .. Top' :
                             (string_array.strings[n - 1] # Lost /\ string_array.strings[n] # Lost
                                  => OrderInv(n))'
                       /\ (InEntry => string_array.strings[Top] # Lost)'
    BY <2>2 DEF SlicesInv, ReadingInv, ReadingStates
  <2>3. ~irregular
    BY <1>1, NotIrregular
  <2>4. ASSUME NEW n \in 1 .. Top', (string_array.strings[n] # Lost)' PROVE StringInv(n)'
    <3>1. CASE n = Top + 1
      BY <2>1, <2>2, <3>1 DEF StringInv
    <3>2. CASE n \in 1 .. Top
      <4>1. StringInv(n) /\ string_array'.strings[n] = string_array.strings[n]
        BY <2>1, <2>3, <2>4, <3>2 DEF SlicesInv
      <4>2. \A field \in Fields : Placed(field, string_array.strings[n][field])'
        BY <1>1, <4>1, PlacedStays DEF StringInv, Reading
      <4>. QED
        BY <4>2 DEF StringInv
    <3>. QED
      BY <1>1, <2>1, <3>1, <3>2
  <2>5. ASSUME NEW n \in 2 .. Top', (string_array.strings[n - 1] # Lost)',
               (string_array.strings[n] # Lost)'
        PROVE  OrderInv(n)'
    <3>1. CASE n = Top + 1
      BY <2>1, <2>2, <3>1 DEF OrderInv, Reading
    <3>2. CASE n \in 1 .. Top
      <4>1. /\ OrderInv(n) /\ string_array'.strings[n] = string_array.strings[n]
            /\ string_array'.strings[n - 1] = string_array.strings[n - 1]
        BY <1>1, <2>1, <2>3, <2>5, <3>2 DEF SlicesInv
      <4>. QED
        BY <2>2, <4>1 DEF OrderInv, Reading, SliceEnd
    <3>. QED
      BY <1>1, <2>1, <3>1, <3>2
  <2>. QED
    BY <2>1, <2>2, <2>4, <2>5
<1>3. CASE /\ string_array'.strings = [i \in 1 .. Top |-> Lost]
           /\ Return("initial", "out_of_memory")
  <2>1. Top' = Top /\ \A n \in 1 .. Top : string_array'.strings[n] = Lost
    BY <1>1, <1>3 DEF Top
  <2>2. ~InEntry' /\ func' \notin ReadingStates \cup {"wait_value"}
    BY <1>3 DEF Return, InEntry, EntryStates, CommentStates, ReadingStates
  <2>3. \A n \in 1 .. Top' : string_array'.strings[n] = Lost
    BY <2>1
  <2>4. \A n \in 2 .. Top' : n \in 1 .. Top'
    BY <1>1, <2>1
  <2>. QED
    BY <2>2, <2>3, <2>4 DEF SlicesInv, ReadingInv, ReadingStates
<1>4. CASE Return("crashed", "ok") /\ UNCHANGED string_array
  BY <1>1, <1>4, SlicesStay
     DEF Return, Unfinished, InEntry, EntryStates, CommentStates, ReadingStates
<1>5. \/ \E capacity : /\ string_array' = [strings |-> Append(strings, NewString), ptr |-> "live",
                                          capacity |-> capacity]
                      /\ Return("entry_initial", "ok")
      \/ \E capacity : /\ string_array' = [strings |-> [i \in 1 .. Top |-> Lost], ptr |-> "null",
                                          capacity |-> capacity]
                      /\ Return("initial", "out_of_memory")
      \/ Return("crashed", "ok") /\ UNCHANGED string_array
  BY Zenon DEF SetNewStringEntry
<1>6. \A array, pushed, capacity :
          array = [strings |-> pushed, ptr |-> "live", capacity |-> capacity]
              => array.strings = pushed
  OBVIOUS
<1>7. \A array, lost, capacity :
          array = [strings |-> lost, ptr |-> "null", capacity |-> capacity]
              => array.strings = lost
  OBVIOUS
<1>. QED
  BY <1>2, <1>3, <1>4, <1>5, <1>6, <1>7, Zenon

(* An entry is closed only with all of its values. *)
LEMMA FinalizeSlices ==
    ASSUME LexerInv, SlicesInv, LexerStep, func = "entry_initial", SetFinalizeStringEntry
    PROVE  SlicesInv'
<1>1. UNCHANGED string_array /\ func \notin ReadingStates /\ LexerTypes /\ Top' = Top /\ InEntry
  BY DEF SetFinalizeStringEntry, Goto, Exit, memory, ReadingStates, LexerInv, Top, InEntry,
         EntryStates
<1>2. CASE Exit("missing_required_field")
  BY <1>1, <1>2, SlicesStay
     DEF Exit, Return, Unfinished, InEntry, EntryStates, CommentStates, ReadingStates
<1>3. CASE /\ \A field \in Fields : string_array.strings[Top][field].characters # 0
           /\ func' = "initial"
  <2>1. ~InEntry' /\ func' \notin ReadingStates \cup {"wait_value"}
    BY <1>3 DEF InEntry, EntryStates, CommentStates, ReadingStates
  <2>. SUFFICES ASSUME ~irregular'
                PROVE  /\ \A n \in 1 .. Top' : (string_array.strings[n] # Lost => StringInv(n))'
                       /\ \A n \in 2 .. Top' :
                             (string_array.strings[n - 1] # Lost /\ string_array.strings[n] # Lost
                                  => OrderInv(n))'
    BY <2>1 DEF SlicesInv, ReadingInv, ReadingStates
  <2>2. ~irregular
    BY <1>1, NotIrregular
  <2>3. ASSUME NEW n \in 1 .. Top', (string_array.strings[n] # Lost)' PROVE StringInv(n)'
    <3>1. StringInv(n)
      BY <1>1, <2>2, <2>3 DEF SlicesInv
    <3>2. \A field \in Fields : Placed(field, string_array.strings[n][field])
      BY <1>1, <1>3, <3>1 DEF StringInv, Reading
    <3>3. \A field \in Fields : Placed(field, string_array.strings[n][field])'
      BY <1>1, <3>2, PlacedStays
    <3>. QED
      BY <3>3 DEF StringInv
  <2>4. ASSUME NEW n \in 2 .. Top', (string_array.strings[n - 1] # Lost)',
               (string_array.strings[n] # Lost)'
        PROVE  OrderInv(n)'
    <3>1. OrderInv(n)
      BY <1>1, <2>2, <2>4 DEF SlicesInv
    <3>. QED
      BY <1>1, <2>1, <3>1 DEF OrderInv, Reading, SliceEnd
  <2>. QED
    BY <2>3, <2>4
<1>. QED
  BY <1>2, <1>3 DEF SetFinalizeStringEntry, Goto, Return

(* While a value is read, the iterator takes the next character of the file. *)
LEMMA ReadingAdvances ==
    ASSUME LexerInv, SlicesInv, LexerStep, func \in ReadingStates, ~irregular', ~EndOfFile
    PROVE  /\ Next1 = slice + 1 /\ slice \in Nat /\ slice' = slice + 1 /\ file' = file
           /\ ReadingInv /\ Before(Value) /\ SliceEnd(Value) = slice + 1
           /\ Value \in Slice /\ shared \in Fields
<1>1. ~irregular /\ ~Misled /\ slice \in Nat /\ LexerTypes
  BY NotIrregular DEF LexerInv, LexerTypes
<1>2. Next1 \in Nat /\ Next1 > slice
  BY <1>1, IteratorAdvances DEF LexerTypes
<1>3. Next1 = slice + 1
  BY <1>1, <1>2 DEF Misled, ReadingStates
<1>4. slice' = Next1 /\ file' = file
  BY StepIterates DEF LexerInv
<1>5. ReadingInv
  BY <1>1 DEF SlicesInv
<1>6. Value \in Slice /\ shared \in Fields
  BY ValueTyped DEF LexerInv, LexerTypes, ValueStates, ReadingStates
<1>. QED
  BY <1>1, <1>3, <1>4, <1>5, <1>6 DEF ReadingInv

(* What a value that was set is then. *)
LEMMA ValueIsSet ==
    ASSUME LexerInv, func \in ValueStates, NEW value \in Slice, SetValue(value), UNCHANGED shared
    PROVE  Value' = value
BY SetValueGives DEF Value

(* The classes of characters that begin and end a word. *)
LEMMA ClassesAre ==
    /\ "\n" \in BeforeWord /\ "=" \in BeforeWord /\ Quote \in BeforeWord
    /\ Whitespace \subseteq BeforeWord /\ Whitespace \subseteq AfterWord /\ ";" \in AfterWord
    /\ \A c \in AfterWord : c \in Whitespace \/ c = ";"
BY Zenon DEF BeforeWord, AfterWord, Whitespace

LEMMA ReadsClasses ==
    /\ Reads(Whitespace) \/ Reads({";"}) => Reads(AfterWord)
    /\ Reads(Whitespace \cup {";"}) => Reads(AfterWord)
    /\ \A S : Whitespace \cup {";"} \subseteq S /\ ReadsOther(S) => ReadsOther(AfterWord)
    /\ Reads(Whitespace) => file[Next1] \in BeforeWord
    /\ Reads({"="}) => file[Next1] \in BeforeWord
    /\ Reads({Quote}) => file[Next1] \in BeforeWord
<1>1. Reads(Whitespace) \/ Reads({";"}) => Reads(AfterWord)
  BY Zenon DEF Reads, AfterWord
<1>2. Reads(Whitespace \cup {";"}) => Reads(AfterWord)
  BY Zenon DEF AfterWord
<1>3. \A S : Whitespace \cup {";"} \subseteq S /\ ReadsOther(S) => ReadsOther(AfterWord)
  BY Zenon DEF ReadsOther, AfterWord
<1>4. Reads(Whitespace) => file[Next1] \in BeforeWord
  BY Zenon DEF Reads, BeforeWord
<1>5. Reads({"="}) => file[Next1] \in BeforeWord
  BY Zenon DEF Reads, BeforeWord
<1>6. Reads({Quote}) => file[Next1] \in BeforeWord
  BY Zenon DEF Reads, BeforeWord
<1>. QED
  BY <1>1, <1>2, <1>3, <1>4, <1>5, <1>6

(* What reading a character of an identifier does. *)
LEMMA DigestIs ==
    ASSUME NEW value, DigestValueIdentifierCharacter(value)
    PROVE  \/ UNCHANGED memory /\ func' = "exited" /\ parse_status' # "ok"
           \/ /\ Reads(AfterWord) /\ value.characters # 0 /\ UNCHANGED memory
              /\ func' \in {"value_wait_newline", "entry_initial"}
           \/ /\ ReadsOther(AfterWord)
              /\ SetValue([value EXCEPT !.characters = @ + 1]) /\ func' = "value_identifier"
              /\ UNCHANGED <<shared, state_prev>>
<1>1. \/ Reads(Whitespace) /\ value.characters # 0 /\ Goto("value_wait_newline")
      \/ Reads({";"}) /\ value.characters # 0 /\ Goto("entry_initial")
      \/ Exit("missing_value") \/ Exit("malformed_field")
      \/ /\ ReadsOther(Whitespace \cup {";", "{", "}", "/", "*", Quote})
         /\ SetValue([value EXCEPT !.characters = @ + 1]) /\ Return("value_identifier", "ok")
         /\ UNCHANGED <<shared, state_prev>>
  BY Zenon DEF DigestValueIdentifierCharacter
<1>2. ReadsOther(Whitespace \cup {";", "{", "}", "/", "*", Quote}) => ReadsOther(AfterWord)
  BY ReadsClasses, Zenon
<1>. QED
  BY <1>1, <1>2, ReadsClasses DEF Goto, Exit, Return

LEMMA TextValueSlices ==
    ASSUME LexerInv, SlicesInv, LexerStep, StateStringEntryValueText
    PROVE  SlicesInv'
<1>1. func = "value_text" /\ func \in ReadingStates /\ func \in ValueStates /\ Value \in Slice
  BY ValueTyped
     DEF StateStringEntryValueText, Iterate, LexerInv, ReadingStates, ValueStates
<1>2. CASE /\ UNCHANGED memory /\ func' = "exited" /\ parse_status' # "ok"
  BY <1>1, <1>2, SlicesEnd DEF memory, ReadingStates
<1>3. CASE Reads({Quote}) /\ Value.characters # 0 /\ Goto("value_wait_newline")
  <2>1. /\ UNCHANGED <<string_array, shared>> /\ InEntry' /\ Value' = Value /\ Top' = Top
        /\ func' \notin ReadingStates \cup {"wait_value"}
    BY <1>3 DEF Goto, Return, memory, InEntry, EntryStates, ReadingStates, Value, Top
  <2>2. ASSUME ~irregular' PROVE Placed(shared, Value)'
    <3>1. /\ slice \in Nat /\ slice' = slice + 1 /\ file' = file /\ file[slice + 1] = Quote
          /\ ReadingInv /\ Before(Value) /\ SliceEnd(Value) = slice + 1 /\ shared \in Fields
      BY <1>1, <1>3, <2>2, ReadingAdvances DEF Reads
    <3>2. shared = "text" /\ Quoted(Value)
      BY <1>1, <3>1 DEF ReadingInv, Quoted
    <3>3. Before(Value)' /\ SliceEnd(Value)' = slice'
      BY <2>1, <3>1 DEF Before, SliceEnd
    <3>4. Quoted(Value)'
      BY <2>1, <3>1, <3>2 DEF Quoted, SliceEnd
    <3>5. Value.characters > 0
      BY <1>3, <3>1 DEF Before
    <3>. QED
      BY <2>1, <3>1, <3>2, <3>3, <3>4, <3>5 DEF Placed, Before
  <2>3. ~irregular' => Placed(shared, string_array.strings[Top][shared])'
    BY <2>2 DEF Value
  <2>. QED
    BY <1>1, <2>1, <2>3, SlicesEnd
<1>4. CASE Reads(Valid) /\ DigestValueTextCharacter
  <2>. DEFINE value == [Value EXCEPT !.characters = @ + 1]
  <2>1. value \in Slice /\ value.ptr = Value.ptr /\ value.characters = Value.characters + 1
    BY <1>1 DEF Slice
  <2>2. SetValue(value) /\ func' = "value_text" /\ UNCHANGED <<shared, state_prev>>
    BY <1>4 DEF DigestValueTextCharacter, Return
  <2>. HIDE DEF value
  <2>3. Value' = value
    BY <1>1, <2>1, <2>2, ValueIsSet DEF LexerInv
  <2>4. ASSUME ~irregular' PROVE ReadingInv' /\ value.characters >= 0
    <3>1. /\ slice \in Nat /\ slice' = slice + 1 /\ file' = file /\ file[slice + 1] \in Valid
          /\ ReadingInv /\ Before(Value) /\ SliceEnd(Value) = slice + 1 /\ shared \in Fields
      BY <1>1, <1>4, <2>4, ReadingAdvances DEF Reads
    <3>2. /\ shared = "text" /\ file[Value.ptr - 1] = Quote
          /\ \A i \in Value.ptr .. slice : file[i] \in Valid
      BY <1>1, <3>1 DEF ReadingInv
    <3>3. /\ Before(Value)' /\ SliceEnd(Value)' = slice' + 1
          /\ \A i \in Value.ptr .. slice + 1 : file[i] \in Valid
      BY <2>1, <2>3, <3>1, <3>2 DEF Before, SliceEnd
    <3>4. value.characters >= 0
      BY <2>1, <3>1 DEF Before
    <3>5. file'[Value'.ptr - 1] = Quote /\ \A i \in Value'.ptr .. slice' : file'[i] \in Valid
      BY <2>1, <2>3, <3>1, <3>2, <3>3
    <3>. QED
      BY <2>2, <3>2, <3>3, <3>4, <3>5 DEF ReadingInv, ReadingStates
  <2>5. func' \in ReadingStates
    BY <2>2 DEF ReadingStates
  <2>. QED
    BY <1>1, <2>1, <2>2, <2>4, <2>5, SlicesTouched
<1>. QED
  BY <1>2, <1>3, <1>4 DEF StateStringEntryValueText, SetValueTextExit, Exit, Return

LEMMA IdentifierValueSlices ==
    ASSUME LexerInv, SlicesInv, LexerStep, StateStringEntryValueIdentifier
    PROVE  SlicesInv'
<1>1. func = "value_identifier" /\ func \in ReadingStates /\ func \in ValueStates /\ Value \in Slice
  BY ValueTyped
     DEF StateStringEntryValueIdentifier, Iterate, LexerInv, ReadingStates, ValueStates
<1>2. CASE /\ UNCHANGED memory /\ func' = "exited" /\ parse_status' # "ok"
  BY <1>1, <1>2, SlicesEnd DEF memory, ReadingStates
<1>3. CASE /\ Reads(AfterWord) /\ Value.characters # 0 /\ UNCHANGED memory
           /\ func' \in {"value_wait_newline", "entry_initial"}
  <2>1. /\ UNCHANGED <<string_array, shared>> /\ InEntry' /\ Value' = Value /\ Top' = Top
        /\ func' \notin ReadingStates \cup {"wait_value"}
    BY <1>3 DEF memory, InEntry, EntryStates, ReadingStates, Value, Top
  <2>2. ASSUME ~irregular' PROVE Placed(shared, Value)'
    <3>1. /\ slice \in Nat /\ slice' = slice + 1 /\ file' = file
          /\ file[slice + 1] \in AfterWord
          /\ ReadingInv /\ Before(Value) /\ SliceEnd(Value) = slice + 1 /\ shared \in Fields
      BY <1>1, <1>3, <2>2, ReadingAdvances DEF Reads
    <3>2. shared # "text" /\ WholeWord(Value) /\ Value.characters > 0
      BY <1>1, <3>1 DEF ReadingInv, WholeWord
    <3>3. Before(Value)' /\ SliceEnd(Value)' = slice'
      BY <2>1, <3>1 DEF Before, SliceEnd
    <3>4. WholeWord(Value)'
      BY <2>1, <3>1, <3>2 DEF WholeWord, SliceEnd
    <3>. QED
      BY <2>1, <3>1, <3>2, <3>3, <3>4 DEF Placed, Before
  <2>3. ~irregular' => Placed(shared, string_array.strings[Top][shared])'
    BY <2>2 DEF Value
  <2>. QED
    BY <1>1, <2>1, <2>3, SlicesEnd
<1>4. CASE /\ ReadsOther(AfterWord)
           /\ SetValue([Value EXCEPT !.characters = @ + 1]) /\ func' = "value_identifier"
           /\ UNCHANGED <<shared, state_prev>>
  <2>. DEFINE value == [Value EXCEPT !.characters = @ + 1]
  <2>1. value \in Slice /\ value.ptr = Value.ptr /\ value.characters = Value.characters + 1
    BY <1>1 DEF Slice
  <2>2. SetValue(value) /\ func' = "value_identifier" /\ UNCHANGED <<shared, state_prev>>
    BY <1>4
  <2>. HIDE DEF value
  <2>3. Value' = value
    BY <1>1, <2>1, <2>2, ValueIsSet DEF LexerInv
  <2>4. ASSUME ~irregular' PROVE ReadingInv' /\ value.characters >= 0
    <3>1. /\ slice \in Nat /\ slice' = slice + 1 /\ file' = file
          /\ file[slice + 1] \notin AfterWord
          /\ ReadingInv /\ Before(Value) /\ SliceEnd(Value) = slice + 1 /\ shared \in Fields
      BY <1>1, <1>4, <2>4, ReadingAdvances DEF ReadsOther
    <3>2. /\ shared # "text" /\ file[Value.ptr - 1] \in BeforeWord
          /\ \A i \in Value.ptr .. slice : file[i] \notin AfterWord
      BY <1>1, <3>1 DEF ReadingInv
    <3>3. /\ Before(Value)' /\ SliceEnd(Value)' = slice' + 1
          /\ \A i \in Value.ptr .. slice + 1 : file[i] \notin AfterWord
      BY <2>1, <2>3, <3>1, <3>2 DEF Before, SliceEnd
    <3>4. value.characters > 0 /\ value.characters >= 0
      BY <2>1, <3>1 DEF Before
    <3>5. /\ file'[Value'.ptr - 1] \in BeforeWord
          /\ \A i \in Value'.ptr .. slice' : file'[i] \notin AfterWord
      BY <2>1, <2>3, <3>1, <3>2, <3>3
    <3>. QED
      BY <2>2, <2>3, <3>2, <3>3, <3>4, <3>5 DEF ReadingInv, ReadingStates
  <2>5. func' \in ReadingStates
    BY <2>2 DEF ReadingStates
  <2>. QED
    BY <1>1, <2>1, <2>2, <2>4, <2>5, SlicesTouched
<1>. QED
  BY <1>2, <1>3, <1>4, DigestIs DEF StateStringEntryValueIdentifier, Exit, Return

(* A value begins behind what the iterator has passed, after a character that ends
   no word. *)
LEMMA WaitValueSlices ==
    ASSUME LexerInv, SlicesInv, LexerStep, StateStringEntryWaitValue
    PROVE  SlicesInv'
<1>1. /\ func = "wait_value" /\ func \notin ReadingStates /\ func \in ValueStates
      /\ Value \in Slice /\ InEntry /\ Unfinished
      /\ Next1 \in Int /\ file \in Seq(STRING) /\ slice \in 0 .. Len(file) /\ LexerTypes
  BY ValueTyped, StepIterates
     DEF StateStringEntryWaitValue, Iterate, LexerInv, LexerTypes, ReadingStates, ValueStates, InEntry,
         Unfinished, EntryStates
<1>2. CASE /\ UNCHANGED memory /\ func' = "exited" /\ parse_status' # "ok"
  BY <1>1, <1>2, SlicesStay DEF memory, ReadingStates, Unfinished, InEntry
<1>3. CASE Reads(Whitespace) /\ Goto("wait_value")
  <2>1. file[Next1] \in BeforeWord
    BY <1>3, ReadsClasses
  <2>2. ~EndOfFile
    BY <1>3, Zenon DEF Reads
  <2>3. Next1 > 0
    BY <1>1, <2>2, IteratorAdvances
  <2>. QED
    BY <1>1, <1>3, <2>1, <2>3, SlicesStay
       DEF Goto, Return, memory, ReadingStates, Unfinished, InEntry, EntryStates
(* What precedes the next character was read before it or is a newline. *)
<1>4. ASSUME ~irregular', ~EndOfFile
      PROVE  /\ slice' = Next1 /\ file' = file /\ Next1 > slice /\ Next1 \in 2 .. Len(file)
             /\ file[Next1 - 1] \in BeforeWord /\ Value.characters = 0
  <2>1. ~irregular /\ ~Misled /\ slice' = Next1 /\ file' = file
    BY <1>1, <1>4, NotIrregular, StepIterates
  <2>2. slice > 0 /\ file[slice] \in BeforeWord /\ Value.characters = 0
    BY <1>1, <2>1 DEF SlicesInv, ReadingInv, Misled
  <2>3. /\ Next1 > slice /\ Next1 \in slice .. Len(file)
        /\ \A i \in slice + 1 .. Next1 - 1 : file[i] = "\n"
    BY <1>1, <1>4, IteratorAdvances
  <2>4. Next1 - 1 = slice \/ Next1 - 1 \in slice + 1 .. Next1 - 1
    BY <1>1, <2>3
  <2>5. file[Next1 - 1] \in BeforeWord
    BY <2>2, <2>3, <2>4, ClassesAre
  <2>. QED
    BY <1>1, <2>1, <2>2, <2>3, <2>5
<1>5. CASE Reads({Quote}) /\ StartValueText /\ shared = "text"
  <2>. DEFINE value == [Value EXCEPT !.ptr = Next1 + 1]
  <2>1. value \in Slice /\ value.ptr = Next1 + 1 /\ value.characters = Value.characters
    BY <1>1 DEF Slice
  <2>2. SetValue(value) /\ func' = "value_text" /\ UNCHANGED <<shared, state_prev>>
    BY <1>5 DEF StartValueText, Return
  <2>. HIDE DEF value
  <2>3. Value' = value
    BY <1>1, <2>1, <2>2, ValueIsSet
  <2>4. ASSUME ~irregular' PROVE ReadingInv' /\ value.characters >= 0 /\ value.ptr > slice
    <3>1. /\ slice' = Next1 /\ file' = file /\ Next1 > slice /\ Next1 \in 2 .. Len(file)
          /\ Value.characters = 0 /\ file[Next1] = Quote
      BY <1>4, <1>5, <2>4 DEF Reads
    <3>2. Before(Value)' /\ SliceEnd(Value)' = slice' + 1
      BY <1>1, <2>1, <2>3, <3>1 DEF Before, SliceEnd
    <3>3. file'[Value'.ptr - 1] = Quote /\ \A i \in Value'.ptr .. slice' : file'[i] \in Valid
      BY <1>1, <2>1, <2>3, <3>1
    <3>. QED
      BY <1>1, <1>5, <2>1, <2>2, <3>1, <3>2, <3>3 DEF ReadingInv, ReadingStates
  <2>5. func' \in ReadingStates
    BY <2>2 DEF ReadingStates
  <2>. QED
    BY <1>1, <2>1, <2>2, <2>4, <2>5, SlicesTouched DEF ReadingStates
(* An identifier that begins with a quote is passed over. *)
<1>6. CASE /\ Reads({Quote}) /\ SetValue([Value EXCEPT !.ptr = Next1]) /\ func' = "wait_value"
           /\ UNCHANGED <<shared, state_prev>>
  <2>. DEFINE value == [Value EXCEPT !.ptr = Next1]
  <2>1. value \in Slice /\ value.ptr = Next1 /\ value.characters = Value.characters
    BY <1>1 DEF Slice
  <2>2. SetValue(value) /\ func' = "wait_value" /\ UNCHANGED shared
    BY <1>6
  <2>. HIDE DEF value
  <2>3. CASE irregular'
    BY <2>3 DEF SlicesInv
  <2>4. CASE ~irregular'
    <3>1. /\ slice' = Next1 /\ file' = file /\ Next1 > slice /\ Next1 \in 2 .. Len(file)
          /\ Value.characters = 0 /\ file[Next1] \in BeforeWord
      BY <1>4, <1>6, <2>4, ReadsClasses DEF Reads
    <3>2. ReadingInv'
      BY <1>1, <2>2, <3>1 DEF ReadingInv, ReadingStates
    <3>. QED
      BY <1>1, <2>1, <2>2, <3>1, <3>2, SlicesTouched
  <2>. QED
    BY <2>3, <2>4
<1>7. CASE /\ shared # "text" /\ ReadsOther(AfterWord)
           /\ SetValue([[Value EXCEPT !.ptr = Next1] EXCEPT !.characters = @ + 1])
           /\ func' = "value_identifier" /\ UNCHANGED <<shared, state_prev>>
  <2>. DEFINE begun == [Value EXCEPT !.ptr = Next1]
              value == [begun EXCEPT !.characters = @ + 1]
  <2>1. value \in Slice /\ value.ptr = Next1 /\ value.characters = Value.characters + 1
    <3>1. begun \in Slice /\ begun.ptr = Next1 /\ begun.characters = Value.characters
      BY <1>1 DEF Slice
    <3>. HIDE DEF begun
    <3>. QED
      BY <3>1 DEF Slice
  <2>2. SetValue(value) /\ func' = "value_identifier" /\ UNCHANGED <<shared, state_prev>>
    BY <1>7
  <2>. HIDE DEF value
  <2>3. Value' = value
    BY <1>1, <2>1, <2>2, ValueIsSet
  <2>4. ASSUME ~irregular' PROVE ReadingInv' /\ value.characters >= 0 /\ value.ptr > slice
    <3>1. /\ slice' = Next1 /\ file' = file /\ Next1 > slice /\ Next1 \in 2 .. Len(file)
          /\ file[Next1 - 1] \in BeforeWord
          /\ Value.characters = 0 /\ file[Next1] \notin AfterWord
      BY <1>4, <1>7, <2>4 DEF ReadsOther
    <3>2. Before(Value)' /\ SliceEnd(Value)' = slice' + 1
      BY <1>1, <2>1, <2>3, <3>1 DEF Before, SliceEnd
    <3>3. /\ file'[Value'.ptr - 1] \in BeforeWord
          /\ \A i \in Value'.ptr .. slice' : file'[i] \notin AfterWord
      BY <1>1, <2>1, <2>3, <3>1
    <3>. QED
      BY <1>1, <1>7, <2>1, <2>2, <2>3, <3>1, <3>2, <3>3 DEF ReadingInv, ReadingStates
  <2>5. func' \in ReadingStates
    BY <2>2 DEF ReadingStates
  <2>. QED
    BY <1>1, <2>1, <2>2, <2>4, <2>5, SlicesTouched DEF ReadingStates
<1>8. \/ UNCHANGED memory /\ func' = "exited" /\ parse_status' # "ok"
      \/ Reads(Whitespace) /\ Goto("wait_value")
      \/ ReadsOther(Whitespace \cup {";", "{", "}", "/", "*", "."})
             /\ IF shared = "text" THEN SetValueText ELSE SetValueIdentifier
  BY Zenon DEF StateStringEntryWaitValue, Exit, Return
<1>9. CASE SetValueText /\ shared = "text"
  <2>1. \/ UNCHANGED memory /\ func' = "exited" /\ parse_status' # "ok"
        \/ Reads({Quote}) /\ StartValueText
    BY <1>9 DEF SetValueText, Exit, Return
  <2>. QED
    BY <1>2, <1>5, <1>9, <2>1
<1>10. CASE /\ SetValueIdentifier /\ shared # "text"
            /\ ReadsOther(Whitespace \cup {";", "{", "}", "/", "*", "."})
  <2>1. ReadsOther(AfterWord) /\ ~Reads(AfterWord)
    <3>1. ReadsOther(AfterWord)
      BY <1>10, ReadsClasses, Zenon
    <3>. QED
      BY <3>1 DEF Reads, ReadsOther
  <2>2. \/ /\ Reads({Quote}) /\ SetValue([Value EXCEPT !.ptr = Next1])
           /\ func' = "wait_value" /\ UNCHANGED <<shared, state_prev>>
        \/ DigestValueIdentifierCharacter([Value EXCEPT !.ptr = Next1])
    BY <1>10 DEF SetValueIdentifier, Return
  <2>3. CASE DigestValueIdentifierCharacter([Value EXCEPT !.ptr = Next1])
    BY <1>2, <1>7, <1>10, <2>1, <2>3, DigestIs
  <2>. QED
    BY <1>6, <2>2, <2>3
<1>. QED
  BY <1>2, <1>3, <1>8, <1>9, <1>10

LEMMA SeparatorIsBefore ==
    ASSUME LexerInv, Reads({"="})
    PROVE  Next1 > 0 /\ file[Next1] \in BeforeWord
<1>1. ~EndOfFile
  BY Zenon DEF Reads
<1>2. Next1 > 0
  BY <1>1, IteratorAdvances DEF LexerInv, LexerTypes
<1>. QED
  BY <1>2, ReadsClasses

LEMMA LexerSlices == LexerInv /\ SlicesInv /\ LexerStep => SlicesInv'
<1>. SUFFICES ASSUME LexerInv, SlicesInv, LexerStep PROVE SlicesInv'
  OBVIOUS
<1>1. CASE StateInitial
  <2>1. func = "initial" /\ ~InEntry /\ func \notin ReadingStates /\ ~Unfinished
    BY <1>1 DEF StateInitial, Iterate, InEntry, EntryStates, CommentStates, ReadingStates,
                Unfinished
  <2>2. CASE SetNewStringEntry
    BY <2>1, <2>2, NewEntrySlices
  <2>3. CASE SetCommentStart
    BY <2>1, <2>3, SlicesStay
       DEF SetCommentStart, Return, InEntry, EntryStates, CommentStates, ReadingStates, Unfinished
  <2>4. CASE UNCHANGED memory /\ func' \in {"initial", "exited"}
    BY <2>1, <2>4, SlicesStay
       DEF memory, InEntry, EntryStates, CommentStates, ReadingStates, Unfinished
  <2>. QED
    BY <1>1, <2>2, <2>3, <2>4 DEF StateInitial, Goto, Exit, Return
<1>2. CASE StateCommentStart \/ StateComment \/ StateCommentEnd
  <2>1. /\ UNCHANGED memory /\ func \in CommentStates
        /\ \/ func' \in {state_prev} \cup CommentStates
           \/ func' = "exited" /\ parse_status' # "ok"
    BY <1>2 DEF StateCommentStart, StateComment, StateCommentEnd, Goto, Exit, Return, Iterate,
                CommentStates
  <2>2. state_prev \in {"initial", "entry_initial"}
    BY DEF LexerInv, LexerTypes
  <2>. QED
    BY <2>1, <2>2, SlicesStay
       DEF memory, InEntry, EntryStates, CommentStates, ReadingStates, Unfinished
<1>3. CASE StateStringEntryInitial
  <2>1. func = "entry_initial" /\ InEntry /\ func \notin ReadingStates /\ Unfinished
    BY <1>3 DEF StateStringEntryInitial, Iterate, InEntry, EntryStates, ReadingStates, Unfinished
  <2>2. CASE SetFinalizeStringEntry
    BY <2>1, <2>2, FinalizeSlices
  <2>3. CASE /\ UNCHANGED string_array
             /\ \/ func' = "comment_start" /\ state_prev' = "entry_initial"
                \/ func' \in {"entry_initial", "identifier"}
                \/ func' = "exited" /\ parse_status' # "ok"
    BY <2>1, <2>3, SlicesStay DEF InEntry, EntryStates, CommentStates, ReadingStates, Unfinished
  <2>. QED
    BY <1>3, <2>1, <2>2, <2>3
       DEF StateStringEntryInitial, Goto, Exit, Return, SetCommentStart,
           SetStringEntryIdentifier, memory
<1>4. CASE StateStringEntryIdentifier
  <2>1. func = "identifier" /\ InEntry /\ func \notin ReadingStates /\ Unfinished
    BY <1>4 DEF StateStringEntryIdentifier, Iterate, InEntry, EntryStates, ReadingStates, Unfinished
  <2>2. UNCHANGED string_array
    BY <1>4 DEF StateStringEntryIdentifier, Goto, Exit, SetStringEntryPostIdentifier,
                DigestIdentifierCharacter, memory
  <2>3. \/ func' \in {"identifier", "wait_separator"}
        \/ func' = "wait_value" /\ Reads({"="})
        \/ func' = "exited" /\ parse_status' # "ok"
    BY <1>4, Zenon
       DEF StateStringEntryIdentifier, Exit, Return, SetStringEntryPostIdentifier,
           DigestIdentifierCharacter
  <2>. QED
    BY <2>1, <2>2, <2>3, SeparatorIsBefore, SlicesStay
       DEF InEntry, EntryStates, CommentStates, ReadingStates, Unfinished
<1>5. CASE StateStringEntryWaitSeparator
  <2>1. func = "wait_separator" /\ InEntry /\ func \notin ReadingStates /\ Unfinished
    BY <1>5
       DEF StateStringEntryWaitSeparator, Iterate, InEntry, EntryStates, ReadingStates, Unfinished
  <2>2. /\ UNCHANGED string_array
        /\ \/ func' = "wait_separator"
           \/ func' = "wait_value" /\ Reads({"="})
           \/ func' = "exited" /\ parse_status' # "ok"
    BY <1>5 DEF StateStringEntryWaitSeparator, Goto, Exit, Return, memory
  <2>. QED
    BY <2>1, <2>2, SeparatorIsBefore, SlicesStay
       DEF InEntry, EntryStates, CommentStates, ReadingStates, Unfinished
<1>6. CASE StateStringEntryValueWaitNewline
  <2>1. func = "value_wait_newline" /\ InEntry /\ func \notin ReadingStates /\ Unfinished
    BY <1>6 DEF StateStringEntryValueWaitNewline, Iterate, InEntry, EntryStates, ReadingStates,
                Unfinished
  <2>2. /\ UNCHANGED string_array
        /\ \/ func' \in {"value_wait_newline", "entry_initial"}
           \/ func' = "exited" /\ parse_status' # "ok"
    BY <1>6 DEF StateStringEntryValueWaitNewline, Goto, Exit, Return, memory
  <2>. QED
    BY <2>1, <2>2, SlicesStay DEF InEntry, EntryStates, CommentStates, ReadingStates, Unfinished
<1>. QED
  BY <1>1, <1>2, <1>3, <1>4, <1>5, <1>6, WaitValueSlices, IdentifierValueSlices, TextValueSlices
     DEF LexerStep
-----------------------------------------------------------------------------
(* What the formatter of the texts reads.                                     *)

LEMMA LettersAreSeqs == \E S, T, U : Upper \in Seq(S) /\ Lower \in Seq(T) /\ Digits \in Seq(U)
<1>1. Digits = [i \in 1 .. 10 |-> Digits[i]]
  BY DEF Digits
<1>2. Ascii32 = [i \in 1 .. 64 |-> Ascii32[i]] /\ Len(Ascii32) = 64
  BY DEF Ascii32
<1>3. Ascii97 = [i \in 1 .. 30 |-> Ascii97[i]] /\ Len(Ascii97) = 30
  BY DEF Ascii97
<1>4. 10 \in Nat /\ 64 \in Nat /\ 30 \in Nat
  OBVIOUS
<1>5. PICK U : Digits \in Seq(U)
  BY <1>1, <1>4, TupleIsSeq
<1>6. PICK S : Ascii32 \in Seq(S)
  BY <1>2, <1>4, TupleIsSeq
<1>7. PICK T : Ascii97 \in Seq(T)
  BY <1>3, <1>4, TupleIsSeq
<1>8. SubSeq(Ascii32, 34, 59) \in Seq(S)
  <2>1. 34 \in 1 .. Len(Ascii32) /\ 59 \in 1 .. Len(Ascii32) /\ 34 <= 59
    BY <1>2
  <2>. QED
    BY <1>6, <2>1, PartOf
<1>9. SubSeq(Ascii97, 1, 26) \in Seq(T)
  <2>1. 1 \in 1 .. Len(Ascii97) /\ 26 \in 1 .. Len(Ascii97) /\ 1 <= 26
    BY <1>3
  <2>. QED
    BY <1>7, <2>1, PartOf
<1>. QED
  BY <1>5, <1>8, <1>9, Zenon DEF Upper, Lower

LEMMA IndexIsPositive ==
    ASSUME NEW T, NEW characters \in Seq(T), NEW c \in CharactersIn(characters)
    PROVE  IndexIn(characters, c) \in Nat /\ IndexIn(characters, c) >= 1
<1>1. \E i \in DOMAIN characters : characters[i] = c
  BY DEF CharactersIn
<1>2. IndexIn(characters, c) \in DOMAIN characters
  BY <1>1 DEF IndexIn
<1>. QED
  BY <1>2

(* Each element of a sequence is one of the first or of the second other.    *)
ElementsOf(s, a, b) ==
    \A i \in DOMAIN s : (\E j \in DOMAIN a : s[i] = a[j]) \/ (\E j \in DOMAIN b : s[i] = b[j])

LEMMA JoinedElements ==
    ASSUME NEW R, NEW a \in Seq(R), NEW b \in Seq(R)
    PROVE  ElementsOf(a \o b, a, b)
<1>1. PICK s : s = a \o b
  OBVIOUS
<1>2. /\ DOMAIN s = 1 .. Len(a) + Len(b) /\ Len(a) \in Nat /\ Len(b) \in Nat
      /\ DOMAIN a = 1 .. Len(a) /\ DOMAIN b = 1 .. Len(b)
      /\ \A i \in 1 .. Len(a) : s[i] = a[i]
      /\ \A i \in 1 .. Len(b) : s[Len(a) + i] = b[i]
  BY <1>1, ConcatOf
<1>3. ASSUME NEW i \in DOMAIN s
      PROVE  (\E j \in DOMAIN a : s[i] = a[j]) \/ (\E j \in DOMAIN b : s[i] = b[j])
  <2>1. CASE i <= Len(a)
    BY <1>2, <2>1
  <2>2. CASE i > Len(a)
    <3>1. i - Len(a) \in DOMAIN b /\ i = Len(a) + (i - Len(a))
      BY <1>2, <2>2
    <3>. QED
      BY <1>2, <3>1
  <2>. QED
    BY <1>2, <2>1, <2>2
<1>4. ElementsOf(s, a, b)
  BY <1>3 DEF ElementsOf
<1>. QED
  BY <1>1, <1>4

LEMMA ValidClasses ==
    ASSUME NEW c \in Valid
    PROVE  \/ c \in CharactersIn(Upper) \/ c \in CharactersIn(Lower) \/ c \in CharactersIn(Digits)
           \/ c \in {"%", ".", " "}
<1>1. PICK S, T, U : Upper \in Seq(S) /\ Lower \in Seq(T) /\ Digits \in Seq(U)
  BY LettersAreSeqs
<1>2. PICK R : Upper \in Seq(R) /\ Lower \in Seq(R) /\ Digits \in Seq(R)
  <2>1. /\ Upper \in Seq(S \cup T \cup U) /\ Lower \in Seq(S \cup T \cup U)
        /\ Digits \in Seq(S \cup T \cup U)
    BY <1>1
  <2>. QED
    BY <2>1
<1>3. PICK letters : letters = Upper \o Lower
  OBVIOUS
<1>4. PICK string : string = letters \o Digits
  OBVIOUS
<1>5. letters \in Seq(R) /\ ElementsOf(letters, Upper, Lower)
  BY <1>2, <1>3, JoinedElements
<1>6. ElementsOf(string, letters, Digits)
  BY <1>2, <1>4, <1>5, JoinedElements
<1>7. Valid = CharactersIn(string) \cup {"%", ".", " "}
  BY <1>3, <1>4 DEF Valid
<1>8. ASSUME NEW i \in DOMAIN string
      PROVE  \/ \E j \in DOMAIN Upper : string[i] = Upper[j]
             \/ \E j \in DOMAIN Lower : string[i] = Lower[j]
             \/ \E j \in DOMAIN Digits : string[i] = Digits[j]
  BY <1>5, <1>6 DEF ElementsOf
<1>. QED
  BY <1>7, <1>8 DEF CharactersIn

(* Every character has a code, if only that of a character that has none; one that the
   lexer takes in a text has one of its own. *)
LEMMA CharacterIsConverted ==
    ASSUME NEW c
    PROVE  /\ StringCharacterConvert(c) \in Int /\ StringCharacterConvert(c) # -1
           /\ c \in Valid => StringCharacterConvert(c) # Undefined
<1>1. /\ c \in CharactersIn(Upper) => IndexIn(Upper, c) \in Nat /\ IndexIn(Upper, c) >= 1
      /\ c \in CharactersIn(Lower) => IndexIn(Lower, c) \in Nat /\ IndexIn(Lower, c) >= 1
      /\ c \in CharactersIn(Digits) => IndexIn(Digits, c) \in Nat /\ IndexIn(Digits, c) >= 1
  BY LettersAreSeqs, IndexIsPositive
<1>. DEFINE IsCode(r) == r \in Int /\ r # -1
            upper == c \in CharactersIn(Upper)
            lower == c \in CharactersIn(Lower)
            digit == c \in CharactersIn(Digits)
            u == IndexIn(Upper, c) - 1
            l == 26 + IndexIn(Lower, c) - 1
            d == 52 + IndexIn(Digits, c) - 1
<1>2. StringCharacterConvert(c) =
         (CASE upper -> u [] lower -> l [] digit -> d
            [] c = "%" -> 62 [] c = "." -> 63 [] c = " " -> 64 [] OTHER -> -2)
  BY DEF StringCharacterConvert, Undefined
<1>3. (upper => IsCode(u)) /\ (lower => IsCode(l)) /\ (digit => IsCode(d))
  BY <1>1
<1>4. IsCode(62) /\ IsCode(63) /\ IsCode(64) /\ IsCode(-2)
  OBVIOUS
<1>5. c \in Valid => upper \/ lower \/ digit \/ c \in {"%", ".", " "}
  BY ValidClasses
<1>6. /\ (upper => u # -2) /\ (lower => l # -2) /\ (digit => d # -2)
      /\ 62 # -2 /\ 63 # -2 /\ 64 # -2
  BY <1>1
<1>. HIDE DEF upper, lower, digit, u, l, d, IsCode
<1>7. IsCode(StringCharacterConvert(c))
  BY <1>2, <1>3, <1>4
<1>8. c \in Valid => StringCharacterConvert(c) # -2
  BY <1>2, <1>5, <1>6
<1>. QED
  BY <1>7, <1>8 DEF IsCode, Undefined

(* Where nothing is lost and no entry is open, every value is in its place. *)
LEMMA ValuesArePlaced ==
    ASSUME LexerTypes, SlicesInv, ~irregular, ~Damaged, func = "exited", parse_status = "ok",
           NEW n \in DOMAIN string_array.strings, NEW field \in Fields
    PROVE  Placed(field, string_array.strings[n][field])
<1>1. ~Unfinished /\ func \notin ReadingStates
  BY DEF Unfinished, InEntry, EntryStates, CommentStates, ReadingStates
<1>2. /\ DOMAIN string_array.strings = 1 .. Top
      /\ \A m \in 1 .. Top : string_array.strings[m] # Lost
  BY DEF LexerTypes, Top, Damaged
<1>. QED
  BY <1>1, <1>2 DEF SlicesInv, StringInv, Reading

(* A value in its place is in the file. *)
LEMMA PlacedIsWithin ==
    ASSUME LexerTypes, NEW value, NEW field, Placed(field, value)
    PROVE  Within(value)
<1>1. /\ value.ptr \in 2 .. slice + 1 /\ value.ptr + value.characters <= slice
      /\ value.characters \in Nat /\ slice \in Nat /\ slice <= Len(file)
      /\ DOMAIN file = 1 .. Len(file) /\ Len(file) \in Nat
  BY DEF Placed, Before, SliceEnd, LexerTypes
<1>2. ASSUME NEW i \in 1 .. value.characters PROVE value.ptr + i - 1 \in DOMAIN file
  BY <1>1
<1>. QED
  BY <1>2 DEF Within

(* Where the lexer was not misled, the formatter reads nothing but the file, and finds a
   code for every character of a text. *)
LEMMA RegularIsReadable ==
    ASSUME LexerTypes, SlicesInv, ~irregular, ~Damaged, func = "exited", parse_status = "ok"
    PROVE  Readable
<1>. DEFINE strings == string_array.strings
<1>1. ASSUME NEW n \in DOMAIN strings, NEW field \in Fields
      PROVE  Placed(field, strings[n][field]) /\ Within(strings[n][field])
  <2>1. Placed(field, strings[n][field])
    BY ValuesArePlaced
  <2>. QED
    BY <2>1, PlacedIsWithin
<1>2. ASSUME NEW n \in DOMAIN strings
      PROVE  /\ Within(strings[n]["identifier_data"]) /\ Within(strings[n]["identifier_length"])
             /\ Within(strings[n]["text"]) /\ Placed("text", strings[n]["text"])
  BY <1>1, <1>2 DEF Fields
<1>3. ASSUME NEW n \in DOMAIN strings, NEW i \in DOMAIN CharactersOf(strings[n]["text"])
      PROVE  StringCharacterConvert(CharactersOf(strings[n]["text"])[i]) # Undefined
  <2>. DEFINE text == strings[n]["text"]
  <2>1. i \in 1 .. text.characters /\ Within(text) /\ Placed("text", text)
    BY <1>2, <1>3 DEF CharactersOf
  <2>. HIDE DEF text
  <2>2. CharactersOf(text)[i] = file[text.ptr + i - 1]
    BY <2>1 DEF CharactersOf, Within
  <2>3. text.ptr + i - 1 \in text.ptr .. SliceEnd(text) - 1
    BY <2>1 DEF Placed, Before, SliceEnd, LexerTypes
  <2>4. file[text.ptr + i - 1] \in Valid
    BY <2>1, <2>3 DEF Placed, Quoted
  <2>5. StringCharacterConvert(CharactersOf(text)[i]) # Undefined
    BY <2>2, <2>4, CharacterIsConverted
  <2>. QED
    BY <2>5 DEF text
<1>. QED
  BY <1>2, <1>3 DEF Readable

LEMMA ReadableStays == UNCHANGED <<file, string_array>> => (Readable' <=> Readable)
BY DEF Readable, Within, CharactersOf
-----------------------------------------------------------------------------
(* The steps of the four programs.                                            *)

LEMMA InitHeapInv == Init => HeapInv
<1>. SUFFICES ASSUME Init PROVE HeapInv
  OBVIOUS
<1>1. Live = {} /\ "none" # "live"
  BY DEF Init, ToolInit, Live
<1>2. LexerFresh
  BY DEF Init, LexerInit, LexerFresh
<1>. QED
  BY <1>1, <1>2 DEF Init, ToolInit, HeapInv, ToolTypes, OptionsGiven, HeapMatches, MisuseMatches, Working

(* A step that uses what is there leaves what it did not free and what it made. *)
LEMMA UseIsExact ==
    ASSUME heap \in [Allocations -> {"none", "live", "freed"}], misuse \in BOOLEAN,
           NEW options, NEW read, NEW freed, NEW allocated, Use(options, read, freed, allocated),
           options \subseteq DOMAIN parameters, read \subseteq Live, freed \subseteq Live,
           allocated \subseteq Allocations
    PROVE  /\ heap' \in [Allocations -> {"none", "live", "freed"}] /\ misuse' = misuse
           /\ Live' = (Live \ freed) \cup (allocated \ freed)
BY DEF Use, Misuse, Wrong, Change, Live

LEMMA UseIsSound ==
    ASSUME heap \in [Allocations -> {"none", "live", "freed"}], ~misuse,
           NEW options, NEW read, NEW freed, NEW allocated, Use(options, read, freed, allocated),
           options \subseteq DOMAIN parameters, read \subseteq Live, freed \subseteq Live,
           allocated \subseteq Allocations
    PROVE  /\ heap' \in [Allocations -> {"none", "live", "freed"}] /\ ~misuse' /\ misuse' \in BOOLEAN
           /\ Live' = (Live \ freed) \cup (allocated \ freed)
BY DEF Use, Misuse, Wrong, Change, Live

LEMMA MainKeeps ==
    ASSUME HeapInv, NEW list, Main(list), UNCHANGED lexerVars,
           \A arguments : Parse(list, arguments).status = "ok" =>
               Required \subseteq DOMAIN Parse(list, arguments).values
    PROVE  HeapInv'
<1>1. /\ pc = "main" /\ UNCHANGED <<tool, heap, misuse, reason>> /\ Live = {} /\ ~misuse
      /\ Live' = Live /\ Required' = Required
  BY DEF Main, HeapInv, HeapMatches, MisuseMatches, Live, Required
<1>2. \/ pc' = "display" /\ status' \in {"too_many_arguments", "ok", "arguments_parse_error"}
      \/ pc' = "load" /\ Required \subseteq DOMAIN parameters' /\ status' = status
  BY DEF Main, Finish
<1>3. LexerFresh'
  BY <1>1 DEF HeapInv, LexerFresh, lexerVars, memory
<1>. QED
  BY <1>1, <1>2, <1>3
     DEF HeapInv, ToolTypes, OptionsGiven, HeapMatches, MisuseMatches, Working

LEMMA LoadKeeps ==
    ASSUME HeapInv, Load, UNCHANGED <<slice, memory>>, file' \in Seq(STRING)
    PROVE  HeapInv'
<1>. LexerFresh'
  BY DEF Load, HeapInv, LexerFresh, memory
<1>1. /\ pc = "load" /\ UNCHANGED <<tool, parameters>> /\ Live = {} /\ ~misuse
      /\ heap \in [Allocations -> {"none", "live", "freed"}] /\ Required' = Required
      /\ {"input"} \subseteq DOMAIN parameters /\ Required \subseteq DOMAIN parameters
  BY DEF Load, HeapInv, ToolTypes, OptionsGiven, HeapMatches, MisuseMatches, Working, Required
<1>2. CASE Use({"input"}, {}, {}, {"input"}) /\ pc' = "compile" /\ UNCHANGED <<status, reason>>
  <2>1. /\ heap' \in [Allocations -> {"none", "live", "freed"}] /\ ~misuse' /\ misuse' \in BOOLEAN
        /\ Live' = {"input"}
    BY <1>1, <1>2, UseIsSound DEF Allocations
  <2>. QED
    BY <1>1, <1>2, <2>1
       DEF HeapInv, ToolTypes, OptionsGiven, HeapMatches, MisuseMatches, Working
<1>3. CASE /\ Use({"input"}, {}, {}, {}) /\ pc' = "display" /\ status' \in Failures
           /\ reason' \in {reason, "not_found"} /\ (status' = "fs_error" => reason' = "not_found")
  <2>1. /\ heap' \in [Allocations -> {"none", "live", "freed"}] /\ ~misuse' /\ misuse' \in BOOLEAN
        /\ Live' = {}
    BY <1>1, <1>3, UseIsSound DEF Allocations
  <2>. QED
    BY <1>1, <1>3, <2>1
       DEF HeapInv, ToolTypes, OptionsGiven, HeapMatches, MisuseMatches, Working, Failures
<1>. QED
  BY <1>2, <1>3 DEF Load, Finish, Failures

(* The text compiler frees the output whatever happens; the others do not. *)
LEMMA SaveKeeps ==
    ASSUME HeapInv, NEW read, NEW unless_copied, NEW unless_saved, NEW when_saved, NEW reported,
           Save(read, unless_copied, unless_saved, when_saved, reported),
           UNCHANGED lexerVars, read \subseteq Live, reported \in {"ok", "not_found"},
           tool = "font" => reported = "not_found",
           unless_copied \subseteq Live, unless_saved \subseteq Live, when_saved \subseteq Live,
           Live \subseteq when_saved,
           ~(Live \subseteq unless_copied) => tool \in {"image", "font"},
           ~(Live \subseteq unless_saved) => tool = "font"
    PROVE  HeapInv'
<1>1. /\ pc = "save" /\ UNCHANGED <<tool, parameters>> /\ misuse \in BOOLEAN
      /\ (misuse => tool = "text" /\ irregular /\ ~Readable) /\ irregular' = irregular
      /\ heap \in [Allocations -> {"none", "live", "freed"}] /\ Required' = Required
      /\ {"output"} \subseteq DOMAIN parameters /\ Required \subseteq DOMAIN parameters
  BY DEF Save, HeapInv, ToolTypes, OptionsGiven, MisuseMatches, Working, Required, lexerVars
<1>. Readable' <=> Readable
  BY ReadableStays DEF lexerVars, memory
<1>2. CASE /\ Use({"output"}, {}, unless_copied, {})
           /\ Finish("out_of_memory") /\ UNCHANGED reason
  <2>1. /\ heap' \in [Allocations -> {"none", "live", "freed"}] /\ misuse' = misuse
        /\ Live' = Live \ unless_copied
    BY <1>1, <1>2, UseIsExact
  <2>. QED
    BY <1>1, <1>2, <2>1
       DEF HeapInv, ToolTypes, OptionsGiven, HeapMatches, MisuseMatches, Working, Failures, Finish,
           Leaks
<1>3. CASE /\ Use({"output"}, read, unless_saved, {}) /\ pc' = "display"
           /\ status' \in Failures /\ reason' \in {reason, reported}
           /\ (status' = "fs_error" => reason' = reported)
  <2>1. /\ heap' \in [Allocations -> {"none", "live", "freed"}] /\ misuse' = misuse
        /\ Live' = Live \ unless_saved
    BY <1>1, <1>3, UseIsExact
  <2>. QED
    BY <1>1, <1>3, <2>1
       DEF HeapInv, ToolTypes, OptionsGiven, HeapMatches, MisuseMatches, Working, Failures, Leaks
<1>4. CASE Use({"output"}, read, when_saved, {}) /\ Finish("ok") /\ UNCHANGED reason
  <2>1. /\ heap' \in [Allocations -> {"none", "live", "freed"}] /\ misuse' = misuse
        /\ Live' = {}
    BY <1>1, <1>4, UseIsExact
  <2>. QED
    BY <1>1, <1>4, <2>1
       DEF HeapInv, ToolTypes, OptionsGiven, HeapMatches, MisuseMatches, Working, Finish
<1>. QED
  BY <1>2, <1>3, <1>4 DEF Save, Finish, Failures

LEMMA DisplayKeeps ==
    ASSUME HeapInv, NEW freed, Display({}, freed), freed \subseteq Live,
           UNCHANGED lexerVars,
           ~Damaged => Live \subseteq freed \/ Leaks
    PROVE  HeapInv'
<1>1. /\ pc = "display" /\ pc' = "exit" /\ UNCHANGED <<tool, parameters, status, reason>>
      /\ misuse \in BOOLEAN /\ heap \in [Allocations -> {"none", "live", "freed"}]
      /\ (misuse => tool = "text" /\ irregular /\ ~Readable) /\ irregular' = irregular
      /\ (tool = "font" /\ status = "fs_error" => reason = "not_found")
  BY DEF Display, HeapInv, ToolTypes, MisuseMatches, lexerVars
<1>2. heap' \in [Allocations -> {"none", "live", "freed"}] /\ Live' = Live \ freed
  BY <1>1 DEF Display, Change, Live
<1>3. misuse' = (misuse \/ (status = "fs_error" /\ reason = "ok"))
  BY <1>1 DEF Display, Misuse, Wrong
<1>4. Damaged' = Damaged /\ Leaks' = Leaks
  BY <1>1 DEF Damaged, Leaks, lexerVars, memory
<1>5. Readable' <=> Readable
  BY ReadableStays DEF lexerVars, memory
<1>6. MisuseMatches' /\ misuse' \in BOOLEAN
  BY <1>1, <1>3, <1>4, <1>5 DEF MisuseMatches
<1>. QED
  BY <1>1, <1>2, <1>4, <1>6 DEF HeapInv, ToolTypes, OptionsGiven, HeapMatches, Working
-----------------------------------------------------------------------------
LEMMA TextLexerParseKeeps == HeapInv /\ tool = "text" /\ TextLexerParse => HeapInv'
<1>. SUFFICES ASSUME HeapInv, tool = "text", TextLexerParse PROVE HeapInv'
  OBVIOUS
<1>1. /\ pc = "compile" /\ UNCHANGED <<tool, parameters, reason>> /\ Live = {"input"} /\ ~misuse
      /\ heap \in [Allocations -> {"none", "live", "freed"}] /\ Required' = Required
      /\ Required \subseteq DOMAIN parameters
  BY DEF TextLexerParse, HeapInv, ToolTypes, OptionsGiven, HeapMatches, MisuseMatches, Working,
         Required
<1>2. CASE Use({}, {}, {}, {"strings"}) /\ LexerBegin /\ pc' = "lex" /\ UNCHANGED status
  <2>1. /\ heap' \in [Allocations -> {"none", "live", "freed"}] /\ ~misuse' /\ misuse' \in BOOLEAN
        /\ Live' = {"input", "strings"}
    BY <1>1, <1>2, UseIsSound DEF Allocations
  <2>2. LexerTypes' /\ ArrayMatches'
    <3>1. /\ file' \in Seq(STRING) /\ slice' = 0 /\ state_prev' = "initial" /\ func' = "initial"
          /\ string_array' = [strings |-> <<>>, ptr |-> "live", capacity |-> 1]
      BY <1>1, <1>2 DEF HeapInv, LexerFresh, LexerBegin
    <3>2. Top' = 0 /\ string_array'.strings \in Seq([Fields -> Slice])
      BY <3>1 DEF Top
    <3>. QED
      BY <3>1, <3>2
         DEF LexerTypes, ArrayMatches, InEntry, EntryStates, CommentStates, ValueStates
  <2>. QED
    BY <1>1, <1>2, <2>1, <2>2
       DEF HeapInv, ToolTypes, OptionsGiven, HeapMatches, MisuseMatches, Working
<1>3. CASE Use({}, {}, {"input"}, {}) /\ Finish("out_of_memory") /\ UNCHANGED lexerVars
  <2>1. /\ heap' \in [Allocations -> {"none", "live", "freed"}] /\ ~misuse' /\ misuse' \in BOOLEAN
        /\ Live' = {}
    BY <1>1, <1>3, UseIsSound
  <2>. QED
    BY <1>1, <1>3, <2>1
       DEF HeapInv, ToolTypes, OptionsGiven, HeapMatches, MisuseMatches, Working, Finish
<1>. QED
  BY <1>2, <1>3 DEF TextLexerParse

LEMMA TextLexerStepKeeps == HeapInv /\ tool = "text" /\ TextLexerStep => HeapInv'
<1>. SUFFICES ASSUME HeapInv, tool = "text", TextLexerStep PROVE HeapInv'
  OBVIOUS
<1>1. /\ pc = "lex" /\ UNCHANGED <<tool, pc, parameters, reason>> /\ Live = {"input", "strings"}
      /\ ~misuse /\ heap \in [Allocations -> {"none", "live", "freed"}] /\ Required' = Required
      /\ Use({}, {"input", "strings"}, {}, {})
  BY DEF TextLexerStep, HeapInv, ToolTypes, HeapMatches, MisuseMatches, Required
<1>2. /\ heap' \in [Allocations -> {"none", "live", "freed"}] /\ ~misuse' /\ misuse' \in BOOLEAN
      /\ Live' = {"input", "strings"}
  BY <1>1, UseIsSound
<1>3. LexerTypes' /\ ArrayMatches'
  BY <1>1, LexerKeeps DEF TextLexerStep, HeapInv, LexerInv
<1>. QED
  BY <1>1, <1>2, <1>3
     DEF HeapInv, ToolTypes, OptionsGiven, HeapMatches, MisuseMatches, Working

(* An array that is not there was lost, and a string with it. *)
LEMMA LostArrayDamages == LexerInv /\ string_array.ptr = "null" => Damaged
<1>. SUFFICES ASSUME LexerInv, string_array.ptr = "null" PROVE Damaged
  OBVIOUS
<1>1. /\ string_array.strings \in Seq([Fields -> Slice]) /\ Top = Len(string_array.strings)
      /\ Top # 0 /\ \A i \in 1 .. Top : string_array.strings[i] = Lost
  BY DEF LexerInv, LexerTypes, ArrayMatches, Top
<1>2. 1 \in DOMAIN string_array.strings /\ string_array.strings[1] = Lost
  BY <1>1
<1>. QED
  BY <1>2 DEF Damaged

LEMMA TextLexerExitKeeps == HeapInv /\ tool = "text" /\ TextLexerExit => HeapInv'
<1>. SUFFICES ASSUME HeapInv, tool = "text", TextLexerExit PROVE HeapInv'
  OBVIOUS
<1>1. /\ pc = "lex" /\ UNCHANGED <<tool, parameters, reason>> /\ Live = {"input", "strings"}
      /\ ~misuse /\ heap \in [Allocations -> {"none", "live", "freed"}] /\ Required' = Required
      /\ UNCHANGED lexerVars /\ LexerInv
  BY DEF TextLexerExit, HeapInv, ToolTypes, HeapMatches, MisuseMatches, Required, LexerInv
<1>2. CASE Use({}, {}, {}, {}) /\ pc' = "format"
  <2>1. /\ heap' \in [Allocations -> {"none", "live", "freed"}] /\ ~misuse' /\ misuse' \in BOOLEAN
        /\ Live' = {"input", "strings"}
    BY <1>1, <1>2, UseIsSound
  <2>. QED
    BY <1>1, <1>2, <2>1
       DEF HeapInv, ToolTypes, OptionsGiven, HeapMatches, MisuseMatches, Working
<1>3. CASE /\ Use({}, {}, IF string_array.ptr = "live" THEN {"strings"} ELSE {}, {})
           /\ Finish("lexer_parse_error")
  <2>1. /\ heap' \in [Allocations -> {"none", "live", "freed"}] /\ ~misuse' /\ misuse' \in BOOLEAN
        /\ Live' = {"input"} \cup (IF string_array.ptr = "live" THEN {} ELSE {"strings"})
    BY <1>1, <1>3 DEF Use, Misuse, Wrong, Change, Live
  <2>2. ~Damaged' => string_array.ptr = "live"
    BY <1>1, LostArrayDamages DEF Damaged, lexerVars, memory, LexerInv, LexerTypes
  <2>. QED
    BY <1>1, <1>3, <2>1, <2>2
       DEF HeapInv, ToolTypes, OptionsGiven, HeapMatches, MisuseMatches, Working, Finish
<1>. QED
  BY <1>2, <1>3 DEF TextLexerExit

(* What the formatter is given, which is all it reads if the lexer was not misled. *)
LEMMA OnlyMisledIsUnreadable ==
    ASSUME tool = "text", pc = "format", TextInv, ~Damaged, ~Readable
    PROVE  irregular
BY RegularIsReadable DEF TextInv

LEMMA TextCrashKeeps == HeapInv /\ TextInv /\ tool = "text" /\ TextCrash => HeapInv'
<1>. SUFFICES ASSUME HeapInv, TextInv, tool = "text", TextCrash PROVE HeapInv'
  OBVIOUS
<1>1. /\ tool' = "text" /\ pc' = "exit" /\ status' = "crashed" /\ UNCHANGED <<heap, reason, lexerVars>>
      /\ heap \in [Allocations -> {"none", "live", "freed"}] /\ misuse' = TRUE
  BY DEF TextCrash, HeapInv, ToolTypes
<1>2. (Damaged' <=> Damaged) /\ (Readable' <=> Readable) /\ irregular' = irregular
  BY <1>1, ReadableStays DEF Damaged, lexerVars, memory
<1>3. Damaged \/ (irregular /\ ~Readable)
  BY OnlyMisledIsUnreadable DEF TextCrash, Damaged
<1>4. MisuseMatches'
  BY <1>1, <1>2, <1>3 DEF MisuseMatches
<1>. QED
  BY <1>1, <1>4 DEF HeapInv, ToolTypes, OptionsGiven, HeapMatches, Working

LEMMA TextFormatKeeps == HeapInv /\ TextInv /\ tool = "text" /\ TextFormat => HeapInv'
<1>. SUFFICES ASSUME HeapInv, TextInv, tool = "text", TextFormat PROVE HeapInv'
  OBVIOUS
<1>1. /\ pc = "format" /\ UNCHANGED <<tool, parameters, reason>> /\ Live = {"input", "strings"}
      /\ ~misuse /\ heap \in [Allocations -> {"none", "live", "freed"}] /\ Required' = Required
      /\ Required \subseteq DOMAIN parameters /\ ~Damaged /\ UNCHANGED lexerVars
  BY DEF TextFormat, HeapInv, ToolTypes, OptionsGiven, HeapMatches, MisuseMatches, Working, Required
<1>2. CASE /\ Misuse(Wrong({}, {"input", "strings"}) \/ ~Readable)
           /\ Change({"input", "strings"}, {"output"}) /\ pc' = "save"
  <2>1. /\ heap' \in [Allocations -> {"none", "live", "freed"}] /\ misuse' \in BOOLEAN
        /\ Live' = {"output"} /\ (misuse' => ~Readable)
    BY <1>1, <1>2 DEF Misuse, Wrong, Change, Live, Allocations
  <2>2. misuse' => irregular' /\ ~Readable'
    <3>1. irregular' = irregular /\ (Readable' <=> Readable)
      BY <1>1, ReadableStays DEF lexerVars, memory
    <3>. QED
      BY <1>1, <2>1, <3>1, OnlyMisledIsUnreadable
  <2>. QED
    BY <1>1, <1>2, <2>1, <2>2
       DEF HeapInv, ToolTypes, OptionsGiven, HeapMatches, MisuseMatches, Working
<1>3. CASE /\ Use({}, {"input", "strings"}, {"input", "strings"}, {})
           /\ Finish("out_of_memory")
  <2>1. /\ heap' \in [Allocations -> {"none", "live", "freed"}] /\ ~misuse' /\ misuse' \in BOOLEAN
        /\ Live' = {}
    BY <1>1, <1>3, UseIsSound
  <2>. QED
    BY <1>1, <1>3, <2>1
       DEF HeapInv, ToolTypes, OptionsGiven, HeapMatches, MisuseMatches, Working, Finish
<1>. QED
  BY <1>2, <1>3 DEF TextFormat

LEMMA FontParseKeeps == HeapInv /\ tool = "font" /\ FontParse => HeapInv'
<1>. SUFFICES ASSUME HeapInv, tool = "font", FontParse PROVE HeapInv'
  OBVIOUS
<1>1. /\ pc = "compile" /\ UNCHANGED <<tool, parameters, reason>> /\ Live = {"input"} /\ ~misuse
      /\ heap \in [Allocations -> {"none", "live", "freed"}] /\ Required' = Required
      /\ Required \subseteq DOMAIN parameters /\ {"name"} \subseteq Required
  BY DEF FontParse, HeapInv, ToolTypes, OptionsGiven, HeapMatches, MisuseMatches, Working, Required
<1>2. CASE /\ Use({"name"}, {"input"}, {"input"}, {"output"}) /\ pc' = "save"
           /\ status' = status
  <2>1. /\ heap' \in [Allocations -> {"none", "live", "freed"}] /\ ~misuse' /\ misuse' \in BOOLEAN
        /\ Live' = {"output"}
    BY <1>1, <1>2, UseIsSound DEF Allocations
  <2>. QED
    BY <1>1, <1>2, <2>1
       DEF HeapInv, ToolTypes, OptionsGiven, HeapMatches, MisuseMatches, Working
<1>3. CASE /\ Use({"name"}, {"input"}, {"input"}, {}) /\ pc' = "display"
           /\ status' # "fs_error"
  <2>1. /\ heap' \in [Allocations -> {"none", "live", "freed"}] /\ ~misuse' /\ misuse' \in BOOLEAN
        /\ Live' = {}
    BY <1>1, <1>3, UseIsSound DEF Allocations
  <2>. QED
    BY <1>1, <1>3, <2>1
       DEF HeapInv, ToolTypes, OptionsGiven, HeapMatches, MisuseMatches, Working
<1>. QED
  BY <1>2, <1>3 DEF FontParse, Finish

LEMMA ImageEncodeKeeps == HeapInv /\ tool = "image" /\ ImageEncode => HeapInv'
<1>. SUFFICES ASSUME HeapInv, tool = "image", ImageEncode PROVE HeapInv'
  OBVIOUS
<1>1. /\ pc = "compile" /\ UNCHANGED <<tool, parameters, reason>> /\ Live = {"input"} /\ ~misuse
      /\ heap \in [Allocations -> {"none", "live", "freed"}] /\ Required' = Required
      /\ Required \subseteq DOMAIN parameters
  BY DEF ImageEncode, HeapInv, ToolTypes, OptionsGiven, HeapMatches, MisuseMatches, Working, Required
<1>2. CASE Use({}, {"input"}, {"input"}, {}) /\ pc' \in {"format", "display"}
  <2>1. /\ heap' \in [Allocations -> {"none", "live", "freed"}] /\ ~misuse' /\ misuse' \in BOOLEAN
        /\ Live' = {}
    BY <1>1, <1>2, UseIsSound DEF Allocations
  <2>. QED
    BY <1>1, <1>2, <2>1
       DEF HeapInv, ToolTypes, OptionsGiven, HeapMatches, MisuseMatches, Working
<1>. QED
  BY <1>2 DEF ImageEncode, Finish

LEMMA ImageFormatKeeps == HeapInv /\ tool = "image" /\ ImageFormat => HeapInv'
<1>. SUFFICES ASSUME HeapInv, tool = "image", ImageFormat PROVE HeapInv'
  OBVIOUS
<1>1. /\ pc = "format" /\ UNCHANGED <<tool, parameters, reason>> /\ Live = {} /\ ~misuse
      /\ heap \in [Allocations -> {"none", "live", "freed"}] /\ Required' = Required
      /\ Required \subseteq DOMAIN parameters
      /\ {"name_pixels", "name_color_table"} \subseteq Required
  BY DEF ImageFormat, HeapInv, ToolTypes, OptionsGiven, HeapMatches, MisuseMatches, Working, Required
<1>2. CASE Use({"name_pixels", "name_color_table"}, {}, {}, {"output"}) /\ pc' = "save"
  <2>1. /\ heap' \in [Allocations -> {"none", "live", "freed"}] /\ ~misuse' /\ misuse' \in BOOLEAN
        /\ Live' = {"output"}
    BY <1>1, <1>2, UseIsSound DEF Allocations
  <2>. QED
    BY <1>1, <1>2, <2>1
       DEF HeapInv, ToolTypes, OptionsGiven, HeapMatches, MisuseMatches, Working
<1>3. CASE Use({"name_pixels", "name_color_table"}, {}, {}, {}) /\ pc' = "display"
  <2>1. /\ heap' \in [Allocations -> {"none", "live", "freed"}] /\ ~misuse' /\ misuse' \in BOOLEAN
        /\ Live' = {}
    BY <1>1, <1>3, UseIsSound DEF Allocations
  <2>. QED
    BY <1>1, <1>3, <2>1
       DEF HeapInv, ToolTypes, OptionsGiven, HeapMatches, MisuseMatches, Working
<1>. QED
  BY <1>2, <1>3 DEF ImageFormat, Finish

LEMMA SramParseKeeps == HeapInv /\ tool = "sram" /\ SramParseAndFormat => HeapInv'
<1>. SUFFICES ASSUME HeapInv, tool = "sram", SramParseAndFormat PROVE HeapInv'
  OBVIOUS
<1>1. /\ pc = "compile" /\ UNCHANGED <<tool, parameters, reason>> /\ Live = {"input"} /\ ~misuse
      /\ heap \in [Allocations -> {"none", "live", "freed"}] /\ Required' = Required
      /\ Required \subseteq DOMAIN parameters
  BY DEF SramParseAndFormat, HeapInv, ToolTypes, OptionsGiven, HeapMatches, MisuseMatches, Working, Required
<1>2. CASE Use({}, {"input"}, {"input"}, {}) /\ pc' \in {"save", "display"}
  <2>1. /\ heap' \in [Allocations -> {"none", "live", "freed"}] /\ ~misuse' /\ misuse' \in BOOLEAN
        /\ Live' = {}
    BY <1>1, <1>2, UseIsSound DEF Allocations
  <2>. QED
    BY <1>1, <1>2, <2>1
       DEF HeapInv, ToolTypes, OptionsGiven, HeapMatches, MisuseMatches, Working
<1>. QED
  BY <1>2 DEF SramParseAndFormat, Finish
-----------------------------------------------------------------------------
LEMMA TextKeeps == HeapInv /\ TextInv /\ tool = "text" /\ TextCompilerNext => HeapInv'
<1>. SUFFICES ASSUME HeapInv, TextInv, tool = "text", TextCompilerNext PROVE HeapInv'
  OBVIOUS
<1>1. CASE TextMain
  <2>1. \A arguments : Parse(TextArguments, arguments).status = "ok" =>
            Required \subseteq DOMAIN Parse(TextArguments, arguments).values
    BY ParsedIsGiven DEF Required
  <2>. QED
    BY <1>1, <2>1, MainKeeps DEF TextMain
<1>2. CASE TextLoad
  <2>1. pc = "load" /\ file \in Seq(STRING)
    BY <1>2 DEF TextLoad, Load, HeapInv, LexerFresh
  <2>2. file' \in Seq(STRING) /\ UNCHANGED <<slice, memory>> /\ Load
    BY <1>2, <2>1, TextCompilerAssumption DEF TextLoad
  <2>. QED
    BY <2>2, LoadKeeps
<1>3. CASE TextSave
  <2>1. Live = {"output"}
    BY <1>3 DEF TextSave, Save, HeapInv, HeapMatches
  <2>2. Save({"output"}, {"output"}, {"output"}, {"output"}, "ok") /\ UNCHANGED lexerVars
    BY <1>3 DEF TextSave
  <2>. QED
    BY <2>1, <2>2, SaveKeeps
<1>4. CASE TextDisplay
  <2>1. pc = "display" /\ UNCHANGED lexerVars
    BY <1>4 DEF TextDisplay, Display
  <2>2. CASE status = "lexer_parse_error"
    <3>1. {"input"} \subseteq Live /\ (~Damaged => Live \subseteq {"input"}) /\ Display({}, {"input"})
      BY <1>4, <2>1, <2>2 DEF TextDisplay, HeapInv, HeapMatches
    <3>. QED
      BY <2>1, <3>1, DisplayKeeps
  <2>3. CASE status # "lexer_parse_error"
    <3>1. (Live = {} \/ Leaks) /\ Display({}, {})
      BY <1>4, <2>1, <2>3 DEF TextDisplay, HeapInv, HeapMatches
    <3>. QED
      BY <2>1, <3>1, DisplayKeeps
  <2>. QED
    BY <2>2, <2>3
<1>. QED
  BY <1>1, <1>2, <1>3, <1>4, TextLexerParseKeeps, TextLexerStepKeeps, TextLexerExitKeeps,
     TextCrashKeeps, TextFormatKeeps DEF TextCompilerNext

LEMMA FontKeeps == HeapInv /\ tool = "font" /\ FontCompilerNext /\ UNCHANGED lexerVars => HeapInv'
<1>. SUFFICES ASSUME HeapInv, tool = "font", FontCompilerNext, UNCHANGED lexerVars PROVE HeapInv'
  OBVIOUS
<1>1. CASE FontMain
  <2>1. \A arguments : Parse(FontArguments, arguments).status = "ok" =>
            Required \subseteq DOMAIN Parse(FontArguments, arguments).values
    BY ParsedIsGiven DEF Required
  <2>. QED
    BY <1>1, <2>1, MainKeeps DEF FontMain
<1>2. CASE FontLoad
  BY <1>2, LoadKeeps DEF FontLoad, Load, HeapInv, LexerFresh, lexerVars
<1>3. CASE FontSave
  <2>1. Live = {"output"}
    BY <1>3 DEF FontSave, Save, HeapInv, HeapMatches
  <2>2. Save({"output"}, {"output"}, {}, {"output"}, "not_found")
    BY <1>3 DEF FontSave
  <2>. QED
    BY <2>1, <2>2, SaveKeeps
<1>4. CASE FontDisplay
  <2>1. (Live = {} \/ Leaks) /\ Display({}, {})
    BY <1>4 DEF FontDisplay, Display, HeapInv, HeapMatches
  <2>. QED
    BY <2>1, DisplayKeeps
<1>. QED
  BY <1>1, <1>2, <1>3, <1>4, FontParseKeeps DEF FontCompilerNext

LEMMA ImageKeeps ==
    HeapInv /\ tool = "image" /\ ImageCompilerNext /\ UNCHANGED lexerVars => HeapInv'
<1>. SUFFICES ASSUME HeapInv, tool = "image", ImageCompilerNext, UNCHANGED lexerVars PROVE HeapInv'
  OBVIOUS
<1>1. CASE ImageMain
  <2>1. \A arguments : Parse(ImageArguments, arguments).status = "ok" =>
            Required \subseteq DOMAIN Parse(ImageArguments, arguments).values
    BY ParsedIsGiven DEF Required
  <2>. QED
    BY <1>1, <2>1, MainKeeps DEF ImageMain
<1>2. CASE ImageLoad
  BY <1>2, LoadKeeps DEF ImageLoad, Load, HeapInv, LexerFresh, lexerVars
<1>3. CASE ImageSave
  <2>1. Live = {"output"}
    BY <1>3 DEF ImageSave, Save, HeapInv, HeapMatches
  <2>2. Save({"output"}, {}, {"output"}, {"output"}, "ok")
    BY <1>3 DEF ImageSave
  <2>. QED
    BY <2>1, <2>2, SaveKeeps
<1>4. CASE ImageDisplay
  <2>1. (Live = {} \/ Leaks) /\ Display({}, {})
    BY <1>4 DEF ImageDisplay, Display, HeapInv, HeapMatches
  <2>. QED
    BY <2>1, DisplayKeeps
<1>. QED
  BY <1>1, <1>2, <1>3, <1>4, ImageEncodeKeeps, ImageFormatKeeps DEF ImageCompilerNext

LEMMA SramKeeps == HeapInv /\ tool = "sram" /\ SramDumperNext /\ UNCHANGED lexerVars => HeapInv'
<1>. SUFFICES ASSUME HeapInv, tool = "sram", SramDumperNext, UNCHANGED lexerVars PROVE HeapInv'
  OBVIOUS
<1>1. CASE SramMain
  <2>1. \A arguments : Parse(SramArguments, arguments).status = "ok" =>
            Required \subseteq DOMAIN Parse(SramArguments, arguments).values
    BY ParsedIsGiven DEF Required
  <2>. QED
    BY <1>1, <2>1, MainKeeps DEF SramMain
<1>2. CASE SramLoad
  BY <1>2, LoadKeeps DEF SramLoad, Load, HeapInv, LexerFresh, lexerVars
<1>3. CASE SramSave
  <2>1. Live = {}
    BY <1>3 DEF SramSave, Save, HeapInv, HeapMatches
  <2>2. Save({}, {}, {}, {}, "ok")
    BY <1>3 DEF SramSave
  <2>. QED
    BY <2>1, <2>2, SaveKeeps
<1>4. CASE SramDisplay
  <2>1. (Live = {} \/ Leaks) /\ Display({}, {})
    BY <1>4 DEF SramDisplay, Display, HeapInv, HeapMatches
  <2>. QED
    BY <2>1, DisplayKeeps
<1>. QED
  BY <1>1, <1>2, <1>3, <1>4, SramParseKeeps DEF SramDumperNext

(* The texts, from the lexer to the output.                                   *)

LEMMA WrittenFromSlices ==
    ASSUME LexerTypes, SlicesInv, ~irregular, ~Damaged, func = "exited", parse_status = "ok"
    PROVE  LET strings == string_array.strings
           IN  \A n \in DOMAIN strings :
                  /\ Quoted(strings[n].text)
                  /\ WholeWord(strings[n].identifier_data)
                  /\ WholeWord(strings[n].identifier_length)
                  /\ n > 1 => InOrder(strings[n - 1], strings[n])
<1>. DEFINE strings == string_array.strings
<1>1. /\ strings \in Seq([Fields -> Slice]) /\ DOMAIN strings = 1 .. Top /\ Top \in Nat
      /\ \A n \in 1 .. Top : strings[n] # Lost
  BY DEF LexerTypes, Top, Damaged
<1>2. ASSUME NEW n \in 1 .. Top PROVE \A field \in Fields : Placed(field, strings[n][field])
  BY <1>1, ValuesArePlaced
<1>3. ASSUME NEW n \in 1 .. Top, n > 1 PROVE InOrder(strings[n - 1], strings[n])
  <2>1. OrderInv(n)
    BY <1>1, <1>3 DEF SlicesInv
  <2>2. ASSUME NEW first \in Fields, NEW next \in Fields
        PROVE  SliceEnd(strings[n - 1][first]) < strings[n][next].ptr
    <3>1. strings[n][next].characters # 0
      BY <1>2, <2>2 DEF Placed, Before
    <3>. QED
      BY <2>1, <2>2, <3>1 DEF OrderInv
  <2>. QED
    BY <2>2 DEF InOrder
<1>4. ASSUME NEW n \in 1 .. Top
      PROVE  /\ Quoted(strings[n].text)
             /\ WholeWord(strings[n].identifier_data)
             /\ WholeWord(strings[n].identifier_length)
  <2>1. \A field \in Fields : Placed(field, strings[n][field])
    BY <1>2, <1>4
  <2>2. Quoted(strings[n]["text"])
    BY <2>1 DEF Placed, Fields
  <2>3. WholeWord(strings[n]["identifier_data"])
    BY <2>1 DEF Placed, Fields
  <2>4. WholeWord(strings[n]["identifier_length"])
    BY <2>1 DEF Placed, Fields
  <2>. QED
    BY <2>2, <2>3, <2>4
<1>. QED
  BY <1>1, <1>3, <1>4

LEMMA TextLexerParseHolds == tool = "text" /\ TextInv /\ TextLexerParse => TextInv'
<1>. SUFFICES ASSUME tool = "text", TextInv, TextLexerParse PROVE TextInv'
  OBVIOUS
<1>1. CASE LexerBegin /\ pc' = "lex"
  <2>1. /\ func' = "initial"
        /\ string_array' = [strings |-> <<>>, ptr |-> "live", capacity |-> 1]
    BY <1>1 DEF LexerBegin
  <2>2. Top' = 0 /\ ~InEntry'
    BY <2>1 DEF Top, InEntry, EntryStates, CommentStates
  <2>3. SlicesInv'
    BY <2>1, <2>2 DEF SlicesInv, ReadingInv, ReadingStates
  <2>. QED
    BY <1>1, <2>3 DEF TextInv, TextIsAsWritten
<1>2. CASE Finish("out_of_memory")
  BY <1>2 DEF Finish, TextInv, TextIsAsWritten
<1>. QED
  BY <1>1, <1>2 DEF TextLexerParse

LEMMA TextLexerExitHolds == tool = "text" /\ HeapInv /\ TextInv /\ TextLexerExit => TextInv'
<1>. SUFFICES ASSUME tool = "text", HeapInv, TextInv, TextLexerExit PROVE TextInv'
  OBVIOUS
<1>1. /\ pc = "lex" /\ func = "exited" /\ LexerTypes /\ SlicesInv /\ UNCHANGED <<tool, lexerVars>>
  BY DEF TextLexerExit, HeapInv, TextInv
<1>2. LexerTypes' /\ SlicesInv'
  <2>1. UNCHANGED <<file, slice, func, shared, state_prev, string_array, parse_status, irregular>>
    BY <1>1 DEF lexerVars, memory
  <2>2. LexerTypes'
    BY <1>1, <2>1 DEF LexerTypes, InEntry, Top
  <2>3. SlicesInv'
    BY <1>1, <2>1
       DEF SlicesInv, StringInv, OrderInv, ReadingInv, Unfinished, InEntry, Reading, Top, Value,
           Placed, Before, Quoted, WholeWord, SliceEnd
  <2>. QED
    BY <2>2, <2>3
<1>3. CASE parse_status = "ok" /\ pc' = "format"
  BY <1>1, <1>2, <1>3 DEF TextInv, TextIsAsWritten, lexerVars
<1>4. CASE Finish("lexer_parse_error")
  BY <1>4 DEF Finish, TextInv, TextIsAsWritten
<1>. QED
  BY <1>3, <1>4 DEF TextLexerExit

LEMMA TextFormatHolds == tool = "text" /\ TextInv /\ TextFormat => TextInv'
<1>. SUFFICES ASSUME tool = "text", TextInv, TextFormat PROVE TextInv'
  OBVIOUS
<1>1. /\ LexerTypes /\ SlicesInv /\ ~Damaged /\ func = "exited" /\ parse_status = "ok"
      /\ UNCHANGED <<tool, lexerVars>>
  BY DEF TextFormat, TextInv
<1>2. CASE pc' = "save"
  <2>1. UNCHANGED <<file, func, string_array, parse_status, irregular>>
    BY <1>1 DEF lexerVars, memory
  <2>. DEFINE strings == string_array.strings
              AllWritten ==
                  \A n \in DOMAIN strings :
                      /\ Quoted(strings[n].text)
                      /\ WholeWord(strings[n].identifier_data)
                      /\ WholeWord(strings[n].identifier_length)
                      /\ n > 1 => InOrder(strings[n - 1], strings[n])
  <2>2. ~irregular => AllWritten
    BY <1>1, WrittenFromSlices
  <2>3. AllWritten => AllWritten'
    BY <2>1 DEF Quoted, WholeWord, InOrder, SliceEnd
  <2>4. (~irregular => AllWritten)' => TextIsAsWritten'
    BY DEF TextIsAsWritten
  <2>5. TextIsAsWritten'
    BY <2>1, <2>2, <2>3, <2>4
  <2>. QED
    BY <1>1, <1>2, <2>1, <2>5 DEF TextInv
<1>3. CASE Finish("out_of_memory")
  BY <1>3 DEF Finish, TextInv, TextIsAsWritten
<1>. QED
  BY <1>2, <1>3 DEF TextFormat

LEMMA TextHolds == tool = "text" /\ HeapInv /\ TextInv /\ TextCompilerNext => TextInv'
<1>. SUFFICES ASSUME tool = "text", HeapInv, TextInv, TextCompilerNext PROVE TextInv'
  OBVIOUS
<1>1. CASE TextMain
  BY <1>1 DEF TextMain, Main, Finish, TextInv, TextIsAsWritten
<1>2. CASE TextLoad
  BY <1>2 DEF TextLoad, Load, Finish, TextInv, TextIsAsWritten
<1>3. CASE TextLexerStep
  BY <1>3, LexerSlices DEF TextLexerStep, HeapInv, LexerInv, TextInv, TextIsAsWritten
<1>4. CASE TextCrash
  BY <1>4 DEF TextCrash, TextInv, TextIsAsWritten
<1>5. CASE TextSave
  BY <1>5 DEF TextSave, Save, Finish, TextInv, TextIsAsWritten
<1>6. CASE TextDisplay
  BY <1>6 DEF TextDisplay, Display, TextInv, TextIsAsWritten
<1>. QED
  BY <1>1, <1>2, <1>3, <1>4, <1>5, <1>6, TextLexerParseHolds, TextLexerExitHolds,
     TextFormatHolds DEF TextCompilerNext

LEMMA NextKeepsTool == [Next]_vars => tool' = tool
BY DEF Next, vars, toolVars, TextCompilerNext, TextMain, TextLoad, TextLexerParse,
       TextLexerStep, TextLexerExit, TextCrash, TextFormat, TextSave, TextDisplay,
       ImageCompilerNext, ImageMain, ImageLoad, ImageEncode, ImageFormat, ImageSave,
       ImageDisplay, FontCompilerNext, FontMain, FontLoad, FontParse, FontSave, FontDisplay,
       SramDumperNext, SramMain, SramLoad, SramParseAndFormat, SramSave, SramDisplay,
       Main, Load, Save, Display

LEMMA NextKeepsHeap == HeapInv /\ TextInv /\ [Next]_vars => HeapInv'
<1>. SUFFICES ASSUME HeapInv, TextInv, [Next]_vars PROVE HeapInv'
  OBVIOUS
<1>1. CASE UNCHANGED vars
  <2>1. Readable' <=> Readable
    BY <1>1, ReadableStays DEF vars, lexerVars, memory
  <2>. QED
    BY <1>1, <2>1
       DEF vars, toolVars, lexerVars, memory, HeapInv, ToolTypes, OptionsGiven, HeapMatches,
           MisuseMatches, LexerFresh, LexerTypes, ArrayMatches, Required, Live, Leaks, Damaged,
           InEntry, Top
<1>. QED
  BY <1>1, TextKeeps, FontKeeps, ImageKeeps, SramKeeps DEF Next

LEMMA NextKeepsText == HeapInv /\ TextInv /\ [Next]_vars => TextInv'
<1>. SUFFICES ASSUME HeapInv, TextInv, [Next]_vars PROVE TextInv'
  OBVIOUS
<1>1. CASE UNCHANGED vars
  <2>1. UNCHANGED <<tool, pc, file, slice, func, shared, state_prev, string_array, parse_status,
                    irregular>>
    BY <1>1 DEF vars, toolVars, lexerVars, memory
  <2>2. LexerTypes => LexerTypes'
    BY <2>1 DEF LexerTypes, InEntry, Top
  <2>3. SlicesInv => SlicesInv'
    BY <2>1
       DEF SlicesInv, StringInv, OrderInv, ReadingInv, Unfinished, InEntry, Reading, Top, Value,
           Placed, Before, Quoted, WholeWord, SliceEnd
  <2>4. TextIsAsWritten => TextIsAsWritten'
    BY <2>1 DEF TextIsAsWritten, Quoted, WholeWord, InOrder, SliceEnd
  <2>. QED
    BY <2>1, <2>2, <2>3, <2>4 DEF TextInv
<1>2. CASE tool = "text" /\ TextCompilerNext
  BY <1>2, TextHolds
<1>3. CASE tool # "text" /\ tool' = tool
  BY <1>3 DEF TextInv, TextIsAsWritten
<1>4. tool' = tool
  BY NextKeepsTool
<1>. QED
  BY <1>1, <1>2, <1>3, <1>4 DEF Next

(* Each needs the other: the lexer runs only on memory that is there, and the formatter
   only misuses what the lexer was misled about. *)
LEMMA InvariantsHold == Spec => [](HeapInv /\ TextInv)
<1>1. Init => TextInv
  BY DEF Init, ToolInit, TextInv, TextIsAsWritten
<1>. QED
  BY <1>1, InitHeapInv, NextKeepsHeap, NextKeepsText, PTL DEF Spec

(* The heap, the options and the array of the lexer are consistent at every step,
   whichever of them fails. *)
THEOREM HeapInvariantHolds == Spec => []HeapInv
BY InvariantsHold, PTL

(* The slices and the place of every value, through every step of the text compiler. *)
THEOREM TextInvariantHolds == Spec => []TextInv
BY InvariantsHold, PTL

(* Whatever the command line and the file, and whichever step fails, memory is used
   and freed only while it is there, nothing is read beyond the file, no code is reached
   that is marked unreachable, and all memory is freed at the end, except in the places
   HeapIsSound names (tux64_*_main of the four programs, lexer.c, formatter.c). *)
THEOREM HeapsAreSound == Spec => []HeapIsSound
<1>1. HeapInv => HeapIsSound
  BY DEF HeapInv, HeapMatches, MisuseMatches, HeapIsSound, Leaks
<1>. QED
  BY <1>1, HeapInvariantHolds, PTL

(* Whatever the file, where the lexer is not misled by a newline inside a value or
   a field given twice, each text that is written out is what the file has between
   two quotes, the identifiers are whole words of the file, and the strings keep
   their order (lexer.c, the string entry states and tux64_textcompiler_lexer_parse). *)
THEOREM TextsAreAsWritten == Spec => []TextIsAsWritten
<1>1. TextInv => TextIsAsWritten
  BY DEF TextInv
<1>. QED
  BY <1>1, TextInvariantHolds, PTL
-----------------------------------------------------------------------------
(* The dump, from the SRAM to the text.                                       *)

DumpInv ==
    /\ tool = "sram" /\ pc \in {"compile", "save"} => input \in Srams
    /\ tool = "sram" /\ pc = "save" =>
          Len(input.sram) >= MinimumWords /\ output = SramFormat(SramParse(input.sram))

LEMMA DigitsAndNames ==
    /\ "0" \in CharactersIn(Digits)
    /\ \E S : RegisterNames \in Seq(S)
    /\ Len(RegisterNames) = 32 /\ DOMAIN RegisterNames = 1 .. 32 /\ MinimumWords = 39
    /\ DOMAIN SpecialRegisterNames = 1 .. 3 /\ SpecialRegisterNames[1] = "pc"
    /\ SpecialRegisterNames[2] = "lo" /\ SpecialRegisterNames[3] = "hi"
<1>1. Digits[1] = "0" /\ 1 \in DOMAIN Digits
  BY DEF Digits
<1>2. Len(RegisterNames) = 32 /\ DOMAIN RegisterNames = 1 .. 32
  BY DEF RegisterNames
<1>3. RegisterNames = [i \in 1 .. 32 |-> RegisterNames[i]]
  BY DEF RegisterNames
<1>. DEFINE S == {RegisterNames[i] : i \in 1 .. 32}
<1>4. \A i \in 1 .. 32 : RegisterNames[i] \in S
  OBVIOUS
<1>. HIDE DEF S
<1>5. RegisterNames \in Seq(S)
  BY <1>3, <1>4
<1>6. /\ Len(SpecialRegisterNames) = 3 /\ DOMAIN SpecialRegisterNames = 1 .. 3
      /\ SpecialRegisterNames[1] = "pc" /\ SpecialRegisterNames[2] = "lo"
      /\ SpecialRegisterNames[3] = "hi"
  BY DEF SpecialRegisterNames
<1>7. MinimumWords = 39
  BY <1>2, <1>6 DEF MinimumWords
<1>. QED
  BY <1>1, <1>2, <1>5, <1>6, <1>7, Zenon DEF CharactersIn

HasBoth(stack, g, h) ==
    DOMAIN stack = 1 .. 35 /\ (\A i \in 1 .. 32 : stack[i] = g[i]) /\ stack[33] = h[1]

LEMMA JoinedStack ==
    ASSUME NEW S, NEW g, NEW h
    PROVE  g \in Seq(S) /\ h \in Seq(S) /\ Len(g) = 32 /\ Len(h) = 3 => HasBoth(g \o h, g, h)
<1>1. g \in Seq(S) /\ h \in Seq(S) =>
      /\ DOMAIN (g \o h) = 1 .. Len(g) + Len(h)
      /\ \A i \in 1 .. Len(g) : (g \o h)[i] = g[i]
      /\ \A i \in 1 .. Len(h) : (g \o h)[Len(g) + i] = h[i]
  BY ConcatOf
<1>2. PICK m, n, k : m = 32 /\ n = 3 /\ k = 35
  OBVIOUS
<1>3. k = m + n
  BY <1>2
<1>4. (g \in Seq(S) /\ h \in Seq(S) /\ Len(g) = m /\ Len(h) = n) =>
      /\ DOMAIN (g \o h) = 1 .. k
      /\ \A i \in 1 .. m : (g \o h)[i] = g[i]
      /\ \A i \in 1 .. n : (g \o h)[m + i] = h[i]
  BY <1>1, <1>3, Zenon
<1>5. 32 + 1 = 33 /\ 1 \in 1 .. 3
  OBVIOUS
<1>. QED
  BY <1>2, <1>4, <1>5, Zenon DEF HasBoth

HasNinth(rows, g, x) ==
    DOMAIN rows = 1 .. 9 /\ rows[9] = x /\ \A n \in 1 .. 8 : rows[n] = g[n]

LEMMA NinthRow ==
    ASSUME NEW S, NEW g, NEW x
    PROVE  g \in Seq(S) /\ x \in S /\ Len(g) = 8 => HasNinth(Append(g, x), g, x)
<1>1. PICK m : m = 8
  OBVIOUS
<1>2. m \in Nat
  BY <1>1
<1>3. 8 + 1 = 9
  OBVIOUS
<1>4. g \in Seq(S) /\ x \in S /\ Len(g) = m =>
        /\ DOMAIN Append(g, x) = 1 .. m + 1 /\ Append(g, x)[m + 1] = x
        /\ \A n \in 1 .. m : Append(g, x)[n] = g[n]
  BY <1>2, AppendOf
<1>. QED
  BY <1>1, <1>3, <1>4, Zenon DEF HasNinth

(* What stage 0 pushes: the named registers in order, the program counter, hi, lo. *)
LEMMA StackIs ==
    ASSUME NEW cpu
    PROVE  /\ DOMAIN Stack(cpu) = 1 .. 35
           /\ \A i \in 1 .. 32 : Stack(cpu)[i] = cpu[RegisterNames[i]]
           /\ Stack(cpu)[33] = cpu.pc
<1>. DEFINE general == [i \in DOMAIN RegisterNames |-> cpu[RegisterNames[i]]]
            special == <<cpu.pc, cpu.hi, cpu.lo>>
            S == {general[i] : i \in 1 .. 32} \cup {special[i] : i \in 1 .. 3}
<1>1. /\ DOMAIN general = 1 .. 32 /\ \A i \in 1 .. 32 : general[i] = cpu[RegisterNames[i]]
  BY DigitsAndNames
<1>2. /\ \A i \in 1 .. 32 : general[i] \in S
      /\ special[1] \in S /\ special[2] \in S /\ special[3] \in S
  OBVIOUS
<1>3. Stack(cpu) = general \o special
  BY DEF Stack
<1>4. general = [i \in 1 .. 32 |-> general[i]]
  BY DigitsAndNames
<1>5. special = <<special[1], special[2], special[3]>> /\ special[1] = cpu.pc
  OBVIOUS
<1>. HIDE DEF general, special, S
<1>6. general \in Seq(S) /\ Len(general) = 32
  BY <1>2, <1>4
<1>7. special \in Seq(S) /\ Len(special) = 3
  <2>1. PICK a \in S, b \in S, c \in S : special = <<a, b, c>>
    BY <1>2, <1>5, Zenon
  <2>. QED
    BY <2>1
<1>8. HasBoth(Stack(cpu), general, special)
  BY <1>3, <1>6, <1>7, JoinedStack, Zenon
<1>. QED
  BY <1>1, <1>5, <1>8, Zenon DEF HasBoth

LEMMA CodeIsParsed ==
    ASSUME NEW code, code \in CharactersIn(Upper)
    PROVE  ParseStatusCode(StatusWordHi, StatusWordLo(code)) = <<"0", code>>
<1>. DEFINE lo == StatusWordLo(code)
<1>1. lo[1] = "E" /\ lo[2] = "0" /\ lo[3] = ":" /\ lo[4] = code
  BY DEF StatusWordLo
<1>. QED
  BY <1>1, DigitsAndNames DEF ParseStatusCode

(* The words of an SRAM that holds a dump. *)
LEMMA WordsOfDump ==
    ASSUME NEW content, HoldsDump(content), Len(content.sram) \in Nat,
           DOMAIN content.sram = 1 .. Len(content.sram), Len(content.sram) >= MinimumWords
    PROVE  /\ content.sram[1] = StatusWordHi /\ content.sram[3] = StatusWordHi
           /\ content.sram[2] = StatusWordLo(content.last[2])
           /\ content.sram[4] = StatusWordLo(content.code[2])
           /\ \A i \in 1 .. 35 : content.sram[4 + i] = Stack(content.cpu)[i]
<1>. DEFINE sram == content.sram
            dumped == DumpToSram(sram, content.code[2], content.cpu)
<1>1. sram = [dumped EXCEPT ![2] = StatusWordLo(content.last[2])]
  BY DEF HoldsDump, StatusCodeWrite
<1>2. 1 .. 39 \subseteq DOMAIN sram /\ DOMAIN sram \subseteq Int
  BY DigitsAndNames
<1>3. /\ DOMAIN dumped = DOMAIN sram
      /\ dumped[1] = StatusWordHi /\ dumped[3] = StatusWordHi
      /\ dumped[4] = StatusWordLo(content.code[2])
      /\ \A i \in 1 .. 35 : dumped[4 + i] = Stack(content.cpu)[i]
  <2>. DEFINE stack == Stack(content.cpu)
  <2>1. DOMAIN stack = 1 .. 35
    BY StackIs
  <2>. HIDE DEF stack
  <2>2. dumped = [i \in DOMAIN sram |->
                    CASE i \in {1, 3} -> StatusWordHi
                      [] i = 4 -> StatusWordLo(content.code[2])
                      [] i > 4 /\ i - 4 \in DOMAIN stack -> stack[i - 4]
                      [] OTHER -> sram[i]]
    BY Zenon DEF DumpToSram, stack
  <2>. HIDE DEF sram, dumped
  <2>3. /\ DOMAIN dumped = DOMAIN sram
        /\ dumped[1] = StatusWordHi /\ dumped[3] = StatusWordHi
        /\ dumped[4] = StatusWordLo(content.code[2])
    BY <1>2, <2>2
  <2>4. ASSUME NEW i \in 1 .. 35 PROVE dumped[4 + i] = stack[i]
    <3>1. PICK k : k = 4 + i
      OBVIOUS
    <3>2. k \in 1 .. 39 /\ k \notin {1, 3} /\ k # 4 /\ k > 4 /\ k - 4 = i /\ i \in DOMAIN stack
      BY <2>1, <3>1
    <3>3. k \in DOMAIN sram
      BY <1>2, <3>2
    <3>4. dumped[k] = stack[k - 4]
      BY <2>2, <3>2, <3>3
    <3>. QED
      BY <3>1, <3>2, <3>4
  <2>. QED
    BY <2>3, <2>4 DEF stack
<1>. HIDE DEF sram, dumped
<1>4. /\ sram[1] = StatusWordHi /\ sram[3] = StatusWordHi
      /\ sram[2] = StatusWordLo(content.last[2])
      /\ sram[4] = StatusWordLo(content.code[2])
      /\ \A i \in 1 .. 35 : sram[4 + i] = Stack(content.cpu)[i]
  BY <1>1, <1>2, <1>3
<1>. QED
  BY <1>4 DEF sram

(* The words of the registers, in the order they were pushed. *)
LEMMA RegistersOfDump ==
    ASSUME NEW content, HoldsDump(content), Len(content.sram) \in Nat,
           DOMAIN content.sram = 1 .. Len(content.sram), Len(content.sram) >= MinimumWords
    PROVE  /\ \E S : SubSeq(content.sram, 5, 36) \in Seq(S)
           /\ Len(SubSeq(content.sram, 5, 36)) = 32
           /\ \A i \in 1 .. 32 :
                 SubSeq(content.sram, 5, 36)[i] = content.cpu[RegisterNames[i]]
           /\ SubSeq(content.sram, 37, 39)[1] = content.cpu.pc
<1>. DEFINE S == {content.sram[i] : i \in 1 .. Len(content.sram)}
<1>1. \A i \in 1 .. Len(content.sram) : content.sram[i] \in S
  OBVIOUS
<1>. HIDE DEF S
<1>2. content.sram = [i \in 1 .. Len(content.sram) |-> content.sram[i]]
  BY DEF HoldsDump, StatusCodeWrite
<1>. DEFINE words == Len(content.sram)
<1>3. PICK sram : sram = content.sram
  OBVIOUS
<1>4. words \in Nat /\ words >= 39 /\ sram = [i \in 1 .. words |-> sram[i]]
      /\ \A i \in 1 .. words : sram[i] \in S
  BY <1>1, <1>2, <1>3, DigitsAndNames
<1>5. Len(sram) = words
  BY <1>3
<1>. HIDE DEF words
<1>6. sram \in Seq(S)
  BY <1>4
<1>7. /\ SubSeq(sram, 5, 36) \in Seq(S) /\ Len(SubSeq(sram, 5, 36)) = 32
      /\ \A i \in 1 .. 32 : SubSeq(sram, 5, 36)[i] = sram[5 + i - 1]
  <2>1. PICK m, n, size : m = 5 /\ n = 36 /\ size = 32
    OBVIOUS
  <2>2. m \in 1 .. Len(sram) /\ n \in 1 .. Len(sram) /\ m <= n /\ size = n - m + 1
    BY <1>4, <1>5, <2>1
  <2>3. /\ SubSeq(sram, m, n) \in Seq(S) /\ Len(SubSeq(sram, m, n)) = size
        /\ \A i \in 1 .. size : SubSeq(sram, m, n)[i] = sram[m + i - 1]
    BY <1>6, <2>2, PartOf
  <2>. QED
    BY <2>1, <2>3, Zenon
<1>8. SubSeq(sram, 37, 39)[1] = sram[37 + 1 - 1]
  <2>1. PICK m, n, i : m = 37 /\ n = 39 /\ i = 1
    OBVIOUS
  <2>2. /\ m \in 1 .. Len(sram) /\ n \in 1 .. Len(sram) /\ m <= n
        /\ i \in 1 .. n - m + 1
    BY <1>4, <1>5, <2>1
  <2>3. SubSeq(sram, m, n)[i] = sram[m + i - 1]
    BY <1>6, <2>2, PartOf
  <2>. QED
    BY <2>1, <2>3, Zenon
<1>9. \A i \in 1 .. 35 : sram[4 + i] = Stack(content.cpu)[i]
  BY <1>3, WordsOfDump
<1>10. ASSUME NEW i \in 1 .. 32 PROVE sram[5 + i - 1] = content.cpu[RegisterNames[i]]
  <2>1. 5 + i - 1 = 4 + i /\ i \in 1 .. 35
    OBVIOUS
  <2>. QED
    BY <1>9, <2>1, StackIs, Zenon
<1>11. sram[37 + 1 - 1] = content.cpu.pc
  <2>1. 37 + 1 - 1 = 4 + 33 /\ 33 \in 1 .. 35
    OBVIOUS
  <2>. QED
    BY <1>9, <2>1, StackIs, Zenon
<1>12. /\ SubSeq(sram, 5, 36) \in Seq(S) /\ Len(SubSeq(sram, 5, 36)) = 32
       /\ \A i \in 1 .. 32 : SubSeq(sram, 5, 36)[i] = content.cpu[RegisterNames[i]]
       /\ SubSeq(sram, 37, 39)[1] = content.cpu.pc
  BY <1>7, <1>8, <1>10, <1>11
<1>. QED
  BY <1>3, <1>12

(* The rows of the register file. *)
RowsShow(rows, cpu) ==
    /\ rows = [n \in 1 .. 8 |-> rows[n]]
    /\ \A n \in 1 .. 8 : \A i \in DOMAIN rows[n].names :
          rows[n].registers[i] = cpu[rows[n].names[i]]

LEMMA RowsAre ==
    ASSUME NEW cpu, NEW S, NEW general \in Seq(S), Len(general) = 32,
           \A i \in 1 .. 32 : general[i] = cpu[RegisterNames[i]]
    PROVE  RowsShow(FormatRegisterFile(general), cpu)
<1>. DEFINE rows == FormatRegisterFile(general)
            row(n) == Row(SubSeq(RegisterNames, (n - 1) * 4 + 1, n * 4),
                          SubSeq(general, (n - 1) * 4 + 1, n * 4))
<1>1. Len(RegisterNames) \div RegistersPerRow = 8 /\ RegistersPerRow = 4
  BY DigitsAndNames DEF RegistersPerRow
<1>2. rows = [n \in 1 .. 8 |-> row(n)]
  BY <1>1, Zenon DEF FormatRegisterFile
<1>3. ASSUME NEW n \in 1 .. 8, NEW i \in DOMAIN row(n).names
      PROVE  row(n).registers[i] = cpu[row(n).names[i]]
  <2>1. PICK first, last, size, index :
            first = (n - 1) * 4 + 1 /\ last = n * 4 /\ size = 4 /\ index = 32
    OBVIOUS
  <2>2. /\ first \in 1 .. index /\ last \in 1 .. index /\ first <= last
        /\ size = last - first + 1 /\ \A k \in 1 .. size : first + k - 1 \in 1 .. index
    BY <2>1
  <2>3. Len(RegisterNames) = index /\ Len(general) = index
    BY <2>1, DigitsAndNames, Zenon
  <2>4. PICK T : RegisterNames \in Seq(T)
    BY DigitsAndNames, Zenon
  <2>5. PICK names, parts : names = RegisterNames /\ parts = general
    OBVIOUS
  <2>6. names \in Seq(T) /\ parts \in Seq(S) /\ Len(names) = index /\ Len(parts) = index
    BY <2>3, <2>4, <2>5, Zenon
  <2>7. /\ DOMAIN SubSeq(names, first, last) = 1 .. size
        /\ \A k \in 1 .. size : SubSeq(names, first, last)[k] = names[first + k - 1]
    BY <2>2, <2>6, PartOf
  <2>8. \A k \in 1 .. size : SubSeq(parts, first, last)[k] = parts[first + k - 1]
    BY <2>2, <2>6, PartOf
  <2>9. row(n) = [names |-> SubSeq(names, first, last), registers |-> SubSeq(parts, first, last)]
    BY <2>1, <2>5, Zenon DEF Row
  <2>10. PICK a, b : a = SubSeq(names, first, last) /\ b = SubSeq(parts, first, last)
    OBVIOUS
  <2>11. row(n) = [names |-> a, registers |-> b]
    BY <2>9, <2>10, Zenon
  <2>. HIDE DEF row
  <2>12. row(n).names = a /\ row(n).registers = b
    BY <2>11
  <2>13. i \in 1 .. size /\ row(n).names[i] = names[first + i - 1]
        /\ row(n).registers[i] = parts[first + i - 1]
    BY <2>7, <2>8, <2>10, <2>12, Zenon
  <2>14. parts[first + i - 1] = cpu[names[first + i - 1]]
    BY <2>1, <2>2, <2>5, <2>13, Zenon
  <2>. QED
    BY <2>13, <2>14, Zenon
<1>. HIDE DEF row, rows
<1>4. \A n \in 1 .. 8 : rows[n] = row(n)
  BY <1>2
<1>5. rows = [n \in 1 .. 8 |-> rows[n]]
  BY <1>2
<1>. QED
  <2>1. ASSUME NEW n \in 1 .. 8, NEW i \in DOMAIN rows[n].names
        PROVE  rows[n].registers[i] = cpu[rows[n].names[i]]
    <3>1. rows[n] = row(n)
      BY <1>4
    <3>2. i \in DOMAIN row(n).names
      BY <2>1, <3>1, Zenon
    <3>3. row(n).registers[i] = cpu[row(n).names[i]]
      BY <1>3, <3>2, Zenon
    <3>. QED
      BY <3>1, <3>3, Zenon
  <2>2. RowsShow(rows, cpu)
    BY <1>5, <2>1 DEF RowsShow
  <2>. QED
    BY <2>2 DEF rows

IsWhole(content) ==
    /\ HoldsDump(content) /\ Len(content.sram) \in Nat
    /\ DOMAIN content.sram = 1 .. Len(content.sram) /\ Len(content.sram) >= MinimumWords

ShowsDump(content, text) ==
    /\ text.status_codes = <<content.last, content.code>>
    /\ \A n \in DOMAIN text.rows : \A i \in DOMAIN text.rows[n].names :
          text.rows[n].names[i] \notin {"lo", "hi"} =>
              text.rows[n].registers[i] = content.cpu[text.rows[n].names[i]]

LEMMA SramIsRead ==
    ASSUME NEW content, IsWhole(content),
           NEW text, text = SramFormat(SramParse(content.sram))
    PROVE  ShowsDump(content, text)
<1>. DEFINE general == SubSeq(content.sram, 5, 36)
            special == SubSeq(content.sram, 37, 39)
            rows == FormatRegisterFile(general)
            shown == Row(SpecialRegisterNames, special)
<1>1. /\ ParseStatusCode(content.sram[1], content.sram[2]) = content.last
      /\ ParseStatusCode(content.sram[3], content.sram[4]) = content.code
  <2>1. /\ content.last[2] \in CharactersIn(Upper) /\ content.code[2] \in CharactersIn(Upper)
        /\ content.last = <<"0", content.last[2]>> /\ content.code = <<"0", content.code[2]>>
    BY DEF HoldsDump, IsWhole
  <2>2. /\ ParseStatusCode(StatusWordHi, StatusWordLo(content.last[2])) = content.last
        /\ ParseStatusCode(StatusWordHi, StatusWordLo(content.code[2])) = content.code
    BY <2>1, CodeIsParsed, Zenon
  <2>. QED
    BY <2>2, WordsOfDump, Zenon DEF IsWhole
<1>2. 4 + Len(RegisterNames) = 36 /\ 5 + Len(RegisterNames) = 37 /\ MinimumWords = 39
  BY DigitsAndNames
<1>3. /\ text.status_codes = <<content.last, content.code>>
      /\ text.rows = Append(rows, shown)
  <2>1. SramParse(content.sram) =
            [last_written |-> content.last, time_of_dump |-> content.code,
             register_file |-> general, special_registers |-> special]
    BY <1>1, <1>2, Zenon DEF SramParse
  <2>. HIDE DEF general, special
  <2>. QED
    BY <2>1 DEF SramFormat
<1>4. special[1] = content.cpu.pc /\ RowsShow(rows, content.cpu)
  <2>1. /\ \E S : general \in Seq(S)
        /\ Len(general) = 32 /\ special[1] = content.cpu.pc
        /\ \A i \in 1 .. 32 : general[i] = content.cpu[RegisterNames[i]]
    BY RegistersOfDump, Zenon DEF IsWhole
  <2>2. PICK S : general \in Seq(S)
    BY <2>1
  <2>. HIDE DEF general, special
  <2>. QED
    BY <2>1, <2>2, RowsAre, Zenon
<1>. HIDE DEF general, special, rows
<1>5. HasNinth(text.rows, rows, shown)
  <2>. DEFINE R == {rows[n] : n \in 1 .. 8} \cup {shown}
  <2>. HIDE DEF shown
  <2>1. (\A n \in 1 .. 8 : rows[n] \in R) /\ shown \in R
    OBVIOUS
  <2>. HIDE DEF R
  <2>2. rows \in Seq(R) /\ Len(rows) = 8
    BY <1>4, <2>1 DEF RowsShow
  <2>. QED
    BY <1>3, <2>1, <2>2, NinthRow, Zenon
<1>6. ASSUME NEW i \in DOMAIN shown.names, shown.names[i] \notin {"lo", "hi"}
      PROVE  shown.registers[i] = content.cpu[shown.names[i]]
  <2>1. shown.names = SpecialRegisterNames /\ shown.registers = special
    BY DEF Row
  <2>2. i = 1 /\ SpecialRegisterNames[1] = "pc"
    BY <1>6, <2>1, DigitsAndNames
  <2>. QED
    BY <1>4, <2>1, <2>2
<1>. HIDE DEF shown
<1>7. ASSUME NEW n \in DOMAIN text.rows, NEW i \in DOMAIN text.rows[n].names,
             text.rows[n].names[i] \notin {"lo", "hi"}
      PROVE  text.rows[n].registers[i] = content.cpu[text.rows[n].names[i]]
  <2>1. CASE n \in 1 .. 8
    BY <1>4, <1>5, <1>7, <2>1 DEF HasNinth, RowsShow
  <2>2. CASE n = 9
    BY <1>5, <1>6, <1>7, <2>2 DEF HasNinth
  <2>. QED
    BY <1>5, <2>1, <2>2 DEF HasNinth
<1>. QED
  BY <1>3, <1>7 DEF ShowsDump

(* Each register that is shown has the value that was dumped under that name, and
   the status codes are those of the dump and the last one, whatever was dumped
   (stage0.S, parse.c, format.c of the SRAM dumper). *)
THEOREM DumpsAreRead == Spec => []DumpIsRead
<1>1. Init => DumpInv
  BY DEF Init, ToolInit, DumpInv
<1>2. DumpInv /\ [Next]_vars => DumpInv'
  <2>. SUFFICES ASSUME DumpInv, [Next]_vars PROVE DumpInv'
    OBVIOUS
  <2>1. CASE UNCHANGED vars
    BY <2>1 DEF vars, toolVars, DumpInv
  <2>2. CASE tool = "sram" /\ SramDumperNext
    BY <2>2
       DEF SramDumperNext, SramMain, SramLoad, SramParseAndFormat, SramSave, SramDisplay, Main,
           Load, Save, Display, Finish, DumpInv
  <2>3. CASE tool # "sram" /\ tool' = tool
    BY <2>3 DEF DumpInv
  <2>4. tool' = tool
    BY NextKeepsTool
  <2>. QED
    BY <2>1, <2>2, <2>3, <2>4 DEF Next
<1>3. DumpInv => DumpIsRead
  <2>. SUFFICES ASSUME DumpInv, tool = "sram", pc = "save", input.code # InvalidCode
                PROVE  ShowsDump(input, output)
    BY DEF DumpIsRead, ShowsDump
  <2>1. IsWhole(input) /\ output = SramFormat(SramParse(input.sram))
    BY SramDumperAssumption DEF DumpInv, IsWhole
  <2>. QED
    BY <2>1, SramIsRead, Zenon
<1>. QED
  BY <1>1, <1>2, <1>3, PTL DEF Spec
-----------------------------------------------------------------------------
(* The source the compilers write, piece by piece. *)

Piece == [value : Int, characters : Int]

PieceLength == [piece \in Piece |-> piece.characters]
Shown == [piece \in Piece |-> IF piece.value = -1 THEN <<>> ELSE <<piece.value>>]

LEMMA PieceTypes ==
    /\ PieceLength \in [Piece -> Int] /\ Shown \in [Piece -> Seq(Int)]
    /\ \A s \in Seq(Piece) :
          Written(s) = Total(Mapped(PieceLength, s)) /\ Values(s) = FlattenSeq(Mapped(Shown, s))
<1>1. ASSUME NEW piece \in Piece
      PROVE  /\ piece.characters \in Int
             /\ (IF piece.value = -1 THEN <<>> ELSE <<piece.value>>) \in Seq(Int)
  BY DEF Piece
<1>2. ASSUME NEW s \in Seq(Piece)
      PROVE  /\ [i \in DOMAIN s |-> s[i].characters] = Mapped(PieceLength, s)
             /\ [i \in DOMAIN s |-> IF s[i].value = -1 THEN <<>> ELSE <<s[i].value>>]
                   = Mapped(Shown, s)
  <2>1. \A i \in DOMAIN s : s[i] \in Piece
    OBVIOUS
  <2>. QED
    BY <2>1 DEF Mapped, PieceLength, Shown
<1>. QED
  BY <1>1, <1>2 DEF PieceLength, Shown, Written, Values

LEMMA PieceConcat ==
    ASSUME NEW a \in Seq(Piece), NEW b \in Seq(Piece)
    PROVE  /\ a \o b \in Seq(Piece)
           /\ Written(a) \in Int /\ Written(a \o b) = Written(a) + Written(b)
           /\ Values(a) \in Seq(Int) /\ Values(a \o b) = Values(a) \o Values(b)
<1>1. a \o b \in Seq(Piece)
  OBVIOUS
<1>2. /\ Mapped(PieceLength, a) \in Seq(Int) /\ Mapped(PieceLength, b) \in Seq(Int)
      /\ Mapped(PieceLength, a \o b) = Mapped(PieceLength, a) \o Mapped(PieceLength, b)
  <2>1. Maps(PieceLength, Piece, Int)
    BY PieceTypes DEF Maps
  <2>2. Mapped(PieceLength, a) \in Seq(Int) /\ Mapped(PieceLength, b) \in Seq(Int)
    BY <2>1, MappedConcat, Zenon
  <2>3. Mapped(PieceLength, a \o b) = Mapped(PieceLength, a) \o Mapped(PieceLength, b)
    BY <2>1, MappedConcat
  <2>. QED
    BY <2>2, <2>3
<1>3. /\ Mapped(Shown, a) \in Seq(Seq(Int)) /\ Mapped(Shown, b) \in Seq(Seq(Int))
      /\ Mapped(Shown, a \o b) = Mapped(Shown, a) \o Mapped(Shown, b)
  <2>1. Maps(Shown, Piece, Seq(Int))
    BY PieceTypes DEF Maps
  <2>2. Mapped(Shown, a) \in Seq(Seq(Int)) /\ Mapped(Shown, b) \in Seq(Seq(Int))
    BY <2>1, MappedConcat, Zenon
  <2>3. Mapped(Shown, a \o b) = Mapped(Shown, a) \o Mapped(Shown, b)
    BY <2>1, MappedConcat
  <2>. QED
    BY <2>2, <2>3
<1>4. Written(a) \in Int /\ Written(a \o b) = Written(a) + Written(b)
  BY <1>1, <1>2, PieceTypes, TotalConcat, TotalTyped
<1>5. Values(a) \in Seq(Int) /\ Values(a \o b) = Values(a) \o Values(b)
  <2>1. /\ FlattenSeq(Mapped(Shown, a) \o Mapped(Shown, b))
               = FlattenSeq(Mapped(Shown, a)) \o FlattenSeq(Mapped(Shown, b))
    BY <1>3, FlattenConcat
  <2>2. FlattenSeq(Mapped(Shown, a)) \in Seq(Int)
    BY <1>3, FlattenTyped
  <2>. QED
    BY <1>1, <1>3, <2>1, <2>2, PieceTypes
<1>. QED
  BY <1>1, <1>4, <1>5

LEMMA PieceEmpty == Written(<<>>) = 0 /\ Values(<<>>) = <<>>
<1>1. Written(<<>>) = Total(<<>>) /\ Values(<<>>) = FlattenSeq(<<>>)
  BY DEF Written, Values
<1>. QED
  BY <1>1, TotalEmpty, FlattenEmpty

LEMMA PieceOne ==
    ASSUME NEW piece \in Piece
    PROVE  /\ Written(<<piece>>) = piece.characters
           /\ Values(<<piece>>) = (IF piece.value = -1 THEN <<>> ELSE <<piece.value>>)
<1>. DEFINE shown == IF piece.value = -1 THEN <<>> ELSE <<piece.value>>
<1>1. piece.characters \in Int /\ piece.value \in Int
  BY DEF Piece
<1>2. shown \in Seq(Int)
  BY <1>1
<1>3. Written(<<piece>>) = Total(<<piece.characters>>)
  BY DEF Written
<1>4. Values(<<piece>>) = FlattenSeq(<<shown>>)
  BY DEF Values
<1>. HIDE DEF shown
<1>5. <<>> \in Seq(Int) /\ Append(<<>>, piece.characters) = <<piece.characters>>
  OBVIOUS
<1>6. <<>> \in Seq(Seq(Int)) /\ Append(<<>>, shown) = <<shown>> /\ <<>> \o shown = shown
  BY <1>2
<1>7. Total(<<piece.characters>>) = piece.characters
  <2>1. <<>> \in Seq(Int)
    OBVIOUS
  <2>2. Total(Append(<<>>, piece.characters)) = Total(<<>>) + piece.characters
    BY <1>1, <2>1, TotalAppend
  <2>. QED
    BY <1>1, <1>5, <2>2, TotalEmpty
<1>8. FlattenSeq(<<shown>>) = shown
  BY <1>2, <1>6, FlattenAppend, FlattenEmpty
<1>. QED
  BY <1>3, <1>4, <1>7, <1>8 DEF shown

WrittenOf == [s \in Seq(Piece) |-> Written(s)]
ValuesOf == [s \in Seq(Piece) |-> Values(s)]

(* A sequence of outputs is as long as all of them, and has the values of all. *)
LEMMA PieceFlatten ==
    ASSUME NEW parts \in Seq(Seq(Piece))
    PROVE  /\ FlattenSeq(parts) \in Seq(Piece)
           /\ Written(FlattenSeq(parts)) = Total([i \in DOMAIN parts |-> Written(parts[i])])
           /\ Values(FlattenSeq(parts)) = FlattenSeq([i \in DOMAIN parts |-> Values(parts[i])])
<1>1. Maps(WrittenOf, Seq(Piece), Int) /\ Maps(ValuesOf, Seq(Piece), Seq(Int))
  <2>1. \A s \in Seq(Piece) : Written(s) \in Int /\ Values(s) \in Seq(Int)
    BY PieceConcat
  <2>. QED
    BY <2>1 DEF Maps, WrittenOf, ValuesOf
<1>2. /\ [i \in DOMAIN parts |-> Written(parts[i])] = Mapped(WrittenOf, parts)
      /\ [i \in DOMAIN parts |-> Values(parts[i])] = Mapped(ValuesOf, parts)
  <2>1. \A i \in DOMAIN parts : parts[i] \in Seq(Piece)
    OBVIOUS
  <2>. QED
    BY <2>1 DEF Mapped, WrittenOf, ValuesOf
<1>. DEFINE S == {n \in Nat : \A p \in Seq(Seq(Piece)) : Len(p) = n =>
                    /\ Written(FlattenSeq(p)) = Total(Mapped(WrittenOf, p))
                    /\ Values(FlattenSeq(p)) = FlattenSeq(Mapped(ValuesOf, p))}
<1>3. 0 \in S
  <2>. SUFFICES ASSUME NEW p \in Seq(Seq(Piece)), Len(p) = 0
                PROVE  /\ Written(FlattenSeq(p)) = Total(Mapped(WrittenOf, p))
                       /\ Values(FlattenSeq(p)) = FlattenSeq(Mapped(ValuesOf, p))
    OBVIOUS
  <2>1. p = <<>> /\ \A m : Mapped(m, <<>>) = <<>>
    BY DEF Mapped
  <2>2. FlattenSeq(p) = <<>> /\ Mapped(WrittenOf, p) = <<>> /\ Mapped(ValuesOf, p) = <<>>
    BY <2>1, FlattenEmpty
  <2>. QED
    BY <2>2, FlattenEmpty, TotalEmpty, PieceEmpty
<1>4. ASSUME NEW n \in Nat, n \in S PROVE n + 1 \in S
  <2>. SUFFICES ASSUME NEW p \in Seq(Seq(Piece)), Len(p) = n + 1
                PROVE  /\ Written(FlattenSeq(p)) = Total(Mapped(WrittenOf, p))
                       /\ Values(FlattenSeq(p)) = FlattenSeq(Mapped(ValuesOf, p))
    OBVIOUS
  <2>. DEFINE front == SubSeq(p, 1, n)
              last == p[n + 1]
  <2>1. /\ front \in Seq(Seq(Piece)) /\ Len(front) = n /\ last \in Seq(Piece)
        /\ p = Append(front, last)
    BY LastElement
  <2>2. /\ Written(FlattenSeq(front)) = Total(Mapped(WrittenOf, front))
        /\ Values(FlattenSeq(front)) = FlattenSeq(Mapped(ValuesOf, front))
    BY <1>4, <2>1
  <2>. HIDE DEF front, last, S
  <2>3. FlattenSeq(p) = FlattenSeq(front) \o last /\ FlattenSeq(front) \in Seq(Piece)
    BY <2>1, FlattenAppend, FlattenTyped
  <2>4. /\ Written(FlattenSeq(p)) = Written(FlattenSeq(front)) + Written(last)
        /\ Values(FlattenSeq(p)) = Values(FlattenSeq(front)) \o Values(last)
    BY <2>1, <2>3, PieceConcat
  <2>5. /\ Mapped(WrittenOf, front) \in Seq(Int) /\ WrittenOf[last] \in Int
        /\ Mapped(WrittenOf, p) = Append(Mapped(WrittenOf, front), WrittenOf[last])
    <3>1. Mapped(WrittenOf, front) \in Seq(Int) /\ WrittenOf[last] \in Int
      BY <1>1, <2>1, MappedAppend, Zenon
    <3>2. Mapped(WrittenOf, Append(front, last)) = Append(Mapped(WrittenOf, front), WrittenOf[last])
      BY <1>1, <2>1, MappedAppend
    <3>. QED
      BY <2>1, <3>1, <3>2, Zenon
  <2>6. /\ Mapped(ValuesOf, front) \in Seq(Seq(Int)) /\ ValuesOf[last] \in Seq(Int)
        /\ Mapped(ValuesOf, p) = Append(Mapped(ValuesOf, front), ValuesOf[last])
    <3>1. Mapped(ValuesOf, front) \in Seq(Seq(Int)) /\ ValuesOf[last] \in Seq(Int)
      BY <1>1, <2>1, MappedAppend, Zenon
    <3>2. Mapped(ValuesOf, Append(front, last)) = Append(Mapped(ValuesOf, front), ValuesOf[last])
      BY <1>1, <2>1, MappedAppend
    <3>. QED
      BY <2>1, <3>1, <3>2, Zenon
  <2>7. Total(Mapped(WrittenOf, p)) = Total(Mapped(WrittenOf, front)) + WrittenOf[last]
    BY <2>5, TotalAppend
  <2>8. FlattenSeq(Mapped(ValuesOf, p)) = FlattenSeq(Mapped(ValuesOf, front)) \o ValuesOf[last]
    BY <2>6, FlattenAppend
  <2>9. WrittenOf[last] = Written(last) /\ ValuesOf[last] = Values(last)
    BY <2>1 DEF WrittenOf, ValuesOf
  <2>. QED
    BY <2>2, <2>4, <2>7, <2>8, <2>9
<1>. HIDE DEF S
<1>5. \A n \in Nat : n \in S
  BY <1>3, <1>4, Induction
<1>6. FlattenSeq(parts) \in Seq(Piece) /\ Len(parts) \in Nat
  BY FlattenTyped
<1>. QED
  BY <1>2, <1>5, <1>6 DEF S

(* An output, its length and its values. *)
IsOutput(out, n, values) ==
    /\ out \in Seq(Piece) /\ Written(out) = n /\ n \in Int
    /\ Values(out) = values /\ values \in Seq(Int)

(* Outputs are joined. *)
LEMMA OutputConcat ==
    ASSUME NEW a, NEW m, NEW v, IsOutput(a, m, v), NEW b, NEW n, NEW w, IsOutput(b, n, w)
    PROVE  IsOutput(a \o b, m + n, v \o w)
BY PieceConcat DEF IsOutput

(* The parts the output is joined of. *)
LEMMA PiecesOf ==
    /\ \A n \in Int : IsOutput(Text(n), n, <<>>)
    /\ \A v \in Int \ {-1}, n \in Int : IsOutput(Hexadecimal(v, n), n, <<v>>)
    /\ \A n \in Int : IsOutput(Define(n), 8 + n + 3, <<>>)
<1>1. ASSUME NEW v \in Int, NEW n \in Int
      PROVE  IsOutput(<<[value |-> v, characters |-> n]>>, n, IF v = -1 THEN <<>> ELSE <<v>>)
  <2>. DEFINE piece == [value |-> v, characters |-> n]
  <2>1. piece \in Piece /\ piece.value = v /\ piece.characters = n
    BY DEF Piece
  <2>. HIDE DEF piece
  <2>2. <<piece>> \in Seq(Piece) /\ <<>> \in Seq(Int) /\ <<v>> \in Seq(Int)
    BY <2>1
  <2>. QED
    BY <2>1, <2>2, PieceOne DEF piece, IsOutput
<1>2. ASSUME NEW n \in Int PROVE IsOutput(Text(n), n, <<>>)
  <2>1. -1 \in Int
    OBVIOUS
  <2>. QED
    BY <1>1, <2>1 DEF Text
<1>3. \A v \in Int \ {-1}, n \in Int : IsOutput(Hexadecimal(v, n), n, <<v>>)
  BY <1>1 DEF Hexadecimal
<1>4. ASSUME NEW n \in Int PROVE IsOutput(Define(n), 8 + n + 3, <<>>)
  <2>1. Define(n) = Text(8) \o Text(n) \o Text(3)
    BY DEF Define, Length
  <2>2. IsOutput(Text(8) \o Text(n) \o Text(3), 8 + n + 3, <<>> \o <<>> \o <<>>)
    <3>1. IsOutput(Text(8), 8, <<>>) /\ IsOutput(Text(n), n, <<>>) /\ IsOutput(Text(3), 3, <<>>)
      BY <1>2
    <3>2. IsOutput(Text(8) \o Text(n), 8 + n, <<>> \o <<>>)
      BY <3>1, OutputConcat, Zenon
    <3>. QED
      BY <3>1, <3>2, OutputConcat, Zenon
  <2>3. <<>> \o <<>> \o <<>> = <<>>
    OBVIOUS
  <2>. QED
    BY <2>1, <2>2, <2>3, Zenon
<1>. QED
  BY <1>2, <1>3, <1>4

(* A list is as long as its entries, and its values are theirs. *)
LEMMA EntriesAre ==
    ASSUME NEW values \in Seq(Int), Len(values) > 0, \A i \in DOMAIN values : values[i] # -1,
           NEW prefix \in Int, NEW digits \in Int, NEW newline \in Int, NEW final \in Int
    PROVE  IsOutput(Entries(values, prefix, digits, newline, final),
                    (prefix + digits + newline) * (Len(values) - 1) + prefix + digits + final,
                    values)
<1>. DEFINE last(i) == IF i = Len(values) THEN final ELSE newline
            entry(i) == Text(prefix) \o Hexadecimal(values[i], digits) \o Text(last(i))
            parts == [i \in DOMAIN values |-> entry(i)]
<1>1. /\ Len(values) \in Nat /\ DOMAIN values = 1 .. Len(values)
      /\ \A i \in DOMAIN values : values[i] \in Int
  OBVIOUS
<1>2. ASSUME NEW i \in DOMAIN values
      PROVE  IsOutput(entry(i), prefix + digits + last(i), <<values[i]>>)
  <2>1. IsOutput(Text(prefix), prefix, <<>>)
    BY PiecesOf
  <2>2. IsOutput(Hexadecimal(values[i], digits), digits, <<values[i]>>)
    BY <1>1, PiecesOf
  <2>3. IsOutput(Text(last(i)), last(i), <<>>)
    BY PiecesOf
  <2>4. IsOutput(Text(prefix) \o Hexadecimal(values[i], digits), prefix + digits,
                 <<>> \o <<values[i]>>)
    BY <2>1, <2>2, OutputConcat, Zenon
  <2>5. IsOutput(entry(i), prefix + digits + last(i), (<<>> \o <<values[i]>>) \o <<>>)
    BY <2>3, <2>4, OutputConcat, Zenon
  <2>6. (<<>> \o <<values[i]>>) \o <<>> = <<values[i]>>
    BY <1>1
  <2>. HIDE DEF entry, last
  <2>. QED
    BY <2>5, <2>6, Zenon
<1>. HIDE DEF entry
<1>3. parts \in Seq(Seq(Piece)) /\ DOMAIN parts = DOMAIN values
  BY <1>1, <1>2 DEF IsOutput
<1>4. Entries(values, prefix, digits, newline, final) = FlattenSeq(parts)
  BY DEF Entries, entry
<1>5. /\ [i \in DOMAIN parts |-> Written(parts[i])]
            = [i \in DOMAIN values |-> prefix + digits + last(i)]
      /\ [i \in DOMAIN parts |-> Values(parts[i])] = [i \in DOMAIN values |-> <<values[i]>>]
  BY <1>2 DEF IsOutput
<1>. DEFINE front == [i \in 1 .. Len(values) - 1 |-> prefix + digits + newline]
<1>6. front \in Seq(Int) /\ Len(front) = Len(values) - 1
  BY <1>1
<1>7. [i \in DOMAIN values |-> prefix + digits + last(i)] = Append(front, prefix + digits + final)
  <2>. DEFINE all == [i \in DOMAIN values |-> prefix + digits + last(i)]
  <2>1. all \in Seq(Int) /\ Len(all) = Len(values)
    BY <1>1
  <2>2. /\ Append(front, prefix + digits + final) \in Seq(Int)
        /\ Len(Append(front, prefix + digits + final)) = Len(values)
    BY <1>1, <1>6
  <2>3. ASSUME NEW i \in 1 .. Len(values)
        PROVE  all[i] = Append(front, prefix + digits + final)[i]
    <3>1. CASE i = Len(values)
      <4>1. Append(front, prefix + digits + final)[Len(front) + 1] = prefix + digits + final
        BY <1>6
      <4>. QED
        BY <1>1, <1>6, <3>1, <4>1
    <3>2. CASE i # Len(values)
      <4>1. i \in 1 .. Len(front)
        <5>1. \A k \in Nat : \A j \in 1 .. k : j # k => j \in 1 .. k - 1
          OBVIOUS
        <5>. QED
          BY <1>1, <1>6, <3>2, <5>1, Zenon
      <4>2. Append(front, prefix + digits + final)[i] = front[i]
        BY <1>6, <4>1
      <4>. QED
        BY <1>1, <1>6, <3>2, <4>1, <4>2
    <3>. QED
      BY <3>1, <3>2
  <2>. QED
    BY <2>1, <2>2, <2>3, SeqEqual
<1>8. Total(front) = Len(front) * (prefix + digits + newline)
  <2>1. prefix + digits + newline \in Int /\ \A i \in DOMAIN front : front[i] = prefix + digits + newline
    OBVIOUS
  <2>. QED
    BY <1>6, <2>1, TotalConstant
<1>. HIDE DEF front, parts
<1>9. Total([i \in DOMAIN values |-> prefix + digits + last(i)])
          = Total(front) + (prefix + digits + final)
  <2>1. prefix + digits + final \in Int
    OBVIOUS
  <2>2. Total(Append(front, prefix + digits + final)) = Total(front) + (prefix + digits + final)
    BY <1>6, <2>1, TotalAppend, Zenon
  <2>. QED
    BY <1>7, <2>2, Zenon
<1>10. FlattenSeq([i \in DOMAIN values |-> <<values[i]>>]) = values
  BY FlattenSingletons, Zenon
<1>11. Written(FlattenSeq(parts)) = Total(front) + (prefix + digits + final)
  BY <1>3, <1>5, <1>9, PieceFlatten
<1>12. Values(FlattenSeq(parts)) = values /\ FlattenSeq(parts) \in Seq(Piece)
  BY <1>3, <1>5, <1>10, PieceFlatten
<1>. QED
  BY <1>1, <1>4, <1>6, <1>8, <1>11, <1>12 DEF IsOutput
-----------------------------------------------------------------------------
(* The compressor: the equation of its function, and how much it writes.  A straight
   run is a number of tuples that is less than MaxRun, and the tuples. *)

CompressStep(tuples, from, i, straight) ==
    LET flushed == IF straight = 0 THEN <<>>
                   ELSE RunStraight(tuples, i - straight, straight)
        run == NextRunLength(tuples, i)
    IN  IF i > Len(tuples) THEN flushed
        ELSE IF run = 1 /\ straight # MaxRun THEN from[<<i + 1, straight + 1>>]
        ELSE IF run = 1 THEN flushed \o from[<<i, 0>>]
        ELSE flushed \o RunCompressed(tuples[i], run) \o from[<<i + run, 0>>]

CompressEquation(tuples, from) ==
    from = [at \in (1 .. Len(tuples) + 1) \X Nat |-> CompressStep(tuples, from, at[1], at[2])]

LEMMA NextRun ==
    ASSUME NEW tuples, Len(tuples) \in Nat, NEW i \in 1 .. Len(tuples)
    PROVE  LET run == NextRunLength(tuples, i)
           IN  /\ run \in 1 .. Len(tuples) - i + 1 /\ run \in Nat /\ run <= MaxRun
               /\ \A j \in i .. i + run - 1 : tuples[j] = tuples[i]
<1>. DEFINE S == {n \in 1 .. Len(tuples) - i + 1 :
                    n <= MaxRun /\ \A j \in i .. i + n - 1 : tuples[j] = tuples[i]}
            run == Max(S)
<1>1. S \subseteq 0 .. Len(tuples)
  OBVIOUS
<1>2. 1 \in S
  BY ImageCodecAssumption
<1>3. run \in S
  <2>. HIDE DEF S
  <2>. QED
    BY <1>1, <1>2, MaxIsGreatest
<1>4. NextRunLength(tuples, i) = run
  BY DEF NextRunLength
<1>5. run \in 1 .. Len(tuples) - i + 1 /\ run <= MaxRun
      /\ \A j \in i .. i + run - 1 : tuples[j] = tuples[i]
  <2>. HIDE DEF run
  <2>. QED
    BY <1>3
<1>. HIDE DEF run
<1>. QED
  BY <1>4, <1>5

(* What the bytes are, whatever the tuples. *)
Elements(tuples) == Int \cup {tuples[k] : k \in Int}

LEMMA CommandsTyped ==
    ASSUME NEW tuples
    PROVE  /\ \A i \in Int, straight \in Nat :
                 RunStraight(tuples, i - straight, straight) \in Seq(Elements(tuples))
           /\ \A i \in Int, run \in Nat :
                 RunCompressed(tuples[i], run) \in Seq(Elements(tuples))
<1>. DEFINE U == Elements(tuples)
<1>1. \A k \in Int : k \in U /\ tuples[k] \in U
  BY DEF Elements
<1>. HIDE DEF U
<1>2. ASSUME NEW i \in Int, NEW straight \in Nat
      PROVE  RunStraight(tuples, i - straight, straight) \in Seq(U)
  <2>. DEFINE part == SubSeq(tuples, i - straight, i - straight + straight - 1)
  <2>1. part \in Seq(U)
    BY <1>1
  <2>2. <<straight - 1>> \in Seq(U)
    BY <1>1
  <2>. HIDE DEF part
  <2>3. <<straight - 1>> \o part \in Seq(U)
    BY <2>1, <2>2
  <2>. QED
    BY <2>3 DEF RunStraight, part
<1>3. ASSUME NEW i \in Int, NEW run \in Nat PROVE RunCompressed(tuples[i], run) \in Seq(U)
  <2>1. MaxRun + run - 1 \in U /\ tuples[i] \in U
    BY <1>1, ImageCodecAssumption
  <2>2. <<MaxRun + run - 1, tuples[i]>> \in Seq(U)
    BY <2>1
  <2>. QED
    BY <2>2 DEF RunCompressed
<1>. QED
  BY <1>2, <1>3 DEF U

(* The compressor is a function of the equation. *)
LEMMA CompressUnfolds ==
    ASSUME NEW tuples, Len(tuples) \in Nat
    PROVE  \E from : CompressEquation(tuples, from) /\ Compress(tuples) = from[<<1, 0>>]
<1>. DEFINE n == Len(tuples)
            D == (1 .. n + 1) \X Nat
            V == Seq(Elements(tuples))
            N == 2 * n + 1
            rank == [at \in D |-> 2 * (n + 1 - at[1]) + (IF at[2] = 0 THEN 0 ELSE 1)]
            Step == [at \in D |-> [g \in [D -> V] |->
                        CompressStep(tuples, g, at[1], at[2])]]
<1>1. /\ n \in Nat /\ N \in Nat /\ V # {} /\ rank \in [D -> 0 .. N]
      /\ \A i \in 1 .. n + 1, s \in Nat :
            rank[<<i, s>>] = 2 * (n + 1 - i) + (IF s = 0 THEN 0 ELSE 1)
  <2>1. <<>> \in V
    OBVIOUS
  <2>2. n \in Nat /\ N \in Nat
    OBVIOUS
  <2>3. rank \in [D -> 0 .. N]
    <3>1. ASSUME NEW at \in D
          PROVE  2 * (n + 1 - at[1]) + (IF at[2] = 0 THEN 0 ELSE 1) \in 0 .. N
      <4>1. at[1] \in 1 .. n + 1
        OBVIOUS
      <4>. QED
        BY <2>2, <4>1
    <3>. QED
      BY <3>1
  <2>. QED
    BY <2>1, <2>2, <2>3
<1>. DEFINE Flushed(i, s) == IF s = 0 THEN <<>> ELSE RunStraight(tuples, i - s, s)
<1>2. ASSUME NEW i \in 1 .. n + 1, NEW s \in Nat
      PROVE  /\ Flushed(i, s) \in V /\ <<i, s>> \in D
             /\ i <= n => /\ <<i + 1, s + 1>> \in D /\ <<i, 0>> \in D
                          /\ NextRunLength(tuples, i) \in 1 .. n - i + 1
                          /\ <<i + NextRunLength(tuples, i), 0>> \in D
                          /\ RunCompressed(tuples[i], NextRunLength(tuples, i)) \in V
  <2>1. <<>> \in V
    OBVIOUS
  <2>2. Flushed(i, s) \in V
    BY <2>1, CommandsTyped
  <2>3. ASSUME i <= n
        PROVE  NextRunLength(tuples, i) \in 1 .. n - i + 1
    BY <2>3, NextRun
  <2>4. ASSUME i <= n
        PROVE  /\ <<i + 1, s + 1>> \in D /\ <<i, 0>> \in D
               /\ <<i + NextRunLength(tuples, i), 0>> \in D
    <3>. DEFINE run == NextRunLength(tuples, i)
    <3>1. run \in 1 .. n - i + 1
      BY <2>3, <2>4
    <3>. HIDE DEF run
    <3>2. i + 1 \in 1 .. n + 1 /\ i + run \in 1 .. n + 1 /\ s + 1 \in Nat /\ 0 \in Nat
      BY <1>1, <2>4, <3>1
    <3>. HIDE DEF n
    <3>. QED
      BY <3>2 DEF run
  <2>5. ASSUME i <= n PROVE RunCompressed(tuples[i], NextRunLength(tuples, i)) \in V
    <3>1. NextRunLength(tuples, i) \in Nat
      BY <2>3, <2>5
    <3>. QED
      BY <3>1, CommandsTyped
  <2>6. <<i, s>> \in D
    OBVIOUS
  <2>. QED
    BY <2>2, <2>3, <2>4, <2>5, <2>6, Zenon
<1>. HIDE DEF V, Flushed, rank, N
<1>3. \A g : \A i \in 1 .. n + 1, s \in Nat :
         CompressStep(tuples, g, i, s) =
            IF i > n THEN Flushed(i, s)
            ELSE IF NextRunLength(tuples, i) = 1 /\ s # MaxRun THEN g[<<i + 1, s + 1>>]
            ELSE IF NextRunLength(tuples, i) = 1 THEN Flushed(i, s) \o g[<<i, 0>>]
            ELSE Flushed(i, s) \o RunCompressed(tuples[i], NextRunLength(tuples, i))
                    \o g[<<i + NextRunLength(tuples, i), 0>>]
  BY DEF CompressStep, Flushed
<1>4. Step \in [D -> [[D -> V] -> V]]
  <2>1. ASSUME NEW i \in 1 .. n + 1, NEW s \in Nat, NEW g \in [D -> V]
        PROVE  CompressStep(tuples, g, i, s) \in V
    <3>1. \A x \in D : g[x] \in V
      OBVIOUS
    <3>2. \A a \in V, b \in V : a \o b \in V
      BY DEF V
    <3>3. Flushed(i, s) \in V
      BY <1>2
    <3>. HIDE DEF D
    <3>4. CASE i > n
      BY <1>3, <3>3, <3>4
    <3>5. CASE ~(i > n)
      <4>1. i <= n
        BY <3>5
      <4>2. /\ g[<<i + 1, s + 1>>] \in V /\ g[<<i, 0>>] \in V
            /\ g[<<i + NextRunLength(tuples, i), 0>>] \in V
            /\ RunCompressed(tuples[i], NextRunLength(tuples, i)) \in V
        BY <1>2, <3>1, <4>1
      <4>3. /\ Flushed(i, s) \o g[<<i, 0>>] \in V
            /\ Flushed(i, s) \o RunCompressed(tuples[i], NextRunLength(tuples, i))
                    \o g[<<i + NextRunLength(tuples, i), 0>>] \in V
        BY <3>2, <3>3, <4>2
      <4>. QED
        BY <1>3, <3>5, <4>2, <4>3
    <3>. QED
      BY <3>4, <3>5
  <2>. QED
    BY <2>1
<1>5. \A x \in D, g \in [D -> V], h \in [D -> V] :
         (\A y \in D : rank[y] < rank[x] => g[y] = h[y]) => Step[x][g] = Step[x][h]
  <2>. SUFFICES ASSUME NEW x \in D, NEW g \in [D -> V], NEW h \in [D -> V],
                       \A y \in D : rank[y] < rank[x] => g[y] = h[y]
                PROVE  Step[x][g] = Step[x][h]
    BY Zenon
  <2>. DEFINE i == x[1]
              s == x[2]
  <2>0. i \in 1 .. n + 1 /\ s \in Nat /\ x = <<i, s>>
    OBVIOUS
  <2>. SUFFICES CompressStep(tuples, g, i, s) = CompressStep(tuples, h, i, s)
    OBVIOUS
  <2>. HIDE DEF D, Step, i, s
  <2>1. CASE i > n
    BY <1>3, <2>0, <2>1
  <2>2. CASE ~(i > n)
    <3>1. i <= n
      BY <2>0, <2>2
    <3>2. g[<<i + 1, s + 1>>] = h[<<i + 1, s + 1>>]
      <4>1. rank[<<i + 1, s + 1>>] < rank[<<i, s>>]
        BY <1>1, <2>0, <3>1
      <4>. QED
        BY <1>2, <2>0, <3>1, <4>1
    <3>3. s # 0 => g[<<i, 0>>] = h[<<i, 0>>]
      <4>1. s # 0 => rank[<<i, 0>>] < rank[<<i, s>>]
        BY <1>1, <2>0, <3>1
      <4>. QED
        BY <1>2, <2>0, <3>1, <4>1
    <3>4. g[<<i + NextRunLength(tuples, i), 0>>] = h[<<i + NextRunLength(tuples, i), 0>>]
      <4>. DEFINE run == NextRunLength(tuples, i)
      <4>1. run \in 1 .. n - i + 1
        BY <1>2, <2>0, <3>1
      <4>. HIDE DEF run
      <4>2. rank[<<i + run, 0>>] < rank[<<i, s>>]
        BY <1>1, <2>0, <3>1, <4>1
      <4>. QED
        BY <1>2, <2>0, <3>1, <4>2 DEF run
    <3>5. MaxRun # 0
      BY ImageCodecAssumption
    <3>. DEFINE run == NextRunLength(tuples, i)
    <3>6. CASE run = 1 /\ s # MaxRun
      BY <1>3, <2>0, <2>2, <3>2, <3>6
    <3>7. CASE run = 1 /\ s = MaxRun
      <4>1. g[<<i, 0>>] = h[<<i, 0>>] /\ ~(s # MaxRun)
        BY <3>3, <3>5, <3>7
      <4>2. CompressStep(tuples, g, i, s) = Flushed(i, s) \o g[<<i, 0>>]
        BY <1>3, <2>0, <2>2, <3>7, <4>1
      <4>3. CompressStep(tuples, h, i, s) = Flushed(i, s) \o h[<<i, 0>>]
        BY <1>3, <2>0, <2>2, <3>7, <4>1
      <4>. QED
        BY <4>1, <4>2, <4>3, Zenon
    <3>8. CASE run # 1
      BY <1>3, <2>0, <2>2, <3>4, <3>8
    <3>. QED
      BY <3>6, <3>7, <3>8
  <2>. QED
    BY <2>1, <2>2
<1>6. Ranked(D, V, N, rank, Step)
  <2>. HIDE DEF D, Step
  <2>. QED
    BY <1>1, <1>4, <1>5, Zenon DEF Ranked
<1>7. PICK f \in [D -> V] : \A x \in D : f[x] = Step[x][f]
  <2>. HIDE DEF D, Step
  <2>. QED
    BY <1>6, Recursion
<1>8. CompressEquation(tuples, f)
  <2>1. \A x \in D : f[x] = CompressStep(tuples, f, x[1], x[2])
    BY <1>7
  <2>. QED
    BY <1>7, <2>1 DEF CompressEquation
<1>9. Compress(tuples) = (CHOOSE from : CompressEquation(tuples, from))[<<1, 0>>]
  BY DEF Compress, CompressEquation, CompressStep
<1>10. CompressEquation(tuples, CHOOSE from : CompressEquation(tuples, from))
  BY <1>8, Zenon
<1>. QED
  BY <1>9, <1>10

(* Where the compressor is: the tuple it looks at, and how many before it are straight. *)
Places(n) == {at \in (1 .. n + 1) \X (0 .. MaxRun) : at[2] < at[1]}
PlaceRank(n) ==
    [at \in Places(n) |-> 2 * (n + 1 - at[1]) + (IF at[2] = 0 THEN 0 ELSE 1)]

(* The straight run that is written. *)
Flushed(tuples, i, straight) ==
    IF straight = 0 THEN <<>> ELSE RunStraight(tuples, i - straight, straight)

LEMMA PlacesAre ==
    ASSUME NEW n \in Nat
    PROVE  /\ PlaceRank(n) \in [Places(n) -> Nat]
           /\ \A i, s : <<i, s>> \in Places(n) <=> i \in 1 .. n + 1 /\ s \in 0 .. MaxRun /\ s < i
           /\ \A i, s : <<i, s>> \in Places(n) =>
                PlaceRank(n)[<<i, s>>] = 2 * (n + 1 - i) + (IF s = 0 THEN 0 ELSE 1)
<1>1. ASSUME NEW at \in Places(n)
      PROVE  2 * (n + 1 - at[1]) + (IF at[2] = 0 THEN 0 ELSE 1) \in Nat
  <2>1. at[1] \in 1 .. n + 1
    BY DEF Places
  <2>. QED
    BY <2>1
<1>. QED
  BY <1>1 DEF PlaceRank, Places

(* A place that is less far from the end. *)
Closer(n, i, s, j, t) ==
    <<j, t>> \in Places(n) /\ PlaceRank(n)[<<j, t>>] < PlaceRank(n)[<<i, s>>]

LEMMA LowerPlaces ==
    ASSUME NEW n \in Nat, NEW i, NEW s, <<i, s>> \in Places(n)
    PROVE  /\ s + 1 <= MaxRun /\ i <= n => Closer(n, i, s, i + 1, s + 1)
           /\ s # 0 => Closer(n, i, s, i, 0)
           /\ \A run \in Nat \ {0} : i + run - 1 <= n => Closer(n, i, s, i + run, 0)
<1>1. /\ i \in 1 .. n + 1 /\ s \in 0 .. MaxRun /\ s < i /\ MaxRun \in Nat
      /\ PlaceRank(n)[<<i, s>>] = 2 * (n + 1 - i) + (IF s = 0 THEN 0 ELSE 1)
  BY PlacesAre, ImageCodecAssumption
<1>2. ASSUME NEW j \in 1 .. n + 1, NEW t \in 0 .. MaxRun, t < j,
             2 * (n + 1 - j) + (IF t = 0 THEN 0 ELSE 1)
                 < 2 * (n + 1 - i) + (IF s = 0 THEN 0 ELSE 1)
      PROVE  Closer(n, i, s, j, t)
  <2>1. /\ <<j, t>> \in Places(n)
        /\ PlaceRank(n)[<<j, t>>] = 2 * (n + 1 - j) + (IF t = 0 THEN 0 ELSE 1)
    BY <1>2, PlacesAre
  <2>. QED
    BY <1>1, <1>2, <2>1 DEF Closer
<1>3. ASSUME s + 1 <= MaxRun, i <= n PROVE Closer(n, i, s, i + 1, s + 1)
  <2>1. i + 1 \in 1 .. n + 1 /\ s + 1 \in 0 .. MaxRun /\ s + 1 < i + 1
    BY <1>1, <1>3
  <2>2. 2 * (n + 1 - (i + 1)) + (IF s + 1 = 0 THEN 0 ELSE 1)
            < 2 * (n + 1 - i) + (IF s = 0 THEN 0 ELSE 1)
    BY <1>1
  <2>. QED
    BY <1>2, <2>1, <2>2
<1>4. ASSUME s # 0 PROVE Closer(n, i, s, i, 0)
  BY <1>1, <1>2, <1>4
<1>5. ASSUME NEW run \in Nat \ {0}, i + run - 1 <= n PROVE Closer(n, i, s, i + run, 0)
  <2>1. i + run \in 1 .. n + 1 /\ 0 \in 0 .. MaxRun /\ 0 < i + run
    BY <1>1, <1>5
  <2>2. 2 * (n + 1 - (i + run)) + (IF 0 = 0 THEN 0 ELSE 1)
            < 2 * (n + 1 - i) + (IF s = 0 THEN 0 ELSE 1)
    BY <1>1, <1>5
  <2>. QED
    BY <1>2, <2>1, <2>2
<1>. QED
  BY <1>3, <1>4, <1>5

(* The four ways the compressor goes on. *)
AtEnd(tuples, from, i, s) ==
    i = Len(tuples) + 1 /\ from[<<i, s>>] = Flushed(tuples, i, s)
Collects(tuples, from, i, s) ==
    /\ i <= Len(tuples) /\ Closer(Len(tuples), i, s, i + 1, s + 1)
    /\ from[<<i, s>>] = from[<<i + 1, s + 1>>]
Flushes(tuples, from, i, s) ==
    /\ s = MaxRun /\ Closer(Len(tuples), i, s, i, 0)
    /\ from[<<i, s>>] = Flushed(tuples, i, s) \o from[<<i, 0>>]
Repeats(tuples, from, i, s, run) ==
    /\ run \in 2 .. MaxRun /\ i + run - 1 <= Len(tuples)
    /\ \A j \in i .. i + run - 1 : tuples[j] = tuples[i]
    /\ Closer(Len(tuples), i, s, i + run, 0)
    /\ from[<<i, s>>] =
          Flushed(tuples, i, s) \o RunCompressed(tuples[i], run) \o from[<<i + run, 0>>]

LEMMA CompressCases ==
    ASSUME NEW tuples \in Seq(Nat), NEW from, CompressEquation(tuples, from),
           NEW i, NEW s, <<i, s>> \in Places(Len(tuples))
    PROVE  \/ AtEnd(tuples, from, i, s) \/ Collects(tuples, from, i, s)
           \/ Flushes(tuples, from, i, s)
           \/ \E run : Repeats(tuples, from, i, s, run)
<1>. DEFINE n == Len(tuples)
            run == NextRunLength(tuples, i)
            command == RunCompressed(tuples[i], run)
            flushed == Flushed(tuples, i, s)
<1>1. n \in Nat /\ i \in 1 .. n + 1 /\ s \in 0 .. MaxRun /\ MaxRun \in Nat /\ MaxRun > 1
  BY PlacesAre, ImageCodecAssumption
<1>2. from[<<i, s>>] =
        (IF i > n THEN flushed
         ELSE IF run = 1 /\ s # MaxRun THEN from[<<i + 1, s + 1>>]
         ELSE IF run = 1 THEN flushed \o from[<<i, 0>>]
         ELSE flushed \o command \o from[<<i + run, 0>>])
  <2>1. <<i, s>> \in (1 .. Len(tuples) + 1) \X Nat
    BY <1>1
  <2>2. from[<<i, s>>] = CompressStep(tuples, from, i, s)
    BY <2>1 DEF CompressEquation
  <2>. QED
    BY <2>2 DEF CompressStep, Flushed
<1>3. i <= n => /\ run \in 1 .. n - i + 1 /\ run <= MaxRun
                /\ \A j \in i .. i + run - 1 : tuples[j] = tuples[i]
  BY <1>1, NextRun
<1>. HIDE DEF run, flushed, command
<1>5. CASE i > n
  <2>1. i = n + 1 /\ from[<<i, s>>] = flushed
    BY <1>1, <1>2, <1>5
  <2>. QED
    BY <2>1 DEF AtEnd, flushed
<1>6. CASE i <= n /\ run = 1 /\ s # MaxRun
  <2>1. s + 1 <= MaxRun /\ ~(i > n)
    BY <1>1, <1>6
  <2>2. from[<<i, s>>] = from[<<i + 1, s + 1>>]
    BY <1>2, <1>6, <2>1
  <2>. QED
    BY <1>1, <1>6, <2>1, <2>2, LowerPlaces DEF Collects
<1>7. CASE i <= n /\ run = 1 /\ s = MaxRun
  <2>1. s # 0 /\ ~(i > n)
    BY <1>1, <1>7
  <2>2. from[<<i, s>>] = flushed \o from[<<i, 0>>]
    BY <1>2, <1>7, <2>1
  <2>. QED
    BY <1>1, <1>7, <2>1, <2>2, LowerPlaces DEF Flushes, flushed
<1>8. CASE i <= n /\ run # 1
  <2>1. run \in 2 .. MaxRun /\ i + run - 1 <= n /\ run \in Nat \ {0} /\ ~(i > n)
    BY <1>1, <1>3, <1>8
  <2>2. from[<<i, s>>] = flushed \o command \o from[<<i + run, 0>>]
    BY <1>2, <1>8, <2>1
  <2>3. Repeats(tuples, from, i, s, run)
    BY <1>1, <1>3, <1>8, <2>1, <2>2, LowerPlaces DEF Repeats, flushed, command
  <2>. QED
    BY <2>3, Zenon
<1>. QED
  BY <1>1, <1>5, <1>6, <1>7, <1>8

LEMMA CommandsAre ==
    ASSUME NEW tuples \in Seq(Nat), NEW i \in 1 .. Len(tuples) + 1
    PROVE  /\ Flushed(tuples, i, 0) = <<>>
           /\ \A s \in 1 .. i - 1 :
                 /\ Flushed(tuples, i, s) = <<s - 1>> \o SubSeq(tuples, i - s, i - 1)
                 /\ SubSeq(tuples, i - s, i - 1) \in Seq(Nat)
                 /\ Len(SubSeq(tuples, i - s, i - 1)) = s
                 /\ Flushed(tuples, i, s) \in Seq(Nat) /\ Len(Flushed(tuples, i, s)) = s + 1
           /\ \A t \in Nat, run \in 1 .. MaxRun :
                 /\ RunCompressed(t, run) = <<MaxRun + run - 1, t>>
                 /\ RunCompressed(t, run) \in Seq(Nat) /\ Len(RunCompressed(t, run)) = 2
<1>1. ASSUME NEW s \in 1 .. i - 1
      PROVE  /\ Flushed(tuples, i, s) = <<s - 1>> \o SubSeq(tuples, i - s, i - 1)
             /\ SubSeq(tuples, i - s, i - 1) \in Seq(Nat)
             /\ Len(SubSeq(tuples, i - s, i - 1)) = s
             /\ Flushed(tuples, i, s) \in Seq(Nat) /\ Len(Flushed(tuples, i, s)) = s + 1
  <2>1. s # 0 /\ i - s + s - 1 = i - 1 /\ s - 1 \in Nat
    OBVIOUS
  <2>2. Flushed(tuples, i, s) = <<s - 1>> \o SubSeq(tuples, i - s, i - 1)
    BY <2>1 DEF Flushed, RunStraight
  <2>. DEFINE part == SubSeq(tuples, i - s, i - 1)
  <2>3. part \in Seq(Nat) /\ Len(part) = s
    OBVIOUS
  <2>. HIDE DEF part
  <2>4. <<s - 1>> \o part \in Seq(Nat) /\ Len(<<s - 1>> \o part) = s + 1
    <3>1. <<s - 1>> \in Seq(Nat) /\ Len(<<s - 1>>) = 1
      BY <2>1
    <3>2. Len(<<s - 1>> \o part) = 1 + s
      BY <2>3, <3>1, ConcatNat
    <3>. QED
      BY <2>1, <2>3, <3>1, <3>2, ConcatNat
  <2>. QED
    BY <2>2, <2>3, <2>4 DEF part
<1>2. ASSUME NEW t \in Nat, NEW run \in 1 .. MaxRun
      PROVE  /\ RunCompressed(t, run) = <<MaxRun + run - 1, t>>
             /\ RunCompressed(t, run) \in Seq(Nat) /\ Len(RunCompressed(t, run)) = 2
  <2>1. MaxRun + run - 1 \in Nat
    BY ImageCodecAssumption
  <2>. QED
    BY <2>1 DEF RunCompressed
<1>. QED
  BY <1>1, <1>2 DEF Flushed

LEMMA FlushedLength ==
    ASSUME NEW tuples \in Seq(Nat), NEW i, NEW s, <<i, s>> \in Places(Len(tuples))
    PROVE  /\ Flushed(tuples, i, s) \in Seq(Nat)
           /\ Len(Flushed(tuples, i, s)) = (IF s = 0 THEN 0 ELSE s + 1)
           /\ i \in 1 .. Len(tuples) + 1 /\ s \in 0 .. MaxRun /\ s < i
           /\ MaxRun \in Nat /\ MaxRun > 1 /\ Len(tuples) \in Nat
<1>1. /\ i \in 1 .. Len(tuples) + 1 /\ s \in 0 .. MaxRun /\ s < i
      /\ MaxRun \in Nat /\ MaxRun > 1 /\ Len(tuples) \in Nat
  BY PlacesAre, ImageCodecAssumption
<1>2. CASE s = 0
  <2>1. Flushed(tuples, i, s) = <<>>
    BY <1>1, <1>2, CommandsAre
  <2>2. <<>> \in Seq(Nat) /\ Len(<<>>) = 0
    OBVIOUS
  <2>3. Flushed(tuples, i, s) \in Seq(Nat) /\ Len(Flushed(tuples, i, s)) = 0
    BY <2>1, <2>2, Zenon
  <2>. QED
    BY <1>1, <1>2, <2>3
<1>3. CASE s # 0
  <2>1. s \in 1 .. i - 1
    BY <1>1, <1>3
  <2>2. Flushed(tuples, i, s) \in Seq(Nat) /\ Len(Flushed(tuples, i, s)) = s + 1
    BY <1>1, <2>1, CommandsAre
  <2>. QED
    BY <1>1, <1>3, <2>2
<1>. QED
  BY <1>2, <1>3

(* How much is written from a place on. *)
Short(n, i, s, out) ==
    /\ out \in Seq(Nat) /\ 2 * Len(out) <= 3 * (n + 1 - i + s) + 1
    /\ i <= n \/ s > 0 => Len(out) > 0

(* A straight run costs one byte more than its tuples, and it has two of them unless
   it is the last or a compressed run follows, which saves what it costs. *)
LEMMA CompressedLength ==
    ASSUME NEW tuples \in Seq(Nat), NEW from, CompressEquation(tuples, from)
    PROVE  \A i, s : <<i, s>> \in Places(Len(tuples)) => Short(Len(tuples), i, s, from[<<i, s>>])
<1>. DEFINE n == Len(tuples)
            D == Places(n)
            rank == PlaceRank(n)
            G == {at \in D : Short(n, at[1], at[2], from[at])}
<1>1. n \in Nat /\ rank \in [D -> Nat]
  BY PlacesAre
<1>2. ASSUME NEW i, NEW s, <<i, s>> \in D,
             \A j, t : Closer(n, i, s, j, t) => Short(n, j, t, from[<<j, t>>])
      PROVE  Short(n, i, s, from[<<i, s>>])
  <2>. DEFINE flushed == Flushed(tuples, i, s)
  <2>1. /\ flushed \in Seq(Nat) /\ Len(flushed) = (IF s = 0 THEN 0 ELSE s + 1)
        /\ i \in 1 .. n + 1 /\ s \in 0 .. MaxRun /\ MaxRun \in Nat /\ MaxRun > 1 /\ n \in Nat
    BY <1>2, FlushedLength
  <2>. HIDE DEF flushed, n
  <2>2. CASE AtEnd(tuples, from, i, s)
    <3>1. i = n + 1 /\ from[<<i, s>>] = flushed
      BY <2>2 DEF AtEnd, n, flushed
    <3>2. 2 * Len(flushed) <= 3 * (n + 1 - i + s) + 1
      BY <2>1, <3>1
    <3>3. i <= n \/ s > 0 => Len(flushed) > 0
      BY <2>1, <3>1
    <3>. QED
      BY <2>1, <3>1, <3>2, <3>3 DEF Short
  <2>3. CASE Collects(tuples, from, i, s)
    <3>1. Short(n, i + 1, s + 1, from[<<i, s>>])
      BY <1>2, <2>3 DEF Collects, n
    <3>2. n + 1 - (i + 1) + (s + 1) = n + 1 - i + s /\ s + 1 > 0
      BY <2>1
    <3>. QED
      BY <3>1, <3>2 DEF Short
  <2>4. CASE Flushes(tuples, from, i, s)
    <3>. DEFINE rest == from[<<i, 0>>]
    <3>1. Short(n, i, 0, rest) /\ s = MaxRun /\ from[<<i, s>>] = flushed \o rest
      BY <1>2, <2>4 DEF Flushes, n, flushed
    <3>. HIDE DEF rest
    <3>2. rest \in Seq(Nat) /\ 2 * Len(rest) <= 3 * (n + 1 - i + 0) + 1
      BY <3>1 DEF Short
    <3>3. /\ flushed \o rest \in Seq(Nat) /\ Len(flushed \o rest) = Len(flushed) + Len(rest)
          /\ Len(rest) \in Nat
      BY <2>1, <3>2, ConcatNat
    <3>4. Len(flushed) = s + 1 /\ s \in Nat /\ s > 1
      BY <2>1, <3>1
    <3>5. 2 * (s + 1 + Len(rest)) <= 3 * (n + 1 - i + s) + 1
      BY <2>1, <3>2, <3>3, <3>4
    <3>. QED
      BY <3>1, <3>3, <3>4, <3>5 DEF Short
  <2>5. ASSUME NEW run, Repeats(tuples, from, i, s, run) PROVE Short(n, i, s, from[<<i, s>>])
    <3>. DEFINE rest == from[<<i + run, 0>>]
                command == RunCompressed(tuples[i], run)
    <3>1. /\ Short(n, i + run, 0, rest) /\ from[<<i, s>>] = flushed \o command \o rest
          /\ run \in 2 .. MaxRun /\ i + run - 1 <= n
      BY <1>2, <2>5 DEF Repeats, n, flushed
    <3>2. command \in Seq(Nat) /\ Len(command) = 2
      <4>1. i \in 1 .. Len(tuples) /\ run \in 1 .. MaxRun
        BY <2>1, <3>1 DEF n
      <4>2. tuples[i] \in Nat
        BY <4>1
      <4>3. i \in 1 .. Len(tuples) + 1
        BY <2>1 DEF n
      <4>. QED
        BY <4>1, <4>2, <4>3, CommandsAre
    <3>. HIDE DEF rest, command
    <3>3. rest \in Seq(Nat) /\ 2 * Len(rest) <= 3 * (n + 1 - (i + run) + 0) + 1
      BY <3>1 DEF Short
    <3>4. /\ flushed \o command \in Seq(Nat)
          /\ Len(flushed \o command) = Len(flushed) + 2
      BY <2>1, <3>2, ConcatNat
    <3>5. /\ flushed \o command \o rest \in Seq(Nat) /\ Len(rest) \in Nat
          /\ Len(flushed \o command \o rest) = Len(flushed) + 2 + Len(rest)
      BY <3>3, <3>4, ConcatNat
    <3>6. 2 * (Len(flushed) + 2 + Len(rest)) <= 3 * (n + 1 - i + s) + 1
      <4>1. 2 * (s + 1) + 4 + 3 * (n + 1 - (i + run)) + 1 <= 3 * (n + 1 - i + s) + 1
        BY <2>1, <3>1
      <4>2. Len(flushed) <= s + 1 /\ Len(flushed) \in Nat
        BY <2>1
      <4>3. s \in Nat /\ i \in Nat /\ run \in Nat
        BY <2>1, <3>1
      <4>. QED
        BY <2>1, <3>3, <3>5, <4>1, <4>2, <4>3
    <3>. QED
      BY <3>1, <3>5, <3>6 DEF Short
  <2>. QED
    BY <1>2, <2>2, <2>3, <2>4, <2>5, CompressCases DEF n
<1>3. \A x \in D : (\A y \in D : rank[y] < rank[x] => y \in G) => x \in G
  <2>. SUFFICES ASSUME NEW x \in D, \A y \in D : rank[y] < rank[x] => y \in G
                PROVE  Short(n, x[1], x[2], from[x])
    OBVIOUS
  <2>1. x = <<x[1], x[2]>>
    BY DEF Places
  <2>2. \A j, t : Closer(n, x[1], x[2], j, t) => <<j, t>> \in G
    BY <2>1 DEF Closer
  <2>3. \A j, t : <<j, t>> \in G => Short(n, j, t, from[<<j, t>>])
    OBVIOUS
  <2>. HIDE DEF G, n, D, rank
  <2>4. \A j, t : Closer(n, x[1], x[2], j, t) => Short(n, j, t, from[<<j, t>>])
    BY <2>2, <2>3
  <2>. QED
    BY <1>2, <2>1, <2>4
<1>4. \A x \in D : x \in G
  <2>. HIDE DEF D, rank, G
  <2>. QED
    BY <1>1, <1>3, RankedInduction
<1>. QED
  BY <1>4
-----------------------------------------------------------------------------
(* The decompressor of the logo, as the equations of its two functions, and that it
   restores what was compressed. *)

LogoStep(bytes, from, i) ==
    IF i > Len(bytes) THEN <<>>
    ELSE LogoRleCommand(bytes, i) \o from[i + LogoWordsInput(bytes[i])]
LogoEquation(bytes, from) == from = [i \in Nat \ {0} |-> LogoStep(bytes, from, i)]

EndsStep(bytes, ends, i) ==
    i = Len(bytes) + 1 \/
        LET next == i + LogoWordsInput(bytes[i])
        IN  next \in 1 .. Len(bytes) + 1 /\ ends[next]
EndsEquation(bytes, ends) == ends = [i \in 1 .. Len(bytes) + 1 |-> EndsStep(bytes, ends, i)]

LEMMA LogoCommands ==
    ASSUME NEW b \in Nat
    PROVE  /\ LogoTuples(b) \in 1 .. MaxRun /\ LogoTuples(b) \in Nat
           /\ LogoWordsInput(b) \in Nat /\ LogoWordsInput(b) > 1
           /\ b < MaxRun => LogoTuples(b) = b + 1 /\ LogoWordsInput(b) = b + 2
           /\ \A run \in 1 .. MaxRun : b = MaxRun + run - 1 =>
                 ~(b < MaxRun) /\ LogoTuples(b) = run /\ LogoWordsInput(b) = 2
<1>1. MaxRun \in Nat \ {0}
  BY ImageCodecAssumption
<1>2. b % MaxRun \in 0 .. MaxRun - 1 /\ (b < MaxRun => b % MaxRun = b)
  BY <1>1, SMTT(30)
<1>3. \A run \in 1 .. MaxRun : b = MaxRun + run - 1 => b % MaxRun = run - 1
  BY <1>1, SMTT(30)
<1>. QED
  BY <1>1, <1>2, <1>3 DEF LogoTuples, LogoWordsInput

LEMMA LogoRleTyped ==
    ASSUME NEW bytes, NEW i \in Int, bytes[i] \in Nat
    PROVE  LogoRleCommand(bytes, i) \in Seq(Elements(bytes))
<1>. DEFINE U == Elements(bytes)
            n == LogoTuples(bytes[i])
<1>1. \A k \in Int : bytes[k] \in U
  BY DEF Elements
<1>2. n \in Nat
  BY LogoCommands
<1>. HIDE DEF U, n
<1>3. SubSeq(bytes, i + 1, i + n) \in Seq(U)
  BY <1>1, <1>2
<1>4. [k \in 1 .. n |-> bytes[i + 1]] \in Seq(U)
  <2>1. bytes[i + 1] \in U
    BY <1>1
  <2>. QED
    BY <1>2, <2>1
<1>. QED
  BY <1>3, <1>4 DEF LogoRleCommand, U, n

LEMMA LogoHasTuples ==
    ASSUME NEW bytes \in Seq(Nat)
    PROVE  \E from : LogoEquation(bytes, from)
<1>. DEFINE n == Len(bytes)
            D == Nat \ {0}
            V == Seq(Elements(bytes))
            rank == [i \in D |-> IF i > n THEN 0 ELSE n + 1 - i]
            Step == [i \in D |-> [g \in [D -> V] |-> LogoStep(bytes, g, i)]]
<1>1. /\ n \in Nat /\ V # {} /\ rank \in [D -> 0 .. n] /\ <<>> \in V
  <2>1. <<>> \in V
    OBVIOUS
  <2>2. n \in Nat
    OBVIOUS
  <2>3. \A i \in D : (IF i > n THEN 0 ELSE n + 1 - i) \in 0 .. n
    BY <2>2
  <2>. HIDE DEF V
  <2>4. rank \in [D -> 0 .. n]
    BY <2>3
  <2>. QED
    BY <2>1, <2>2, <2>4
<1>2. ASSUME NEW i \in D, i <= n
      PROVE  /\ bytes[i] \in Nat /\ i + LogoWordsInput(bytes[i]) \in D
             /\ rank[i + LogoWordsInput(bytes[i])] < rank[i]
             /\ LogoRleCommand(bytes, i) \in V
  <2>1. bytes[i] \in Nat
    BY <1>2
  <2>. DEFINE words == LogoWordsInput(bytes[i])
  <2>2. words \in Nat /\ words > 1
    BY <2>1, LogoCommands
  <2>. HIDE DEF words
  <2>3. i + words \in D /\ rank[i + words] < rank[i]
    BY <1>1, <1>2, <2>2
  <2>. QED
    BY <2>1, <2>3, LogoRleTyped DEF words
<1>. HIDE DEF V, rank
<1>3. Step \in [D -> [[D -> V] -> V]]
  <2>1. ASSUME NEW i \in D, NEW g \in [D -> V] PROVE LogoStep(bytes, g, i) \in V
    <3>1. CASE i > n
      BY <1>1, <3>1 DEF LogoStep
    <3>2. CASE i <= n
      <4>1. g[i + LogoWordsInput(bytes[i])] \in V
        BY <1>2, <3>2
      <4>2. \A a \in V, b \in V : a \o b \in V
        BY DEF V
      <4>. QED
        BY <1>1, <1>2, <3>2, <4>1, <4>2 DEF LogoStep
    <3>. QED
      BY <1>1, <3>1, <3>2
  <2>. QED
    BY <2>1
<1>4. \A x \in D, g \in [D -> V], h \in [D -> V] :
         (\A y \in D : rank[y] < rank[x] => g[y] = h[y]) => Step[x][g] = Step[x][h]
  <2>. SUFFICES ASSUME NEW i \in D, NEW g \in [D -> V], NEW h \in [D -> V],
                       \A y \in D : rank[y] < rank[i] => g[y] = h[y]
                PROVE  Step[i][g] = Step[i][h]
    BY Zenon
  <2>1. CASE i > n
    BY <2>1 DEF LogoStep
  <2>2. CASE i <= n
    <3>1. g[i + LogoWordsInput(bytes[i])] = h[i + LogoWordsInput(bytes[i])]
      BY <1>2, <2>2
    <3>. QED
      BY <3>1 DEF LogoStep
  <2>. QED
    BY <1>1, <2>1, <2>2
<1>5. Ranked(D, V, n, rank, Step)
  <2>. HIDE DEF n, D, Step
  <2>. QED
    BY <1>1, <1>3, <1>4, Zenon DEF Ranked
<1>6. PICK f \in [D -> V] : \A x \in D : f[x] = Step[x][f]
  <2>. HIDE DEF n, D, Step
  <2>. QED
    BY <1>5, Recursion
<1>7. \A x \in D : f[x] = LogoStep(bytes, f, x)
  BY <1>6
<1>. QED
  BY <1>6, <1>7 DEF LogoEquation

LEMMA LogoHasEnds ==
    ASSUME NEW bytes \in Seq(Nat)
    PROVE  \E ends : EndsEquation(bytes, ends)
<1>. DEFINE n == Len(bytes)
            D == 1 .. n + 1
            V == BOOLEAN
            rank == [i \in D |-> n + 1 - i]
            Step == [i \in D |-> [g \in [D -> V] |-> EndsStep(bytes, g, i)]]
<1>1. n \in Nat /\ V # {} /\ rank \in [D -> 0 .. n]
  <2>1. n \in Nat
    OBVIOUS
  <2>2. V # {}
    OBVIOUS
  <2>3. \A i \in D : n + 1 - i \in 0 .. n
    BY <2>1
  <2>. QED
    BY <2>1, <2>2, <2>3
<1>2. ASSUME NEW i \in D, i # n + 1, i + LogoWordsInput(bytes[i]) \in D
      PROVE  rank[i + LogoWordsInput(bytes[i])] < rank[i]
  <2>. DEFINE words == LogoWordsInput(bytes[i])
  <2>1. bytes[i] \in Nat
    BY <1>2
  <2>2. words \in Nat /\ words > 1
    BY <2>1, LogoCommands
  <2>. HIDE DEF words
  <2>3. i + words \in D => rank[i + words] < rank[i]
    BY <1>1, <2>2
  <2>. QED
    BY <1>2, <2>3 DEF words
<1>. HIDE DEF rank
<1>3. Step \in [D -> [[D -> V] -> V]]
  <2>1. ASSUME NEW i \in D, NEW g \in [D -> V] PROVE EndsStep(bytes, g, i) \in V
    BY DEF EndsStep
  <2>. QED
    BY <2>1
<1>4. \A x \in D, g \in [D -> V], h \in [D -> V] :
         (\A y \in D : rank[y] < rank[x] => g[y] = h[y]) => Step[x][g] = Step[x][h]
  <2>. SUFFICES ASSUME NEW i \in D, NEW g \in [D -> V], NEW h \in [D -> V],
                       \A y \in D : rank[y] < rank[i] => g[y] = h[y]
                PROVE  Step[i][g] = Step[i][h]
    BY Zenon
  <2>1. CASE i = n + 1
    BY <2>1 DEF EndsStep
  <2>2. CASE i # n + 1
    <3>. DEFINE next == i + LogoWordsInput(bytes[i])
    <3>1. next \in D => g[next] = h[next]
      BY <1>2, <2>2
    <3>. HIDE DEF next
    <3>2. EndsStep(bytes, g, i) = EndsStep(bytes, h, i)
      BY <3>1 DEF EndsStep, next
    <3>. QED
      BY <3>2
  <2>. QED
    BY <2>1, <2>2
<1>5. Ranked(D, V, n, rank, Step)
  <2>. HIDE DEF n, D, Step, V
  <2>. QED
    BY <1>1, <1>3, <1>4, Zenon DEF Ranked
<1>6. PICK f \in [D -> V] : \A x \in D : f[x] = Step[x][f]
  <2>. HIDE DEF n, D, Step, V
  <2>. QED
    BY <1>5, Recursion
<1>7. \A x \in D : f[x] = EndsStep(bytes, f, x)
  BY <1>6
<1>. QED
  BY <1>6, <1>7 DEF EndsEquation

LEMMA LogoUnfolds ==
    ASSUME NEW bytes \in Seq(Nat)
    PROVE  \E from, ends :
              /\ LogoEquation(bytes, from) /\ EndsEquation(bytes, ends)
              /\ \A color_table, background :
                    LogoDecompress(bytes, color_table, background) =
                       IF ends[1]
                       THEN FlattenSeq([n \in DOMAIN from[1] |->
                               LogoColorTuple(color_table, background, from[1][n])])
                       ELSE Runaway
<1>. DEFINE from == CHOOSE f : LogoEquation(bytes, f)
            ends == CHOOSE e : EndsEquation(bytes, e)
<1>1. LogoEquation(bytes, from) /\ EndsEquation(bytes, ends)
  BY LogoHasTuples, LogoHasEnds, Zenon
<1>2. ASSUME NEW color_table, NEW background
      PROVE  LogoDecompress(bytes, color_table, background) =
                IF ends[1]
                THEN FlattenSeq([n \in DOMAIN from[1] |->
                        LogoColorTuple(color_table, background, from[1][n])])
                ELSE Runaway
  BY DEF LogoDecompress, LogoEquation, LogoStep, EndsEquation, EndsStep
<1>. HIDE DEF from, ends
<1>. QED
  BY <1>1, <1>2, Zenon

(* What remains of the bytes, and what is decompressed of it. *)
Rest(bytes, p) == SubSeq(bytes, p, Len(bytes))

Ahead(bytes, p, x, y) ==
    p \in 1 .. Len(bytes) + 1 /\ y \in Seq(Nat) /\ Rest(bytes, p) = x \o y

Passed(bytes, p, x, y) ==
    /\ p + Len(x) \in 1 .. Len(bytes) + 1 /\ Rest(bytes, p + Len(x)) = y
    /\ \A k \in 1 .. Len(x) : p + k - 1 \in 1 .. Len(bytes) /\ bytes[p + k - 1] = x[k]

LEMMA RestConcat ==
    ASSUME NEW bytes \in Seq(Nat), NEW x \in Seq(Nat), NEW p, NEW y, Ahead(bytes, p, x, y)
    PROVE  Passed(bytes, p, x, y)
<1>. DEFINE n == Len(bytes)
            rest == Rest(bytes, p)
            both == x \o y
<1>0. p \in 1 .. Len(bytes) + 1 /\ y \in Seq(Nat) /\ Rest(bytes, p) = x \o y
  BY DEF Ahead
<1>1. /\ n \in Nat /\ Len(x) \in Nat /\ Len(y) \in Nat /\ both \in Seq(Nat)
      /\ Len(both) = Len(x) + Len(y)
      /\ \A k \in 1 .. Len(x) : both[k] = x[k]
      /\ \A k \in 1 .. Len(y) : both[Len(x) + k] = y[k]
  BY <1>0, ConcatNat, ConcatElements
<1>2. Len(rest) = n + 1 - p /\ \A k \in 1 .. n + 1 - p : rest[k] = bytes[p + k - 1]
  <2>1. n \in Nat /\ p \in 1 .. n + 1 /\ p <= n + 1 /\ n <= n
    BY <1>0
  <2>2. rest = SubSeq(bytes, p, n)
    BY DEF Rest
  <2>. HIDE DEF rest, both
  <2>. QED
    BY <2>1, <2>2, SubSeqIs
<1>3. rest = both
  BY <1>0
<1>. HIDE DEF n, rest, both
<1>4. Len(x) + Len(y) = n + 1 - p
  BY <1>1, <1>2, <1>3
<1>5. p \in 1 .. n + 1
  BY <1>0 DEF n
<1>6. \A k \in 1 .. Len(x) : k \in 1 .. n + 1 - p /\ p + k - 1 \in 1 .. n
  BY <1>1, <1>4, <1>5
<1>7. ASSUME NEW k \in 1 .. Len(y) PROVE Len(x) + k \in 1 .. n + 1 - p
  <2>1. Len(x) \in Nat /\ Len(y) \in Nat /\ Len(x) + Len(y) = n + 1 - p
    BY <1>1, <1>4
  <2>. QED
    BY <2>1
<1>8. p + Len(x) \in 1 .. n + 1 /\ n + 1 - (p + Len(x)) = Len(y)
  BY <1>1, <1>4, <1>5
<1>9. \A k \in 1 .. Len(x) : bytes[p + k - 1] = x[k]
  BY <1>1, <1>2, <1>3, <1>6
<1>10. \A k \in 1 .. Len(y) : bytes[(p + Len(x)) + k - 1] = y[k]
  <2>1. \A k \in 1 .. Len(y) : bytes[p + (Len(x) + k) - 1] = y[k]
    BY <1>1, <1>2, <1>3, <1>7
  <2>2. \A k \in 1 .. Len(y) : p + (Len(x) + k) - 1 = (p + Len(x)) + k - 1
    BY <1>1, <1>5
  <2>. QED
    BY <2>1, <2>2
<1>11. Rest(bytes, p + Len(x)) = y
  <2>. DEFINE q == p + Len(x)
  <2>. HIDE DEF q
  <2>0. q \in 1 .. Len(bytes) + 1 /\ Len(bytes) + 1 - q = Len(y)
    BY <1>8 DEF q, n
  <2>1. /\ Rest(bytes, q) \in Seq(Nat) /\ Len(Rest(bytes, q)) = Len(bytes) + 1 - q
        /\ \A k \in 1 .. Len(bytes) + 1 - q : Rest(bytes, q)[k] = bytes[q + k - 1]
    BY <2>0 DEF Rest
  <2>2. \A k \in 1 .. Len(y) : Rest(bytes, q)[k] = y[k]
    BY <1>10, <2>0, <2>1 DEF q
  <2>3. Rest(bytes, q) = y
    BY <1>0, <2>0, <2>1, <2>2, SeqEqual
  <2>. QED
    BY <2>3 DEF q
<1>. QED
  BY <1>6, <1>8, <1>9, <1>11 DEF n, Passed

Decompresses(bytes, from, ends, p, q, tuples) ==
    /\ q \in 1 .. Len(bytes) + 1
    /\ from[p] = tuples \o from[q] /\ ends[p] = ends[q]

(* A command is read as the tuples it was written for. *)
LEMMA CommandIsRead ==
    ASSUME NEW bytes \in Seq(Nat), NEW from, LogoEquation(bytes, from),
           NEW ends, EndsEquation(bytes, ends),
           NEW p \in 1 .. Len(bytes), NEW words, words = LogoWordsInput(bytes[p]),
           p + words \in 1 .. Len(bytes) + 1
    PROVE  Decompresses(bytes, from, ends, p, p + words, LogoRleCommand(bytes, p))
<1>1. from[p] = LogoRleCommand(bytes, p) \o from[p + words]
  <2>1. p \in Nat \ {0} /\ ~(p > Len(bytes))
    OBVIOUS
  <2>2. from[p] = LogoStep(bytes, from, p)
    BY <2>1 DEF LogoEquation
  <2>. QED
    BY <2>1, <2>2 DEF LogoStep
<1>2. ends[p] = ends[p + words]
  <2>1. p \in 1 .. Len(bytes) + 1 /\ p # Len(bytes) + 1
    OBVIOUS
  <2>2. \A i \in 1 .. Len(bytes) + 1 : ends[i] = EndsStep(bytes, ends, i)
    BY DEF EndsEquation
  <2>3. \A i \in 1 .. Len(bytes) + 1 : ends[i] \in BOOLEAN
    BY <2>2 DEF EndsStep
  <2>4. ends[p] = EndsStep(bytes, ends, p)
    BY <2>1, <2>2
  <2>5. EndsStep(bytes, ends, p) <=> ends[p + words]
    BY <2>1 DEF EndsStep
  <2>. QED
    BY <2>1, <2>3, <2>4, <2>5
<1>. QED
  BY <1>1, <1>2 DEF Decompresses

LEMMA FlushedIsRead ==
    ASSUME NEW bytes \in Seq(Nat), NEW from, LogoEquation(bytes, from),
           NEW ends, EndsEquation(bytes, ends), NEW tuples \in Seq(Nat),
           NEW i, NEW s, <<i, s>> \in Places(Len(tuples)), s # 0,
           NEW p, NEW y, Ahead(bytes, p, Flushed(tuples, i, s), y)
    PROVE  /\ Decompresses(bytes, from, ends, p, p + s + 1, SubSeq(tuples, i - s, i - 1))
           /\ Rest(bytes, p + s + 1) = y
<1>. DEFINE part == SubSeq(tuples, i - s, i - 1)
            x == Flushed(tuples, i, s)
<1>0. p \in 1 .. Len(bytes) + 1 /\ y \in Seq(Nat) /\ Ahead(bytes, p, x, y)
  BY DEF Ahead
<1>1. /\ i \in 1 .. Len(tuples) + 1 /\ s \in 1 .. i - 1 /\ s <= MaxRun /\ MaxRun \in Nat
      /\ s \in Nat
  BY FlushedLength
<1>2. /\ x = <<s - 1>> \o part /\ part \in Seq(Nat) /\ Len(part) = s
      /\ x \in Seq(Nat) /\ Len(x) = s + 1
  BY <1>1, CommandsAre
<1>. HIDE DEF part, x
<1>3. /\ p + Len(x) \in 1 .. Len(bytes) + 1 /\ Rest(bytes, p + Len(x)) = y
      /\ \A k \in 1 .. Len(x) : p + k - 1 \in 1 .. Len(bytes) /\ bytes[p + k - 1] = x[k]
  <2>1. Ahead(bytes, p, x, y) /\ x \in Seq(Nat)
    BY <1>0, <1>2
  <2>2. Passed(bytes, p, x, y)
    BY <2>1, RestConcat, Zenon
  <2>. QED
    BY <2>2 DEF Passed
<1>4. x[1] = s - 1 /\ \A k \in 1 .. s : x[k + 1] = part[k]
  <2>1. <<s - 1>> \in Seq(Nat) /\ Len(<<s - 1>>) = 1 /\ <<s - 1>>[1] = s - 1
    BY <1>1
  <2>. DEFINE first == <<s - 1>>
  <2>. HIDE DEF first
  <2>2. first \in Seq(Nat) /\ Len(first) = 1 /\ first[1] = s - 1 /\ x = first \o part
    BY <1>2, <2>1 DEF first
  <2>3. (first \o part)[1] = first[1]
    <3>1. 1 \in 1 .. Len(first)
      BY <2>2
    <3>. QED
      BY <1>2, <2>2, <3>1, ConcatElements
  <2>4. \A k \in 1 .. Len(part) : (first \o part)[Len(first) + k] = part[k]
    BY <1>2, <2>2, ConcatElements
  <2>5. \A k \in 1 .. s : Len(first) + k = k + 1
    BY <1>1, <2>2
  <2>. QED
    BY <1>2, <2>2, <2>3, <2>4, <2>5
<1>5. /\ p \in 1 .. Len(bytes) /\ bytes[p] = s - 1
      /\ \A k \in 1 .. s : bytes[p + k] = part[k]
  <2>1. 1 \in 1 .. Len(x) /\ p + 1 - 1 = p
    BY <1>0, <1>1, <1>2
  <2>2. \A k \in 1 .. s : k + 1 \in 1 .. Len(x) /\ p + (k + 1) - 1 = p + k
    BY <1>0, <1>1, <1>2
  <2>. QED
    BY <1>3, <1>4, <2>1, <2>2
<1>6. LogoTuples(bytes[p]) = s /\ LogoWordsInput(bytes[p]) = s + 1 /\ bytes[p] < MaxRun
  <2>1. s - 1 \in Nat /\ s - 1 < MaxRun
    BY <1>1
  <2>. QED
    BY <1>1, <1>5, <2>1, LogoCommands
<1>7. LogoRleCommand(bytes, p) = part
  <2>1. LogoRleCommand(bytes, p) = SubSeq(bytes, p + 1, p + s)
    BY <1>6 DEF LogoRleCommand
  <2>2. p + s \in 1 .. Len(bytes) /\ p + 1 \in 1 .. Len(bytes) + 1
    BY <1>1, <1>2, <1>3, <1>5
  <2>3. /\ SubSeq(bytes, p + 1, p + s) \in Seq(Nat) /\ Len(SubSeq(bytes, p + 1, p + s)) = s
        /\ \A k \in 1 .. s : SubSeq(bytes, p + 1, p + s)[k] = bytes[p + k]
    <3>. DEFINE q == p + 1
                r == p + s
    <3>1. q \in 1 .. Len(bytes) + 1 /\ r \in 1 .. Len(bytes) /\ r + 1 - q = s
          /\ \A k \in 1 .. s : q + k - 1 = p + k
      BY <1>0, <1>1, <2>2
    <3>. HIDE DEF q, r
    <3>2. SubSeq(bytes, q, r) \in Seq(Nat)
      BY <3>1
    <3>3. Len(SubSeq(bytes, q, r)) = s
      BY <1>1, <3>1
    <3>4. \A k \in 1 .. s : SubSeq(bytes, q, r)[k] = bytes[q + k - 1]
      BY <1>1, <3>1
    <3>. QED
      BY <3>1, <3>2, <3>3, <3>4 DEF q, r
  <2>4. \A k \in 1 .. s : SubSeq(bytes, p + 1, p + s)[k] = part[k]
    BY <1>5, <2>3
  <2>. QED
    BY <1>2, <2>1, <2>3, <2>4, SeqEqual
<1>8. p + (s + 1) \in 1 .. Len(bytes) + 1 /\ p + (s + 1) = p + s + 1
  BY <1>0, <1>1, <1>2, <1>3
<1>9. Decompresses(bytes, from, ends, p, p + (s + 1), part)
  BY <1>5, <1>6, <1>7, <1>8, CommandIsRead
<1>. QED
  BY <1>2, <1>3, <1>8, <1>9 DEF part

RunAt(tuples, i, run) ==
    /\ i \in 1 .. Len(tuples) /\ run \in 1 .. MaxRun /\ i + run - 1 <= Len(tuples)
    /\ \A j \in i .. i + run - 1 : tuples[j] = tuples[i]

LEMMA RepeatedIsRead ==
    ASSUME NEW bytes \in Seq(Nat), NEW from, LogoEquation(bytes, from),
           NEW ends, EndsEquation(bytes, ends), NEW tuples \in Seq(Nat),
           NEW i, NEW run, RunAt(tuples, i, run),
           NEW p, NEW y, Ahead(bytes, p, RunCompressed(tuples[i], run), y)
    PROVE  /\ Decompresses(bytes, from, ends, p, p + 2, SubSeq(tuples, i, i + run - 1))
           /\ Rest(bytes, p + 2) = y
<1>. DEFINE x == RunCompressed(tuples[i], run)
<1>0. /\ p \in 1 .. Len(bytes) + 1 /\ y \in Seq(Nat) /\ Ahead(bytes, p, x, y)
      /\ i \in 1 .. Len(tuples) /\ run \in 1 .. MaxRun /\ i + run - 1 <= Len(tuples)
      /\ \A j \in i .. i + run - 1 : tuples[j] = tuples[i]
  BY DEF Ahead, RunAt
<1>1. /\ x = <<MaxRun + run - 1, tuples[i]>> /\ x \in Seq(Nat) /\ Len(x) = 2
      /\ tuples[i] \in Nat /\ run \in Nat /\ MaxRun \in Nat
  <2>1. tuples[i] \in Nat /\ i \in 1 .. Len(tuples) + 1 /\ MaxRun \in Nat
    BY <1>0, ImageCodecAssumption
  <2>2. run \in Nat
    BY <1>0, <2>1
  <2>. QED
    BY <1>0, <2>1, <2>2, CommandsAre
<1>2. x[1] = MaxRun + run - 1 /\ x[2] = tuples[i]
  BY <1>1
<1>. HIDE DEF x
<1>3. /\ p + Len(x) \in 1 .. Len(bytes) + 1 /\ Rest(bytes, p + Len(x)) = y
      /\ \A k \in 1 .. Len(x) : p + k - 1 \in 1 .. Len(bytes) /\ bytes[p + k - 1] = x[k]
  <2>1. Ahead(bytes, p, x, y) /\ x \in Seq(Nat)
    BY <1>0, <1>1
  <2>2. Passed(bytes, p, x, y)
    BY <2>1, RestConcat, Zenon
  <2>. QED
    BY <2>2 DEF Passed
<1>4. /\ p \in 1 .. Len(bytes) /\ bytes[p] = MaxRun + run - 1 /\ bytes[p + 1] = tuples[i]
      /\ p + 2 \in 1 .. Len(bytes) + 1
  <2>1. 1 \in 1 .. 2 /\ 2 \in 1 .. 2 /\ p + 1 - 1 = p /\ p + 2 - 1 = p + 1
    BY <1>0
  <2>. QED
    BY <1>1, <1>2, <1>3, <2>1
<1>5. LogoTuples(bytes[p]) = run /\ LogoWordsInput(bytes[p]) = 2 /\ ~(bytes[p] < MaxRun)
  <2>1. MaxRun + run - 1 \in Nat
    BY <1>0, <1>1
  <2>. QED
    BY <1>0, <1>4, <2>1, LogoCommands
<1>6. LogoRleCommand(bytes, p) = [k \in 1 .. run |-> tuples[i]]
  BY <1>4, <1>5 DEF LogoRleCommand
<1>7. [k \in 1 .. run |-> tuples[i]] = SubSeq(tuples, i, i + run - 1)
  <2>1. /\ SubSeq(tuples, i, i + run - 1) \in Seq(Nat)
        /\ Len(SubSeq(tuples, i, i + run - 1)) = run
        /\ \A k \in 1 .. run : SubSeq(tuples, i, i + run - 1)[k] = tuples[i + k - 1]
    <3>. DEFINE j == i + run - 1
    <3>1. /\ i \in 1 .. Len(tuples) + 1 /\ j \in Nat /\ i <= j + 1 /\ j <= Len(tuples)
          /\ j + 1 - i = run
      BY <1>0, <1>1
    <3>. HIDE DEF j
    <3>2. /\ SubSeq(tuples, i, j) \in Seq(Nat) /\ Len(SubSeq(tuples, i, j)) = run
          /\ \A k \in 1 .. run : SubSeq(tuples, i, j)[k] = tuples[i + k - 1]
      BY <3>1, SubSeqIs
    <3>. QED
      BY <3>2 DEF j
  <2>2. [k \in 1 .. run |-> tuples[i]] \in Seq(Nat) /\ Len([k \in 1 .. run |-> tuples[i]]) = run
    BY <1>1
  <2>3. \A k \in 1 .. run : i + k - 1 \in i .. i + run - 1
    BY <1>0, <1>1
  <2>4. \A k \in 1 .. run : [j \in 1 .. run |-> tuples[i]][k] = SubSeq(tuples, i, i + run - 1)[k]
    BY <1>0, <2>1, <2>3
  <2>. QED
    BY <2>1, <2>2, <2>4, SeqEqual
<1>8. Decompresses(bytes, from, ends, p, p + 2, SubSeq(tuples, i, i + run - 1))
  BY <1>4, <1>5, <1>6, <1>7, CommandIsRead
<1>. QED
  BY <1>1, <1>3, <1>8

(* From here on the decompressor restores the tuples from i on. *)
Restored(bytes, from, ends, p, tuples, i) ==
    from[p] = SubSeq(tuples, i, Len(tuples)) /\ ends[p]

LEMMA NothingIsLeft ==
    ASSUME NEW bytes \in Seq(Nat), NEW from, LogoEquation(bytes, from),
           NEW ends, EndsEquation(bytes, ends), NEW p \in 1 .. Len(bytes) + 1,
           Rest(bytes, p) = <<>>
    PROVE  from[p] = <<>> /\ ends[p]
<1>1. Len(bytes) \in Nat /\ p <= Len(bytes) + 1 /\ Len(bytes) <= Len(bytes)
  OBVIOUS
<1>2. Len(Rest(bytes, p)) = Len(bytes) + 1 - p
  BY <1>1, SubSeqIs DEF Rest
<1>3. Len(Rest(bytes, p)) = 0
  OBVIOUS
<1>4. p = Len(bytes) + 1
  BY <1>1, <1>2, <1>3
<1>5. p \in Nat \ {0} /\ p > Len(bytes)
  BY <1>1, <1>4
<1>6. from[p] = <<>>
  BY <1>5 DEF LogoEquation, LogoStep
<1>7. ends[p] = EndsStep(bytes, ends, p)
  BY DEF EndsEquation
<1>. QED
  BY <1>4, <1>6, <1>7 DEF EndsStep

LEMMA ReadThenRestored ==
    ASSUME NEW bytes, NEW from, NEW ends, NEW p, NEW q, NEW tuples \in Seq(Nat),
           NEW i \in 1 .. Len(tuples) + 1, NEW j \in i .. Len(tuples) + 1,
           Decompresses(bytes, from, ends, p, q, SubSeq(tuples, i, j - 1)),
           Restored(bytes, from, ends, q, tuples, j)
    PROVE  Restored(bytes, from, ends, p, tuples, i)
<1>1. SubSeq(tuples, i, j - 1) \o SubSeq(tuples, j, Len(tuples)) = SubSeq(tuples, i, Len(tuples))
  BY SubSeqJoins
<1>. QED
  BY <1>1 DEF Decompresses, Restored

(* From every place of the compressor the decompressor restores the tuples that it writes. *)
LEMMA TuplesAreRestored ==
    ASSUME NEW tuples \in Seq(Nat), NEW out, CompressEquation(tuples, out),
           NEW bytes \in Seq(Nat), NEW from, LogoEquation(bytes, from),
           NEW ends, EndsEquation(bytes, ends)
    PROVE  \A i, s : <<i, s>> \in Places(Len(tuples)) =>
              \A p \in 1 .. Len(bytes) + 1 : Rest(bytes, p) = out[<<i, s>>] =>
                  Restored(bytes, from, ends, p, tuples, i - s)
<1>. DEFINE n == Len(tuples)
            D == Places(n)
            rank == PlaceRank(n)
            Goal(i, s) == \A p \in 1 .. Len(bytes) + 1 : Rest(bytes, p) = out[<<i, s>>] =>
                             Restored(bytes, from, ends, p, tuples, i - s)
            G == {at \in D : Goal(at[1], at[2])}
<1>1. n \in Nat /\ rank \in [D -> Nat]
  BY PlacesAre
<1>2. ASSUME NEW i, NEW s, <<i, s>> \in D, \A j, t : Closer(n, i, s, j, t) => Goal(j, t),
             NEW p \in 1 .. Len(bytes) + 1, Rest(bytes, p) = out[<<i, s>>]
      PROVE  Restored(bytes, from, ends, p, tuples, i - s)
  <2>. DEFINE flushed == Flushed(tuples, i, s)
              at(q, j) == Restored(bytes, from, ends, q, tuples, j)
  <2>1. /\ flushed \in Seq(Nat)
        /\ i \in 1 .. n + 1 /\ s \in 0 .. MaxRun /\ s < i /\ MaxRun \in Nat /\ MaxRun > 1 /\ n \in Nat
    BY <1>2, FlushedLength
  <2>2. \A j, t : <<j, t>> \in D => out[<<j, t>>] \in Seq(Nat)
    BY CompressedLength DEF Short
  <2>3. \A j, t : \A q \in 1 .. Len(bytes) + 1 :
          Closer(n, i, s, j, t) /\ Rest(bytes, q) = out[<<j, t>>] => at(q, j - t)
    BY <1>2, Zenon
  <2>4. ASSUME s # 0, NEW y \in Seq(Nat), Rest(bytes, p) = flushed \o y
        PROVE  /\ Decompresses(bytes, from, ends, p, p + s + 1, SubSeq(tuples, i - s, i - 1))
               /\ Rest(bytes, p + s + 1) = y /\ p + s + 1 \in 1 .. Len(bytes) + 1
    <3>1. <<i, s>> \in Places(Len(tuples)) /\ Rest(bytes, p) = Flushed(tuples, i, s) \o y
      BY <1>2, <2>4
    <3>2. Ahead(bytes, p, Flushed(tuples, i, s), y)
      BY <1>2, <2>4, <3>1 DEF Ahead
    <3>3. /\ Decompresses(bytes, from, ends, p, p + s + 1, SubSeq(tuples, i - s, i - 1))
          /\ Rest(bytes, p + s + 1) = y
      BY <2>4, <3>1, <3>2, FlushedIsRead, Zenon
    <3>. QED
      BY <3>3 DEF Decompresses
  <2>5. ASSUME NEW q, Decompresses(bytes, from, ends, p, q, SubSeq(tuples, i - s, i - 1)), at(q, i)
        PROVE  at(p, i - s)
    <3>. DEFINE k == i - s
    <3>1. k \in 1 .. n + 1 /\ i \in k .. n + 1
      BY <2>1
    <3>. HIDE DEF k
    <3>2. Decompresses(bytes, from, ends, p, q, SubSeq(tuples, k, i - 1))
      BY <2>5 DEF k
    <3>3. at(p, k)
      BY <2>5, <3>1, <3>2, ReadThenRestored
    <3>. QED
      BY <3>3 DEF k
  <2>6. s = 0 => flushed = <<>> /\ i - s = i
    BY <2>1, CommandsAre
  <2>. HIDE DEF flushed, n, at
  <2>7. \A y \in Seq(Nat) : <<>> \o y = y /\ y \o <<>> = y
    OBVIOUS
  <2>8. CASE AtEnd(tuples, out, i, s)
    <3>1. i = n + 1 /\ Rest(bytes, p) = flushed
      BY <1>2, <2>8 DEF AtEnd, n, flushed
    <3>2. ASSUME NEW q \in 1 .. Len(bytes) + 1, Rest(bytes, q) = <<>> PROVE at(q, i)
      <4>1. from[q] = <<>> /\ ends[q]
        BY <3>2, NothingIsLeft
      <4>2. SubSeq(tuples, n + 1, n) = <<>>
        BY DEF n
      <4>. QED
        BY <3>1, <4>1, <4>2 DEF Restored, n, at
    <3>3. CASE s = 0
      BY <2>6, <3>1, <3>2, <3>3 DEF at
    <3>4. CASE s # 0
      <4>1. <<>> \in Seq(Nat)
        OBVIOUS
      <4>2. Rest(bytes, p) = flushed \o <<>>
        BY <2>1, <2>7, <3>1
      <4>. DEFINE q == p + s + 1
      <4>3. /\ Decompresses(bytes, from, ends, p, q, SubSeq(tuples, i - s, i - 1))
            /\ Rest(bytes, q) = <<>> /\ q \in 1 .. Len(bytes) + 1
        BY <2>4, <3>4, <4>1, <4>2
      <4>. HIDE DEF q
      <4>. QED
        BY <2>5, <3>2, <4>3 DEF at
    <3>. QED
      BY <3>3, <3>4
  <2>9. CASE Collects(tuples, out, i, s)
    <3>1. Closer(n, i, s, i + 1, s + 1) /\ Rest(bytes, p) = out[<<i + 1, s + 1>>]
      BY <1>2, <2>9 DEF Collects, n
    <3>2. i + 1 - (s + 1) = i - s
      BY <2>1
    <3>. QED
      <4>. DEFINE j == i + 1
                  t == s + 1
      <4>1. Closer(n, i, s, j, t) /\ Rest(bytes, p) = out[<<j, t>>] /\ j - t = i - s
            /\ p \in 1 .. Len(bytes) + 1
        <5>1. p \in 1 .. Len(bytes) + 1
          BY <1>2
        <5>2. j - t = i - s
          BY <2>1
        <5>3. Closer(n, i, s, j, t) /\ Rest(bytes, p) = out[<<j, t>>]
          BY <3>1, Zenon
        <5>. QED
          BY <5>1, <5>2, <5>3, Zenon
      <4>. HIDE DEF j, t, D, rank, Goal, G
      <4>2. at(p, j - t)
        BY <2>3, <4>1
      <4>. QED
        BY <4>1, <4>2 DEF at
  <2>10. CASE Flushes(tuples, out, i, s)
    <3>. DEFINE rest == out[<<i, 0>>]
                q == p + s + 1
    <3>1. Closer(n, i, s, i, 0) /\ s = MaxRun /\ Rest(bytes, p) = flushed \o rest
      BY <1>2, <2>10 DEF Flushes, n, flushed
    <3>2. rest \in Seq(Nat) /\ s # 0 /\ i - 0 = i
      BY <2>1, <2>2, <3>1 DEF Closer
    <3>3. /\ Decompresses(bytes, from, ends, p, q, SubSeq(tuples, i - s, i - 1))
          /\ Rest(bytes, q) = rest /\ q \in 1 .. Len(bytes) + 1
      BY <2>4, <3>1, <3>2
    <3>. HIDE DEF q
    <3>4. at(q, i - 0)
      BY <2>3, <3>1, <3>3
    <3>. QED
      BY <2>5, <3>2, <3>3, <3>4 DEF at
  <2>11. ASSUME NEW run, Repeats(tuples, out, i, s, run)
         PROVE  Restored(bytes, from, ends, p, tuples, i - s)
    <3>. DEFINE rest == out[<<i + run, 0>>]
                command == RunCompressed(tuples[i], run)
    <3>1. /\ Closer(n, i, s, i + run, 0) /\ Rest(bytes, p) = flushed \o command \o rest
          /\ run \in 2 .. MaxRun /\ i + run - 1 <= n
          /\ \A j \in i .. i + run - 1 : tuples[j] = tuples[i]
      BY <1>2, <2>11 DEF Repeats, n, flushed
    <3>2. i \in 1 .. n /\ run \in 1 .. MaxRun /\ i + run \in i .. n + 1 /\ i + run - 0 = i + run
      BY <2>1, <3>1
    <3>3. rest \in Seq(Nat) /\ command \in Seq(Nat)
      <4>1. tuples[i] \in Nat /\ i \in 1 .. Len(tuples) + 1
        BY <2>1, <3>2 DEF n
      <4>2. command \in Seq(Nat)
        BY <3>2, <4>1, CommandsAre
      <4>. QED
        BY <2>2, <3>1, <4>2 DEF Closer
    <3>4. ASSUME NEW q \in 1 .. Len(bytes) + 1, Rest(bytes, q) = command \o rest PROVE at(q, i)
      <4>. DEFINE j == i + run
                  r == q + 2
      <4>1. i \in 1 .. Len(tuples) /\ j - 1 <= Len(tuples) /\ i \in 1 .. Len(tuples) + 1
            /\ j \in i .. Len(tuples) + 1 /\ j - 0 = j
        BY <2>1, <3>1, <3>2 DEF n
      <4>2. Ahead(bytes, q, RunCompressed(tuples[i], run), rest) /\ RunAt(tuples, i, run)
        <5>1. Ahead(bytes, q, RunCompressed(tuples[i], run), rest)
          BY <3>3, <3>4 DEF Ahead
        <5>2. RunAt(tuples, i, run)
          BY <3>1, <3>2, <4>1 DEF RunAt, n
        <5>. QED
          BY <5>1, <5>2
      <4>. HIDE DEF D, rank, Goal, G, command, rest
      <4>3. /\ Decompresses(bytes, from, ends, q, q + 2, SubSeq(tuples, i, i + run - 1))
            /\ Rest(bytes, q + 2) = rest
        BY <4>2, RepeatedIsRead, Zenon
      <4>4. Closer(n, i, s, j, 0) /\ Rest(bytes, r) = out[<<j, 0>>] /\ r \in 1 .. Len(bytes) + 1
        BY <3>1, <4>3 DEF rest, Decompresses
      <4>5. Decompresses(bytes, from, ends, q, r, SubSeq(tuples, i, j - 1))
        <5>1. i + run - 1 = j - 1
          BY <3>2
        <5>. QED
          BY <4>3, <5>1, Zenon
      <4>. HIDE DEF j, r
      <4>6. at(r, j - 0)
        BY <2>3, <4>4
      <4>7. Restored(bytes, from, ends, r, tuples, j)
        BY <4>1, <4>6 DEF at
      <4>8. Restored(bytes, from, ends, q, tuples, i)
        BY <4>1, <4>5, <4>7, ReadThenRestored
      <4>. QED
        BY <4>8 DEF at
    <3>. HIDE DEF rest, command
    <3>5. command \o rest \in Seq(Nat) /\ Rest(bytes, p) = flushed \o (command \o rest)
      <4>1. command \o rest \in Seq(Nat)
        BY <3>3, ConcatNat
      <4>. QED
        BY <2>1, <3>1, <3>3, <4>1, ConcatAssociates
    <3>6. CASE s = 0
      <4>1. Rest(bytes, p) = command \o rest
        BY <2>6, <2>7, <3>5, <3>6
      <4>. QED
        BY <2>6, <3>4, <3>6, <4>1 DEF at
    <3>7. CASE s # 0
      <4>. DEFINE q == p + s + 1
      <4>1. /\ Decompresses(bytes, from, ends, p, q, SubSeq(tuples, i - s, i - 1))
            /\ Rest(bytes, q) = command \o rest /\ q \in 1 .. Len(bytes) + 1
        BY <2>4, <3>5, <3>7
      <4>. HIDE DEF q
      <4>. QED
        BY <2>5, <3>4, <4>1 DEF at
    <3>. QED
      BY <3>6, <3>7
  <2>. QED
    BY <1>2, <2>8, <2>9, <2>10, <2>11, CompressCases DEF n
<1>3. \A x \in D : (\A y \in D : rank[y] < rank[x] => y \in G) => x \in G
  <2>. HIDE DEF Goal
  <2>. SUFFICES ASSUME NEW x \in D, \A y \in D : rank[y] < rank[x] => y \in G
                PROVE  Goal(x[1], x[2])
    OBVIOUS
  <2>1. x = <<x[1], x[2]>>
    BY DEF Places
  <2>2. \A j, t : Closer(n, x[1], x[2], j, t) => <<j, t>> \in G
    BY <2>1 DEF Closer
  <2>3. \A j, t : <<j, t>> \in G => Goal(j, t)
    OBVIOUS
  <2>. HIDE DEF G, n, D, rank
  <2>4. \A j, t : Closer(n, x[1], x[2], j, t) => Goal(j, t)
    BY <2>2, <2>3
  <2>. QED
    BY <1>2, <2>1, <2>4 DEF Goal
<1>4. \A x \in D : x \in G
  <2>. HIDE DEF D, rank, G
  <2>. QED
    BY <1>1, <1>3, RankedInduction
<1>. QED
  BY <1>4

(* What the logo's decompressor makes of the bytes is the picture that was compressed
   to them, for every sequence of tuples, and the bytes are no more than three for two
   tuples, rounded up (compressor.c and logo.c). *)
THEOREM LogoIsDecompressed ==
    ASSUME NEW tuples \in Seq(Nat), NEW color_table, NEW background
    PROVE  /\ Compress(tuples) \in Seq(Nat)
           /\ 2 * Len(Compress(tuples)) <= 3 * Len(tuples) + 1
           /\ Len(tuples) > 0 => Len(Compress(tuples)) > 0
           /\ LogoDecompress(Compress(tuples), color_table, background) =
                 FlattenSeq([n \in DOMAIN tuples |->
                                LogoColorTuple(color_table, background, tuples[n])])
<1>. DEFINE bytes == Compress(tuples)
            n == Len(tuples)
<1>1. n \in Nat
  OBVIOUS
<1>2. PICK out : CompressEquation(tuples, out) /\ bytes = out[<<1, 0>>]
  BY <1>1, CompressUnfolds
<1>. HIDE DEF bytes
<1>3. <<1, 0>> \in Places(n)
  <2>1. 1 \in 1 .. n + 1 /\ 0 \in 0 .. MaxRun /\ 0 < 1
    BY <1>1, ImageCodecAssumption
  <2>. QED
    BY <1>1, <2>1, PlacesAre
<1>4. Short(n, 1, 0, bytes)
  BY <1>2, <1>3, CompressedLength
<1>5. bytes \in Seq(Nat) /\ 2 * Len(bytes) <= 3 * n + 1 /\ (n > 0 => Len(bytes) > 0)
  <2>1. n + 1 - 1 + 0 = n /\ (n > 0 => 1 <= n)
    BY <1>1
  <2>. QED
    BY <1>4, <2>1 DEF Short
<1>6. PICK from, ends :
        /\ LogoEquation(bytes, from) /\ EndsEquation(bytes, ends)
        /\ LogoDecompress(bytes, color_table, background) =
              IF ends[1]
              THEN FlattenSeq([k \in DOMAIN from[1] |->
                      LogoColorTuple(color_table, background, from[1][k])])
              ELSE Runaway
  BY <1>5, LogoUnfolds
<1>7. Rest(bytes, 1) = bytes /\ 1 \in 1 .. Len(bytes) + 1
  BY <1>5 DEF Rest
<1>8. Restored(bytes, from, ends, 1, tuples, 1 - 0)
  BY <1>2, <1>3, <1>5, <1>6, <1>7, TuplesAreRestored
<1>9. SubSeq(tuples, 1 - 0, Len(tuples)) = tuples
  OBVIOUS
<1>10. from[1] = tuples /\ ends[1]
  BY <1>8, <1>9 DEF Restored
<1>. QED
  BY <1>5, <1>6, <1>10 DEF bytes
-----------------------------------------------------------------------------
(* The encoder: a color table only gains colors, so that an index shows the color of
   its pixel in the table that is written at the end, too. *)

ColorTables == [1 .. Colors -> Nat]
Grown(before, after) == \A i \in 1 .. Colors : before[i] # EmptyColor => after[i] = before[i]

(* What an index says of a color table: nothing, or a color. *)
Shows(color_table, index, color) ==
    IF color % 2 = 0 THEN index = 0 ELSE index \in 1 .. Colors /\ color_table[index] = color

IsLoaded(before, loaded, color) ==
    /\ loaded.status \in {"ok", "too_many_colors"} /\ loaded.index \in 0 .. Colors
    /\ loaded.color_table \in ColorTables /\ Grown(before, loaded.color_table)
    /\ loaded.status = "ok" => Shows(loaded.color_table, loaded.index, color)

LEMMA ColorIsNatural ==
    ASSUME NEW pixel \in [1 .. 4 -> 0 .. 255]
    PROVE  Rgba5551(pixel) \in Nat
<1>1. \A n \in 0 .. 255 : n \div 8 \in Nat
  OBVIOUS
<1>2. \A i \in 1 .. 4 : pixel[i] \div 8 \in Nat
  BY <1>1
<1>3. 2 ^ 11 = 2048 /\ 2 ^ 6 = 64
  OBVIOUS
<1>. QED
  BY <1>2, <1>3 DEF Rgba5551

LEMMA GrownTrans ==
    ASSUME NEW a \in ColorTables, NEW b \in ColorTables, NEW c \in ColorTables,
           Grown(a, b), Grown(b, c)
    PROVE  /\ Grown(a, c)
           /\ \A index, color \in Nat : Shows(b, index, color) => Shows(c, index, color)
BY DEF Grown, Shows, ColorTables, EmptyColor

(* A pixel that is loaded has an index that shows its color. *)
LEMMA PixelIsLoaded ==
    ASSUME NEW color_table \in ColorTables, NEW color \in Nat
    PROVE  IsLoaded(color_table, LoadPixel(color_table, color), color)
<1>. DEFINE places == {i \in 1 .. Colors : color_table[i] \in {EmptyColor, color}}
            load == LoadPixel(color_table, color)
            place == Max(places)
<1>1. Colors \in Nat /\ 0 \in 0 .. Colors /\ Grown(color_table, color_table)
  BY ImageCodecAssumption DEF Grown
<1>2. color % 2 \in {0, 1}
  OBVIOUS
<1>3. CASE color % 2 = 0
  <2>1. load = [status |-> "ok", index |-> 0, color_table |-> color_table]
    BY <1>3 DEF LoadPixel
  <2>. QED
    BY <1>1, <1>3, <2>1 DEF IsLoaded, Shows
<1>4. CASE color % 2 = 1 /\ places # {}
  <2>1. places \subseteq 0 .. Colors
    BY <1>1
  <2>2. place \in places
    BY <1>1, <1>4, <2>1, MaxIsGreatest
  <2>. DEFINE table == [color_table EXCEPT ![place] = color]
  <2>3. load = [status |-> "ok", index |-> place, color_table |-> table]
    BY <1>4 DEF LoadPixel
  <2>. HIDE DEF place
  <2>4. place \in 1 .. Colors /\ color_table[place] \in {EmptyColor, color}
    BY <2>2
  <2>5. table \in ColorTables /\ table[place] = color
    BY <2>4 DEF ColorTables
  <2>6. Grown(color_table, table)
    BY <2>4 DEF ColorTables, Grown
  <2>. HIDE DEF table
  <2>. QED
    BY <1>1, <1>4, <2>3, <2>4, <2>5, <2>6 DEF IsLoaded, Shows
<1>5. CASE color % 2 = 1 /\ places = {}
  <2>1. load = [status |-> "too_many_colors", index |-> 0, color_table |-> color_table]
    BY <1>5 DEF LoadPixel
  <2>. QED
    BY <1>1, <2>1 DEF IsLoaded
<1>. QED
  BY <1>2, <1>3, <1>4, <1>5

LEMMA IndicesAre ==
    ASSUME NEW left \in 0 .. Colors, NEW right \in 0 .. Colors
    PROVE  LET index == left * (Colors + 1) + right
           IN  /\ index \in Nat
               /\ index \div (Colors + 1) = left /\ index % (Colors + 1) = right
<1>. DEFINE a == Colors + 1
            product == left * a
            index == product + right
<1>1. a \in Nat \ {0} /\ left \in Nat /\ right \in 0 .. a - 1
  BY ImageCodecAssumption
<1>2. product \in Nat /\ index \in Nat /\ index = a * left + right
  BY <1>1
<1>. HIDE DEF a, product, index
<1>3. index \div a = left /\ index % a = right
  BY <1>1, <1>2, SMTT(30)
<1>. QED
  BY <1>2, <1>3 DEF a, product, index

(* A tuple, of the pixels that are first and second. *)
ShowsTuple(color_table, tuple, first, second) ==
    /\ Shows(color_table, tuple \div (Colors + 1), Rgba5551(first))
    /\ Shows(color_table, tuple % (Colors + 1), Rgba5551(second))

IsEncoded(before, tuple, first, second) ==
    /\ tuple.status \in {"ok", "too_many_colors"} /\ tuple.index \in Nat
    /\ tuple.color_table \in ColorTables /\ Grown(before, tuple.color_table)
    /\ tuple.status = "ok" => ShowsTuple(tuple.color_table, tuple.index, first, second)

(* So has a tuple. *)
LEMMA TupleIsEncoded ==
    ASSUME NEW color_table \in ColorTables,
           NEW first \in [1 .. 4 -> 0 .. 255], NEW second \in [1 .. 4 -> 0 .. 255]
    PROVE  IsEncoded(color_table, EncodePixelTuple(color_table, first, second), first, second)
<1>. DEFINE f == Rgba5551(first)
            s == Rgba5551(second)
            right == LoadPixel(color_table, s)
            left == LoadPixel(right.color_table, f)
            tuple == EncodePixelTuple(color_table, first, second)
            index == left.index * (Colors + 1) + right.index
<1>1. f \in Nat /\ s \in Nat
  BY ColorIsNatural
<1>2. IsLoaded(color_table, right, s)
  BY <1>1, PixelIsLoaded
<1>3. IsLoaded(right.color_table, left, f)
  <2>1. right.color_table \in ColorTables
    BY <1>2 DEF IsLoaded
  <2>. QED
    BY <1>1, <2>1, PixelIsLoaded
<1>4. /\ index \in Nat
      /\ index \div (Colors + 1) = left.index /\ index % (Colors + 1) = right.index
  <2>1. left.index \in 0 .. Colors /\ right.index \in 0 .. Colors
    BY <1>2, <1>3 DEF IsLoaded
  <2>. QED
    BY <2>1, IndicesAre
<1>5. right.status = "ok" =>
        tuple.status = left.status /\ tuple.index = index /\ tuple.color_table = left.color_table
  BY DEF EncodePixelTuple, LoadPixel
<1>6. right.status # "ok" => tuple = right
  BY DEF EncodePixelTuple
<1>. HIDE DEF f, s, right, left, tuple, index
<1>7. /\ Grown(color_table, left.color_table)
      /\ Shows(right.color_table, right.index, s) => Shows(left.color_table, right.index, s)
  BY <1>1, <1>2, <1>3, GrownTrans DEF IsLoaded
<1>8. CASE right.status = "ok"
  <2>1. tuple.status = "ok" => ShowsTuple(tuple.color_table, tuple.index, first, second)
    BY <1>2, <1>3, <1>4, <1>5, <1>7, <1>8 DEF IsLoaded, ShowsTuple, f, s
  <2>. QED
    BY <1>3, <1>4, <1>5, <1>7, <1>8, <2>1 DEF IsLoaded, IsEncoded, tuple
<1>9. CASE right.status # "ok"
  <2>1. right.index \in Nat
    BY <1>2, ImageCodecAssumption DEF IsLoaded
  <2>. QED
    BY <1>2, <1>6, <1>9, <2>1 DEF IsLoaded, IsEncoded, tuple
<1>. QED
  BY <1>8, <1>9

Pixel == [1 .. 4 -> 0 .. 255]
Picture == {pixels \in Seq(Pixel) : Len(pixels) = ImagePixels}

(* The equation of its function. *)
EncodeStep(pixels, from, n, color_table) ==
    LET tuple == EncodePixelTuple(color_table, pixels[2 * n - 1], pixels[2 * n])
    IN  IF n > PixelTuples
        THEN [status |-> "ok", pixel_tuples |-> <<>>, color_table |-> color_table]
        ELSE IF tuple.status # "ok"
        THEN [status |-> tuple.status, pixel_tuples |-> <<>>, color_table |-> color_table]
        ELSE [from[<<n + 1, tuple.color_table>>] EXCEPT !.pixel_tuples = <<tuple.index>> \o @]

EncodeEquation(pixels, from) ==
    from = [at \in (1 .. PixelTuples + 1) \X [1 .. Colors -> Nat] |->
               EncodeStep(pixels, from, at[1], at[2])]

(* What it yields. *)
Encoded ==
    [status : {"ok", "too_many_colors"}, pixel_tuples : Seq(Nat), color_table : ColorTables]

LEMMA PixelsOfPicture ==
    ASSUME NEW pixels \in Picture, NEW n \in 1 .. PixelTuples
    PROVE  /\ PixelTuples \in Nat /\ ImagePixels = 2 * PixelTuples
           /\ pixels[2 * n - 1] \in Pixel /\ pixels[2 * n] \in Pixel
<1>1. PixelTuples \in Nat /\ ImagePixels = 2 * PixelTuples
  BY ImageCodecAssumption DEF PixelTuples
<1>2. 2 * n - 1 \in 1 .. Len(pixels) /\ 2 * n \in 1 .. Len(pixels) /\ pixels \in Seq(Pixel)
  BY <1>1 DEF Picture
<1>. QED
  BY <1>1, <1>2

LEMMA TuplesOf ==
    ASSUME NEW pixels \in Picture, NEW n \in 1 .. PixelTuples, NEW color_table \in ColorTables
    PROVE  IsEncoded(color_table,
                     EncodePixelTuple(color_table, pixels[2 * n - 1], pixels[2 * n]),
                     pixels[2 * n - 1], pixels[2 * n])
BY PixelsOfPicture, TupleIsEncoded DEF Pixel

(* The encoder goes on with the next tuple, or it ends. *)
Goes(from, n, color_table, tuple) ==
    /\ tuple.status = "ok"
    /\ from[<<n, color_table>>] =
          [from[<<n + 1, tuple.color_table>>] EXCEPT !.pixel_tuples = <<tuple.index>> \o @]
Stops(from, n, color_table, result) ==
    /\ n = PixelTuples + 1 \/ result = "too_many_colors"
    /\ result \in {"ok", "too_many_colors"}
    /\ from[<<n, color_table>>] =
          [status |-> result, pixel_tuples |-> <<>>, color_table |-> color_table]

LEMMA EncoderHasResult ==
    ASSUME NEW pixels \in Picture
    PROVE  \E from : EncodeEquation(pixels, from)
<1>. DEFINE D == (1 .. PixelTuples + 1) \X ColorTables
            V == Encoded
            N == PixelTuples
            rank == [at \in D |-> N + 1 - at[1]]
            Step == [at \in D |-> [g \in [D -> V] |-> EncodeStep(pixels, g, at[1], at[2])]]
            tuple(n, table) == EncodePixelTuple(table, pixels[2 * n - 1], pixels[2 * n])
<1>1. N \in Nat
  BY ImageCodecAssumption DEF PixelTuples
<1>2. rank \in [D -> 0 .. N] /\ \A n \in 1 .. N + 1, t \in ColorTables : rank[<<n, t>>] = N + 1 - n
  <2>1. ASSUME NEW at \in D PROVE N + 1 - at[1] \in 0 .. N
    <3>1. at[1] \in 1 .. N + 1
      OBVIOUS
    <3>. HIDE DEF N, D
    <3>. QED
      BY <1>1, <3>1
  <2>2. rank \in [D -> 0 .. N]
    BY <2>1
  <2>. HIDE DEF N
  <2>3. \A n \in 1 .. N + 1, t \in ColorTables : <<n, t>> \in D
    BY DEF N
  <2>. HIDE DEF D
  <2>4. \A n \in 1 .. N + 1, t \in ColorTables : rank[<<n, t>>] = N + 1 - n
    BY <2>3
  <2>. QED
    BY <2>2, <2>4
<1>3. V # {}
  <2>1. [i \in 1 .. Colors |-> 0] \in ColorTables
    BY DEF ColorTables
  <2>2. <<>> \in Seq(Nat)
    OBVIOUS
  <2>3. [status |-> "ok", pixel_tuples |-> <<>>, color_table |-> [i \in 1 .. Colors |-> 0]] \in V
    BY <2>1, <2>2 DEF Encoded
  <2>. QED
    BY <2>3
<1>4. ASSUME NEW n \in 1 .. N, NEW table \in ColorTables
      PROVE  /\ tuple(n, table).status \in {"ok", "too_many_colors"}
             /\ tuple(n, table).index \in Nat /\ tuple(n, table).color_table \in ColorTables
             /\ <<n + 1, tuple(n, table).color_table>> \in D
             /\ rank[<<n + 1, tuple(n, table).color_table>>] < rank[<<n, table>>]
  <2>. DEFINE t == tuple(n, table)
  <2>1. IsEncoded(table, t, pixels[2 * n - 1], pixels[2 * n])
    BY TuplesOf
  <2>. HIDE DEF t
  <2>2. /\ t.status \in {"ok", "too_many_colors"} /\ t.index \in Nat
        /\ t.color_table \in ColorTables
    BY <2>1 DEF IsEncoded
  <2>. DEFINE next == t.color_table
  <2>. HIDE DEF next, N
  <2>3. next \in ColorTables /\ n \in 1 .. N + 1 /\ n + 1 \in 1 .. N + 1
    BY <1>1, <2>2 DEF next
  <2>4. rank[<<n + 1, next>>] = N + 1 - (n + 1) /\ rank[<<n, table>>] = N + 1 - n
    <3>. HIDE DEF rank
    <3>. QED
      BY <1>2, <2>3
  <2>5. rank[<<n + 1, next>>] < rank[<<n, table>>]
    <3>. HIDE DEF rank
    <3>. QED
      BY <1>1, <2>3, <2>4
  <2>6. <<n + 1, next>> \in D
    BY <2>3 DEF N
  <2>. QED
    BY <2>2, <2>5, <2>6, Zenon DEF t, next
<1>5. ASSUME NEW n \in 1 .. N + 1, NEW table \in ColorTables, NEW g
      PROVE  EncodeStep(pixels, g, n, table) =
               IF n > N THEN [status |-> "ok", pixel_tuples |-> <<>>, color_table |-> table]
               ELSE IF tuple(n, table).status # "ok"
               THEN [status |-> tuple(n, table).status, pixel_tuples |-> <<>>,
                     color_table |-> table]
               ELSE [g[<<n + 1, tuple(n, table).color_table>>] EXCEPT
                        !.pixel_tuples = <<tuple(n, table).index>> \o @]
  BY DEF EncodeStep
<1>6. Step \in [D -> [[D -> V] -> V]]
  <2>1. ASSUME NEW n \in 1 .. N + 1, NEW table \in ColorTables, NEW g \in [D -> V]
        PROVE  EncodeStep(pixels, g, n, table) \in V
    <3>. DEFINE t == tuple(n, table)
    <3>0. \A x \in D : g[x] \in V
      OBVIOUS
    <3>. HIDE DEF t, D, N
    <3>1. CASE n > N
      <4>1. <<>> \in Seq(Nat)
        OBVIOUS
      <4>2. [status |-> "ok", pixel_tuples |-> <<>>, color_table |-> table] \in V
        BY <4>1 DEF Encoded
      <4>. QED
        BY <1>5, <3>1, <4>2
    <3>2. CASE ~(n > N)
      <4>1. n \in 1 .. N
        BY <1>1, <3>2
      <4>2. /\ t.status \in {"ok", "too_many_colors"} /\ t.index \in Nat
            /\ <<n + 1, t.color_table>> \in D
        BY <1>4, <4>1 DEF t
      <4>3. CASE t.status # "ok"
        <5>1. <<>> \in Seq(Nat)
          OBVIOUS
        <5>2. [status |-> t.status, pixel_tuples |-> <<>>, color_table |-> table] \in V
          BY <4>2, <5>1 DEF Encoded
        <5>. QED
          BY <1>5, <3>2, <4>3, <5>2 DEF t
      <4>4. CASE t.status = "ok"
        <5>. DEFINE later == g[<<n + 1, t.color_table>>]
        <5>1. later \in V
          BY <3>0, <4>2
        <5>. HIDE DEF later
        <5>2. <<t.index>> \o later.pixel_tuples \in Seq(Nat)
          BY <4>2, <5>1 DEF Encoded
        <5>3. [later EXCEPT !.pixel_tuples = <<t.index>> \o @] \in V
          <6>. DEFINE more == <<t.index>> \o later.pixel_tuples
          <6>. HIDE DEF more
          <6>1. [later EXCEPT !.pixel_tuples = more] \in V
            BY <5>1, <5>2 DEF Encoded, more
          <6>. QED
            BY <6>1 DEF more
        <5>4. EncodeStep(pixels, g, n, table) = [later EXCEPT !.pixel_tuples = <<t.index>> \o @]
          BY <1>5, <3>2, <4>4 DEF t, later
        <5>. QED
          BY <5>3, <5>4, Zenon
      <4>. QED
        BY <4>3, <4>4
    <3>. QED
      BY <3>1, <3>2
  <2>. HIDE DEF V
  <2>. QED
    BY <2>1
<1>7. \A x \in D, g \in [D -> V], h \in [D -> V] :
         (\A y \in D : rank[y] < rank[x] => g[y] = h[y]) => Step[x][g] = Step[x][h]
  <2>. SUFFICES ASSUME NEW x \in D, NEW g \in [D -> V], NEW h \in [D -> V],
                       \A y \in D : rank[y] < rank[x] => g[y] = h[y]
                PROVE  Step[x][g] = Step[x][h]
    BY Zenon
  <2>. DEFINE n == x[1]
              table == x[2]
              t == tuple(n, table)
  <2>0. n \in 1 .. N + 1 /\ table \in ColorTables /\ x = <<n, table>>
    OBVIOUS
  <2>. SUFFICES EncodeStep(pixels, g, n, table) = EncodeStep(pixels, h, n, table)
    OBVIOUS
  <2>. HIDE DEF D, Step, n, table, rank, N, V
  <2>1. CASE n > N
    BY <1>5, <2>0, <2>1
  <2>2. CASE ~(n > N)
    <3>1. n \in 1 .. N
      BY <1>1, <2>0, <2>2
    <3>2. g[<<n + 1, t.color_table>>] = h[<<n + 1, t.color_table>>]
      BY <1>4, <2>0, <3>1
    <3>. HIDE DEF t
    <3>3. CASE t.status # "ok"
      BY <1>5, <2>0, <2>2, <3>3 DEF t
    <3>4. CASE t.status = "ok"
      <4>1. \A f : EncodeStep(pixels, f, n, table) =
                      [f[<<n + 1, t.color_table>>] EXCEPT !.pixel_tuples = <<t.index>> \o @]
        BY <1>5, <2>0, <2>2, <3>4 DEF t
      <4>. QED
        BY <3>2, <4>1, Zenon
    <3>. QED
      BY <3>3, <3>4
  <2>. QED
    BY <2>1, <2>2
<1>8. Ranked(D, V, N, rank, Step)
  <2>. HIDE DEF D, Step, V, N, rank
  <2>. QED
    BY <1>1, <1>2, <1>3, <1>6, <1>7, Zenon DEF Ranked
<1>9. PICK f \in [D -> V] : \A x \in D : f[x] = Step[x][f]
  <2>. HIDE DEF D, Step, V, N, rank
  <2>. QED
    BY <1>8, Recursion
<1>10. EncodeEquation(pixels, f)
  <2>1. \A x \in D : f[x] = EncodeStep(pixels, f, x[1], x[2])
    BY <1>9
  <2>. QED
    BY <1>9, <2>1 DEF EncodeEquation, ColorTables
<1>. QED
  BY <1>10

LEMMA EncodeCases ==
    ASSUME NEW pixels \in Picture, NEW from, EncodeEquation(pixels, from),
           NEW n \in 1 .. PixelTuples + 1, NEW color_table \in ColorTables
    PROVE  \/ \E result : Stops(from, n, color_table, result)
           \/ n <= PixelTuples /\
              Goes(from, n, color_table,
                   EncodePixelTuple(color_table, pixels[2 * n - 1], pixels[2 * n]))
<1>. DEFINE t == EncodePixelTuple(color_table, pixels[2 * n - 1], pixels[2 * n])
<1>0. PixelTuples \in Nat
  BY ImageCodecAssumption DEF PixelTuples
<1>1. from[<<n, color_table>>] = EncodeStep(pixels, from, n, color_table)
  BY DEF EncodeEquation, ColorTables
<1>2. CASE n > PixelTuples
  <2>1. n = PixelTuples + 1
    BY <1>0, <1>2
  <2>2. Stops(from, n, color_table, "ok")
    BY <1>1, <1>2, <2>1 DEF EncodeStep, Stops
  <2>. QED
    BY <2>2, Zenon
<1>3. CASE ~(n > PixelTuples)
  <2>1. n \in 1 .. PixelTuples /\ n <= PixelTuples
    BY <1>0, <1>3
  <2>2. t.status \in {"ok", "too_many_colors"}
    BY <2>1, TuplesOf DEF IsEncoded
  <2>3. CASE t.status = "ok"
    BY <1>1, <1>3, <2>1, <2>3 DEF EncodeStep, Goes
  <2>4. CASE t.status = "too_many_colors"
    <3>1. Stops(from, n, color_table, "too_many_colors")
      BY <1>1, <1>3, <2>1, <2>4 DEF EncodeStep, Stops
    <3>. QED
      BY <3>1, Zenon
  <2>. QED
    BY <2>2, <2>3, <2>4
<1>. QED
  BY <1>2, <1>3

(* What is encoded from a tuple on, with a table. *)
EncodesFrom(pixels, n, color_table, result) ==
    /\ result \in Encoded
    /\ result.status = "ok" =>
        /\ Len(result.pixel_tuples) = PixelTuples + 1 - n
        /\ Grown(color_table, result.color_table)
        /\ \A m \in n .. PixelTuples :
              ShowsTuple(result.color_table, result.pixel_tuples[m + 1 - n],
                         pixels[2 * m - 1], pixels[2 * m])

LEMMA StopsWith ==
    ASSUME NEW pixels \in Picture, NEW from, NEW n \in 1 .. PixelTuples + 1,
           NEW color_table \in ColorTables, NEW result, Stops(from, n, color_table, result)
    PROVE  EncodesFrom(pixels, n, color_table, from[<<n, color_table>>])
<1>. DEFINE r == from[<<n, color_table>>]
<1>0. PixelTuples \in Nat
  BY ImageCodecAssumption DEF PixelTuples
<1>1. r = [status |-> result, pixel_tuples |-> <<>>, color_table |-> color_table]
      /\ result \in {"ok", "too_many_colors"}
      /\ (n = PixelTuples + 1 \/ result = "too_many_colors")
  BY DEF Stops
<1>. HIDE DEF r
<1>2. r \in Encoded
  <2>1. <<>> \in Seq(Nat)
    OBVIOUS
  <2>. QED
    BY <1>1, <2>1 DEF Encoded
<1>3. ASSUME r.status = "ok"
      PROVE  /\ Len(r.pixel_tuples) = PixelTuples + 1 - n
             /\ Grown(color_table, r.color_table)
             /\ \A m : m \notin n .. PixelTuples
  <2>1. n = PixelTuples + 1 /\ r.pixel_tuples = <<>> /\ r.color_table = color_table
    BY <1>1, <1>3
  <2>. QED
    BY <1>0, <2>1 DEF Grown
<1>. QED
  BY <1>2, <1>3 DEF EncodesFrom, r

LEMMA GoesOnWith ==
    ASSUME NEW pixels \in Picture, NEW from, NEW n \in 1 .. PixelTuples,
           NEW color_table \in ColorTables, NEW t,
           IsEncoded(color_table, t, pixels[2 * n - 1], pixels[2 * n]),
           Goes(from, n, color_table, t),
           EncodesFrom(pixels, n + 1, t.color_table, from[<<n + 1, t.color_table>>])
    PROVE  EncodesFrom(pixels, n, color_table, from[<<n, color_table>>])
<1>. DEFINE r == from[<<n, color_table>>]
            later == from[<<n + 1, t.color_table>>]
            tuples == <<t.index>> \o later.pixel_tuples
            N == PixelTuples
<1>0. N \in Nat
  BY ImageCodecAssumption DEF PixelTuples
<1>1. r = [later EXCEPT !.pixel_tuples = <<t.index>> \o @]
  BY DEF Goes
<1>2. /\ later \in Encoded
      /\ later.status = "ok" =>
           /\ Len(later.pixel_tuples) = N + 1 - (n + 1)
           /\ Grown(t.color_table, later.color_table)
           /\ \A m \in n + 1 .. N :
                 ShowsTuple(later.color_table, later.pixel_tuples[m + 1 - (n + 1)],
                            pixels[2 * m - 1], pixels[2 * m])
  BY DEF EncodesFrom
<1>3. /\ t.index \in Nat /\ t.color_table \in ColorTables /\ Grown(color_table, t.color_table)
      /\ ShowsTuple(t.color_table, t.index, pixels[2 * n - 1], pixels[2 * n])
  BY DEF IsEncoded, Goes
<1>. HIDE DEF later
<1>4. later.pixel_tuples \in Seq(Nat) /\ later.color_table \in ColorTables
  BY <1>2 DEF Encoded
<1>5. /\ tuples \in Seq(Nat) /\ Len(tuples) = 1 + Len(later.pixel_tuples)
      /\ tuples[1] = t.index
      /\ \A k \in 1 .. Len(later.pixel_tuples) : tuples[1 + k] = later.pixel_tuples[k]
  <2>. DEFINE one == <<t.index>>
              rest == later.pixel_tuples
  <2>1. one \in Seq(Nat) /\ Len(one) = 1 /\ one[1] = t.index
    BY <1>3
  <2>2. rest \in Seq(Nat)
    BY <1>4
  <2>. HIDE DEF one, rest
  <2>3. one \o rest \in Seq(Nat) /\ Len(one \o rest) = 1 + Len(rest)
    BY <2>1, <2>2, ConcatNat
  <2>4. 1 \in 1 .. Len(one)
    BY <2>1
  <2>5. (one \o rest)[1] = t.index
    BY <2>1, <2>2, <2>4, ConcatElements
  <2>6. \A k \in 1 .. Len(rest) : (one \o rest)[1 + k] = rest[k]
    <3>1. \A k \in 1 .. Len(rest) : (one \o rest)[Len(one) + k] = rest[k]
      BY <2>1, <2>2, ConcatElements
    <3>. QED
      BY <2>1, <3>1
  <2>. QED
    BY <2>3, <2>5, <2>6 DEF one, rest
<1>6. /\ r \in Encoded /\ r.status = later.status /\ r.color_table = later.color_table
      /\ r.pixel_tuples = tuples
  <2>1. r = [later EXCEPT !.pixel_tuples = tuples]
    BY <1>1, <1>2 DEF Encoded
  <2>. HIDE DEF tuples, r
  <2>. QED
    BY <1>2, <1>5, <2>1 DEF Encoded
<1>. HIDE DEF r, tuples, N
<1>7. ASSUME r.status = "ok"
      PROVE  /\ Len(tuples) = N + 1 - n /\ Grown(color_table, r.color_table)
             /\ \A m \in n .. N :
                   ShowsTuple(r.color_table, tuples[m + 1 - n], pixels[2 * m - 1], pixels[2 * m])
  <2>1. /\ Len(later.pixel_tuples) = N - n
        /\ Grown(t.color_table, later.color_table)
        /\ \A m \in n + 1 .. N :
              ShowsTuple(later.color_table, later.pixel_tuples[m + 1 - (n + 1)],
                         pixels[2 * m - 1], pixels[2 * m])
    BY <1>0, <1>2, <1>6, <1>7
  <2>2. n \in 1 .. N
    BY DEF N
  <2>3. Len(tuples) = N + 1 - n
    BY <1>0, <1>5, <2>1, <2>2
  <2>4. Grown(color_table, r.color_table)
    BY <1>3, <1>4, <1>6, <2>1, GrownTrans
  <2>5. ShowsTuple(r.color_table, tuples[1], pixels[2 * n - 1], pixels[2 * n])
    <3>1. pixels[2 * n - 1] \in Pixel /\ pixels[2 * n] \in Pixel
      BY PixelsOfPicture
    <3>2. Rgba5551(pixels[2 * n - 1]) \in Nat /\ Rgba5551(pixels[2 * n]) \in Nat
      BY <3>1, ColorIsNatural DEF Pixel
    <3>3. \A index, color \in Nat :
             Shows(t.color_table, index, color) => Shows(later.color_table, index, color)
      BY <1>3, <1>4, <2>1, GrownTrans
    <3>4. t.index \div (Colors + 1) \in Nat /\ t.index % (Colors + 1) \in Nat
      <4>1. Colors + 1 \in Nat \ {0}
        BY ImageCodecAssumption
      <4>. QED
        BY <1>3, <4>1, SMTT(30)
    <3>. QED
      BY <1>3, <1>5, <1>6, <3>2, <3>3, <3>4 DEF ShowsTuple
  <2>6. ASSUME NEW m \in n .. N
        PROVE  ShowsTuple(r.color_table, tuples[m + 1 - n], pixels[2 * m - 1], pixels[2 * m])
    <3>1. CASE m = n
      <4>1. m + 1 - n = 1
        BY <2>2, <3>1
      <4>. QED
        BY <2>5, <3>1, <4>1
    <3>2. CASE m # n
      <4>. DEFINE k == m - n
      <4>1. m \in n + 1 .. N /\ k \in 1 .. N - n /\ m + 1 - (n + 1) = k /\ m + 1 - n = 1 + k
        BY <1>0, <2>2, <3>2
      <4>. HIDE DEF k
      <4>2. ShowsTuple(later.color_table, later.pixel_tuples[k], pixels[2 * m - 1], pixels[2 * m])
        BY <2>1, <4>1
      <4>3. tuples[1 + k] = later.pixel_tuples[k]
        BY <1>5, <2>1, <4>1
      <4>. QED
        BY <1>6, <4>1, <4>2, <4>3
    <3>. QED
      BY <3>1, <3>2
  <2>. QED
    BY <2>3, <2>4, <2>6
<1>. QED
  BY <1>6, <1>7 DEF EncodesFrom, r, N

(* From every tuple and every table the encoder yields indices that show the pixels. *)
LEMMA EncoderShows ==
    ASSUME NEW pixels \in Picture, NEW from, EncodeEquation(pixels, from)
    PROVE  \A n \in 1 .. PixelTuples + 1, color_table \in ColorTables :
              EncodesFrom(pixels, n, color_table, from[<<n, color_table>>])
<1>. DEFINE D == (1 .. PixelTuples + 1) \X ColorTables
            rank == [at \in D |-> PixelTuples + 1 - at[1]]
            G == {at \in D : EncodesFrom(pixels, at[1], at[2], from[at])}
<1>0. PixelTuples \in Nat
  BY ImageCodecAssumption DEF PixelTuples
<1>1. rank \in [D -> Nat]
  <2>1. ASSUME NEW at \in D PROVE PixelTuples + 1 - at[1] \in Nat
    <3>1. at[1] \in 1 .. PixelTuples + 1
      OBVIOUS
    <3>. QED
      BY <1>0, <3>1
  <2>. QED
    BY <2>1
<1>2. \A n \in 1 .. PixelTuples + 1, table \in ColorTables :
         <<n, table>> \in D /\ rank[<<n, table>>] = PixelTuples + 1 - n
  OBVIOUS
<1>3. ASSUME NEW x \in D, \A y \in D : rank[y] < rank[x] => y \in G PROVE x \in G
  <2>. DEFINE n == x[1]
              table == x[2]
              t == EncodePixelTuple(table, pixels[2 * n - 1], pixels[2 * n])
  <2>1. n \in 1 .. PixelTuples + 1 /\ table \in ColorTables /\ x = <<n, table>>
    OBVIOUS
  <2>2. \A y : y \in G => EncodesFrom(pixels, y[1], y[2], from[y])
    OBVIOUS
  <2>3. x \in G <=> EncodesFrom(pixels, n, table, from[<<n, table>>])
    BY <2>1
  <2>. HIDE DEF D, rank, G, n, table
  <2>4. CASE \E result : Stops(from, n, table, result)
    BY <2>1, <2>3, <2>4, StopsWith
  <2>5. CASE n <= PixelTuples /\ Goes(from, n, table, t)
    <3>1. n \in 1 .. PixelTuples
      BY <1>0, <2>1, <2>5
    <3>2. IsEncoded(table, t, pixels[2 * n - 1], pixels[2 * n])
      BY <2>1, <3>1, TuplesOf
    <3>. DEFINE next == t.color_table
                m == n + 1
    <3>3. next \in ColorTables /\ m \in 1 .. PixelTuples + 1
      BY <1>0, <3>1, <3>2 DEF IsEncoded
    <3>4. PixelTuples + 1 - m < PixelTuples + 1 - n
      BY <1>0, <3>1
    <3>. HIDE DEF next, m, t
    <3>5. <<m, next>> \in G
      BY <1>2, <1>3, <2>1, <3>3, <3>4
    <3>6. EncodesFrom(pixels, m, next, from[<<m, next>>])
      BY <2>2, <3>5
    <3>7. EncodesFrom(pixels, n, table, from[<<n, table>>])
      BY <2>1, <2>5, <3>1, <3>2, <3>6, GoesOnWith DEF next, m
    <3>. QED
      BY <2>3, <3>7
  <2>. QED
    BY <2>1, <2>4, <2>5, EncodeCases
<1>4. \A x \in D : x \in G
  <2>. HIDE DEF D, rank, G
  <2>. QED
    BY <1>1, <1>3, RankedInduction
<1>. QED
  BY <1>4

(* What the encoder makes of a picture is shown as the picture. *)
LEMMA PictureIsShown ==
    ASSUME NEW pixels \in Seq(Pixel), Encode(pixels).status = "ok"
    PROVE  LET e == Encode(pixels)
           IN  /\ e.pixel_tuples \in Seq(Nat) /\ Len(e.pixel_tuples) = PixelTuples
               /\ e.color_table \in [1 .. Colors -> Nat]
               /\ FlattenSeq([n \in DOMAIN e.pixel_tuples |->
                     LogoColorTuple(e.color_table, Background, e.pixel_tuples[n])]) =
                  [i \in DOMAIN pixels |-> Quantised(pixels[i])]
<1>. DEFINE e == Encode(pixels)
            empty == [i \in 1 .. Colors |-> EmptyColor]
            tuples == e.pixel_tuples
            table == e.color_table
            N == PixelTuples
            Q == [i \in DOMAIN pixels |-> Quantised(pixels[i])]
            shown == [n \in DOMAIN tuples |-> LogoColorTuple(table, Background, tuples[n])]
<1>0. N \in Nat /\ ImagePixels = 2 * N
  BY ImageCodecAssumption DEF PixelTuples
<1>1. Len(pixels) = ImagePixels
  <2>1. CASE Len(pixels) # ImagePixels
    <3>1. e = [status |-> "invalid_image_format"]
      BY <2>1 DEF Encode
    <3>. QED
      BY <3>1
  <2>. QED
    BY <2>1
<1>2. pixels \in Picture
  BY <1>1 DEF Picture
<1>3. PICK from : EncodeEquation(pixels, from) /\ e = from[<<1, empty>>]
  <2>1. e = (CHOOSE from : EncodeEquation(pixels, from))[<<1, empty>>]
    BY <1>1 DEF Encode, EncodeEquation, EncodeStep
  <2>2. EncodeEquation(pixels, CHOOSE from : EncodeEquation(pixels, from))
    BY <1>2, EncoderHasResult, Zenon
  <2>. QED
    BY <2>1, <2>2
<1>4. EncodesFrom(pixels, 1, empty, e)
  <2>1. empty \in ColorTables /\ 1 \in 1 .. PixelTuples + 1
    BY <1>0 DEF ColorTables, EmptyColor
  <2>. HIDE DEF e, empty
  <2>. QED
    BY <1>2, <1>3, <2>1, EncoderShows
<1>5. /\ tuples \in Seq(Nat) /\ Len(tuples) = N /\ table \in ColorTables
      /\ \A m \in 1 .. N :
            ShowsTuple(table, tuples[m], pixels[2 * m - 1], pixels[2 * m])
  <2>. HIDE DEF e
  <2>1. /\ e \in Encoded /\ Len(tuples) = N + 1 - 1
        /\ \A m \in 1 .. N :
              ShowsTuple(table, tuples[m + 1 - 1], pixels[2 * m - 1], pixels[2 * m])
    BY <1>4 DEF EncodesFrom, e
  <2>2. \A m \in 1 .. N : m + 1 - 1 = m
    BY <1>0
  <2>. QED
    BY <1>0, <2>1, <2>2 DEF Encoded
<1>. HIDE DEF e, tuples, table, N
<1>6. \A index, color : Shows(table, index, color) =>
         (IF index = 0 THEN Background ELSE table[index]) =
         (IF color % 2 = 0 THEN Background ELSE color)
  BY ImageCodecAssumption DEF Shows
<1>7. \A m \in 1 .. N : LogoColorTuple(table, Background, tuples[m]) = <<Q[2 * m - 1], Q[2 * m]>>
  <2>. SUFFICES ASSUME NEW m \in 1 .. N
                PROVE  LogoColorTuple(table, Background, tuples[m]) = <<Q[2 * m - 1], Q[2 * m]>>
    OBVIOUS
  <2>1. 2 * m - 1 \in DOMAIN pixels /\ 2 * m \in DOMAIN pixels
    BY <1>0, <1>1
  <2>2. /\ Shows(table, tuples[m] \div (Colors + 1), Rgba5551(pixels[2 * m - 1]))
        /\ Shows(table, tuples[m] % (Colors + 1), Rgba5551(pixels[2 * m]))
    BY <1>5 DEF ShowsTuple
  <2>. HIDE DEF Q
  <2>4. Q[2 * m - 1] = Quantised(pixels[2 * m - 1]) /\ Q[2 * m] = Quantised(pixels[2 * m])
    BY <2>1 DEF Q
  <2>5. /\ (IF tuples[m] \div (Colors + 1) = 0 THEN Background
            ELSE table[tuples[m] \div (Colors + 1)]) = Q[2 * m - 1]
        /\ (IF tuples[m] % (Colors + 1) = 0 THEN Background
            ELSE table[tuples[m] % (Colors + 1)]) = Q[2 * m]
    <3>. DEFINE p == tuples[m] \div (Colors + 1)
                q == tuples[m] % (Colors + 1)
                c == Rgba5551(pixels[2 * m - 1])
                d == Rgba5551(pixels[2 * m])
    <3>1. /\ Shows(table, p, c) /\ Shows(table, q, d)
          /\ Q[2 * m - 1] = (IF c % 2 = 0 THEN Background ELSE c)
          /\ Q[2 * m] = (IF d % 2 = 0 THEN Background ELSE d)
      BY <2>2, <2>4 DEF Quantised
    <3>. HIDE DEF p, q, c, d
    <3>2. /\ (IF p = 0 THEN Background ELSE table[p]) = Q[2 * m - 1]
          /\ (IF q = 0 THEN Background ELSE table[q]) = Q[2 * m]
      BY <1>6, <3>1
    <3>. QED
      BY <3>2 DEF p, q
  <2>. QED
    BY <2>5 DEF LogoColorTuple
<1>8. Q \in Seq(Int) /\ Len(Q) = 2 * N
  <2>1. \A i \in DOMAIN pixels : Quantised(pixels[i]) \in Int
    <3>1. \A i \in DOMAIN pixels : Rgba5551(pixels[i]) \in Nat
      BY ColorIsNatural DEF Pixel
    <3>. QED
      BY <3>1 DEF Quantised, Background
  <2>2. Len(pixels) \in Nat /\ DOMAIN pixels = 1 .. Len(pixels)
    OBVIOUS
  <2>. QED
    BY <1>0, <1>1, <2>1, <2>2
<1>9. shown = [n \in 1 .. N |-> <<Q[2 * n - 1], Q[2 * n]>>]
  <2>. HIDE DEF Q
  <2>1. DOMAIN tuples = 1 .. N
    BY <1>0, <1>5
  <2>. QED
    BY <1>7, <2>1
<1>. HIDE DEF Q, shown
<1>10. FlattenSeq(shown) = Q
  BY <1>0, <1>8, <1>9, FlattenPairs
<1>. QED
  BY <1>5, <1>10 DEF e, tuples, table, N, Q, shown, ColorTables
-----------------------------------------------------------------------------
(* The source of a picture. *)

LEMMA ColorTableIsSeq ==
    ASSUME NEW color_table \in [1 .. Colors -> Nat]
    PROVE  /\ color_table \in Seq(Nat) /\ Len(color_table) = Colors
           /\ DOMAIN color_table = 1 .. Colors /\ Colors \in Nat /\ Colors > 0
BY ImageCodecAssumption

(* The source of a picture lists the compressed bytes and the colors after them. *)
LEMMA ImageIsWritten ==
    ASSUME NEW compressed \in Seq(Nat), Len(compressed) > 0,
           NEW color_table \in [1 .. Colors -> Nat], NEW a \in Int, NEW b \in Int
    PROVE  IsOutput(GenerateImage(compressed, color_table, a, b),
                    ImageLength(compressed, a, b), compressed \o color_table)
<1>. DEFINE bytes == Entries(compressed, 25, 2, 6, 3)
            colors == Entries(color_table, 26, 4, 6, 3)
            n == Len(compressed)
            m == (25 + 2 + 6) * (n - 1) + 25 + 2 + 3
            k == (26 + 4 + 6) * (Colors - 1) + 26 + 4 + 3
<1>0. /\ Prelude \in Int /\ n \in Nat /\ Colors \in Nat
      /\ \A i \in DOMAIN compressed : compressed[i] \in Nat
  BY CSourceAssumption, ColorTableIsSeq
<1>1. IsOutput(bytes, m, compressed)
  <2>1. compressed \in Seq(Int) /\ \A i \in DOMAIN compressed : compressed[i] # -1
    BY <1>0
  <2>. QED
    BY <2>1, EntriesAre
<1>2. IsOutput(colors, k, color_table)
  <2>1. color_table \in Seq(Int) /\ \A i \in DOMAIN color_table : color_table[i] # -1
    BY ColorTableIsSeq
  <2>2. Len(color_table) = Colors /\ Len(color_table) > 0
    BY ColorTableIsSeq
  <2>3. IsOutput(colors, (26 + 4 + 6) * (Len(color_table) - 1) + 26 + 4 + 3, color_table)
    <3>1. 26 \in Int /\ 4 \in Int /\ 6 \in Int /\ 3 \in Int
      OBVIOUS
    <3>. QED
      BY <2>1, <2>2, <3>1, EntriesAre, Zenon
  <2>. QED
    BY <2>2, <2>3
<1>3. GenerateImage(compressed, color_table, a, b) =
         (((Text(Prelude) \o Define(a)) \o bytes) \o Define(b)) \o colors
  BY DEF GenerateImage, Length
<1>4. /\ IsOutput(Text(Prelude), Prelude, <<>>)
      /\ IsOutput(Define(a), 8 + a + 3, <<>>) /\ IsOutput(Define(b), 8 + b + 3, <<>>)
  BY <1>0, PiecesOf
<1>5. ImageLength(compressed, a, b) = Prelude + (8 + a + 3) + m + (8 + b + 3) + k
  <2>1. /\ IdentifierLength(a) = 8 + a + 3 /\ IdentifierLength(b) = 8 + b + 3
        /\ PixelsLength(compressed, a) = IdentifierLength(a) + (25 + 2 + 6) * (n - 1) + 25 + 2 + 3
        /\ ColorTableLength(b) = IdentifierLength(b) + (26 + 4 + 6) * (Colors - 1) + 26 + 4 + 3
    BY DEF IdentifierLength, PixelsLength, ColorTableLength, Length
  <2>2. ImageLength(compressed, a, b) = Prelude + PixelsLength(compressed, a) + ColorTableLength(b)
    BY DEF ImageLength
  <2>. QED
    BY <1>0, <2>1, <2>2
<1>. HIDE DEF bytes, colors, m, k
<1>6. IsOutput(Text(Prelude) \o Define(a), Prelude + (8 + a + 3), <<>> \o <<>>)
  BY <1>4, OutputConcat, Zenon
<1>7. IsOutput((Text(Prelude) \o Define(a)) \o bytes, Prelude + (8 + a + 3) + m,
               (<<>> \o <<>>) \o compressed)
  BY <1>1, <1>6, OutputConcat, Zenon
<1>8. IsOutput(((Text(Prelude) \o Define(a)) \o bytes) \o Define(b),
               Prelude + (8 + a + 3) + m + (8 + b + 3), ((<<>> \o <<>>) \o compressed) \o <<>>)
  BY <1>4, <1>7, OutputConcat, Zenon
<1>9. IsOutput((((Text(Prelude) \o Define(a)) \o bytes) \o Define(b)) \o colors,
               Prelude + (8 + a + 3) + m + (8 + b + 3) + k,
               (((<<>> \o <<>>) \o compressed) \o <<>>) \o color_table)
  BY <1>2, <1>8, OutputConcat, Zenon
<1>10. ((<<>> \o <<>>) \o compressed) \o <<>> = compressed
  OBVIOUS
<1>. QED
  BY <1>3, <1>5, <1>9, <1>10, Zenon

(* The array of the compressed bytes is long enough. *)
LEMMA BytesFit ==
    ASSUME NEW n \in Nat, 2 * n <= 3 * PixelTuples + 1
    PROVE  n <= MaxBytes
<1>. DEFINE t == PixelTuples
<1>1. t \in Nat /\ t >= 2
  BY ImageCodecAssumption DEF PixelTuples
<1>. HIDE DEF t
<1>2. 3 * n <= 5 * t
  BY <1>1 DEF t
<1>3. n <= (t * 5) \div 3
  BY <1>1, <1>2
<1>. QED
  BY <1>3 DEF t, MaxBytes

(* What is written of a picture is as long as it was measured, and shows it. *)
LEMMA PictureIsWritten ==
    ASSUME NEW pixels \in Seq(Pixel), Encode(pixels).status = "ok", NEW a \in Int, NEW b \in Int
    PROVE  LET compressed == Compress(Encode(pixels).pixel_tuples)
               out == GenerateImage(compressed, Encode(pixels).color_table, a, b)
           IN  /\ Written(out) = ImageLength(compressed, a, b)
               /\ Len(Values(out)) - Colors <= MaxBytes
               /\ LogoDecompress(SubSeq(Values(out), 1, Len(Values(out)) - Colors),
                                 SubSeq(Values(out), Len(Values(out)) - Colors + 1,
                                        Len(Values(out))),
                                 Background)
                      = [i \in DOMAIN pixels |-> Quantised(pixels[i])]
<1>. DEFINE tuples == Encode(pixels).pixel_tuples
            table == Encode(pixels).color_table
            compressed == Compress(tuples)
            out == GenerateImage(compressed, table, a, b)
            n == Len(compressed)
<1>1. /\ tuples \in Seq(Nat) /\ Len(tuples) = PixelTuples
      /\ table \in [1 .. Colors -> Nat]
      /\ FlattenSeq([i \in DOMAIN tuples |-> LogoColorTuple(table, Background, tuples[i])]) =
            [i \in DOMAIN pixels |-> Quantised(pixels[i])]
  BY PictureIsShown
<1>. HIDE DEF tuples, table
<1>2. PixelTuples \in Nat /\ PixelTuples > 0 /\ tuples # <<>>
  <2>1. PixelTuples \in Nat /\ PixelTuples > 0
    BY ImageCodecAssumption DEF PixelTuples
  <2>. QED
    BY <1>1, <2>1
<1>3. /\ compressed \in Seq(Nat) /\ 2 * n <= 3 * Len(tuples) + 1 /\ n > 0
      /\ LogoDecompress(compressed, table, Background) =
            FlattenSeq([i \in DOMAIN tuples |-> LogoColorTuple(table, Background, tuples[i])])
  BY <1>1, <1>2, LogoIsDecompressed
<1>. HIDE DEF compressed
<1>4. IsOutput(out, ImageLength(compressed, a, b), compressed \o table)
  BY <1>1, <1>3, ImageIsWritten
<1>5. Written(out) = ImageLength(compressed, a, b) /\ Values(out) = compressed \o table
  BY <1>4 DEF IsOutput
<1>6. table \in Seq(Nat) /\ Len(table) = Colors /\ Colors \in Nat /\ n \in Nat
  BY <1>1, <1>3, ColorTableIsSeq
<1>. HIDE DEF n
<1>7. compressed \o table \in Seq(Nat) /\ Len(compressed \o table) = n + Colors
  <2>1. compressed \o table \in Seq(Nat) /\ Len(compressed \o table) = n + Len(table)
    BY <1>3, <1>6, ConcatNat DEF n
  <2>. QED
    BY <1>6, <2>1
<1>8. Len(Values(out)) - Colors = n /\ Len(Values(out)) = n + Colors
  BY <1>5, <1>6, <1>7
<1>9. SubSeq(compressed \o table, 1, n) = compressed
  <2>. DEFINE s == compressed \o table
  <2>1. Len(compressed) = n /\ \A i \in 1 .. n : s[i] = compressed[i]
    BY <1>3, <1>6, ConcatElements DEF n
  <2>. HIDE DEF s
  <2>2. SubSeq(s, 1, n) \in Seq(Nat) /\ Len(SubSeq(s, 1, n)) = n
        /\ \A i \in 1 .. n : SubSeq(s, 1, n)[i] = s[i]
    BY <1>6, <1>7 DEF s
  <2>3. SubSeq(s, 1, n) = compressed
    BY <1>3, <2>1, <2>2, SeqEqual
  <2>. QED
    BY <2>3 DEF s
<1>10. SubSeq(compressed \o table, n + 1, n + Colors) = table
  <2>. DEFINE s == compressed \o table
  <2>1. \A i \in 1 .. Colors : s[n + i] = table[i]
    BY <1>3, <1>6, ConcatElements DEF n
  <2>. HIDE DEF s
  <2>2. SubSeq(s, n + 1, n + Colors) \in Seq(Nat) /\ Len(SubSeq(s, n + 1, n + Colors)) = Colors
        /\ \A i \in 1 .. Colors : SubSeq(s, n + 1, n + Colors)[i] = s[n + i]
    BY <1>6, <1>7 DEF s
  <2>3. SubSeq(s, n + 1, n + Colors) = table
    BY <1>6, <2>1, <2>2, SeqEqual
  <2>. QED
    BY <2>3 DEF s
<1>11. n <= MaxBytes
  BY <1>1, <1>3, <1>6, BytesFit
<1>. HIDE DEF out
<1>12. /\ SubSeq(Values(out), 1, Len(Values(out)) - Colors) = compressed
       /\ SubSeq(Values(out), Len(Values(out)) - Colors + 1, Len(Values(out))) = table
  BY <1>5, <1>8, <1>9, <1>10
<1>. QED
  BY <1>1, <1>3, <1>5, <1>8, <1>11, <1>12, Zenon DEF out, compressed, tuples, table
-----------------------------------------------------------------------------
(* The source of the texts. *)

(* What a text is written as. *)
Codes(text) == [i \in 1 .. text.characters |-> StringCharacterConvert(CharactersOf(text)[i])]
DataOf(string) == Append(Codes(string.text), string.text.characters)

LEMMA CodesAre ==
    ASSUME NEW text \in Slice, text.characters > 0
    PROVE  /\ Codes(text) \in Seq(Int) /\ Len(Codes(text)) = text.characters
           /\ text.characters \in Nat
           /\ \A i \in DOMAIN Codes(text) : Codes(text)[i] # -1
<1>1. text.characters \in Nat
  BY DEF Slice
<1>. QED
  BY <1>1, CharacterIsConverted DEF Codes

LEMMA StringIsWritten ==
    ASSUME NEW string \in [Fields -> Slice], string.text.characters > 0
    PROVE  IsOutput(GenerateString(string), StringLength(string), DataOf(string))
<1>. DEFINE text == string.text
            n == text.characters
            a == string.identifier_data.characters
            b == string.identifier_length.characters
            data == Entries(Codes(text), 25, 2, 6, 3)
            m == (25 + 2 + 6) * (n - 1) + 25 + 2 + 3
<1>1. text \in Slice /\ a \in Int /\ b \in Int /\ n \in Int
  BY DEF Fields, Slice
<1>2. Codes(text) \in Seq(Int) /\ Len(Codes(text)) = n /\ n \in Nat /\ n > 0
  BY <1>1, CodesAre
<1>3. IsOutput(data, m, Codes(text))
  <2>1. 25 \in Int /\ 2 \in Int /\ 6 \in Int /\ 3 \in Int
    OBVIOUS
  <2>2. \A i \in DOMAIN Codes(text) : Codes(text)[i] # -1
    BY <1>1, CodesAre
  <2>3. Len(Codes(text)) > 0
    BY <1>2
  <2>4. IsOutput(data, (25 + 2 + 6) * (Len(Codes(text)) - 1) + 25 + 2 + 3, Codes(text))
    <3>. HIDE DEF text, n
    <3>. QED
      BY <1>2, <2>1, <2>2, <2>3, EntriesAre, Zenon
  <2>. QED
    BY <1>2, <2>4, Zenon
<1>4. /\ IsOutput(Define(a), 8 + a + 3, <<>>) /\ IsOutput(Define(b), 8 + b + 3, <<>>)
      /\ IsOutput(Text(5), 5, <<>>) /\ IsOutput(Text(2), 2, <<>>)
      /\ IsOutput(Hexadecimal(n, 2), 2, <<n>>)
  <2>1. n \in Int \ {-1} /\ 5 \in Int /\ 2 \in Int
    BY <1>2
  <2>. HIDE DEF n, a, b
  <2>. QED
    BY <1>1, <2>1, PiecesOf
<1>5. GenerateString(string) =
         (Define(a) \o data) \o (((Define(b) \o Text(5)) \o Hexadecimal(n, 2)) \o Text(2))
  BY DEF GenerateString, StringData, GenerateInteger, Length, Codes
<1>6. StringLength(string) = ((8 + a + 3) + m) + ((8 + b + 3) + 5 + 2 + 2)
  <2>1. StringLength(string) =
           ((8 + a + 3) + (n - 1) * (25 + 2 + 6) + 25 + 2 + 3) + ((8 + b + 3) + 5 + 2 + 2)
    BY DEF StringLength, StringDataLength, IntegerLength, DefineLength, Length
  <2>. HIDE DEF n, a, b
  <2>. QED
    BY <1>1, <2>1
<1>7. DataOf(string) = (<<>> \o Codes(text)) \o (((<<>> \o <<>>) \o <<n>>) \o <<>>)
  <2>. DEFINE c == Codes(text)
  <2>1. c \in Seq(Int) /\ n \in Int
    BY <1>2
  <2>2. DataOf(string) = Append(c, n)
    BY DEF DataOf
  <2>. HIDE DEF c, n
  <2>3. Append(c, n) = (<<>> \o c) \o (((<<>> \o <<>>) \o <<n>>) \o <<>>)
    BY <2>1
  <2>. QED
    BY <2>2, <2>3 DEF c
<1>. HIDE DEF data, m, n, a, b, text
<1>8. IsOutput(Define(a) \o data, (8 + a + 3) + m, <<>> \o Codes(text))
  BY <1>3, <1>4, OutputConcat, Zenon
<1>9. IsOutput(Define(b) \o Text(5), (8 + b + 3) + 5, <<>> \o <<>>)
  BY <1>4, OutputConcat, Zenon
<1>10. IsOutput((Define(b) \o Text(5)) \o Hexadecimal(n, 2), (8 + b + 3) + 5 + 2,
                (<<>> \o <<>>) \o <<n>>)
  BY <1>4, <1>9, OutputConcat, Zenon
<1>11. IsOutput(((Define(b) \o Text(5)) \o Hexadecimal(n, 2)) \o Text(2),
                (8 + b + 3) + 5 + 2 + 2, ((<<>> \o <<>>) \o <<n>>) \o <<>>)
  BY <1>4, <1>10, OutputConcat, Zenon
<1>12. IsOutput((Define(a) \o data) \o (((Define(b) \o Text(5)) \o Hexadecimal(n, 2)) \o Text(2)),
                ((8 + a + 3) + m) + ((8 + b + 3) + 5 + 2 + 2),
                (<<>> \o Codes(text)) \o (((<<>> \o <<>>) \o <<n>>) \o <<>>))
  BY <1>8, <1>11, OutputConcat, Zenon
<1>. QED
  BY <1>5, <1>6, <1>7, <1>12, Zenon

(* What is written of the strings is as long as it was measured, and lists their
   characters. *)
LEMMA TextIsWritten ==
    ASSUME NEW strings \in Seq([Fields -> Slice]),
           \A n \in DOMAIN strings : strings[n].text.characters > 0
    PROVE  /\ Written(GenerateText(strings)) = TextLength(strings)
           /\ Values(GenerateText(strings)) =
                 FlattenSeq([n \in DOMAIN strings |-> DataOf(strings[n])])
<1>. DEFINE parts == [n \in DOMAIN strings |-> GenerateString(strings[n])]
            rest == FlattenSeq(parts)
            lengths == Total([n \in DOMAIN strings |-> StringLength(strings[n])])
            values == FlattenSeq([n \in DOMAIN strings |-> DataOf(strings[n])])
<1>1. \A n \in DOMAIN strings : strings[n] \in [Fields -> Slice]
  OBVIOUS
<1>2. \A n \in DOMAIN strings :
         IsOutput(GenerateString(strings[n]), StringLength(strings[n]), DataOf(strings[n]))
  BY <1>1, StringIsWritten
<1>3. parts \in Seq(Seq(Piece)) /\ DOMAIN parts = DOMAIN strings
  <2>1. \A n \in DOMAIN strings : GenerateString(strings[n]) \in Seq(Piece)
    BY <1>2 DEF IsOutput
  <2>2. Len(strings) \in Nat /\ DOMAIN strings = 1 .. Len(strings)
    OBVIOUS
  <2>. QED
    BY <2>1, <2>2
<1>4. /\ [n \in DOMAIN parts |-> Written(parts[n])]
            = [n \in DOMAIN strings |-> StringLength(strings[n])]
      /\ [n \in DOMAIN parts |-> Values(parts[n])]
            = [n \in DOMAIN strings |-> DataOf(strings[n])]
  BY <1>2 DEF IsOutput
<1>5. IsOutput(rest, lengths, values)
  <2>. HIDE DEF parts
  <2>1. rest \in Seq(Piece) /\ Written(rest) = lengths /\ Values(rest) = values
    BY <1>3, <1>4, PieceFlatten
  <2>2. Written(rest) \in Int /\ Values(rest) \in Seq(Int)
    BY <2>1, PieceConcat
  <2>. QED
    BY <2>1, <2>2 DEF IsOutput
<1>. HIDE DEF parts, rest, lengths, values
<1>6. IsOutput(Text(Prelude), Prelude, <<>>)
  BY CSourceAssumption, PiecesOf
<1>7. IsOutput(Text(Prelude) \o rest, Prelude + lengths, <<>> \o values)
  BY <1>5, <1>6, OutputConcat, Zenon
<1>8. <<>> \o values = values
  BY <1>5 DEF IsOutput
<1>. QED
  BY <1>7, <1>8 DEF IsOutput, GenerateText, TextLength, rest, parts, lengths, values
-----------------------------------------------------------------------------
(* The source of the font, whose bytes are eight bits, the first of them highest. *)

Bit == {0, 1}
ByteOf(b) == (8 * b[0] + 4 * b[1] + 2 * b[2] + b[3]) * 16 + (8 * b[4] + 4 * b[5] + 2 * b[6] + b[7])

Splits(v, a, high, bit, low) ==
    /\ a \in Nat \ {0} /\ high \in Nat /\ bit \in Bit /\ low \in 0 .. a - 1
    /\ v = (2 * high + bit) * a + low

LEMMA BitAt ==
    ASSUME NEW v, NEW a, NEW high, NEW bit, NEW low, Splits(v, a, high, bit, low)
    PROVE  (v \div a) % 2 = bit
<1>0. a \in Nat \ {0} /\ high \in Nat /\ bit \in Bit /\ low \in 0 .. a - 1
  BY DEF Splits
<1>. DEFINE p == 2 * high + bit
<1>1. p \in Nat /\ p % 2 = bit
  BY <1>0 DEF Bit
<1>2. v = p * a + low
  BY DEF Splits
<1>. HIDE DEF p
<1>3. (p * a + low) \div a = p
  BY <1>0, <1>1, QuotientIs
<1>. QED
  BY <1>1, <1>2, <1>3

LEMMA BitIs ==
    ASSUME NEW b \in [0 .. 7 -> Bit], NEW j \in 0 .. 7
    PROVE  (ByteOf(b) \div 2 ^ (7 - j)) % 2 = b[j]
<1>. DEFINE v == ByteOf(b)
            b0 == b[0]
            b1 == b[1]
            b2 == b[2]
            b3 == b[3]
            b4 == b[4]
            b5 == b[5]
            b6 == b[6]
            b7 == b[7]
<1>1. /\ b0 \in Bit /\ b1 \in Bit /\ b2 \in Bit /\ b3 \in Bit
      /\ b4 \in Bit /\ b5 \in Bit /\ b6 \in Bit /\ b7 \in Bit
  OBVIOUS
<1>2. v = (8 * b0 + 4 * b1 + 2 * b2 + b3) * 16 + (8 * b4 + 4 * b5 + 2 * b6 + b7)
  BY DEF ByteOf
<1>. HIDE DEF v, b0, b1, b2, b3, b4, b5, b6, b7
<1>3. (v \div 128) % 2 = b0
  <2>1. Splits(v, 128, 0, b0, 64 * b1 + 32 * b2 + 16 * b3 + 8 * b4 + 4 * b5 + 2 * b6 + b7)
    BY <1>1, <1>2 DEF Splits, Bit
  <2>. QED
    BY <2>1, BitAt, Zenon
<1>4. (v \div 64) % 2 = b1
  <2>1. Splits(v, 64, b0, b1, 32 * b2 + 16 * b3 + 8 * b4 + 4 * b5 + 2 * b6 + b7)
    BY <1>1, <1>2 DEF Splits, Bit
  <2>. QED
    BY <2>1, BitAt, Zenon
<1>5. (v \div 32) % 2 = b2
  <2>1. Splits(v, 32, 2 * b0 + b1, b2, 16 * b3 + 8 * b4 + 4 * b5 + 2 * b6 + b7)
    BY <1>1, <1>2 DEF Splits, Bit
  <2>. QED
    BY <2>1, BitAt, Zenon
<1>6. (v \div 16) % 2 = b3
  <2>1. Splits(v, 16, 4 * b0 + 2 * b1 + b2, b3, 8 * b4 + 4 * b5 + 2 * b6 + b7)
    BY <1>1, <1>2 DEF Splits, Bit
  <2>. QED
    BY <2>1, BitAt, Zenon
<1>. DEFINE high == 8 * b0 + 4 * b1 + 2 * b2 + b3
<1>7. high \in Nat /\ v = high * 16 + (8 * b4 + 4 * b5 + 2 * b6 + b7)
  BY <1>1, <1>2 DEF Bit
<1>. HIDE DEF high
<1>8. (v \div 8) % 2 = b4
  <2>1. Splits(v, 8, high, b4, 4 * b5 + 2 * b6 + b7)
    BY <1>1, <1>7 DEF Splits, Bit
  <2>. QED
    BY <2>1, BitAt, Zenon
<1>9. (v \div 4) % 2 = b5
  <2>1. Splits(v, 4, 2 * high + b4, b5, 2 * b6 + b7)
    BY <1>1, <1>7 DEF Splits, Bit
  <2>. QED
    BY <2>1, BitAt, Zenon
<1>10. (v \div 2) % 2 = b6
  <2>1. Splits(v, 2, 4 * high + 2 * b4 + b5, b6, b7)
    BY <1>1, <1>7 DEF Splits, Bit
  <2>. QED
    BY <2>1, BitAt, Zenon
<1>11. (v \div 1) % 2 = b7
  <2>1. Splits(v, 1, 8 * high + 4 * b4 + 2 * b5 + b6, b7, 0)
    BY <1>1, <1>7 DEF Splits, Bit
  <2>. QED
    BY <2>1, BitAt, Zenon
<1>12. /\ 2 ^ (7 - 0) = 128 /\ 2 ^ (7 - 1) = 64 /\ 2 ^ (7 - 2) = 32 /\ 2 ^ (7 - 3) = 16
       /\ 2 ^ (7 - 4) = 8 /\ 2 ^ (7 - 5) = 4 /\ 2 ^ (7 - 6) = 2 /\ 2 ^ (7 - 7) = 1
  OBVIOUS
<1>13. CASE j = 0
  BY <1>3, <1>12, <1>13 DEF v, b0
<1>14. CASE j = 1
  BY <1>4, <1>12, <1>14 DEF v, b1
<1>15. CASE j = 2
  BY <1>5, <1>12, <1>15 DEF v, b2
<1>16. CASE j = 3
  BY <1>6, <1>12, <1>16 DEF v, b3
<1>17. CASE j = 4
  BY <1>8, <1>12, <1>17 DEF v, b4
<1>18. CASE j = 5
  BY <1>9, <1>12, <1>18 DEF v, b5
<1>19. CASE j = 6
  BY <1>10, <1>12, <1>19 DEF v, b6
<1>20. CASE j = 7
  BY <1>11, <1>12, <1>20 DEF v, b7
<1>. QED
  BY <1>13, <1>14, <1>15, <1>16, <1>17, <1>18, <1>19, <1>20

(* Half the rows of a character are its bytes. *)
Half == CharacterRows \div 2
LEMMA FontSizes ==
    /\ Half \in Nat /\ Half > 0 /\ CharacterRows = 2 * Half
    /\ CharactersHorizontal \in Nat \ {0} /\ CharactersVertical \in Nat \ {0}
    /\ FontCharacters \in Nat /\ FontCharacters > 0
    /\ FontCharacters = CharactersVertical * CharactersHorizontal
    /\ FontCharacters * Half \in Nat /\ FontBytes = FontCharacters * Half
    /\ FontBytes > 0 /\ FontPixels = 8 * FontBytes /\ CharacterColumns = 4
<1>1. /\ CharactersHorizontal \in Nat \ {0} /\ CharactersVertical \in Nat \ {0}
      /\ CharacterRows \in Nat /\ CharacterRows % 2 = 0 /\ CharacterRows > 2
      /\ FontCharacters > 1
  BY FontCompilerAssumption
<1>2. Half \in Nat /\ Half > 0 /\ CharacterRows = 2 * Half
  BY <1>1 DEF Half
<1>3. FontCharacters \in Nat /\ FontCharacters = CharactersVertical * CharactersHorizontal
  BY <1>1 DEF FontCharacters
<1>. DEFINE n == FontCharacters
            product == n * Half
<1>4. product \in Nat
  BY <1>2, <1>3
<1>5. product > 0
  <2>. HIDE DEF n
  <2>1. n \in Nat /\ 0 < n /\ Half \in Nat \ {0}
    BY <1>1, <1>2, <1>3 DEF n
  <2>2. 0 * Half \in Nat /\ 0 * Half + Half <= n * Half /\ n * Half \in Nat
    BY <2>1, TimesKeepsOrder
  <2>. QED
    BY <2>1, <2>2
<1>6. FontPixels = 8 * product
  <2>1. FontPixels = (2 * Half) * 4 * n
    BY <1>2 DEF FontPixels, CharacterColumns
  <2>. HIDE DEF n
  <2>2. (2 * Half) * 4 * n = 8 * (n * Half)
    BY <1>2, <1>3 DEF n
  <2>. QED
    BY <2>1, <2>2
<1>. HIDE DEF product
<1>7. FontBytes = product
  BY <1>4, <1>6 DEF FontBytes
<1>. QED
  BY <1>1, <1>2, <1>3, <1>4, <1>5, <1>6, <1>7 DEF product, CharacterColumns

FontImageType == {image \in Seq([1 .. 3 -> 0 .. 255]) : Len(image) = FontPixels}
FontBytesOf(image) ==
    [i \in 1 .. FontBytes |-> CharacterByte(image, (i - 1) \div Half, 2 * ((i - 1) % Half))]

(* The pixel of a character, by its place in the image. *)
LEMMA PlaceIs ==
    ASSUME NEW c \in 0 .. FontCharacters - 1, NEW row \in 0 .. CharacterRows - 1,
           NEW column \in 0 .. CharacterColumns - 1
    PROVE  LET x == (c % CharactersHorizontal) * CharacterColumns + column
               y == (c \div CharactersHorizontal) * CharacterRows + row
           IN  /\ PixelIndex(c, row, column) = y * CharactersHorizontal * CharacterColumns + x
               /\ PixelIndex(c, row, column) \in 0 .. FontPixels - 1
<1>. DEFINE H == CharactersHorizontal
            V == CharactersVertical
            R == CharacterRows
            q == c \div H
            r == c % H
            x == r * 4 + column
            y == q * R + row
            qR == q * R
            qRH == qR * H
            rowH == row * H
<1>1. /\ H \in Nat \ {0} /\ V \in Nat \ {0} /\ R \in Nat \ {0} /\ c \in Nat /\ c < V * H
      /\ row \in 0 .. R - 1 /\ column \in 0 .. 3 /\ CharacterColumns = 4
  BY FontSizes
<1>2. q \in Nat /\ r \in 0 .. H - 1 /\ c = q * H + r
  BY <1>1, DivMod
<1>3. PixelIndex(c, row, column) = r * 4 + q * R * 4 * H + row * 4 * H + column
  BY <1>1 DEF PixelIndex
<1>4. q \in 0 .. V - 1
  <2>. SUFFICES ASSUME ~(q < V) PROVE FALSE
    BY <1>1, <1>2
  <2>. HIDE DEF q, r, H, V
  <2>1. V * H <= q * H /\ q * H \in Nat /\ V * H \in Nat
    <3>1. q * H \in Nat /\ V * H \in Nat
      BY <1>1, <1>2
    <3>2. CASE V = q
      BY <3>1, <3>2
    <3>3. CASE V < q
      <4>1. V * H + H <= q * H
        BY <1>1, <1>2, <3>3, TimesKeepsOrder
      <4>. QED
        BY <1>1, <3>1, <4>1
    <3>. QED
      BY <1>1, <1>2, <3>2, <3>3
  <2>. QED
    BY <1>1, <1>2, <2>1
<1>. HIDE DEF H, V, R, q, r
<1>5. qR \in Nat /\ qRH \in Nat /\ rowH \in Nat /\ row \in Nat /\ column \in Nat /\ r \in Nat
  BY <1>1, <1>2
<1>6. q * R * 4 * H = 4 * qRH /\ row * 4 * H = 4 * rowH
  BY <1>1, <1>2
<1>7. y * H = qRH + rowH
  BY <1>1, <1>2
<1>8. y * H * 4 + x = r * 4 + q * R * 4 * H + row * 4 * H + column
  <2>. DEFINE yH == y * H
              a == q * R * 4 * H
              b == row * 4 * H
  <2>. HIDE DEF yH, a, b, y, qRH, rowH
  <2>1. yH = qRH + rowH /\ a = 4 * qRH /\ b = 4 * rowH
    BY <1>6, <1>7 DEF yH, a, b
  <2>2. yH * 4 + (r * 4 + column) = r * 4 + a + b + column
    BY <1>5, <2>1
  <2>. QED
    BY <2>2 DEF yH, a, b
<1>9. y \in 0 .. V * R - 1 /\ V * R \in Nat
  BY <1>1, <1>4, ProductBound
<1>10. x \in 0 .. H * 4 - 1 /\ H * 4 \in Nat \ {0}
  BY <1>1, <1>2
<1>11. y * (H * 4) + x \in 0 .. (V * R) * (H * 4) - 1
  <2>. DEFINE a == H * 4
              b == V * R
  <2>. HIDE DEF a, b, x, y
  <2>1. y * a + x \in 0 .. b * a - 1
    BY <1>9, <1>10, ProductBound DEF a, b
  <2>. QED
    BY <2>1 DEF a, b
<1>12. y * (H * 4) = y * H * 4
  <2>. HIDE DEF y
  <2>1. y \in Nat
    BY <1>9
  <2>. QED
    BY <1>1, <2>1
<1>13. FontPixels = (V * R) * (H * 4)
  <2>1. FontPixels = R * 4 * (V * H)
    BY <1>1 DEF FontPixels, FontCharacters, R, V, H
  <2>2. R * 4 * (V * H) = (V * R) * (H * 4)
    BY <1>1
  <2>. QED
    BY <2>1, <2>2
<1>14. PixelIndex(c, row, column) = y * H * 4 + x /\ y * H * 4 + x \in 0 .. FontPixels - 1
  BY <1>3, <1>8, <1>11, <1>12, <1>13
<1>. QED
  BY <1>1, <1>14 DEF H, V, R, q, r

(* A pixel is a bit, and which one if it is black or white. *)
LEMMA PixelIsEncoded ==
    ASSUME NEW image \in FontImageType, NEW c \in 0 .. FontCharacters - 1,
           NEW row \in 0 .. CharacterRows - 1, NEW column \in 0 .. CharacterColumns - 1
    PROVE  /\ EncodePixel(image, c, row, column) \in Bit
           /\ LET pixel == image[PixelIndex(c, row, column) + 1]
              IN  pixel \in {White, Black} =>
                      EncodePixel(image, c, row, column) = (IF pixel = White THEN 1 ELSE 0)
<1>1. EncodePixel(image, c, row, column) \in Bit
  BY DEF EncodePixel, Bit
<1>2. White # Black /\ White[1] = 255 /\ White[2] = 255 /\ Black[1] = 0 /\ Black[2] = 0
  BY DEF White, Black
<1>. QED
  BY <1>1, <1>2 DEF EncodePixel

(* A byte of the font has the pixels of two rows. *)
BitsOfRows(image, c, row) ==
    [j \in 0 .. 7 |-> EncodePixel(image, c, IF j < 4 THEN row ELSE row + 1,
                                  IF j < 4 THEN j ELSE j - 4)]

LEMMA ByteHasRows ==
    ASSUME NEW image, NEW c, NEW row \in Nat
    PROVE  CharacterByte(image, c, row) = ByteOf(BitsOfRows(image, c, row))
<1>. DEFINE b == BitsOfRows(image, c, row)
            p(n) == EncodePixel(image, c, row, n)
            q(n) == EncodePixel(image, c, row + 1, n)
<1>1. /\ b[0] = p(0) /\ b[1] = p(1) /\ b[2] = p(2) /\ b[3] = p(3)
      /\ b[4] = q(0) /\ b[5] = q(1) /\ b[6] = q(2) /\ b[7] = q(3)
  BY DEF BitsOfRows
<1>2. CharacterByte(image, c, row) =
         (8 * p(0) + 4 * p(1) + 2 * p(2) + p(3)) * 16 + (8 * q(0) + 4 * q(1) + 2 * q(2) + q(3))
  BY DEF CharacterByte, EncodeRow
<1>. HIDE DEF b, p, q
<1>. QED
  BY <1>1, <1>2 DEF ByteOf, b

LEMMA BitsAre ==
    ASSUME NEW image \in FontImageType, NEW c \in 0 .. FontCharacters - 1, NEW k \in 0 .. Half - 1
    PROVE  /\ BitsOfRows(image, c, 2 * k) \in [0 .. 7 -> Bit]
           /\ CharacterByte(image, c, 2 * k) \in Nat
<1>1. 2 * k \in 0 .. CharacterRows - 1 /\ 2 * k + 1 \in 0 .. CharacterRows - 1 /\ 2 * k \in Nat
  BY FontSizes
<1>2. ASSUME NEW j \in 0 .. 7
      PROVE  EncodePixel(image, c, IF j < 4 THEN 2 * k ELSE 2 * k + 1,
                         IF j < 4 THEN j ELSE j - 4) \in Bit
  <2>1. (IF j < 4 THEN j ELSE j - 4) \in 0 .. CharacterColumns - 1
    BY FontSizes
  <2>. QED
    BY <1>1, <2>1, PixelIsEncoded
<1>3. BitsOfRows(image, c, 2 * k) \in [0 .. 7 -> Bit]
  BY <1>2 DEF BitsOfRows
<1>. DEFINE b == BitsOfRows(image, c, 2 * k)
<1>. HIDE DEF b
<1>4. ByteOf(b) \in Nat
  <2>1. /\ b[0] \in Bit /\ b[1] \in Bit /\ b[2] \in Bit /\ b[3] \in Bit
        /\ b[4] \in Bit /\ b[5] \in Bit /\ b[6] \in Bit /\ b[7] \in Bit
    BY <1>3 DEF b
  <2>. QED
    BY <2>1 DEF ByteOf, Bit
<1>. QED
  BY <1>1, <1>3, <1>4, ByteHasRows DEF b

LEMMA FontBytesAre ==
    ASSUME NEW image \in FontImageType
    PROVE  /\ FontBytesOf(image) \in Seq(Nat) /\ Len(FontBytesOf(image)) = FontBytes
           /\ DOMAIN FontBytesOf(image) = 1 .. FontBytes
           /\ \A c \in 0 .. FontCharacters - 1, k \in 0 .. Half - 1 :
                 /\ c * Half + k + 1 \in 1 .. FontBytes
                 /\ FontBytesOf(image)[c * Half + k + 1] = CharacterByte(image, c, 2 * k)
<1>0. /\ Half \in Nat \ {0} /\ FontBytes = FontCharacters * Half /\ FontBytes \in Nat
      /\ FontCharacters \in Nat
  BY FontSizes
<1>1. ASSUME NEW i \in 1 .. FontBytes
      PROVE  (i - 1) \div Half \in 0 .. FontCharacters - 1 /\ (i - 1) % Half \in 0 .. Half - 1
  <2>. DEFINE n == i - 1
              q == n \div Half
              r == n % Half
  <2>1. n \in Nat /\ n < FontCharacters * Half
    BY <1>0
  <2>. HIDE DEF n
  <2>2. q \in Nat /\ r \in 0 .. Half - 1 /\ n = q * Half + r
    BY <1>0, <2>1, DivMod
  <2>. HIDE DEF q, r
  <2>3. q < FontCharacters
    <3>. SUFFICES ASSUME ~(q < FontCharacters) PROVE FALSE
      OBVIOUS
    <3>1. q * Half \in Nat /\ FontCharacters * Half \in Nat
      BY <1>0, <2>2
    <3>2. CASE q = FontCharacters
      BY <2>1, <2>2, <3>1, <3>2
    <3>3. CASE FontCharacters < q
      <4>1. FontCharacters * Half + Half <= q * Half
        BY <1>0, <2>2, <3>3, TimesKeepsOrder
      <4>. QED
        BY <1>0, <2>1, <2>2, <3>1, <4>1
    <3>. QED
      BY <1>0, <2>2, <3>2, <3>3
  <2>4. q \in 0 .. FontCharacters - 1
    BY <1>0, <2>2, <2>3
  <2>. QED
    BY <2>2, <2>4 DEF n, q, r
<1>2. \A i \in 1 .. FontBytes :
         CharacterByte(image, (i - 1) \div Half, 2 * ((i - 1) % Half)) \in Nat
  BY <1>1, BitsAre
<1>3. /\ FontBytesOf(image) \in Seq(Nat) /\ Len(FontBytesOf(image)) = FontBytes
      /\ DOMAIN FontBytesOf(image) = 1 .. FontBytes
  BY <1>0, <1>2 DEF FontBytesOf
<1>4. ASSUME NEW c \in 0 .. FontCharacters - 1, NEW k \in 0 .. Half - 1
      PROVE  /\ c * Half + k + 1 \in 1 .. FontBytes
             /\ FontBytesOf(image)[c * Half + k + 1] = CharacterByte(image, c, 2 * k)
  <2>. DEFINE n == c * Half + k
  <2>1. n \in 0 .. FontBytes - 1
    BY <1>0, ProductBound
  <2>2. n \div Half = c /\ n % Half = k
    <3>1. c \in Nat
      BY <1>0
    <3>. QED
      BY <1>0, <3>1, QuotientIs
  <2>. HIDE DEF n
  <2>3. n + 1 \in 1 .. FontBytes /\ (n + 1) - 1 = n
    BY <1>0, <2>1
  <2>4. FontBytesOf(image)[n + 1] = CharacterByte(image, n \div Half, 2 * (n % Half))
    BY <2>3 DEF FontBytesOf
  <2>. QED
    BY <2>2, <2>3, <2>4 DEF n
<1>. QED
  BY <1>3, <1>4

(* The source of a font lists its bytes. *)
LEMMA FontIsWritten ==
    ASSUME NEW image \in FontImageType, NEW a \in Int
    PROVE  /\ Written(GenerateFont(image, a)) = FontLength(a)
           /\ Values(GenerateFont(image, a)) = FontBytesOf(image)
<1>. DEFINE values == FontBytesOf(image)
            list == Entries(values, 25, 2, 5, 2)
            m == (25 + 2 + 5) * (FontBytes - 1) + 25 + 2 + 2
<1>1. values \in Seq(Nat) /\ Len(values) = FontBytes /\ FontBytes \in Nat /\ FontBytes > 0
  BY FontBytesAre, FontSizes
<1>2. GenerateFont(image, a) = (Text(Prelude) \o Define(a)) \o list
  BY DEF GenerateFont, Length, FontBytesOf, Half
<1>3. FontLength(a) = Prelude + (8 + a + 3) + m
  <2>1. FontLength(a) = Prelude + 8 + a + 3 + (25 + 2 + 5) * (FontBytes - 1) + 25 + 2 + 2
    BY DEF FontLength, Length
  <2>2. Prelude \in Int
    BY CSourceAssumption
  <2>. QED
    BY <1>1, <2>1, <2>2
<1>. HIDE DEF values
<1>4. IsOutput(list, m, values)
  <2>1. values \in Seq(Int) /\ \A i \in DOMAIN values : values[i] # -1
    <3>1. \A i \in DOMAIN values : values[i] \in Nat
      BY <1>1
    <3>. QED
      BY <1>1, <3>1
  <2>2. 25 \in Int /\ 2 \in Int /\ 5 \in Int /\ Len(values) > 0
    BY <1>1
  <2>3. IsOutput(list, (25 + 2 + 5) * (Len(values) - 1) + 25 + 2 + 2, values)
    BY <2>1, <2>2, EntriesAre, Zenon
  <2>. QED
    BY <1>1, <2>3, Zenon
<1>. HIDE DEF list, m
<1>5. IsOutput(Text(Prelude), Prelude, <<>>) /\ IsOutput(Define(a), 8 + a + 3, <<>>)
  BY CSourceAssumption, PiecesOf
<1>6. IsOutput(Text(Prelude) \o Define(a), Prelude + (8 + a + 3), <<>> \o <<>>)
  BY <1>5, OutputConcat, Zenon
<1>7. IsOutput((Text(Prelude) \o Define(a)) \o list, Prelude + (8 + a + 3) + m,
               (<<>> \o <<>>) \o values)
  BY <1>4, <1>6, OutputConcat, Zenon
<1>8. (<<>> \o <<>>) \o values = values
  BY <1>1
<1>. QED
  BY <1>2, <1>3, <1>7, <1>8 DEF IsOutput, values

(* The console finds the pixels in it. *)
LEMMA FontIsShown ==
    ASSUME NEW image \in FontImageType,
           NEW c \in 0 .. FontCharacters - 1, NEW row \in 0 .. CharacterRows - 1,
           NEW column \in 0 .. CharacterColumns - 1
    PROVE  FontmapDecompress(FontBytesOf(image))
               [(c * CharacterRows + row) * CharacterColumns + column]
               = EncodePixel(image, c, row, column)
<1>. DEFINE k == row \div 2
            s == row % 2
            j == 4 * s + column
            product == c * Half
            n == product + k
            pixel == (c * CharacterRows + row) * 4 + column
            bytes == FontBytesOf(image)
<1>0. /\ Half \in Nat \ {0} /\ CharacterRows = 2 * Half /\ CharacterColumns = 4
      /\ FontBytes \in Nat /\ FontCharacters \in Nat
  BY FontSizes
<1>1. /\ row \in Nat /\ k \in 0 .. Half - 1 /\ s \in {0, 1} /\ row = 2 * k + s
      /\ column \in 0 .. 3 /\ j \in 0 .. 7 /\ c \in Nat
  BY <1>0
<1>2. product \in Nat /\ c * CharacterRows = 2 * product
  BY <1>0, <1>1
<1>3. n + 1 \in 1 .. FontBytes /\ bytes[n + 1] = CharacterByte(image, c, 2 * k)
  BY <1>1, FontBytesAre
<1>. HIDE DEF k, s, product
<1>4. pixel = n * 8 + j /\ n \in Nat
  BY <1>1, <1>2
<1>. HIDE DEF n, j, pixel
<1>5. pixel \div 8 = n /\ pixel % 8 = j
  BY <1>1, <1>4, QuotientIs
<1>6. Len(bytes) = FontBytes
  BY FontBytesAre
<1>7. pixel \in 0 .. 8 * Len(bytes) - 1
  BY <1>0, <1>1, <1>3, <1>4, <1>6
<1>8. FontmapDecompress(bytes)[pixel] = (bytes[n + 1] \div 2 ^ (7 - j)) % 2
  BY <1>5, <1>7 DEF FontmapDecompress
<1>. DEFINE b == BitsOfRows(image, c, 2 * k)
<1>9. b \in [0 .. 7 -> Bit] /\ bytes[n + 1] = ByteOf(b)
  <2>1. 2 * k \in Nat
    BY <1>1
  <2>. QED
    BY <1>1, <1>3, <2>1, BitsAre, ByteHasRows
<1>10. (ByteOf(b) \div 2 ^ (7 - j)) % 2 = b[j]
  <2>. HIDE DEF b
  <2>. QED
    BY <1>1, <1>9, BitIs
<1>11. b[j] = EncodePixel(image, c, row, column)
  <2>1. b[j] = EncodePixel(image, c, IF j < 4 THEN 2 * k ELSE 2 * k + 1,
                           IF j < 4 THEN j ELSE j - 4)
    BY <1>1 DEF BitsOfRows
  <2>2. /\ (IF j < 4 THEN 2 * k ELSE 2 * k + 1) = row
        /\ (IF j < 4 THEN j ELSE j - 4) = column
    BY <1>1 DEF j
  <2>. QED
    BY <2>1, <2>2
<1>. HIDE DEF b, bytes
<1>12. FontmapDecompress(bytes)[pixel] = EncodePixel(image, c, row, column)
  BY <1>8, <1>9, <1>10, <1>11
<1>. QED
  BY <1>0, <1>12 DEF pixel, bytes
-----------------------------------------------------------------------------
(* The text of a dump is no longer than its buffer: two codes, and nine rows. *)

LEMMA NinthTotal ==
    ASSUME NEW c \in Int, NEW d \in Int,
           NEW s \in Seq(Int), Len(s) = 9, \A n \in 1 .. 8 : s[n] = c, s[9] = d
    PROVE  Total(s) = 8 * c + d
<1>1. PICK m : m = 8
  OBVIOUS
<1>2. PICK front : front = SubSeq(s, 1, m)
  OBVIOUS
<1>3. 1 \in 1 .. Len(s) /\ m \in 1 .. Len(s) /\ 1 <= m
  BY <1>1
<1>4. /\ front \in Seq(Int) /\ Len(front) = m - 1 + 1
      /\ \A n \in 1 .. m - 1 + 1 : front[n] = s[1 + n - 1]
  BY <1>2, <1>3, PartOf
<1>5. front \in Seq(Int)
  BY <1>4
<1>6. Len(front) = 8
  BY <1>1, <1>4
<1>7. \A n \in 1 .. 8 : front[n] = s[n]
  <2>1. \A n \in 1 .. 8 : n \in 1 .. m - 1 + 1 /\ 1 + n - 1 = n
    BY <1>1
  <2>. QED
    BY <1>4, <2>1, Zenon
<1>8. Total(front) = Len(front) * c
  <2>1. DOMAIN front = 1 .. 8
    BY <1>5, <1>6
  <2>2. \A n \in DOMAIN front : front[n] = c
    BY <1>7, <2>1
  <2>. QED
    BY <1>5, <2>2, TotalConstant
<1>9. Total(Append(front, d)) = Total(front) + d
  BY <1>5, TotalAppend
<1>10. s = Append(front, d)
  <2>1. HasNinth(Append(front, d), front, d)
    BY <1>5, <1>6, NinthRow, Zenon
  <2>2. \A n \in 1 .. 9 : n = 9 \/ n \in 1 .. 8
    OBVIOUS
  <2>3. \A n \in 1 .. 9 : s[n] = Append(front, d)[n]
    BY <1>7, <2>1, <2>2, Zenon DEF HasNinth
  <2>4. Append(front, d) \in Seq(Int) /\ Len(Append(front, d)) = Len(front) + 1
    BY <1>5
  <2>5. Len(s) = Len(Append(front, d)) /\ \A n \in 1 .. Len(s) : s[n] = Append(front, d)[n]
    <3>1. Len(s) = 9
      OBVIOUS
    <3>2. Len(Append(front, d)) = 9
      BY <1>6, <2>4
    <3>. QED
      BY <2>3, <3>1, <3>2, Zenon
  <2>. QED
    BY <2>4, <2>5, SeqEqual
<1>. QED
  BY <1>6, <1>8, <1>9, <1>10

LEMMA DumpFits ==
    ASSUME NEW dump
    PROVE  SramWritten(SramFormat(dump)) <= MaxCharacters
<1>. DEFINE text == SramFormat(dump)
            file_rows == FormatRegisterFile(dump.register_file)
            special == Row(SpecialRegisterNames, dump.special_registers)
            lengths == [n \in DOMAIN text.rows |-> RowCharacters(text.rows[n])]
            first == StatusCodeCharacters(dump.last_written)
            second == StatusCodeCharacters(dump.time_of_dump)
<1>1. /\ text.rows = Append(file_rows, special)
      /\ text.status_codes[1] = dump.last_written /\ text.status_codes[2] = dump.time_of_dump
  BY DEF SramFormat
<1>2. DOMAIN file_rows = 1 .. 8 /\ \A row \in 1 .. 8 : RowCharacters(file_rows[row]) = 184
  <2>1. Len(RegisterNames) = 32 /\ \E S : RegisterNames \in Seq(S)
    BY DigitsAndNames
  <2>2. Len(RegisterNames) \div RegistersPerRow = 8
    BY <2>1 DEF RegistersPerRow
  <2>3. ASSUME NEW row \in 1 .. 8 PROVE RowCharacters(file_rows[row]) = 184
    <3>. DEFINE a == (row - 1) * 4 + 1
                b == row * 4
                names == SubSeq(RegisterNames, a, b)
    <3>1. a \in 1 .. 32 /\ b \in 1 .. 32 /\ a <= b /\ b - a + 1 = 4
      OBVIOUS
    <3>2. file_rows[row].names = names
      BY <2>2 DEF FormatRegisterFile, Row, RegistersPerRow
    <3>. HIDE DEF a, b, file_rows
    <3>3. Len(names) = 4
      BY <2>1, <3>1, PartOf
    <3>. QED
      BY <3>2, <3>3 DEF RowCharacters
  <2>. QED
    BY <2>2, <2>3 DEF FormatRegisterFile
<1>3. RowCharacters(special) = 142
  BY DigitsAndNames DEF RowCharacters, Row, SpecialRegisterNames
<1>4. \E S : file_rows \in Seq(S) /\ special \in S /\ Len(file_rows) = 8
  <2>. DEFINE S == {file_rows[i] : i \in 1 .. 8} \cup {special}
  <2>1. file_rows = [i \in 1 .. 8 |-> file_rows[i]]
    BY <1>2 DEF FormatRegisterFile
  <2>2. \A i \in 1 .. 8 : file_rows[i] \in S
    OBVIOUS
  <2>3. special \in S
    OBVIOUS
  <2>. HIDE DEF S, file_rows, special
  <2>4. file_rows \in Seq(S) /\ Len(file_rows) = 8
    BY <2>1, <2>2
  <2>. QED
    BY <2>3, <2>4
<1>. HIDE DEF file_rows, special
<1>5. Total(lengths) = 1614
  <2>. DEFINE rows == Append(file_rows, special)
  <2>1. HasNinth(rows, file_rows, special)
    BY <1>4, NinthRow, Zenon
  <2>2. lengths = [n \in 1 .. 9 |-> RowCharacters(rows[n])]
    BY <1>1, <2>1, Zenon DEF HasNinth
  <2>3. \A n \in 1 .. 9 : n = 9 \/ n \in 1 .. 8
    OBVIOUS
  <2>5. RowCharacters(rows[9]) = 142
    BY <1>3, <2>1, Zenon DEF HasNinth
  <2>. HIDE DEF rows, lengths, text
  <2>4. \A n \in 1 .. 8 : RowCharacters(rows[n]) = 184
    <3>1. \A n \in 1 .. 8 : rows[n] = file_rows[n]
      BY <2>1 DEF HasNinth
    <3>2. ASSUME NEW n \in 1 .. 8 PROVE RowCharacters(rows[n]) = 184
      <4>1. rows[n] = file_rows[n] /\ RowCharacters(file_rows[n]) = 184
        BY <1>2, <3>1
      <4>. QED
        BY <4>1
    <3>. QED
      BY <3>2
  <2>6. \A n \in 1 .. 9 : RowCharacters(rows[n]) \in Int
    BY <2>3, <2>4, <2>5
  <2>7. lengths \in Seq(Int) /\ Len(lengths) = 9
    BY <2>2, <2>6
  <2>8. lengths[9] = 142 /\ \A n \in 1 .. 8 : lengths[n] = 184
    <3>1. \A n \in 1 .. 9 : lengths[n] = RowCharacters(rows[n])
      BY <2>2
    <3>. QED
      BY <2>4, <2>5, <3>1
  <2>. QED
    <3>1. PICK c \in Int, d \in Int : c = 184 /\ d = 142
      OBVIOUS
    <3>2. lengths[9] = d /\ \A n \in 1 .. 8 : lengths[n] = c
      BY <2>8, <3>1
    <3>3. Total(lengths) = 8 * c + d
      BY <2>7, <3>2, NinthTotal
    <3>. QED
      BY <3>1, <3>3
<1>7. first \in 0 .. 47 /\ second \in 0 .. 47
  BY DEF StatusCodeCharacters
<1>8. SramWritten(text) = 82 + first + second + 83 + Total(lengths) + 1
  BY <1>1 DEF SramWritten, SramCharacters
<1>. HIDE DEF text, lengths, first, second
<1>9. SramWritten(text) <= 2048
  BY <1>5, <1>7, <1>8
<1>10. MaxCharacters \in Nat /\ MaxCharacters >= 2048
  BY SramDumperAssumption
<1>11. SramWritten(text) \in Int
  BY <1>5, <1>7, <1>8
<1>12. SramWritten(text) <= MaxCharacters
  BY <1>9, <1>10, <1>11
<1>. QED
  BY <1>12 DEF text
-----------------------------------------------------------------------------
(* No value is empty but those of the entry that is open.  Unlike the slices, this
   holds where the lexer is misled, too.                                      *)

Counted(n) ==
    \A field \in Fields :
        LET characters == string_array.strings[n][field].characters
        IN  characters \in Nat /\ (characters = 0 => n = Top /\ Unfinished)

CountsInv ==
    /\ \A n \in 1 .. Top : string_array.strings[n] # Lost => Counted(n)
    /\ InEntry => string_array.strings[Top] # Lost

LEMMA LostHasNoCount ==
    /\ \A field \in Fields : Lost[field].characters = -1 /\ NewString[field].characters = 0
    /\ "text" \in Fields /\ NewString # Lost
<1>1. \A field \in Fields : Lost[field].characters = -1 /\ NewString[field].characters = 0
  BY DEF NewString, NoValue, Lost
<1>2. "text" \in Fields
  BY DEF Fields
<1>. QED
  BY <1>1, <1>2

LEMMA CountsStay ==
    ASSUME CountsInv, UNCHANGED string_array, Unfinished => Unfinished', InEntry' => InEntry
    PROVE  CountsInv'
<1>1. Top' = Top
  BY DEF Top
<1>2. ASSUME NEW n \in 1 .. Top', (string_array.strings[n] # Lost)' PROVE Counted(n)'
  <2>1. Counted(n)
    BY <1>1, <1>2 DEF CountsInv
  <2>. QED
    BY <1>1, <2>1 DEF Counted
<1>. QED
  BY <1>1, <1>2 DEF CountsInv

LEMMA CountsTouched ==
    ASSUME LexerInv, CountsInv, func \in ValueStates, NEW value \in Slice, SetValue(value),
           value.characters >= 0, func' \in EntryStates
    PROVE  CountsInv'
<1>1. /\ shared \in Fields /\ Top' = Top /\ Top > 0 /\ InEntry /\ Top \in Nat
      /\ \A n \in 1 .. Top, field \in Fields :
            /\ n # Top => string_array'.strings[n] = string_array.strings[n]
            /\ string_array'.strings[n][field] =
                   (IF n = Top /\ field = shared THEN value
                    ELSE string_array.strings[n][field])
  BY SetValueGives
<1>2. /\ value.characters \in Nat /\ Top \in 1 .. Top /\ InEntry' /\ Unfinished'
      /\ string_array.strings[Top] # Lost
  BY <1>1 DEF Slice, InEntry, Unfinished, CountsInv
<1>3. (string_array.strings[Top] # Lost)'
  <2>1. string_array'.strings[Top][shared] = value
    BY <1>1, <1>2
  <2>2. value.characters # -1
    BY <1>2
  <2>. QED
    BY <1>1, <2>1, <2>2, LostHasNoCount
<1>4. ASSUME NEW n \in 1 .. Top', (string_array.strings[n] # Lost)' PROVE Counted(n)'
  <2>1. CASE n = Top
    <3>1. Counted(n)
      BY <1>1, <1>2, <2>1 DEF CountsInv
    <3>. SUFFICES ASSUME NEW field \in Fields
                  PROVE  string_array'.strings[n][field].characters \in Nat
      BY <1>1, <1>2, <2>1 DEF Counted
    <3>2. string_array'.strings[n][field] =
             (IF field = shared THEN value ELSE string_array.strings[n][field])
      BY <1>1, <1>2, <2>1
    <3>3. string_array.strings[n][field].characters \in Nat
      BY <3>1 DEF Counted
    <3>. QED
      BY <1>2, <3>2, <3>3
  <2>2. CASE n # Top
    <3>1. n \in 1 .. Top /\ string_array'.strings[n] = string_array.strings[n]
      BY <1>1, <2>2, LostHasNoCount
    <3>2. Counted(n)
      BY <1>4, <3>1 DEF CountsInv
    <3>. QED
      BY <1>1, <1>2, <3>1, <3>2 DEF Counted
  <2>. QED
    BY <2>1, <2>2
<1>. QED
  BY <1>1, <1>3, <1>4 DEF CountsInv

LEMMA CountsNew ==
    ASSUME LexerInv, CountsInv, func = "initial", SetNewStringEntry
    PROVE  CountsInv'
<1>. DEFINE strings == string_array.strings
<1>1. /\ strings \in Seq([Fields -> Slice]) /\ Top = Len(strings) /\ Top \in Nat
      /\ ~Unfinished /\ ~InEntry
  BY DEF LexerInv, LexerTypes, Top, Unfinished, InEntry, EntryStates, CommentStates
<1>2. CASE string_array'.strings = Append(strings, NewString) /\ Return("entry_initial", "ok")
  <2>1. /\ Top' = Top + 1 /\ string_array'.strings[Top + 1] = NewString
        /\ \A n \in 1 .. Top : string_array'.strings[n] = strings[n]
    BY <1>1, <1>2 DEF Top
  <2>2. InEntry' /\ Unfinished'
    BY <1>2 DEF Return, InEntry, Unfinished, EntryStates
  <2>3. ASSUME NEW n \in 1 .. Top', (string_array.strings[n] # Lost)' PROVE Counted(n)'
    <3>1. CASE n = Top + 1
      BY <2>1, <2>2, <3>1, LostHasNoCount DEF Counted
    <3>2. CASE n \in 1 .. Top
      <4>1. string_array'.strings[n] = strings[n] /\ Counted(n)
        BY <2>1, <2>3, <3>2 DEF CountsInv
      <4>2. \A field \in Fields :
               strings[n][field].characters \in Nat /\ strings[n][field].characters # 0
        BY <1>1, <4>1 DEF Counted
      <4>. QED
        BY <4>1, <4>2 DEF Counted
    <3>. QED
      BY <1>1, <2>1, <3>1, <3>2
  <2>. QED
    BY <2>1, <2>3, LostHasNoCount DEF CountsInv
<1>3. CASE /\ string_array'.strings = [i \in 1 .. Top |-> Lost]
           /\ Return("initial", "out_of_memory")
  <2>1. Top' = Top /\ \A n \in 1 .. Top : string_array'.strings[n] = Lost
    BY <1>1, <1>3 DEF Top
  <2>2. ~InEntry'
    BY <1>3 DEF Return, InEntry, EntryStates, CommentStates
  <2>. QED
    BY <2>1, <2>2 DEF CountsInv
<1>4. CASE Return("crashed", "ok") /\ UNCHANGED string_array
  BY <1>1, <1>4, CountsStay DEF Return, Unfinished, InEntry, EntryStates, CommentStates
<1>5. \/ \E capacity : /\ string_array' = [strings |-> Append(strings, NewString), ptr |-> "live",
                                          capacity |-> capacity]
                      /\ Return("entry_initial", "ok")
      \/ \E capacity : /\ string_array' = [strings |-> [i \in 1 .. Top |-> Lost], ptr |-> "null",
                                          capacity |-> capacity]
                      /\ Return("initial", "out_of_memory")
      \/ Return("crashed", "ok") /\ UNCHANGED string_array
  BY Zenon DEF SetNewStringEntry
<1>6. \A array, pushed, capacity :
          array = [strings |-> pushed, ptr |-> "live", capacity |-> capacity]
              => array.strings = pushed
  OBVIOUS
<1>7. \A array, lost, capacity :
          array = [strings |-> lost, ptr |-> "null", capacity |-> capacity]
              => array.strings = lost
  OBVIOUS
<1>. QED
  BY <1>2, <1>3, <1>4, <1>5, <1>6, <1>7, Zenon

LEMMA CountsFinalize ==
    ASSUME LexerInv, CountsInv, func = "entry_initial", SetFinalizeStringEntry
    PROVE  CountsInv'
<1>1. UNCHANGED string_array /\ Top' = Top /\ InEntry
  BY DEF SetFinalizeStringEntry, Goto, Exit, memory, Top, InEntry, EntryStates
<1>2. CASE Exit("missing_required_field")
  BY <1>1, <1>2, CountsStay DEF Exit, Return, Unfinished, InEntry, EntryStates, CommentStates
<1>3. CASE /\ \A field \in Fields : string_array.strings[Top][field].characters # 0
           /\ func' = "initial"
  <2>1. ~InEntry'
    BY <1>3 DEF InEntry, EntryStates, CommentStates
  <2>2. ASSUME NEW n \in 1 .. Top', (string_array.strings[n] # Lost)' PROVE Counted(n)'
    <3>1. Counted(n)
      BY <1>1, <2>2 DEF CountsInv
    <3>2. \A field \in Fields : string_array.strings[n][field].characters # 0
      BY <1>3, <3>1 DEF Counted
    <3>. QED
      BY <1>1, <3>1, <3>2 DEF Counted
  <2>. QED
    BY <2>1, <2>2 DEF CountsInv
<1>. QED
  BY <1>2, <1>3 DEF SetFinalizeStringEntry, Goto, Return

(* A value that is set in an entry only grows. *)
LEMMA ValueIsCounted ==
    ASSUME LexerInv, CountsInv, func \in ValueStates
    PROVE  Value \in Slice /\ Value.characters >= 0
<1>1. Value \in Slice /\ shared \in Fields /\ InEntry /\ Top \in 1 .. Top
  <2>1. Top > 0 /\ Top \in Nat /\ shared \in Fields /\ InEntry
    BY DEF LexerInv, LexerTypes, ValueStates, InEntry, EntryStates, Top
  <2>2. Value \in Slice
    BY ValueTyped DEF LexerInv
  <2>. QED
    BY <2>1, <2>2
<1>2. Counted(Top)
  BY <1>1 DEF CountsInv
<1>. QED
  BY <1>1, <1>2 DEF Counted, Value

LEMMA IdentifierIsCounted ==
    ASSUME LexerInv, CountsInv, func \in {"wait_value", "value_identifier"}, NEW value \in Slice,
           value.characters >= 0, DigestValueIdentifierCharacter(value)
    PROVE  CountsInv'
<1>1. func \in ValueStates /\ InEntry /\ Unfinished
  BY DEF ValueStates, InEntry, EntryStates, Unfinished
<1>2. CASE /\ UNCHANGED memory
           /\ \/ func' \in {"value_wait_newline", "entry_initial"}
              \/ func' = "exited" /\ parse_status' # "ok"
  BY <1>1, <1>2, CountsStay DEF memory, Unfinished, InEntry, EntryStates
<1>3. CASE SetValue([value EXCEPT !.characters = @ + 1]) /\ func' = "value_identifier"
  <2>1. /\ [value EXCEPT !.characters = @ + 1] \in Slice
        /\ [value EXCEPT !.characters = @ + 1].characters >= 0
    BY DEF Slice
  <2>2. func' \in EntryStates
    BY <1>3 DEF EntryStates
  <2>. QED
    BY <1>1, <1>3, <2>1, <2>2, CountsTouched
<1>. QED
  BY <1>2, <1>3 DEF DigestValueIdentifierCharacter, Goto, Exit, Return

LEMMA WaitValueIsCounted ==
    ASSUME LexerInv, CountsInv, LexerStep, StateStringEntryWaitValue
    PROVE  CountsInv'
<1>1. /\ func = "wait_value" /\ func \in ValueStates /\ InEntry /\ Unfinished /\ Next1 \in Int
      /\ Value \in Slice /\ Value.characters >= 0
  BY StepIterates, ValueIsCounted
     DEF StateStringEntryWaitValue, Iterate, LexerInv, ValueStates, InEntry, EntryStates, Unfinished
<1>2. CASE /\ UNCHANGED memory
           /\ \/ func' = "wait_value"
              \/ func' = "exited" /\ parse_status' # "ok"
  BY <1>1, <1>2, CountsStay DEF memory, Unfinished, InEntry, EntryStates
<1>3. /\ [Value EXCEPT !.ptr = Next1] \in Slice
      /\ [Value EXCEPT !.ptr = Next1].characters >= 0
      /\ [Value EXCEPT !.ptr = Next1 + 1] \in Slice
      /\ [Value EXCEPT !.ptr = Next1 + 1].characters >= 0
  BY <1>1 DEF Slice
<1>4. CASE StartValueText
  <2>1. SetValue([Value EXCEPT !.ptr = Next1 + 1]) /\ func' \in EntryStates
    BY <1>4 DEF StartValueText, Return, EntryStates
  <2>. QED
    BY <1>1, <1>3, <2>1, CountsTouched
<1>5. CASE SetValue([Value EXCEPT !.ptr = Next1]) /\ func' = "wait_value"
  <2>1. func' \in EntryStates
    BY <1>5 DEF EntryStates
  <2>. QED
    BY <1>1, <1>3, <1>5, <2>1, CountsTouched
<1>6. CASE DigestValueIdentifierCharacter([Value EXCEPT !.ptr = Next1])
  BY <1>1, <1>3, <1>6, IdentifierIsCounted
<1>. QED
  BY <1>2, <1>4, <1>5, <1>6
     DEF StateStringEntryWaitValue, SetValueText, SetValueIdentifier, Goto, Exit, Return

(* Every step of the lexer keeps the counts. *)
LEMMA LexerCounts == LexerInv /\ CountsInv /\ LexerStep => CountsInv'
<1>. SUFFICES ASSUME LexerInv, CountsInv, LexerStep PROVE CountsInv'
  OBVIOUS
<1>1. CASE StateInitial
  <2>1. func = "initial" /\ ~InEntry /\ ~Unfinished
    BY <1>1 DEF StateInitial, Iterate, InEntry, EntryStates, CommentStates, Unfinished
  <2>2. CASE SetNewStringEntry
    BY <2>1, <2>2, CountsNew
  <2>3. CASE SetCommentStart
    BY <2>1, <2>3, CountsStay
       DEF SetCommentStart, Return, InEntry, EntryStates, CommentStates
  <2>4. CASE UNCHANGED memory /\ func' \in {"initial", "exited"}
    BY <2>1, <2>4, CountsStay DEF memory, InEntry, EntryStates, CommentStates
  <2>. QED
    BY <1>1, <2>2, <2>3, <2>4 DEF StateInitial, Goto, Exit, Return
<1>2. CASE StateCommentStart \/ StateComment \/ StateCommentEnd
  <2>1. /\ UNCHANGED memory /\ func \in CommentStates
        /\ \/ func' \in {state_prev} \cup CommentStates
           \/ func' = "exited" /\ parse_status' # "ok"
    BY <1>2 DEF StateCommentStart, StateComment, StateCommentEnd, Goto, Exit, Return, Iterate,
                CommentStates
  <2>2. state_prev \in {"initial", "entry_initial"}
    BY DEF LexerInv, LexerTypes
  <2>. QED
    BY <2>1, <2>2, CountsStay DEF memory, InEntry, EntryStates, CommentStates, Unfinished
<1>3. CASE StateStringEntryInitial
  <2>1. func = "entry_initial" /\ InEntry /\ Unfinished
    BY <1>3 DEF StateStringEntryInitial, Iterate, InEntry, EntryStates, Unfinished
  <2>2. CASE SetFinalizeStringEntry
    BY <2>1, <2>2, CountsFinalize
  <2>3. CASE /\ UNCHANGED string_array
             /\ \/ func' = "comment_start" /\ state_prev' = "entry_initial"
                \/ func' \in {"entry_initial", "identifier"}
                \/ func' = "exited" /\ parse_status' # "ok"
    BY <2>1, <2>3, CountsStay DEF InEntry, EntryStates, CommentStates, Unfinished
  <2>. QED
    BY <1>3, <2>1, <2>2, <2>3
       DEF StateStringEntryInitial, Goto, Exit, Return, SetCommentStart,
           SetStringEntryIdentifier, memory
<1>4. CASE StateStringEntryIdentifier
  <2>1. func = "identifier" /\ InEntry /\ Unfinished
    BY <1>4 DEF StateStringEntryIdentifier, Iterate, InEntry, EntryStates, Unfinished
  <2>2. UNCHANGED string_array
    BY <1>4 DEF StateStringEntryIdentifier, Goto, Exit, SetStringEntryPostIdentifier,
                DigestIdentifierCharacter, memory
  <2>3. \/ func' \in {"identifier", "wait_separator", "wait_value"}
        \/ func' = "exited" /\ parse_status' # "ok"
    BY <1>4
       DEF StateStringEntryIdentifier, Exit, Return, SetStringEntryPostIdentifier,
           DigestIdentifierCharacter
  <2>. QED
    BY <2>1, <2>2, <2>3, CountsStay DEF InEntry, EntryStates, Unfinished
<1>5. CASE StateStringEntryWaitSeparator \/ StateStringEntryValueWaitNewline
  <2>1. func \in {"wait_separator", "value_wait_newline"} /\ InEntry /\ Unfinished
    BY <1>5
       DEF StateStringEntryWaitSeparator, StateStringEntryValueWaitNewline, Iterate, InEntry,
           EntryStates, Unfinished
  <2>2. /\ UNCHANGED string_array
        /\ \/ func' \in {"wait_separator", "wait_value", "value_wait_newline", "entry_initial"}
           \/ func' = "exited" /\ parse_status' # "ok"
    BY <1>5
       DEF StateStringEntryWaitSeparator, StateStringEntryValueWaitNewline, Goto, Exit, Return,
           memory
  <2>. QED
    BY <2>1, <2>2, CountsStay DEF InEntry, EntryStates, Unfinished
<1>6. CASE StateStringEntryValueIdentifier
  <2>1. func = "value_identifier" /\ func \in ValueStates /\ InEntry
    BY <1>6 DEF StateStringEntryValueIdentifier, Iterate, ValueStates, InEntry, EntryStates
  <2>2. CASE DigestValueIdentifierCharacter(Value)
    BY <2>1, <2>2, ValueIsCounted, IdentifierIsCounted
  <2>3. CASE Exit("missing_newline")
    BY <2>1, <2>3, CountsStay DEF Exit, Return, memory, InEntry, Unfinished
  <2>. QED
    BY <1>6, <2>2, <2>3 DEF StateStringEntryValueIdentifier
<1>7. CASE StateStringEntryValueText
  <2>1. func = "value_text" /\ func \in ValueStates /\ InEntry
    BY <1>7 DEF StateStringEntryValueText, Iterate, ValueStates, InEntry, EntryStates
  <2>2. CASE DigestValueTextCharacter
    <3>1. Value \in Slice /\ Value.characters >= 0
      BY <2>1, ValueIsCounted
    <3>2. /\ [Value EXCEPT !.characters = @ + 1] \in Slice
          /\ [Value EXCEPT !.characters = @ + 1].characters >= 0
      BY <3>1 DEF Slice
    <3>3. SetValue([Value EXCEPT !.characters = @ + 1]) /\ func' \in EntryStates
      BY <2>2 DEF DigestValueTextCharacter, Return, EntryStates
    <3>. QED
      BY <2>1, <3>2, <3>3, CountsTouched
  <2>3. CASE /\ UNCHANGED memory
             /\ \/ func' = "value_wait_newline"
                \/ func' = "exited" /\ parse_status' # "ok"
    BY <2>1, <2>3, CountsStay DEF memory, InEntry, EntryStates, Unfinished
  <2>. QED
    BY <1>7, <2>2, <2>3 DEF StateStringEntryValueText, SetValueTextExit, Goto, Exit, Return
<1>. QED
  BY <1>1, <1>2, <1>3, <1>4, <1>5, <1>6, <1>7, WaitValueIsCounted DEF LexerStep
-----------------------------------------------------------------------------
(* The output of each program, from its input to the save.                    *)

NameOf(option) == ParameterCharacters[parameters[option]]

(* The picture, the font and the dump that are saved.                         *)
IsPicture(pixels, length, out) ==
    \E a, b \in Int :
        /\ length = ImageLength(Compress(Encode(pixels).pixel_tuples), a, b)
        /\ out = GenerateImage(Compress(Encode(pixels).pixel_tuples), Encode(pixels).color_table,
                               a, b)

IsFont(image, length, out) ==
    \E a \in Int : length = FontLength(a) /\ out = GenerateFont(image, a)

IsText(strings, length, out) ==
    /\ strings \in Seq([Fields -> Slice])
    /\ \A n \in DOMAIN strings : strings[n].text.characters > 0
    /\ length = TextLength(strings) /\ out = GenerateText(strings)

ImageInv ==
    tool = "image" =>
        /\ pc \in {"load", "compile", "format"} =>
              NameOf("name_pixels") \in Int /\ NameOf("name_color_table") \in Int
        /\ pc \in {"compile", "format", "save"} => input \in Images
        /\ pc = "format" => encoded = Encode(input)
        /\ pc \in {"format", "save"} => Encode(input).status = "ok"
        /\ pc = "save" => IsPicture(input, buffer, output)

FontInv ==
    tool = "font" =>
        /\ pc \in {"load", "compile"} => NameOf("name") \in Int
        /\ pc \in {"compile", "save"} => input \in FontImages
        /\ pc = "save" => Len(input) = FontPixels /\ IsFont(input, buffer, output)

SramInv ==
    tool = "sram" /\ pc = "save" =>
        buffer = MaxCharacters /\ \E dump : output = SramFormat(dump)

StringsInv ==
    tool = "text" =>
        /\ pc \in {"lex", "format"} => CountsInv
        /\ pc = "save" =>
              /\ IsText(string_array.strings, buffer, output)
              /\ ~irregular =>
                    \A n \in DOMAIN string_array.strings : Within(string_array.strings[n].text)

OutputInv == ImageInv /\ FontInv /\ SramInv /\ StringsInv
-----------------------------------------------------------------------------
(* Every step keeps it. *)

(* A name that was given on the command line has a length. *)
LEMMA NamesAreMeasured ==
    ASSUME NEW list, Main(list), pc' = "load", Measured(list),
           NEW option,
           \A arguments : Parse(list, arguments).status = "ok" =>
               option \in DOMAIN Parse(list, arguments).values
    PROVE  NameOf(option)' \in Int
<1>1. PICK arguments \in CommandLines :
          Parse(list, arguments).status = "ok" /\ parameters' = Parse(list, arguments).values
  BY DEF Main, Finish
<1>2. option \in DOMAIN parameters'
  BY <1>1
<1>3. parameters'[option] \in DOMAIN ParameterCharacters
  BY <1>1, <1>2 DEF Measured
<1>. QED
  BY <1>3, ToolAssumption DEF NameOf

LEMMA ImageMainOutput == tool = "image" /\ ImageMain => ImageInv'
<1>. SUFFICES ASSUME tool = "image", ImageMain PROVE ImageInv'
  OBVIOUS
<1>1. CASE pc' = "load"
  <2>1. \A arguments : Parse(ImageArguments, arguments).status = "ok" =>
            {"input", "output", "name_pixels", "name_color_table"}
                \subseteq DOMAIN Parse(ImageArguments, arguments).values
    BY ParsedIsGiven
  <2>2. \A option \in {"name_pixels", "name_color_table"} : NameOf(option)' \in Int
    <3>1. ASSUME NEW option \in {"name_pixels", "name_color_table"}
          PROVE  NameOf(option)' \in Int
      <4>1. \A arguments : Parse(ImageArguments, arguments).status = "ok" =>
                option \in DOMAIN Parse(ImageArguments, arguments).values
        BY <2>1
      <4>2. Main(ImageArguments) /\ Measured(ImageArguments)
        BY ImageCompilerAssumption DEF ImageMain
      <4>. QED
        BY <1>1, <4>1, <4>2, NamesAreMeasured
    <3>. QED
      BY <3>1
  <2>. QED
    BY <1>1, <2>2 DEF ImageInv, NameOf
<1>2. CASE pc' = "display"
  BY <1>2 DEF ImageInv
<1>. QED
  BY <1>1, <1>2 DEF ImageMain, Main, Finish

LEMMA ImageFormatOutput == tool = "image" /\ ImageInv /\ ImageFormat => ImageInv'
<1>. SUFFICES ASSUME tool = "image", ImageInv, ImageFormat PROVE ImageInv'
  OBVIOUS
<1>1. /\ NameOf("name_pixels") \in Int /\ NameOf("name_color_table") \in Int
      /\ input \in Images /\ encoded = Encode(input) /\ Encode(input).status = "ok"
      /\ UNCHANGED input
  BY DEF ImageFormat, ImageInv
<1>2. CASE /\ buffer' = ImageLength(Compress(encoded.pixel_tuples), NameOf("name_pixels"),
                                    NameOf("name_color_table"))
           /\ output' = GenerateImage(Compress(encoded.pixel_tuples), encoded.color_table,
                                      NameOf("name_pixels"), NameOf("name_color_table"))
           /\ pc' = "save"
  <2>1. IsPicture(input, buffer', output')
    BY <1>1, <1>2, Zenon DEF IsPicture
  <2>. QED
    BY <1>1, <1>2, <2>1, Zenon DEF ImageInv
<1>3. CASE Finish("out_of_memory")
  BY <1>3 DEF Finish, ImageInv
<1>. QED
  BY <1>2, <1>3 DEF ImageFormat, NameOf

LEMMA ImageOutput == tool = "image" /\ ImageInv /\ ImageCompilerNext => ImageInv'
<1>. SUFFICES ASSUME tool = "image", ImageInv, ImageCompilerNext PROVE ImageInv'
  OBVIOUS
<1>1. CASE ImageLoad
  BY <1>1 DEF ImageLoad, Load, Finish, ImageInv, NameOf
<1>2. CASE ImageEncode
  BY <1>2 DEF ImageEncode, Finish, ImageInv, NameOf
<1>3. CASE ImageSave
  BY <1>3 DEF ImageSave, Save, Finish, ImageInv
<1>4. CASE ImageDisplay
  BY <1>4 DEF ImageDisplay, Display, ImageInv
<1>. QED
  BY <1>1, <1>2, <1>3, <1>4, ImageMainOutput, ImageFormatOutput DEF ImageCompilerNext

LEMMA FontMainOutput == tool = "font" /\ FontMain => FontInv'
<1>. SUFFICES ASSUME tool = "font", FontMain PROVE FontInv'
  OBVIOUS
<1>1. CASE pc' = "load"
  <2>1. \A arguments : Parse(FontArguments, arguments).status = "ok" =>
            "name" \in DOMAIN Parse(FontArguments, arguments).values
    BY ParsedIsGiven
  <2>2. Main(FontArguments) /\ Measured(FontArguments)
    BY FontCompilerAssumption DEF FontMain
  <2>3. NameOf("name")' \in Int
    BY <1>1, <2>1, <2>2, NamesAreMeasured
  <2>. QED
    BY <1>1, <2>3 DEF FontInv, NameOf
<1>2. CASE pc' = "display"
  BY <1>2 DEF FontInv
<1>. QED
  BY <1>1, <1>2 DEF FontMain, Main, Finish

LEMMA FontParseOutput == tool = "font" /\ FontInv /\ FontParse => FontInv'
<1>. SUFFICES ASSUME tool = "font", FontInv, FontParse PROVE FontInv'
  OBVIOUS
<1>1. NameOf("name") \in Int /\ input \in FontImages /\ UNCHANGED input
  BY DEF FontParse, FontInv
<1>2. CASE /\ Len(input) = FontPixels
           /\ buffer' = FontLength(NameOf("name")) /\ output' = GenerateFont(input, NameOf("name"))
           /\ pc' = "save"
  <2>1. IsFont(input, buffer', output')
    BY <1>1, <1>2, Zenon DEF IsFont
  <2>. QED
    BY <1>1, <1>2, <2>1, Zenon DEF FontInv
<1>3. CASE pc' = "display"
  BY <1>3 DEF FontInv
<1>. QED
  BY <1>2, <1>3 DEF FontParse, Finish, NameOf

LEMMA FontOutput == tool = "font" /\ FontInv /\ FontCompilerNext => FontInv'
<1>. SUFFICES ASSUME tool = "font", FontInv, FontCompilerNext PROVE FontInv'
  OBVIOUS
<1>1. CASE FontLoad
  BY <1>1 DEF FontLoad, Load, Finish, FontInv, NameOf
<1>2. CASE FontSave
  BY <1>2 DEF FontSave, Save, Finish, FontInv
<1>3. CASE FontDisplay
  BY <1>3 DEF FontDisplay, Display, FontInv
<1>. QED
  BY <1>1, <1>2, <1>3, FontMainOutput, FontParseOutput DEF FontCompilerNext

LEMMA SramOutput == tool = "sram" /\ SramInv /\ SramDumperNext => SramInv'
BY DEF SramDumperNext, SramMain, SramLoad, SramParseAndFormat, SramSave, SramDisplay, Main, Load,
       Save, Display, Finish, SramInv

LEMMA TextLexerParseOutput == tool = "text" /\ StringsInv /\ TextLexerParse => StringsInv'
<1>. SUFFICES ASSUME tool = "text", StringsInv, TextLexerParse PROVE StringsInv'
  OBVIOUS
<1>1. CASE LexerBegin /\ pc' = "lex"
  <2>1. /\ func' = "initial"
        /\ string_array' = [strings |-> <<>>, ptr |-> "live", capacity |-> 1]
    BY <1>1 DEF LexerBegin
  <2>2. Top' = 0 /\ ~InEntry'
    BY <2>1 DEF Top, InEntry, EntryStates, CommentStates
  <2>3. CountsInv'
    BY <2>2 DEF CountsInv
  <2>. QED
    BY <1>1, <2>3 DEF StringsInv
<1>2. CASE Finish("out_of_memory")
  BY <1>2 DEF Finish, StringsInv
<1>. QED
  BY <1>1, <1>2 DEF TextLexerParse

LEMMA TextLexerExitOutput == tool = "text" /\ StringsInv /\ TextLexerExit => StringsInv'
<1>. SUFFICES ASSUME tool = "text", StringsInv, TextLexerExit PROVE StringsInv'
  OBVIOUS
<1>1. /\ pc = "lex" /\ CountsInv /\ pc' \in {"format", "display"}
      /\ UNCHANGED <<func, state_prev, string_array, parse_status>>
  BY DEF TextLexerExit, StringsInv, lexerVars, memory, Finish
<1>2. CountsInv'
  BY <1>1 DEF CountsInv, Counted, Top, InEntry, Unfinished
<1>. QED
  BY <1>1, <1>2 DEF StringsInv

(* The formatter has whole texts only. *)
LEMMA TextFormatOutput == tool = "text" /\ TextInv /\ StringsInv /\ TextFormat => StringsInv'
<1>. SUFFICES ASSUME tool = "text", TextInv, StringsInv, TextFormat PROVE StringsInv'
  OBVIOUS
<1>. DEFINE strings == string_array.strings
<1>1. /\ LexerTypes /\ SlicesInv /\ CountsInv /\ ~Damaged /\ func = "exited" /\ parse_status = "ok"
      /\ UNCHANGED <<tool, file, string_array, irregular>>
  BY DEF TextFormat, TextInv, StringsInv, lexerVars, memory
<1>2. /\ strings \in Seq([Fields -> Slice]) /\ DOMAIN strings = 1 .. Top
      /\ \A n \in 1 .. Top : strings[n] # Lost /\ strings[n] \in [Fields -> Slice]
      /\ "text" \in Fields
  BY <1>1 DEF LexerTypes, Top, Damaged, Fields
<1>3. \A n \in DOMAIN strings : strings[n].text.characters > 0
  <2>1. ~Unfinished
    BY <1>1 DEF Unfinished, InEntry, EntryStates, CommentStates
  <2>2. ASSUME NEW n \in 1 .. Top PROVE strings[n]["text"].characters > 0
    <3>1. Counted(n)
      BY <1>1, <1>2 DEF CountsInv
    <3>2. strings[n]["text"].characters \in Nat /\ strings[n]["text"].characters # 0
      BY <1>2, <2>1, <3>1 DEF Counted
    <3>. QED
      BY <3>2
  <2>. QED
    BY <1>2, <2>2
<1>4. ASSUME ~irregular, NEW n \in DOMAIN strings PROVE Within(strings[n].text)
  <2>1. Placed("text", strings[n]["text"])
    BY <1>1, <1>2, <1>4, ValuesArePlaced
  <2>2. strings[n]["text"] \in Slice
    BY <1>2, <1>4
  <2>. QED
    BY <1>1, <2>1, <2>2, PlacedIsWithin
<1>5. CASE pc' = "save" /\ buffer' = TextLength(strings) /\ output' = GenerateText(strings)
  <2>1. IsText(strings, buffer', output')
    BY <1>2, <1>3, <1>5 DEF IsText
  <2>2. (~irregular => \A n \in DOMAIN strings : Within(strings[n].text))'
    BY <1>1, <1>4 DEF Within
  <2>3. buffer' = TextLength(strings)' /\ output' = GenerateText(strings)'
    BY <1>1, <1>5
       DEF TextLength, StringLength, StringDataLength, IntegerLength, DefineLength, GenerateText,
           GenerateString, StringData, GenerateInteger, CharactersOf
  <2>4. IsText(strings, buffer, output)'
    BY <1>1, <2>1, <2>3 DEF IsText
  <2>. QED
    BY <1>5, <2>2, <2>4 DEF StringsInv
<1>6. CASE Finish("out_of_memory")
  BY <1>6 DEF Finish, StringsInv
<1>. QED
  BY <1>5, <1>6 DEF TextFormat

LEMMA TextOutput ==
    tool = "text" /\ HeapInv /\ TextInv /\ StringsInv /\ TextCompilerNext => StringsInv'
<1>. SUFFICES ASSUME tool = "text", HeapInv, TextInv, StringsInv, TextCompilerNext
              PROVE  StringsInv'
  OBVIOUS
<1>1. CASE TextMain \/ TextLoad \/ TextSave \/ TextDisplay
  BY <1>1
     DEF TextMain, TextLoad, TextSave, TextDisplay, Main, Load, Save, Display, Finish, StringsInv
<1>2. CASE TextLexerStep
  <2>1. LexerInv /\ CountsInv /\ LexerStep /\ pc = "lex" /\ pc' = pc
    BY <1>2 DEF TextLexerStep, HeapInv, LexerInv, StringsInv
  <2>2. CountsInv'
    BY <2>1, LexerCounts
  <2>. QED
    BY <2>1, <2>2 DEF StringsInv
<1>3. CASE TextCrash
  BY <1>3 DEF TextCrash, StringsInv
<1>. QED
  BY <1>1, <1>2, <1>3, TextLexerParseOutput, TextLexerExitOutput, TextFormatOutput
     DEF TextCompilerNext

LEMMA OutputStays == OutputInv /\ UNCHANGED vars => OutputInv'
<1>. SUFFICES ASSUME OutputInv, UNCHANGED vars PROVE OutputInv'
  OBVIOUS
<1>1. /\ UNCHANGED <<tool, pc, parameters, input, encoded, buffer, output>>
      /\ UNCHANGED <<file, func, state_prev, string_array, parse_status, irregular>>
  BY DEF vars, toolVars, lexerVars, memory
<1>2. ImageInv' /\ FontInv' /\ SramInv'
  BY <1>1 DEF OutputInv, ImageInv, FontInv, SramInv, IsPicture, IsFont, NameOf
<1>3. CountsInv => CountsInv'
  BY <1>1 DEF CountsInv, Counted, Top, InEntry, Unfinished
<1>4. IsText(string_array.strings, buffer, output) => IsText(string_array.strings, buffer, output)'
  BY <1>1
     DEF IsText, TextLength, StringLength, StringDataLength, IntegerLength, DefineLength,
         GenerateText, GenerateString, StringData, GenerateInteger, CharactersOf
<1>5. StringsInv'
  BY <1>1, <1>3, <1>4 DEF OutputInv, StringsInv, Within
<1>. QED
  BY <1>2, <1>5 DEF OutputInv

(* What is saved is what was made of the input, through every step of the four
   programs. *)
THEOREM OutputInvariantHolds == Spec => []OutputInv
<1>1. Init => OutputInv
  BY DEF Init, ToolInit, OutputInv, ImageInv, FontInv, SramInv, StringsInv
<1>2. HeapInv /\ TextInv /\ OutputInv /\ [Next]_vars => OutputInv'
  <2>. SUFFICES ASSUME HeapInv, TextInv, OutputInv, [Next]_vars PROVE OutputInv'
    OBVIOUS
  <2>1. CASE tool = "text" /\ TextCompilerNext
    <3>1. StringsInv' /\ tool' = "text"
      BY <2>1, NextKeepsTool, TextOutput DEF OutputInv
    <3>. QED
      BY <3>1 DEF OutputInv, ImageInv, FontInv, SramInv
  <2>2. CASE tool = "image" /\ ImageCompilerNext
    <3>1. ImageInv' /\ tool' = "image"
      BY <2>2, NextKeepsTool, ImageOutput DEF OutputInv
    <3>. QED
      BY <3>1 DEF OutputInv, StringsInv, FontInv, SramInv
  <2>3. CASE tool = "font" /\ FontCompilerNext
    <3>1. FontInv' /\ tool' = "font"
      BY <2>3, NextKeepsTool, FontOutput DEF OutputInv
    <3>. QED
      BY <3>1 DEF OutputInv, ImageInv, StringsInv, SramInv
  <2>4. CASE tool = "sram" /\ SramDumperNext
    <3>1. SramInv' /\ tool' = "sram"
      BY <2>4, NextKeepsTool, SramOutput DEF OutputInv
    <3>. QED
      BY <3>1 DEF OutputInv, ImageInv, FontInv, StringsInv
  <2>. QED
    BY <2>1, <2>2, <2>3, <2>4, OutputStays DEF Next
<1>. QED
  BY <1>1, <1>2, HeapInvariantHolds, TextInvariantHolds, PTL DEF Spec
-----------------------------------------------------------------------------
(* What is written is as long as it was measured: whatever the file and the command
   line, the buffer for the output is as large as the text, picture or font that is
   written to it, the compressed picture fits its array, and the text of a dump its
   buffer (formatter.c, compressor.h, generator.c, format.h). *)
THEOREM OutputsFit == Spec => []OutputFits
<1>1. HeapInv /\ OutputInv => OutputFits
  <2>. SUFFICES ASSUME HeapInv, OutputInv, pc = "save"
                PROVE  IF tool = "sram" THEN SramWritten(output) <= buffer
                       ELSE /\ Written(output) = buffer
                            /\ tool = "image" => Len(Values(output)) - Colors <= MaxBytes
    BY DEF OutputFits
  <2>1. tool \in {"text", "image", "font", "sram"}
    BY DEF HeapInv, ToolTypes
  <2>2. CASE tool = "sram"
    <3>1. buffer = MaxCharacters /\ \E dump : output = SramFormat(dump)
      BY <2>2 DEF OutputInv, SramInv
    <3>. QED
      BY <2>2, <3>1, DumpFits
  <2>3. CASE tool = "text"
    <3>1. IsText(string_array.strings, buffer, output)
      BY <2>3 DEF OutputInv, StringsInv
    <3>2. Written(output) = buffer
      BY <3>1, TextIsWritten DEF IsText
    <3>. QED
      BY <2>3, <3>2
  <2>4. CASE tool = "image"
    <3>1. input \in Seq(Pixel) /\ Encode(input).status = "ok" /\ IsPicture(input, buffer, output)
      BY <2>4, ImageCompilerAssumption DEF OutputInv, ImageInv, Pixel
    <3>2. Written(output) = buffer /\ Len(Values(output)) - Colors <= MaxBytes
      BY <3>1, PictureIsWritten DEF IsPicture
    <3>. QED
      BY <2>4, <3>2
  <2>5. CASE tool = "font"
    <3>1. input \in FontImageType /\ IsFont(input, buffer, output)
      BY <2>5, FontCompilerAssumption DEF OutputInv, FontInv, FontImageType
    <3>2. Written(output) = buffer
      BY <3>1, FontIsWritten DEF IsFont
    <3>. QED
      BY <2>5, <3>2
  <2>. QED
    BY <2>1, <2>2, <2>3, <2>4, <2>5
<1>. QED
  BY <1>1, HeapInvariantHolds, OutputInvariantHolds, PTL

(* The three parts of the next theorem. *)
LEMMA TextIsRead ==
    ASSUME OutputInv, tool = "text", pc = "save", ~irregular
    PROVE  LET codes(text) == [i \in 1 .. text.characters |->
                                  StringCharacterConvert(file[text.ptr + i - 1])]
               data(string) == Append(codes(string.text), string.text.characters)
           IN  Values(output) = FlattenSeq([n \in DOMAIN string_array.strings |->
                                               data(string_array.strings[n])])
<1>. DEFINE strings == string_array.strings
            codes(text) == [i \in 1 .. text.characters |->
                               StringCharacterConvert(file[text.ptr + i - 1])]
            data(string) == Append(codes(string.text), string.text.characters)
<1>1. /\ IsText(strings, buffer, output)
      /\ \A n \in DOMAIN strings : Within(strings[n].text)
  BY DEF OutputInv, StringsInv
<1>2. Values(output) = FlattenSeq([n \in DOMAIN strings |-> DataOf(strings[n])])
  BY <1>1, TextIsWritten DEF IsText
<1>3. ASSUME NEW n \in DOMAIN strings PROVE DataOf(strings[n]) = data(strings[n])
  <2>1. Within(strings[n].text)
    BY <1>1
  <2>2. \A i \in 1 .. strings[n].text.characters :
            CharactersOf(strings[n].text)[i] = file[strings[n].text.ptr + i - 1]
    BY <2>1 DEF Within, CharactersOf
  <2>3. Codes(strings[n].text) = codes(strings[n].text)
    BY <2>2 DEF Codes
  <2>. QED
    BY <2>3 DEF DataOf
<1>4. [n \in DOMAIN strings |-> DataOf(strings[n])] = [n \in DOMAIN strings |-> data(strings[n])]
  BY <1>3
<1>. QED
  BY <1>2, <1>4

LEMMA LogoIsRead ==
    ASSUME OutputInv, tool = "image", pc = "save"
    PROVE  Logo = [i \in DOMAIN input |-> Quantised(input[i])]
<1>1. input \in Seq(Pixel) /\ Encode(input).status = "ok" /\ IsPicture(input, buffer, output)
  BY ImageCompilerAssumption DEF OutputInv, ImageInv, Pixel
<1>. QED
  BY <1>1, PictureIsWritten DEF IsPicture, Logo

LEMMA FontIsRead ==
    ASSUME OutputInv, tool = "font", pc = "save",
           \A i \in DOMAIN input : input[i] \in {White, Black},
           NEW c \in 0 .. FontCharacters - 1, NEW row \in 0 .. CharacterRows - 1,
           NEW column \in 0 .. CharacterColumns - 1
    PROVE  FontmapDecompress(Values(output))[(c * CharacterRows + row) * CharacterColumns + column]
               = (IF FontImage(c, row, column) = White THEN 1 ELSE 0)
<1>1. input \in FontImageType /\ IsFont(input, buffer, output) /\ Len(input) = FontPixels
  BY FontCompilerAssumption DEF OutputInv, FontInv, FontImageType
<1>2. Values(output) = FontBytesOf(input)
  BY <1>1, FontIsWritten DEF IsFont
<1>3. FontmapDecompress(FontBytesOf(input))[(c * CharacterRows + row) * CharacterColumns + column]
          = EncodePixel(input, c, row, column)
  BY <1>1, FontIsShown
<1>4. /\ FontImage(c, row, column) = input[PixelIndex(c, row, column) + 1]
      /\ PixelIndex(c, row, column) \in 0 .. FontPixels - 1
  BY PlaceIs DEF FontImage
<1>5. input[PixelIndex(c, row, column) + 1] \in {White, Black}
  <2>1. DOMAIN input = 1 .. FontPixels /\ FontPixels \in Nat
    BY <1>1, FontSizes DEF FontImageType
  <2>2. PixelIndex(c, row, column) + 1 \in 1 .. FontPixels
    BY <1>4, <2>1
  <2>. QED
    BY <2>1, <2>2
<1>6. EncodePixel(input, c, row, column)
          = (IF input[PixelIndex(c, row, column) + 1] = White THEN 1 ELSE 0)
  BY <1>1, <1>5, PixelIsEncoded
<1>. QED
  BY <1>2, <1>3, <1>4, <1>6

(* What is written for stage 1 is what was read, whatever the file: the codes of the
   characters of each text between its quotes, a picture that is decompressed to the
   colors of its pixels, and a font with a bit for each white pixel where it is black
   and white (formatter.c and encoder.c, compressor.c, logo.c, generator.c, fbcon.c). *)
THEOREM SourcesAreRead == Spec => []SourcesAreAsRead
<1>1. OutputInv => SourcesAreAsRead
  <2>. SUFFICES ASSUME OutputInv PROVE SourcesAreAsRead
    OBVIOUS
  <2>. QED
    BY TextIsRead, LogoIsRead, FontIsRead DEF SourcesAreAsRead
<1>. QED
  BY <1>1, OutputInvariantHolds, PTL
=============================================================================
