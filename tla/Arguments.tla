------------------------------ MODULE Arguments ------------------------------
(* The library's argument parser (lib/src/tux64/arguments.c), which reads a   *)
(* command line or a configuration file against a list of options.            *)
(*                                                                            *)
(* An argument is a record: its prefix ("long", "short", "none", or "blank"   *)
(* for an empty or comment line of a file), the option its identifier names   *)
(* ("?" if none does), its parameter (Nothing if there is none, or it is      *)
(* empty), and text, what the whole argument is when it is taken as the       *)
(* parameter of the one before.                                               *)
(*                                                                            *)
(* A list gives its required options in order, its optional ones, and by what *)
(* parser each is read: flags take no parameter, menus end the program, and   *)
(* checked options refuse some parameters.                                    *)
EXTENDS Integers, Sequences, TLC

CONSTANTS
    Bits,       \* 8, the bits of a byte of the required storage
    Nothing,    \* the empty parameter
    Invalid     \* the parameters a checked option refuses

ASSUME ArgumentsAssumption == Bits \in Nat \ {0} /\ Nothing \notin Invalid

Options(list) == {list.required[i] : i \in DOMAIN list.required} \cup list.optional

(* What an option's parser says of a parameter.                               *)
ParseOption(list, option, parameter) ==
    CASE option \in list.flags /\ parameter # Nothing -> "parameter_unexpected"
      [] option \in list.menus /\ parameter = Nothing -> "exit"
      [] option \in list.flags \ list.menus /\ parameter = Nothing -> "ok"
      [] option \notin list.flags /\ parameter = Nothing -> "parameter_missing"
      [] option \in list.checked /\ parameter \in Invalid -> "parameter_invalid"
      [] OTHER -> "ok"

(* An option that misses its parameter takes the next argument for it, unless *)
(* that has a prefix.                                                         *)
Digest(list, arguments, i) ==
    LET option == arguments[i].option
        status == ParseOption(list, option, arguments[i].parameter)
        more == i < Len(arguments)
        next == arguments[i + 1].text
    IN  IF status = "parameter_missing" /\ more /\ arguments[i + 1].prefix = "none"
        THEN [status |-> ParseOption(list, option, next), parameter |-> next, next |-> i + 2]
        ELSE [status |-> status, parameter |-> arguments[i].parameter, next |-> i + 1]

ParseArgument(list, arguments, i) ==
    CASE arguments[i].prefix = "none" ->
            [status |-> "not_an_argument", parameter |-> Nothing, next |-> i + 1]
      [] arguments[i].prefix # "none" /\ arguments[i].option \notin Options(list) ->
            [status |-> "unknown_identifier", parameter |-> Nothing, next |-> i + 1]
      [] OTHER -> Digest(list, arguments, i)

(* The required storage: a bit for each required option that was seen.        *)
Storage(list, seen) ==
    [byte \in 0 .. (Len(list.required) + Bits) \div Bits - 1 |->
        {bit \in 0 .. Bits - 1 : byte * Bits + bit + 1 \in DOMAIN list.required
                                    /\ list.required[byte * Bits + bit + 1] \in seen}]

(* Full bytes are compared at once, then the bits that remain.  The first     *)
(* clear bit of the first byte that lacks one names the missing option.       *)
CheckRequired(list, storage) ==
    LET full == Len(list.required) \div Bits
        wanted == [byte \in DOMAIN storage |->
                      IF byte < full THEN 0 .. Bits - 1
                      ELSE 0 .. (Len(list.required) % Bits) - 1]
        lacking == {byte \in DOMAIN storage : wanted[byte] \ storage[byte] # {}}
        Least(S) == CHOOSE n \in S : \A k \in S : n <= k
        byte == Least(lacking)
    IN  IF lacking = {} THEN [status |-> "ok", missing |-> "none"]
        ELSE [status |-> "required_missing", missing |->
                list.required[byte * Bits + Least(wanted[byte] \ storage[byte]) + 1]]

(* The parse of a whole list of arguments.  The last parameter given to an    *)
(* option is the one it keeps.  The first error ends the parse.               *)
Parse(list, input) ==
    LET arguments == SelectSeq(input, LAMBDA argument : argument.prefix # "blank")
        From[i \in 1 .. Len(arguments) + 1] ==
            IF i > Len(arguments) THEN [status |-> "ok", values |-> <<>>]
            ELSE LET this == ParseArgument(list, arguments, i)
                     rest == From[this.next]
                 IN  IF this.status # "ok" THEN [status |-> this.status, values |-> <<>>]
                     ELSE [rest EXCEPT !.values = @ @@ (arguments[i].option :> this.parameter)]
        required == CheckRequired(list, Storage(list, DOMAIN From[1].values))
    IN  IF From[1].status # "ok"
        THEN [status |-> From[1].status, values |-> <<>>, missing |-> "none"]
        ELSE [status |-> required.status, values |-> From[1].values, missing |-> required.missing]
=============================================================================
