------------------------------- MODULE Tool -------------------------------
(* What the three resource compilers and the SRAM dumper have in common: each *)
(* parses its command line, loads one file, turns it into another and saves   *)
(* that.  Their main functions are copies of each other which differ in what  *)
(* each step frees, and in what is left to free when one fails.               *)
EXTENDS Arguments

CONSTANTS
    CommandLines,   \* sequences of arguments a tool is called with
    MaxArguments,   \* TUX64_*_ARGC_MAX, less one for argv[0]
    ParameterCharacters     \* a function from parameters to their lengths

Allocations == {"input", "strings", "output"}
Failures == {"out_of_memory", "fs_error"}

VARIABLES
    tool,           \* which of the four programs runs
    pc,
    parameters,     \* the values of the command line's options
    heap,           \* the state of each allocation
    misuse,         \* was memory used or freed that is not there, read beyond what is there, an
                    \* option used that was not given, or code reached that is marked unreachable?
    input,          \* the loaded file
    encoded,        \* what the image compiler made of it so far
    buffer,         \* the size of the buffer for the output
    output,
    status,         \* the exit status
    reason          \* the status of the file system a message shows

toolVars == <<tool, pc, parameters, heap, misuse, input, encoded, buffer, output, status, reason>>

ToolInit ==
    /\ pc = "main" /\ parameters = <<>>
    /\ heap = [a \in Allocations |-> "none"] /\ misuse = FALSE
    /\ input = <<>> /\ encoded = <<>> /\ buffer = 0 /\ output = <<>>
    /\ status = "none" /\ reason = "ok"

(* Both menus end the program; every other option takes any parameter.        *)
List(required, optional) ==
    [required |-> required, optional |-> optional \cup {"help", "version"},
     flags |-> {"help", "version"}, menus |-> {"help", "version"}, checked |-> {}]

(* The length of each name a command line gives is known.                     *)
Measured(list) ==
    \A arguments \in CommandLines :
        LET result == Parse(list, arguments)
        IN  result.status = "ok" =>
                \A option \in DOMAIN result.values :
                    result.values[option] \in DOMAIN ParameterCharacters

ASSUME ToolAssumption == ParameterCharacters \in [DOMAIN ParameterCharacters -> Nat]

Live == {a \in Allocations : heap[a] = "live"}
Misuse(wrong) == misuse' = (misuse \/ wrong)
Wrong(options, touched) == ~(options \subseteq DOMAIN parameters) \/ ~(touched \subseteq Live)
Change(freed, allocated) ==
    heap' = [a \in Allocations |->
                IF a \in freed THEN "freed" ELSE IF a \in allocated THEN "live" ELSE heap[a]]
Use(options, read, freed, allocated) ==
    Misuse(Wrong(options, read \cup freed)) /\ Change(freed, allocated)

Finish(result) == status' = result /\ pc' = "display"
-----------------------------------------------------------------------------
(* main, tux64_*_main: without arguments the menu is printed.                 *)
Main(list) ==
    /\ pc = "main"
    /\ \E arguments \in CommandLines :
        LET result == Parse(list, arguments)
            many == Len(arguments) > MaxArguments
            menu == arguments = <<>> \/ result.status = "exit"
        IN  \/ many /\ Finish("too_many_arguments") /\ UNCHANGED parameters
            \/ ~many /\ menu /\ Finish("ok") /\ UNCHANGED parameters
            \/ /\ ~many /\ ~menu /\ result.status # "ok"
               /\ Finish("arguments_parse_error") /\ UNCHANGED parameters
            \/ /\ ~many /\ ~menu /\ result.status = "ok"
               /\ parameters' = result.values /\ pc' = "load" /\ UNCHANGED status
    /\ UNCHANGED <<tool, heap, misuse, input, encoded, buffer, output, reason>>

(* The path is copied to end it with a NUL, for which there may be no memory. *)
Load ==
    /\ pc = "load"
    /\ \/ Use({"input"}, {}, {}, {"input"}) /\ pc' = "compile" /\ UNCHANGED <<status, reason>>
       \/ Use({"input"}, {}, {}, {}) /\ Finish("out_of_memory") /\ UNCHANGED reason
       \/ Use({"input"}, {}, {}, {}) /\ Finish("fs_error") /\ reason' = "not_found"
    /\ UNCHANGED <<tool, parameters, encoded, buffer, output>>

(* The tools differ in what they free when the copy of the path fails, when   *)
(* the save fails, and when it is done, and in the error they then report.    *)
Save(read, unless_copied, unless_saved, when_saved, reported) ==
    /\ pc = "save"
    /\ \/ Use({"output"}, {}, unless_copied, {}) /\ Finish("out_of_memory") /\ UNCHANGED reason
       \/ /\ Use({"output"}, read, unless_saved, {})
          /\ \/ Finish("out_of_memory") /\ UNCHANGED reason
             \/ Finish("fs_error") /\ reason' = reported
       \/ Use({"output"}, read, when_saved, {}) /\ Finish("ok") /\ UNCHANGED reason
    /\ UNCHANGED <<tool, parameters, input, encoded, buffer, output>>

(* tux64_fs_log_result takes a status of success for unreachable.             *)
Display(read, freed) ==
    /\ pc = "display"
    /\ Misuse(Wrong({}, read \cup freed) \/ (status = "fs_error" /\ reason = "ok"))
    /\ Change(freed, {})
    /\ pc' = "exit"
    /\ UNCHANGED <<tool, parameters, input, encoded, buffer, output, status, reason>>
=============================================================================
