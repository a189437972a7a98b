------------------------------ MODULE Debugger ------------------------------
(***************************************************************************)
(* class Debugger (debugger.h, debugger.cpp), through which main runs      *)
(* every program: run is the loop, go_to_debugger the prompt that a DBG    *)
(* instruction opens.                                                      *)
(*                                                                         *)
(* A line typed at the prompt is a name and its arguments, each of them    *)
(* the number that hex_to_number reads from it, which is 0 for a word that *)
(* is no number; a blank line has the name "".  What the commands print is *)
(* left out, and so is the exit of the process after run has returned.     *)
(***************************************************************************)
EXTENDS Cpu

CONSTANT Lines    \* the lines that the user may type

ASSUME LinesAssumption == Lines \subseteq [name : STRING, args : Seq(Nat)]

VARIABLES
  phase,    \* "run": in run's loop, "prompt": in go_to_debugger, "returned" from
            \* run, "exited" by exit(0), "crashed" on an access outside the memory
  command,  \* the local variable of go_to_debugger
  eof       \* std::cin has reached the end of the input

debuggerVars == <<cpuVars, phase, command, eof>>

Blank == [name |-> "", args |-> <<>>]

DebuggerInit == /\ Init
                /\ phase = "run"
                /\ command = Blank
                /\ eof = FALSE

-----------------------------------------------------------------------------
(* Debugger::run *)

\* An opcode the table does not have leaves the loop running.
RunStep ==
  /\ phase = "run"
  /\ Running
  /\ step
  /\ phase' = CASE ret' = "GoToDebugger" -> "prompt"
                [] ret' = "Stop"         -> "returned"
                [] OTHER                 -> "run"
  /\ command' = Blank
  /\ UNCHANGED eof

\* A step that reads or writes outside memory_, and there is nothing there
RunCrashes ==
  /\ phase = "run"
  /\ Running
  /\ AccessesOutside
  /\ phase' = "crashed"
  /\ UNCHANGED <<cpuVars, command, eof>>

EndOfMemory ==
  /\ phase = "run"
  /\ ~Running
  /\ phase' = "returned"
  /\ UNCHANGED <<cpuVars, command, eof>>

-----------------------------------------------------------------------------
(* Debugger::go_to_debugger: one iteration of its loop *)

\* The command that a name stands for
parse_name(name) ==
  CASE name \in {"dump", "d"}      -> "DUMP"
    [] name \in {"get", "g"}       -> "GET"
    [] name \in {"exit", "e", "q"} -> "EXIT"
    [] name \in {"step", "s"}      -> "STEP"
    [] name \in {"continue", "c"}  -> "CONTINUE"
    [] name \in {"help", "h"}      -> "HELP"
    [] OTHER                       -> "nullopt"

\* Mutant of getline: the end of the input clears the line.
getline_clears ==
  /\ phase = "prompt"
  /\ IF eof THEN command' = Blank /\ UNCHANGED eof
            ELSE \/ command' \in Lines /\ eof' = FALSE
                 \/ command' \in Lines \cup {Blank} /\ eof' = TRUE

\* std::getline(std::cin, command): the next line, or what is left before the end
\* of the input.  Once the end has been met getline leaves command as it is.
getline ==
  /\ phase = "prompt"
  /\ IF eof THEN UNCHANGED <<command, eof>>
            ELSE \/ command' \in Lines /\ eof' = FALSE
                 \/ command' \in Lines \cup {Blank} /\ eof' = TRUE

Typed(name) == getline /\ parse_name(command'.name) = name

\* Some of the count bytes from start on are not in memory_.
ReadsOutside(start, count) == count > 0 /\ start + count > size

\* What GET makes of its arguments
GetsOutside(args) == \/ Len(args) = 1 /\ ReadsOutside(args[1], 1)
                     \/ Len(args) = 2 /\ ReadsOutside(args[1], args[2])

\* the lines that only print; an empty line does not even that
Inspect == /\ \E name \in {"nullopt", "DUMP", "GET", "HELP"} : Typed(name)
           /\ UNCHANGED <<cpuVars, phase>>

\* A read outside memory_ gives what lies there, or there is nothing there.
GetCrashes == /\ Typed("GET")
              /\ GetsOutside(command'.args)
              /\ phase' = "crashed"
              /\ UNCHANGED cpuVars

\* Mutant of StepCommand: STP does not leave the prompt.
StepCommand_after_stop == /\ Typed("STEP")
                          /\ step
                          /\ UNCHANGED phase

\* no look at the size of the memory here
StepCommand == /\ Typed("STEP")
               /\ step
               /\ phase' = IF ret' = "Stop" THEN "returned" ELSE "prompt"

StepCrashes == /\ Typed("STEP")
               /\ AccessesOutside
               /\ phase' = "crashed"
               /\ UNCHANGED cpuVars

ContinueCommand == /\ Typed("CONTINUE")
                   /\ phase' = "run"
                   /\ UNCHANGED cpuVars

ExitCommand == /\ Typed("EXIT")
               /\ phase' = "exited"
               /\ UNCHANGED cpuVars

-----------------------------------------------------------------------------

run == RunStep \/ EndOfMemory
go_to_debugger == Inspect \/ StepCommand \/ ContinueCommand \/ ExitCommand
Crashes == RunCrashes \/ GetCrashes \/ StepCrashes

DebuggerNext == run \/ go_to_debugger \/ Crashes

DebuggerSpec == DebuggerInit /\ [][DebuggerNext]_debuggerVars

(* The process is never suspended: the loop of run goes on, and a line that *)
(* is there, or the end of the input, is read.  An access outside memory_   *)
(* may always come off: fairness is of the steps that do not crash.         *)
FairDebuggerSpec == DebuggerSpec /\ WF_debuggerVars(run) /\ WF_debuggerVars(go_to_debugger)

-----------------------------------------------------------------------------
(* Properties *)

\* With debug mode off the prompt never gets in the way: a program that stops, or
\* comes to the end of a short image, makes run return, unless it ends the process
\* on the way by an access outside the image.
DebugOffEnds == ~debug ~> phase \in {"returned", "crashed"}

\* The one step that the prompt takes and CPU6502::execute would not: it does not
\* ask whether PC has left the memory.
StepsPastEnd == phase = "prompt" /\ ~Running /\ ret # "Stop" /\ step

\* Whatever the user inspects, steps and continues, the program is executed as
\* CPU6502::execute would execute it: the same steps from the same states and none
\* after STP, but for the steps past the end of a short image, which only the
\* prompt takes (debugger.cpp:99).
DebuggerImplementsExecute == Init /\ [][execute \/ StepsPastEnd]_cpuVars

\* The user's get reads outside the memory
GetOutside == parse_name(command.name) = "GET" /\ GetsOutside(command.args)

\* JMP ($FFFF), whose pointer ends in the cell behind the address space (6502cpu.cpp:143)
PointerBehindMemory == /\ Executing("JMP")
                       /\ mode = "AbsoluteIndirect"
                       /\ absolute + 1 = WordSize

\* Only the lambda of DBG, in debug mode, leads to the prompt.  And an image of the
\* whole address space has no end: run returns only after STP, the PC going on at
\* 0 behind the last cell, and no access of any instruction, with any registers, is
\* outside but the one of JMP ($FFFF), whose pointer does not wrap around; else only
\* a get of the user's crashes.
PhaseHasReason ==
  /\ phase \in {"prompt", "exited"} => debug
  /\ size >= WordSize =>
       /\ phase = "returned" => ret = "Stop"
       /\ phase = "crashed" => \/ debug /\ GetOutside
                               \/ PointerBehindMemory /\ size = WordSize

\* At the end of the input the prompt is deaf: with a command that only prints in
\* hand the program never moves again and the loop is never left, unless the
\* command is a get that crashes (debugger.cpp:36-43).
EndOfInputHangs ==
  [][/\ phase = "prompt" /\ eof
     /\ parse_name(command.name) \notin {"STEP", "CONTINUE", "EXIT"}
     => /\ UNCHANGED <<cpuVars, command, eof>>
        /\ phase' # phase => phase' = "crashed" /\ GetsOutside(command.args)]_debuggerVars

\* A last line "step" without its newline is repeated until the program stops,
\* meets an opcode that the table does not have or accesses what is not there.
LastStepRepeats ==
  (phase = "prompt" /\ eof /\ parse_name(command.name) = "STEP")
    ~> \/ phase = "returned" /\ ret = "Stop"
       \/ ret = "UnknownInstruction"
       \/ phase = "crashed"
=============================================================================
