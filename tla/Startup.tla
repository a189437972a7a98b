------------------------------- MODULE Startup -------------------------------
(***************************************************************************)
(* main (main.cpp): the image is imported, the CPU is reset, the arguments *)
(* are read, and the debugger runs the program.  A whole invocation of the *)
(* simulator, from the shell's command line to the end of the process.     *)
(*                                                                         *)
(* argv holds the words after the name of the program.  The loop over them *)
(* creates the debugger, runs it and returns in its body, so that it only  *)
(* ever sees argv[1], the path of the image.  --verbose only lengthens the *)
(* log.                                                                    *)
(***************************************************************************)
EXTENDS Debugger

CONSTANTS
  Files,         \* the files that can be read: a function from paths to images
  CommandLines,  \* the command lines that may be given
  Numbers,       \* the words std::stoul(word, nullptr, 16) converts, and to what
  TooLarge       \* the words for which it throws std::out_of_range; it throws
                 \* std::invalid_argument for all others

ASSUME FilesAssumption        == \A path \in DOMAIN Files : Files[path] \in Images
ASSUME CommandLinesAssumption == CommandLines \subseteq Seq(STRING)
\* The sessions that main may begin are those of any debug mode and print device.
ASSUME SessionsAssumption     == PrintDevices = Word /\ DebugModes = BOOLEAN
ASSUME NumbersAssumption      == \A word \in DOMAIN Numbers : Numbers[word] \in Nat

VARIABLES
  argv,   \* the arguments
  stage   \* "start", "imported", "constructed", "run": in Debugger::run, "failed":
          \* main returned 1, "aborted" by an exception nobody catches, "crashed"

startupVars == <<debuggerVars, argv, stage>>

DEFAULT_OUTPUT_ADDRESS == \hFFFB

\* Before the constructor has run the CPU does not exist: its variables hold zeros.
StartupInit ==
  /\ argv \in CommandLines
  /\ stage = "start"
  /\ mem = <<>> /\ size = 0 /\ print_device_addr = DEFAULT_OUTPUT_ADDRESS /\ out = <<>>
  /\ A = 0 /\ X = 0 /\ Y = 0 /\ S = 0 /\ P = {} /\ PC = 0
  /\ debug = FALSE
  /\ ret = "OK"
  /\ phase = "run" /\ command = Blank /\ eof = FALSE

-----------------------------------------------------------------------------

\* return 1, and an exception that leaves main
Leave(how) == stage' = how /\ UNCHANGED <<debuggerVars, argv>>

\* The usage is printed.
Usage == /\ stage = "start"
         /\ argv = <<>>
         /\ Leave("failed")

\* GP_Memory::import of a file: file_size or the check of the stream throws,
ImportFails == /\ stage = "start"
               /\ argv # <<>>
               /\ argv[1] \notin DOMAIN Files
               /\ Leave("failed")

\* or every byte of the file is pushed back.
import == /\ stage = "start"
          /\ argv # <<>>
          /\ argv[1] \in DOMAIN Files
          /\ mem' = Files[argv[1]].bytes
          /\ size' = Files[argv[1]].size
          /\ stage' = "imported"
          /\ UNCHANGED <<registers, debug, ret, print_device_addr, out, phase, command, eof, argv>>

\* The constructor of CPU6502 reads the reset vector,
CPU6502 == /\ stage = "imported"
           /\ size > 0
           /\ A' = 0 /\ X' = 0 /\ Y' = 0
           /\ S' = \h1FF % 256
           /\ P' = InitialPsr
           /\ PC' = ResetAddress
           /\ debug' = FALSE
           /\ stage' = "constructed"
           /\ UNCHANGED <<memoryVars, ret, phase, command, eof, argv>>

\* which is outside the vector if the file is short, and nowhere if it is empty.
ResetCrashes == /\ stage = "imported"
                /\ size <= \hFFFD
                /\ Leave("crashed")

-----------------------------------------------------------------------------
(* The loop over the arguments *)

\* Mutant of Flags: the loop goes on to the last argument.
Flags_all == {argv[i] : i \in 1..Len(argv)}

\* The flags that the loop gets to see
Flags == {argv[1]}

SetsPrintDevice == "--print-device" \in Flags

\* Mutant of print_device: the address keeps the width of stoul.
print_device_wide(word) == Numbers[word]

\* set_print_device(address(stoul(word)))
print_device(word) == Numbers[word] % WordSize

\* Everything but --debug and --print-device is passed over: a short flag is looked
\* for only behind a second dash (main.cpp:68-77).
ReadFlags ==
  /\ stage = "constructed"
  /\ SetsPrintDevice => Len(argv) > 1 /\ argv[2] \in DOMAIN Numbers
  /\ debug' = ("--debug" \in Flags)
  /\ print_device_addr' = IF SetsPrintDevice THEN print_device(argv[2]) ELSE print_device_addr
  /\ stage' = "run"
  /\ UNCHANGED <<registers, ret, mem, size, out, phase, command, eof, argv>>

\* invalid_argument is caught,
InvalidAddress ==
  /\ stage = "constructed"
  /\ SetsPrintDevice
  /\ Len(argv) > 1
  /\ argv[2] \notin DOMAIN Numbers \cup TooLarge
  /\ Leave("failed")

\* the exceptions for a null pointer and for a number out of range are not.
UncaughtException ==
  /\ stage = "constructed"
  /\ SetsPrintDevice
  /\ Len(argv) > 1 => argv[2] \in TooLarge
  /\ Leave("aborted")

-----------------------------------------------------------------------------

main == \/ Usage \/ ImportFails \/ import \/ CPU6502 \/ ResetCrashes
        \/ ReadFlags \/ InvalidAddress \/ UncaughtException

Session == /\ stage = "run"
           /\ DebuggerNext
           /\ UNCHANGED <<argv, stage>>

StartupNext == main \/ Session

(* One thread, which nothing suspends, and accesses that may come off: as in *)
(* FairDebuggerSpec.                                                         *)
StartupSpec == /\ StartupInit
               /\ [][StartupNext]_startupVars
               /\ WF_startupVars(main)
               /\ WF_startupVars(Session /\ (run \/ go_to_debugger))

-----------------------------------------------------------------------------
(* Properties *)

\* Whatever the command line and the file, a session of the debugger begins in one
\* of its initial states: image, reset and flags are done in an order that leaves
\* the CPU reset from the imported image, at a print device that is an address.
\* The other specifications start there.
SessionBegins == [][stage # "run" /\ stage' = "run" => DebuggerInit']_startupVars

Ended == \/ stage \in {"failed", "aborted", "crashed"}
         \/ phase \in {"returned", "exited", "crashed"}

\* An invocation ends, with an error or with the program's own end, and waits for
\* nobody: unless the image is a file called --debug.
EndsWithoutUser == (argv = <<>> \/ argv[1] # "--debug") ~> Ended

-----------------------------------------------------------------------------
(* What the documentation says and the program does not do *)

\* "When the emulator is run with the -d (--debug) flag, debugging mode is enabled"
\* (README.md:54), "--print-device ADDR: set address of print device to ADDR"
\* (main.cpp:13), and both texts put the flags behind the path (README.md:82,
\* main.cpp:9).  If both are given there, one at least takes effect: so weak that its
\* violation refutes both texts.
FlagsBehindPathAreRead ==
  \A i, j \in 2..(Len(argv) - 1) :
    /\ stage = "run"
    /\ argv[i] \in {"-d", "--debug"}
    /\ argv[j] = "--print-device" /\ argv[j + 1] \in DOMAIN Numbers
    => debug \/ print_device_addr = print_device(argv[j + 1])

\* "@throws std::out_of_range If the address is out of bounds" (gp_memory.cpp:18 of
\* GP_Memory::read): no CPU is ever reset from a vector that is not in memory_.
ReadIsChecked == stage \in {"constructed", "run"} => size > \hFFFD
=============================================================================
