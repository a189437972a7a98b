------------------------------- MODULE Claims -------------------------------
(***************************************************************************)
(* What the documentation and the comments of the repository say of the    *)
(* simulator and the program does not do.  Each is refuted by a run of its *)
(* own (MC_Claims); none of them is a theorem.                             *)
(***************************************************************************)
EXTENDS Debugger, CpuProperties

\* "(1) constant one" (README.md:44), and PSR::get_bit answers true for it.  PLP and
\* RTI take the byte as it is (psr.h:40).
UnusedBitIsOne == unused \in P

\* The stack is "placed at a fixed memory address (from 0x100 to 0x1FF)"
\* (README.md:37): an instruction that only pushes leaves the rest of memory alone.
StackIsInPageOne ==
  [][ExecutingOneOf({"PHA", "PHX", "PHY", "PHP", "JSR", "BRK"}) =>
       \A c \in DOMAIN mem' \ (\h100..\h1FF) : mem'[c] = read(c)]_debuggerVars

\* "(D) Decimal: enables binary coded decimal for arithmetic operations"
\* (README.md:46): ADC adds the decimal numbers that the bytes stand for.
IsDecimal(b) == b % 16 < 10 /\ b \div 16 < 10
Decimal(b)   == 10 * (b \div 16) + (b % 16)

AddsDecimals ==
  [][/\ Executing("ADC")
     /\ decimal_mode \in P
     /\ IsDecimal(A) /\ IsDecimal(operand)
     => /\ IsDecimal(A')
        /\ Decimal(A') = (Decimal(A) + Decimal(operand) + CarryIn(P)) % 100]_debuggerVars

\* "(Z) Zero: set when a result of an operation is zero" (README.md:49): when a
\* program stops behind instructions that all have a result, Z tells of the last one,
\* which is in A.  Each instruction whose result is not zero would clear Z, so the
\* run refutes the text for all those at the end of its program at once: CPX #, LSR
\* and the LDA of opcode 0xAD.
ZeroTellsOfResult == ret = "Stop" => (zero \in P <=> A = 0)

\* step announces "Exiting..." when it meets an opcode the table does not have
\* (6502cpu.cpp:78).
UnknownOpcodeExits == ret = "UnknownInstruction" ~> phase \in {"returned", "exited"}
=============================================================================
