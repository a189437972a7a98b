--------------------------- MODULE CpuProperties ----------------------------
(***************************************************************************)
(* What the steps of the CPU have to do, stated independently of how the   *)
(* code of an instruction is written.                                      *)
(***************************************************************************)
EXTENDS Cpu

\* The mnemonics of the table that stand for the instruction, whichever of its
\* bodies the opcode has.
ExecutingOneOf(mnemonics) == Known /\ isa[opcode].op \in mnemonics

\* The print device holds the byte that was printed last, whether STA, a
\* read-modify-write instruction or a push reached it (GP_Memory::write prints
\* and then stores, README.md:69).
PrintedIsStored == out # <<>> => read(print_device_addr) = out[Len(out)]

\* No step changes what the print device holds without printing: there is no
\* store in the simulator that goes around GP_Memory::write.
StoredIsPrinted ==
  [][read(print_device_addr)' # read(print_device_addr) => out' # <<>>]_cpuVars

\* ADC, for every carry, accumulator and operand: A is the unsigned sum modulo
\* 256, C says that the unsigned sum does not fit a byte, V that the sum of the
\* bytes read as two's complement numbers does not fit one, and N and Z describe
\* A.  The code decides V from the three signs (6502isa.cpp:19-24).
AddsBothWays ==
  [][Executing("ADC") =>
       LET c        == CarryIn(P)
           unsigned == A + operand + c
           signed   == Signed(A) + Signed(operand) + c
       IN  /\ A' = unsigned % 256
           /\ carry \in P' <=> unsigned > 255
           /\ overflow \in P' <=> signed \notin -128..127
           /\ negative \in P' <=> A' > 127
           /\ zero \in P' <=> A' = 0]_cpuVars

\* SBC in the same way: C is set when nothing was borrowed.  The code decides V
\* with exclusive ors of A, the operand and the difference (6502isa.cpp:68-69).
SubtractsBothWays ==
  [][Executing("SBC") =>
       LET b        == 1 - CarryIn(P)
           unsigned == A - operand - b
           signed   == Signed(A) - Signed(operand) - b
       IN  /\ A' = Plus(unsigned, 0) % 256
           /\ carry \in P' <=> unsigned >= 0
           /\ overflow \in P' <=> signed \notin -128..127
           /\ negative \in P' <=> A' > 127
           /\ zero \in P' <=> A' = 0]_cpuVars

\* The operand bytes that step reads for an addressing mode
OperandBytes(m) ==
  CASE m \in {"Absolute", "AbsoluteIndexedX", "AbsoluteIndexedY",
              "AbsoluteIndirect", "AbsoluteIndexedIndirect"} -> 2
    [] m \in {"Implied", "Accumulator", "Stack"}             -> 0
    [] OTHER                                                 -> 1

\* An instruction that does not set the PC ends behind the operand bytes it has
\* read: no operand is ever executed.  The lengths (instruction_types.h:29) and
\* the reads (6502cpu.cpp:92) are written apart, and disagree on the mode
\* AbsoluteIndexedIndirect, which only a JMP may use.
OperandsAreNotExecuted ==
  [][ret' \in {"OK", "GoToDebugger", "Stop"} =>
       PC' = Plus(PC, 1 + OperandBytes(mode))]_cpuVars

\* After a load, a sum, a difference, a logical operation, a shift or rotation but
\* LSR, and a counter, N and Z describe the register or the cell that now holds the
\* result, not an earlier value and not one of another width: their lambdas call
\* update_flags one by one, before or after the assignment.  After LSR, which sets N
\* by itself, N does.  Not claimed, for the code departs from README.md:41 and
\* README.md:49 there, are Z after LSR and both flags after opcode 0xAD, LDA a
\* (ZeroTellsOfResult in Claims), and after transfers and pulls, which leave them.
\* The flags of BIT, TSB, TRB and the comparisons describe nothing that is stored.
FlagsDescribe(p, v) == (negative \in p <=> v > 127) /\ (zero \in p <=> v = 0)

FlagsDescribeResult ==
  [][/\ ExecutingOneOf({"LDA", "ADC", "SBC", "AND", "ORA", "EOR", "ASLacc", "ROLacc",
                        "RORacc", "INCacc", "DECacc"}) => FlagsDescribe(P', A')
     /\ ExecutingOneOf({"LDX", "INX", "DEX"}) => FlagsDescribe(P', X')
     /\ ExecutingOneOf({"LDY", "INY", "DEY"}) => FlagsDescribe(P', Y')
     /\ ExecutingOneOf({"ASL", "ROL", "ROR", "INC", "DEC"})
          => FlagsDescribe(P', mem'[op_address])
     /\ ExecutingOneOf({"LSRacc"}) => (negative \in P' <=> A' > 127)
     /\ ExecutingOneOf({"LSR"}) => (negative \in P' <=> mem'[op_address] > 127)]_cpuVars
=============================================================================
