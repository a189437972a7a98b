-------------------------------- MODULE Cpu ---------------------------------
(***************************************************************************)
(* class CPU6502 (6502cpu.h, 6502cpu.cpp) and the lambdas of the           *)
(* instruction table (6502isa.cpp).                                        *)
(*                                                                         *)
(* One step of the specification is one call of CPU6502::step: fetch,      *)
(* decode, the operand's address, the lambda, the new PC.  There is one    *)
(* action for each mnemonic of Isa.  The text that step and the            *)
(* constructor log, and the flag verbose_ that asks for more of it, are    *)
(* left out.                                                               *)
(***************************************************************************)
EXTENDS Memory, Psr, Isa

CONSTANTS
  Images,        \* the binary files that may be loaded
  PrintDevices,  \* the addresses the print device may be given
  DebugModes     \* the values debug_ may be given

VARIABLES
  A, X, Y, S,    \* the byte registers
  P,             \* the processor status register, the set of its one bits
  PC,            \* the program counter
  debug,         \* debug_
  ret            \* the InstructionErr that the last step returned

registers == <<A, X, Y, S, P, PC>>
cpuVars == <<A, X, Y, S, P, PC, debug, ret, memoryVars>>

InstructionErr == {"OK", "OKPCModified", "UnknownInstruction", "GoToDebugger", "Stop"}

(* An image is the content of a file and its length, and what lies behind  *)
(* the file: one too short to hold the reset vector makes the constructor  *)
(* read outside the vector.                                                *)
ASSUME ImagesAssumption ==
  \A image \in Images : IsMemory(image.bytes) /\ image.size \in Nat
ASSUME PrintDevicesAssumption == PrintDevices \subseteq Word
ASSUME DebugModesAssumption   == DebugModes \subseteq BOOLEAN

RegistersOK == /\ A \in Byte /\ X \in Byte /\ Y \in Byte /\ S \in Byte
               /\ P \in SUBSET BitPosition

ControlOK == /\ PC \in Word
             /\ debug \in BOOLEAN
             /\ ret \in InstructionErr

MemoryOK == /\ IsMemory(mem)
            /\ size \in Nat
            /\ print_device_addr \in Word
            /\ out \in Seq(Byte)

\* Every register, cell and address keeps the width of its C++ type: the results
\* of the lambdas, computed in int, size_t or byte_result, are all cut back.
TypeOK == RegistersOK /\ ControlOK /\ MemoryOK

ResetAddress == address(read(\hFFFC), read(\hFFFD))
BreakAddress == address(read(\hFFFE), read(\hFFFF))

\* memory.import(...), set_print_device, then the constructor's reset sequence;
\* STACK_START = 0x1FF loses its ninth bit in S.
Init ==
  /\ \E image \in Images : mem = image.bytes /\ size = image.size
  /\ print_device_addr \in PrintDevices
  /\ out = <<>>
  /\ A = 0 /\ X = 0 /\ Y = 0
  /\ S = \h1FF % 256
  /\ P = InitialPsr
  /\ PC = ResetAddress
  /\ debug \in DebugModes
  /\ ret = "OK"

-----------------------------------------------------------------------------
(* Fetch and decode *)

opcode == read(PC)
Known  == opcode \in DOMAIN isa
mode   == isa[opcode].mode
bytes  == bytes_for_addressing_mode(mode)

\* The operand bytes of the instruction
low_byte  == read(Plus(PC, 1))
high_byte == read(Plus(PC, 2))
absolute  == address(low_byte, high_byte)

\* The address held at a and a + 1
Pointer(a) == address(read(a), read(Plus(a, 1)))

\* What step passes to the lambda, for each addressing mode.  An Implied instruction
\* does not use its address, which stays uninitialized.
AddressIn(m) ==
  CASE m = "Absolute"                 -> absolute
    [] m = "AbsoluteIndexedIndirect"  -> Pointer(Plus(absolute, X))
    [] m = "AbsoluteIndexedX"         -> Plus(absolute, X)
    [] m = "AbsoluteIndexedY"         -> Plus(absolute, Y)
    \* the one pointer that a size_t holds: it does not wrap around
    [] m = "AbsoluteIndirect"         -> address(read(absolute), read(absolute + 1))
    [] m = "Accumulator"              -> A
    [] m = "Immediate"                -> Plus(PC, 1)
    [] m = "PCRelative"               -> Plus(Plus(PC, 2), Signed(low_byte))
    [] m = "Stack"                    -> S
    [] m = "ZeroPage"                 -> low_byte
    [] m = "ZeroPageIndexedIndirect"  -> Pointer(add(low_byte, X).value)
    [] m = "ZeroPageIndexedX"         -> add(low_byte, X).value
    [] m = "ZeroPageIndexedY"         -> add(low_byte, Y).value
    [] m = "ZeroPageIndirect"         -> Pointer(low_byte)
    [] m = "ZeroPageIndirectIndexedY" -> Plus(Pointer(low_byte), Y)
    [] OTHER                             -> 0

op_address == AddressIn(mode)

operand == read(op_address)

-----------------------------------------------------------------------------
(* The shapes of an instruction *)

Executing(mnemonic) == Known /\ isa[opcode].op = mnemonic

\* Mutant of Advance: the PC is wider than an address.
Advance_past_end(r) == /\ PC' = PC + bytes
                       /\ ret' = r
                       /\ UNCHANGED debug

\* The end of step: the lambda returned r and has not set the PC,
Advance(r) == /\ PC' = Plus(PC, bytes)
              /\ ret' = r
              /\ UNCHANGED debug

\* or it has, and returned OKPCModified
set_PC(a) == /\ PC' = a
             /\ ret' = "OKPCModified"
             /\ UNCHANGED debug

ToA(v, p) == A' = v /\ P' = p /\ UNCHANGED <<X, Y, S>> /\ NoWrite /\ Advance("OK")
ToX(v, p) == X' = v /\ P' = p /\ UNCHANGED <<A, Y, S>> /\ NoWrite /\ Advance("OK")
ToY(v, p) == Y' = v /\ P' = p /\ UNCHANGED <<A, X, S>> /\ NoWrite /\ Advance("OK")
ToP(p)    == P' = p /\ UNCHANGED <<A, X, Y, S>> /\ NoWrite /\ Advance("OK")

ToMem(v, p) == /\ write(op_address, v)
               /\ P' = p
               /\ UNCHANGED <<A, X, Y, S>>
               /\ Advance("OK")

Returning(r) == UNCHANGED <<A, X, Y, S, P>> /\ NoWrite /\ Advance(r)

Branch(taken) == /\ UNCHANGED <<A, X, Y, S, P>>
                 /\ NoWrite
                 /\ IF taken THEN set_PC(op_address) ELSE Advance("OK")

\* Mutant of popped: the stack pointer is wider than a byte.
popped_wide(n) == S + n

\* S after n calls of push_stack, and after n calls of pop_stack; a call
\* of push_stack writes where S points afterwards, one of pop_stack reads where
\* S points before.
pushed(n) == (S + 256 - n) % 256
popped(n) == (S + n) % 256

\* Mutant of push_stack: stores before it moves S.
push_stack_store_first(v) == /\ S' = pushed(1)
                             /\ write(S, v)
                             /\ UNCHANGED <<A, X, Y, P>>
                             /\ Advance("OK")

push_stack(v) == /\ S' = pushed(1)
                 /\ write(pushed(1), v)
                 /\ UNCHANGED <<A, X, Y, P>>
                 /\ Advance("OK")

-----------------------------------------------------------------------------
(* Loads, stores and transfers *)

\* Mutant of LDA: the flags are left alone, as by the opcode 0xAD.
LDA_no_flags == Executing("LDA") /\ ToA(operand, P)

LDA    == Executing("LDA") /\ ToA(operand, update_flags(P, operand))
LDAabs == Executing("LDAabs") /\ ToA(operand, P)
LDX    == Executing("LDX") /\ ToX(operand, update_flags(P, operand))
LDY    == Executing("LDY") /\ ToY(operand, update_flags(P, operand))

STA == Executing("STA") /\ ToMem(A, P)
STX == Executing("STX") /\ ToMem(X, P)
STY == Executing("STY") /\ ToMem(Y, P)
STZ == Executing("STZ") /\ ToMem(0, P)

TXA == Executing("TXA") /\ ToA(X, P)
TYA == Executing("TYA") /\ ToA(Y, P)
TAX == Executing("TAX") /\ ToX(A, P)
TAY == Executing("TAY") /\ ToY(A, P)
TSX == Executing("TSX") /\ ToX(S, P)
TXS == /\ Executing("TXS")
       /\ S' = X
       /\ UNCHANGED <<A, X, Y, P>>
       /\ NoWrite
       /\ Advance("OK")

-----------------------------------------------------------------------------
(* Arithmetic *)

Sum == add_result(add(A, operand), CarryIn(P))

\* Mutant of SumOverflows: the sign of the operand is not looked at.
SumOverflows_one_sign == is_negative(A) # is_negative(Sum.value)

\* the two terms have the same sign and the sum has the other
SumOverflows == /\ is_negative(A) <=> is_negative(operand)
                /\ is_negative(A) # is_negative(Sum.value)

ADC == /\ Executing("ADC")
       /\ ToA(Sum.value,
              update_flags(set_bit(set_bit(P, carry, Sum.carry), overflow, SumOverflows),
                           Sum.value))

\* Mutant of Borrow: the carry is taken for the borrow.
Borrow_inverted == CarryIn(P)

Borrow == 1 - CarryIn(P)
Difference == (A + 512 - operand - Borrow) % 256

\* Mutant of DifferenceOverflows: the rule for a sum.
DifferenceOverflows_of_sum == /\ is_negative(A) # is_negative(Difference)
                              /\ is_negative(A) = is_negative(operand)

\* (A ^ result) & (A ^ value) & 0x80
DifferenceOverflows == /\ is_negative(A) # is_negative(Difference)
                       /\ is_negative(A) # is_negative(operand)

SBC == /\ Executing("SBC")
       /\ ToA(Difference,
              update_flags(set_bit(set_bit(P, carry, A >= operand + Borrow),
                                   overflow, DifferenceOverflows),
                           Difference))

\* the function CMP
CMP == /\ Executing("CMP")
       /\ ToP(set_bit(set_bit(set_bit(P, carry, A >= operand), zero, A = operand),
                      negative, is_negative(sub(A, operand).value)))

\* the comparisons written out in the table: carry is the borrow, and the
\* test for zero asks whether an unsigned byte is at least 0
Compare(register, v) ==
  LET result == sub(register, v)
  IN  ToP(set_bit(set_bit(set_bit(P, carry, result.carry), zero, result.value >= 0),
                  negative, is_negative(result.value)))

CMPind == Executing("CMPind") /\ Compare(A, operand)
CPX    == Executing("CPX") /\ Compare(X, operand)
CPY    == Executing("CPY") /\ Compare(Y, operand)

\* std::byte(addr_value): the low byte of the address, not what it points to
CPXimm == Executing("CPXimm") /\ Compare(X, low(op_address))
CPYimm == Executing("CPYimm") /\ Compare(Y, low(op_address))

\* Mutant of StickyCarry: the carry follows every step of the counter.
StickyCarry_not_sticky(result) == update_flags(set_bit(P, carry, result.carry), result.value)

\* carry is set when the value wraps around and never cleared
StickyCarry(result) ==
  update_flags(IF result.carry THEN set_bit(P, carry, TRUE) ELSE P, result.value)

INX == Executing("INX") /\ ToX(add(X, 1).value, StickyCarry(add(X, 1)))
INY == Executing("INY") /\ ToY(add(Y, 1).value, StickyCarry(add(Y, 1)))
DEY == Executing("DEY") /\ ToY(sub(Y, 1).value, StickyCarry(sub(Y, 1)))
DEX == Executing("DEX") /\ ToX(sub(X, 1).value, update_flags(P, sub(X, 1).value))

INC == Executing("INC") /\ ToMem(add(operand, 1).value, update_flags(P, add(operand, 1).value))
DEC == Executing("DEC") /\ ToMem(sub(operand, 1).value, update_flags(P, sub(operand, 1).value))

INCacc == Executing("INCacc") /\ ToA(add(A, 1).value, update_flags(P, add(A, 1).value))
DECacc == Executing("DECacc") /\ ToA(sub(A, 1).value, update_flags(P, sub(A, 1).value))

-----------------------------------------------------------------------------
(* Bits *)

AND == Executing("AND") /\ ToA(BitAnd(A, operand), update_flags(P, BitAnd(A, operand)))
ORA == Executing("ORA") /\ ToA(BitOr(A, operand),  update_flags(P, BitOr(A, operand)))
EOR == Executing("EOR") /\ ToA(BitXor(A, operand), update_flags(P, BitXor(A, operand)))

BIT == Executing("BIT") /\ ToP(update_flags(P, BitAnd(A, operand)))

BITzp == /\ Executing("BITzp")
         /\ ToP(set_bit(update_flags(P, operand), overflow, is_bit_set(operand, 6)))

ShiftFlags(r) == update_flags(set_bit(P, carry, r.carry), r.value)

\* LSR leaves the zero flag as it was
LSRFlags(r) == set_bit(set_bit(P, carry, r.carry), negative, FALSE)

ASL == Executing("ASL") /\ ToMem(shl(operand, 0).value, ShiftFlags(shl(operand, 0)))
LSR == Executing("LSR") /\ ToMem(shr(operand, 0).value, LSRFlags(shr(operand, 0)))
ROL == /\ Executing("ROL")
       /\ ToMem(shl(operand, CarryIn(P)).value, ShiftFlags(shl(operand, CarryIn(P))))
ROR == /\ Executing("ROR")
       /\ ToMem(shr(operand, CarryIn(P)).value, ShiftFlags(shr(operand, CarryIn(P))))

ASLacc == Executing("ASLacc") /\ ToA(shl(A, 0).value, ShiftFlags(shl(A, 0)))
LSRacc == Executing("LSRacc") /\ ToA(shr(A, 0).value, LSRFlags(shr(A, 0)))
ROLacc == /\ Executing("ROLacc")
          /\ ToA(shl(A, CarryIn(P)).value, ShiftFlags(shl(A, CarryIn(P))))
RORacc == /\ Executing("RORacc")
          /\ ToA(shr(A, CarryIn(P)).value, ShiftFlags(shr(A, CarryIn(P))))

\* the zero flag tells of the bits that mask and memory had in common
TestFlags == set_bit(P, zero, is_zero(BitAnd(operand, A)))

TSB == Executing("TSB") /\ ToMem(BitOr(operand, A), TestFlags)
TRB == Executing("TRB") /\ ToMem(BitClear(operand, A), TestFlags)

RMB == Executing("RMB") /\ ToMem(FromBits(ToBits(operand) \ {BitOf(opcode)}), P)
SMB == Executing("SMB") /\ ToMem(FromBits(ToBits(operand) \cup {BitOf(opcode)}), P)

CLC == Executing("CLC") /\ ToP(set_bit(P, carry, FALSE))
SEC == Executing("SEC") /\ ToP(set_bit(P, carry, TRUE))
CLI == Executing("CLI") /\ ToP(set_bit(P, interrupt_disable, FALSE))
SEI == Executing("SEI") /\ ToP(set_bit(P, interrupt_disable, TRUE))
CLD == Executing("CLD") /\ ToP(set_bit(P, decimal_mode, FALSE))
SED == Executing("SED") /\ ToP(set_bit(P, decimal_mode, TRUE))
CLV == Executing("CLV") /\ ToP(set_bit(P, overflow, FALSE))

-----------------------------------------------------------------------------
(* Branches and jumps *)

BPL == Executing("BPL") /\ Branch(~get_bit(P, negative))
BMI == Executing("BMI") /\ Branch(get_bit(P, negative))
BVC == Executing("BVC") /\ Branch(~get_bit(P, overflow))
BVS == Executing("BVS") /\ Branch(get_bit(P, overflow))
BCC == Executing("BCC") /\ Branch(~get_bit(P, carry))
BCS == Executing("BCS") /\ Branch(get_bit(P, carry))
BNE == Executing("BNE") /\ Branch(~get_bit(P, zero))
BEQ == Executing("BEQ") /\ Branch(get_bit(P, zero))
BRA == Executing("BRA") /\ Branch(TRUE)
JMP == Executing("JMP") /\ Branch(TRUE)

\* both test the byte at the branch target, BBS its lowest bit whatever its number
BBR == Executing("BBR") /\ Branch(~is_bit_set(operand, BitOf(opcode)))
BBS == Executing("BBS") /\ Branch(is_bit_set(operand, 0))

-----------------------------------------------------------------------------
(* The stack *)

PHA == Executing("PHA") /\ push_stack(A)
PHX == Executing("PHX") /\ push_stack(X)
PHY == Executing("PHY") /\ push_stack(Y)
PHP == Executing("PHP") /\ push_stack(FromBits(set_bit(P, break_command, TRUE)))

Pull == S' = popped(1) /\ NoWrite /\ Advance("OK")

PLA == Executing("PLA") /\ A' = read(S) /\ UNCHANGED <<X, Y, P>> /\ Pull
PLX == Executing("PLX") /\ X' = read(S) /\ UNCHANGED <<A, Y, P>> /\ Pull
PLY == Executing("PLY") /\ Y' = read(S) /\ UNCHANGED <<A, X, P>> /\ Pull
PLP == Executing("PLP") /\ P' = ToBits(read(S)) /\ UNCHANGED <<A, X, Y>> /\ Pull

\* Mutants of PcPushed: the low byte is pushed first; the last byte of the
\* instruction is pushed, as the processor does, and not the first.
PcPushed_low_first == written(written(mem, pushed(1), low(PC)), pushed(2), high(PC))
PcPushed_last_byte ==
  written(written(mem, pushed(1), high(Plus(PC, 2))), pushed(2), low(Plus(PC, 2)))

\* The PC that is pushed is the address of the JSR or BRK itself.
PcPushed == written(written(mem, pushed(1), high(PC)), pushed(2), low(PC))
PcPrinted == printed(pushed(1), high(PC)) \o printed(pushed(2), low(PC))

JSR == /\ Executing("JSR")
       /\ S' = pushed(2)
       /\ mem' = PcPushed
       /\ out' = PcPrinted
       /\ UNCHANGED <<A, X, Y, P, size, print_device_addr>>
       /\ set_PC(op_address)

RTS == /\ Executing("RTS")
       /\ S' = popped(2)
       /\ UNCHANGED <<A, X, Y, P>>
       /\ NoWrite
       /\ set_PC(Plus(address(read(S), read(popped(1))), 3))

\* Mutant of BRK: break_command is set before P is pushed.
BRK_sets_break_first ==
  /\ Executing("BRK")
  /\ S' = pushed(3)
  /\ mem' = written(PcPushed, pushed(3), FromBits(P \cup {break_command}))
  /\ out' = PcPrinted \o printed(pushed(3), FromBits(P \cup {break_command}))
  /\ P' = set_bit(P, break_command, TRUE)
  /\ UNCHANGED <<A, X, Y, size, print_device_addr>>
  /\ set_PC(BreakAddress)

\* break_command is set after P has been pushed
BRK == /\ Executing("BRK")
       /\ S' = pushed(3)
       /\ mem' = written(PcPushed, pushed(3), FromBits(P))
       /\ out' = PcPrinted \o printed(pushed(3), FromBits(P))
       /\ P' = set_bit(P, break_command, TRUE)
       /\ UNCHANGED <<A, X, Y, size, print_device_addr>>
       /\ set_PC(BreakAddress)

\* Mutant of RTI: the status is taken from below the return address.
RTI_status_last == /\ Executing("RTI")
                   /\ S' = popped(3)
                   /\ P' = ToBits(read(popped(2)))
                   /\ UNCHANGED <<A, X, Y>>
                   /\ NoWrite
                   /\ set_PC(Plus(address(read(S), read(popped(1))), 1))

RTI == /\ Executing("RTI")
       /\ S' = popped(3)
       /\ P' = ToBits(read(S))
       /\ UNCHANGED <<A, X, Y>>
       /\ NoWrite
       /\ set_PC(Plus(address(read(popped(1)), read(popped(2))), 1))

-----------------------------------------------------------------------------
(* Control *)

\* Mutant of DBG: debug mode is not asked for.
DBG_always == Executing("DBG") /\ Returning("GoToDebugger")

DBG == Executing("DBG") /\ Returning(IF debug THEN "GoToDebugger" ELSE "OK")
NOP == Executing("NOP") /\ Returning("OK")
STP == Executing("STP") /\ Returning("Stop")

\* step returns before the PC is advanced
Unknown == /\ ~Known
           /\ ret' = "UnknownInstruction"
           /\ UNCHANGED <<registers, debug>>
           /\ NoWrite

(* The cells that a step reads and writes *)

Two(a) == {a, Plus(a, 1)}

\* The operand bytes and the pointers that step itself reads
AddressCells(m) ==
  CASE m \in {"Absolute", "AbsoluteIndexedX", "AbsoluteIndexedY"} -> Two(Plus(PC, 1))
    [] m = "AbsoluteIndexedIndirect" -> Two(Plus(PC, 1)) \cup Two(Plus(absolute, X))
    [] m = "AbsoluteIndirect"        -> Two(Plus(PC, 1)) \cup {absolute, absolute + 1}
    [] m \in {"PCRelative", "ZeroPage", "ZeroPageIndexedX", "ZeroPageIndexedY"}
                                     -> {Plus(PC, 1)}
    [] m = "ZeroPageIndexedIndirect" -> {Plus(PC, 1)} \cup Two(add(low_byte, X).value)
    [] m \in {"ZeroPageIndirect", "ZeroPageIndirectIndexedY"}
                                     -> {Plus(PC, 1)} \cup Two(low_byte)
    [] OTHER                         -> {}

\* The lambdas that use the address itself, and not what is stored there
UsesAddress == {"BPL", "BMI", "BVC", "BVS", "BCC", "BCS", "BNE", "BEQ", "BRA", "JMP", "JSR",
                "CPXimm", "CPYimm"}

OperandCell(m, op) ==
  IF m \in {"Implied", "Accumulator", "Stack"} \/ op \in UsesAddress THEN {} ELSE {op_address}

StackCells(op) ==
  CASE op \in {"PHA", "PHX", "PHY", "PHP"} -> {pushed(1)}
    [] op = "JSR" -> {pushed(1), pushed(2)}
    [] op = "BRK" -> {pushed(1), pushed(2), pushed(3), \hFFFE, \hFFFF}
    [] op \in {"PLA", "PLX", "PLY", "PLP"} -> {S}
    [] op = "RTS" -> {S, popped(1)}
    [] op = "RTI" -> {S, popped(1), popped(2)}
    [] OTHER -> {}

Accessed ==
  {PC} \cup IF Known THEN AddressCells(mode) \cup OperandCell(mode, isa[opcode].op)
                          \cup StackCells(isa[opcode].op)
            ELSE {}

\* operator[] of the vector does not check: such a step either finds a cell there, and
\* is one of the actions above, or ends the process.
AccessesOutside == \E a \in Accessed : a >= size

-----------------------------------------------------------------------------

step ==
  \/ LDA \/ LDAabs \/ LDX \/ LDY \/ STA \/ STX \/ STY \/ STZ
  \/ TXA \/ TYA \/ TAX \/ TAY \/ TSX \/ TXS
  \/ ADC \/ SBC \/ CMP \/ CMPind \/ CPX \/ CPY \/ CPXimm \/ CPYimm
  \/ INX \/ INY \/ DEX \/ DEY \/ INC \/ DEC \/ INCacc \/ DECacc
  \/ AND \/ ORA \/ EOR \/ BIT \/ BITzp
  \/ ASL \/ LSR \/ ROL \/ ROR \/ ASLacc \/ LSRacc \/ ROLacc \/ RORacc
  \/ TSB \/ TRB \/ RMB \/ SMB
  \/ CLC \/ SEC \/ CLI \/ SEI \/ CLD \/ SED \/ CLV
  \/ BPL \/ BMI \/ BVC \/ BVS \/ BCC \/ BCS \/ BNE \/ BEQ \/ BRA \/ JMP \/ BBR \/ BBS
  \/ PHA \/ PHX \/ PHY \/ PHP \/ PLA \/ PLX \/ PLY \/ PLP
  \/ JSR \/ RTS \/ BRK \/ RTI
  \/ DBG \/ NOP \/ STP \/ Unknown

\* Mutant of Running: the address space is taken for the memory.
Running_address_space == PC < WordSize

\* the loop of CPU6502::execute, and the condition it shares with Debugger::run
Running == PC < size

execute == /\ Running
           /\ ret # "Stop"
           /\ step

\* A step that ends the process, because of what it accesses, ends the behaviour.
Spec == Init /\ [][execute]_cpuVars
=============================================================================
