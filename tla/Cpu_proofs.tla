----------------------------- MODULE Cpu_proofs -----------------------------
(***************************************************************************)
(* Proofs of Cpu and CpuProperties, for every set of images, print devices *)
(* and debug modes: every variable keeps its type; the print device holds  *)
(* what was printed last; the lambdas of ADC and SBC compute the sum and   *)
(* the difference of unsigned and of two's complement numbers at once; N   *)
(* and Z describe the values that FlagsDescribeResult names; no operand    *)
(* byte is executed.                                                       *)
(*                                                                         *)
(* Each fact is proved of any sequence of steps from an initial state, and *)
(* so holds of CPU6502::execute and of every session of the debugger.      *)
(***************************************************************************)
EXTENDS CpuProperties, TLAPS

-----------------------------------------------------------------------------
(* The arithmetic stays in its width *)

LEMMA ByteArithmetic ==
  ASSUME NEW a \in Byte, NEW b \in Byte, NEW c \in {0, 1}
  PROVE  /\ add(a, b).value \in Byte
         /\ sub(a, b).value \in Byte
         /\ add_result(add(a, b), c).value \in Byte
         /\ shl(a, c).value \in Byte
         /\ shr(a, c).value \in Byte
BY DEF Byte, add, sub, add_result, shl, shr

LEMMA WordBounds ==
  /\ WordSize \in Nat
  /\ WordSize > 511
  /\ \A w \in Word : w \in Nat /\ w < WordSize
  /\ \A b \in Byte : b \in Word
<1>1. WordSize \in Nat /\ WordSize > 511
  BY DEF WordSize
<1> QED
  BY <1>1 DEF Word, Byte

LEMMA HalvesType ==
  ASSUME NEW w \in Word
  PROVE  low(w) \in Byte /\ high(w) \in Byte
<1>1. w \in Nat /\ w < 256 * 256
  BY WordBounds DEF WordSize
<1>2. w \div 256 \in Nat /\ w \div 256 < 256
  BY <1>1
<1> QED
  BY <1>1, <1>2 DEF low, high, Byte

LEMMA PlusType ==
  ASSUME NEW w \in Word, NEW n \in -128..255
  PROVE  Plus(w, n) \in Word
<1>1. w \in Nat /\ WordSize \in Nat /\ WordSize > 511
  BY WordBounds
<1> QED
  BY <1>1 DEF Plus, Word

LEMMA AddressType ==
  ASSUME NEW lo \in Byte, NEW hi \in Byte
  PROVE  address(lo, hi) \in Word
<1>1. address(lo, hi) \in Nat /\ address(lo, hi) <= 65535
  BY DEF Byte, address
<1>2. address(lo, hi) <= WordSize - 1
  BY <1>1 DEF WordSize
<1> QED
  BY <1>1, <1>2, WordBounds DEF Word

LEMMA BitsType ==
  /\ \A s : FromBits(s) \in Byte
  /\ \A b : ToBits(b) \in SUBSET BitPosition
BY DEF FromBits, Weight, ToBits, Byte

LEMMA BitNames ==
  {carry, zero, interrupt_disable, decimal_mode, break_command, unused, overflow, negative}
    \subseteq BitPosition
BY DEF carry, zero, interrupt_disable, decimal_mode, break_command, unused, overflow, negative,
       BitPosition

LEMMA SetBitType ==
  ASSUME NEW p \in SUBSET BitPosition, NEW bit \in BitPosition, NEW v
  PROVE  set_bit(p, bit, v) \in SUBSET BitPosition
BY DEF set_bit

LEMMA UpdateFlagsType ==
  ASSUME NEW p \in SUBSET BitPosition, NEW v
  PROVE  update_flags(p, v) \in SUBSET BitPosition
BY BitNames, SetBitType DEF update_flags

LEMMA CarryInType == \A p : CarryIn(p) \in {0, 1}
BY DEF CarryIn

-----------------------------------------------------------------------------
(* Memory *)

LEMMA ReadType ==
  ASSUME IsMemory(mem), NEW a
  PROVE  read(a) \in Byte
BY DEF IsMemory, read, Byte

LEMMA WrittenType ==
  ASSUME NEW m, IsMemory(m), NEW a \in Cell, NEW v \in Byte
  PROVE  IsMemory(written(m, a, v))
BY DEF IsMemory, written

-----------------------------------------------------------------------------
(* Fetch and decode *)

LEMMA OperandType ==
  ASSUME TypeOK
  PROVE  /\ op_address \in Word
         /\ operand \in Byte
         /\ bytes \in 0..3
<1> USE DEF TypeOK, RegistersOK, ControlOK, MemoryOK
<1>1. low_byte \in Byte /\ high_byte \in Byte /\ absolute \in Word
  BY ReadType, AddressType DEF low_byte, high_byte, absolute
<1>2. \A a : Pointer(a) \in Word
  BY ReadType, AddressType DEF Pointer
<1>3. \A w \in Word, b \in Byte : Plus(w, b) \in Word
  BY PlusType DEF Byte
<1>4. Signed(low_byte) \in -128..127
  BY <1>1 DEF Signed, Byte
<1>5. Plus(PC, 1) \in Word /\ Plus(Plus(PC, 2), Signed(low_byte)) \in Word
  <2>1. Plus(PC, 1) \in Word /\ Plus(PC, 2) \in Word
    BY PlusType
  <2>2. Signed(low_byte) \in -128..255
    BY <1>4
  <2> QED
    BY <2>1, <2>2, PlusType
<1>6. add(low_byte, X).value \in Word /\ add(low_byte, Y).value \in Word
  <2>1. 0 \in {0, 1}
    OBVIOUS
  <2> QED
    BY <2>1, <1>1, ByteArithmetic, WordBounds
<1>7. A \in Word /\ S \in Word /\ low_byte \in Word /\ 0 \in Word
  <2>1. 0 \in Byte
    BY DEF Byte
  <2> QED
    BY <1>1, <2>1, WordBounds
<1>8. address(read(absolute), read(absolute + 1)) \in Word
  BY ReadType, AddressType
<1>9. /\ Plus(absolute, X) \in Word
      /\ Plus(absolute, Y) \in Word
      /\ Plus(Pointer(low_byte), Y) \in Word
  BY <1>1, <1>2, <1>3
<1> HIDE DEF TypeOK, RegistersOK, ControlOK, MemoryOK
<1>10. op_address \in Word
  BY <1>1, <1>2, <1>5, <1>6, <1>7, <1>8, <1>9 DEF op_address, AddressIn
<1>11. operand \in Byte
  BY ReadType DEF operand, TypeOK, MemoryOK
<1>12. bytes \in 0..3
  BY DEF bytes, bytes_for_addressing_mode
<1> QED
  BY <1>10, <1>11, <1>12

-----------------------------------------------------------------------------
(* The shapes of an instruction keep the types *)

LEMMA AdvanceType ==
  ASSUME TypeOK, NEW r \in InstructionErr, Advance(r)
  PROVE  ControlOK'
<1>1. PC \in Word /\ debug \in BOOLEAN
  BY DEF TypeOK, ControlOK
<1>2. bytes \in -128..255
  BY OperandType
<1>3. Plus(PC, bytes) \in Word
  BY <1>1, <1>2, PlusType
<1> QED
  BY <1>1, <1>3 DEF Advance, ControlOK

LEMMA SetPCType ==
  ASSUME TypeOK, NEW a \in Word, set_PC(a)
  PROVE  ControlOK'
BY DEF TypeOK, ControlOK, set_PC, InstructionErr

LEMMA NoWriteType ==
  ASSUME TypeOK, NoWrite
  PROVE  MemoryOK'
BY DEF TypeOK, MemoryOK, NoWrite, IsMemory

LEMMA PrintedType ==
  ASSUME NEW a, NEW v \in Byte
  PROVE  printed(a, v) \in Seq(Byte)
BY DEF printed

LEMMA WordIsCell ==
  ASSUME NEW w \in Word
  PROVE  w \in Cell
BY WordBounds DEF Word, Cell

LEMMA WriteType ==
  ASSUME TypeOK, NEW a \in Word, NEW v \in Byte, write(a, v)
  PROVE  MemoryOK'
<1> USE DEF TypeOK, MemoryOK
<1>1. IsMemory(written(mem, a, v))
  BY WordIsCell, WrittenType
<1>2. IsMemory(mem')
  BY <1>1 DEF write
<1>3. out' \in Seq(Byte)
  BY PrintedType DEF write
<1> QED
  BY <1>2, <1>3 DEF write, IsMemory

LEMMA ShapesType ==
  ASSUME TypeOK, NEW v \in Byte, NEW p \in SUBSET BitPosition
  PROVE  /\ ToA(v, p) => TypeOK'
         /\ ToX(v, p) => TypeOK'
         /\ ToY(v, p) => TypeOK'
         /\ ToP(p)    => TypeOK'
         /\ ToMem(v, p) => TypeOK'
<1>1. RegistersOK
  BY DEF TypeOK
<1>2. Advance("OK") => ControlOK'
  BY AdvanceType DEF InstructionErr
<1>3. NoWrite => MemoryOK'
  BY NoWriteType
<1>4. ToA(v, p) => TypeOK'
  BY <1>1, <1>2, <1>3 DEF ToA, TypeOK, RegistersOK
<1>5. ToX(v, p) => TypeOK'
  BY <1>1, <1>2, <1>3 DEF ToX, TypeOK, RegistersOK
<1>6. ToY(v, p) => TypeOK'
  BY <1>1, <1>2, <1>3 DEF ToY, TypeOK, RegistersOK
<1>7. ToP(p) => TypeOK'
  BY <1>1, <1>2, <1>3 DEF ToP, TypeOK, RegistersOK
<1>8. ToMem(v, p) => TypeOK'
  <2>1. write(op_address, v) => MemoryOK'
    BY OperandType, WriteType
  <2> QED
    BY <1>1, <1>2, <2>1 DEF ToMem, TypeOK, RegistersOK
<1> QED
  BY <1>4, <1>5, <1>6, <1>7, <1>8

LEMMA ReturningType ==
  ASSUME TypeOK, NEW r \in InstructionErr, Returning(r)
  PROVE  TypeOK'
BY AdvanceType, NoWriteType DEF Returning, TypeOK, RegistersOK

LEMMA BranchType ==
  ASSUME TypeOK, NEW taken \in BOOLEAN, Branch(taken)
  PROVE  TypeOK'
<1>1. RegistersOK' /\ MemoryOK'
  BY NoWriteType DEF Branch, TypeOK, RegistersOK
<1>2. ControlOK'
  <2>1. CASE taken
    BY <2>1, OperandType, SetPCType DEF Branch
  <2>2. CASE ~taken
    BY <2>2, AdvanceType DEF Branch, InstructionErr
  <2> QED
    BY <2>1, <2>2
<1> QED
  BY <1>1, <1>2 DEF TypeOK

LEMMA StackPointerType ==
  ASSUME TypeOK
  PROVE  \A n \in 0..3 : pushed(n) \in Byte /\ popped(n) \in Byte
BY DEF TypeOK, RegistersOK, pushed, popped, Byte

LEMMA PushType ==
  ASSUME TypeOK, NEW v \in Byte, push_stack(v)
  PROVE  TypeOK'
<1>1. pushed(1) \in Byte
  BY StackPointerType
<1>2. MemoryOK'
  BY <1>1, WordBounds, WriteType DEF push_stack
<1>3. ControlOK'
  BY AdvanceType DEF push_stack, InstructionErr
<1> QED
  BY <1>1, <1>2, <1>3 DEF push_stack, TypeOK, RegistersOK

LEMMA PullType ==
  ASSUME TypeOK, Pull
  PROVE  S' \in Byte /\ MemoryOK' /\ ControlOK'
<1>1. S' \in Byte
  BY StackPointerType DEF Pull
<1>2. MemoryOK'
  BY NoWriteType DEF Pull
<1>3. ControlOK'
  BY AdvanceType DEF Pull, InstructionErr
<1> QED
  BY <1>1, <1>2, <1>3

-----------------------------------------------------------------------------
(* Every action keeps the types *)

\* The values that the lambdas compute from registers and operand
LEMMA OperationTypes ==
  ASSUME TypeOK
  PROVE  /\ Sum.value \in Byte /\ Difference \in Byte
         /\ \A b \in Byte, c \in {0, 1} : /\ add(b, 1).value \in Byte
                                         /\ sub(b, 1).value \in Byte
                                         /\ shl(b, c).value \in Byte
                                         /\ shr(b, c).value \in Byte
<1>1. A \in Byte /\ operand \in Byte /\ CarryIn(P) \in {0, 1} /\ 1 \in Byte
  BY OperandType, CarryInType DEF TypeOK, RegistersOK, Byte
<1>2. Sum.value \in Byte
  BY <1>1, ByteArithmetic DEF Sum
<1>3. Difference \in Byte
  <2>1. Borrow \in {0, 1}
    BY <1>1 DEF Borrow
  <2>2. A + 512 - operand - Borrow \in Nat
    BY <1>1, <2>1 DEF Byte
  <2> QED
    BY <2>2 DEF Difference, Byte
<1>4. ASSUME NEW b \in Byte, NEW c \in {0, 1}
      PROVE  /\ add(b, 1).value \in Byte
             /\ sub(b, 1).value \in Byte
             /\ shl(b, c).value \in Byte
             /\ shr(b, c).value \in Byte
  BY <1>1, ByteArithmetic
<1> QED
  BY <1>2, <1>3, <1>4

LEMMA FlagSetTypes ==
  ASSUME TypeOK
  PROVE  /\ \A r : ShiftFlags(r) \in SUBSET BitPosition
         /\ \A r : LSRFlags(r) \in SUBSET BitPosition
         /\ \A r : StickyCarry(r) \in SUBSET BitPosition
         /\ TestFlags \in SUBSET BitPosition
<1>1. P \in SUBSET BitPosition
  BY DEF TypeOK, RegistersOK
<1>2. \A v : set_bit(P, carry, v) \in SUBSET BitPosition
  BY <1>1, BitNames, SetBitType
<1>3. \A r : ShiftFlags(r) \in SUBSET BitPosition
  BY <1>2, UpdateFlagsType DEF ShiftFlags
<1>4. \A r : LSRFlags(r) \in SUBSET BitPosition
  BY <1>2, BitNames, SetBitType DEF LSRFlags
<1>5. \A r : StickyCarry(r) \in SUBSET BitPosition
  BY <1>1, <1>2, UpdateFlagsType DEF StickyCarry
<1>6. TestFlags \in SUBSET BitPosition
  BY <1>1, BitNames, SetBitType DEF TestFlags
<1> QED
  BY <1>3, <1>4, <1>5, <1>6

LEMMA CompareType ==
  ASSUME TypeOK, NEW a, NEW b, Compare(a, b)
  PROVE  TypeOK'
<1>1. P \in SUBSET BitPosition /\ 0 \in Byte
  BY DEF TypeOK, RegistersOK, Byte
<1>2. \A v, w, x : set_bit(set_bit(set_bit(P, carry, v), zero, w), negative, x)
                   \in SUBSET BitPosition
  BY <1>1, BitNames, SetBitType
<1> QED
  BY <1>1, <1>2, ShapesType DEF Compare

LEMMA PcPushedType ==
  ASSUME TypeOK
  PROVE  IsMemory(PcPushed) /\ PcPrinted \in Seq(Byte)
<1>1. high(PC) \in Byte /\ low(PC) \in Byte /\ IsMemory(mem)
  BY HalvesType DEF TypeOK, ControlOK, MemoryOK
<1>2. pushed(1) \in Cell /\ pushed(2) \in Cell
  BY StackPointerType, WordBounds, WordIsCell
<1>3. IsMemory(PcPushed)
  <2>1. IsMemory(written(mem, pushed(1), high(PC)))
    BY <1>1, <1>2, WrittenType
  <2> QED
    BY <1>1, <1>2, <2>1, WrittenType DEF PcPushed
<1>4. PcPrinted \in Seq(Byte)
  <2>1. printed(pushed(1), high(PC)) \in Seq(Byte) /\ printed(pushed(2), low(PC)) \in Seq(Byte)
    BY <1>1, PrintedType
  <2> QED
    BY <2>1 DEF PcPrinted
<1> QED
  BY <1>3, <1>4

LEMMA JSRType ==
  ASSUME TypeOK, JSR
  PROVE  TypeOK'
<1>1. S' \in Byte
  BY StackPointerType DEF JSR
<1>2. ControlOK'
  BY OperandType, SetPCType DEF JSR
<1>3. MemoryOK'
  BY PcPushedType DEF JSR, TypeOK, MemoryOK, IsMemory
<1> QED
  BY <1>1, <1>2, <1>3 DEF JSR, TypeOK, RegistersOK

LEMMA RTSType ==
  ASSUME TypeOK, RTS
  PROVE  TypeOK'
<1>1. S' \in Byte
  BY StackPointerType DEF RTS
<1>2. address(read(S), read(popped(1))) \in Word
  BY ReadType, AddressType DEF TypeOK, MemoryOK
<1>3. Plus(address(read(S), read(popped(1))), 3) \in Word
  BY <1>2, PlusType
<1>4. ControlOK'
  BY <1>3, SetPCType DEF RTS
<1>5. MemoryOK'
  BY NoWriteType DEF RTS
<1> QED
  BY <1>1, <1>4, <1>5 DEF RTS, TypeOK, RegistersOK

LEMMA BRKType ==
  ASSUME TypeOK, BRK
  PROVE  TypeOK'
<1>1. S' \in Byte
  BY StackPointerType DEF BRK
<1>2. BreakAddress \in Word
  BY ReadType, AddressType DEF BreakAddress, TypeOK, MemoryOK
<1>3. ControlOK'
  BY <1>2, SetPCType DEF BRK
<1>4. IsMemory(written(PcPushed, pushed(3), FromBits(P)))
  BY PcPushedType, BitsType, StackPointerType, WordBounds, WordIsCell, WrittenType
<1>5. PcPrinted \o printed(pushed(3), FromBits(P)) \in Seq(Byte)
  BY PcPushedType, BitsType, PrintedType
<1>6. MemoryOK'
  BY <1>4, <1>5 DEF BRK, TypeOK, MemoryOK, IsMemory
<1>7. P' \in SUBSET BitPosition
  <2>1. P \in SUBSET BitPosition /\ break_command \in BitPosition
    BY BitNames DEF TypeOK, RegistersOK
  <2>2. set_bit(P, break_command, TRUE) \in SUBSET BitPosition
    BY <2>1, SetBitType
  <2> QED
    BY <2>2 DEF BRK
<1>8. A' = A /\ X' = X /\ Y' = Y
  BY DEF BRK
<1> QED
  BY <1>1, <1>3, <1>6, <1>7, <1>8 DEF TypeOK, RegistersOK

LEMMA RTIType ==
  ASSUME TypeOK, RTI
  PROVE  TypeOK'
<1>1. S' \in Byte
  BY StackPointerType DEF RTI
<1>2. address(read(popped(1)), read(popped(2))) \in Word
  BY ReadType, AddressType DEF TypeOK, MemoryOK
<1>3. Plus(address(read(popped(1)), read(popped(2))), 1) \in Word
  BY <1>2, PlusType
<1>4. ControlOK'
  BY <1>3, SetPCType DEF RTI
<1>5. MemoryOK'
  BY NoWriteType DEF RTI
<1>6. P' \in SUBSET BitPosition
  BY BitsType DEF RTI
<1> QED
  BY <1>1, <1>4, <1>5, <1>6 DEF RTI, TypeOK, RegistersOK

LEMMA StepType ==
  ASSUME TypeOK, step
  PROVE  TypeOK'
<1>1. /\ A \in Byte /\ X \in Byte /\ Y \in Byte /\ S \in Byte /\ 0 \in Byte
      /\ operand \in Byte
      /\ P \in SUBSET BitPosition
  BY OperandType DEF TypeOK, RegistersOK, Byte
<1>2. \A v : \A p \in SUBSET BitPosition : update_flags(p, v) \in SUBSET BitPosition
  BY UpdateFlagsType
<1>3. \A v : \A p \in SUBSET BitPosition :
         /\ set_bit(p, carry, v) \in SUBSET BitPosition
         /\ set_bit(p, zero, v) \in SUBSET BitPosition
         /\ set_bit(p, interrupt_disable, v) \in SUBSET BitPosition
         /\ set_bit(p, decimal_mode, v) \in SUBSET BitPosition
         /\ set_bit(p, overflow, v) \in SUBSET BitPosition
         /\ set_bit(p, negative, v) \in SUBSET BitPosition
  BY BitNames, SetBitType
<1>4. /\ Sum.value \in Byte /\ Difference \in Byte
      /\ \A b \in Byte : add(b, 1).value \in Byte /\ sub(b, 1).value \in Byte
      /\ \A b \in Byte : /\ shl(b, 0).value \in Byte /\ shr(b, 0).value \in Byte
                         /\ shl(b, CarryIn(P)).value \in Byte
                         /\ shr(b, CarryIn(P)).value \in Byte
  BY OperationTypes, CarryInType
<1>5. /\ \A r : ShiftFlags(r) \in SUBSET BitPosition
      /\ \A r : LSRFlags(r) \in SUBSET BitPosition
      /\ \A r : StickyCarry(r) \in SUBSET BitPosition
      /\ TestFlags \in SUBSET BitPosition
  BY FlagSetTypes
<1>6. /\ \A s : FromBits(s) \in Byte
      /\ \A b : ToBits(b) \in SUBSET BitPosition
  BY BitsType
<1>7. read(S) \in Byte
  BY ReadType DEF TypeOK, MemoryOK
<1>8. Advance("OK") => ControlOK'
  BY AdvanceType DEF InstructionErr
<1>9. NoWrite => MemoryOK'
  BY NoWriteType
<1>10. \A bit : get_bit(P, bit) \in BOOLEAN
  BY DEF get_bit
<1>11. \A k : is_bit_set(operand, k) \in BOOLEAN
  BY DEF is_bit_set
<1>12. CASE LDA
  BY <1>12, <1>1, <1>2, <1>3, ShapesType DEF LDA
<1>13. CASE LDX
  BY <1>13, <1>1, <1>2, <1>3, ShapesType DEF LDX
<1>14. CASE LDY
  BY <1>14, <1>1, <1>2, <1>3, ShapesType DEF LDY
<1>15. CASE LDAabs
  BY <1>15, <1>1, ShapesType DEF LDAabs
<1>16. CASE STA
  BY <1>16, <1>1, ShapesType DEF STA
<1>17. CASE STX
  BY <1>17, <1>1, ShapesType DEF STX
<1>18. CASE STY
  BY <1>18, <1>1, ShapesType DEF STY
<1>19. CASE STZ
  BY <1>19, <1>1, ShapesType DEF STZ
<1>20. CASE TXA
  BY <1>20, <1>1, ShapesType DEF TXA
<1>21. CASE TYA
  BY <1>21, <1>1, ShapesType DEF TYA
<1>22. CASE TAX
  BY <1>22, <1>1, ShapesType DEF TAX
<1>23. CASE TAY
  BY <1>23, <1>1, ShapesType DEF TAY
<1>24. CASE TSX
  BY <1>24, <1>1, ShapesType DEF TSX
<1>25. CASE TXS
  BY <1>25, <1>1, <1>8, <1>9 DEF TXS, TypeOK, RegistersOK
<1>26. CASE ADC
  BY <1>26, <1>1, <1>2, <1>3, <1>4, ShapesType DEF ADC
<1>27. CASE SBC
  BY <1>27, <1>1, <1>2, <1>3, <1>4, ShapesType DEF SBC
<1>28. CASE CMP
  BY <1>28, <1>1, <1>3, ShapesType DEF CMP
<1>29. CASE CMPind
  BY <1>29, CompareType DEF CMPind
<1>30. CASE CPX
  BY <1>30, CompareType DEF CPX
<1>31. CASE CPY
  BY <1>31, CompareType DEF CPY
<1>32. CASE CPXimm
  BY <1>32, CompareType DEF CPXimm
<1>33. CASE CPYimm
  BY <1>33, CompareType DEF CPYimm
<1>34. CASE INX
  BY <1>34, <1>1, <1>4, <1>5, ShapesType DEF INX
<1>35. CASE INY
  BY <1>35, <1>1, <1>4, <1>5, ShapesType DEF INY
<1>36. CASE DEY
  BY <1>36, <1>1, <1>4, <1>5, ShapesType DEF DEY
<1>37. CASE DEX
  BY <1>37, <1>1, <1>2, <1>4, ShapesType DEF DEX
<1>38. CASE INC
  BY <1>38, <1>1, <1>2, <1>4, ShapesType DEF INC
<1>39. CASE DEC
  BY <1>39, <1>1, <1>2, <1>4, ShapesType DEF DEC
<1>40. CASE INCacc
  BY <1>40, <1>1, <1>2, <1>4, ShapesType DEF INCacc
<1>41. CASE DECacc
  BY <1>41, <1>1, <1>2, <1>4, ShapesType DEF DECacc
<1>42. CASE AND
  BY <1>42, <1>1, <1>2, <1>6, ShapesType DEF AND, BitAnd, BitOr, BitXor
<1>43. CASE ORA
  BY <1>43, <1>1, <1>2, <1>6, ShapesType DEF ORA, BitAnd, BitOr, BitXor
<1>44. CASE EOR
  BY <1>44, <1>1, <1>2, <1>6, ShapesType DEF EOR, BitAnd, BitOr, BitXor
<1>45. CASE BIT
  BY <1>45, <1>1, <1>2, <1>3, ShapesType DEF BIT
<1>46. CASE BITzp
  BY <1>46, <1>1, <1>2, <1>3, ShapesType DEF BITzp
<1>47. CASE ASL
  BY <1>47, <1>1, <1>4, <1>5, ShapesType DEF ASL
<1>48. CASE LSR
  BY <1>48, <1>1, <1>4, <1>5, ShapesType DEF LSR
<1>49. CASE ROL
  BY <1>49, <1>1, <1>4, <1>5, ShapesType DEF ROL
<1>50. CASE ROR
  BY <1>50, <1>1, <1>4, <1>5, ShapesType DEF ROR
<1>51. CASE ASLacc
  BY <1>51, <1>1, <1>4, <1>5, ShapesType DEF ASLacc
<1>52. CASE LSRacc
  BY <1>52, <1>1, <1>4, <1>5, ShapesType DEF LSRacc
<1>53. CASE ROLacc
  BY <1>53, <1>1, <1>4, <1>5, ShapesType DEF ROLacc
<1>54. CASE RORacc
  BY <1>54, <1>1, <1>4, <1>5, ShapesType DEF RORacc
<1>55. CASE TSB
  BY <1>55, <1>1, <1>5, <1>6, ShapesType DEF TSB, BitOr, BitClear
<1>56. CASE TRB
  BY <1>56, <1>1, <1>5, <1>6, ShapesType DEF TRB, BitOr, BitClear
<1>57. CASE RMB
  BY <1>57, <1>1, <1>5, <1>6, ShapesType DEF RMB, BitOr, BitClear
<1>58. CASE SMB
  BY <1>58, <1>1, <1>5, <1>6, ShapesType DEF SMB, BitOr, BitClear
<1>59. CASE CLC
  BY <1>59, <1>1, <1>3, ShapesType DEF CLC
<1>60. CASE SEC
  BY <1>60, <1>1, <1>3, ShapesType DEF SEC
<1>61. CASE CLI
  BY <1>61, <1>1, <1>3, ShapesType DEF CLI
<1>62. CASE SEI
  BY <1>62, <1>1, <1>3, ShapesType DEF SEI
<1>63. CASE CLD
  BY <1>63, <1>1, <1>3, ShapesType DEF CLD
<1>64. CASE SED
  BY <1>64, <1>1, <1>3, ShapesType DEF SED
<1>65. CASE CLV
  BY <1>65, <1>1, <1>3, ShapesType DEF CLV
<1>66. CASE BPL
  BY <1>66, <1>10, BranchType DEF BPL
<1>67. CASE BMI
  BY <1>67, <1>10, BranchType DEF BMI
<1>68. CASE BVC
  BY <1>68, <1>10, BranchType DEF BVC
<1>69. CASE BVS
  BY <1>69, <1>10, BranchType DEF BVS
<1>70. CASE BCC
  BY <1>70, <1>10, BranchType DEF BCC
<1>71. CASE BCS
  BY <1>71, <1>10, BranchType DEF BCS
<1>72. CASE BNE
  BY <1>72, <1>10, BranchType DEF BNE
<1>73. CASE BEQ
  BY <1>73, <1>10, BranchType DEF BEQ
<1>74. CASE BRA
  BY <1>74, <1>11, BranchType DEF BRA
<1>75. CASE JMP
  BY <1>75, <1>11, BranchType DEF JMP
<1>76. CASE BBR
  BY <1>76, <1>11, BranchType DEF BBR
<1>77. CASE BBS
  BY <1>77, <1>11, BranchType DEF BBS
<1>78. CASE PHA
  BY <1>78, <1>1, PushType DEF PHA
<1>79. CASE PHX
  BY <1>79, <1>1, PushType DEF PHX
<1>80. CASE PHY
  BY <1>80, <1>1, PushType DEF PHY
<1>81. CASE PHP
  BY <1>81, <1>6, PushType DEF PHP
<1>82. CASE PLA
  BY <1>82, <1>1, <1>7, PullType DEF PLA, TypeOK, RegistersOK
<1>83. CASE PLX
  BY <1>83, <1>1, <1>7, PullType DEF PLX, TypeOK, RegistersOK
<1>84. CASE PLY
  BY <1>84, <1>1, <1>7, PullType DEF PLY, TypeOK, RegistersOK
<1>85. CASE PLP
  BY <1>85, <1>1, <1>6, PullType DEF PLP, TypeOK, RegistersOK
<1>86. CASE JSR
  BY <1>86, JSRType DEF JSR
<1>87. CASE BRK
  BY <1>87, BRKType DEF BRK
<1>88. CASE RTS
  BY <1>88, RTSType DEF RTS
<1>89. CASE RTI
  BY <1>89, RTIType DEF RTI
<1>90. CASE DBG
  BY <1>90, ReturningType DEF DBG, InstructionErr
<1>91. CASE NOP
  BY <1>91, ReturningType DEF NOP, InstructionErr
<1>92. CASE STP
  BY <1>92, ReturningType DEF STP, InstructionErr
<1>93. CASE Unknown
  BY <1>93, <1>9 DEF Unknown, registers, TypeOK, RegistersOK, ControlOK, InstructionErr
<1> QED
  BY <1>12, <1>13, <1>14, <1>15, <1>16, <1>17, <1>18, <1>19, <1>20, <1>21, <1>22, <1>23,
     <1>24, <1>25, <1>26, <1>27, <1>28, <1>29, <1>30, <1>31, <1>32, <1>33, <1>34, <1>35,
     <1>36, <1>37, <1>38, <1>39, <1>40, <1>41, <1>42, <1>43, <1>44, <1>45, <1>46, <1>47,
     <1>48, <1>49, <1>50, <1>51, <1>52, <1>53, <1>54, <1>55, <1>56, <1>57, <1>58, <1>59,
     <1>60, <1>61, <1>62, <1>63, <1>64, <1>65, <1>66, <1>67, <1>68, <1>69, <1>70, <1>71,
     <1>72, <1>73, <1>74, <1>75, <1>76, <1>77, <1>78, <1>79, <1>80, <1>81, <1>82, <1>83,
     <1>84, <1>85, <1>86, <1>87, <1>88, <1>89, <1>90, <1>91, <1>92, <1>93 DEF step

-----------------------------------------------------------------------------
(* Type correctness *)

LEMMA InitType == Init => TypeOK
<1> SUFFICES ASSUME Init
             PROVE  TypeOK
  OBVIOUS
<1>1. IsMemory(mem) /\ size \in Nat
  BY ImagesAssumption DEF Init
<1>2. ResetAddress \in Word
  BY <1>1, ReadType, AddressType DEF ResetAddress
<1>3. MemoryOK
  BY <1>1, PrintDevicesAssumption DEF Init, MemoryOK
<1>4. ControlOK
  BY <1>2, DebugModesAssumption DEF Init, ControlOK, InstructionErr
<1>5. S \in Byte /\ 0 \in Byte
  BY DEF Init, Byte
<1>6. P \in SUBSET BitPosition
  BY BitNames DEF Init, InitialPsr
<1>7. RegistersOK
  BY <1>5, <1>6 DEF Init, RegistersOK
<1> QED
  BY <1>3, <1>4, <1>7 DEF TypeOK

LEMMA StutterType == TypeOK /\ UNCHANGED cpuVars => TypeOK'
BY DEF TypeOK, RegistersOK, ControlOK, MemoryOK, IsMemory, cpuVars, memoryVars

\* Calls of step from anywhere: execute makes them while the memory lasts, and the
\* prompt of the debugger behind its end as well.
Steps == Init /\ [][step]_cpuVars

LEMMA ExecuteSteps == Spec => Steps
<1>1. [execute]_cpuVars => [step]_cpuVars
  BY DEF execute
<1> QED
  BY <1>1, PTL DEF Spec, Steps

LEMMA StepsKeepTypes == Steps => []TypeOK
<1>1. Init => TypeOK
  BY InitType
<1>2. TypeOK /\ [step]_cpuVars => TypeOK'
  BY StepType, StutterType
<1> QED
  BY <1>1, <1>2, PTL DEF Steps

\* Whatever the image, the print device and the debug mode: no register, cell,
\* address or printed byte ever leaves the width of its C++ type, and the status
\* register keeps its eight bits (6502cpu.h:40, address.h:8, byte_utils.h:41).
THEOREM TypeCorrect == Spec => []TypeOK
BY ExecuteSteps, StepsKeepTypes

-----------------------------------------------------------------------------
(* The print device *)

CellOfDevice(m) == IF print_device_addr \in DOMAIN m THEN m[print_device_addr] ELSE 0

\* A sequence of writes that made the memory m and printed o: the device is as it
\* was if nothing was printed, and holds the byte printed last otherwise.
Faithful(m, o) == /\ o = <<>> => CellOfDevice(m) = read(print_device_addr)
                  /\ o # <<>> => CellOfDevice(m) = o[Len(o)]

LEMMA FirstWrite ==
  ASSUME NEW a, NEW v
  PROVE  Faithful(written(mem, a, v), printed(a, v))
BY DEF Faithful, CellOfDevice, written, printed, read

LEMMA NextWrite ==
  ASSUME NEW m, NEW o \in Seq(Byte), NEW a, NEW v \in Byte, Faithful(m, o)
  PROVE  Faithful(written(m, a, v), o \o printed(a, v))
<1>1. CASE a = print_device_addr
  <2>1. printed(a, v) = <<v>> /\ CellOfDevice(written(m, a, v)) = v
    BY <1>1 DEF printed, written, CellOfDevice
  <2>2. o \o <<v>> # <<>> /\ (o \o <<v>>)[Len(o \o <<v>>)] = v
    OBVIOUS
  <2> QED
    BY <2>1, <2>2 DEF Faithful
<1>2. CASE a # print_device_addr
  <2>1. printed(a, v) = <<>> /\ CellOfDevice(written(m, a, v)) = CellOfDevice(m)
    BY <1>2 DEF printed, written, CellOfDevice
  <2>2. o \o <<>> = o
    OBVIOUS
  <2> QED
    BY <2>1, <2>2 DEF Faithful
<1> QED
  BY <1>1, <1>2

LEMMA PcWrites ==
  ASSUME TypeOK
  PROVE  Faithful(PcPushed, PcPrinted)
<1>1. high(PC) \in Byte /\ low(PC) \in Byte
  BY HalvesType DEF TypeOK, ControlOK
<1>2. printed(pushed(1), high(PC)) \in Seq(Byte)
  BY <1>1, PrintedType
<1> QED
  BY <1>1, <1>2, FirstWrite, NextWrite DEF PcPushed, PcPrinted

\* What a step may do to the memory
LEMMA StepWrites ==
  ASSUME step
  PROVE  NoWrite \/ (\E a, v : write(a, v)) \/ JSR \/ BRK
<1>1. ASSUME \/ LDA \/ LDAabs \/ TXA \/ TYA \/ ADC \/ SBC \/ INCacc \/ DECacc
             \/ AND \/ ORA \/ EOR \/ ASLacc \/ LSRacc \/ ROLacc \/ RORacc
             \/ LDX \/ TAX \/ TSX \/ INX \/ DEX
             \/ LDY \/ TAY \/ INY \/ DEY
      PROVE  NoWrite
  BY <1>1 DEF LDA, LDAabs, TXA, TYA, ADC, SBC, INCacc, DECacc, AND, ORA, EOR, ASLacc, LSRacc,
              ROLacc, RORacc, LDX, TAX, TSX, INX, DEX, LDY, TAY, INY, DEY, ToA, ToX, ToY
<1>2. ASSUME \/ CMP \/ CMPind \/ CPX \/ CPY \/ CPXimm \/ CPYimm \/ BIT \/ BITzp
             \/ CLC \/ SEC \/ CLI \/ SEI \/ CLD \/ SED \/ CLV
      PROVE  NoWrite
  BY <1>2 DEF CMP, CMPind, CPX, CPY, CPXimm, CPYimm, Compare, BIT, BITzp,
              CLC, SEC, CLI, SEI, CLD, SED, CLV, ToP
<1>3. ASSUME \/ BPL \/ BMI \/ BVC \/ BVS \/ BCC \/ BCS \/ BNE \/ BEQ \/ BRA \/ JMP
             \/ BBR \/ BBS
      PROVE  NoWrite
  BY <1>3 DEF BPL, BMI, BVC, BVS, BCC, BCS, BNE, BEQ, BRA, JMP, BBR, BBS, Branch
<1>4. ASSUME \/ TXS \/ PLA \/ PLX \/ PLY \/ PLP \/ RTS \/ RTI
             \/ DBG \/ NOP \/ STP \/ Unknown
      PROVE  NoWrite
  BY <1>4 DEF TXS, PLA, PLX, PLY, PLP, Pull, RTS, RTI, DBG, NOP, STP, Returning, Unknown
<1>5. ASSUME \/ STA \/ STX \/ STY \/ STZ \/ INC \/ DEC \/ ASL \/ LSR \/ ROL \/ ROR
             \/ TSB \/ TRB \/ RMB \/ SMB
      PROVE  \E a, v : write(a, v)
  BY <1>5 DEF STA, STX, STY, STZ, INC, DEC, ASL, LSR, ROL, ROR, TSB, TRB, RMB, SMB, ToMem
<1>6. ASSUME PHA \/ PHX \/ PHY \/ PHP
      PROVE  \E a, v : write(a, v)
  BY <1>6 DEF PHA, PHX, PHY, PHP, push_stack
<1> QED
  BY <1>1, <1>2, <1>3, <1>4, <1>5, <1>6 DEF step

LEMMA StepFaithful ==
  ASSUME TypeOK, step
  PROVE  Faithful(mem', out') /\ print_device_addr' = print_device_addr
<1>1. CASE NoWrite
  BY <1>1 DEF NoWrite, Faithful, CellOfDevice, read
<1>2. CASE \E a, v : write(a, v)
  BY <1>2, FirstWrite DEF write
<1>3. CASE JSR
  BY <1>3, PcWrites DEF JSR
<1>4. CASE BRK
  <2>1. Faithful(written(PcPushed, pushed(3), FromBits(P)),
                 PcPrinted \o printed(pushed(3), FromBits(P)))
    BY PcWrites, PcPushedType, BitsType, NextWrite
  <2> QED
    BY <1>4, <2>1 DEF BRK
<1> QED
  BY <1>1, <1>2, <1>3, <1>4, StepWrites

LEMMA StepsPrintAndStore == Steps => []PrintedIsStored
<1>1. Init => PrintedIsStored
  BY DEF Init, PrintedIsStored
<1>2. TypeOK /\ PrintedIsStored /\ [step]_cpuVars => PrintedIsStored'
  <2> SUFFICES ASSUME TypeOK, PrintedIsStored, [step]_cpuVars
               PROVE  PrintedIsStored'
    OBVIOUS
  <2>1. CASE step
    BY <2>1, StepFaithful DEF Faithful, CellOfDevice, PrintedIsStored, read
  <2>2. CASE UNCHANGED cpuVars
    BY <2>2 DEF cpuVars, memoryVars, PrintedIsStored, read
  <2> QED
    BY <2>1, <2>2
<1> QED
  BY <1>1, <1>2, StepsKeepTypes, PTL DEF Steps

\* The print device holds the byte that was printed last, also when the device
\* lies in the stack and one JSR or BRK prints several bytes (gp_memory.cpp:39).
THEOREM PrintedIsStoredAlways == Spec => []PrintedIsStored
BY ExecuteSteps, StepsPrintAndStore

LEMMA StepsStoreAndPrint == Steps => StoredIsPrinted
<1>1. TypeOK /\ [step]_cpuVars
        => [read(print_device_addr)' # read(print_device_addr) => out' # <<>>]_cpuVars
  BY StepFaithful DEF Faithful, CellOfDevice, read
<1> QED
  BY <1>1, StepsKeepTypes, PTL DEF Steps, StoredIsPrinted

\* Nothing changes what the print device holds without printing (gp_memory.cpp:39).
THEOREM StoredIsPrintedAlways == Spec => StoredIsPrinted
BY ExecuteSteps, StepsStoreAndPrint

-----------------------------------------------------------------------------
(* Arithmetic *)

\* An opcode has one lambda; these are the instructions that proofs execute.
LEMMA OneLambda ==
  ASSUME step
  PROVE  /\ Executing("ADC") => ADC
         /\ Executing("SBC") => SBC
         /\ Executing("LDA") => LDA
         /\ Executing("LDX") => LDX
         /\ Executing("LDY") => LDY
         /\ Executing("STA") => STA
         /\ Executing("INX") => INX
         /\ Executing("DEY") => DEY
         /\ Executing("CLC") => CLC
         /\ Executing("SEC") => SEC
         /\ Executing("BNE") => BNE
         /\ Executing("STP") => STP
         /\ Executing("BEQ") => BEQ
         /\ Executing("JMP") => JMP
         /\ Executing("JSR") => JSR
         /\ Executing("RTS") => RTS
         /\ Executing("BRK") => BRK
         /\ Executing("RTI") => RTI
         /\ Executing("DBG") => DBG
         /\ Executing("LSR") => LSR
         /\ Executing("LSRacc") => LSRacc
<1> DEFINE op == isa[opcode].op
<1>1. ASSUME \/ LDAabs \/ STX \/ STY \/ STZ \/ TXA \/ TYA \/ TAX \/ TAY \/ TSX \/ TXS
             \/ CMP \/ CMPind \/ CPX \/ CPY \/ CPXimm \/ CPYimm \/ INY \/ DEX \/ INC \/ DEC \/ INCacc
             \/ DECacc \/ AND \/ ORA \/ EOR \/ BIT \/ BITzp \/ ASL \/ ROL \/ ROR
             \/ ASLacc \/ ROLacc \/ RORacc \/ TSB \/ TRB \/ RMB \/ SMB \/ CLI
             \/ SEI \/ CLD \/ SED \/ CLV \/ BPL \/ BMI \/ BVC \/ BVS \/ BCC \/ BCS
             \/ BRA \/ BBR \/ BBS \/ PHA \/ PHX \/ PHY \/ PHP \/ PLA \/ PLX \/ PLY
             \/ PLP \/ NOP
      PROVE  op \notin {"ADC", "SBC", "LDA", "LDX", "LDY", "STA", "INX", "DEY", "CLC", "SEC",
                        "BNE", "STP", "BEQ", "JMP", "JSR", "RTS", "BRK", "RTI", "DBG",
                        "LSR", "LSRacc"}
  BY <1>1 DEF Executing,
              LDAabs, STX, STY, STZ, TXA, TYA, TAX, TAY, TSX, TXS, CMP, CMPind, CPX, CPY,
              CPXimm, CPYimm, INY, DEX, INC, DEC, INCacc, DECacc, AND, ORA, EOR, BIT, BITzp,
              ASL, ROL, ROR, ASLacc, ROLacc, RORacc, TSB, TRB, RMB, SMB, CLI,
              SEI, CLD, SED, CLV, BPL, BMI, BVC, BVS, BCC, BCS, BRA, BBR, BBS, PHA,
              PHX, PHY, PHP, PLA, PLX, PLY, PLP, NOP
<1>2. /\ ADC => op = "ADC"
      /\ SBC => op = "SBC"
      /\ LDA => op = "LDA"
      /\ LDX => op = "LDX"
      /\ LDY => op = "LDY"
      /\ STA => op = "STA"
      /\ INX => op = "INX"
      /\ DEY => op = "DEY"
      /\ CLC => op = "CLC"
      /\ SEC => op = "SEC"
      /\ BNE => op = "BNE"
      /\ STP => op = "STP"
      /\ BEQ => op = "BEQ"
      /\ JMP => op = "JMP"
      /\ JSR => op = "JSR"
      /\ RTS => op = "RTS"
      /\ BRK => op = "BRK"
      /\ RTI => op = "RTI"
      /\ DBG => op = "DBG"
      /\ LSR => op = "LSR"
      /\ LSRacc => op = "LSRacc"
  BY DEF Executing, ADC, SBC, LDA, LDX, LDY, STA, INX, DEY, CLC, SEC, BNE, STP,
         BEQ, JMP, JSR, RTS, BRK, RTI, DBG, LSR, LSRacc
<1>3. Unknown => ~Known
  BY DEF Unknown
<1> HIDE DEF op
<1>4. \A mnemonic : Executing(mnemonic) => Known /\ op = mnemonic
  BY DEF Executing, op
<1> QED
  BY <1>1, <1>2, <1>3, <1>4 DEF step

LEMMA SetBitMembers ==
  ASSUME NEW p, NEW bit \in BitPosition, bit # unused, NEW v \in BOOLEAN
  PROVE  /\ bit \in set_bit(p, bit, v) <=> v
         /\ \A other : other # bit => (other \in set_bit(p, bit, v) <=> other \in p)
BY DEF set_bit

LEMMA UpdateFlagsMembers ==
  ASSUME NEW p, NEW v \in Byte
  PROVE  /\ negative \in update_flags(p, v) <=> v > 127
         /\ zero \in update_flags(p, v) <=> v = 0
         /\ carry \in update_flags(p, v) <=> carry \in p
         /\ overflow \in update_flags(p, v) <=> overflow \in p
BY DEF update_flags, set_bit, is_zero, is_negative, negative, zero, carry, overflow, unused, Byte

LEMMA CarryOverflowMembers ==
  ASSUME NEW p, NEW c \in BOOLEAN, NEW v \in BOOLEAN
  PROVE  LET q == set_bit(set_bit(p, carry, c), overflow, v)
         IN  /\ carry \in q <=> c
             /\ overflow \in q <=> v
BY DEF set_bit, carry, overflow, unused

-----------------------------------------------------------------------------
(* ADC *)

LEMMA SumIsRight ==
  ASSUME TypeOK
  PROVE  LET c        == CarryIn(P)
             unsigned == A + operand + c
             signed   == Signed(A) + Signed(operand) + c
         IN  /\ Sum.value = unsigned % 256
             /\ Sum.carry <=> unsigned > 255
             /\ SumOverflows <=> signed \notin -128..127
<1> DEFINE c == CarryIn(P)
           unsigned == A + operand + c
           signed == Signed(A) + Signed(operand) + c
<1>1. A \in 0..255 /\ operand \in 0..255 /\ c \in {0, 1}
  BY OperandType, CarryInType DEF TypeOK, RegistersOK, Byte
<1> HIDE DEF c
<1>2. Sum.value = unsigned % 256 /\ (Sum.carry <=> unsigned > 255)
  <2>1. /\ Sum.value = (add(A, operand).value + c) % 256
        /\ Sum.carry <=> add(A, operand).value + c > 255 \/ add(A, operand).carry
    BY DEF Sum, add_result, c
  <2>2. /\ add(A, operand).value = (A + operand) % 256
        /\ add(A, operand).carry <=> A + operand > 255
    BY DEF add
  <2>3. add(A, operand).value = IF A + operand > 255 THEN A + operand - 256 ELSE A + operand
    BY <1>1, <2>2
  <2> QED
    BY <1>1, <2>1, <2>2, <2>3
<1>3. SumOverflows <=> signed \notin -128..127
  <2>1. Sum.value = IF unsigned > 255 THEN unsigned - 256 ELSE unsigned
    BY <1>1, <1>2
  <2> QED
    BY <1>1, <2>1 DEF SumOverflows, is_negative, Signed
<1> QED
  BY <1>2, <1>3 DEF c

LEMMA StepsAddBothWays == Steps => AddsBothWays
<1> DEFINE Adds ==
      Executing("ADC") =>
        LET c        == CarryIn(P)
            unsigned == A + operand + c
            signed   == Signed(A) + Signed(operand) + c
        IN  /\ A' = unsigned % 256
            /\ carry \in P' <=> unsigned > 255
            /\ overflow \in P' <=> signed \notin -128..127
            /\ negative \in P' <=> A' > 127
            /\ zero \in P' <=> A' = 0
<1>1. TypeOK /\ [step]_cpuVars => [Adds]_cpuVars
  <2> SUFFICES ASSUME TypeOK, step, Executing("ADC")
               PROVE  Adds
    OBVIOUS
  <2>1. ADC
    BY OneLambda
  <2>2. /\ A' = Sum.value
        /\ P' = update_flags(set_bit(set_bit(P, carry, Sum.carry), overflow, SumOverflows),
                             Sum.value)
    BY <2>1 DEF ADC, ToA
  <2>3. Sum.value \in Byte /\ Sum.carry \in BOOLEAN /\ SumOverflows \in BOOLEAN
    BY OperationTypes DEF Sum, add_result, SumOverflows
  <2>4. /\ negative \in P' <=> Sum.value > 127
        /\ zero \in P' <=> Sum.value = 0
        /\ carry \in P' <=> Sum.carry
        /\ overflow \in P' <=> SumOverflows
    BY <2>2, <2>3, UpdateFlagsMembers, CarryOverflowMembers
  <2> QED
    BY <2>2, <2>4, SumIsRight
<1> QED
  BY <1>1, StepsKeepTypes, PTL DEF Steps, AddsBothWays

\* For every carry, accumulator and operand, ADC leaves the unsigned sum in A and
\* C, and tells in V whether the signed one fits (6502isa.cpp:11).
THEOREM AddsBothWaysAlways == Spec => AddsBothWays
BY ExecuteSteps, StepsAddBothWays

-----------------------------------------------------------------------------
(* SBC *)

LEMMA DifferenceIsRight ==
  ASSUME TypeOK
  PROVE  LET b        == 1 - CarryIn(P)
             unsigned == A - operand - b
             signed   == Signed(A) - Signed(operand) - b
         IN  /\ Difference = Plus(unsigned, 0) % 256
             /\ (A >= operand + Borrow) <=> unsigned >= 0
             /\ DifferenceOverflows <=> signed \notin -128..127
<1> DEFINE b == 1 - CarryIn(P)
           unsigned == A - operand - b
           signed == Signed(A) - Signed(operand) - b
<1>1. A \in 0..255 /\ operand \in 0..255 /\ b \in {0, 1}
  BY OperandType, CarryInType DEF TypeOK, RegistersOK, Byte
<1>2. Borrow = b
  BY DEF Borrow
<1> HIDE DEF b
<1>3. Difference = IF unsigned >= 0 THEN unsigned ELSE unsigned + 256
  BY <1>1, <1>2 DEF Difference
<1>4. Plus(unsigned, 0) % 256 = IF unsigned >= 0 THEN unsigned ELSE unsigned + 256
  <2>1. unsigned \in Int /\ unsigned >= -256 /\ unsigned <= 255
    BY <1>1
  <2> HIDE DEF unsigned
  <2>2. WordSize = 256 * 256
    BY DEF WordSize
  <2>3. Plus(unsigned, 0) = IF unsigned >= 0 THEN unsigned ELSE unsigned + 256 * 256
    BY <2>1, <2>2 DEF Plus
  <2> QED
    BY <2>1, <2>3
<1>5. (A >= operand + Borrow) <=> unsigned >= 0
  BY <1>1, <1>2
<1>6. DifferenceOverflows <=> signed \notin -128..127
  BY <1>1, <1>3 DEF DifferenceOverflows, is_negative, Signed
<1> QED
  BY <1>3, <1>4, <1>5, <1>6 DEF b

LEMMA StepSubtracts ==
  ASSUME TypeOK, step, Executing("SBC")
  PROVE  LET b        == 1 - CarryIn(P)
             unsigned == A - operand - b
             signed   == Signed(A) - Signed(operand) - b
         IN  /\ A' = Plus(unsigned, 0) % 256
             /\ carry \in P' <=> unsigned >= 0
             /\ overflow \in P' <=> signed \notin -128..127
             /\ negative \in P' <=> A' > 127
             /\ zero \in P' <=> A' = 0
<1>1. SBC
  BY OneLambda
<1> DEFINE NoBorrow == A >= operand + Borrow
<1>2. /\ A' = Difference
      /\ P' = update_flags(set_bit(set_bit(P, carry, NoBorrow), overflow, DifferenceOverflows),
                           Difference)
  BY <1>1 DEF SBC, ToA
<1>3. Difference \in Byte /\ NoBorrow \in BOOLEAN /\ DifferenceOverflows \in BOOLEAN
  BY OperationTypes DEF DifferenceOverflows
<1>4. NoBorrow <=> A - operand - (1 - CarryIn(P)) >= 0
  BY DifferenceIsRight
<1> HIDE DEF NoBorrow
<1>5. /\ negative \in P' <=> Difference > 127
      /\ zero \in P' <=> Difference = 0
      /\ carry \in P' <=> NoBorrow
      /\ overflow \in P' <=> DifferenceOverflows
  BY <1>2, <1>3, UpdateFlagsMembers, CarryOverflowMembers
<1> QED
  BY <1>2, <1>4, <1>5, DifferenceIsRight

LEMMA StepsSubtractBothWays == Steps => SubtractsBothWays
<1>1. TypeOK /\ [step]_cpuVars
        => [Executing("SBC") =>
              LET b        == 1 - CarryIn(P)
                  unsigned == A - operand - b
                  signed   == Signed(A) - Signed(operand) - b
              IN  /\ A' = Plus(unsigned, 0) % 256
                  /\ carry \in P' <=> unsigned >= 0
                  /\ overflow \in P' <=> signed \notin -128..127
                  /\ negative \in P' <=> A' > 127
                  /\ zero \in P' <=> A' = 0]_cpuVars
  BY StepSubtracts
<1> QED
  BY <1>1, StepsKeepTypes, PTL DEF Steps, SubtractsBothWays

\* The same of SBC, whose V the code computes with exclusive ors (6502isa.cpp:58).
THEOREM SubtractsBothWaysAlways == Spec => SubtractsBothWays
BY ExecuteSteps, StepsSubtractBothWays

-----------------------------------------------------------------------------
(* N and Z *)

ToAccumulator == {"LDA", "ADC", "SBC", "AND", "ORA", "EOR", "ASLacc", "ROLacc",
                  "RORacc", "INCacc", "DECacc"}
ToIndexX      == {"LDX", "INX", "DEX"}
ToIndexY      == {"LDY", "INY", "DEY"}
ToCell        == {"ASL", "ROL", "ROR", "INC", "DEC"}

\* The flags are updated for the value v, after whatever other flags were set.
Updated(v) == \E p : P' = update_flags(p, v)

UpdatesA == Updated(A') /\ ExecutingOneOf(ToAccumulator)
UpdatesX == Updated(X') /\ ExecutingOneOf(ToIndexX)
UpdatesY == Updated(Y') /\ ExecutingOneOf(ToIndexY)
UpdatesCell == /\ Updated(mem'[op_address]) /\ op_address \in DOMAIN mem'
               /\ ExecutingOneOf(ToCell)

LEMMA StepUpdates ==
  ASSUME step
  PROVE  \/ UpdatesA \/ UpdatesX \/ UpdatesY \/ UpdatesCell
         \/ ~ExecutingOneOf(ToAccumulator \cup ToIndexX \cup ToIndexY \cup ToCell)
<1> USE DEF ExecutingOneOf, Executing
<1>1. ASSUME \/ LDA \/ ADC \/ SBC \/ AND \/ ORA \/ EOR \/ ASLacc \/ ROLacc \/ RORacc
             \/ INCacc \/ DECacc
      PROVE  UpdatesA
  BY <1>1 DEF LDA, ADC, SBC, AND, ORA, EOR, ASLacc, ROLacc, RORacc, INCacc, DECacc, ToA,
              ShiftFlags, UpdatesA, Updated, ToAccumulator
<1>2. ASSUME LDX \/ INX \/ DEX
      PROVE  UpdatesX
  BY <1>2 DEF LDX, INX, DEX, ToX, StickyCarry, UpdatesX, Updated, ToIndexX
<1>3. ASSUME LDY \/ INY \/ DEY
      PROVE  UpdatesY
  BY <1>3 DEF LDY, INY, DEY, ToY, StickyCarry, UpdatesY, Updated, ToIndexY
<1>4. ASSUME ASL \/ ROL \/ ROR \/ INC \/ DEC
      PROVE  UpdatesCell
  BY <1>4 DEF ASL, ROL, ROR, INC, DEC, ToMem, write, written, ShiftFlags, UpdatesCell,
              Updated, ToCell
<1>5. ASSUME \/ LDAabs \/ STA \/ STX \/ STY \/ STZ \/ TXA \/ TYA \/ TAX \/ TAY \/ TSX \/ TXS
             \/ CMP \/ CMPind \/ CPX \/ CPY \/ CPXimm \/ CPYimm \/ BIT \/ BITzp
             \/ LSR \/ LSRacc \/ TSB \/ TRB \/ RMB \/ SMB
      PROVE  ~ExecutingOneOf(ToAccumulator \cup ToIndexX \cup ToIndexY \cup ToCell)
  BY <1>5 DEF LDAabs, STA, STX, STY, STZ, TXA, TYA, TAX, TAY, TSX, TXS, CMP, CMPind, CPX, CPY,
              CPXimm, CPYimm, BIT, BITzp, LSR, LSRacc, TSB, TRB, RMB, SMB,
              ToAccumulator, ToIndexX, ToIndexY, ToCell
<1>6. ASSUME \/ CLC \/ SEC \/ CLI \/ SEI \/ CLD \/ SED \/ CLV
             \/ BPL \/ BMI \/ BVC \/ BVS \/ BCC \/ BCS \/ BNE \/ BEQ \/ BRA \/ JMP \/ BBR \/ BBS
             \/ PHA \/ PHX \/ PHY \/ PHP \/ PLA \/ PLX \/ PLY \/ PLP
             \/ JSR \/ RTS \/ BRK \/ RTI \/ DBG \/ NOP \/ STP \/ Unknown
      PROVE  ~ExecutingOneOf(ToAccumulator \cup ToIndexX \cup ToIndexY \cup ToCell)
  BY <1>6 DEF CLC, SEC, CLI, SEI, CLD, SED, CLV, BPL, BMI, BVC, BVS, BCC, BCS, BNE, BEQ, BRA,
              JMP, BBR, BBS, PHA, PHX, PHY, PHP, PLA, PLX, PLY, PLP, JSR, RTS, BRK, RTI, DBG,
              NOP, STP, Unknown, ToAccumulator, ToIndexX, ToIndexY, ToCell
<1> QED
  BY <1>1, <1>2, <1>3, <1>4, <1>5, <1>6 DEF step

LEMMA UpdatedDescribes ==
  ASSUME NEW v \in Byte, Updated(v)
  PROVE  FlagsDescribe(P', v)
BY UpdateFlagsMembers DEF Updated, FlagsDescribe

LEMMA StepDescribes ==
  ASSUME TypeOK, step
  PROVE  /\ ExecutingOneOf(ToAccumulator) => FlagsDescribe(P', A')
         /\ ExecutingOneOf(ToIndexX) => FlagsDescribe(P', X')
         /\ ExecutingOneOf(ToIndexY) => FlagsDescribe(P', Y')
         /\ ExecutingOneOf(ToCell) => FlagsDescribe(P', mem'[op_address])
<1> USE DEF ExecutingOneOf, ToAccumulator, ToIndexX, ToIndexY, ToCell
<1>1. A' \in Byte /\ X' \in Byte /\ Y' \in Byte /\ IsMemory(mem')
  BY StepType DEF TypeOK, RegistersOK, MemoryOK
<1>2. CASE UpdatesA
  BY <1>1, <1>2, UpdatedDescribes DEF UpdatesA
<1>3. CASE UpdatesX
  BY <1>1, <1>3, UpdatedDescribes DEF UpdatesX
<1>4. CASE UpdatesY
  BY <1>1, <1>4, UpdatedDescribes DEF UpdatesY
<1>5. CASE UpdatesCell
  <2>1. mem'[op_address] \in Byte
    BY <1>1, <1>5 DEF UpdatesCell, IsMemory
  <2> QED
    BY <1>5, <2>1, UpdatedDescribes DEF UpdatesCell
<1> QED
  BY <1>2, <1>3, <1>4, <1>5, StepUpdates

\* LSR clears N, and shifts a 0 into the sign.
LEMMA ShiftedRight ==
  ASSUME NEW b \in Byte
  PROVE  /\ ~(shr(b, 0).value > 127)
         /\ negative \notin LSRFlags(shr(b, 0))
<1>1. shr(b, 0).value = b \div 2
  BY DEF shr, Byte
<1> QED
  BY <1>1 DEF Byte, LSRFlags, set_bit, negative, unused

LEMMA StepShiftsRight ==
  ASSUME TypeOK, step
  PROVE  /\ ExecutingOneOf({"LSRacc"}) => (negative \in P' <=> A' > 127)
         /\ ExecutingOneOf({"LSR"}) => (negative \in P' <=> mem'[op_address] > 127)
<1>1. A \in Byte /\ operand \in Byte
  BY OperandType DEF TypeOK, RegistersOK
<1>2. ASSUME LSRacc
      PROVE  negative \in P' <=> A' > 127
  BY <1>1, <1>2, ShiftedRight DEF LSRacc, ToA
<1>3. ASSUME LSR
      PROVE  negative \in P' <=> mem'[op_address] > 127
  <2>1. /\ mem' = written(mem, op_address, shr(operand, 0).value)
        /\ P' = LSRFlags(shr(operand, 0))
    BY <1>3 DEF LSR, ToMem, write
  <2>2. mem'[op_address] = shr(operand, 0).value
    BY <2>1 DEF written
  <2> QED
    BY <1>1, <2>1, <2>2, ShiftedRight
<1> QED
  BY <1>2, <1>3, OneLambda DEF ExecutingOneOf, Executing

LEMMA StepsDescribe == Steps => FlagsDescribeResult
<1>1. TypeOK /\ [step]_cpuVars
        => [/\ ExecutingOneOf({"LDA", "ADC", "SBC", "AND", "ORA", "EOR", "ASLacc", "ROLacc",
                               "RORacc", "INCacc", "DECacc"}) => FlagsDescribe(P', A')
            /\ ExecutingOneOf({"LDX", "INX", "DEX"}) => FlagsDescribe(P', X')
            /\ ExecutingOneOf({"LDY", "INY", "DEY"}) => FlagsDescribe(P', Y')
            /\ ExecutingOneOf({"ASL", "ROL", "ROR", "INC", "DEC"})
                 => FlagsDescribe(P', mem'[op_address])
            /\ ExecutingOneOf({"LSRacc"}) => (negative \in P' <=> A' > 127)
            /\ ExecutingOneOf({"LSR"}) => (negative \in P' <=> mem'[op_address] > 127)]_cpuVars
  BY StepDescribes, StepShiftsRight DEF ToAccumulator, ToIndexX, ToIndexY, ToCell
<1> QED
  BY <1>1, StepsKeepTypes, PTL DEF Steps, FlagsDescribeResult

\* After the instructions that FlagsDescribeResult names, whatever the operands, N
\* and Z describe what the register or the cell now holds: theirs are the lambdas
\* that call update_flags (6502cpu.cpp:12) for a value they keep.  After LSR, which
\* sets N by itself, N does (6502isa.cpp:1154).
THEOREM FlagsDescribeAlways == Spec => FlagsDescribeResult
BY ExecuteSteps, StepsDescribe

-----------------------------------------------------------------------------
(* The lengths of the instructions *)

LEMMA ModeEntries ==
  \A m, f : /\ DOMAIN Mode(m, f) = DOMAIN f
            /\ \A o \in DOMAIN f : /\ Mode(m, f)[o].op = f[o]
                                   /\ Mode(m, f)[o].mode = m
BY DEF Mode

\* An instruction of the mode is as long as its opcode and the operand bytes read.
LengthFits(m) == bytes_for_addressing_mode(m) = 1 + OperandBytes(m)

\* So are all those in a part of the table that do not jump.
LengthsFit(f) == \A o \in DOMAIN f : LengthFits(f[o].mode) \/ f[o].op = "JMP"

LEMMA ModesFit ==
  \A m \in {"Absolute", "AbsoluteIndexedX", "AbsoluteIndexedY", "AbsoluteIndirect",
            "Accumulator", "Immediate", "Implied", "PCRelative", "Stack", "ZeroPage",
            "ZeroPageIndexedIndirect", "ZeroPageIndexedX", "ZeroPageIndexedY",
            "ZeroPageIndirect", "ZeroPageIndirectIndexedY"} : LengthFits(m)
BY DEF LengthFits, bytes_for_addressing_mode, OperandBytes

LEMMA PartsFit ==
  /\ \A f, g : LengthsFit(f) /\ LengthsFit(g) => LengthsFit(f @@ g)
  /\ \A f, m : LengthFits(m) => LengthsFit(Mode(m, f))
  /\ \A o, m : LengthsFit(Mode(m, o :> "JMP"))
<1>1. ASSUME NEW f, NEW g, LengthsFit(f), LengthsFit(g), NEW o \in DOMAIN (f @@ g)
      PROVE  LengthFits((f @@ g)[o].mode) \/ (f @@ g)[o].op = "JMP"
  <2>1. CASE o \in DOMAIN f
    BY <1>1, <2>1, Merge DEF LengthsFit
  <2>2. CASE o \notin DOMAIN f
    BY <1>1, <2>2, Merge DEF LengthsFit
  <2> QED
    BY <2>1, <2>2
<1>2. ASSUME NEW f, NEW m, LengthFits(m)
      PROVE  LengthsFit(Mode(m, f))
  BY <1>2, ModeEntries DEF LengthsFit
<1>3. ASSUME NEW o, NEW m
      PROVE  LengthsFit(Mode(m, o :> "JMP"))
  BY Pair, ModeEntries DEF LengthsFit
<1> QED
  BY <1>1, <1>2, <1>3 DEF LengthsFit

LEMMA TableFits == LengthsFit(isa)
<1>1. /\ LengthsFit(Column0) /\ LengthsFit(Column1) /\ LengthsFit(Column2)
      /\ LengthsFit(Column4) /\ LengthsFit(Column5) /\ LengthsFit(Column6)
      /\ LengthsFit(Column7) /\ LengthsFit(Column8)
  BY ModesFit, PartsFit DEF Column0, Column1, Column2, Column4, Column5, Column6, Column7, Column8
<1>2. /\ LengthsFit(Column9) /\ LengthsFit(ColumnA) /\ LengthsFit(ColumnB)
      /\ LengthsFit(ColumnC) /\ LengthsFit(ColumnD) /\ LengthsFit(ColumnE)
      /\ LengthsFit(ColumnF) /\ LengthsFit(Repeated)
  BY ModesFit, PartsFit DEF Column9, ColumnA, ColumnB, ColumnC, ColumnD, ColumnE, ColumnF, Repeated
<1> QED
  BY <1>1, <1>2, PartsFit DEF isa

\* A step that does not set the PC advances it, and is not a jump.
Advances == /\ \E r : Advance(r)
            /\ Known /\ isa[opcode].op # "JMP"

LEMMA StepAdvances ==
  ASSUME step
  PROVE  Advances \/ ret' \in {"OKPCModified", "UnknownInstruction"}
<1> USE DEF Advances, Executing
<1>1. ASSUME \/ LDA \/ LDAabs \/ TXA \/ TYA \/ ADC \/ SBC \/ INCacc \/ DECacc
             \/ AND \/ ORA \/ EOR \/ ASLacc \/ LSRacc \/ ROLacc \/ RORacc
             \/ LDX \/ TAX \/ TSX \/ INX \/ DEX
             \/ LDY \/ TAY \/ INY \/ DEY
      PROVE  Advances
  BY <1>1 DEF LDA, LDAabs, TXA, TYA, ADC, SBC, INCacc, DECacc, AND, ORA, EOR, ASLacc, LSRacc,
              ROLacc, RORacc, LDX, TAX, TSX, INX, DEX, LDY, TAY, INY, DEY, ToA, ToX, ToY
<1>2. ASSUME \/ CMP \/ CMPind \/ CPX \/ CPY \/ CPXimm \/ CPYimm \/ BIT \/ BITzp
             \/ CLC \/ SEC \/ CLI \/ SEI \/ CLD \/ SED \/ CLV
      PROVE  Advances
  BY <1>2 DEF CMP, CMPind, CPX, CPY, CPXimm, CPYimm, Compare, BIT, BITzp,
              CLC, SEC, CLI, SEI, CLD, SED, CLV, ToP
<1>3. ASSUME \/ BPL \/ BMI \/ BVC \/ BVS \/ BCC \/ BCS \/ BNE \/ BEQ \/ BRA \/ BBR \/ BBS
      PROVE  Advances \/ ret' = "OKPCModified"
  BY <1>3 DEF BPL, BMI, BVC, BVS, BCC, BCS, BNE, BEQ, BRA, BBR, BBS, Branch, set_PC
<1>4. ASSUME JMP \/ JSR \/ RTS \/ BRK \/ RTI
      PROVE  ret' = "OKPCModified"
  BY <1>4 DEF JMP, JSR, RTS, BRK, RTI, Branch, set_PC
<1>5. ASSUME \/ TXS \/ PLA \/ PLX \/ PLY \/ PLP \/ DBG \/ NOP \/ STP
             \/ PHA \/ PHX \/ PHY \/ PHP
      PROVE  Advances
  BY <1>5 DEF TXS, PLA, PLX, PLY, PLP, Pull, DBG, NOP, STP, Returning, PHA, PHX, PHY, PHP, push_stack
<1>6. ASSUME \/ STA \/ STX \/ STY \/ STZ \/ INC \/ DEC \/ ASL \/ LSR \/ ROL \/ ROR
             \/ TSB \/ TRB \/ RMB \/ SMB
      PROVE  Advances
  BY <1>6 DEF STA, STX, STY, STZ, INC, DEC, ASL, LSR, ROL, ROR, TSB, TRB, RMB, SMB, ToMem
<1>7. Unknown => ret' = "UnknownInstruction"
  BY DEF Unknown
<1> QED
  BY <1>1, <1>2, <1>3, <1>4, <1>5, <1>6, <1>7 DEF step

LEMMA StepsPassOperands == Steps => OperandsAreNotExecuted
<1> DEFINE Behind == ret' \in {"OK", "GoToDebugger", "Stop"} =>
                       PC' = Plus(PC, 1 + OperandBytes(mode))
<1>1. [step]_cpuVars => [Behind]_cpuVars
  <2> SUFFICES ASSUME step, ret' \in {"OK", "GoToDebugger", "Stop"}
               PROVE  PC' = Plus(PC, 1 + OperandBytes(mode))
    OBVIOUS
  <2>1. Advances
    BY StepAdvances
  <2>2. LengthFits(mode)
    BY <2>1, TableFits DEF Advances, Known, LengthsFit, mode
  <2> QED
    BY <2>1, <2>2 DEF Advances, Advance, bytes, LengthFits
<1> QED
  BY <1>1, PTL DEF Steps, OperandsAreNotExecuted

\* In every memory: no operand byte is ever executed, although the lengths and the
\* reads of operands disagree on a mode of JMP (instruction_types.h:29, 6502cpu.cpp:92).
THEOREM OperandsAreNotExecutedAlways == Spec => OperandsAreNotExecuted
BY ExecuteSteps, StepsPassOperands

-----------------------------------------------------------------------------
(* The cells that a step reads and writes *)

\* Only jumps are entered in a part of the table with the mode that does not wrap.
IndirectJumps(f) == \A o \in DOMAIN f : f[o].mode = "AbsoluteIndirect" => f[o].op = "JMP"

LEMMA PartsJump ==
  /\ \A f, g : IndirectJumps(f) /\ IndirectJumps(g) => IndirectJumps(f @@ g)
  /\ \A f, m : m # "AbsoluteIndirect" => IndirectJumps(Mode(m, f))
  /\ \A o, m : IndirectJumps(Mode(m, o :> "JMP"))
<1>1. ASSUME NEW f, NEW g, IndirectJumps(f), IndirectJumps(g), NEW o \in DOMAIN (f @@ g)
      PROVE  (f @@ g)[o].mode = "AbsoluteIndirect" => (f @@ g)[o].op = "JMP"
  <2>1. CASE o \in DOMAIN f
    BY <1>1, <2>1, Merge DEF IndirectJumps
  <2>2. CASE o \notin DOMAIN f
    BY <1>1, <2>2, Merge DEF IndirectJumps
  <2> QED
    BY <2>1, <2>2
<1>2. ASSUME NEW f, NEW m, m # "AbsoluteIndirect"
      PROVE  IndirectJumps(Mode(m, f))
  BY <1>2, ModeEntries DEF IndirectJumps
<1>3. ASSUME NEW o, NEW m
      PROVE  IndirectJumps(Mode(m, o :> "JMP"))
  BY Pair, ModeEntries DEF IndirectJumps
<1> QED
  BY <1>1, <1>2, <1>3 DEF IndirectJumps

LEMMA TableJumps == IndirectJumps(isa)
<1>1. /\ IndirectJumps(Column0) /\ IndirectJumps(Column1) /\ IndirectJumps(Column2)
      /\ IndirectJumps(Column4) /\ IndirectJumps(Column5) /\ IndirectJumps(Column6)
      /\ IndirectJumps(Column7) /\ IndirectJumps(Column8)
  BY PartsJump DEF Column0, Column1, Column2, Column4, Column5, Column6, Column7, Column8
<1>2. /\ IndirectJumps(Column9) /\ IndirectJumps(ColumnA) /\ IndirectJumps(ColumnB)
      /\ IndirectJumps(ColumnC) /\ IndirectJumps(ColumnD) /\ IndirectJumps(ColumnE)
      /\ IndirectJumps(ColumnF) /\ IndirectJumps(Repeated)
  BY PartsJump DEF Column9, ColumnA, ColumnB, ColumnC, ColumnD, ColumnE, ColumnF, Repeated
<1> QED
  BY <1>1, <1>2, PartsJump DEF isa

LEMMA TwoWords ==
  ASSUME NEW w \in Word
  PROVE  Two(w) \subseteq Word
BY PlusType DEF Two

\* The pointer of JMP (abs), read from the two cells of which the second may lie
\* behind the address space
PointerOfJump == {absolute, absolute + 1}

LEMMA AddressCellsType ==
  ASSUME TypeOK
  PROVE  AddressCells(mode) \subseteq
           Word \cup (IF mode = "AbsoluteIndirect" THEN PointerOfJump ELSE {})
<1> USE DEF TypeOK, RegistersOK, ControlOK, MemoryOK
<1>1. low_byte \in Byte /\ high_byte \in Byte /\ absolute \in Word
  BY ReadType, AddressType DEF low_byte, high_byte, absolute
<1>2. Plus(PC, 1) \in Word
  BY PlusType
<1>3. Plus(absolute, X) \in Word
  BY <1>1, PlusType DEF Byte
<1>4. add(low_byte, X).value \in Word /\ low_byte \in Word
  <2>1. 0 \in {0, 1}
    OBVIOUS
  <2> QED
    BY <2>1, <1>1, ByteArithmetic, WordBounds
<1> HIDE DEF TypeOK, RegistersOK, ControlOK, MemoryOK
<1>5. {Plus(PC, 1)} \subseteq Word /\ Two(Plus(PC, 1)) \subseteq Word
  BY <1>2, TwoWords
<1>6. Two(Plus(absolute, X)) \subseteq Word
  BY <1>3, TwoWords
<1>7. Two(add(low_byte, X).value) \subseteq Word /\ Two(low_byte) \subseteq Word
  BY <1>4, TwoWords
<1> QED
  BY <1>5, <1>6, <1>7 DEF AddressCells, PointerOfJump

LEMMA StackCellsType ==
  ASSUME TypeOK, NEW op
  PROVE  StackCells(op) \subseteq Word
<1>1. S \in Word /\ \A n \in 1..3 : pushed(n) \in Word /\ popped(n) \in Word
  BY StackPointerType, WordBounds DEF TypeOK, RegistersOK
<1>2. \hFFFE \in Word /\ \hFFFF \in Word
  BY DEF Word, WordSize
<1> QED
  BY <1>1, <1>2 DEF StackCells

\* Every access is inside the address space but for the second byte of the pointer
\* of JMP ($FFFF).
LEMMA AccessedType ==
  ASSUME TypeOK, NEW a \in Accessed
  PROVE  \/ a \in Word
         \/ /\ Executing("JMP") /\ mode = "AbsoluteIndirect"
            /\ absolute + 1 = WordSize /\ a = WordSize
<1>1. CASE a = PC
  BY <1>1 DEF TypeOK, ControlOK
<1>2. CASE Known /\ a \in OperandCell(mode, isa[opcode].op)
  BY <1>2, OperandType DEF OperandCell
<1>3. CASE Known /\ a \in StackCells(isa[opcode].op)
  BY <1>3, StackCellsType
<1>4. CASE Known /\ a \in AddressCells(mode)
  <2>1. CASE mode = "AbsoluteIndirect" /\ a \in PointerOfJump
    <3>1. absolute \in Word
      BY ReadType, AddressType DEF absolute, low_byte, high_byte, TypeOK, MemoryOK
    <3>2. a \in Word \/ (absolute + 1 = WordSize /\ a = WordSize)
      BY <2>1, <3>1, WordBounds DEF PointerOfJump, Word
    <3>3. isa[opcode].op = "JMP"
      BY <1>4, <2>1, TableJumps DEF IndirectJumps, Known, mode
    <3> QED
      BY <1>4, <2>1, <3>2, <3>3 DEF Executing
  <2> QED
    BY <1>4, <2>1, AddressCellsType
<1> QED
  BY <1>1, <1>2, <1>3, <1>4 DEF Accessed
=============================================================================
