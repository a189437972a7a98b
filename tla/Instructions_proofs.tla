------------------------- MODULE Instructions_proofs -------------------------
(***************************************************************************)
(* Lemmas for proofs about programs: what the table says of the opcodes    *)
(* that programs use, and what memory holds when their image is loaded.    *)
(***************************************************************************)
EXTENDS Cpu_proofs, Programs

-----------------------------------------------------------------------------
(* The entries of the table that the programs use *)

\* The opcodes of column n
Column(n) == {o \in Byte : o % 16 = n}

\* f is a part of column n of the table.
InColumn(f, n) == DOMAIN f \subseteq Column(n)

LEMMA ColumnParts ==
  ASSUME NEW n
  PROVE  /\ \A f, g : InColumn(f, n) /\ InColumn(g, n) => InColumn(f @@ g, n)
         /\ \A o, e : o \in Column(n) => InColumn(o :> e, n)
         /\ \A m, f : InColumn(f, n) => InColumn(Mode(m, f), n)
<1>1. \A f, g : InColumn(f, n) /\ InColumn(g, n) => InColumn(f @@ g, n)
  BY Merge DEF InColumn
<1>2. \A o, e : o \in Column(n) => InColumn(o :> e, n)
  BY Pair DEF InColumn
<1>3. \A m, f : InColumn(f, n) => InColumn(Mode(m, f), n)
  BY ModeEntries DEF InColumn
<1> QED
  BY <1>1, <1>2, <1>3

LEMMA ColumnDomains ==
  /\ InColumn(Column0, 0)
  /\ InColumn(Column1, 1)
  /\ InColumn(Column2, 2)
  /\ InColumn(Column4, 4)
  /\ InColumn(Column5, 5)
  /\ InColumn(Column6, 6)
  /\ InColumn(Column7, 7)
  /\ InColumn(Column8, 8)
  /\ InColumn(Column9, 9)
  /\ InColumn(ColumnA, 10)
  /\ InColumn(ColumnB, 11)
  /\ InColumn(ColumnC, 12)
<1>0. InColumn(Column0, 0)
  BY ColumnParts DEF Column0, Column, Byte
<1>1. InColumn(Column1, 1)
  BY ColumnParts DEF Column1, Column, Byte
<1>2. InColumn(Column2, 2)
  BY ColumnParts DEF Column2, Column, Byte
<1>4. InColumn(Column4, 4)
  BY ColumnParts DEF Column4, Column, Byte
<1>5. InColumn(Column5, 5)
  BY ColumnParts DEF Column5, Column, Byte
<1>6. InColumn(Column6, 6)
  BY ColumnParts DEF Column6, Column, Byte
<1>8. InColumn(Column8, 8)
  BY ColumnParts DEF Column8, Column, Byte
<1>9. InColumn(Column9, 9)
  BY ColumnParts DEF Column9, Column, Byte
<1>10. InColumn(ColumnA, 10)
  BY ColumnParts DEF ColumnA, Column, Byte
<1>11. InColumn(ColumnB, 11)
  <2>1. 219 \in Column(11)
    BY DEF Column, Byte
  <2>2. InColumn(219 :> "STP", 11)
    BY <2>1, ColumnParts
  <2> QED
    BY <2>2, ModeEntries DEF ColumnB, InColumn
<1>12. InColumn(ColumnC, 12)
  BY ColumnParts DEF ColumnC, Column, Byte
<1>7. InColumn(Column7, 7)
  BY ModeEntries DEF Column7, InColumn, Column, Byte
<1> QED
  BY <1>0, <1>1, <1>2, <1>4, <1>5, <1>6, <1>7, <1>8, <1>9, <1>10, <1>11, <1>12

\* f maps opcode o to mnemonic op; f maps it to op and addressing mode m; f does
\* not map it.
Names(f, o, op)    == o \in DOMAIN f /\ f[o] = op
Entry(f, o, op, m) == o \in DOMAIN f /\ f[o].op = op /\ f[o].mode = m
Without(f, o)      == o \notin DOMAIN f

LEMMA PairEntry ==
  /\ \A o, op : Names(o :> op, o, op)
  /\ \A o, op, other : other # o => Without(o :> op, other)
BY Pair DEF Names, Without

LEMMA ModeEntry ==
  /\ \A f, o, op, m : Names(f, o, op) => Entry(Mode(m, f), o, op, m)
  /\ \A f, o, m : Without(f, o) => Without(Mode(m, f), o)
<1>1. ASSUME NEW f, NEW o, NEW op, NEW m, Names(f, o, op)
      PROVE  Entry(Mode(m, f), o, op, m)
  BY <1>1, ModeEntries DEF Names, Entry
<1> QED
  BY <1>1, ModeEntries DEF Without

LEMMA MergedEntry ==
  /\ \A f, g, o, op : Names(f, o, op) => Names(f @@ g, o, op)
  /\ \A f, g, o, op : Without(f, o) /\ Names(g, o, op) => Names(f @@ g, o, op)
  /\ \A f, g, o, op, m : Entry(f, o, op, m) => Entry(f @@ g, o, op, m)
  /\ \A f, g, o, op, m : Without(f, o) /\ Entry(g, o, op, m) => Entry(f @@ g, o, op, m)
  /\ \A f, g, o : Without(f, o) /\ Without(g, o) => Without(f @@ g, o)
<1>1. ASSUME NEW f, NEW g, NEW o, o \in DOMAIN f
      PROVE  o \in DOMAIN (f @@ g) /\ (f @@ g)[o] = f[o]
  BY <1>1, Merge
<1>2. ASSUME NEW f, NEW g, NEW o, o \notin DOMAIN f, o \in DOMAIN g
      PROVE  o \in DOMAIN (f @@ g) /\ (f @@ g)[o] = g[o]
  BY <1>2, Merge
<1>3. ASSUME NEW f, NEW g, NEW o, Without(f, o), Without(g, o)
      PROVE  Without(f @@ g, o)
  BY <1>3, Merge DEF Without
<1> QED
  BY <1>1, <1>2, <1>3 DEF Names, Entry, Without

LEMMA OtherColumn ==
  \A f, n : \A o \in Byte : InColumn(f, n) /\ o % 16 # n => Without(f, o)
BY DEF InColumn, Without, Column

LEMMA IsaEntries ==
  \A op, m : \A o \in Byte :
    /\ Entry(Column0, o, op, m) /\ o % 16 = 0 => Entry(isa, o, op, m)
    /\ Entry(Column2, o, op, m) /\ o % 16 = 2 => Entry(isa, o, op, m)
    /\ Entry(Column5, o, op, m) /\ o % 16 = 5 => Entry(isa, o, op, m)
    /\ Entry(Column8, o, op, m) /\ o % 16 = 8 => Entry(isa, o, op, m)
    /\ Entry(Column9, o, op, m) /\ o % 16 = 9 => Entry(isa, o, op, m)
    /\ Entry(ColumnB, o, op, m) /\ o % 16 = 11 => Entry(isa, o, op, m)
    /\ Entry(ColumnC, o, op, m) /\ o % 16 = 12 => Entry(isa, o, op, m)
    /\ Entry(ColumnD, o, op, m) /\ o % 16 = 13 => Entry(isa, o, op, m)
<1>1. \A o \in Byte :
         /\ o % 16 # 0 => Without(Column0, o)
         /\ o % 16 # 1 => Without(Column1, o)
         /\ o % 16 # 2 => Without(Column2, o)
         /\ o % 16 # 4 => Without(Column4, o)
         /\ o % 16 # 5 => Without(Column5, o)
         /\ o % 16 # 6 => Without(Column6, o)
         /\ o % 16 # 7 => Without(Column7, o)
         /\ o % 16 # 8 => Without(Column8, o)
         /\ o % 16 # 9 => Without(Column9, o)
         /\ o % 16 # 10 => Without(ColumnA, o)
         /\ o % 16 # 11 => Without(ColumnB, o)
         /\ o % 16 # 12 => Without(ColumnC, o)
  BY ColumnDomains, OtherColumn
<1> QED
  BY <1>1, MergedEntry DEF isa

LEMMA TableEntries ==
  /\ Entry(isa, \hA2, "LDX", "Immediate")
  /\ Entry(isa, \hA0, "LDY", "Immediate")
  /\ Entry(isa, \h18, "CLC", "Implied")
  /\ Entry(isa, \h38, "SEC", "Implied")
  /\ Entry(isa, \hB5, "LDA", "ZeroPageIndexedX")
  /\ Entry(isa, \h75, "ADC", "ZeroPageIndexedX")
  /\ Entry(isa, \hF5, "SBC", "ZeroPageIndexedX")
  /\ Entry(isa, \h95, "STA", "ZeroPageIndexedX")
  /\ Entry(isa, \hE8, "INX", "Implied")
  /\ Entry(isa, \h88, "DEY", "Implied")
  /\ Entry(isa, \hD0, "BNE", "PCRelative")
  /\ Entry(isa, \hDB, "STP", "Implied")
  /\ Entry(isa, \hA9, "LDA", "Immediate")
  /\ Entry(isa, \hE9, "SBC", "Immediate")
  /\ Entry(isa, \hBD, "LDA", "AbsoluteIndexedX")
  /\ Entry(isa, \h8D, "STA", "Absolute")
  /\ Entry(isa, \h4C, "JMP", "Absolute")
  /\ Entry(isa, \hF0, "BEQ", "PCRelative")
  /\ Entry(isa, \h20, "JSR", "Absolute")
  /\ Entry(isa, \h60, "RTS", "Stack")
  /\ Entry(isa, \h00, "BRK", "Stack")
  /\ Entry(isa, \h40, "RTI", "Stack")
  /\ Entry(isa, \h02, "DBG", "Implied")
<1>1. Entry(Column2, \hA2, "LDX", "Immediate")
  BY PairEntry, MergedEntry, ModeEntry DEF Column2
<1>2. Entry(Column0, \hA0, "LDY", "Immediate")
  BY PairEntry, MergedEntry, ModeEntry DEF Column0
<1>3. Entry(Column8, \h18, "CLC", "Implied")
  BY PairEntry, MergedEntry, ModeEntry DEF Column8
<1>4. Entry(Column8, \h38, "SEC", "Implied")
  BY PairEntry, MergedEntry, ModeEntry DEF Column8
<1>5. Entry(Column5, \hB5, "LDA", "ZeroPageIndexedX")
  BY PairEntry, MergedEntry, ModeEntry DEF Column5
<1>6. Entry(Column5, \h75, "ADC", "ZeroPageIndexedX")
  BY PairEntry, MergedEntry, ModeEntry DEF Column5
<1>7. Entry(Column5, \hF5, "SBC", "ZeroPageIndexedX")
  BY PairEntry, MergedEntry, ModeEntry DEF Column5
<1>8. Entry(Column5, \h95, "STA", "ZeroPageIndexedX")
  BY PairEntry, MergedEntry, ModeEntry DEF Column5
<1>9. Entry(Column8, \hE8, "INX", "Implied")
  BY PairEntry, MergedEntry, ModeEntry DEF Column8
<1>10. Entry(Column8, \h88, "DEY", "Implied")
  BY PairEntry, MergedEntry, ModeEntry DEF Column8
<1>11. Entry(Column0, \hD0, "BNE", "PCRelative")
  BY PairEntry, MergedEntry, ModeEntry DEF Column0
<1>12. Entry(ColumnB, \hDB, "STP", "Implied")
  BY PairEntry, MergedEntry, ModeEntry DEF ColumnB
<1>13. Entry(Column9, \hA9, "LDA", "Immediate")
  BY PairEntry, MergedEntry, ModeEntry DEF Column9
<1>14. Entry(Column9, \hE9, "SBC", "Immediate")
  BY PairEntry, MergedEntry, ModeEntry DEF Column9
<1>15. Entry(ColumnD, \hBD, "LDA", "AbsoluteIndexedX")
  BY PairEntry, MergedEntry, ModeEntry DEF ColumnD
<1>16. Entry(ColumnD, \h8D, "STA", "Absolute")
  BY PairEntry, MergedEntry, ModeEntry DEF ColumnD
<1>17. Entry(ColumnC, \h4C, "JMP", "Absolute")
  BY PairEntry, MergedEntry, ModeEntry DEF ColumnC
<1>18. Entry(Column0, \hF0, "BEQ", "PCRelative")
  BY PairEntry, MergedEntry, ModeEntry DEF Column0
<1>19. Entry(Column0, \h20, "JSR", "Absolute")
  BY PairEntry, MergedEntry, ModeEntry DEF Column0
<1>20. Entry(Column0, \h60, "RTS", "Stack")
  BY PairEntry, MergedEntry, ModeEntry DEF Column0
<1>21. Entry(Column0, \h00, "BRK", "Stack")
  BY PairEntry, MergedEntry, ModeEntry DEF Column0
<1>22. Entry(Column0, \h40, "RTI", "Stack")
  BY PairEntry, MergedEntry, ModeEntry DEF Column0
<1>23. Entry(Column2, \h02, "DBG", "Implied")
  BY PairEntry, MergedEntry, ModeEntry DEF Column2
<1> QED
  BY IsaEntries, <1>1, <1>2, <1>3, <1>4, <1>5, <1>6, <1>7, <1>8, <1>9, <1>10, <1>11, <1>12,
     <1>13, <1>14, <1>15, <1>16, <1>17, <1>18, <1>19, <1>20, <1>21, <1>22, <1>23 DEF Byte

-----------------------------------------------------------------------------
(* What a step does that executes one of these opcodes *)

LEMMA Decode ==
  ASSUME NEW op, NEW m, Entry(isa, opcode, op, m)
  PROVE  Executing(op) /\ mode = m
BY DEF Entry, Executing, Known, mode

\* The operand that an addressing mode finds, and the length of the instruction
LEMMA AddressedOperand ==
  ASSUME TypeOK
  PROVE  /\ mode = "Immediate" => operand = low_byte /\ bytes = 2
         /\ mode = "ZeroPageIndexedX" => op_address = (low_byte + X) % 256 /\ bytes = 2
         /\ mode = "PCRelative" => /\ op_address = Plus(Plus(PC, 2), Signed(low_byte))
                                   /\ bytes = 2
         /\ mode = "Absolute" => op_address = absolute /\ bytes = 3
         /\ mode = "AbsoluteIndexedX" => op_address = Plus(absolute, X) /\ bytes = 3
         /\ mode = "Implied" => bytes = 1
BY DEF operand, op_address, AddressIn, low_byte, absolute, add, bytes, bytes_for_addressing_mode

LEMMA CarryInCarry == \A p : CarryIn(p) = IF carry \in p THEN 1 ELSE 0
BY DEF CarryIn, get_bit, carry, unused

LEMMA LDXStep ==
  ASSUME TypeOK, step, opcode = \hA2
  PROVE  /\ X' = low_byte
         /\ PC' = Plus(PC, 2) /\ ret' = "OK" /\ mem' = mem /\ out' = <<>>
<1>1. Executing("LDX") /\ mode = "Immediate"
  BY TableEntries, Decode
<1> QED
  BY <1>1, OneLambda, AddressedOperand DEF LDX, ToX, Advance, NoWrite

\* When INX does not wrap around it leaves the carry alone.
LEMMA INXStep ==
  ASSUME TypeOK, step, opcode = \hE8
  PROVE  /\ X' = (X + 1) % 256 /\ Y' = Y
         /\ zero \in P' <=> X' = 0
         /\ X < 255 => CarryIn(P') = CarryIn(P)
         /\ PC' = Plus(PC, 1) /\ ret' = "OK" /\ mem' = mem /\ out' = <<>>
<1>1. Executing("INX") /\ mode = "Implied"
  BY TableEntries, Decode
<1>2. /\ X' = add(X, 1).value /\ P' = StickyCarry(add(X, 1)) /\ Y' = Y
      /\ PC' = Plus(PC, 1) /\ ret' = "OK" /\ mem' = mem /\ out' = <<>>
  BY <1>1, OneLambda, AddressedOperand DEF INX, ToX, Advance, NoWrite
<1>3. add(X, 1).value = (X + 1) % 256 /\ (add(X, 1).carry <=> X + 1 > 255)
  BY ZenonT(60) DEF add
<1>4. add(X, 1).value \in Byte /\ X \in 0..255
  BY OperationTypes, ZenonT(60) DEF TypeOK, RegistersOK, Byte
<1>5. zero \in P' <=> X' = 0
  BY <1>2, <1>4, UpdateFlagsMembers DEF StickyCarry
<1>6. ASSUME X < 255
      PROVE  CarryIn(P') = CarryIn(P)
  <2>1. ~add(X, 1).carry
    BY <1>3, <1>4, <1>6
  <2>2. P' = update_flags(P, add(X, 1).value)
    BY <1>2, <2>1 DEF StickyCarry
  <2> QED
    BY <1>4, <2>2, UpdateFlagsMembers, CarryInCarry
<1> QED
  BY <1>2, <1>3, <1>5, <1>6

LEMMA STPStep ==
  ASSUME TypeOK, step, opcode = \hDB
  PROVE  /\ A' = A /\ S' = S /\ P' = P
         /\ ret' = "Stop" /\ mem' = mem /\ out' = <<>>
<1>1. Executing("STP")
  BY TableEntries, Decode
<1> QED
  BY <1>1, OneLambda DEF STP, Returning, Advance, NoWrite

LEMMA LDAimmStep ==
  ASSUME TypeOK, step, opcode = \hA9
  PROVE  /\ A' = low_byte /\ S' = S
         /\ P' = update_flags(P, low_byte) /\ low_byte \in Byte
         /\ PC' = Plus(PC, 2) /\ ret' = "OK" /\ mem' = mem /\ out' = <<>>
<1>1. Executing("LDA") /\ mode = "Immediate"
  BY TableEntries, Decode
<1>2. operand \in Byte
  BY OperandType
<1> QED
  BY <1>1, <1>2, OneLambda, AddressedOperand DEF LDA, ToA, Advance, NoWrite

LEMMA LDAabsXStep ==
  ASSUME TypeOK, step, opcode = \hBD
  PROVE  /\ A' = read(Plus(absolute, X)) /\ X' = X
         /\ zero \in P' <=> A' = 0
         /\ PC' = Plus(PC, 3) /\ ret' = "OK" /\ mem' = mem /\ out' = <<>>
<1>1. Executing("LDA") /\ mode = "AbsoluteIndexedX"
  BY TableEntries, Decode
<1>2. operand \in Byte
  BY OperandType
<1>3. /\ A' = operand /\ P' = update_flags(P, operand) /\ X' = X
      /\ PC' = Plus(PC, 3) /\ ret' = "OK" /\ mem' = mem /\ out' = <<>>
  BY <1>1, OneLambda, AddressedOperand DEF LDA, ToA, Advance, NoWrite
<1> QED
  BY <1>1, <1>2, <1>3, UpdateFlagsMembers, AddressedOperand DEF operand

LEMMA STAabsStep ==
  ASSUME TypeOK, step, opcode = \h8D
  PROVE  /\ mem' = written(mem, absolute, A) /\ out' = printed(absolute, A)
         /\ X' = X
         /\ PC' = Plus(PC, 3) /\ ret' = "OK"
<1>1. Executing("STA") /\ mode = "Absolute"
  BY TableEntries, Decode
<1> QED
  BY <1>1, OneLambda, AddressedOperand DEF STA, ToMem, write, Advance

LEMMA JMPStep ==
  ASSUME TypeOK, step, opcode = \h4C
  PROVE  /\ X' = X
         /\ PC' = absolute /\ ret' = "OKPCModified" /\ mem' = mem /\ out' = <<>>
<1>1. Executing("JMP") /\ mode = "Absolute"
  BY TableEntries, Decode
<1> QED
  BY <1>1, OneLambda, AddressedOperand DEF JMP, Branch, set_PC, NoWrite

LEMMA BEQStep ==
  ASSUME TypeOK, step, opcode = \hF0
  PROVE  /\ A' = A /\ X' = X
         /\ PC' = IF zero \in P THEN Plus(Plus(PC, 2), Signed(low_byte)) ELSE Plus(PC, 2)
         /\ ret' \in {"OK", "OKPCModified"} /\ mem' = mem /\ out' = <<>>
<1>1. Executing("BEQ") /\ mode = "PCRelative"
  BY TableEntries, Decode
<1>2. get_bit(P, zero) <=> zero \in P
  BY DEF get_bit, zero, unused
<1> QED
  BY <1>1, <1>2, OneLambda, AddressedOperand DEF BEQ, Branch, set_PC, Advance, NoWrite

LEMMA JSRStep ==
  ASSUME TypeOK, step, opcode = \h20
  PROVE  /\ A' = A /\ S' = pushed(2) /\ mem' = PcPushed
         /\ PC' = absolute /\ ret' = "OKPCModified"
<1>1. Executing("JSR") /\ mode = "Absolute"
  BY TableEntries, Decode
<1> QED
  BY <1>1, OneLambda, AddressedOperand DEF JSR, set_PC

LEMMA RTSStep ==
  ASSUME TypeOK, step, opcode = \h60
  PROVE  /\ A' = A /\ S' = popped(2)
         /\ PC' = Plus(address(read(S), read(popped(1))), 3)
         /\ ret' = "OKPCModified" /\ mem' = mem
<1>1. Executing("RTS")
  BY TableEntries, Decode
<1> QED
  BY <1>1, OneLambda DEF RTS, set_PC, NoWrite

LEMMA BRKStep ==
  ASSUME TypeOK, step, opcode = \h00
  PROVE  /\ A' = A /\ S' = pushed(3) /\ break_command \in P'
         /\ mem' = written(PcPushed, pushed(3), FromBits(P))
         /\ PC' = BreakAddress /\ ret' = "OKPCModified"
<1>1. Executing("BRK")
  BY TableEntries, Decode
<1>2. break_command \in set_bit(P, break_command, TRUE)
  BY DEF set_bit, break_command, unused
<1> QED
  BY <1>1, <1>2, OneLambda DEF BRK, set_PC

LEMMA RTIStep ==
  ASSUME TypeOK, step, opcode = \h40
  PROVE  /\ A' = A /\ S' = popped(3) /\ P' = ToBits(read(S))
         /\ PC' = Plus(address(read(popped(1)), read(popped(2))), 1)
         /\ ret' = "OKPCModified" /\ mem' = mem
<1>1. Executing("RTI")
  BY TableEntries, Decode
<1> QED
  BY <1>1, OneLambda DEF RTI, set_PC, NoWrite

LEMMA DBGStep ==
  ASSUME TypeOK, step, opcode = \h02
  PROVE  /\ A' = A /\ S' = S /\ P' = P
         /\ PC' = Plus(PC, 1) /\ ret' \in {"OK", "GoToDebugger"} /\ mem' = mem
<1>1. Executing("DBG") /\ mode = "Implied"
  BY TableEntries, Decode
<1> QED
  BY <1>1, OneLambda, AddressedOperand DEF DBG, Returning, Advance, NoWrite

LEMMA CarryFlagStep ==
  ASSUME TypeOK, step, opcode \in {\h18, \h38}
  PROVE  /\ A' = A
         /\ carry \in P' <=> opcode = \h38
         /\ PC' = Plus(PC, 1) /\ ret' = "OK" /\ mem' = mem
<1>1. CASE opcode = \h38
  <2>1. Executing("SEC") /\ mode = "Implied"
    BY <1>1, TableEntries, Decode
  <2>2. carry \in set_bit(P, carry, TRUE)
    BY DEF set_bit, carry, unused
  <2>3. P' = set_bit(P, carry, TRUE) /\ A' = A
        /\ PC' = Plus(PC, 1) /\ ret' = "OK" /\ mem' = mem
    BY <2>1, OneLambda, AddressedOperand DEF SEC, ToP, Advance, NoWrite
  <2> QED
    BY <1>1, <2>2, <2>3
<1>2. CASE opcode = \h18
  <2>1. Executing("CLC") /\ mode = "Implied"
    BY <1>2, TableEntries, Decode
  <2>2. carry \notin set_bit(P, carry, FALSE)
    BY DEF set_bit, carry, unused
  <2>3. P' = set_bit(P, carry, FALSE) /\ A' = A
        /\ PC' = Plus(PC, 1) /\ ret' = "OK" /\ mem' = mem
    BY <2>1, OneLambda, AddressedOperand DEF CLC, ToP, Advance, NoWrite
  <2>4. opcode # \h38
    BY <1>2
  <2>5. carry \notin P'
    BY <2>2, <2>3
  <2> QED
    BY <2>3, <2>4, <2>5
<1> QED
  BY <1>1, <1>2

LEMMA SBCimmStep ==
  ASSUME TypeOK, step, opcode = \hE9
  PROVE  LET b        == 1 - CarryIn(P)
             unsigned == A - low_byte - b
             signed   == Signed(A) - Signed(low_byte) - b
         IN  /\ A' = Plus(unsigned, 0) % 256
             /\ carry \in P' <=> unsigned >= 0
             /\ overflow \in P' <=> signed \notin -128..127
             /\ negative \in P' <=> A' > 127
             /\ zero \in P' <=> A' = 0
             /\ PC' = Plus(PC, 2) /\ ret' = "OK" /\ mem' = mem
<1>1. Executing("SBC") /\ mode = "Immediate"
  BY TableEntries, Decode
<1>2. operand = low_byte /\ bytes = 2
  BY <1>1, AddressedOperand
<1>3. PC' = Plus(PC, 2) /\ ret' = "OK" /\ mem' = mem
  BY <1>1, <1>2, OneLambda DEF SBC, ToA, Advance, NoWrite
<1> QED
  BY <1>1, <1>2, <1>3, StepSubtracts

-----------------------------------------------------------------------------
(* The memory that an image gives *)

\* A word in memory, byte by byte
LEMMA VectorCells ==
  \A a \in Int : \A w :
    /\ \A x : x \in DOMAIN Vector(a, w) <=> x = a \/ x = a + 1
    /\ Vector(a, w)[a] = low(w)
    /\ Vector(a, w)[a + 1] = high(w)
<1> TAKE a \in Int
<1> TAKE w
<1>1. a + 1 # a
  OBVIOUS
<1> QED
  BY <1>1, Pair, Merge DEF Vector

\* The cells hold code; they hold a word at a.
HoldsCode(image, code) ==
  \A i \in 1..Len(code) : Start + i - 1 \in DOMAIN image /\ image[Start + i - 1] = code[i]

HoldsWord(image, a, w) == /\ a \in DOMAIN image /\ image[a] = low(w)
                          /\ a + 1 \in DOMAIN image /\ image[a + 1] = high(w)

\* They hold code that starts when the CPU is reset.
HoldsProgram(image, code) == HoldsCode(image, code) /\ HoldsWord(image, \hFFFC, Start)

LEMMA CodeCells ==
  ASSUME NEW code, Len(code) \in 0..256
  PROVE  /\ HoldsCode(Code(Start, code), code)
         /\ \A x \in DOMAIN Code(Start, code) : x < \hFFFB
<1>0. PICK n \in 0..256 : Len(code) = n
  OBVIOUS
<1>1. \A x : x \in DOMAIN Code(Start, code) <=> x \in Start..(Start + n - 1)
  BY <1>0 DEF Code
<1>2. \A i \in 1..n : /\ Start + i - 1 \in DOMAIN Code(Start, code)
                      /\ Code(Start, code)[Start + i - 1] = code[i]
  <2> TAKE i \in 1..n
  <2>1. /\ Start + i - 1 \in Start..(Start + n - 1)
        /\ (Start + i - 1) - Start + 1 = i
    BY DEF Start
  <2> QED
    BY <1>0, <2>1 DEF Code
<1>3. \A x \in DOMAIN Code(Start, code) : x < \hFFFB
  <2>1. Start + n < \hFFFB
    BY DEF Start
  <2> QED
    BY <1>1, <2>1 DEF Start
<1> QED
  BY <1>0, <1>2, <1>3 DEF HoldsCode

LEMMA WordCells ==
  \A a \in Int : \A w : HoldsWord(Vector(a, w), a, w)
BY VectorCells DEF HoldsWord

LEMMA MergedCells ==
  /\ \A f, g, code : HoldsCode(f, code) => HoldsCode(f @@ g, code)
  /\ \A f, g, a, w : HoldsWord(f, a, w) => HoldsWord(f @@ g, a, w)
  /\ \A f, g, a, w : /\ HoldsWord(g, a, w)
                     /\ a \notin DOMAIN f
                     /\ a + 1 \notin DOMAIN f
                     => HoldsWord(f @@ g, a, w)
<1>1. ASSUME NEW f, NEW g, NEW x, x \in DOMAIN f
      PROVE  x \in DOMAIN (f @@ g) /\ (f @@ g)[x] = f[x]
  BY <1>1, Merge
<1>2. ASSUME NEW f, NEW g, NEW x, x \notin DOMAIN f, x \in DOMAIN g
      PROVE  x \in DOMAIN (f @@ g) /\ (f @@ g)[x] = g[x]
  BY <1>2, Merge
<1> QED
  BY <1>1, <1>2 DEF HoldsCode, HoldsWord

=============================================================================
