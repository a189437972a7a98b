--------------------------- MODULE MultiByte_proofs --------------------------
(***************************************************************************)
(* Proof that the loops over the bytes of words compute sums and           *)
(* differences of words, for every two words, print device and debug mode. *)
(***************************************************************************)
EXTENDS MultiByte, Instructions_proofs

-----------------------------------------------------------------------------
(* The state of the program, as one assertion for each of its instructions *)

\* The four programs: CountDown or CountUp, a difference or a sum
ProgramCode(loop, kind) ==
  IF loop = "CountDown" THEN IF kind = "SBC" THEN SecSbc(CountDown) ELSE ClcAdc(CountDown)
                        ELSE IF kind = "SBC" THEN SecSbc(CountUp)   ELSE ClcAdc(CountUp)

Loops == {"CountDown", "CountUp"}
Kinds == {"ADC", "SBC"}

\* The program is in memory.
Present(loop, kind) ==
  LET code == ProgramCode(loop, kind)
  IN  \A i \in 1..Len(code) : read(Start + i - 1) = code[i]

\* The offset of the label next, and the offset of the STP
LoopStart(loop) == IF loop = "CountDown" THEN 5 ELSE 3
End(loop)       == IF loop = "CountDown" THEN 15 ELSE 12

\* The number that the first n bytes of the word at a make
Bytes(a, n) == CASE n = 0 -> 0 [] n = 1 -> read(a) [] n = 2 -> WordAt(a)

\* The weight of the byte n of a word
ByteWeight(n) == CASE n = 0 -> 1 [] n = 1 -> 256 [] n = 2 -> WordSize

\* The result r of n bytes, and the carry c that goes with it, are right.
Right(kind, n, r, c) ==
  IF kind = "SBC" THEN Bytes(0, n) - Bytes(2, n) = r - ByteWeight(n) * (1 - c)
                  ELSE Bytes(0, n) + Bytes(2, n) = r + ByteWeight(n) * c

\* The first n bytes are done.
Done(kind, n) == Right(kind, n, Bytes(4, n), CarryIn(P))

\* They are, but the carry is lost.
DoneButCarry(kind, n) == \E c \in {0, 1} : Right(kind, n, Bytes(4, n), c)

\* In X and Y: it is the turn of byte n.
Turn(loop, n) == IF loop = "CountDown" THEN X = n /\ Y = 2 - n ELSE X = 254 + n

At(offset) == PC = Start + offset /\ ret # "Stop"

BeforeLoop(loop) ==
  \/ At(0)
  \/ loop = "CountDown" /\ At(2) /\ X = 0
  \/ At(LoopStart(loop) - 1) /\ Turn(loop, 0)

AtLDA(loop, kind, n) == At(LoopStart(loop))     /\ Turn(loop, n) /\ Done(kind, n)
AtOp(loop, kind, n)  == At(LoopStart(loop) + 2) /\ Turn(loop, n) /\ Done(kind, n) /\ A = read(n)
AtSTA(loop, kind, n) == /\ At(LoopStart(loop) + 4) /\ Turn(loop, n)
                         /\ Right(kind, n + 1, Bytes(4, n) + ByteWeight(n) * A, CarryIn(P))
AtINX(loop, kind, n) == At(LoopStart(loop) + 6) /\ Turn(loop, n) /\ Done(kind, n + 1)

AtDEY(kind, n) == At(12) /\ X = n + 1 /\ Y = 2 - n /\ Done(kind, n + 1)

AtBNE(loop, kind, n) ==
  /\ At(End(loop) - 2)
  /\ zero \in P <=> n = 1
  /\ IF loop = "CountDown" THEN X = n + 1 /\ Y = 1 - n /\ Done(kind, n + 1)
             ELSE IF n = 0 THEN X = 255 /\ Done(kind, 1) ELSE DoneButCarry(kind, 2)

InLoop(loop, kind, n) ==
  \/ AtLDA(loop, kind, n) \/ AtOp(loop, kind, n) \/ AtSTA(loop, kind, n)
  \/ AtINX(loop, kind, n) \/ (loop = "CountDown" /\ AtDEY(kind, n)) \/ AtBNE(loop, kind, n)

Result(loop, kind) == IF loop = "CountDown" THEN Done(kind, 2) ELSE DoneButCarry(kind, 2)

AfterLoop(loop, kind) == At(End(loop)) /\ Result(loop, kind)
Stopped(loop, kind)   == ret = "Stop" /\ Result(loop, kind)

\* Where the program is, and what it has done
Point(loop, kind) ==
  \/ BeforeLoop(loop)
  \/ \E n \in {0, 1} : InLoop(loop, kind, n)
  \/ AfterLoop(loop, kind) \/ Stopped(loop, kind)

\* The inductive invariant
LoopInv == \E loop \in Loops, kind \in Kinds : Present(loop, kind) /\ Point(loop, kind)

-----------------------------------------------------------------------------
(* The code *)

LEMMA CountDownCode ==
  \A s, op : LET c == CountDown(s, op)
             IN  /\ Len(c) = 16
                 /\ c[1] = \hA2 /\ c[2] = 0 /\ c[3] = \hA0 /\ c[4] = 2 /\ c[5] = s
                 /\ c[6] = \hB5 /\ c[7] = 0 /\ c[8] = op /\ c[9] = 2
                 /\ c[10] = \h95 /\ c[11] = 4 /\ c[12] = \hE8
                 /\ c[13] = \h88 /\ c[14] = \hD0 /\ c[15] = \hF6 /\ c[16] = \hDB
BY DEF CountDown, ByteLoop, Stp

LEMMA CountUpCode ==
  \A s, op : LET c == CountUp(s, op)
             IN  /\ Len(c) = 13
                 /\ c[1] = \hA2 /\ c[2] = \hFE /\ c[3] = s
                 /\ c[4] = \hB5 /\ c[5] = 2 /\ c[6] = op /\ c[7] = 4
                 /\ c[8] = \h95 /\ c[9] = 6 /\ c[10] = \hE8
                 /\ c[11] = \hD0 /\ c[12] = \hF7 /\ c[13] = \hDB
BY DEF CountUp, ByteLoop, Stp

\* The opcodes that start and continue a sum or a difference
StartOp(kind) == IF kind = "SBC" THEN \h38 ELSE \h18
LoopOp(kind)  == IF kind = "SBC" THEN \hF5 ELSE \h75

LEMMA ProgramCodes ==
  ASSUME NEW loop \in Loops, NEW kind \in Kinds
  PROVE  ProgramCode(loop, kind) =
           IF loop = "CountDown" THEN CountDown(StartOp(kind), LoopOp(kind))
                                 ELSE CountUp(StartOp(kind), LoopOp(kind))
BY DEF ProgramCode, SecSbc, ClcAdc, StartOp, LoopOp

\* What the instructions of a program that is present are
LEMMA CodeBytes ==
  ASSUME NEW loop \in Loops, NEW kind \in Kinds, Present(loop, kind)
  PROVE  LET at(offset) == read(Start + offset)
             next       == LoopStart(loop)
             first      == IF loop = "CountDown" THEN 0 ELSE 2
         IN  /\ at(0) = \hA2 /\ at(1) = IF loop = "CountDown" THEN 0 ELSE \hFE
             /\ loop = "CountDown" => at(2) = \hA0 /\ at(3) = 2
             /\ at(next - 1) = StartOp(kind)
             /\ at(next) = \hB5     /\ at(next + 1) = first
             /\ at(next + 2) = LoopOp(kind) /\ at(next + 3) = first + 2
             /\ at(next + 4) = \h95 /\ at(next + 5) = first + 4
             /\ at(next + 6) = \hE8
             /\ loop = "CountDown" => at(12) = \h88
             /\ at(End(loop) - 2) = \hD0
             /\ at(End(loop) - 1) = IF loop = "CountDown" THEN \hF6 ELSE \hF7
             /\ at(End(loop)) = \hDB
<1>1. CASE loop = "CountDown"
  <2> DEFINE c == CountDown(StartOp(kind), LoopOp(kind))
  <2>1. \A i \in 1..16 : read(Start + i - 1) = c[i]
    <3>1. ProgramCode(loop, kind) = c
      BY <1>1, ProgramCodes
    <3>2. Len(c) = 16
      BY CountDownCode
    <3> HIDE DEF c
    <3> QED
      BY <3>1, <3>2 DEF Present
  <2> HIDE DEF c
  <2>2. \A i \in 0..15 : read(Start + i) = c[i + 1]
    <3> TAKE i \in 0..15
    <3>1. i + 1 \in 1..16 /\ Start + (i + 1) - 1 = Start + i
      BY DEF Start
    <3> QED
      BY <2>1, <3>1
  <2> QED
    BY <1>1, <2>2, CountDownCode DEF c, LoopStart, End
<1>2. CASE loop = "CountUp"
  <2> DEFINE c == CountUp(StartOp(kind), LoopOp(kind))
  <2>1. \A i \in 1..13 : read(Start + i - 1) = c[i]
    <3>1. ProgramCode(loop, kind) = c
      BY <1>2, ProgramCodes
    <3>2. Len(c) = 13
      BY CountUpCode
    <3> HIDE DEF c
    <3> QED
      BY <3>1, <3>2 DEF Present
  <2> HIDE DEF c
  <2>2. \A i \in 0..12 : read(Start + i) = c[i + 1]
    <3> TAKE i \in 0..12
    <3>1. i + 1 \in 1..13 /\ Start + (i + 1) - 1 = Start + i
      BY DEF Start
    <3> QED
      BY <2>1, <3>1
  <2> QED
    BY <1>2, <2>2, CountUpCode DEF c, LoopStart, End
<1> QED
  BY <1>1, <1>2 DEF Loops

-----------------------------------------------------------------------------
(* What a step does that executes one of these opcodes *)

LEMMA LDYStep ==
  ASSUME TypeOK, step, opcode = \hA0
  PROVE  /\ Y' = low_byte /\ X' = X
         /\ PC' = Plus(PC, 2) /\ ret' = "OK" /\ mem' = mem
<1>1. Executing("LDY") /\ mode = "Immediate"
  BY TableEntries, Decode
<1> QED
  BY <1>1, OneLambda, AddressedOperand DEF LDY, ToY, Advance, NoWrite

LEMMA CarryStep ==
  ASSUME TypeOK, step, NEW kind \in Kinds, opcode = StartOp(kind)
  PROVE  /\ CarryIn(P') = IF kind = "SBC" THEN 1 ELSE 0
         /\ X' = X /\ Y' = Y
         /\ PC' = Plus(PC, 1) /\ ret' = "OK" /\ mem' = mem
<1>1. CASE kind = "SBC"
  <2>1. Executing("SEC") /\ mode = "Implied"
    BY <1>1, TableEntries, Decode DEF StartOp
  <2>2. CarryIn(set_bit(P, carry, TRUE)) = 1
    BY CarryInCarry DEF set_bit, carry, unused
  <2> QED
    BY <1>1, <2>1, <2>2, OneLambda, AddressedOperand DEF SEC, ToP, Advance, NoWrite
<1>2. CASE kind = "ADC"
  <2>1. Executing("CLC") /\ mode = "Implied"
    BY <1>2, TableEntries, Decode DEF StartOp
  <2>2. CarryIn(set_bit(P, carry, FALSE)) = 0
    BY CarryInCarry DEF set_bit, carry, unused
  <2> QED
    BY <1>2, <2>1, <2>2, OneLambda, AddressedOperand DEF CLC, ToP, Advance, NoWrite
<1> QED
  BY <1>1, <1>2 DEF Kinds

LEMMA LDAStep ==
  ASSUME TypeOK, step, opcode = \hB5
  PROVE  /\ A' = read((low_byte + X) % 256) /\ X' = X /\ Y' = Y
         /\ CarryIn(P') = CarryIn(P)
         /\ PC' = Plus(PC, 2) /\ ret' = "OK" /\ mem' = mem
<1>1. Executing("LDA") /\ mode = "ZeroPageIndexedX"
  BY TableEntries, Decode
<1>2. A' = operand /\ P' = update_flags(P, operand) /\ X' = X /\ Y' = Y
      /\ PC' = Plus(PC, 2) /\ ret' = "OK" /\ mem' = mem
  BY <1>1, OneLambda, AddressedOperand DEF LDA, ToA, Advance, NoWrite
<1>3. CarryIn(P') = CarryIn(P)
  BY <1>2, OperandType, UpdateFlagsMembers, CarryInCarry
<1> QED
  BY <1>1, <1>2, <1>3, AddressedOperand DEF operand

LEMMA SumStep ==
  ASSUME TypeOK, step, NEW kind \in Kinds, opcode = LoopOp(kind)
  PROVE  LET b == read((low_byte + X) % 256)
         IN  /\ IF kind = "SBC" THEN A - b - (1 - CarryIn(P)) = A' - 256 * (1 - CarryIn(P'))
                         ELSE A + b + CarryIn(P) = A' + 256 * CarryIn(P')
             /\ X' = X /\ Y' = Y
             /\ PC' = Plus(PC, 2) /\ ret' = "OK" /\ mem' = mem
<1>1. A \in 0..255 /\ operand \in 0..255 /\ CarryIn(P) \in {0, 1}
  BY OperandType, CarryInType DEF TypeOK, RegistersOK, Byte
<1>2. CASE kind = "SBC"
  <2>1. Executing("SBC") /\ mode = "ZeroPageIndexedX"
    BY <1>2, TableEntries, Decode DEF LoopOp
  <2> DEFINE NoBorrow == A >= operand + Borrow
  <2>2. /\ A' = Difference
        /\ P' = update_flags(set_bit(set_bit(P, carry, NoBorrow), overflow, DifferenceOverflows),
                             Difference)
        /\ X' = X /\ Y' = Y
        /\ PC' = Plus(PC, 2) /\ ret' = "OK" /\ mem' = mem
    BY <2>1, OneLambda, AddressedOperand DEF SBC, ToA, Advance, NoWrite
  <2>3. Difference \in Byte /\ NoBorrow \in BOOLEAN /\ DifferenceOverflows \in BOOLEAN
    BY OperationTypes DEF DifferenceOverflows
  <2>4. NoBorrow <=> A - operand - (1 - CarryIn(P)) >= 0
    BY DifferenceIsRight
  <2> HIDE DEF NoBorrow
  <2>5. CarryIn(P') = IF NoBorrow THEN 1 ELSE 0
    BY <2>2, <2>3, UpdateFlagsMembers, CarryOverflowMembers, CarryInCarry
  <2>6. Borrow = 1 - CarryIn(P)
    BY DEF Borrow
  <2>7. A - operand - (1 - CarryIn(P)) = A' - 256 * (1 - CarryIn(P'))
    BY <1>1, <2>2, <2>4, <2>5, <2>6 DEF Difference
  <2> QED
    BY <1>2, <2>1, <2>2, <2>7, AddressedOperand DEF operand
<1>3. CASE kind = "ADC"
  <2>1. Executing("ADC") /\ mode = "ZeroPageIndexedX"
    BY <1>3, TableEntries, Decode DEF LoopOp
  <2>2. /\ A' = Sum.value
        /\ P' = update_flags(set_bit(set_bit(P, carry, Sum.carry), overflow, SumOverflows),
                             Sum.value)
        /\ X' = X /\ Y' = Y
        /\ PC' = Plus(PC, 2) /\ ret' = "OK" /\ mem' = mem
    BY <2>1, OneLambda, AddressedOperand DEF ADC, ToA, Advance, NoWrite
  <2>3. Sum.value \in Byte /\ Sum.carry \in BOOLEAN /\ SumOverflows \in BOOLEAN
    BY OperationTypes DEF Sum, add_result, SumOverflows
  <2>4. CarryIn(P') = IF Sum.carry THEN 1 ELSE 0
    BY <2>2, <2>3, UpdateFlagsMembers, CarryOverflowMembers, CarryInCarry
  <2>5. A + operand + CarryIn(P) = A' + 256 * CarryIn(P')
    <3> DEFINE u == A + operand + CarryIn(P)
    <3>1. A' = u % 256
      BY <2>2, SumIsRight
    <3>2. CarryIn(P') = IF u > 255 THEN 1 ELSE 0
      BY <2>4, SumIsRight
    <3>3. u \in 0..511
      BY <1>1, SMTT(30)
    <3> HIDE DEF u
    <3>4. u = A' + 256 * CarryIn(P')
      BY <3>1, <3>2, <3>3
    <3> QED
      BY <3>4 DEF u
  <2> QED
    BY <1>3, <2>1, <2>2, <2>5, AddressedOperand DEF operand
<1> QED
  BY <1>2, <1>3 DEF Kinds

LEMMA STAStep ==
  ASSUME TypeOK, step, opcode = \h95
  PROVE  /\ mem' = written(mem, (low_byte + X) % 256, A)
         /\ A' = A /\ X' = X /\ Y' = Y /\ P' = P
         /\ PC' = Plus(PC, 2) /\ ret' = "OK"
<1>1. Executing("STA") /\ mode = "ZeroPageIndexedX"
  BY TableEntries, Decode
<1> QED
  BY <1>1, OneLambda, AddressedOperand DEF STA, ToMem, write, Advance

\* When DEY does not wrap around it leaves the carry alone.
LEMMA DEYStep ==
  ASSUME TypeOK, step, opcode = \h88
  PROVE  /\ X' = X /\ Y' = (Y + 255) % 256
         /\ zero \in P' <=> Y' = 0
         /\ Y > 0 => CarryIn(P') = CarryIn(P)
         /\ PC' = Plus(PC, 1) /\ ret' = "OK" /\ mem' = mem
<1>1. Executing("DEY") /\ mode = "Implied"
  BY TableEntries, Decode
<1>2. /\ Y' = sub(Y, 1).value /\ P' = StickyCarry(sub(Y, 1)) /\ X' = X
      /\ PC' = Plus(PC, 1) /\ ret' = "OK" /\ mem' = mem
  BY <1>1, OneLambda, AddressedOperand, SMTT(30) DEF DEY, ToY, Advance, NoWrite
<1>3. Y \in 0..255 /\ sub(Y, 1).value \in Byte
  BY OperationTypes, CarryInType, ZenonT(60) DEF TypeOK, RegistersOK, Byte
<1>4. sub(Y, 1).value = (Y + 255) % 256 /\ (sub(Y, 1).carry <=> Y < 1)
  <2>1. sub(Y, 1).value = (Y + 256 - 1) % 256 /\ (sub(Y, 1).carry <=> Y < 1)
    BY DEF sub
  <2>2. Y + 256 - 1 = Y + 255
    BY <1>3
  <2> QED
    BY <2>1, <2>2
<1>5. zero \in P' <=> Y' = 0
  BY <1>2, <1>3, UpdateFlagsMembers DEF StickyCarry
<1>6. ASSUME Y > 0
      PROVE  CarryIn(P') = CarryIn(P)
  <2>1. ~sub(Y, 1).carry
    BY <1>3, <1>4, <1>6
  <2>2. P' = update_flags(P, sub(Y, 1).value)
    BY <1>2, <2>1 DEF StickyCarry
  <2> QED
    BY <1>3, <2>2, UpdateFlagsMembers, CarryInCarry
<1> QED
  BY <1>2, <1>4, <1>5, <1>6

LEMMA BNEStep ==
  ASSUME TypeOK, step, opcode = \hD0
  PROVE  /\ X' = X /\ Y' = Y /\ P' = P
         /\ PC' = IF zero \in P THEN Plus(PC, 2) ELSE Plus(Plus(PC, 2), Signed(low_byte))
         /\ ret' # "Stop" /\ mem' = mem
<1>1. Executing("BNE") /\ mode = "PCRelative"
  BY TableEntries, Decode
<1>2. get_bit(P, zero) <=> zero \in P
  BY DEF get_bit, zero, unused
<1> QED
  BY <1>1, <1>2, OneLambda, AddressedOperand DEF BNE, Branch, set_PC, Advance, NoWrite

-----------------------------------------------------------------------------
(* From each instruction of the program to the next *)

LEMMA Fetch ==
  ASSUME NEW offset \in 0..15, At(offset)
  PROVE  /\ opcode = read(Start + offset)
         /\ low_byte = read(Start + (offset + 1))
         /\ Plus(PC, 1) = Start + (offset + 1)
         /\ Plus(PC, 2) = Start + (offset + 2)
<1>1. /\ Plus(PC, 1) = Start + (offset + 1)
      /\ Plus(PC, 2) = Start + (offset + 2)
  BY DEF At, Plus, Start, WordSize
<1> QED
  BY <1>1 DEF At, opcode, low_byte

\* What is read does not change while the memory does not.
LEMMA Same ==
  ASSUME mem' = mem
  PROVE  /\ \A a : read(a)' = read(a)
         /\ \A a, n : Bytes(a, n)' = Bytes(a, n)
         /\ \A loop, kind : Present(loop, kind)' <=> Present(loop, kind)
<1>1. \A a : read(a)' = read(a)
  BY DEF read
<1>2. \A a, n : Bytes(a, n)' = Bytes(a, n)
  BY <1>1 DEF Bytes, WordAt
<1>3. \A loop, kind : Present(loop, kind)' <=> Present(loop, kind)
  BY <1>1 DEF Present
<1> QED
  BY <1>1, <1>2, <1>3

LEMMA SameDone ==
  ASSUME mem' = mem, CarryIn(P') = CarryIn(P)
  PROVE  \A kind, n : Done(kind, n)' <=> Done(kind, n)
BY Same DEF Done, Right

LEMMA SameResult ==
  ASSUME mem' = mem
  PROVE  /\ \A kind, n : DoneButCarry(kind, n)' <=> DoneButCarry(kind, n)
         /\ P' = P => \A loop, kind : Result(loop, kind)' <=> Result(loop, kind)
<1>1. \A kind, n : DoneButCarry(kind, n)' <=> DoneButCarry(kind, n)
  BY Same DEF DoneButCarry, Right
<1> QED
  BY <1>1, SameDone DEF Result

LEMMA ReadNumber ==
  ASSUME TypeOK
  PROVE  \A a : read(a) \in Int
<1>1. \A a : read(a) \in Byte
  BY ReadType DEF TypeOK, MemoryOK
<1> QED
  BY <1>1 DEF Byte

LEMMA BytesType ==
  ASSUME TypeOK
  PROVE  \A a, n : n \in {0, 1, 2} => Bytes(a, n) \in Int
<1>1. \A a : WordAt(a) \in Int
  BY ReadNumber DEF WordAt, address
<1> QED
  BY <1>1, ReadNumber DEF Bytes

LEMMA NextByte ==
  ASSUME TypeOK, NEW a \in Int, NEW n \in {0, 1}
  PROVE  Bytes(a, n + 1) = Bytes(a, n) + ByteWeight(n) * read(a + n)
<1>1. \A c : read(c) \in Int
  BY ReadNumber
<1>2. CASE n = 0
  <2>1. a + n = a
    BY <1>2
  <2> QED
    BY <1>1, <1>2, <2>1 DEF Bytes, ByteWeight
<1>3. CASE n = 1
  <2>1. /\ Bytes(a, n) = read(a) /\ ByteWeight(n) = 256
        /\ Bytes(a, n + 1) = read(a + n) * 256 + read(a)
    BY <1>3 DEF Bytes, ByteWeight, WordAt, address
  <2> QED
    BY <1>1, <2>1
<1> QED
  BY <1>2, <1>3

\* One byte more is right when the sum or difference of these bytes is.
LEMMA NextRight ==
  ASSUME TypeOK, NEW kind \in Kinds, NEW n \in {0, 1},
         NEW r \in Int, NEW s \in Int, NEW c \in Int, NEW d \in Int,
         Right(kind, n, r, c),
         IF kind = "SBC" THEN read(n) - read(2 + n) - (1 - c) = s - 256 * (1 - d)
                  ELSE read(n) + read(2 + n) + c = s + 256 * d
  PROVE  Right(kind, n + 1, r + ByteWeight(n) * s, d)
<1>1. /\ Bytes(0, n + 1) = Bytes(0, n) + ByteWeight(n) * read(n)
      /\ Bytes(2, n + 1) = Bytes(2, n) + ByteWeight(n) * read(2 + n)
  <2>1. 0 + n = n
    OBVIOUS
  <2> QED
    BY <2>1, NextByte
<1>2. Bytes(0, n) \in Int /\ Bytes(2, n) \in Int
  BY BytesType
<1>3. read(n) \in Int /\ read(2 + n) \in Int
  BY ReadNumber
<1>4. CASE n = 0
  <2>1. ByteWeight(n) = 1 /\ ByteWeight(n + 1) = 256
    BY <1>4 DEF ByteWeight
  <2> QED
    BY <1>1, <1>2, <1>3, <2>1 DEF Right
<1>5. CASE n = 1
  <2>1. ByteWeight(n) = 256 /\ ByteWeight(n + 1) = 256 * 256
    BY <1>5 DEF ByteWeight, WordSize
  <2> QED
    BY <1>1, <1>2, <1>3, <2>1 DEF Right
<1> QED
  BY <1>4, <1>5

LEMMA FromStart ==
  ASSUME TypeOK, step, NEW loop \in Loops, NEW kind \in Kinds, Present(loop, kind), At(0)
  PROVE  Present(loop, kind)' /\ BeforeLoop(loop)'
<1>1. opcode = \hA2 /\ low_byte = (IF loop = "CountDown" THEN 0 ELSE \hFE) /\ Plus(PC, 2) = Start + 2
  BY Fetch, CodeBytes
<1>2. X' = (IF loop = "CountDown" THEN 0 ELSE \hFE) /\ PC' = Start + 2 /\ ret' = "OK" /\ mem' = mem
  BY <1>1, LDXStep
<1> QED
  BY <1>2, Same DEF BeforeLoop, At, Turn, LoopStart

LEMMA FromLDY ==
  ASSUME TypeOK, step, NEW loop \in Loops, NEW kind \in Kinds, Present(loop, kind),
         loop = "CountDown", At(2), X = 0
  PROVE  Present(loop, kind)' /\ BeforeLoop(loop)'
<1>1. opcode = \hA0 /\ low_byte = 2 /\ Plus(PC, 2) = Start + 4
  <2>1. read(Start + 2) = \hA0 /\ read(Start + 3) = 2
    BY CodeBytes
  <2> QED
    BY <2>1, Fetch
<1>2. X' = 0 /\ Y' = 2 /\ PC' = Start + 4 /\ ret' = "OK" /\ mem' = mem
  BY <1>1, LDYStep
<1> QED
  BY <1>2, Same DEF BeforeLoop, At, Turn, LoopStart

LEMMA FromStartOp ==
  ASSUME TypeOK, step, NEW loop \in Loops, NEW kind \in Kinds, Present(loop, kind),
         At(LoopStart(loop) - 1), Turn(loop, 0)
  PROVE  Present(loop, kind)' /\ AtLDA(loop, kind, 0)'
<1>1. LoopStart(loop) - 1 \in 0..15 /\ LoopStart(loop) - 1 + 1 = LoopStart(loop)
  BY DEF LoopStart
<1>2. opcode = StartOp(kind) /\ Plus(PC, 1) = Start + LoopStart(loop)
  <2>1. read(Start + (LoopStart(loop) - 1)) = StartOp(kind)
    BY CodeBytes
  <2> QED
    BY <1>1, <2>1, Fetch
<1>3. /\ CarryIn(P') = IF kind = "SBC" THEN 1 ELSE 0
      /\ X' = X /\ Y' = Y /\ PC' = Start + LoopStart(loop) /\ ret' = "OK" /\ mem' = mem
  BY <1>2, CarryStep
<1>4. Turn(loop, 0)'
  BY <1>3 DEF Turn
<1>5. Done(kind, 0)'
  BY <1>3 DEF Done, Right, Bytes, ByteWeight
<1> QED
  BY <1>3, <1>4, <1>5, Same DEF AtLDA, At, LoopStart

\* The cells that byte n of the loop is about
LEMMA Cells ==
  ASSUME TypeOK, NEW loop \in Loops, NEW n \in {0, 1}, Turn(loop, n)
  PROVE  LET first == IF loop = "CountDown" THEN 0 ELSE 2
         IN  /\ (first + X) % 256 = n
             /\ (first + 2 + X) % 256 = 2 + n
             /\ (first + 4 + X) % 256 = 4 + n
BY DEF Turn, Loops

LEMMA FromLDA ==
  ASSUME TypeOK, step, NEW loop \in Loops, NEW kind \in Kinds, Present(loop, kind),
         NEW n \in {0, 1}, AtLDA(loop, kind, n)
  PROVE  Present(loop, kind)' /\ AtOp(loop, kind, n)'
<1> DEFINE at == LoopStart(loop)
           first == IF loop = "CountDown" THEN 0 ELSE 2
<1>1. at \in 0..5
  BY DEF LoopStart
<1>2. opcode = \hB5 /\ low_byte = first /\ Plus(PC, 2) = Start + (at + 2)
  <2>1. read(Start + at) = \hB5 /\ read(Start + (at + 1)) = first
    BY CodeBytes
  <2>2. At(at)
    BY DEF AtLDA
  <2> QED
    BY <1>1, <2>1, <2>2, Fetch
<1>3. (low_byte + X) % 256 = n
  BY <1>2, Cells DEF AtLDA
<1>4. /\ A' = read(n) /\ X' = X /\ Y' = Y /\ CarryIn(P') = CarryIn(P)
      /\ PC' = Start + (at + 2) /\ ret' = "OK" /\ mem' = mem
  BY <1>2, <1>3, LDAStep
<1>5. Turn(loop, n)'
  BY <1>4 DEF AtLDA, Turn
<1>6. Done(kind, n)'
  BY <1>4, SameDone DEF AtLDA
<1> QED
  BY <1>4, <1>5, <1>6, Same DEF AtOp, At, LoopStart

LEMMA FromOp ==
  ASSUME TypeOK, step, NEW loop \in Loops, NEW kind \in Kinds, Present(loop, kind),
         NEW n \in {0, 1}, AtOp(loop, kind, n)
  PROVE  Present(loop, kind)' /\ AtSTA(loop, kind, n)'
<1> DEFINE at == LoopStart(loop) + 2
           first == IF loop = "CountDown" THEN 0 ELSE 2
<1>1. at \in 0..7
  BY DEF LoopStart
<1>2. opcode = LoopOp(kind) /\ low_byte = first + 2 /\ Plus(PC, 2) = Start + (at + 2)
  <2>1. read(Start + at) = LoopOp(kind) /\ read(Start + (at + 1)) = first + 2
    <3>1. at + 1 = LoopStart(loop) + 3
      BY DEF LoopStart
    <3> QED
      BY <3>1, CodeBytes
  <2>2. At(at)
    BY DEF AtOp
  <2> QED
    BY <1>1, <2>1, <2>2, Fetch
<1>3. (low_byte + X) % 256 = 2 + n
  BY <1>2, Cells DEF AtOp
<1>4. /\ IF kind = "SBC"
           THEN A - read(2 + n) - (1 - CarryIn(P)) = A' - 256 * (1 - CarryIn(P'))
           ELSE A + read(2 + n) + CarryIn(P) = A' + 256 * CarryIn(P')
      /\ X' = X /\ Y' = Y
      /\ PC' = Start + (at + 2) /\ ret' = "OK" /\ mem' = mem
  BY <1>2, <1>3, SumStep
<1>5. Right(kind, n + 1, Bytes(4, n) + ByteWeight(n) * A', CarryIn(P'))
  <2>1. A' \in Int /\ CarryIn(P) \in Int /\ CarryIn(P') \in Int /\ Bytes(4, n) \in Int
    BY StepType, CarryInType, BytesType DEF TypeOK, RegistersOK, Byte
  <2> QED
    BY <1>4, <2>1, NextRight DEF AtOp, Done
<1>6. Right(kind, n + 1, Bytes(4, n) + ByteWeight(n) * A, CarryIn(P))'
  BY <1>4, <1>5, Same DEF Right
<1>7. Turn(loop, n)'
  BY <1>4 DEF AtOp, Turn
<1>8. at + 2 = LoopStart(loop) + 4
  BY DEF LoopStart
<1> QED
  BY <1>4, <1>6, <1>7, <1>8, Same DEF AtSTA, At

\* The store of byte n of the result: the code and the operands stay as they are.
LEMMA StoredByte ==
  ASSUME TypeOK, NEW n \in {0, 1}, mem' = written(mem, 4 + n, A)
  PROVE  /\ \A loop \in Loops, kind \in Kinds : Present(loop, kind) => Present(loop, kind)'
         /\ \A k \in {0, 1, 2} : Bytes(0, k)' = Bytes(0, k) /\ Bytes(2, k)' = Bytes(2, k)
         /\ Bytes(4, n + 1)' = Bytes(4, n) + ByteWeight(n) * A
<1>1. \A a : a # 4 + n => read(a)' = read(a)
  BY DEF written, read
<1>2. read(4 + n)' = A
  BY DEF written, read
<1>3. ASSUME NEW loop \in Loops, NEW kind \in Kinds, Present(loop, kind)
      PROVE  Present(loop, kind)'
  <2>1. \A i \in Nat : Start + i - 1 # 4 + n
    BY DEF Start
  <2>2. Len(ProgramCode(loop, kind)) \in Nat
    BY ProgramCodes, CountDownCode, CountUpCode
  <2> QED
    BY <1>1, <1>3, <2>1, <2>2 DEF Present
<1>4. ASSUME NEW k \in {0, 1, 2}
      PROVE  Bytes(0, k)' = Bytes(0, k) /\ Bytes(2, k)' = Bytes(2, k)
  <2>1. read(0)' = read(0) /\ read(1)' = read(1) /\ read(2)' = read(2) /\ read(3)' = read(3)
    BY <1>1
  <2> QED
    BY <2>1 DEF Bytes, WordAt
<1>5. Bytes(4, n + 1)' = Bytes(4, n) + ByteWeight(n) * A
  <2>1. A \in Int /\ read(4) \in Int
    BY ReadNumber DEF TypeOK, RegistersOK, Byte
  <2>2. CASE n = 0
    BY <1>2, <2>1, <2>2 DEF Bytes, ByteWeight
  <2>3. CASE n = 1
    <3>1. read(4)' = read(4) /\ read(5)' = A
      BY <1>1, <1>2, <2>3
    <3>2. Bytes(4, n + 1)' = A * 256 + read(4)
      BY <2>3, <3>1 DEF Bytes, WordAt, address
    <3>3. Bytes(4, n) = read(4) /\ ByteWeight(n) = 256
      BY <2>3 DEF Bytes, ByteWeight
    <3> QED
      BY <2>1, <3>2, <3>3
  <2> QED
    BY <2>2, <2>3
<1> QED
  BY <1>3, <1>4, <1>5

LEMMA FromSTA ==
  ASSUME TypeOK, step, NEW loop \in Loops, NEW kind \in Kinds, Present(loop, kind),
         NEW n \in {0, 1}, AtSTA(loop, kind, n)
  PROVE  Present(loop, kind)' /\ AtINX(loop, kind, n)'
<1> DEFINE at == LoopStart(loop) + 4
           first == IF loop = "CountDown" THEN 0 ELSE 2
<1>1. at \in 0..9
  BY DEF LoopStart
<1>2. opcode = \h95 /\ low_byte = first + 4 /\ Plus(PC, 2) = Start + (at + 2)
  <2>1. read(Start + at) = \h95 /\ read(Start + (at + 1)) = first + 4
    <3>1. at + 1 = LoopStart(loop) + 5
      BY DEF LoopStart
    <3> QED
      BY <3>1, CodeBytes
  <2>2. At(at)
    BY DEF AtSTA
  <2> QED
    BY <1>1, <2>1, <2>2, Fetch
<1>3. (low_byte + X) % 256 = 4 + n
  BY <1>2, Cells DEF AtSTA
<1>4. /\ mem' = written(mem, 4 + n, A)
      /\ A' = A /\ X' = X /\ Y' = Y /\ P' = P
      /\ PC' = Start + (at + 2) /\ ret' = "OK"
  BY <1>2, <1>3, STAStep
<1>5. Done(kind, n + 1)'
  <2>1. n + 1 \in {0, 1, 2}
    OBVIOUS
  <2>2. Right(kind, n + 1, Bytes(4, n) + ByteWeight(n) * A, CarryIn(P))
    BY DEF AtSTA
  <2> QED
    BY <1>4, <2>1, <2>2, StoredByte DEF Done, Right
<1>6. Turn(loop, n)'
  BY <1>4 DEF AtSTA, Turn
<1>7. at + 2 = LoopStart(loop) + 6
  BY DEF LoopStart
<1> QED
  BY <1>4, <1>5, <1>6, <1>7, StoredByte DEF AtINX, At

LEMMA FromINX ==
  ASSUME TypeOK, step, NEW loop \in Loops, NEW kind \in Kinds, Present(loop, kind),
         NEW n \in {0, 1}, AtINX(loop, kind, n)
  PROVE  /\ Present(loop, kind)'
         /\ (loop = "CountDown" /\ AtDEY(kind, n)') \/ AtBNE(loop, kind, n)'
<1> DEFINE at == LoopStart(loop) + 6
<1>1. at \in 0..11
  BY DEF LoopStart
<1>2. opcode = \hE8 /\ Plus(PC, 1) = Start + (at + 1)
  <2>1. read(Start + at) = \hE8
    BY CodeBytes
  <2>2. At(at)
    BY DEF AtINX
  <2> QED
    BY <1>1, <2>1, <2>2, Fetch
<1>3. /\ X' = (X + 1) % 256 /\ Y' = Y
      /\ zero \in P' <=> X' = 0
      /\ X < 255 => CarryIn(P') = CarryIn(P)
      /\ PC' = Start + (at + 1) /\ ret' = "OK" /\ mem' = mem
  BY <1>2, INXStep
<1>4. Present(loop, kind)'
  BY <1>3, Same
<1>5. X < 255 => Done(kind, n + 1)'
  BY <1>3, SameDone DEF AtINX
<1>6. CASE loop = "CountDown"
  <2>1. X = n /\ Y = 2 - n
    BY <1>6 DEF AtINX, Turn
  <2>2. X' = n + 1 /\ Y' = 2 - n /\ X < 255
    BY <1>3, <2>1
  <2>3. PC' = Start + 12
    BY <1>3, <1>6 DEF LoopStart
  <2> QED
    BY <1>3, <1>4, <1>5, <1>6, <2>2, <2>3 DEF AtDEY, At
<1>7. CASE loop = "CountUp"
  <2>1. X = 254 + n
    BY <1>7 DEF AtINX, Turn
  <2>2. PC' = Start + (End(loop) - 2)
    BY <1>3, <1>7 DEF LoopStart, End
  <2>3. CASE n = 0
    <3>1. X' = 255 /\ X < 255
      BY <1>3, <2>1, <2>3
    <3>2. zero \notin P' /\ n # 1
      BY <1>3, <2>3, <3>1
    <3>3. Done(kind, 1)'
      BY <1>5, <2>3, <3>1
    <3> QED
      BY <1>3, <1>4, <1>7, <2>2, <2>3, <3>1, <3>2, <3>3 DEF AtBNE, At
  <2>4. CASE n = 1
    <3>1. X' = 0
      BY <1>3, <2>1, <2>4
    <3>2. zero \in P' /\ n # 0
      BY <1>3, <2>4, <3>1
    <3>3. DoneButCarry(kind, 2)'
      <4>1. DoneButCarry(kind, 2)
        BY <2>4, CarryInType DEF AtINX, Done, DoneButCarry
      <4> QED
        BY <1>3, <4>1, SameResult
    <3> QED
      BY <1>3, <1>4, <1>7, <2>2, <2>4, <3>2, <3>3 DEF AtBNE, At
  <2> QED
    BY <2>3, <2>4
<1> QED
  BY <1>6, <1>7 DEF Loops

LEMMA FromDEY ==
  ASSUME TypeOK, step, NEW kind \in Kinds, Present("CountDown", kind),
         NEW n \in {0, 1}, AtDEY(kind, n)
  PROVE  Present("CountDown", kind)' /\ AtBNE("CountDown", kind, n)'
<1>0. "CountDown" \in Loops
  BY DEF Loops
<1>1. opcode = \h88 /\ Plus(PC, 1) = Start + 13
  <2>1. read(Start + 12) = \h88
    BY <1>0, CodeBytes
  <2>2. At(12)
    BY DEF AtDEY
  <2> QED
    BY <2>1, <2>2, Fetch
<1>2. /\ X' = X /\ Y' = (Y + 255) % 256
      /\ zero \in P' <=> Y' = 0
      /\ Y > 0 => CarryIn(P') = CarryIn(P)
      /\ PC' = Start + 13 /\ ret' = "OK" /\ mem' = mem
  BY <1>1, DEYStep
<1>3. X = n + 1 /\ Y = 2 - n
  BY DEF AtDEY
<1>4. Y' = 1 - n /\ Y > 0
  BY <1>2, <1>3
<1>5. zero \in P' <=> n = 1
  BY <1>2, <1>4
<1>6. Done(kind, n + 1)'
  BY <1>2, <1>4, SameDone DEF AtDEY
<1>7. End("CountDown") - 2 = 13
  BY DEF End
<1> QED
  BY <1>2, <1>3, <1>4, <1>5, <1>6, <1>7, Same DEF AtBNE, At

\* The branch goes back to the LDA.
LEMMA FromBNE ==
  ASSUME TypeOK, step, NEW loop \in Loops, NEW kind \in Kinds, Present(loop, kind),
         NEW n \in {0, 1}, AtBNE(loop, kind, n)
  PROVE  /\ Present(loop, kind)'
         /\ AtLDA(loop, kind, 1)' \/ AfterLoop(loop, kind)'
<1> DEFINE at == End(loop) - 2
<1>1. at \in 0..13
  BY DEF End
<1>2. /\ opcode = \hD0 /\ Plus(PC, 2) = Start + End(loop)
      /\ low_byte = IF loop = "CountDown" THEN \hF6 ELSE \hF7
  <2>1. /\ read(Start + at) = \hD0
        /\ read(Start + (at + 1)) = IF loop = "CountDown" THEN \hF6 ELSE \hF7
    <3>1. at + 1 = End(loop) - 1
      BY DEF End
    <3> QED
      BY <3>1, CodeBytes
  <2>2. At(at)
    BY DEF AtBNE
  <2>3. at + 2 = End(loop)
    BY DEF End
  <2> QED
    BY <1>1, <2>1, <2>2, <2>3, Fetch
<1>3. Plus(Plus(PC, 2), Signed(low_byte)) = Start + LoopStart(loop)
  BY <1>2 DEF Plus, Signed, Start, End, LoopStart, WordSize
<1>4. /\ X' = X /\ Y' = Y /\ P' = P
      /\ PC' = IF zero \in P THEN Start + End(loop) ELSE Start + LoopStart(loop)
      /\ ret' # "Stop" /\ mem' = mem
  BY <1>2, <1>3, BNEStep
<1>5. Present(loop, kind)'
  BY <1>4, Same
<1>6. CASE n = 0
  <2>1. PC' = Start + LoopStart(loop)
    BY <1>4, <1>6 DEF AtBNE
  <2>2. Turn(loop, 1)'
    BY <1>4, <1>6 DEF AtBNE, Turn
  <2>3. Done(kind, 1)'
    BY <1>4, <1>6, SameDone DEF AtBNE
  <2> QED
    BY <1>4, <1>5, <2>1, <2>2, <2>3 DEF AtLDA, At
<1>7. CASE n = 1
  <2>1. PC' = Start + End(loop)
    BY <1>4, <1>7 DEF AtBNE
  <2>2. Result(loop, kind)
    BY <1>7 DEF AtBNE, Result
  <2>3. Result(loop, kind)'
    BY <1>4, <2>2, SameResult
  <2> QED
    BY <1>4, <1>5, <2>1, <2>3 DEF AfterLoop, At
<1> QED
  BY <1>6, <1>7

LEMMA FromSTP ==
  ASSUME TypeOK, step, NEW loop \in Loops, NEW kind \in Kinds, Present(loop, kind),
         AfterLoop(loop, kind)
  PROVE  Present(loop, kind)' /\ Stopped(loop, kind)'
<1>1. opcode = \hDB
  <2>1. read(Start + End(loop)) = \hDB
    BY CodeBytes
  <2>2. End(loop) \in 0..15
    BY DEF End
  <2> QED
    BY <2>1, <2>2, Fetch DEF AfterLoop
<1>2. P' = P /\ ret' = "Stop" /\ mem' = mem
  BY <1>1, STPStep
<1> QED
  BY <1>2, Same, SameResult DEF AfterLoop, Stopped

-----------------------------------------------------------------------------
(* The beginning *)

LEMMA OperandCells ==
  \A a, b, x : x \in DOMAIN Operands(a, b) <=> x \in 0..3
<1> TAKE a, b, x
<1>1. /\ x \in DOMAIN Vector(0, a) <=> x = 0 \/ x = 1
      /\ x \in DOMAIN Vector(2, b) <=> x = 2 \/ x = 3
  BY VectorCells
<1> QED
  BY <1>1, Merge DEF Operands

\* The cells of the image of a program
ProgramImage(code, a, b) ==
  FullImage(Code(Start, code) @@ Operands(a, b) @@ ResetVector).bytes

LEMMA ImageCells ==
  ASSUME NEW code, Len(code) \in 0..256, NEW a, NEW b
  PROVE  HoldsProgram(ProgramImage(code, a, b), code)
<1> DEFINE f == Code(Start, code) @@ Operands(a, b)
<1>0. /\ HoldsCode(Code(Start, code), code)
      /\ \A x \in DOMAIN Code(Start, code) : x < \hFFFB
  BY CodeCells
<1>1. HoldsCode(f, code)
  BY <1>0, MergedCells
<1>2. \hFFFC \notin DOMAIN f /\ \hFFFC + 1 \notin DOMAIN f
  <2>1. \A x \in DOMAIN Code(Start, code) : x < \hFFFB
    BY <1>0
  <2>2. \A x \in DOMAIN Operands(a, b) : x < \hFFFB
    BY OperandCells
  <2>3. \A x : x \in DOMAIN f <=> x \in DOMAIN Code(Start, code) \/ x \in DOMAIN Operands(a, b)
    BY Merge
  <2> HIDE DEF f
  <2> QED
    BY <2>1, <2>2, <2>3
<1>3. HoldsWord(ResetVector, \hFFFC, Start)
  BY WordCells DEF ResetVector
<1>4. ProgramImage(code, a, b) = f @@ ResetVector
  BY DEF ProgramImage, FullImage
<1> HIDE DEF f
<1> QED
  BY <1>1, <1>2, <1>3, <1>4, MergedCells DEF HoldsProgram

\* One of the programs is loaded, with two words.
WordsLoaded(words) == \E image \in WordPrograms(words) : mem = image.bytes

LEMMA InitLoop == Init /\ WordsLoaded(Word) => LoopInv
<1> SUFFICES ASSUME Init, WordsLoaded(Word)
             PROVE  LoopInv
  OBVIOUS
<1>1. PICK loop \in Loops, kind \in Kinds, a \in Word, b \in Word :
        mem = ProgramImage(ProgramCode(loop, kind), a, b)
  BY DEF WordsLoaded, ProgramImage, WordPrograms, ProgramCode, Loops, Kinds
<1>2. Len(ProgramCode(loop, kind)) \in 0..256
  BY ProgramCodes, CountDownCode, CountUpCode
<1>3. Present(loop, kind) /\ read(\hFFFC) = low(Start) /\ read(\hFFFC + 1) = high(Start)
  <2>1. HoldsProgram(mem, ProgramCode(loop, kind))
    BY <1>1, <1>2, ImageCells
  <2> QED
    BY <2>1 DEF HoldsProgram, HoldsCode, HoldsWord, Present, read
<1>4. PC = Start /\ ret = "OK"
  <2>1. address(low(Start), high(Start)) = Start
    BY DEF address, low, high, Start
  <2> QED
    BY <1>3, <2>1 DEF Init, ResetAddress
<1>5. BeforeLoop(loop)
  BY <1>4 DEF BeforeLoop, At, Start
<1> QED
  BY <1>3, <1>5 DEF LoopInv, Point

-----------------------------------------------------------------------------
(* The invariant is inductive, and says what the result is *)

LEMMA StepLoop ==
  ASSUME TypeOK, LoopInv, execute
  PROVE  LoopInv'
<1>1. PICK loop \in Loops, kind \in Kinds : Present(loop, kind) /\ Point(loop, kind)
  BY DEF LoopInv
<1>2. step /\ ret # "Stop"
  BY DEF execute
<1> SUFFICES Present(loop, kind)' /\ Point(loop, kind)'
  BY DEF LoopInv
<1>3. CASE BeforeLoop(loop)
  <2>1. CASE At(0)
    BY <1>1, <1>2, <2>1, FromStart DEF Point
  <2>2. CASE loop = "CountDown" /\ At(2) /\ X = 0
    BY <1>1, <1>2, <2>2, FromLDY DEF Point
  <2>3. CASE At(LoopStart(loop) - 1) /\ Turn(loop, 0)
    BY <1>1, <1>2, <2>3, FromStartOp DEF Point, InLoop
  <2> QED
    BY <1>3, <2>1, <2>2, <2>3 DEF BeforeLoop
<1>4. ASSUME NEW n \in {0, 1}, InLoop(loop, kind, n)
      PROVE  Present(loop, kind)' /\ Point(loop, kind)'
  <2>1. CASE AtLDA(loop, kind, n)
    BY <1>1, <1>2, <2>1, FromLDA DEF Point, InLoop
  <2>2. CASE AtOp(loop, kind, n)
    BY <1>1, <1>2, <2>2, FromOp DEF Point, InLoop
  <2>3. CASE AtSTA(loop, kind, n)
    BY <1>1, <1>2, <2>3, FromSTA DEF Point, InLoop
  <2>4. CASE AtINX(loop, kind, n)
    BY <1>1, <1>2, <2>4, FromINX DEF Point, InLoop
  <2>5. CASE loop = "CountDown" /\ AtDEY(kind, n)
    BY <1>1, <1>2, <2>5, FromDEY DEF Point, InLoop
  <2>6. CASE AtBNE(loop, kind, n)
    BY <1>1, <1>2, <2>6, FromBNE DEF Point, InLoop
  <2> QED
    BY <1>4, <2>1, <2>2, <2>3, <2>4, <2>5, <2>6 DEF InLoop
<1>5. CASE AfterLoop(loop, kind)
  BY <1>1, <1>2, <1>5, FromSTP DEF Point
<1>6. CASE Stopped(loop, kind)
  BY <1>2, <1>6 DEF Stopped
<1> QED
  BY <1>1, <1>3, <1>4, <1>5, <1>6 DEF Point

LEMMA StutterLoop == LoopInv /\ UNCHANGED cpuVars => LoopInv'
<1> SUFFICES ASSUME LoopInv, UNCHANGED cpuVars
             PROVE  LoopInv'
  OBVIOUS
<1>1. PICK loop \in Loops, kind \in Kinds : Present(loop, kind) /\ Point(loop, kind)
  BY DEF LoopInv
<1>2. A' = A /\ X' = X /\ Y' = Y /\ P' = P /\ PC' = PC /\ ret' = ret /\ mem' = mem
  BY DEF cpuVars, memoryVars
<1> USE <1>2
<1>3. Present(loop, kind)'
  BY <1>1, Same
<1>4. /\ \A offset : At(offset)' <=> At(offset)
      /\ \A n : Turn(loop, n)' <=> Turn(loop, n)
  BY DEF At, Turn
<1>5. /\ \A n : Done(kind, n)' <=> Done(kind, n)
      /\ \A n : DoneButCarry(kind, n)' <=> DoneButCarry(kind, n)
      /\ Result(loop, kind)' <=> Result(loop, kind)
  BY SameDone, SameResult
<1>6. BeforeLoop(loop)' <=> BeforeLoop(loop)
  BY <1>4 DEF BeforeLoop
<1>7. \A n : InLoop(loop, kind, n) => InLoop(loop, kind, n)'
  <2> TAKE n
  <2>1. AtLDA(loop, kind, n) => AtLDA(loop, kind, n)'
    BY <1>4, <1>5 DEF AtLDA
  <2>2. AtOp(loop, kind, n) => AtOp(loop, kind, n)'
    BY <1>4, <1>5, Same DEF AtOp
  <2>3. AtSTA(loop, kind, n) => AtSTA(loop, kind, n)'
    BY <1>4, Same DEF AtSTA, Right
  <2>4. AtINX(loop, kind, n) => AtINX(loop, kind, n)'
    BY <1>4, <1>5 DEF AtINX
  <2>5. AtDEY(kind, n) => AtDEY(kind, n)'
    BY <1>4, <1>5 DEF AtDEY
  <2>6. AtBNE(loop, kind, n) => AtBNE(loop, kind, n)'
    BY <1>4, <1>5 DEF AtBNE
  <2> QED
    BY <2>1, <2>2, <2>3, <2>4, <2>5, <2>6 DEF InLoop
<1>8. /\ AfterLoop(loop, kind) => AfterLoop(loop, kind)'
      /\ Stopped(loop, kind) => Stopped(loop, kind)'
  BY <1>4, <1>5 DEF AfterLoop, Stopped
<1>9. Point(loop, kind)'
  BY <1>1, <1>6, <1>7, <1>8 DEF Point
<1> QED
  BY <1>3, <1>9 DEF LoopInv

\* The code in memory tells which program has ended.
LEMMA OneProgram ==
  ASSUME NEW loop \in Loops, NEW kind \in Kinds, NEW other \in Loops, NEW another \in Kinds,
         Present(loop, kind), Present(other, another)
  PROVE  loop = other /\ kind = another
<1>1. loop = other
  <2>1. /\ read(Start + 1) = IF loop = "CountDown" THEN 0 ELSE \hFE
        /\ read(Start + 1) = IF other = "CountDown" THEN 0 ELSE \hFE
    BY CodeBytes
  <2> QED
    BY <2>1 DEF Loops
<1>2. kind = another
  <2>1. StartOp(kind) = StartOp(another)
    <3>1. read(Start + (LoopStart(loop) - 1)) = StartOp(kind)
      BY CodeBytes
    <3>2. read(Start + (LoopStart(other) - 1)) = StartOp(another)
      BY CodeBytes
    <3> QED
      BY <1>1, <3>1, <3>2
  <2> QED
    BY <2>1 DEF StartOp, Kinds
<1> QED
  BY <1>1, <1>2

LEMMA WordType ==
  ASSUME TypeOK
  PROVE  \A a : WordAt(a) \in Nat /\ WordAt(a) < WordSize
<1>1. \A a : read(a) \in Byte
  BY ReadType DEF TypeOK, MemoryOK
<1>2. \A a : WordAt(a) \in Word
  BY <1>1, AddressType DEF WordAt
<1> QED
  BY <1>2, WordBounds

LEMMA ResultIsRight ==
  ASSUME TypeOK, NEW c \in {0, 1}
  PROVE  LET a == WordAt(0)
             b == WordAt(2)
         IN  /\ Right("ADC", 2, Bytes(4, 2), c) => /\ WordAt(4) = (a + b) % WordSize
                                                   /\ c = 1 <=> a + b >= WordSize
             /\ Right("SBC", 2, Bytes(4, 2), c) => /\ WordAt(4) = (a + WordSize - b) % WordSize
                                                   /\ c = 1 <=> a >= b
<1> DEFINE a == WordAt(0)
           b == WordAt(2)
           r == WordAt(4)
<1>1. /\ a \in Nat /\ a < WordSize
      /\ b \in Nat /\ b < WordSize
      /\ r \in Nat /\ r < WordSize
  BY WordType
<1>2. /\ Right("ADC", 2, Bytes(4, 2), c) => a + b = r + WordSize * c
      /\ Right("SBC", 2, Bytes(4, 2), c) => a - b = r - WordSize * (1 - c)
  BY DEF Right, Bytes, ByteWeight
<1> HIDE DEF a, b, r
<1>3. CASE c = 0
  <2>1. a + b = r + WordSize * c => r = (a + b) % WordSize /\ a + b < WordSize
    BY <1>1, <1>3 DEF WordSize
  <2>2. a - b = r - WordSize * (1 - c) => r = (a + WordSize - b) % WordSize /\ a < b
    BY <1>1, <1>3 DEF WordSize
  <2>3. a + b < WordSize => ~(a + b >= WordSize)
    BY <1>1, WordBounds
  <2>4. a < b => ~(a >= b)
    BY <1>1
  <2> QED
    BY <1>2, <1>3, <2>1, <2>2, <2>3, <2>4 DEF a, b, r
<1>4. CASE c = 1
  <2>1. a + b = r + WordSize * c => r = (a + b) % WordSize /\ a + b >= WordSize
    BY <1>1, <1>4 DEF WordSize
  <2>2. a - b = r - WordSize * (1 - c) => r = (a + WordSize - b) % WordSize /\ a >= b
    BY <1>1, <1>4 DEF WordSize
  <2> QED
    BY <1>2, <1>4, <2>1, <2>2 DEF a, b, r
<1> QED
  BY <1>3, <1>4

LEMMA LoopWords ==
  ASSUME TypeOK, LoopInv
  PROVE  WordsAddUp
<1>1. PICK loop \in Loops, kind \in Kinds : Present(loop, kind) /\ Point(loop, kind)
  BY DEF LoopInv
<1>2. \A other \in Loops, another \in Kinds :
         Finished(ProgramCode(other, another)) => /\ other = loop /\ another = kind
                                                  /\ Result(loop, kind)
  <2> TAKE other \in Loops, another \in Kinds
  <2> HAVE Finished(ProgramCode(other, another))
  <2>1. ret = "Stop" /\ Present(other, another)
    BY DEF Finished, Present
  <2>2. Stopped(loop, kind)
    BY <1>1, <2>1 DEF Point, BeforeLoop, InLoop, AfterLoop, AtLDA, AtOp, AtSTA, AtINX, AtDEY,
                      AtBNE, At
  <2> QED
    BY <1>1, <2>1, <2>2, OneProgram DEF Stopped
<1>3. /\ ClcAdc(CountDown) = ProgramCode("CountDown", "ADC")
      /\ SecSbc(CountDown) = ProgramCode("CountDown", "SBC")
      /\ ClcAdc(CountUp) = ProgramCode("CountUp", "ADC")
      /\ SecSbc(CountUp) = ProgramCode("CountUp", "SBC")
  BY DEF ProgramCode
<1>4. /\ Result("CountDown", kind) => Right(kind, 2, Bytes(4, 2), CarryIn(P))
      /\ Result("CountUp", kind) => \E c \in {0, 1} : Right(kind, 2, Bytes(4, 2), c)
  BY DEF Result, Done, DoneButCarry
<1>5. CarryIn(P) \in {0, 1} /\ (CarryIn(P) = 1 <=> carry \in P)
  BY CarryInCarry
<1>6. "CountDown" \in Loops /\ "CountUp" \in Loops /\ "ADC" \in Kinds /\ "SBC" \in Kinds
  BY DEF Loops, Kinds
<1> QED
  BY <1>2, <1>3, <1>4, <1>5, <1>6, ResultIsRight DEF WordsAddUp

\* Whatever the two words, the print device and the debug mode: when a loop over
\* the bytes of words has ended the result is their sum or difference.  The carry
\* that ADC and SBC hand on (6502isa.cpp:10, 6502isa.cpp:57) survives the INX and
\* DEY between them, which set it when they wrap around and never clear it
\* (6502isa.cpp:977): the counter wraps around only after the last byte.
THEOREM WordsAddUpAlways == Spec /\ WordsLoaded(Word) => []WordsAddUp
<1>1. Init /\ WordsLoaded(Word) => TypeOK /\ LoopInv
  BY InitType, InitLoop
<1>2. TypeOK /\ LoopInv /\ [execute]_cpuVars => (TypeOK /\ LoopInv)'
  BY StepType, StutterType, StepLoop, StutterLoop DEF execute
<1>3. TypeOK /\ LoopInv => WordsAddUp
  BY LoopWords
<1> QED
  BY <1>1, <1>2, <1>3, PTL DEF Spec
=============================================================================
