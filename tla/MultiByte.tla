----------------------------- MODULE MultiByte ------------------------------
(***************************************************************************)
(* Arithmetic on words as programs write it: a loop over the bytes that    *)
(* keeps the carry from one byte to the next while it counts.  INX, INY    *)
(* and DEY touch the carry, but only when they wrap around                 *)
(* (6502isa.cpp:977): the loops must not notice.                           *)
(***************************************************************************)
EXTENDS CpuProperties, Programs

\* next: LDA first,X  op second,X  STA result,X  INX
ByteLoop(op, first) == <<\hB5, first, op, first + 2, \h95, first + 4, \hE8>>

\* LDX #0  LDY #2  CLC or SEC  next: ...  DEY  BNE next  STP
CountDown(start, op) ==
  <<\hA2, 0, \hA0, 2, start>> \o ByteLoop(op, 0) \o <<\h88, \hD0, \hF6>> \o Stp

\* LDX #-2  CLC or SEC  next: ...  BNE next  STP: the operands are reached through
\* the wrap of the zero page, and X ends with one
CountUp(start, op) ==
  <<\hA2, \hFE, start>> \o ByteLoop(op, 2) \o <<\hD0, \hF7>> \o Stp

ClcAdc(Loop(_, _)) == Loop(\h18, \h75)
SecSbc(Loop(_, _)) == Loop(\h38, \hF5)

\* The operands are the words at 0 and 2, the result is the word at 4.
Operands(a, b) == Vector(0, a) @@ Vector(2, b)

WordPrograms(words) ==
  {FullImage(Code(Start, code) @@ Operands(a, b) @@ ResetVector) :
     code \in {ClcAdc(CountDown), SecSbc(CountDown), ClcAdc(CountUp), SecSbc(CountUp)},
     a \in words, b \in words}

-----------------------------------------------------------------------------

WordAt(a) == address(read(a), read(a + 1))

\* The program in memory is code, and has come to its end.
Finished(code) == /\ ret = "Stop"
                  /\ \A i \in 1..Len(code) : read(Start + i - 1) = code[i]

\* When such a loop has ended the result is the sum or the difference of the words,
\* and if the counter has not wrapped around C tells of the whole word: no byte has
\* got its carry from the loop's own instructions (StickyCarry sets it and never
\* clears it).
WordsAddUp ==
  LET a == WordAt(0)
      b == WordAt(2)
  IN  /\ Finished(ClcAdc(CountDown)) => /\ WordAt(4) = (a + b) % WordSize
                                        /\ carry \in P <=> a + b >= WordSize
      /\ Finished(SecSbc(CountDown)) => /\ WordAt(4) = (a + WordSize - b) % WordSize
                                        /\ carry \in P <=> a >= b
      /\ Finished(ClcAdc(CountUp)) => WordAt(4) = (a + b) % WordSize
      /\ Finished(SecSbc(CountUp)) => WordAt(4) = (a + WordSize - b) % WordSize
=============================================================================
