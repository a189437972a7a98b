------------------------------ MODULE Programs ------------------------------
(***************************************************************************)
(* How the model-checking modules write programs for the simulated CPU:    *)
(* the machine code at some addresses, the vectors, and the image that the *)
(* assembler would make of them.                                           *)
(***************************************************************************)
EXTENDS Bytes, Sequences, Maps

Code(origin, code) == [a \in origin..(origin + Len(code) - 1) |-> code[a - origin + 1]]

Vector(a, target) == a :> low(target) @@ (a + 1) :> high(target)

Start     == \h8000
Interrupt == \h9000

ResetVector     == Vector(\hFFFC, Start)
InterruptVector == Vector(\hFFFE, Interrupt)

\* An image that ends with the last address the CPU can form
FullImage(content) == [bytes |-> content, size |-> WordSize]

\* What the assembler makes of a program that sets no interrupt vector
ShortImage(content) == [bytes |-> content, size |-> \hFFFE]

DefaultPrintDevice == {\hFFFB}

\* LDX #x  LDY #y  LDA #p  PHA  LDA #a  PLP: the registers, and P as a byte
SetRegisters(a, x, y, p) ==
  <<\hA2, x, \hA0, y, \hA9, p, \h48, \hA9, a, \h28>>

\* STP and NOP
Stp == <<\hDB>>
Nop == <<\hEA>>
=============================================================================
