------------------------------ MODULE MC_Stack ------------------------------
(***************************************************************************)
(* Programs that use the stack: every sequence of four fragments of a      *)
(* menu, and recursions and loops that fill the stack up to its capacity   *)
(* and beyond.                                                             *)
(***************************************************************************)
EXTENDS StackDiscipline

LOCAL INSTANCE Programs

Leaf == \h9100      \* PHA  LDA #$81  PLA  RTS
Nest == \h9110      \* PHP  JSR Leaf  SEC  PLP  RTS
Tamper == \h9120    \* TSX  INC 0,X  RTS : returns one byte further
Interrupted == \h9130  \* BRK  RTS

JSRto(target) == <<\h20, low(target), high(target)>>

Subroutines ==
     Code(Leaf, <<\h48, \hA9, \h81, \h68, \h60>>)
  @@ Code(Nest, <<\h08>> \o JSRto(Leaf) \o <<\h38, \h28, \h60>>)
  @@ Code(Tamper, <<\hBA, \hF6, \h00, \h60>>)
  @@ Code(Interrupted, <<\h00, \h60>>)
  \* the handler: PHX  PHY  LDX #0  TXA  TAY  SEI  PLY  PLX  RTI
  @@ Code(Interrupt, <<\hDA, \h5A, \hA2, \h00, \h8A, \hA8, \h78, \h7A, \hFA, \h40>>)

Menu == { <<\h48>>,                       \* PHA
          <<\h68>>,                       \* PLA
          <<\h08>>,                       \* PHP
          <<\h28>>,                       \* PLP
          <<\h85, \hFE>>,                 \* STA $FE
          <<\hA2, \h01, \h9A>>,           \* LDX #1  TXS
          <<\h00>>,                       \* BRK
          JSRto(Nest),
          JSRto(Tamper) \o <<\hEA>>,      \* and a NOP to skip
          JSRto(Interrupted) }

Straight == {a \o b \o c \o d : a \in Menu, b \in Menu, c \in Menu, d \in Menu}

\* LDX #n  JSR f  STP  f: DEX  BEQ done  JSR f  done: RTS
Recursion(n) == <<\hA2, n>> \o JSRto(Start + 6) \o Stp
                \o <<\hCA, \hF0, \h03>> \o JSRto(Start + 6) \o <<\h60>>

\* push: PHX  DEX  BNE push  pull: PLA  DEX  BNE pull  STP, from X = n
Fill(n) == <<\hA2, n, \hDA, \hCA, \hD0, \hFC, \h68, \hCA, \hD0, \hFC>> \o Stp

MC_Images ==
  {FullImage(Code(Start, code \o Stp) @@ Subroutines @@ ResetVector @@ InterruptVector) :
     code \in Straight \cup {Recursion(n) : n \in {1, 2, 64, 127, 128, 129}}
                       \cup {Fill(n) : n \in {0, 1, 255}}}
MC_PrintDevices == {\hFFFB}
MC_DebugModes == {FALSE}
=============================================================================
