------------------------------ MODULE MC_Sweep ------------------------------
(***************************************************************************)
(* Every one of the 256 opcodes, run after a prelude that sets the         *)
(* registers, with a few profiles of registers, flags and operand bytes.   *)
(* Around the program lie STP opcodes, so that most programs stop after a  *)
(* few steps whatever the opcode under test does to the PC.  ADC and SBC   *)
(* also meet every pair of the bytes around the boundaries of the signed   *)
(* and the unsigned range, with carry clear and set, in binary and with    *)
(* the decimal flag set, and as loops over words.                          *)
(***************************************************************************)
EXTENDS MultiByte

\* lo and hi are the bytes after the opcode.  In the order of the list: plain
\* values; everything negative; a zero page pointer and an absolute address that
\* end with the last cell; opcodes for operands.
Profiles ==
  { [a |-> 0,    x |-> 1,   y |-> 2,   p |-> \h24, lo |-> \h40, hi |-> \hDB],
    [a |-> \h80, x |-> 255, y |-> 255, p |-> \hE3, lo |-> \hFE, hi |-> \h12],
    [a |-> 1,    x |-> 4,   y |-> 8,   p |-> \h01, lo |-> \hFF, hi |-> \hFF],
    [a |-> \h7F, x |-> 0,   y |-> 0,   p |-> \hDB, lo |-> \hDB, hi |-> \hDB] }

Program(o, profile) ==
  FullImage(
       Code(Start, SetRegisters(profile.a, profile.x, profile.y, profile.p)
                   \o <<o, profile.lo, profile.hi>> \o Stp \o Stp \o Stp)
    @@ [a \in (Start - 40)..(Start - 1) |-> \hDB]
    @@ [a \in (Start + 16)..(Start + 160) |-> \hDB]
    @@ Code(Interrupt, Stp)
    @@ Code(\h003F, <<\hDB, \h80, \h00, \hFF, \hDB, \h7F>>)
    @@ Code(\hDB40, <<\hDB, \h01, \hFE, \h7F>>)
    @@ Code(\h12FE, <<\hDB, \h90>>)
    @@ Code(\h10000, <<\h80>>)
    @@ Code(\hDBDB, Stp)
    @@ ResetVector @@ InterruptVector)

Boundary == {0, 1, 2, 9, 16, 63, 64, 65, 126, 127, 128, 129, 130, 191, 192, 193, 254, 255}

\* o is the opcode of ADC # or SBC #
Calculation(o, a, b, p) ==
  FullImage(Code(Start, SetRegisters(a, 0, 0, p) \o <<o, b>> \o Stp) @@ ResetVector)

BoundaryWords == {0, 1, 255, 256, 32767, 32768, 65280, 65535}

MC_Images ==
       {Program(o, profile) : o \in Byte, profile \in Profiles}
  \cup {Calculation(o, a, b, p) : o \in {\h69, \hE9}, a \in Boundary, b \in Boundary,
                                 p \in {\h24, \h25, \hED}}
  \cup WordPrograms(BoundaryWords)

\* One device at its default address, one where the profiles store, one where
\* the first push goes.
MC_PrintDevices == {\hFFFB, \h0040, \h00FE}

MC_DebugModes == BOOLEAN
=============================================================================
