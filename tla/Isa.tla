--------------------------------- MODULE Isa --------------------------------
(***************************************************************************)
(* The instruction table: isa in 6502isa.cpp, and the addressing modes and *)
(* their lengths from instruction_types.h.                                 *)
(*                                                                         *)
(* An entry names the lambda that executes the opcode and its addressing   *)
(* mode.  Lambdas with the same body share the mnemonic; where the table   *)
(* gives one mnemonic several bodies, the odd one has a suffix: ASLacc     *)
(* works on the accumulator, CPXimm and CPYimm on the low byte of the      *)
(* operand's address, BITzp leaves A out, CMPind is the one CMP not        *)
(* written with the function CMP, LDAabs leaves the flags alone.  Opcodes  *)
(* 0x1C and 0x78 carry the mnemonics TSB and CLI in the source and do what *)
(* TRB and SEI do.                                                         *)
(***************************************************************************)
EXTENDS Integers, Maps

\* Entries with one addressing mode; ops gives the mnemonic of an opcode.
Mode(mode, ops) == [o \in DOMAIN ops |-> [op |-> ops[o], mode |-> mode]]

Column0 ==
     Mode("Stack", \h00 :> "BRK" @@ \h40 :> "RTI" @@ \h60 :> "RTS")
  @@ Mode("Absolute", \h20 :> "JSR")
  @@ Mode("Immediate", \hA0 :> "LDY" @@ \hC0 :> "CPYimm" @@ \hE0 :> "CPXimm")
  @@ Mode("PCRelative", \h10 :> "BPL" @@ \h30 :> "BMI" @@ \h50 :> "BVC" @@ \h70 :> "BVS"
         @@ \h80 :> "BRA" @@ \h90 :> "BCC" @@ \hB0 :> "BCS" @@ \hD0 :> "BNE" @@ \hF0 :> "BEQ")

Column1 ==
     Mode("ZeroPageIndexedIndirect", \h01 :> "ORA" @@ \h21 :> "AND" @@ \h41 :> "EOR"
         @@ \h61 :> "ADC" @@ \h81 :> "STA" @@ \hA1 :> "LDA" @@ \hC1 :> "CMP" @@ \hE1 :> "SBC")
  @@ Mode("ZeroPageIndirectIndexedY", \h11 :> "ORA" @@ \h31 :> "AND" @@ \h51 :> "EOR"
         @@ \h71 :> "ADC" @@ \h91 :> "STA" @@ \hB1 :> "LDA" @@ \hD1 :> "CMP" @@ \hF1 :> "SBC")

Column2 ==
     Mode("ZeroPage", \h12 :> "ORA" @@ \h32 :> "AND" @@ \h52 :> "EOR" @@ \h72 :> "ADC"
         @@ \h92 :> "STA" @@ \hB2 :> "LDA")
  @@ Mode("Immediate", \hA2 :> "LDX")
  @@ Mode("ZeroPageIndirect", \hD2 :> "CMPind" @@ \hF2 :> "SBC")
  @@ Mode("Implied", \h02 :> "DBG")

Column4 ==
     Mode("ZeroPage", \h04 :> "TSB" @@ \h14 :> "TRB" @@ \h24 :> "BITzp" @@ \h64 :> "STZ"
         @@ \h84 :> "STY" @@ \hA4 :> "LDY" @@ \hC4 :> "CPY" @@ \hE4 :> "CPX")
  @@ Mode("ZeroPageIndexedX", \h34 :> "BITzp" @@ \h74 :> "STZ" @@ \h94 :> "STY" @@ \hB4 :> "LDY")

Column5 ==
     Mode("ZeroPage", \h05 :> "ORA" @@ \h25 :> "AND" @@ \h45 :> "EOR" @@ \h65 :> "ADC"
         @@ \h85 :> "STA" @@ \hA5 :> "LDA" @@ \hC5 :> "CMP" @@ \hE5 :> "SBC")
  @@ Mode("ZeroPageIndexedX", \h15 :> "ORA" @@ \h35 :> "AND" @@ \h55 :> "EOR" @@ \h75 :> "ADC"
         @@ \h95 :> "STA" @@ \hB5 :> "LDA" @@ \hD5 :> "CMP" @@ \hF5 :> "SBC")

Column6 ==
     Mode("ZeroPage", \h06 :> "ASL" @@ \h26 :> "ROL" @@ \h46 :> "LSR" @@ \h66 :> "ROR"
         @@ \h86 :> "STX" @@ \hA6 :> "LDX" @@ \hC6 :> "DEC" @@ \hE6 :> "INC")
  @@ Mode("ZeroPageIndexedX", \h16 :> "ASL" @@ \h36 :> "ROL" @@ \h56 :> "LSR" @@ \h76 :> "ROR"
         @@ \hD6 :> "DEC" @@ \hF6 :> "INC")
  @@ Mode("ZeroPageIndexedY", \h96 :> "STX" @@ \hB6 :> "LDX")

\* RMB0..RMB7 and SMB0..SMB7, one opcode for each bit
Column7 == Mode("ZeroPage", [o \in {16 * h + 7 : h \in 0..15} |->
                               IF o < 128 THEN "RMB" ELSE "SMB"])

Column8 ==
     Mode("Stack", \h08 :> "PHP" @@ \h28 :> "PLP" @@ \h48 :> "PHA" @@ \h68 :> "PLA")
  @@ Mode("Implied", \h18 :> "CLC" @@ \h38 :> "SEC" @@ \h58 :> "CLI" @@ \h78 :> "SEI"
         @@ \h88 :> "DEY" @@ \h98 :> "TYA" @@ \hA8 :> "TAY" @@ \hB8 :> "CLV"
         @@ \hC8 :> "INY" @@ \hD8 :> "CLD" @@ \hE8 :> "INX" @@ \hF8 :> "SED")

Column9 ==
     Mode("Immediate", \h09 :> "ORA" @@ \h29 :> "AND" @@ \h49 :> "EOR" @@ \h69 :> "ADC"
         @@ \h89 :> "BIT" @@ \hA9 :> "LDA" @@ \hC9 :> "CMP" @@ \hE9 :> "SBC")
  @@ Mode("AbsoluteIndexedY", \h19 :> "ORA" @@ \h39 :> "AND" @@ \h59 :> "EOR" @@ \h79 :> "ADC"
         @@ \h99 :> "STA" @@ \hB9 :> "LDA" @@ \hD9 :> "CMP" @@ \hF9 :> "SBC")

ColumnA ==
     Mode("Accumulator", \h0A :> "ASLacc" @@ \h1A :> "INCacc" @@ \h2A :> "ROLacc"
         @@ \h3A :> "DECacc" @@ \h4A :> "LSRacc" @@ \h6A :> "RORacc")
  @@ Mode("Stack", \h5A :> "PHY" @@ \h7A :> "PLY" @@ \hDA :> "PHX" @@ \hFA :> "PLX")
  @@ Mode("Implied", \h8A :> "TXA" @@ \h9A :> "TXS" @@ \hAA :> "TAX" @@ \hBA :> "TSX"
         @@ \hCA :> "DEX" @@ \hEA :> "NOP")

ColumnB == Mode("Implied", \hDB :> "STP")

ColumnC ==
     Mode("Absolute", \h0C :> "TSB" @@ \h1C :> "TRB" @@ \h2C :> "BIT" @@ \h4C :> "JMP"
         @@ \h8C :> "STY" @@ \h9C :> "STZ" @@ \hAC :> "LDY" @@ \hCC :> "CPY" @@ \hEC :> "CPX")
  @@ Mode("AbsoluteIndexedX", \h3C :> "BIT" @@ \hBC :> "LDY")
  @@ Mode("AbsoluteIndirect", \h6C :> "JMP")
  @@ Mode("AbsoluteIndexedIndirect", \h7C :> "JMP")

ColumnD ==
     Mode("Absolute", \h0D :> "ORA" @@ \h2D :> "AND" @@ \h4D :> "EOR" @@ \h6D :> "ADC"
         @@ \h8D :> "STA" @@ \hAD :> "LDAabs" @@ \hCD :> "CMP" @@ \hED :> "SBC")
  @@ Mode("AbsoluteIndexedX", \h1D :> "ORA" @@ \h3D :> "AND" @@ \h5D :> "EOR" @@ \h7D :> "ADC"
         @@ \h9D :> "STA" @@ \hBD :> "LDA" @@ \hDD :> "CMP" @@ \hFD :> "SBC")

ColumnE ==
     Mode("Absolute", \h0E :> "ASL" @@ \h2E :> "ROL" @@ \h4E :> "LSR" @@ \h6E :> "ROR"
         @@ \h8E :> "STX" @@ \hAE :> "LDX" @@ \hCE :> "DEC" @@ \hEE :> "INC")
  @@ Mode("AbsoluteIndexedX", \h1E :> "ASL" @@ \h3E :> "ROL" @@ \h5E :> "LSR" @@ \h7E :> "ROR"
         @@ \h9E :> "STZ" @@ \hDE :> "DEC" @@ \hFE :> "INC")
  @@ Mode("AbsoluteIndexedY", \hBE :> "LDX")

\* BBR0..BBR7 and BBS0..BBS7
ColumnF == Mode("PCRelative", [o \in {16 * h + 15 : h \in 0..15} |->
                                 IF o < 128 THEN "BBR" ELSE "BBS"])

\* The eight keys that the initializer list gives a second time, 0xB9 a third time
Repeated ==
     Mode("Immediate", \hA0 :> "LDY" @@ \hA9 :> "LDA" @@ \hA2 :> "LDX")
  @@ Mode("AbsoluteIndexedX", \hBD :> "LDA")
  @@ Mode("AbsoluteIndexedY", \hB9 :> "LDA")
  @@ Mode("Absolute", \h8D :> "STA" @@ \h4C :> "JMP")
  @@ Mode("Implied", \hE8 :> "INXplain")

\* std::unordered_map keeps the first of two elements with equal keys (the
\* container of the GNU library that the Makefile builds with), as @@ does.
isa == Column0 @@ Column1 @@ Column2 @@ Column4 @@ Column5 @@ Column6 @@ Column7
    @@ Column8 @@ Column9 @@ ColumnA @@ ColumnB @@ ColumnC @@ ColumnD @@ ColumnE
    @@ ColumnF @@ Repeated

\* The bit that RMBx, SMBx and BBRx are called with
BitOf(opcode) == (opcode \div 16) % 8

\* Mutant of bytes_for_addressing_mode: AbsoluteIndexedX among the short modes.
bytes_for_indexed_x_2(mode) ==
  CASE mode \in {"Absolute", "AbsoluteIndexedY", "AbsoluteIndirect"} -> 3
    [] mode \in {"AbsoluteIndexedIndirect", "Accumulator", "Implied", "Stack"} -> 1
    [] OTHER -> 2

bytes_for_addressing_mode(mode) ==
  CASE mode \in {"Absolute", "AbsoluteIndexedX", "AbsoluteIndexedY", "AbsoluteIndirect"} -> 3
    [] mode \in {"Immediate", "PCRelative", "ZeroPage", "ZeroPageIndexedIndirect",
                 "ZeroPageIndexedX", "ZeroPageIndexedY", "ZeroPageIndirect",
                 "ZeroPageIndirectIndexedY"} -> 2
    [] mode \in {"AbsoluteIndexedIndirect", "Accumulator", "Implied", "Stack"} -> 1
    [] OTHER -> 0
=============================================================================
