------------------------------ MODULE MC_Claims -----------------------------
(***************************************************************************)
(* A program for each claim, short enough for its trace to be read.        *)
(***************************************************************************)
EXTENDS Claims

LOCAL INSTANCE Programs

Run(code) == {FullImage(Code(Start, code \o Stp) @@ ResetVector)}

\* LDA #0  PHA  PLP
PullStatus == Run(<<\hA9, \h00, \h48, \h28>>)

\* LDA #$41  PHA
Push == Run(<<\hA9, \h41, \h48>>)

\* SED  LDA #$09  ADC #$01
AddDecimal == Run(<<\hF8, \hA9, \h09, \h69, \h01>>)

\* LDA #$41  LDX #7  CPX #1  LSR A  LDA $8000, no result of which is zero
NoZero == Run(<<\hA9, \h41, \hA2, \h07, \hE0, \h01, \h4A, \hAD, \h00, \h80>>)

\* WAI, an instruction of the W65C02S that the table does not have
Wait == Run(<<\hCB>>)

MC_PrintDevices == {\hFFFB}
MC_DebugModes == {FALSE}
MC_Lines == {}
=============================================================================
