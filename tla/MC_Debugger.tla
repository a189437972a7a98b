----------------------------- MODULE MC_Debugger ----------------------------
(***************************************************************************)
(* A user who may type anything at the prompt, or end the input, while     *)
(* small programs run that break in a loop, in a subroutine and just       *)
(* before they stop, programs that run off the end of a short image, one   *)
(* that runs around the end of the address space and one whose pointer     *)
(* lies behind it.                                                         *)
(***************************************************************************)
EXTENDS Debugger

LOCAL INSTANCE Programs

\* LDX #3  loop: DBG  DEX  BNE loop  STP
Loop == <<\hA2, 3, \h02, \hCA, \hD0, \hFC>> \o Stp

\* JSR f  STP  f: PHP  DBG  BRK  PLP  RTS, the handler: DBG  RTI
Call == <<\h20, \h04, \h80>> \o Stp \o <<\h08, \h02, \h00, \h28, \h60>>

\* DBG  STP, and DBG  LDA #$41  STA $FFFB  STP
Twice == <<\h02>> \o Stp
Echo == <<\h02, \hA9, \h41, \h8D, \hFB, \hFF>> \o Stp

\* DBG  NOP  PLX  BBS7 over the vectors  NOP in the last cell, at 0: DBG  STP
Wrap == Code(\hFFFA, <<\h02, \hEA, \hFA, \hFF, \h00, \hEA>>) @@ Code(0, <<\h02, \hDB>>)

\* DBG  JMP ($FFFF), with the high byte of the target behind the last cell
LastPointer == Code(Start, <<\h02, \h6C, \hFF, \hFF>>) @@ (\hFFFF :> \h10) @@ (\h10000 :> \h80)
           @@ Code(\h8010, Stp) @@ ResetVector

FullImages == {FullImage(Wrap), FullImage(LastPointer)} \cup
              {FullImage(Code(Start, code) @@ Code(Interrupt, <<\h02, \h40>>)
                         @@ ResetVector @@ InterruptVector) :
                 code \in {Loop, Call, Twice, Echo}}

\* Short images: the program runs over the reset vector and past the end, or
\* jumps there. The cells from $FFFE on are not part of the image.
Over == Code(\hFFF8, <<\h02, \hEA, \h02, \hEA, \hF8, \hFF>>)
Beyond == Code(Start, <<\h02, \h4C, \hFE, \hFF>>) @@ ResetVector

ShortImages == {ShortImage(content @@ (\hFFFE :> \h03) @@ (\hFFFF :> \hDB)) :
                  content \in {Over, Beyond}}

MC_Images == FullImages \cup ShortImages

MC_PrintDevices == {\hFFFB}
MC_DebugModes == BOOLEAN

Plain(name) == [name |-> name, args |-> <<>>]
Get(args)   == [name |-> "get", args |-> args]

\* get reads one cell, the last cells of a full image, past the end of any image,
\* nothing, and too many arguments
MC_Lines == {Plain(name) : name \in {"", "typo", "dump", "get", "s", "step", "c", "help", "q"}}
            \cup {Get(<<0>>), Get(<<\hFFF0, 16>>), Get(<<\hFFFF, 2>>), Get(<<\h20000>>),
                  Get(<<\h20000, 0>>), Get(<<1, 2, 3>>)}
=============================================================================
