------------------------------ MODULE Examples ------------------------------
(***************************************************************************)
(* The programs of examples/ as the assembler makes them, and what their   *)
(* comments and their code expect of the simulator.  text is everything    *)
(* the program has printed.                                                *)
(***************************************************************************)
EXTENDS Debugger, Programs

VARIABLE text

examplesVars == <<debuggerVars, text>>

DBGBREAK == <<\h02>>

\* examples/subtract.s: carry before, LDA, SBC, and the result and the flags that
\* the comment expects, N V Z C
Cases == <<
  [sec |-> TRUE,  lda |-> \h05, sbc |-> \h03, a |-> \h02, flags |-> {carry}],
  [sec |-> TRUE,  lda |-> \h05, sbc |-> \h05, a |-> \h00, flags |-> {zero, carry}],
  [sec |-> TRUE,  lda |-> \h05, sbc |-> \h06, a |-> \hFF, flags |-> {negative}],
  [sec |-> FALSE, lda |-> \h05, sbc |-> \h03, a |-> \h01, flags |-> {carry}],
  [sec |-> TRUE,  lda |-> \h7F, sbc |-> \hFF, a |-> \h80, flags |-> {negative, overflow}],
  [sec |-> TRUE,  lda |-> \h80, sbc |-> \h01, a |-> \h7F, flags |-> {overflow, carry}],
  [sec |-> TRUE,  lda |-> \hFE, sbc |-> \h7E, a |-> \h80, flags |-> {negative, carry}],
  [sec |-> TRUE,  lda |-> \h00, sbc |-> \h01, a |-> \hFF, flags |-> {negative}],
  [sec |-> TRUE,  lda |-> \hFF, sbc |-> \hFF, a |-> \h00, flags |-> {zero, carry}],
  [sec |-> FALSE, lda |-> \hFF, sbc |-> \hFF, a |-> \hFF, flags |-> {negative}] >>

CaseCode(c) == <<\hA9, c.lda, IF c.sec THEN \h38 ELSE \h18, \hE9, c.sbc>> \o DBGBREAK

SubtractCode ==
  [i \in 1..60 |-> CaseCode(Cases[((i - 1) \div 6) + 1])[((i - 1) % 6) + 1]]

subtract == ShortImage(Code(Start, SubtractCode \o Stp) @@ ResetVector)

\* examples/hello.s
Message == <<\h48, \h65, \h6C, \h6C, \h6F, \h20, \h57, \h6F, \h72, \h6C, \h64, \h21>>

HelloCode ==
  <<\hA2, \h00,              \* ldx #0
    \hBD, \h0F, \h80,        \* loop: lda message,x
    \hF0, \h07,              \* beq done
    \h8D, \hFB, \hFF,        \* PRINT
    \hE8,                    \* inx
    \h4C, \h02, \h80>>       \* jmp loop
  \o Stp \o Message \o <<0>>

hello == ShortImage(Code(Start, HelloCode) @@ ResetVector)

\* examples/subroutine.s
SubroutineCode ==
  <<\hA9, 1, \h20, \h09, \h80, \hA9, 69>> \o DBGBREAK \o Stp
  \o DBGBREAK \o <<\hA9, \hBA>> \o DBGBREAK \o <<\h60>>

subroutine == ShortImage(Code(Start, SubroutineCode) @@ ResetVector)

\* examples/int.s
IntCode ==
  <<\hA9, 1, \h00>> \o Stp \o DBGBREAK \o <<\hA9, \hBA>> \o DBGBREAK \o <<\h40>>

int == FullImage(Code(Start, IntCode) @@ ResetVector @@ Vector(\hFFFE, Start + 4))

Examples == {subtract, hello, subroutine, int}

-----------------------------------------------------------------------------

ExampleInit == DebuggerInit /\ text = <<>>

ExampleNext ==
  \/ (RunStep \/ StepCommand) /\ text' = text \o out'
  \/ /\ \/ EndOfMemory \/ Inspect \/ ContinueCommand \/ ExitCommand
        \/ RunCrashes \/ StepCrashes \/ GetCrashes
     /\ UNCHANGED text

ExampleSpec == ExampleInit /\ [][ExampleNext]_examplesVars /\ WF_examplesVars(ExampleNext)

-----------------------------------------------------------------------------

\* None of the four programs changes its own code.
Loaded(image) == \A a \in DOMAIN image.bytes \ {print_device_addr} : read(a) = image.bytes[a]

AtBreakpoint == ret = "GoToDebugger"

\* At each of the ten breakpoints of subtract.s the accumulator and the flags N, V,
\* Z and C are the ones its comments expect (examples/subtract.s:14-15 and on).
SubtractAsExpected ==
  Loaded(subtract) /\ AtBreakpoint =>
    \E k \in 1..10 : /\ PC = Start + 6 * k
                     /\ A = Cases[k].a
                     /\ P \cap {negative, overflow, zero, carry} = Cases[k].flags

\* hello.s prints its message and nothing else, character by character.
HelloPrintsItsMessage ==
  Loaded(hello) => /\ text = SubSeq(Message, 1, Len(text))
                   /\ phase = "returned" => text = Message

\* subroutine.s: A is 1 on entry of reset_a, $BA before its rts and 69 after the
\* call; when the program stops the stack is empty again.
SubroutineAsExpected ==
  Loaded(subroutine) =>
    /\ AtBreakpoint => <<PC, A>> \in {<<Start + 10, 1>>, <<Start + 13, \hBA>>, <<Start + 8, 69>>}
    /\ phase = "returned" => A = 69 /\ S = 255

\* int.s: the handler starts with the A and the flags of the brk, its rti continues
\* at the stp behind the brk, with the stack empty and the flags from before it.
InterruptAsExpected ==
  Loaded(int) =>
    /\ AtBreakpoint => \/ PC = Start + 5 /\ A = 1 /\ break_command \in P
                       \/ PC = Start + 8 /\ A = \hBA /\ negative \in P
    /\ phase = "returned" => A = \hBA /\ S = 255 /\ P = InitialPsr

\* Without the debugger every example comes to its stp.
TerminatesWithoutDebugger == ~debug ~> phase = "returned"
=============================================================================
