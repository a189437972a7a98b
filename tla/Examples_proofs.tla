-------------------------- MODULE Examples_proofs ---------------------------
(***************************************************************************)
(* Proofs that the programs of examples/ do what their comments expect,    *)
(* for every debug mode, every print device (the default one for hello)    *)
(* and every user: each has an inductive invariant with one assertion for  *)
(* each of its instructions.                                               *)
(***************************************************************************)
EXTENDS Examples, Instructions_proofs, Debugger_proofs, SequenceTheorems

-----------------------------------------------------------------------------
(* Sessions *)

\* The image is the one that has been loaded.
Starts(image) == mem = image.bytes /\ size = image.size

LEMMA ExamplesAreSessions == ExampleSpec => DebuggerSpec
<1>1. ExampleInit => DebuggerInit
  BY DEF ExampleInit
<1>2. [ExampleNext]_examplesVars => [DebuggerNext]_debuggerVars
  BY DEF ExampleNext, DebuggerNext, run, go_to_debugger, Crashes, examplesVars
<1> QED
  BY <1>1, <1>2, PTL DEF ExampleSpec, DebuggerSpec

\* What holds in every session, whatever the program
InSession == TypeOK /\ StillRunning

LEMMA SessionInvariant == ExampleSpec => []InSession
BY ExamplesAreSessions, SessionsKeepPromises, StillRunningInvariant, PTL DEF InSession

\* A session in which the program has not left the memory, and which has not
\* returned unless the program has come to an STP
Alive == /\ Running \/ ret = "Stop"
         /\ phase = "returned" => ret = "Stop"

\* Such a session executes an instruction, or leaves the program alone.
Executes == /\ step /\ ret # "Stop"
            /\ text' = text \o out'
            /\ size' = size /\ print_device_addr' = print_device_addr

LEMMA SessionStep ==
  ASSUME InSession, Alive, [ExampleNext]_examplesVars
  PROVE  /\ Executes \/ UNCHANGED <<cpuVars, text>>
         /\ phase' = "returned" => ret' = "Stop"
<1> USE DEF InSession, Alive, StillRunning
<1>1. step => size' = size /\ print_device_addr' = print_device_addr
  BY StepWrites DEF NoWrite, write, JSR, BRK
<1>2. CASE RunStep /\ text' = text \o out'
  <2>1. Running /\ step /\ ret # "Stop"
    BY <1>2 DEF RunStep
  <2>2. phase' = "returned" => ret' = "Stop"
    BY <1>2 DEF RunStep
  <2> QED
    BY <1>1, <1>2, <2>1, <2>2 DEF Executes
<1>3. CASE StepCommand /\ text' = text \o out'
  <2>1. step /\ ret # "Stop"
    BY <1>3 DEF StepCommand, Typed, getline
  <2>2. phase' = "returned" => ret' = "Stop"
    BY <1>3 DEF StepCommand
  <2> QED
    BY <1>1, <1>3, <2>1, <2>2 DEF Executes
<1>4. ~EndOfMemory
  BY DEF EndOfMemory
<1>5. CASE /\ \/ RunCrashes \/ Inspect \/ GetCrashes \/ StepCrashes
              \/ ContinueCommand \/ ExitCommand
           /\ UNCHANGED text
  BY <1>5 DEF RunCrashes, Inspect, GetCrashes, StepCrashes, ContinueCommand, ExitCommand,
              Typed, getline, cpuVars
<1>6. CASE UNCHANGED examplesVars
  BY <1>6 DEF examplesVars, debuggerVars, cpuVars
<1> QED
  BY <1>2, <1>3, <1>4, <1>5, <1>6 DEF ExampleNext

-----------------------------------------------------------------------------
(* Programs in memory *)

\* The code starts at Start.
InMemory(code) == \A i \in 1..Len(code) : read(Start + i - 1) = code[i]

\* What the CPU fetches at an offset from Start
LEMMA Fetched ==
  ASSUME NEW o \in 0..60, PC = Start + o
  PROVE  /\ opcode = read(Start + o)
         /\ low_byte = read(Start + (o + 1))
         /\ high_byte = read(Start + (o + 2))
         /\ Plus(PC, 1) = Start + (o + 1)
         /\ Plus(PC, 2) = Start + (o + 2)
         /\ Plus(PC, 3) = Start + (o + 3)
<1>1. /\ Plus(PC, 1) = Start + (o + 1)
      /\ Plus(PC, 2) = Start + (o + 2)
      /\ Plus(PC, 3) = Start + (o + 3)
  BY DEF Plus, Start, WordSize
<1> QED
  BY <1>1 DEF opcode, low_byte, high_byte

\* A write below the code leaves the code alone, and so does one behind it.
LEMMA CodeStays ==
  ASSUME NEW code, Len(code) \in 0..256, InMemory(code),
         \A a \in Start..(Start + 255) : read(a)' = read(a)
  PROVE  InMemory(code)'
<1>1. PICK n \in 0..256 : Len(code) = n
  OBVIOUS
<1>2. \A i \in 1..n : Start + i - 1 \in Start..(Start + 255)
  <2> TAKE i \in 1..n
  <2>1. i \in 1..256
    OBVIOUS
  <2> QED
    BY <2>1 DEF Start
<1> QED
  BY <1>1, <1>2 DEF InMemory

LEMMA ProgramStarts ==
  ASSUME Init, NEW code, Len(code) \in 0..256, HoldsProgram(mem, code)
  PROVE  InMemory(code) /\ PC = Start /\ ret = "OK"
<1>1. InMemory(code) /\ read(\hFFFC) = low(Start) /\ read(\hFFFC + 1) = high(Start)
  BY DEF HoldsProgram, HoldsCode, HoldsWord, InMemory, read
<1>2. address(low(Start), high(Start)) = Start
  BY DEF address, low, high, Start
<1> QED
  BY <1>1, <1>2 DEF Init, ResetAddress

LEMMA ImageHolds ==
  ASSUME NEW code, Len(code) \in 0..256
  PROVE  HoldsProgram(Code(Start, code) @@ ResetVector, code)
<1>1. /\ HoldsCode(Code(Start, code), code)
      /\ \A x \in DOMAIN Code(Start, code) : x < \hFFFB
  BY CodeCells
<1>2. HoldsWord(ResetVector, \hFFFC, Start)
  BY WordCells DEF ResetVector
<1>3. HoldsWord(Code(Start, code) @@ ResetVector, \hFFFC, Start)
  <2>1. \hFFFC \notin DOMAIN Code(Start, code) /\ \hFFFC + 1 \notin DOMAIN Code(Start, code)
    BY <1>1
  <2> QED
    BY <1>2, <2>1, MergedCells
<1>4. HoldsCode(Code(Start, code) @@ ResetVector, code)
  BY <1>1, MergedCells
<1> QED
  BY <1>3, <1>4 DEF HoldsProgram

\* The next instruction is at the offset: behind any instruction, behind a DBG
At(offset)    == PC = Start + offset /\ ret \in {"OK", "OKPCModified"}
Broke(offset) == PC = Start + offset /\ ret \in {"OK", "GoToDebugger"}

LEMMA OffsetsRun ==
  \A offset \in 0..60 : PC = Start + offset /\ size \in {\hFFFE, WordSize} => Running
BY DEF Running, Start, WordSize

-----------------------------------------------------------------------------
(* subroutine.s *)

LEMMA SubroutineBytes ==
  LET c == SubroutineCode
  IN  /\ Len(c) = 14
      /\ c[1] = \hA9 /\ c[2] = 1 /\ c[3] = \h20 /\ c[4] = \h09 /\ c[5] = \h80
      /\ c[6] = \hA9 /\ c[7] = 69 /\ c[8] = \h02 /\ c[9] = \hDB
      /\ c[10] = \h02 /\ c[11] = \hA9 /\ c[12] = \hBA /\ c[13] = \h02 /\ c[14] = \h60
BY DEF SubroutineCode, DBGBREAK, Stp

\* The frame of the call is on the stack, and nothing else.
Called == S = \hFD /\ read(\hFD) = 2 /\ read(\hFE) = 128

SubroutinePoint ==
  \/ At(0) /\ S = 255
  \/ At(2) /\ A = 1 /\ S = 255
  \/ At(9) /\ A = 1 /\ Called
  \/ Broke(10) /\ A = 1 /\ Called
  \/ At(12) /\ A = \hBA /\ Called
  \/ Broke(13) /\ A = \hBA /\ Called
  \/ At(5) /\ S = 255
  \/ At(7) /\ A = 69 /\ S = 255
  \/ Broke(8) /\ A = 69 /\ S = 255
  \/ ret = "Stop" /\ A = 69 /\ S = 255

SubroutineCells ==
  LET at(offset) == read(Start + offset)
  IN  /\ at(0) = \hA9 /\ at(1) = 1
      /\ at(2) = \h20 /\ at(3) = \h09 /\ at(4) = \h80
      /\ at(5) = \hA9 /\ at(6) = 69
      /\ at(7) = \h02
      /\ at(8) = \hDB
      /\ at(9) = \h02
      /\ at(10) = \hA9 /\ at(11) = \hBA
      /\ at(12) = \h02
      /\ at(13) = \h60

\* The inductive invariant
SubroutineInv == /\ size = \hFFFE
                 /\ InMemory(SubroutineCode)
                 /\ SubroutinePoint
                 /\ phase = "returned" => ret = "Stop"

LEMMA SubroutineFetch ==
  ASSUME InMemory(SubroutineCode)
  PROVE  SubroutineCells
<1> DEFINE c == SubroutineCode
<1>1. \A i \in 1..14 : read(Start + i - 1) = c[i]
  BY SubroutineBytes DEF InMemory
<1> HIDE DEF c
<1>2. \A i \in 0..13 : read(Start + i) = c[i + 1]
  <2> TAKE i \in 0..13
  <2>1. i + 1 \in 1..14 /\ Start + (i + 1) - 1 = Start + i
    BY DEF Start
  <2> QED
    BY <1>1, <2>1
<1> QED
  BY <1>2, SubroutineBytes DEF c, SubroutineCells

LEMMA SubroutineInit ==
  ASSUME ExampleInit, Starts(subroutine)
  PROVE  SubroutineInv
<1>1. Init /\ phase = "run"
  BY DEF ExampleInit, DebuggerInit
<1>2. HoldsProgram(mem, SubroutineCode) /\ size = \hFFFE
  BY SubroutineBytes, ImageHolds DEF Starts, subroutine, ShortImage
<1>3. InMemory(SubroutineCode) /\ PC = Start /\ ret = "OK"
  BY <1>1, <1>2, SubroutineBytes, ProgramStarts
<1>4. S = 255
  BY <1>1 DEF Init
<1>5. At(0)
  BY <1>3 DEF At, Start
<1> QED
  BY <1>1, <1>2, <1>3, <1>4, <1>5 DEF SubroutineInv, SubroutinePoint

\* The frame that the JSR pushes and the code behind it
LEMMA CallPushes ==
  ASSUME S = 255, mem' = PcPushed, PC = Start + 2
  PROVE  /\ read(\hFD)' = 2 /\ read(\hFE)' = 128
         /\ \A a \in Start..(Start + 255) : read(a)' = read(a)
<1>1. pushed(1) = \hFE /\ pushed(2) = \hFD /\ high(PC) = 128 /\ low(PC) = 2
  BY DEF pushed, high, low, Start
<1>2. mem' = written(written(mem, \hFE, 128), \hFD, 2)
  BY <1>1 DEF PcPushed
<1> QED
  BY <1>2 DEF written, read, Start

LEMMA SubroutineStep ==
  ASSUME TypeOK, step, ret # "Stop", InMemory(SubroutineCode), SubroutinePoint
  PROVE  InMemory(SubroutineCode)' /\ SubroutinePoint'
<1> DEFINE at(offset) == read(Start + offset)
<1>0. SubroutineCells
  BY SubroutineFetch
<1>1. ASSUME mem' = mem
      PROVE  InMemory(SubroutineCode)' /\ (S' = S => (Called' <=> Called))
  BY <1>1 DEF InMemory, Called, read
<1>2. CASE At(0) /\ S = 255
  <2>1. /\ PC = Start + 0 /\ opcode = \hA9 /\ low_byte = 1 /\ Plus(PC, 2) = Start + 2
    BY <1>0, <1>2, Fetched DEF At, SubroutineCells, Start
  <2>2. At(2)' /\ A' = 1 /\ S' = 255 /\ mem' = mem
    BY <1>2, <2>1, LDAimmStep DEF At
  <2> QED
    BY <1>1, <2>2 DEF SubroutinePoint
<1>3. CASE At(2) /\ A = 1 /\ S = 255
  <2>1. /\ opcode = \h20 /\ absolute = Start + 9
    BY <1>0, <1>3, Fetched DEF At, SubroutineCells, Start, absolute, address
  <2>2. At(9)' /\ A' = 1 /\ S' = \hFD /\ mem' = PcPushed
    BY <1>3, <2>1, JSRStep DEF At, pushed
  <2>3. Called' /\ InMemory(SubroutineCode)'
    BY <1>3, <2>2, CallPushes, CodeStays, SubroutineBytes DEF At, Called
  <2> QED
    BY <2>2, <2>3 DEF SubroutinePoint
<1>4. CASE At(9) /\ A = 1 /\ Called
  <2>1. opcode = \h02 /\ Plus(PC, 1) = Start + 10
    BY <1>0, <1>4, Fetched DEF At, SubroutineCells, Start
  <2>2. Broke(10)' /\ A' = 1 /\ S' = S /\ mem' = mem
    BY <1>4, <2>1, DBGStep DEF Broke
  <2> QED
    BY <1>1, <1>4, <2>2 DEF SubroutinePoint
<1>5. CASE Broke(10) /\ A = 1 /\ Called
  <2>1. opcode = \hA9 /\ low_byte = \hBA /\ Plus(PC, 2) = Start + 12
    BY <1>0, <1>5, Fetched DEF Broke, SubroutineCells, Start
  <2>2. At(12)' /\ A' = \hBA /\ S' = S /\ mem' = mem
    BY <1>5, <2>1, LDAimmStep DEF At
  <2> QED
    BY <1>1, <1>5, <2>2 DEF SubroutinePoint
<1>6. CASE At(12) /\ A = \hBA /\ Called
  <2>1. opcode = \h02 /\ Plus(PC, 1) = Start + 13
    BY <1>0, <1>6, Fetched DEF At, SubroutineCells, Start
  <2>2. Broke(13)' /\ A' = \hBA /\ S' = S /\ mem' = mem
    BY <1>6, <2>1, DBGStep DEF Broke
  <2> QED
    BY <1>1, <1>6, <2>2 DEF SubroutinePoint
<1>7. CASE Broke(13) /\ A = \hBA /\ Called
  <2>1. opcode = \h60 /\ popped(2) = 255 /\ popped(1) = \hFE
    BY <1>0, <1>7, Fetched DEF Broke, SubroutineCells, Called, popped
  <2>2. Plus(address(read(S), read(\hFE)), 3) = Start + 5
    BY <1>7 DEF Called, address, Plus, Start, WordSize
  <2>3. At(5)' /\ S' = 255 /\ mem' = mem
    BY <2>1, <2>2, RTSStep DEF At
  <2> QED
    BY <1>1, <2>3 DEF SubroutinePoint
<1>8. CASE At(5) /\ S = 255
  <2>1. opcode = \hA9 /\ low_byte = 69 /\ Plus(PC, 2) = Start + 7
    BY <1>0, <1>8, Fetched DEF At, SubroutineCells, Start
  <2>2. At(7)' /\ A' = 69 /\ S' = 255 /\ mem' = mem
    BY <1>8, <2>1, LDAimmStep DEF At
  <2> QED
    BY <1>1, <2>2 DEF SubroutinePoint
<1>9. CASE At(7) /\ A = 69 /\ S = 255
  <2>1. opcode = \h02 /\ Plus(PC, 1) = Start + 8
    BY <1>0, <1>9, Fetched DEF At, SubroutineCells, Start
  <2>2. Broke(8)' /\ A' = 69 /\ S' = 255 /\ mem' = mem
    BY <1>9, <2>1, DBGStep DEF Broke
  <2> QED
    BY <1>1, <2>2 DEF SubroutinePoint
<1>10. CASE Broke(8) /\ A = 69 /\ S = 255
  <2>1. opcode = \hDB
    BY <1>0, <1>10, Fetched DEF Broke, SubroutineCells, Start
  <2>2. ret' = "Stop" /\ A' = 69 /\ S' = 255 /\ mem' = mem
    BY <1>10, <2>1, STPStep
  <2> QED
    BY <1>1, <2>2 DEF SubroutinePoint
<1> QED
  BY <1>2, <1>3, <1>4, <1>5, <1>6, <1>7, <1>8, <1>9, <1>10 DEF SubroutinePoint

LEMMA SubroutineAlive ==
  ASSUME SubroutineInv
  PROVE  Alive
BY OffsetsRun DEF SubroutineInv, SubroutinePoint, At, Broke, Alive

LEMMA SubroutineNext ==
  ASSUME InSession, SubroutineInv, [ExampleNext]_examplesVars
  PROVE  SubroutineInv'
<1>1. /\ Executes \/ UNCHANGED <<cpuVars, text>>
      /\ phase' = "returned" => ret' = "Stop"
  BY SubroutineAlive, SessionStep
<1>2. CASE Executes
  BY <1>1, <1>2, SubroutineStep DEF Executes, InSession, SubroutineInv
<1>3. CASE UNCHANGED cpuVars
  BY <1>1, <1>3 DEF cpuVars, memoryVars, SubroutineInv, InMemory, SubroutinePoint, At, Broke,
                    Called, read
<1> QED
  BY <1>1, <1>2, <1>3

\* For every debug mode, print device and user: subroutine.s is in reset_a with A
\* as its caller left it, returns behind its JSR with A as its callee left it, and
\* ends with an empty stack (examples/subroutine.s, 6502isa.cpp:208, 6502isa.cpp:248).
THEOREM SubroutineAsExpectedAlways ==
  ExampleSpec /\ Starts(subroutine) => []SubroutineAsExpected
<1>1. SubroutineInv => SubroutineAsExpected
  BY DEF SubroutineInv, SubroutinePoint, At, Broke, SubroutineAsExpected, AtBreakpoint, Start
<1> QED
  BY <1>1, SubroutineInit, SubroutineNext, SessionInvariant, PTL DEF ExampleSpec

-----------------------------------------------------------------------------
(* int.s *)

LEMMA IntBytes ==
  LET c == IntCode
  IN  /\ Len(c) = 9
      /\ c[1] = \hA9 /\ c[2] = 1 /\ c[3] = \h00 /\ c[4] = \hDB
      /\ c[5] = \h02 /\ c[6] = \hA9 /\ c[7] = \hBA /\ c[8] = \h02 /\ c[9] = \h40
BY DEF IntCode, DBGBREAK, Stp

\* The frame of the interrupt is on the stack, and nothing else.
Interrupted == /\ S = \hFC
               /\ read(\hFC) = FromBits(InitialPsr)
               /\ read(\hFD) = 2 /\ read(\hFE) = 128

IntPoint ==
  \/ At(0) /\ P = InitialPsr /\ S = 255
  \/ At(2) /\ A = 1 /\ P = InitialPsr /\ S = 255
  \/ At(4) /\ A = 1 /\ break_command \in P /\ Interrupted
  \/ Broke(5) /\ A = 1 /\ break_command \in P /\ Interrupted
  \/ At(7) /\ A = \hBA /\ negative \in P /\ Interrupted
  \/ Broke(8) /\ A = \hBA /\ negative \in P /\ Interrupted
  \/ At(3) /\ A = \hBA /\ P = InitialPsr /\ S = 255
  \/ ret = "Stop" /\ A = \hBA /\ P = InitialPsr /\ S = 255

IntCells ==
  LET at(offset) == read(Start + offset)
  IN  /\ at(0) = \hA9 /\ at(1) = 1
      /\ at(2) = \h00
      /\ at(3) = \hDB
      /\ at(4) = \h02
      /\ at(5) = \hA9 /\ at(6) = \hBA
      /\ at(7) = \h02
      /\ at(8) = \h40

\* The program is in memory, and its handler is the one of BRK.
IntInMemory == InMemory(IntCode) /\ BreakAddress = Start + 4

\* The inductive invariant
IntInv == /\ size = WordSize
          /\ IntInMemory
          /\ IntPoint
          /\ phase = "returned" => ret = "Stop"

LEMMA IntFetch ==
  ASSUME InMemory(IntCode)
  PROVE  IntCells
<1> DEFINE c == IntCode
<1>1. \A i \in 1..9 : read(Start + i - 1) = c[i]
  BY IntBytes DEF InMemory
<1> HIDE DEF c
<1>2. \A i \in 0..8 : read(Start + i) = c[i + 1]
  <2> TAKE i \in 0..8
  <2>1. i + 1 \in 1..9 /\ Start + (i + 1) - 1 = Start + i
    BY DEF Start
  <2> QED
    BY <1>1, <2>1
<1> QED
  BY <1>2, IntBytes DEF c, IntCells

LEMMA IntInit ==
  ASSUME ExampleInit, Starts(int)
  PROVE  IntInv
<1>1. Init /\ phase = "run"
  BY DEF ExampleInit, DebuggerInit
<1> DEFINE f == Code(Start, IntCode) @@ ResetVector
           v == Vector(\hFFFE, Start + 4)
<1>2. HoldsProgram(f, IntCode)
  BY IntBytes, ImageHolds
<1>3. HoldsWord(v, \hFFFE, Start + 4)
  BY WordCells
<1>4. \hFFFE \notin DOMAIN f /\ \hFFFE + 1 \notin DOMAIN f
  <2>1. \A x \in DOMAIN Code(Start, IntCode) : x < \hFFFB
    BY IntBytes, CodeCells
  <2>2. \A x : x \in DOMAIN ResetVector <=> x = \hFFFC \/ x = \hFFFC + 1
    BY VectorCells DEF ResetVector
  <2>3. \A x : x \in DOMAIN f <=> x \in DOMAIN Code(Start, IntCode) \/ x \in DOMAIN ResetVector
    BY Merge
  <2> HIDE DEF f
  <2> QED
    BY <2>1, <2>2, <2>3
<1>5. mem = f @@ v /\ size = WordSize
  BY DEF Starts, int, FullImage
<1> HIDE DEF f, v
<1>6. HoldsProgram(mem, IntCode) /\ HoldsWord(mem, \hFFFE, Start + 4)
  BY <1>2, <1>3, <1>4, <1>5, MergedCells DEF HoldsProgram
<1>7. InMemory(IntCode) /\ PC = Start /\ ret = "OK"
  BY <1>1, <1>6, IntBytes, ProgramStarts
<1>8. BreakAddress = Start + 4
  BY <1>6 DEF HoldsWord, BreakAddress, read, address, low, high, Start
<1>9. S = 255 /\ P = InitialPsr
  BY <1>1 DEF Init
<1>10. At(0)
  BY <1>7 DEF At, Start
<1> QED
  BY <1>1, <1>5, <1>7, <1>8, <1>9, <1>10 DEF IntInv, IntInMemory, IntPoint

\* The frame that the BRK pushes, and the code and the vector behind it
LEMMA BreakPushes ==
  ASSUME TypeOK, S = 255, PC = Start + 2,
         mem' = written(PcPushed, pushed(3), FromBits(P))
  PROVE  /\ read(\hFC)' = FromBits(P) /\ read(\hFD)' = 2 /\ read(\hFE)' = 128
         /\ \A a \in Start..(Start + 255) : read(a)' = read(a)
         /\ BreakAddress' = BreakAddress
<1>1. /\ pushed(1) = \hFE /\ pushed(2) = \hFD /\ pushed(3) = \hFC
      /\ high(PC) = 128 /\ low(PC) = 2
  BY DEF pushed, high, low, Start
<1> DEFINE p == FromBits(P)
<1> HIDE DEF p
<1>2. mem' = written(written(written(mem, \hFE, 128), \hFD, 2), \hFC, p)
  BY <1>1 DEF PcPushed, p
<1>3. \A a : a \notin {\hFC, \hFD, \hFE} => read(a)' = read(a)
  BY <1>2, ZenonT(60) DEF written, read
<1>4. read(\hFC)' = p /\ read(\hFD)' = 2 /\ read(\hFE)' = 128
  <2>1. \A m, a, v : /\ a \in DOMAIN written(m, a, v) /\ written(m, a, v)[a] = v
                     /\ \A c : c \in DOMAIN m /\ c # a
                          => c \in DOMAIN written(m, a, v) /\ written(m, a, v)[c] = m[c]
    BY DEF written
  <2> DEFINE m1 == written(mem, \hFE, 128)
             m2 == written(m1, \hFD, 2)
  <2>2. \hFE \in DOMAIN m1 /\ m1[\hFE] = 128
    BY <2>1
  <2> HIDE DEF m1
  <2>3. \hFD \in DOMAIN m2 /\ m2[\hFD] = 2 /\ \hFE \in DOMAIN m2 /\ m2[\hFE] = 128
    BY <2>1, <2>2
  <2>4. mem' = written(m2, \hFC, p)
    BY <1>2 DEF m1
  <2> HIDE DEF m2
  <2> QED
    BY <2>1, <2>3, <2>4 DEF read
<1>5. BreakAddress' = BreakAddress
  BY <1>3 DEF BreakAddress
<1>6. \A a \in Start..(Start + 255) : a \notin {\hFC, \hFD, \hFE}
  BY DEF Start
<1> QED
  BY <1>3, <1>4, <1>5, <1>6 DEF p

\* The flags of the program's loads, and the ones that RTI restores
LEMMA IntFlags ==
  /\ update_flags(InitialPsr, 1) = InitialPsr
  /\ \A p : negative \in update_flags(p, \hBA)
  /\ ToBits(FromBits(InitialPsr)) = InitialPsr
<1>1. update_flags(InitialPsr, 1) = InitialPsr
  BY DEF update_flags, set_bit, InitialPsr, is_zero, is_negative, zero, negative, unused,
         interrupt_disable
<1>2. \A p : negative \in update_flags(p, \hBA)
  BY UpdateFlagsMembers DEF Byte
<1>3. FromBits(InitialPsr) = 36
  BY DEF FromBits, InitialPsr, Weight, unused, interrupt_disable
<1>4. ToBits(36) = {2, 5}
  BY DEF ToBits, BitPosition, Weight
<1> QED
  BY <1>1, <1>2, <1>3, <1>4 DEF InitialPsr, unused, interrupt_disable

LEMMA IntStep ==
  ASSUME TypeOK, step, ret # "Stop", IntInMemory, IntPoint
  PROVE  IntInMemory' /\ IntPoint'
<1>0. IntCells
  BY IntFetch DEF IntInMemory
<1>1. ASSUME mem' = mem
      PROVE  IntInMemory' /\ (S' = S => (Interrupted' <=> Interrupted))
  BY <1>1 DEF IntInMemory, InMemory, BreakAddress, Interrupted, read
<1>2. CASE At(0) /\ P = InitialPsr /\ S = 255
  <2>1. PC = Start + 0 /\ opcode = \hA9 /\ low_byte = 1 /\ Plus(PC, 2) = Start + 2
    BY <1>0, <1>2, Fetched DEF At, IntCells, Start
  <2>2. At(2)' /\ A' = 1 /\ P' = InitialPsr /\ S' = 255 /\ mem' = mem
    BY <1>2, <2>1, LDAimmStep, IntFlags DEF At
  <2> QED
    BY <1>1, <2>2 DEF IntPoint
<1>3. CASE At(2) /\ A = 1 /\ P = InitialPsr /\ S = 255
  <2>1. opcode = \h00
    BY <1>0, <1>3, Fetched DEF At, IntCells
  <2>2. /\ At(4)' /\ A' = 1 /\ S' = \hFC /\ break_command \in P'
        /\ mem' = written(PcPushed, pushed(3), FromBits(P))
    BY <1>3, <2>1, BRKStep DEF IntInMemory, At, pushed
  <2>3. Interrupted'
    BY <1>3, <2>2, BreakPushes DEF At, Interrupted
  <2>4. IntInMemory'
    BY <1>3, <2>2, BreakPushes, CodeStays, IntBytes DEF At, IntInMemory
  <2> QED
    BY <2>2, <2>3, <2>4 DEF IntPoint
<1>4. CASE At(4) /\ A = 1 /\ break_command \in P /\ Interrupted
  <2>1. opcode = \h02 /\ Plus(PC, 1) = Start + 5
    BY <1>0, <1>4, Fetched DEF At, IntCells, Start
  <2>2. Broke(5)' /\ A' = 1 /\ break_command \in P' /\ S' = S /\ mem' = mem
    BY <1>4, <2>1, DBGStep DEF Broke
  <2> QED
    BY <1>1, <1>4, <2>2 DEF IntPoint
<1>5. CASE Broke(5) /\ A = 1 /\ break_command \in P /\ Interrupted
  <2>1. opcode = \hA9 /\ low_byte = \hBA /\ Plus(PC, 2) = Start + 7
    BY <1>0, <1>5, Fetched DEF Broke, IntCells, Start
  <2>2. At(7)' /\ A' = \hBA /\ negative \in P' /\ S' = S /\ mem' = mem
    BY <1>5, <2>1, LDAimmStep, IntFlags DEF At
  <2> QED
    BY <1>1, <1>5, <2>2 DEF IntPoint
<1>6. CASE At(7) /\ A = \hBA /\ negative \in P /\ Interrupted
  <2>1. opcode = \h02 /\ Plus(PC, 1) = Start + 8
    BY <1>0, <1>6, Fetched DEF At, IntCells, Start
  <2>2. Broke(8)' /\ A' = \hBA /\ negative \in P' /\ S' = S /\ mem' = mem
    BY <1>6, <2>1, DBGStep DEF Broke
  <2> QED
    BY <1>1, <1>6, <2>2 DEF IntPoint
<1>7. CASE Broke(8) /\ A = \hBA /\ negative \in P /\ Interrupted
  <2>1. /\ opcode = \h40
        /\ popped(3) = 255 /\ popped(1) = \hFD /\ popped(2) = \hFE
    BY <1>0, <1>7, Fetched DEF Broke, IntCells, Interrupted, popped
  <2>2. Plus(address(read(\hFD), read(\hFE)), 1) = Start + 3
    BY <1>7 DEF Interrupted, address, Plus, Start, WordSize
  <2>3. ToBits(read(S)) = InitialPsr
    BY <1>7, IntFlags DEF Interrupted
  <2>4. At(3)' /\ A' = \hBA /\ P' = InitialPsr /\ S' = 255 /\ mem' = mem
    BY <1>7, <2>1, <2>2, <2>3, RTIStep DEF At
  <2> QED
    BY <1>1, <2>4 DEF IntPoint
<1>8. CASE At(3) /\ A = \hBA /\ P = InitialPsr /\ S = 255
  <2>1. opcode = \hDB
    BY <1>0, <1>8, Fetched DEF At, IntCells, Start
  <2>2. ret' = "Stop" /\ A' = \hBA /\ P' = InitialPsr /\ S' = 255 /\ mem' = mem
    BY <1>8, <2>1, STPStep
  <2> QED
    BY <1>1, <2>2 DEF IntPoint
<1> QED
  BY <1>2, <1>3, <1>4, <1>5, <1>6, <1>7, <1>8 DEF IntPoint

LEMMA IntAlive ==
  ASSUME IntInv
  PROVE  Alive
BY OffsetsRun DEF IntInv, IntPoint, At, Broke, Alive

LEMMA IntNext ==
  ASSUME InSession, IntInv, [ExampleNext]_examplesVars
  PROVE  IntInv'
<1>1. /\ Executes \/ UNCHANGED <<cpuVars, text>>
      /\ phase' = "returned" => ret' = "Stop"
  BY IntAlive, SessionStep
<1>2. CASE Executes
  BY <1>1, <1>2, IntStep DEF Executes, InSession, IntInv
<1>3. CASE UNCHANGED cpuVars
  BY <1>1, <1>3 DEF cpuVars, memoryVars, IntInv, IntInMemory, InMemory, BreakAddress, IntPoint,
                    At, Broke, Interrupted, read
<1> QED
  BY <1>1, <1>2, <1>3

\* For every debug mode, print device and user: the handler of int.s starts with
\* the A of its BRK, and its RTI continues behind the BRK with the flags from before
\* it and an empty stack (examples/int.s, 6502isa.cpp:176, 6502isa.cpp:228).
THEOREM InterruptAsExpectedAlways ==
  ExampleSpec /\ Starts(int) => []InterruptAsExpected
<1>1. IntInv => InterruptAsExpected
  BY DEF IntInv, IntPoint, At, Broke, InterruptAsExpected, AtBreakpoint, Start
<1> QED
  BY <1>1, IntInit, IntNext, SessionInvariant, PTL DEF ExampleSpec

-----------------------------------------------------------------------------
(* subtract.s *)

Tested == {negative, overflow, zero, carry}

\* The comments of the ten cases agree with the arithmetic of SBC.
CaseIsRight(k) ==
  LET c        == Cases[k]
      b        == IF c.sec THEN 0 ELSE 1
      unsigned == c.lda - c.sbc - b
      signed   == Signed(c.lda) - Signed(c.sbc) - b
  IN  /\ c.lda \in Byte /\ c.sbc \in Byte
      /\ c.a = Plus(unsigned, 0) % 256
      /\ carry \in c.flags <=> unsigned >= 0
      /\ overflow \in c.flags <=> signed \notin -128..127
      /\ negative \in c.flags <=> c.a > 127
      /\ zero \in c.flags <=> c.a = 0
      /\ c.flags \subseteq Tested

LEMMA CasesAreRight == \A k \in 1..10 : CaseIsRight(k)
<1> USE DEF CaseIsRight, Cases, Byte, Plus, Signed, WordSize, Tested,
            negative, overflow, zero, carry
<1>1. CaseIsRight(1)
  OBVIOUS
<1>2. CaseIsRight(2)
  OBVIOUS
<1>3. CaseIsRight(3)
  OBVIOUS
<1>4. CaseIsRight(4)
  OBVIOUS
<1>5. CaseIsRight(5)
  OBVIOUS
<1>6. CaseIsRight(6)
  OBVIOUS
<1>7. CaseIsRight(7)
  OBVIOUS
<1>8. CaseIsRight(8)
  OBVIOUS
<1>9. CaseIsRight(9)
  OBVIOUS
<1>10. CaseIsRight(10)
  OBVIOUS
<1> HIDE DEF CaseIsRight
<1> QED
  BY <1>1, <1>2, <1>3, <1>4, <1>5, <1>6, <1>7, <1>8, <1>9, <1>10

\* The offset of case k
Offset(k) == 6 * (k - 1)

\* The program
SubtractProgram == SubtractCode \o Stp

LEMMA CaseBytes ==
  \A c : LET code == CaseCode(c)
         IN  /\ code[1] = \hA9 /\ code[2] = c.lda
             /\ code[3] = IF c.sec THEN \h38 ELSE \h18
             /\ code[4] = \hE9 /\ code[5] = c.sbc /\ code[6] = \h02
BY DEF CaseCode, DBGBREAK

\* t is s and one element more.
Longer(t, s, e) == /\ Len(t) = Len(s) + 1
                   /\ \A i \in 1..Len(s) : t[i] = s[i]
                   /\ t[Len(s) + 1] = e

LEMMA OneByteMore ==
  ASSUME NEW T, NEW s \in Seq(T), NEW e \in T
  PROVE  Longer(s \o <<e>>, s, e)
BY DEF Longer

LEMMA SubtractBytes ==
  /\ Len(SubtractProgram) = 61
  /\ \A k \in 1..10, j \in 1..6 :
       SubtractProgram[Offset(k) + j] = CaseCode(Cases[k])[j]
  /\ SubtractProgram[61] = \hDB
<1> DEFINE T == {SubtractCode[i] : i \in 1..60} \cup {\hDB}
<1>1. SubtractCode \in [1..60 -> T]
  BY DEF SubtractCode
<1> HIDE DEF T
<1>2. SubtractCode \in Seq(T) /\ Len(SubtractCode) = 60
  <2>1. SubtractCode \in Seq(T)
    BY <1>1, SeqDef
  <2> DEFINE n == Len(SubtractCode)
  <2>2. n \in Nat /\ 1..n = 1..60
    BY <1>1, <2>1, LenProperties
  <2> HIDE DEF n
  <2>3. n >= 60
    BY <2>2
  <2>4. n \in 1..n
    BY <2>2, <2>3
  <2>5. n = 60
    BY <2>2, <2>3, <2>4
  <2> QED
    BY <2>1, <2>5 DEF n
<1>4. /\ Len(SubtractProgram) = 61
      /\ \A i \in 1..60 : SubtractProgram[i] = SubtractCode[i]
      /\ SubtractProgram[61] = \hDB
  <2>1. SubtractProgram = SubtractCode \o <<\hDB>> /\ \hDB \in T
    BY DEF SubtractProgram, Stp, T
  <2>2. Longer(SubtractCode \o <<\hDB>>, SubtractCode, \hDB)
    BY <1>2, <2>1, OneByteMore
  <2>3. Longer(SubtractProgram, SubtractCode, \hDB)
    BY <2>1, <2>2
  <2> QED
    BY <1>2, <2>3 DEF Longer
<1>5. ASSUME NEW k \in 1..10, NEW j \in 1..6
      PROVE  SubtractProgram[Offset(k) + j] = CaseCode(Cases[k])[j]
  <2> DEFINE i == Offset(k) + j
  <2>1. i \in 1..60 /\ ((i - 1) \div 6) + 1 = k /\ ((i - 1) % 6) + 1 = j
    BY DEF Offset
  <2> HIDE DEF i
  <2>2. SubtractCode[i] = CaseCode(Cases[((i - 1) \div 6) + 1])[((i - 1) % 6) + 1]
    BY <2>1 DEF SubtractCode
  <2>3. SubtractProgram[i] = CaseCode(Cases[k])[j]
    BY <1>4, <2>1, <2>2
  <2> QED
    BY <2>3 DEF i
<1> QED
  BY <1>4, <1>5

\* The five instructions of case k
CaseCells(k) ==
  LET at(n) == read(Start + (Offset(k) + n))
  IN  /\ at(0) = \hA9 /\ at(1) = Cases[k].lda
      /\ at(2) = IF Cases[k].sec THEN \h38 ELSE \h18
      /\ at(3) = \hE9 /\ at(4) = Cases[k].sbc
      /\ at(5) = \h02

LEMMA SubtractFetch ==
  ASSUME InMemory(SubtractProgram)
  PROVE  /\ \A k \in 1..10 : CaseCells(k)
         /\ read(Start + 60) = \hDB
<1>1. \A i \in 1..61 : read(Start + i - 1) = SubtractProgram[i]
  BY SubtractBytes DEF InMemory
<1>2. \A i \in 0..60 : read(Start + i) = SubtractProgram[i + 1]
  <2> TAKE i \in 0..60
  <2>1. i + 1 \in 1..61 /\ Start + (i + 1) - 1 = Start + i
    BY DEF Start
  <2> QED
    BY <1>1, <2>1
<1>3. \A k \in 1..10, n \in 0..5 :
        read(Start + (Offset(k) + n)) = CaseCode(Cases[k])[n + 1]
  <2> TAKE k \in 1..10, n \in 0..5
  <2>1. /\ Offset(k) + n \in 0..60
        /\ (Offset(k) + n) + 1 = Offset(k) + (n + 1)
        /\ n + 1 \in 1..6
    BY DEF Offset
  <2> QED
    BY <1>2, <2>1, SubtractBytes
<1> QED
  BY <1>2, <1>3, CaseBytes, SubtractBytes DEF CaseCells

\* What the comments of case k expect
CaseDone(k) == A = Cases[k].a /\ P \cap Tested = Cases[k].flags

SubtractPoint ==
  \/ At(0)
  \/ \E k \in 1..10 :
       \/ At(Offset(k) + 2) /\ A = Cases[k].lda
       \/ At(Offset(k) + 3) /\ A = Cases[k].lda /\ (carry \in P <=> Cases[k].sec)
       \/ At(Offset(k) + 5) /\ CaseDone(k)
       \/ Broke(Offset(k) + 6) /\ CaseDone(k)
  \/ ret = "Stop"

\* The inductive invariant
SubtractInv == /\ size = \hFFFE
               /\ InMemory(SubtractProgram)
               /\ SubtractPoint
               /\ phase = "returned" => ret = "Stop"

LEMMA SubtractInit ==
  ASSUME ExampleInit, Starts(subtract)
  PROVE  SubtractInv
<1>1. Init /\ phase = "run"
  BY DEF ExampleInit, DebuggerInit
<1>2. HoldsProgram(mem, SubtractProgram) /\ size = \hFFFE
  <2>1. mem = Code(Start, SubtractProgram) @@ ResetVector /\ size = \hFFFE
    BY DEF Starts, subtract, ShortImage, SubtractProgram
  <2>2. Len(SubtractProgram) \in 0..256
    BY SubtractBytes
  <2> QED
    BY <2>1, <2>2, ImageHolds
<1>3. InMemory(SubtractProgram) /\ PC = Start /\ ret = "OK"
  BY <1>1, <1>2, SubtractBytes, ProgramStarts
<1>4. At(0)
  BY <1>3 DEF At, Start
<1> QED
  BY <1>1, <1>2, <1>3, <1>4 DEF SubtractInv, SubtractPoint

\* The first instruction of a case, reached from the start or from the case before
LEMMA CaseBegins ==
  ASSUME TypeOK, step, InMemory(SubtractProgram),
         NEW k \in 1..10, PC = Start + Offset(k)
  PROVE  At(Offset(k) + 2)' /\ A' = Cases[k].lda /\ mem' = mem
<1>1. Offset(k) \in 0..60 /\ Offset(k) + 0 = Offset(k)
  BY DEF Offset
<1>2. opcode = \hA9 /\ low_byte = Cases[k].lda /\ Plus(PC, 2) = Start + (Offset(k) + 2)
  BY <1>1, SubtractFetch, Fetched DEF CaseCells
<1> QED
  BY <1>2, LDAimmStep DEF At

LEMMA CaseSetsCarry ==
  ASSUME TypeOK, step, InMemory(SubtractProgram),
         NEW k \in 1..10, At(Offset(k) + 2), A = Cases[k].lda
  PROVE  /\ At(Offset(k) + 3)' /\ A' = Cases[k].lda /\ (carry \in P' <=> Cases[k].sec)
         /\ mem' = mem
<1>1. Offset(k) + 2 \in 0..60 /\ (Offset(k) + 2) + 1 = Offset(k) + 3
  BY DEF Offset
<1>2. opcode = (IF Cases[k].sec THEN \h38 ELSE \h18) /\ Plus(PC, 1) = Start + (Offset(k) + 3)
  BY <1>1, SubtractFetch, Fetched DEF CaseCells, At
<1>3. opcode \in {\h18, \h38} /\ (opcode = \h38 <=> Cases[k].sec)
  BY <1>2
<1> QED
  BY <1>2, <1>3, CarryFlagStep DEF At

LEMMA CaseSubtracts ==
  ASSUME TypeOK, step, InMemory(SubtractProgram),
         NEW k \in 1..10, At(Offset(k) + 3), A = Cases[k].lda,
         carry \in P <=> Cases[k].sec
  PROVE  At(Offset(k) + 5)' /\ CaseDone(k)' /\ mem' = mem
<1>1. /\ Offset(k) + 3 \in 0..60
      /\ (Offset(k) + 3) + 1 = Offset(k) + 4 /\ (Offset(k) + 3) + 2 = Offset(k) + 5
  BY DEF Offset
<1>2. /\ opcode = \hE9 /\ low_byte = Cases[k].sbc
      /\ Plus(PC, 2) = Start + (Offset(k) + 5)
  BY <1>1, SubtractFetch, Fetched DEF CaseCells, At
<1> DEFINE b == IF Cases[k].sec THEN 0 ELSE 1
           unsigned == Cases[k].lda - Cases[k].sbc - b
           signed == Signed(Cases[k].lda) - Signed(Cases[k].sbc) - b
<1>3. 1 - CarryIn(P) = b
  BY CarryInCarry
<1>4. /\ A' = Plus(unsigned, 0) % 256
      /\ carry \in P' <=> unsigned >= 0
      /\ overflow \in P' <=> signed \notin -128..127
      /\ negative \in P' <=> A' > 127
      /\ zero \in P' <=> A' = 0
      /\ PC' = Plus(PC, 2) /\ ret' = "OK" /\ mem' = mem
  BY <1>2, <1>3, SBCimmStep, SMTT(30)
<1>5. /\ Cases[k].a = Plus(unsigned, 0) % 256
      /\ carry \in Cases[k].flags <=> unsigned >= 0
      /\ overflow \in Cases[k].flags <=> signed \notin -128..127
      /\ negative \in Cases[k].flags <=> Cases[k].a > 127
      /\ zero \in Cases[k].flags <=> Cases[k].a = 0
      /\ Cases[k].flags \subseteq Tested
  BY CasesAreRight, ZenonT(60) DEF CaseIsRight
<1> HIDE DEF b, unsigned, signed
<1>6. A' = Cases[k].a
  BY <1>4, <1>5
<1>7. \A flag \in Tested : flag \in P' <=> flag \in Cases[k].flags
  BY <1>4, <1>5, <1>6 DEF Tested
<1>8. P' \cap Tested = Cases[k].flags
  BY <1>5, <1>7
<1> QED
  BY <1>2, <1>4, <1>6, <1>8 DEF At, CaseDone, Tested, negative, overflow, zero, carry

LEMMA CaseBreaks ==
  ASSUME TypeOK, step, InMemory(SubtractProgram),
         NEW k \in 1..10, At(Offset(k) + 5), CaseDone(k)
  PROVE  Broke(Offset(k) + 6)' /\ CaseDone(k)' /\ mem' = mem
<1>1. Offset(k) + 5 \in 0..60 /\ (Offset(k) + 5) + 1 = Offset(k) + 6
  BY DEF Offset
<1>2. opcode = \h02 /\ Plus(PC, 1) = Start + (Offset(k) + 6)
  BY <1>1, SubtractFetch, Fetched DEF CaseCells, At
<1> QED
  BY <1>2, DBGStep DEF Broke, CaseDone

LEMMA SubtractStep ==
  ASSUME TypeOK, step, ret # "Stop", InMemory(SubtractProgram), SubtractPoint
  PROVE  InMemory(SubtractProgram)' /\ SubtractPoint'
<1>1. mem' = mem => InMemory(SubtractProgram)'
  BY DEF InMemory, read
<1>2. CASE At(0)
  <2>1. PC = Start + Offset(1) /\ 1 \in 1..10
    BY <1>2 DEF At, Offset
  <2> QED
    BY <1>1, <2>1, CaseBegins DEF SubtractPoint
<1>3. ASSUME NEW k \in 1..10, At(Offset(k) + 2), A = Cases[k].lda
      PROVE  InMemory(SubtractProgram)' /\ SubtractPoint'
  BY <1>1, <1>3, CaseSetsCarry DEF SubtractPoint
<1>4. ASSUME NEW k \in 1..10, At(Offset(k) + 3), A = Cases[k].lda,
             carry \in P <=> Cases[k].sec
      PROVE  InMemory(SubtractProgram)' /\ SubtractPoint'
  BY <1>1, <1>4, CaseSubtracts DEF SubtractPoint
<1>5. ASSUME NEW k \in 1..10, At(Offset(k) + 5), CaseDone(k)
      PROVE  InMemory(SubtractProgram)' /\ SubtractPoint'
  BY <1>1, <1>5, CaseBreaks DEF SubtractPoint
<1>6. ASSUME NEW k \in 1..10, Broke(Offset(k) + 6), CaseDone(k)
      PROVE  InMemory(SubtractProgram)' /\ SubtractPoint'
  <2>1. CASE k \in 1..9
    <3>1. k + 1 \in 1..10 /\ PC = Start + Offset(k + 1)
      BY <1>6, <2>1 DEF Broke, Offset
    <3> QED
      BY <1>1, <3>1, CaseBegins DEF SubtractPoint
  <2>2. CASE k = 10
    <3>1. PC = Start + 60
      BY <1>6, <2>2 DEF Broke, Offset
    <3>2. opcode = \hDB
      BY <3>1, SubtractFetch, Fetched
    <3> QED
      BY <1>1, <3>2, STPStep DEF SubtractPoint
  <2> QED
    BY <2>1, <2>2
<1> QED
  BY <1>2, <1>3, <1>4, <1>5, <1>6 DEF SubtractPoint

LEMMA SubtractAlive ==
  ASSUME SubtractInv
  PROVE  Alive
<1>1. \A k \in 1..10 : /\ Offset(k) + 2 \in 0..60 /\ Offset(k) + 3 \in 0..60
                       /\ Offset(k) + 5 \in 0..60 /\ Offset(k) + 6 \in 0..60
  BY DEF Offset
<1> QED
  BY <1>1, OffsetsRun DEF SubtractInv, SubtractPoint, At, Broke, Alive

LEMMA SubtractNext ==
  ASSUME InSession, SubtractInv, [ExampleNext]_examplesVars
  PROVE  SubtractInv'
<1>1. /\ Executes \/ UNCHANGED <<cpuVars, text>>
      /\ phase' = "returned" => ret' = "Stop"
  BY SubtractAlive, SessionStep
<1>2. CASE Executes
  BY <1>1, <1>2, SubtractStep DEF Executes, InSession, SubtractInv
<1>3. CASE UNCHANGED cpuVars
  <2>1. InMemory(SubtractProgram)' /\ size' = size
    BY <1>3 DEF cpuVars, memoryVars, SubtractInv, InMemory, read
  <2>2. SubtractPoint'
    BY <1>3 DEF cpuVars, SubtractInv, SubtractPoint, At, Broke, CaseDone
  <2> QED
    BY <1>1, <2>1, <2>2 DEF SubtractInv
<1> QED
  BY <1>1, <1>2, <1>3

LEMMA SubtractExpected ==
  ASSUME SubtractInv
  PROVE  SubtractAsExpected
<1> SUFFICES ASSUME ret = "GoToDebugger"
             PROVE  \E k \in 1..10 : /\ PC = Start + 6 * k
                                     /\ A = Cases[k].a
                                     /\ P \cap Tested = Cases[k].flags
  BY DEF SubtractAsExpected, AtBreakpoint, Tested
<1>1. PICK k \in 1..10 : Broke(Offset(k) + 6) /\ CaseDone(k)
  BY DEF SubtractInv, SubtractPoint, At
<1>2. PC = Start + 6 * k
  BY <1>1 DEF Broke, Offset
<1> QED
  BY <1>1, <1>2 DEF CaseDone

\* For every debug mode, print device and user: at each of the breakpoints of
\* subtract.s A and the flags are those of its comments, whatever the flags were
\* that the case before left behind (examples/subtract.s:14-15, 6502isa.cpp:57).
THEOREM SubtractAsExpectedAlways ==
  ExampleSpec /\ Starts(subtract) => []SubtractAsExpected
BY SubtractInit, SubtractNext, SubtractExpected, SessionInvariant, PTL DEF ExampleSpec

-----------------------------------------------------------------------------
(* hello.s *)

LEMMA HelloBytes ==
  LET c == HelloCode
  IN  /\ Len(c) = 28
      /\ c[1] = \hA2 /\ c[2] = 0 /\ c[3] = \hBD /\ c[4] = \h0F /\ c[5] = \h80
      /\ c[6] = \hF0 /\ c[7] = 7 /\ c[8] = \h8D /\ c[9] = \hFB /\ c[10] = \hFF
      /\ c[11] = \hE8 /\ c[12] = \h4C /\ c[13] = 2 /\ c[14] = \h80 /\ c[15] = \hDB
      /\ \A n \in 1..12 : c[15 + n] = Message[n]
      /\ c[28] = 0
<1>1. Len(HelloCode) = 28
  BY DEF HelloCode, Stp, Message
<1>2. LET c == HelloCode
      IN  /\ c[1] = \hA2 /\ c[2] = 0 /\ c[3] = \hBD /\ c[4] = \h0F /\ c[5] = \h80
          /\ c[6] = \hF0 /\ c[7] = 7 /\ c[8] = \h8D /\ c[9] = \hFB /\ c[10] = \hFF
          /\ c[11] = \hE8 /\ c[12] = \h4C /\ c[13] = 2 /\ c[14] = \h80 /\ c[15] = \hDB
          /\ c[28] = 0
  BY DEF HelloCode, Stp, Message
<1>3. \A n \in 1..12 : HelloCode[15 + n] = Message[n]
  BY DEF HelloCode, Stp, Message
<1> QED
  BY <1>1, <1>2, <1>3

\* The byte of the message that X leads to, or the zero behind it
Shown(n) == IF n = 12 THEN 0 ELSE Message[n + 1]

\* The first n characters have been printed.
Printed(n) == text = SubSeq(Message, 1, n)

HelloPoint(n) ==
  \/ At(0) /\ n = 0
  \/ At(2) /\ X = n
  \/ At(5) /\ X = n /\ A = Shown(n) /\ (zero \in P <=> n = 12)
  \/ At(7) /\ X = n /\ A = Shown(n) /\ n < 12
  \/ At(10) /\ X = n - 1 /\ n > 0
  \/ At(11) /\ X = n
  \/ At(14) /\ n = 12
  \/ ret = "Stop" /\ n = 12

HelloPoints == \E n \in 0..12 : Printed(n) /\ HelloPoint(n)

HelloCells ==
  LET at(offset) == read(Start + offset)
  IN  /\ at(0) = \hA2 /\ at(1) = 0
      /\ at(2) = \hBD /\ at(3) = \h0F /\ at(4) = \h80
      /\ at(5) = \hF0 /\ at(6) = 7
      /\ at(7) = \h8D /\ at(8) = \hFB /\ at(9) = \hFF
      /\ at(10) = \hE8
      /\ at(11) = \h4C /\ at(12) = 2 /\ at(13) = \h80
      /\ at(14) = \hDB

MessageCells == \A n \in 0..12 : read(Start + (15 + n)) = Shown(n)

\* The inductive invariant
HelloInv == /\ size = \hFFFE
            /\ print_device_addr = \hFFFB
            /\ InMemory(HelloCode)
            /\ HelloPoints
            /\ phase = "returned" => ret = "Stop"

LEMMA HelloFetch ==
  ASSUME InMemory(HelloCode)
  PROVE  HelloCells /\ MessageCells
<1> DEFINE c == HelloCode
<1>1. \A i \in 1..28 : read(Start + i - 1) = c[i]
  BY HelloBytes DEF InMemory
<1> HIDE DEF c
<1>2. \A i \in 0..27 : read(Start + i) = c[i + 1]
  <2> TAKE i \in 0..27
  <2>1. i + 1 \in 1..28 /\ Start + (i + 1) - 1 = Start + i
    BY DEF Start
  <2> QED
    BY <1>1, <2>1
<1>3. ASSUME NEW n \in 0..12
      PROVE  read(Start + (15 + n)) = Shown(n)
  <2>1. /\ 15 + n \in 0..27
        /\ (15 + n) + 1 = 15 + (n + 1)
        /\ n = 12 \/ n + 1 \in 1..12
    OBVIOUS
  <2>2. read(Start + (15 + n)) = c[15 + (n + 1)]
    BY <1>2, <2>1
  <2> QED
    BY <2>1, <2>2, HelloBytes DEF c, Shown
<1> QED
  BY <1>2, <1>3, HelloBytes DEF c, HelloCells, MessageCells

LEMMA Prefixes ==
  /\ \A n \in 0..12 : /\ SubSeq(Message, 1, n) \in Seq(Byte)
                      /\ Len(SubSeq(Message, 1, n)) = n
  /\ SubSeq(Message, 1, 0) = <<>>
  /\ SubSeq(Message, 1, 12) = Message
  /\ \A n \in 0..11 :
       SubSeq(Message, 1, n + 1) = SubSeq(Message, 1, n) \o <<Message[n + 1]>>
<1>1. Message \in Seq(Byte) /\ Len(Message) = 12
  BY DEF Message, Byte
<1>2. SubSeq(Message, 1, 0) = <<>>
  BY SubSeqEmpty
<1>3. SubSeq(Message, 1, 12) = Message
  BY <1>1, SubSeqFull
<1>4. ASSUME NEW n \in 0..11
      PROVE  SubSeq(Message, 1, n + 1) = SubSeq(Message, 1, n) \o <<Message[n + 1]>>
  <2>1. 1 \in 1..Len(Message) /\ n + 1 \in 1..Len(Message) /\ (n + 1) - 1 = n
    BY <1>1
  <2>2. SubSeq(Message, 1, n + 1) = SubSeq(Message, 1, (n + 1) - 1) \o <<Message[n + 1]>>
    BY <1>1, <2>1, SubSeqRecursiveSecond
  <2> QED
    BY <2>1, <2>2
<1>5. ASSUME NEW n \in 0..12
      PROVE  SubSeq(Message, 1, n) \in Seq(Byte) /\ Len(SubSeq(Message, 1, n)) = n
  <2>1. n \in Int /\ 1 \in Int /\ n - 1 + 1 = n /\ (1 <= n \/ n = 0)
    OBVIOUS
  <2>2. \A i \in 1..n : Message[i] \in Byte
    BY DEF Message, Byte
  <2>3. /\ SubSeq(Message, 1, n) \in Seq(Byte)
        /\ Len(SubSeq(Message, 1, n)) = IF 1 <= n THEN n - 1 + 1 ELSE 0
    BY <2>1, <2>2, SubSeqProperties
  <2> QED
    BY <2>1, <2>3
<1> QED
  BY <1>2, <1>3, <1>4, <1>5

LEMMA PrintsNothing ==
  ASSUME NEW n \in 0..12, Printed(n), text' = text \o <<>>
  PROVE  Printed(n)'
BY Prefixes DEF Printed

LEMMA MessageHasNoZero == \A n \in 0..12 : Shown(n) = 0 <=> n = 12
BY DEF Shown, Message

LEMMA HelloInit ==
  ASSUME ExampleInit, Starts(hello), print_device_addr = \hFFFB
  PROVE  HelloInv
<1>1. Init /\ phase = "run" /\ text = <<>>
  BY DEF ExampleInit, DebuggerInit
<1>2. HoldsProgram(mem, HelloCode) /\ size = \hFFFE
  BY HelloBytes, ImageHolds DEF Starts, hello, ShortImage
<1>3. InMemory(HelloCode) /\ PC = Start /\ ret = "OK"
  BY <1>1, <1>2, HelloBytes, ProgramStarts
<1>4. At(0)
  BY <1>3 DEF At, Start
<1>5. Printed(0) /\ 0 \in 0..12
  BY <1>1, Prefixes DEF Printed
<1> QED
  BY <1>1, <1>2, <1>3, <1>4, <1>5 DEF HelloInv, HelloPoints, HelloPoint

LEMMA HelloStep ==
  ASSUME TypeOK, Executes, print_device_addr = \hFFFB, InMemory(HelloCode),
         NEW n \in 0..12, Printed(n), HelloPoint(n)
  PROVE  InMemory(HelloCode)' /\ HelloPoints'
<1>0. HelloCells /\ MessageCells /\ step /\ ret # "Stop" /\ text' = text \o out'
  BY HelloFetch DEF Executes
<1>1. mem' = mem => InMemory(HelloCode)'
  BY DEF InMemory, read
<1>3. out' = <<>> => Printed(n)'
  BY <1>0, PrintsNothing
<1>4. CASE At(0) /\ n = 0
  <2>1. PC = Start + 0 /\ opcode = \hA2 /\ low_byte = 0 /\ Plus(PC, 2) = Start + 2
    BY <1>0, <1>4, Fetched DEF At, HelloCells, Start
  <2>2. At(2)' /\ X' = n /\ mem' = mem /\ out' = <<>>
    BY <1>0, <1>4, <2>1, LDXStep DEF At
  <2> QED
    BY <1>1, <1>3, <2>2 DEF HelloPoints, HelloPoint
<1>5. CASE At(2) /\ X = n
  <2>1. opcode = \hBD /\ absolute = Start + 15 /\ Plus(PC, 3) = Start + 5
    <3>1. PC = Start + 2 /\ 2 \in 0..60
      BY <1>5 DEF At
    <3>2. opcode = \hBD /\ low_byte = \h0F /\ high_byte = \h80 /\ Plus(PC, 3) = Start + 5
      BY <1>0, <3>1, Fetched DEF HelloCells
    <3>3. address(\h0F, \h80) = Start + 15
      BY DEF address, Start
    <3> QED
      BY <3>2, <3>3 DEF absolute
  <2>2. Plus(Start + 15, X) = Start + (15 + n)
    BY <1>5 DEF Plus, Start, WordSize
  <2>3. read(Start + (15 + n)) = Shown(n)
    <3>1. MessageCells
      BY <1>0
    <3> QED
      BY <3>1 DEF MessageCells
  <2>4. At(5)' /\ X' = n /\ A' = Shown(n) /\ (zero \in P' <=> n = 12) /\ mem' = mem /\ out' = <<>>
    BY <1>0, <1>5, <2>1, <2>2, <2>3, LDAabsXStep, MessageHasNoZero DEF At
  <2> QED
    BY <1>1, <1>3, <2>4 DEF HelloPoints, HelloPoint
<1>6. CASE At(5) /\ X = n /\ A = Shown(n) /\ (zero \in P <=> n = 12)
  <2>1. opcode = \hF0 /\ low_byte = 7 /\ Plus(PC, 2) = Start + 7
    BY <1>0, <1>6, Fetched DEF At, HelloCells, Start
  <2>2. Plus(Start + 7, Signed(7)) = Start + 14
    BY DEF Plus, Signed, Start, WordSize
  <2>3. /\ PC' = IF n = 12 THEN Start + 14 ELSE Start + 7
        /\ ret' \in {"OK", "OKPCModified"}
        /\ X' = n /\ A' = Shown(n) /\ mem' = mem /\ out' = <<>>
    BY <1>0, <1>6, <2>1, <2>2, BEQStep
  <2>4. CASE n = 12
    BY <1>1, <1>3, <2>3, <2>4 DEF HelloPoints, HelloPoint, At
  <2>5. CASE n < 12
    BY <1>1, <1>3, <2>3, <2>5 DEF HelloPoints, HelloPoint, At
  <2> QED
    BY <2>4, <2>5
<1>7. CASE At(7) /\ X = n /\ A = Shown(n) /\ n < 12
  <2>1. opcode = \h8D /\ absolute = \hFFFB /\ Plus(PC, 3) = Start + 10
    <3>1. PC = Start + 7 /\ 7 \in 0..60
      BY <1>7 DEF At
    <3>2. opcode = \h8D /\ low_byte = \hFB /\ high_byte = \hFF /\ Plus(PC, 3) = Start + 10
      BY <1>0, <3>1, Fetched DEF HelloCells
    <3>3. address(\hFB, \hFF) = \hFFFB
      BY DEF address, Start
    <3> QED
      BY <3>2, <3>3 DEF absolute
  <2>2. /\ At(10)' /\ X' = n
        /\ mem' = written(mem, \hFFFB, A) /\ out' = <<Message[n + 1]>>
    <3>1. /\ mem' = written(mem, \hFFFB, A) /\ out' = printed(\hFFFB, A) /\ X' = X
          /\ PC' = Start + 10 /\ ret' = "OK"
      BY <1>0, <2>1, STAabsStep
    <3>2. A = Message[n + 1]
      BY <1>7 DEF Shown
    <3>3. printed(\hFFFB, A) = <<Message[n + 1]>>
      BY <3>2 DEF printed
    <3> QED
      BY <1>7, <3>1, <3>3 DEF At
  <2>3. n + 1 \in 0..12 /\ n \in 0..11 /\ (n + 1) - 1 = n /\ n + 1 > 0
    BY <1>7
  <2>4. Printed(n + 1)'
    <3>1. text' = text \o <<Message[n + 1]>>
      BY <1>0, <2>2
    <3>2. SubSeq(Message, 1, n + 1) = SubSeq(Message, 1, n) \o <<Message[n + 1]>>
      BY <2>3, Prefixes
    <3> QED
      BY <3>1, <3>2 DEF Printed
  <2>5. \A a \in Start..(Start + 255) : read(a)' = read(a)
    BY <2>2 DEF written, read, Start
  <2>6. InMemory(HelloCode)'
    BY <2>5, CodeStays, HelloBytes
  <2> QED
    BY <2>2, <2>3, <2>4, <2>6 DEF HelloPoints, HelloPoint
<1>8. CASE At(10) /\ X = n - 1 /\ n > 0
  <2>1. opcode = \hE8 /\ Plus(PC, 1) = Start + 11
    BY <1>0, <1>8, Fetched DEF At, HelloCells, Start
  <2>2. (X + 1) % 256 = n
    BY <1>8
  <2>3. At(11)' /\ X' = n /\ mem' = mem /\ out' = <<>>
    BY <1>0, <2>1, <2>2, INXStep DEF At
  <2> QED
    BY <1>1, <1>3, <2>3 DEF HelloPoints, HelloPoint
<1>9. CASE At(11) /\ X = n
  <2>1. opcode = \h4C /\ absolute = Start + 2
    <3>1. PC = Start + 11 /\ 11 \in 0..60
      BY <1>9 DEF At
    <3>2. opcode = \h4C /\ low_byte = 2 /\ high_byte = \h80
      BY <1>0, <3>1, Fetched DEF HelloCells
    <3>3. address(2, \h80) = Start + 2
      BY DEF address, Start
    <3> QED
      BY <3>2, <3>3 DEF absolute
  <2>2. At(2)' /\ X' = n /\ mem' = mem /\ out' = <<>>
    BY <1>0, <1>9, <2>1, JMPStep DEF At
  <2> QED
    BY <1>1, <1>3, <2>2 DEF HelloPoints, HelloPoint
<1>10. CASE At(14) /\ n = 12
  <2>1. opcode = \hDB
    BY <1>0, <1>10, Fetched DEF At, HelloCells, Start
  <2>2. ret' = "Stop" /\ mem' = mem /\ out' = <<>>
    BY <1>0, <2>1, STPStep
  <2> QED
    BY <1>1, <1>3, <1>10, <2>2 DEF HelloPoints, HelloPoint
<1> QED
  BY <1>0, <1>4, <1>5, <1>6, <1>7, <1>8, <1>9, <1>10 DEF HelloPoint

LEMMA HelloAlive ==
  ASSUME HelloInv
  PROVE  Alive
BY OffsetsRun DEF HelloInv, HelloPoints, HelloPoint, At, Alive

LEMMA HelloNext ==
  ASSUME InSession, HelloInv, [ExampleNext]_examplesVars
  PROVE  HelloInv'
<1>1. /\ Executes \/ UNCHANGED <<cpuVars, text>>
      /\ phase' = "returned" => ret' = "Stop"
  BY HelloAlive, SessionStep
<1>2. CASE Executes
  <2>1. InMemory(HelloCode)' /\ HelloPoints'
    BY <1>2, HelloStep DEF InSession, HelloInv, HelloPoints
  <2> QED
    BY <1>1, <1>2, <2>1 DEF Executes, HelloInv
<1>3. CASE UNCHANGED <<cpuVars, text>>
  <2>1. InMemory(HelloCode)' /\ size' = size /\ print_device_addr' = print_device_addr
    BY <1>3 DEF cpuVars, memoryVars, HelloInv, InMemory, read
  <2>2. HelloPoints'
    <3>1. HelloPoints /\ UNCHANGED <<A, X, P, PC, ret, text>>
      BY <1>3 DEF cpuVars, HelloInv
    <3>2. \A n : (Printed(n)' <=> Printed(n)) /\ (At(n)' <=> At(n))
      BY <3>1 DEF Printed, At
    <3> QED
      BY <3>1, <3>2 DEF HelloPoints, HelloPoint
  <2> QED
    BY <1>1, <2>1, <2>2 DEF HelloInv
<1> QED
  BY <1>1, <1>2, <1>3

LEMMA HelloExpected ==
  ASSUME HelloInv
  PROVE  HelloPrintsItsMessage
<1>1. PICK n \in 0..12 : Printed(n) /\ (ret = "Stop" => n = 12)
  BY DEF HelloInv, HelloPoints, HelloPoint, At
<1>2. text = SubSeq(Message, 1, Len(text))
  BY <1>1, Prefixes DEF Printed
<1>3. phase = "returned" => text = Message
  BY <1>1, Prefixes DEF HelloInv, Printed
<1> QED
  BY <1>2, <1>3 DEF HelloPrintsItsMessage

\* For every debug mode and user: with the print device at its default address,
\* where hello.s stores, the message is printed in order and nothing else, and all of
\* it when the program stops (examples/hello.s, gp_memory.cpp:39).
THEOREM HelloPrintsAlways ==
  ExampleSpec /\ Starts(hello) /\ print_device_addr = \hFFFB => []HelloPrintsItsMessage
BY HelloInit, HelloNext, HelloExpected, SessionInvariant, PTL DEF ExampleSpec
=============================================================================
