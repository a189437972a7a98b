-------------------------- MODULE Debugger_proofs ---------------------------
(***************************************************************************)
(* Proofs that a session of the debugger executes the program as           *)
(* CPU6502::execute does, that what Cpu_proofs proves holds in it, that    *)
(* every phase has its reason, and that the prompt is deaf at the end of   *)
(* the input, for every image and user.                                    *)
(***************************************************************************)
EXTENDS Debugger, Cpu_proofs

\* The lambdas return one code each, except for the one of DBG; none of them changes
\* the debug mode.
LEMMA StepControl ==
  ASSUME step
  PROVE  debug' = debug /\ (ret' = "GoToDebugger" => debug)
<1> USE DEF Advance, set_PC
<1>1. ASSUME \/ LDA \/ LDAabs \/ TXA \/ TYA \/ ADC \/ SBC \/ INCacc \/ DECacc
             \/ AND \/ ORA \/ EOR \/ ASLacc \/ LSRacc \/ ROLacc \/ RORacc
             \/ LDX \/ TAX \/ TSX \/ INX \/ DEX
             \/ LDY \/ TAY \/ INY \/ DEY
      PROVE  debug' = debug /\ ret' = "OK"
  BY <1>1 DEF LDA, LDAabs, TXA, TYA, ADC, SBC, INCacc, DECacc, AND, ORA, EOR, ASLacc, LSRacc,
              ROLacc, RORacc, LDX, TAX, TSX, INX, DEX, LDY, TAY, INY, DEY, ToA, ToX, ToY
<1>2. ASSUME \/ CMP \/ CMPind \/ CPX \/ CPY \/ CPXimm \/ CPYimm \/ BIT \/ BITzp
             \/ CLC \/ SEC \/ CLI \/ SEI \/ CLD \/ SED \/ CLV
      PROVE  debug' = debug /\ ret' = "OK"
  BY <1>2 DEF CMP, CMPind, CPX, CPY, CPXimm, CPYimm, Compare, BIT, BITzp,
              CLC, SEC, CLI, SEI, CLD, SED, CLV, ToP
<1>3. ASSUME \/ BPL \/ BMI \/ BVC \/ BVS \/ BCC \/ BCS \/ BNE \/ BEQ \/ BRA \/ JMP
             \/ BBR \/ BBS
      PROVE  debug' = debug /\ ret' \in {"OK", "OKPCModified"}
  BY <1>3 DEF BPL, BMI, BVC, BVS, BCC, BCS, BNE, BEQ, BRA, JMP, BBR, BBS, Branch
<1>4. ASSUME \/ STA \/ STX \/ STY \/ STZ \/ INC \/ DEC \/ ASL \/ LSR \/ ROL \/ ROR
             \/ TSB \/ TRB \/ RMB \/ SMB
      PROVE  debug' = debug /\ ret' = "OK"
  BY <1>4 DEF STA, STX, STY, STZ, INC, DEC, ASL, LSR, ROL, ROR, TSB, TRB, RMB, SMB, ToMem
<1>5. ASSUME TXS \/ PHA \/ PHX \/ PHY \/ PHP \/ PLA \/ PLX \/ PLY \/ PLP
      PROVE  debug' = debug /\ ret' = "OK"
  BY <1>5 DEF TXS, PHA, PHX, PHY, PHP, push_stack, PLA, PLX, PLY, PLP, Pull
<1>6. ASSUME JSR \/ RTS \/ BRK \/ RTI
      PROVE  debug' = debug /\ ret' = "OKPCModified"
  BY <1>6 DEF JSR, RTS, BRK, RTI
<1>7. ASSUME NOP \/ STP \/ Unknown
      PROVE  debug' = debug /\ ret' \in {"OK", "Stop", "UnknownInstruction"}
  BY <1>7 DEF NOP, STP, Returning, Unknown
<1>8. ASSUME DBG
      PROVE  debug' = debug /\ (ret' = "GoToDebugger" => debug)
  BY <1>8 DEF DBG, Returning
<1> QED
  BY <1>1, <1>2, <1>3, <1>4, <1>5, <1>6, <1>7, <1>8 DEF step

\* The loops are left with the step that returns Stop; before that nothing has.
StillRunning == phase \in {"run", "prompt"} => ret # "Stop"

LEMMA StillRunningInvariant == DebuggerSpec => []StillRunning
<1>1. DebuggerInit => StillRunning
  BY DEF DebuggerInit, Init, StillRunning
<1>2. StillRunning /\ [DebuggerNext]_debuggerVars => StillRunning'
  <2> SUFFICES ASSUME StillRunning, [DebuggerNext]_debuggerVars
               PROVE  StillRunning'
    OBVIOUS
  <2>1. CASE RunStep
    BY <2>1 DEF RunStep, StillRunning
  <2>2. CASE StepCommand
    BY <2>2 DEF StepCommand, StillRunning
  <2>3. CASE RunCrashes \/ EndOfMemory \/ GetCrashes \/ StepCrashes \/ ExitCommand
    BY <2>3 DEF RunCrashes, EndOfMemory, GetCrashes, StepCrashes, ExitCommand, StillRunning
  <2>4. CASE Inspect \/ ContinueCommand
    BY <2>4 DEF Inspect, ContinueCommand, Typed, getline, cpuVars, StillRunning
  <2>5. CASE UNCHANGED debuggerVars
    BY <2>5 DEF debuggerVars, cpuVars, StillRunning
  <2> QED
    BY <2>1, <2>2, <2>3, <2>4, <2>5 DEF DebuggerNext, run, go_to_debugger, Crashes
<1> QED
  BY <1>1, <1>2, PTL DEF DebuggerSpec

\* A session is an execution: the identity maps every step of run and of the prompt
\* to a step of CPU6502::execute, to a stutter, or to a step past the end of a short
\* image (debugger.h:134, debugger.cpp:99, 6502cpu.cpp:53).
THEOREM DebuggerImplements == DebuggerSpec => DebuggerImplementsExecute
<1>1. DebuggerInit => Init
  BY DEF DebuggerInit
<1>2. StillRunning /\ [DebuggerNext]_debuggerVars => [execute \/ StepsPastEnd]_cpuVars
  <2> SUFFICES ASSUME StillRunning, [DebuggerNext]_debuggerVars
               PROVE  execute \/ StepsPastEnd \/ UNCHANGED cpuVars
    OBVIOUS
  <2>1. CASE RunStep
    BY <2>1 DEF RunStep, StillRunning, execute
  <2>2. CASE StepCommand
    BY <2>2 DEF StepCommand, Typed, getline, StillRunning, execute, StepsPastEnd
  <2>3. CASE \/ RunCrashes \/ EndOfMemory \/ Inspect \/ GetCrashes \/ StepCrashes
             \/ ContinueCommand \/ ExitCommand
    BY <2>3 DEF RunCrashes, EndOfMemory, Inspect, GetCrashes, StepCrashes, ContinueCommand,
                ExitCommand
  <2>4. CASE UNCHANGED debuggerVars
    BY <2>4 DEF debuggerVars
  <2> QED
    BY <2>1, <2>2, <2>3, <2>4 DEF DebuggerNext, run, go_to_debugger, Crashes
<1> QED
  BY <1>1, <1>2, StillRunningInvariant, PTL DEF DebuggerSpec, DebuggerImplementsExecute

\* What is proved of CPU6502::execute holds in every session, whatever the user does
\* and also behind the end of a short image, where only the prompt steps on
\* (debugger.cpp:99): types, print device, arithmetic, flags and lengths.
THEOREM SessionsKeepPromises ==
  DebuggerSpec => /\ [](TypeOK /\ PrintedIsStored)
                  /\ StoredIsPrinted
                  /\ AddsBothWays /\ SubtractsBothWays /\ FlagsDescribeResult
                  /\ OperandsAreNotExecuted
<1>1. [execute \/ StepsPastEnd]_cpuVars => [step]_cpuVars
  BY DEF execute, StepsPastEnd
<1>2. DebuggerSpec => Steps
  BY <1>1, DebuggerImplements, PTL DEF DebuggerImplementsExecute, Steps
<1> QED
  BY <1>2, StepsKeepTypes, StepsPrintAndStore, StepsStoreAndPrint, StepsAddBothWays,
     StepsSubtractBothWays, StepsDescribe, StepsPassOperands, PTL

-----------------------------------------------------------------------------

LEMMA StepReason ==
  ASSUME PhaseHasReason, RunStep \/ StepCommand
  PROVE  PhaseHasReason'
<1>1. debug' = debug /\ (ret' = "GoToDebugger" => debug)
  BY StepControl DEF RunStep, StepCommand
<1>2. CASE RunStep
  BY <1>1, <1>2 DEF RunStep, PhaseHasReason
<1>3. CASE StepCommand
  BY <1>1, <1>3 DEF StepCommand, Typed, getline, PhaseHasReason
<1> QED
  BY <1>2, <1>3

\* In an image of the whole address space the PC is inside,
LEMMA NoEnd ==
  ASSUME TypeOK, size >= WordSize
  PROVE  Running
BY WordBounds DEF TypeOK, ControlOK, MemoryOK, Running

\* and so is every access but one.
LEMMA OutsideReason ==
  ASSUME TypeOK, size >= WordSize, AccessesOutside
  PROVE  PointerBehindMemory /\ size = WordSize
<1>1. PICK a \in Accessed : a >= size
  BY DEF AccessesOutside
<1>2. size \in Nat
  BY DEF TypeOK, MemoryOK
<1>3. a \notin Word
  BY <1>1, <1>2, WordBounds
<1>4. /\ Executing("JMP") /\ mode = "AbsoluteIndirect"
      /\ absolute + 1 = WordSize /\ a = WordSize
  BY <1>3, AccessedType
<1> QED
  BY <1>1, <1>2, <1>4, WordBounds DEF PointerBehindMemory

LEMMA CrashReason ==
  ASSUME TypeOK, RunCrashes \/ StepCrashes
  PROVE  PhaseHasReason'
<1>1. AccessesOutside /\ phase' = "crashed" /\ UNCHANGED cpuVars
  BY DEF RunCrashes, StepCrashes
<1>2. size' = size /\ PointerBehindMemory' = PointerBehindMemory
  BY <1>1 DEF cpuVars, memoryVars, PointerBehindMemory, Executing, Known, opcode, mode,
              absolute, low_byte, high_byte, read
<1> QED
  BY <1>1, <1>2, OutsideReason DEF PhaseHasReason

LEMMA NextReason ==
  ASSUME TypeOK, PhaseHasReason, [DebuggerNext]_debuggerVars
  PROVE  PhaseHasReason'
<1>1. CASE RunStep \/ StepCommand
  BY <1>1, StepReason
<1>2. CASE RunCrashes \/ StepCrashes
  BY <1>2, CrashReason
<1>3. CASE EndOfMemory
  <2>1. ~(size >= WordSize)
    BY <1>3, NoEnd DEF EndOfMemory
  <2> QED
    BY <1>3, <2>1 DEF EndOfMemory, PhaseHasReason, cpuVars, memoryVars
<1>4. CASE Inspect \/ ContinueCommand \/ ExitCommand
  BY <1>4 DEF Inspect, ContinueCommand, ExitCommand, Typed, getline, PhaseHasReason, cpuVars,
              memoryVars
<1>5. CASE GetCrashes
  <2>1. phase = "prompt" /\ phase' = "crashed" /\ debug' = debug /\ size' = size
    BY <1>5 DEF GetCrashes, Typed, getline, cpuVars, memoryVars
  <2>2. GetOutside'
    BY <1>5, <2>1 DEF GetCrashes, Typed, GetOutside, GetsOutside, ReadsOutside
  <2> QED
    BY <2>1, <2>2 DEF PhaseHasReason
<1>6. CASE UNCHANGED debuggerVars
  <2>1. /\ phase' = phase /\ debug' = debug /\ size' = size /\ ret' = ret
        /\ GetOutside' = GetOutside
    BY <1>6 DEF debuggerVars, cpuVars, memoryVars, GetOutside, GetsOutside, ReadsOutside
  <2>2. PointerBehindMemory' = PointerBehindMemory
    BY <1>6 DEF debuggerVars, cpuVars, memoryVars, PointerBehindMemory, Executing, Known,
                opcode, mode, absolute, low_byte, high_byte, read
  <2> QED
    BY <2>1, <2>2 DEF PhaseHasReason
<1> QED
  BY <1>1, <1>2, <1>3, <1>4, <1>5, <1>6 DEF DebuggerNext, run, go_to_debugger, Crashes

\* For every program and user, the prompt only opens in debug mode; and in an image of
\* the whole address space, whose accesses of every addressing mode and of the stack
\* are shown to wrap around, run is only left after STP, and the process only dies of
\* a get or of the pointer of JMP ($FFFF), the one address that does not wrap
\* (debugger.h:134-147, debugger.cpp:71-125, 6502cpu.cpp:93-236).
THEOREM PhasesHaveReasons == DebuggerSpec => []PhaseHasReason
<1>1. DebuggerInit => PhaseHasReason
  BY DEF DebuggerInit, PhaseHasReason
<1>2. TypeOK /\ PhaseHasReason /\ [DebuggerNext]_debuggerVars => PhaseHasReason'
  BY NextReason
<1>3. DebuggerSpec => []TypeOK
  BY SessionsKeepPromises, PTL
<1> QED
  BY <1>1, <1>2, <1>3, PTL DEF DebuggerSpec

-----------------------------------------------------------------------------

\* Once the input has ended a prompt that holds a command which only prints never
\* steps, continues or exits, and only a get can still end it (debugger.cpp:36-43).
THEOREM EndOfInputHangsAlways == DebuggerSpec => EndOfInputHangs
<1> DEFINE Deaf == /\ phase = "prompt" /\ eof
                   /\ parse_name(command.name) \notin {"STEP", "CONTINUE", "EXIT"}
           Stuck == /\ UNCHANGED <<cpuVars, command, eof>>
                    /\ phase' # phase => phase' = "crashed" /\ GetsOutside(command.args)
<1>1. [DebuggerNext]_debuggerVars => [Deaf => Stuck]_debuggerVars
  <2> SUFFICES ASSUME [DebuggerNext]_debuggerVars, Deaf
               PROVE  Stuck
    OBVIOUS
  <2>1. ~run /\ ~RunCrashes
    BY DEF run, RunStep, RunCrashes, EndOfMemory
  <2>2. getline => UNCHANGED <<command, eof>>
    BY DEF getline
  <2>3. ~StepCommand /\ ~StepCrashes /\ ~ContinueCommand /\ ~ExitCommand
    BY <2>2 DEF StepCommand, StepCrashes, ContinueCommand, ExitCommand, Typed
  <2>4. CASE Inspect
    BY <2>2, <2>4 DEF Inspect, Typed
  <2>5. CASE GetCrashes
    BY <2>2, <2>5 DEF GetCrashes, Typed
  <2>6. CASE UNCHANGED debuggerVars
    BY <2>6 DEF debuggerVars
  <2> QED
    BY <2>1, <2>3, <2>4, <2>5, <2>6 DEF DebuggerNext, go_to_debugger, Crashes
<1> QED
  BY <1>1, PTL DEF DebuggerSpec, EndOfInputHangs
=============================================================================
