--------------------------- MODULE Startup_proofs ----------------------------
(***************************************************************************)
(* Proofs about main, for every set of files and every command line: that  *)
(* it hands a reset CPU to the debugger, and that what is proved of a      *)
(* session of the debugger holds from the first to the last moment of the  *)
(* process.                                                                *)
(***************************************************************************)
EXTENDS Startup, Debugger_proofs

-----------------------------------------------------------------------------
(* A session begins in an initial state of the debugger *)

\* What main has not touched before the session
Untouched == /\ ret = "OK" /\ out = <<>>
             /\ print_device_addr = DEFAULT_OUTPUT_ADDRESS
             /\ phase = "run" /\ command = Blank /\ eof = FALSE

Imported == \E image \in Images : mem = image.bytes /\ size = image.size

Reset == /\ A = 0 /\ X = 0 /\ Y = 0
         /\ S = \h1FF % 256
         /\ P = InitialPsr
         /\ PC = ResetAddress

\* What main has done at each of its stages
StagesDone == /\ stage \in {"start", "imported", "constructed"} => Untouched
              /\ stage \in {"imported", "constructed"} => Imported
              /\ stage = "constructed" => Reset

LEMMA StagesDoneInit == StartupInit => StagesDone
BY DEF StartupInit, StagesDone, Untouched

LEMMA StagesDoneNext ==
  ASSUME StagesDone, [StartupNext]_startupVars
  PROVE  StagesDone'
<1>1. CASE Usage \/ ImportFails \/ ResetCrashes \/ InvalidAddress \/ UncaughtException
  <2>1. stage' \in {"failed", "crashed", "aborted"}
    BY <1>1 DEF Usage, ImportFails, ResetCrashes, InvalidAddress, UncaughtException, Leave
  <2> QED
    BY <2>1 DEF StagesDone
<1>2. CASE import
  <2>1. Files[argv[1]] \in Images
    BY <1>2, FilesAssumption DEF import
  <2>2. Imported' /\ Untouched' /\ stage' = "imported"
    BY <1>2, <2>1 DEF import, StagesDone, Untouched, Imported
  <2> QED
    BY <2>2 DEF StagesDone
<1>3. CASE CPU6502
  BY <1>3 DEF CPU6502, StagesDone, Untouched, Imported, Reset, memoryVars, ResetAddress, read
<1>4. CASE ReadFlags \/ Session
  <2>1. stage' = "run"
    BY <1>4 DEF ReadFlags, Session
  <2> QED
    BY <2>1 DEF StagesDone
<1>5. CASE UNCHANGED startupVars
  BY <1>5 DEF startupVars, debuggerVars, cpuVars, memoryVars, StagesDone, Untouched, Imported,
              Reset, ResetAddress, read
<1> QED
  BY <1>1, <1>2, <1>3, <1>4, <1>5 DEF StartupNext, main

LEMMA DevicesAreWords ==
  /\ DEFAULT_OUTPUT_ADDRESS \in Word
  /\ \A word \in DOMAIN Numbers : print_device(word) \in Word
<1>1. DEFAULT_OUTPUT_ADDRESS \in Word
  BY DEF DEFAULT_OUTPUT_ADDRESS, Word, WordSize
<1>2. ASSUME NEW n \in Nat
      PROVE  n % WordSize \in Word
  BY WordBounds DEF Word
<1> QED
  BY <1>1, <1>2, NumbersAssumption DEF print_device

\* Whatever the files and the command line, the debugger starts with a CPU that was
\* reset from the imported image, at a print device that is an address (main.cpp:32,
\* main.cpp:52-93, 6502cpu.h:72): the other specifications miss no start.
THEOREM SessionsBeginReset == StartupSpec => SessionBegins
<1>1. StartupInit => StagesDone
  BY StagesDoneInit
<1>2. StagesDone /\ [StartupNext]_startupVars => StagesDone'
  BY StagesDoneNext
<1>3. StagesDone /\ [StartupNext]_startupVars
        => [stage # "run" /\ stage' = "run" => DebuggerInit']_startupVars
  <2> SUFFICES ASSUME StagesDone, StartupNext, stage # "run", stage' = "run"
               PROVE  DebuggerInit'
    OBVIOUS
  <2>1. ReadFlags
    BY DEF StartupNext, main, Session, Usage, ImportFails, import, CPU6502, ResetCrashes,
           InvalidAddress, UncaughtException, Leave
  <2>2. Untouched /\ Imported /\ Reset
    BY <2>1 DEF ReadFlags, StagesDone
  <2>3. Imported' /\ Reset'
    BY <2>1, <2>2 DEF ReadFlags, Imported, Reset, registers, ResetAddress, read
  <2>4. print_device_addr' \in PrintDevices
    BY <2>1, <2>2, DevicesAreWords, SessionsAssumption DEF ReadFlags, Untouched
  <2>5. debug' \in DebugModes
    BY <2>1, SessionsAssumption DEF ReadFlags
  <2>6. out' = <<>> /\ ret' = "OK" /\ phase' = "run" /\ command' = Blank /\ eof' = FALSE
    BY <2>1, <2>2 DEF ReadFlags, Untouched
  <2> QED
    BY <2>3, <2>4, <2>5, <2>6 DEF DebuggerInit, Init, Imported, Reset
<1> QED
  BY <1>1, <1>2, <1>3, PTL DEF StartupSpec, SessionBegins

-----------------------------------------------------------------------------
(* The CPU from the first to the last moment of an invocation *)

LEMMA MainKeepsTypes ==
  ASSUME TypeOK, main
  PROVE  TypeOK'
<1>1. CASE Usage \/ ImportFails \/ ResetCrashes \/ InvalidAddress \/ UncaughtException
  <2>1. UNCHANGED cpuVars
    BY <1>1 DEF Usage, ImportFails, ResetCrashes, InvalidAddress, UncaughtException, Leave,
                debuggerVars
  <2> QED
    BY <2>1, StutterType
<1>2. CASE import
  <2>1. IsMemory(mem') /\ size' \in Nat
    BY <1>2, FilesAssumption, ImagesAssumption DEF import
  <2> QED
    BY <1>2, <2>1 DEF import, TypeOK, RegistersOK, ControlOK, MemoryOK, registers
<1>3. CASE CPU6502
  <2>1. 0 \in Byte /\ S' \in Byte /\ P' \in SUBSET BitPosition
    BY <1>3, BitNames DEF CPU6502, InitialPsr, Byte
  <2>2. ResetAddress \in Word
    BY ReadType, AddressType DEF ResetAddress, TypeOK, MemoryOK
  <2>3. RegistersOK'
    BY <1>3, <2>1 DEF CPU6502, RegistersOK
  <2>4. ControlOK'
    BY <1>3, <2>2 DEF CPU6502, TypeOK, ControlOK
  <2>5. MemoryOK'
    BY <1>3 DEF CPU6502, TypeOK, MemoryOK, IsMemory, memoryVars
  <2> QED
    BY <2>3, <2>4, <2>5 DEF TypeOK
<1>4. CASE ReadFlags
  <2>1. print_device_addr' \in Word
    BY <1>4, DevicesAreWords DEF ReadFlags, TypeOK, MemoryOK
  <2>2. debug' \in BOOLEAN
    BY <1>4 DEF ReadFlags
  <2> QED
    BY <1>4, <2>1, <2>2 DEF ReadFlags, TypeOK, RegistersOK, ControlOK, MemoryOK, IsMemory,
                            registers
<1> QED
  BY <1>1, <1>2, <1>3, <1>4 DEF main

\* From the start of main to the end of the process, whatever the files and the
\* command line: the CPU and its memory keep their types through import, reset and
\* flags, and what was printed last is what the device holds (main.cpp:32-93,
\* gp_memory.cpp:39).
THEOREM InvocationsKeepTypes == StartupSpec => [](TypeOK /\ PrintedIsStored)
<1>1. StartupInit => TypeOK /\ PrintedIsStored /\ StagesDone
  <2> SUFFICES ASSUME StartupInit
               PROVE  TypeOK /\ PrintedIsStored
    BY StagesDoneInit
  <2>1. IsMemory(mem) /\ PC \in Word /\ print_device_addr \in Word
    BY DevicesAreWords, WordBounds DEF StartupInit, IsMemory, Byte
  <2>2. RegistersOK
    BY DEF StartupInit, RegistersOK, Byte
  <2>3. ControlOK
    BY <2>1 DEF StartupInit, ControlOK, InstructionErr
  <2>4. MemoryOK
    BY <2>1 DEF StartupInit, MemoryOK
  <2> QED
    BY <2>2, <2>3, <2>4 DEF TypeOK, StartupInit, PrintedIsStored
<1>2. TypeOK /\ PrintedIsStored /\ StagesDone /\ [StartupNext]_startupVars
        => (TypeOK /\ PrintedIsStored /\ StagesDone)'
  <2> SUFFICES ASSUME TypeOK, PrintedIsStored, StagesDone, [StartupNext]_startupVars
               PROVE  TypeOK' /\ PrintedIsStored'
    BY StagesDoneNext
  <2>1. CASE UNCHANGED cpuVars
    BY <2>1, StutterType DEF cpuVars, memoryVars, PrintedIsStored, read
  <2>2. CASE step
    BY <2>2, StepType, StepFaithful DEF Faithful, CellOfDevice, PrintedIsStored, read
  <2>3. CASE main
    <3>1. \/ out' = <<>>
          \/ UNCHANGED cpuVars
      BY <2>3 DEF main, Usage, ImportFails, import, CPU6502, ResetCrashes, ReadFlags,
                  InvalidAddress, UncaughtException, Leave, StagesDone, Untouched,
                  debuggerVars, memoryVars
    <3> QED
      BY <2>1, <2>3, <3>1, MainKeepsTypes DEF PrintedIsStored
  <2>4. CASE Session
    <3>1. step \/ UNCHANGED cpuVars
      BY <2>4 DEF Session, DebuggerNext, run, go_to_debugger, Crashes, RunStep, RunCrashes,
                  EndOfMemory, Inspect, GetCrashes, StepCommand, StepCrashes, ContinueCommand,
                  ExitCommand
    <3> QED
      BY <2>1, <2>2, <3>1
  <2> QED
    BY <2>1, <2>3, <2>4 DEF StartupNext, startupVars, debuggerVars
<1> QED
  BY <1>1, <1>2, PTL DEF StartupSpec

-----------------------------------------------------------------------------
(* The ends of an invocation *)

\* Whatever the files and the command line, a session that main has begun ends for a
\* reason that the program or the user gives (main.cpp:52-93, debugger.h:134-147).
THEOREM InvocationsHaveReasons == StartupSpec => []PhaseHasReason
<1>1. StartupInit => StagesDone /\ PhaseHasReason
  BY StagesDoneInit DEF StartupInit, PhaseHasReason
<1>2. TypeOK /\ StagesDone /\ PhaseHasReason /\ [StartupNext]_startupVars
        => (StagesDone /\ PhaseHasReason)'
  <2> SUFFICES ASSUME TypeOK, StagesDone, PhaseHasReason, [StartupNext]_startupVars
               PROVE  PhaseHasReason'
    BY StagesDoneNext
  <2>1. CASE main
    <3>1. phase' = "run"
      BY <2>1 DEF main, Usage, ImportFails, import, CPU6502, ResetCrashes, ReadFlags,
                  InvalidAddress, UncaughtException, Leave, debuggerVars, StagesDone, Untouched
    <3> QED
      BY <3>1 DEF PhaseHasReason
  <2>2. CASE Session \/ UNCHANGED startupVars
    BY <2>2, NextReason DEF Session, startupVars
  <2> QED
    BY <2>1, <2>2 DEF StartupNext
<1>3. StartupSpec => []TypeOK
  BY InvocationsKeepTypes, PTL
<1> QED
  BY <1>1, <1>2, <1>3, PTL DEF StartupSpec
=============================================================================
