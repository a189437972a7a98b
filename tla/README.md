# A verification of 6502sim

6502sim runs machine code of the W65C02S processor and lets the user stop it in a
small debugger. This directory holds TLA+ modules translated from its C++ source, the
TLC configurations that check them on small instances, and TLAPS proofs that hold for
every image, print device and debug mode. `PROJECT.json` maps every definition to the
lines it models.

    tlc -config MC_Stack.cfg MC_Stack      # one of the runs
    tlapm Cpu_proofs.tla                   # one of the proof modules

## 1. The system

The program is sequential: one thread, one process, nothing persisted. What makes it
hard is the number of instruction bodies (about eighty lambdas, each of which sets its
flags, stores its result and returns a code by hand), arithmetic at the width of bytes
and addresses, long sequences of calls, interrupts and pushes on a stack of 256 bytes,
and three loops that drive the same CPU.

| component | state | operations | what makes it correct |
|---|---|---|---|
| bytes and addresses (`byte_utils.h`, `address.h`) | none | add and subtract with carry, shift, split and join addresses | results wrap at 8 and 16 bits, the carry says so |
| status register (`psr.h`, `psr.cpp`) | the byte `psr_` | `get_bit`, `set_bit`, `get`, construction from a byte | each flag changes alone |
| memory (`gp_memory.h`, `gp_memory.cpp`) | the vector `memory_`, `print_device_addr_` | `import`, `read`, `write`, `size` | what is printed is what is stored |
| instruction table (`6502isa.cpp`, `instruction_types.h`) | none | one lambda per opcode, addressing modes and lengths | each lambda, for each operand |
| CPU (`6502cpu.h`, `6502cpu.cpp`) | `A X Y S P PC`, `debug_` | reset, `step`, `execute`, `push_stack`, `pop_stack` | fetch, decode and PC agree; the stack is last in first out |
| debugger (`debugger.h`, `debugger.cpp`) | position in `run` or in the prompt, `command`, the state of `std::cin` | `run`, `go_to_debugger` | the program runs as it would without it |
| command line (`main.cpp`) | `argv`, how far `main` has come | usage, import, reset, the loop over the arguments, the session | a session starts from a reset CPU; errors end the process |
| example programs (`examples/`) | none | four programs with their expectations in comments | they do what the comments expect |

**Interaction.** `main` imports the image into a `GP_Memory`, resets a `CPU6502` on it,
sets the print device or the debug mode if the first argument, which is the path, asks
for it, and calls `Debugger::run` and returns in the loop over the arguments. `run` calls
`CPU6502::step` until it returns `Stop` or the PC leaves the memory. `step` reads the
opcode, works out the address of the operand, calls the lambda of the table, and moves
the PC unless the lambda did. The lambdas read and write registers, flags, memory and
stack; a write to the print device prints. `DBG` makes `step` return `GoToDebugger` in
debug mode, and `run` opens the prompt, which calls `step` by itself. `execute` is a
third loop over `step`, which `main` does not use.

**Hard behaviours.** They are listed as hazards in `PROJECT.json`, each at its line:
the wrap of the stack and its place in page 0; the pairs `JSR`/`RTS` and `BRK`/`RTI` with
anything in between; the flags of each lambda; carry and overflow at the boundaries;
the PC and the pointers at the end of memory; writes that print; what the three loops
make of the codes that `step` returns; the end of the input at the prompt; reads that
leave the vector; opcodes the table does not have; the order in which `main` does things
and the flags it never reaches.

## 2. The modules

| module | models | 
|---|---|
| `Bytes` | both integer types and their arithmetic; bits as sets of positions |
| `Psr` | class `PSR` as the set of its one bits, `update_flags` |
| `Memory` | `GP_Memory`: `mem`, `size`, `print_device_addr`, and `out`, what the last step printed |
| `Isa` | the table: opcode to lambda and addressing mode, and the lengths |
| `Cpu` | class `CPU6502`, one action for each body in the table; extends the four above |
| `CpuProperties` | what a step has to do, independent of how it is written |
| `MultiByte` | loops that add and subtract words, and what they must compute |
| `BoundedStack` | the abstract stack: last in, first out, bounded capacity |
| `StackDiscipline` | `Cpu` with a history of what is on the stack; implements `BoundedStack`; call and interrupt properties |
| `Debugger` | `run` and `go_to_debugger` around `Cpu`, with the lines typed, the input and its end |
| `Startup` | `main`: an invocation from the command line through `import`, reset and flags to the end of the session; extends `Debugger` |
| `Examples` | the four programs of `examples/`, assembled, and their expectations |
| `Claims` | what documentation and comments say and the program does not do |
| `Programs`, `MC_*` | machine code, vectors and constants for TLC |
| `Maps` | `:>` and `@@`, of which the table and the images are made |
| `Cpu_proofs` | theorems about `Cpu` and `CpuProperties` |
| `Instructions_proofs` | lemmas: what the table holds, and what single instructions do |
| `MultiByte_proofs`, `Examples_proofs` | theorems about particular programs, which rest on those lemmas |
| `Stack_proofs` | theorems about `StackDiscipline`, and that it implements `BoundedStack` |
| `Debugger_proofs`, `Startup_proofs` | theorems about `Debugger` and `Startup` |

`Maps` defines `:>` and `@@` with the meaning they have in the module `TLC`, whose own
operators the proof system cannot expand; TLC evaluates these definitions too.

**Correspondence.** One step of `Cpu` is one call of `CPU6502::step`. The action is
named after the mnemonic of the table, with a suffix where the table gives a mnemonic
more than one body: `ASLacc` works on the accumulator, `CPXimm` is the odd one of the
comparisons, and so on; the header of `Isa` lists them. `op_address` is the address that
`step` passes to the lambda (`AddressIn` of its mode), `operand` what most lambdas read there. `ToA`, `ToX`, `ToMem`,
`Branch`, `push_stack`, `Advance` and `set_PC` are the shapes that lambdas have in common.
The variable `ret` is the code that `step` returned; an action that leaves it `OK` has
advanced the PC by the length of the instruction.

The memory is a function on the cells that are not zero or have been written; the
images of the example programs have a few dozen of them, and the rest of the 64K reads
as zero, the value the assembler pads with. `operator[]` of the vector is unchecked. A
cell behind the end of a short vector, or the cell 65536 that `JMP (abs)` can reach, reads
as whatever the image constant says lies there.

Such an access may also end the process, with nothing there to be read. `Accessed` is the
set of the cells that a step reads or writes, operand bytes, pointers, operand and stack,
and `AccessesOutside` says that one of them is behind the vector. A step for which it holds
is one of the actions of `Cpu`, or the end: a behaviour of `Spec` may stop there, and
`Debugger` has the actions `RunCrashes` and `StepCrashes`.

In `Debugger` one step is one iteration of the loop of `run` or of the prompt. A line is a
name, which `parse_name` maps to a command, and arguments, which are the numbers that
`hex_to_number` makes of them. `getline` models `std::getline`: it delivers a line, or what
is left before the end of the input, and from then on leaves `command` as it was. A `get`
that reads outside the vector prints something or ends in the phase "crashed"
(`GetCrashes`), a program that accesses something there goes on or crashes in `run` or at the
prompt, and the specification admits both.

In `Startup` the variable `stage` says how far `main` has come, and while it is "run" the
steps are those of `Debugger`. `Usage`, `ImportFails`, `InvalidAddress` and
`UncaughtException` are the ways out before that; `ResetCrashes` is the read of a reset
vector that a short file does not have, which may also yield whatever lies there
(`CPU6502`). `Flags` is the set of the arguments that the loop gets to see, the first. The
words `std::stoul` converts, and the numbers it makes of them, are constants.

`StackDiscipline` implements `BoundedStack` under the refinement mapping

    contents <- the cells from S upwards, as many as live has entries, newest last
    last     <- the bytes that the last instruction moved

where `last` is a history variable: for a push the bytes that the registers held before,
for a pull the bytes that the registers hold afterwards, for `RTS` and `RTI` those that the
new PC stands for. Both sides of the mapping are state of the CPU; the history `live` only
contributes how many cells are in use.

**Where the model follows the code against expectation.** `BBS` tests bit 0; `BBR` and
`BBS` test the byte at the branch target; `CPX #` and `CPY #` compare with the low byte of
the operand's address, and with the other comparisons written out in the table set Z
always and C to the borrow; opcode 0xAD sets no flags; `(zp)` in column 2 of the table has the
mode `ZeroPage` except for `CMP` and `SBC`; `INX`, `INY` and `DEY` set the carry and do not
clear it; the stack lies in page 0; the first of equal keys of the table counts, which gives eight opcodes more than once. The
actions do exactly this.

## 3. What is checked

Every instance is a set of images: the set of initial states holds one state for each
image, print device and debug mode, and the behaviours are the runs of these programs.

| run | instance | properties |
|---|---|---|
| `sweep` | 256 opcodes, 4 profiles of registers, flags and operand bytes; `ADC` and `SBC` on all pairs of 18 boundary bytes, carry clear, set, and set with D; 4 loops over all pairs of 8 boundary words; 3 print devices, debug on and off | `TypeOK`, `PrintedIsStored`, `StoredIsPrinted`, `OperandsAreNotExecuted`, `FlagsDescribeResult`, `AddsBothWays`, `SubtractsBothWays`, `WordsAddUp` |
| `stack` | all sequences of 4 fragments out of 10; recursions of depth 1 to 129; loops of 1, 255 and 256 pushes | `StackIntegrity`, `StackImplementsLifo`, `ReturnsToCaller`, `InterruptRestores` |
| `examples` | the four programs, debugger off, and on with any user | `SubtractAsExpected`, `HelloPrintsItsMessage`, `SubroutineAsExpected`, `InterruptAsExpected`, `TerminatesWithoutDebugger` |
| `debugger` | four programs that break in loops, calls and handlers; one that runs around the end of 64K, one that executes `JMP ($FFFF)`; two short images that run or jump off their end; any line and the end of input at any prompt | `PhaseHasReason`, `DebuggerImplementsExecute`, `EndOfInputHangs`, `LastStepRepeats`, `DebugOffEnds` |
| `startup` | 12 paths (images of 0, 2, 65533, 65534, 65536 and 65537 bytes, no file, names like flags), alone and with every flag and address behind them | `SessionBegins`, `EndsWithoutUser` |

* **sweep** fires every action. It shows that no lambda leaks a value wider than its
  type, that the print device holds what was printed last (also when it lies in the
  stack or under a read-modify-write instruction), that the lengths of the addressing
  modes agree with the operand bytes `step` reads, and that N and Z describe what the
  register or cell holds after loads, sums, differences, logical operations, shifts,
  rotations, `INC`, `DEC` and the like, and N after `LSR`. Not claimed, because the code
  does otherwise: Z after `LSR` and both flags after opcode 0xAD, after transfers and after
  pulls; see below. `BIT`, `TSB`, `TRB` and the comparisons set flags for a value that they do not
  store, and `RMB` and `SMB` set none.
  The calculations compare the overflow rules of the code (three signs for `ADC`, exclusive
  ors for `SBC`) with two's complement arithmetic; the proofs extend it to all operands. The
  loops show that `INX` and `DEY`, which set the carry when they wrap around, do not get in
  between the bytes of a word, counting down or counting up through the wrap of page 0.
* **stack** shows that the 256 cells behave as a stack over every interleaving of the
  fragments: pushes and pulls of registers and flags, a store into a live slot, `TXS`, an
  interrupt, a nested call, a callee that tampers with its return address, a callee that
  breaks. The history variable `live` holds what has been pushed and not pulled, limited
  to 256 bytes. The recursion of depth 129 and the loop of 256 pushes cross the capacity.
  `StackImplementsLifo` says the same of every transfer: a pull, a return address or a
  restored status is what was pushed last.
* **examples** shows that at all breakpoints the registers and flags are those that the
  comments of the programs expect, whatever the user does there.
* **debugger** shows that the program under the debugger is a behaviour of
  `CPU6502::execute` (`Spec` of `Cpu`, with the identity as the refinement mapping and the
  prompt's own steps as stuttering), with one exception that the property names: the
  prompt steps on where `execute` would have left the loop, past the end of a short image
  (`StepsPastEnd`). The property does not hold without it. Only debug mode opens the prompt. Any step and any
  `get` that accesses what is behind the memory may crash, and `PhaseHasReason` says when
  that can be: in an image of 64K, whose last instruction is followed by the one at 0, never but
  for `JMP ($FFFF)`, whose pointer does not wrap around, and a `get` of the user's; and `run` only
  returns after `STP`. With debug mode off the program ends by itself or by such a crash. After
  the end of the input the prompt hangs with a command that prints, and repeats a last `step`.
* **startup** shows that whatever the command line and the file, a session begins in an
  initial state of `Debugger`, from which the other runs start: so what they show of
  sessions holds of invocations. An invocation
  ends, if only by an exception that nobody catches, without a user unless the image itself is called `--debug`. The programs here stop;
  one that does not is the subject of `unknown_opcode`.

**Why the bounds are enough.** The behaviour of one instruction depends on its opcode,
the registers, two operand bytes and the cells they lead to. The profiles choose these
so that every sign, carry, wrap of a zero page index, wrap of the PC and pointer at the
last cell occurs. What a sequence of instructions can do to the stack depends on S, the
frame on top and what is stored between; four fragments suffice to push, call, disturb
and return, and the recursions add the capacity. Programs are finite and stop, so no
bound on the length of a behaviour is needed: TLC explores each to its end.

**Deadlock** is not checked: `STP` stops the program, and the process ends.

**Fairness.** `Spec`, `StackSpec` and `DebuggerSpec` have none. `FairDebuggerSpec` has weak
fairness of `run` and of `go_to_debugger`, `StartupSpec` of `main` and of the session's steps that
do not crash: all are code of the only thread, which nothing blocks but `getline`, and a `getline` that waits for ever is a user who neither types nor
ends the input. No fairness is
assumed of crashes, since an access outside the memory may always come off, nor of what the user types: `LastStepRepeats` and
`DebugOffEnds` hold whatever it is. `ExampleSpec` has weak fairness of the whole
next-state relation for the same reason.

### Where the code departs from its documentation

Each is refuted by a run of its own in `MC_Claims` or `MC_Startup`, whose trace is a program
of a few instructions or one invocation.

| run | text | code |
|---|---|---|
| `unused_bit` | README.md:44, bit 5 of the status register is constant one | `PLP` and `RTI` install the byte as it is |
| `stack_page` | README.md:37, the stack lies from 0x100 to 0x1FF | pushes write to page 0 |
| `decimal` | README.md:46, D enables BCD arithmetic | `ADC` and `SBC` ignore D |
| `zero_flag` | README.md:49, Z is set when a result is zero | `CPX #` sets Z for any difference, `LSR` and opcode 0xAD leave it alone |
| `unknown_opcode` | 6502cpu.cpp:78, "Exiting..." | `run` tries the opcode again, for ever |
| `flags_behind_path` | README.md:54, `-d` or `--debug` enables debugging mode; main.cpp:13, `--print-device ADDR` sets the print device | only the first argument, the path, is looked at |
| `unchecked_read` | gp_memory.cpp:18, `read` throws `std::out_of_range` | a file of two bytes is reset and run |

The program of `unknown_opcode` is a single `WAI`, which the table does not have. That of
`zero_flag` executes `CPX #`, `LSR A` and opcode 0xAD, none with a result of zero, and the
property would hold if one of them alone cleared Z; the command lines of `flags_behind_path`
hold both flags, and it would be enough if one of them took effect. So each of these two
violations shows all the departures of its line at once.

More departures follow from the model without a run of their own. `--memory-size` of the usage
(main.cpp:10) is never read. With an image of 64K the PC wraps to 0 where 6502cpu.cpp:48 says
that execution ends. Transfers and pulls leave N and Z as they were (README.md:41,
README.md:49). The comparisons written out in the table treat Z as `CPX #` does, and their C is
the borrow. `BBR` and `BBS` are not those of the manual that README.md:91 names, which branch on
bit n of a cell of the zero page and have a third byte for the offset.

## 4. What is proved

For every set of images (`ImagesAssumption`: bytes in cells, whatever the size), every set of print
devices that are addresses (`PrintDevicesAssumption`) and every choice of debug modes
(`DebugModesAssumption`). The theorems about `Startup` also take the print devices and
debug modes to be all there are (`SessionsAssumption`), because `main` chooses them from the
command line, and hold for every set of files, command lines and numbers. Those about
`Debugger` and `Examples` hold for every set of lines that the user may type
(`LinesAssumption`).

| theorem | statement |
|---|---|
| `Cpu_proofs!TypeCorrect` | `Spec => []TypeOK` |
| `Cpu_proofs!PrintedIsStoredAlways` | `Spec => []PrintedIsStored` |
| `Cpu_proofs!StoredIsPrintedAlways` | `Spec => StoredIsPrinted` |
| `Cpu_proofs!AddsBothWaysAlways` | `Spec => AddsBothWays` |
| `Cpu_proofs!SubtractsBothWaysAlways` | `Spec => SubtractsBothWays` |
| `Cpu_proofs!FlagsDescribeAlways` | `Spec => FlagsDescribeResult` |
| `Cpu_proofs!OperandsAreNotExecutedAlways` | `Spec => OperandsAreNotExecuted` |
| `MultiByte_proofs!WordsAddUpAlways` | `Spec /\ WordsLoaded(Word) => []WordsAddUp` |
| `Stack_proofs!StackIntegrityAlways` | `StackSpec => []StackIntegrity` |
| `Stack_proofs!ReturnsAlways` | `StackSpec => ReturnsToCaller` |
| `Stack_proofs!InterruptReturnsAlways` | `StackSpec => InterruptRestores` |
| `Stack_proofs!StackImplements` | `StackSpec => StackImplementsLifo` |
| `Debugger_proofs!DebuggerImplements` | `DebuggerSpec => DebuggerImplementsExecute` |
| `Debugger_proofs!SessionsKeepPromises` | `DebuggerSpec =>` the properties of `Cpu_proofs` |
| `Debugger_proofs!PhasesHaveReasons` | `DebuggerSpec => []PhaseHasReason` |
| `Debugger_proofs!EndOfInputHangsAlways` | `DebuggerSpec => EndOfInputHangs` |
| `Startup_proofs!SessionsBeginReset` | `StartupSpec => SessionBegins` |
| `Startup_proofs!InvocationsKeepTypes` | `StartupSpec => [](TypeOK /\ PrintedIsStored)` |
| `Startup_proofs!InvocationsHaveReasons` | `StartupSpec => []PhaseHasReason` |
| `Examples_proofs!SubtractAsExpectedAlways` | `ExampleSpec /\ Starts(subtract) => []SubtractAsExpected` |
| `Examples_proofs!SubroutineAsExpectedAlways` | `ExampleSpec /\ Starts(subroutine) => []SubroutineAsExpected` |
| `Examples_proofs!InterruptAsExpectedAlways` | `ExampleSpec /\ Starts(int) => []InterruptAsExpected` |
| `Examples_proofs!HelloPrintsAlways` | `ExampleSpec /\ Starts(hello) /\ print_device_addr = \hFFFB => []HelloPrintsItsMessage` |

`WordsLoaded(Word)` says that the image is one of the four loops with any two words as
operands; `Starts(image)` that the image of the program is the one that was loaded.
`hello.s` stores to the default print device, so what it prints is claimed for that one.

**TypeCorrect.** `TypeOK` is inductive by itself: it bounds every register, the PC, each
cell of the memory and each printed byte. Lemmas first bound the arithmetic (`ByteArithmetic`,
`PlusType`, `AddressType`, `HalvesType`), then the flags and the memory, then the operand
of an instruction under any addressing mode (`OperandType`). The shapes of instructions
keep the types (`ShapesType`, `BranchType`, `PushType`, `PullType`), and `StepType` has one
step for each action, which says what that action passes to its shape.

**PrintedIsStoredAlways and StoredIsPrintedAlways.** `PrintedIsStored` alone is inductive
given `TypeOK`, because every step determines the last byte it prints. `Faithful(m, o)`
relates the memory and the output in the middle of an instruction that writes several
times; it holds after the first write and is kept by each further one, whatever the
addresses. `StepWrites` says that an instruction does not write, writes once, or is
`JSR` or `BRK`.

**AddsBothWaysAlways and SubtractsBothWaysAlways.** An opcode has one lambda
(`OneLambda`); the result, carry and overflow that lambda computes are those of unsigned
and two's complement arithmetic (`SumIsRight`, `DifferenceIsRight`, by arithmetic on the
ranges `TypeOK` gives); and setting C, V, N and Z one after the other keeps each
(`UpdateFlagsMembers`, `CarryOverflowMembers`).

**FlagsDescribeAlways.** `StepUpdates` says of each lambda that calls `update_flags` for what
it stores which register or cell that is, and that it calls it with that value last of all;
`UpdatedDescribes` says what `update_flags` leaves in N and Z, whatever the flags were. `LSR`
sets N by itself, and `ShiftedRight` compares it with the result. The instructions that the
property leaves out are left out of the theorem.

**OperandsAreNotExecutedAlways.** The length of each addressing mode but one is that of the
opcode and the operand bytes `step` reads (`ModesFit`), the exception being a mode that only
`JMP` has, which sets the PC. `PartsFit` carries this through `@@`, so it holds for each
column of the table and for the table (`TableFits`), without the provers ever seeing 212
entries at once; `StepAdvances` says which steps move the PC by that length.

**What a single opcode does.** The theorems about programs need the entry of the table for
an opcode. `Instructions_proofs` looks it up: the column of the opcode (`ColumnDomains`,
`OtherColumn`), the part of the column, the entry (`TableEntries`). One lemma for each
instruction that the programs use then says what its step does to registers, flags, memory
and output (`LDAimmStep` to `SBCimmStep`), and `VectorCells` to `MergedCells` say what an
image made of code and vectors holds.

**WordsAddUpAlways.** `WordsAddUp` speaks of the end of the loops only. `LoopInv` says of each
instruction of a loop what is true before it: the first n bytes are done, `Right(kind, n, r, c)`
relates operands, result and carry as numbers, and X and Y tell n. The step from one
assertion to the next is a lemma (`FromLDA` to `FromBNE`). Counting up, the last `INX` may
lose the carry (`DoneButCarry`), which is why the property claims C only for the
loops that count down.

**Steps.** The lemmas under the theorems of `Cpu_proofs` are about `Steps`, which executes
instructions whatever the PC and the last return code. `Spec` implements it, and so does
`DebuggerSpec`, with the steps that the prompt takes past the end of a short image: hence
**SessionsKeepPromises**. **InvocationsKeepTypes** adds what `main` does before and after.

**StackIntegrityAlways.** `StackIntegrity` is not inductive by itself: that a push leaves the
other entries alone needs the types and the bound on the history. `StackInv` adds them, and
that an entry labelled as part of a frame still holds that part (`Truthful`), which the two
theorems after it need. The proof counts entries from the top, as S does: `CellAt(s, d)` is
the cell at depth d, and 256 depths have 256 cells (`CellsDiffer`), wherever S stands. Then
pulling, pushing up to three bytes onto a full or an empty stack, and overwriting an entry
are lemmas about a memory and a history (`Pulling`, `Pushing`, `Overwriting`), and
`StepKinds` says which of them an instruction is.

**ReturnsAlways and InterruptReturnsAlways.** With `StackInv` the cells that `RTS` and `RTI`
read are the bytes of the frame; an address is made of its halves (`AddressOfHalves`) and a
status of its bits (`BitsOfFromBits`).

**StackImplements.** Under `StackInv` the contents of the abstract stack are the bytes of the
history (`ContentsAreBytes`), and taking the bytes commutes with joining, dropping and
keeping the newest (`JoinedBytes`, `DroppedBytes`, `NewestBytes`). One lemma for each
kind of instruction (`PushInstruction` to `QuietInstruction`) then gives the step of
`BoundedStack` that it takes.

**DebuggerImplements.** The invariant `StillRunning` (in `run` and at the prompt nothing has
returned `Stop`) gives the guard of `execute` that the debugger does not test: both loops
are left with the step that returns `Stop`. With it each action of the debugger is a step
of `execute`, a stutter, or `StepsPastEnd`. It holds for every set of lines.

**PhasesHaveReasons and InvocationsHaveReasons.** That the prompt needs debug mode follows from
what a step may do to `debug_` and what it may return (`StepControl`, over all lambdas). The rest
is about accesses: `AccessedType` says that every cell of `Accessed`, under every
addressing mode and on the stack, is an address of 16 bits, but for the second byte of the
pointer of `AbsoluteIndirect`, and `TableJumps` that only `JMP` has that mode. So with an image of
64K a crash of `RunCrashes` or `StepCrashes` has the one cause that is named (`OutsideReason`),
and `EndOfMemory` is never taken (`NoEnd`), because the PC keeps its type. The invariant is
inductive given `TypeOK`, under `DebuggerSpec` and under `StartupSpec`.

**EndOfInputHangsAlways.** It needs no invariant: once the input has ended `getline` leaves
the command as it is, so none of the commands that go on can be read.

**SessionsBeginReset.** The invariant `StagesDone` says what `main` has done, and not done, at
each of its stages. That the print device is an address comes from the conversion of the
argument (`DevicesAreWords`).

**The example programs.** Each has an inductive invariant with one assertion for each of its
instructions (`SubtractInv`, `SubroutineInv`, `IntInv`, `HelloInv`): the code is still in
memory, and at this offset the registers, the flags, the frame on the stack or the text
printed are these. The expectations alone are not inductive: they speak of
breakpoints only, and need the carry left by `SEC`, the frame pushed by `JSR` or `BRK`, and the
index that `LDA message,x` reads with. `InSession` holds in every session, and `SessionStep`
reduces what the user may do at the prompt to one case: a session whose program is inside
its code either executes one instruction and appends what it prints to `text`, or leaves the
CPU alone. For `subtract.s` one proof serves all ten cases (`CaseBegins`, `CaseSetsCarry`,
`CaseSubtracts`), and `CasesAreRight` compares their comments with the arithmetic; for
`hello.s` the number of characters printed runs through the assertions.

**Only model-checked:** the liveness properties, `TerminatesWithoutDebugger`,
`LastStepRepeats`, `DebugOffEnds` and `EndsWithoutUser`, which the proof system does not
treat. Every invariant and every other action property of the passing runs is proved.

## 5. What is not modelled

* What the program prints other than through the print device: the log of `step`, which
  `verbose_` lengthens, the warnings of the constructor, the output of the commands
  `dump`, `get` and `help`. It changes no state.
* What else lies behind a vector that is too short: `Startup` and `Debugger` follow a program
  that goes on there with the cells the image constant gives, or end it with a crash. What
  its stores do there to the heap of the process is left out.
* Files that change while they are read, and a failing `std::cin` or `std::cout`.
* The operators of `byte_utils.h` and `address.h`, and the members of `PSR`, that nothing
  calls.
* `verbose_`, `Makefile`, manuals and the generated documentation.

## 6. Plan

Done: `Bytes`, `Psr`, `Memory`, `Isa`, `Cpu`, then `CpuProperties`, `StackDiscipline`,
`Debugger`, `Examples`, `Claims`, `BoundedStack`, `MultiByte`, `Startup`, and the proofs
above, in this order, because everything else rests on the CPU.

Next:

1. Proofs: the stack and its refinement in every session of the debugger and every
   invocation, as `SessionsKeepPromises` does for the properties of single steps.
2. Addressing modes: the table against the modes that README.md:19 promises, and the `(zp)`
   opcodes of column 2.
3. The comparisons, and `BBR` and `BBS`, against the manuals of the repository
   (README.md:91), opcode by opcode.
