--------------------------- MODULE StackDiscipline --------------------------
(***************************************************************************)
(* What a program may rely on when it uses the stack: JSR and RTS, BRK and *)
(* RTI, the pushes and the pulls, mixed with stores.                       *)
(*                                                                         *)
(* The stack of the simulator is the 256 cells of page 0, and S wraps      *)
(* around in it: push_stack and pop_stack give no warning (6502cpu.cpp:20, *)
(* 6502cpu.cpp:35).  The history variable live records what has been       *)
(* pushed and not yet pulled, newest last, and last the bytes that the     *)
(* last instruction moved between the stack and the registers.  More than  *)
(* 256 bytes do not fit: the oldest are lost.                              *)
(***************************************************************************)
EXTENDS CpuProperties

VARIABLES live, last

stackVars == <<cpuVars, live, last>>

Capacity == 256

\* kind says what the byte is good for; pc and p are the registers when it was
\* pushed.
Entry(kind, byte) == [kind |-> kind, byte |-> byte, pc |-> PC, p |-> P]

Kinds == {"data", "stored", "call high", "call low", "break high", "break low",
          "break status"}

Entries == [kind : Kinds, byte : Byte, pc : Word, p : SUBSET BitPosition]

\* The bytes that the instruction is there to save
Saves ==
  CASE Executing("PHA") -> <<Entry("data", A)>>
    [] Executing("PHX") -> <<Entry("data", X)>>
    [] Executing("PHY") -> <<Entry("data", Y)>>
    [] Executing("PHP") -> <<Entry("data", FromBits(P \cup {break_command}))>>
    [] Executing("JSR") -> <<Entry("call high", high(PC)), Entry("call low", low(PC))>>
    [] Executing("BRK") -> <<Entry("break high", high(PC)), Entry("break low", low(PC)),
                             Entry("break status", FromBits(P))>>
    [] OTHER -> <<>>

\* and the number of bytes it is there to take back
Takes ==
  CASE ExecutingOneOf({"PLA", "PLX", "PLY", "PLP"}) -> 1
    [] Executing("RTS") -> 2
    [] Executing("RTI") -> 3
    [] OTHER -> 0

Stores == ExecutingOneOf({"STA", "STX", "STY", "STZ", "INC", "DEC", "ASL", "LSR", "ROL",
                          "ROR", "TSB", "TRB", "RMB", "SMB"})

\* The cell of the i-th entry, which is where S points for the newest
SlotOf(i) == (S + Len(live) - i) % 256

\* The cells of the stack as the entries of an abstract stack
Lifo == INSTANCE BoundedStack WITH contents <- [i \in 1..Len(live) |-> read(SlotOf(i))],
                                   last <- last

\* A store of the program may hit an entry: from then on it holds what was stored.
Overwritten ==
  [i \in 1..Len(live) |->
     IF SlotOf(i) = op_address
     THEN [live[i] EXCEPT !.kind = "stored", !.byte = mem'[op_address]]
     ELSE live[i]]

\* TXS moves the stack: nothing is known of what is there.
NextLive ==
  IF Executing("TXS") THEN <<>>
  ELSE IF Stores THEN Overwritten
  ELSE Lifo!Newest(Lifo!Dropped(live, Takes) \o Saves, Capacity)

\* The bytes that the last instruction moved, as the program knows them: a push
\* moves what was in the registers before, a pull what is in them afterwards.
Pulled(moved) == Lifo!Operation("pull", moved)

NextLast ==
  CASE Saves # <<>>     -> Lifo!Operation("push", [i \in DOMAIN Saves |-> Saves[i].byte])
    [] Executing("PLA") -> Pulled(<<A'>>)
    [] Executing("PLX") -> Pulled(<<X'>>)
    [] Executing("PLY") -> Pulled(<<Y'>>)
    [] Executing("PLP") -> Pulled(<<FromBits(P')>>)
    [] Executing("RTS") -> Pulled(<<low(Plus(PC', -3)), high(Plus(PC', -3))>>)
    [] Executing("RTI") -> Pulled(<<FromBits(P'), low(Plus(PC', -1)), high(Plus(PC', -1))>>)
    [] Stores           -> Lifo!Operation("store", <<mem'[op_address]>>)
    [] Executing("TXS") -> Lifo!Operation("move", <<>>)
    [] OTHER            -> Lifo!Operation("none", <<>>)

StackInit == Init /\ live = <<>> /\ last = Lifo!Operation("none", <<>>)
StackNext == execute /\ live' = NextLive /\ last' = NextLast

StackSpec == StackInit /\ [][StackNext]_stackVars

-----------------------------------------------------------------------------

\* Whatever sequence of calls, interrupts, pushes, pulls and stores has been
\* run, and however often S has wrapped around, the cells above S hold the bytes
\* that were pushed and not pulled, in their order (push_stack and pop_stack).
StackIntegrity == \A i \in 1..Len(live) : read(SlotOf(i)) = live[i].byte

\* The cells above S and the registers that are pushed and pulled behave as a
\* last-in-first-out stack of 256 bytes: every pull, of a register, a return address
\* or an interrupt's frame, yields what has been pushed last and not been pulled,
\* and no other instruction disturbs it.  The memory is what is compared, the
\* history only says how many cells are in use.
StackImplementsLifo == Lifo!Spec

Top(n) == live[Len(live) + 1 - n]

CallOnTop == /\ Len(live) >= 2
             /\ Top(1).kind = "call low"
             /\ Top(2).kind = "call high"
             /\ Top(1).pc = Top(2).pc

BreakOnTop == /\ Len(live) >= 3
              /\ Top(1).kind = "break status"
              /\ Top(2).kind = "break low"
              /\ Top(3).kind = "break high"
              /\ Top(1).pc = Top(2).pc
              /\ Top(2).pc = Top(3).pc

\* RTS continues behind the three bytes of the JSR whose frame is on top of the
\* stack: the subroutine may have called, pushed and pulled in between, as long
\* as it took back what it pushed and stored nothing there.  JSR pushes its own
\* address and RTS adds 3 (6502isa.cpp:208, 6502isa.cpp:248).
ReturnsToCaller ==
  [][Executing("RTS") /\ CallOnTop => PC' = Plus(Top(1).pc, 3)]_stackVars

\* RTI continues behind the BRK with the status BRK was executed with, the break
\* flag that BRK sets included (6502isa.cpp:176, 6502isa.cpp:228).
InterruptRestores ==
  [][Executing("RTI") /\ BreakOnTop => /\ PC' = Plus(Top(1).pc, 1)
                                       /\ P' = Top(1).p]_stackVars
=============================================================================
