------------------------------- MODULE Memory -------------------------------
(***************************************************************************)
(* class GP_Memory: the vector memory_ and the print device mapped into    *)
(* it.                                                                     *)
(*                                                                         *)
(* mem holds the cells that differ from zero or have been written; every   *)
(* other cell reads as zero, the value the assembler pads an image with    *)
(* (-pad=0 in the Makefile).  The vector has size elements.  operator[]    *)
(* is unchecked, so an access at or above size is undefined.  Either it    *)
(* finds a cell there, whose first content is arbitrary and which an image *)
(* gives along with the file's own bytes, or there is none and the process *)
(* ends; Cpu says which steps make such accesses.                          *)
(***************************************************************************)
EXTENDS Bytes, Sequences

VARIABLES
  mem,                \* the cells of memory_
  size,               \* memory_.size()
  print_device_addr,  \* print_device_addr_
  out                 \* the bytes the last step wrote to std::cout

memoryVars == <<mem, size, print_device_addr, out>>

\* Addresses are Words, but JMP (abs) forms its second address as a size_t.
Cell == 0..WordSize

IsMemory(m) == /\ DOMAIN m \subseteq Cell
               /\ m \in [DOMAIN m -> Byte]

read(a) == IF a \in DOMAIN mem THEN mem[a] ELSE 0

\* Mutant of written: printing returns before the cell is stored.
written_unless_printed(m, a, v) ==
  IF a = print_device_addr THEN m
  ELSE [c \in DOMAIN m \cup {a} |-> IF c = a THEN v ELSE m[c]]

written(m, a, v) == [c \in DOMAIN m \cup {a} |-> IF c = a THEN v ELSE m[c]]

\* Mutant of printed: the device is looked for at its default address.
printed_at_default(a, v) == IF a = \hFFFB THEN <<v>> ELSE <<>>

\* What one write sends to std::cout
printed(a, v) == IF a = print_device_addr THEN <<v>> ELSE <<>>

write(a, v) == /\ mem' = written(mem, a, v)
               /\ out' = printed(a, v)
               /\ UNCHANGED <<size, print_device_addr>>

NoWrite == /\ out' = <<>>
           /\ UNCHANGED <<mem, size, print_device_addr>>
=============================================================================
