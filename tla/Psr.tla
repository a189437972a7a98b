-------------------------------- MODULE Psr ---------------------------------
(***************************************************************************)
(* class PSR, the processor status register: the byte psr_ is the set of   *)
(* its one bits, named as enum psr_bit names them.  PSR(std::byte) is      *)
(* ToBits and get() is FromBits: neither forces the bit called unused.     *)
(* PSR::set, which would, and PSR::update_bit are called nowhere.          *)
(***************************************************************************)
EXTENDS Bytes

carry             == 0
zero              == 1
interrupt_disable == 2
decimal_mode      == 3
break_command     == 4
unused            == 5
overflow          == 6
negative          == 7

\* PSR_INITIAL_VALUE = 0b00100100
InitialPsr == {interrupt_disable, unused}

get_bit(p, bit) == bit = unused \/ bit \in p

set_bit(p, bit, value) ==
  IF bit = unused THEN p
  ELSE IF value THEN p \cup {bit} ELSE p \ {bit}

\* std::byte(get_bit(carry)), and the bool an arithmetic operator takes
CarryIn(p) == IF get_bit(p, carry) THEN 1 ELSE 0

\* Mutant of update_flags: the boundary of the negative bytes is off by one.
update_flags_off_by_one(p, v) == set_bit(set_bit(p, zero, is_zero(v)), negative, v > 128)

\* CPU6502::update_flags
update_flags(p, v) == set_bit(set_bit(p, zero, is_zero(v)), negative, is_negative(v))
=============================================================================
