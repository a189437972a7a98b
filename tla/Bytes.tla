------------------------------- MODULE Bytes --------------------------------
(***************************************************************************)
(* The two integer types of the simulator and their arithmetic.            *)
(*                                                                         *)
(* std::byte (byte_utils.h) is a number of Byte, class address (address.h) *)
(* a number of Word.  Both wrap around: every operator below keeps the     *)
(* width of the C++ type it stands for.  Where the code works on single    *)
(* bits, a byte is seen as the set of the positions of its one bits, 0     *)
(* being the least significant one; ToBits and FromBits convert.           *)
(***************************************************************************)
EXTENDS Integers

WordSize == 65536

Byte == 0..255
Word == 0..(WordSize - 1)

-----------------------------------------------------------------------------
(* class address *)

\* address(std::byte low, std::byte high)
address(lo, hi) == hi * 256 + lo

low(w)  == w % 256
high(w) == w \div 256

\* (a + n).value for an address, a byte or an int n.  An int8_t n is first
\* converted to uint16_t, which adds WordSize to a negative one; the carry of the
\* address_result is read nowhere in the program.
Plus(a, n) == (a + WordSize + n) % WordSize

\* static_cast<int8_t>(b)
Signed(b) == IF b > 127 THEN b - 256 ELSE b

-----------------------------------------------------------------------------
(* byte_result operator+ and operator- *)

add(a, b) == [value |-> (a + b) % 256, carry |-> a + b > 255]

\* byte_result + int: the carry of the first sum is kept
add_result(r, n) == [value |-> (r.value + n) % 256,
                     carry |-> r.value + n > 255 \/ r.carry]

\* carry is the borrow of the subtraction
sub(a, b) == [value |-> (a + 256 - b) % 256, carry |-> a < b]

is_negative(b) == b > 127
is_zero(b)     == b = 0

\* b << 1 and b >> 1, the bit that comes in (0 or 1) and the bit that goes out
shl(b, in) == [value |-> ((2 * b) % 256) + in,     carry |-> is_negative(b)]
shr(b, in) == [value |-> (b \div 2) + (128 * in),   carry |-> b % 2 = 1]

-----------------------------------------------------------------------------
(* Bits *)

BitPosition == 0..7

Weight(k) == <<1, 2, 4, 8, 16, 32, 64, 128>>[k + 1]

ToBits(b) == {k \in BitPosition : (b \div Weight(k)) % 2 = 1}

FromBits(s) ==
  LET w(k) == IF k \in s THEN Weight(k) ELSE 0
  IN  w(0) + w(1) + w(2) + w(3) + w(4) + w(5) + w(6) + w(7)

is_bit_set(b, k) == k \in ToBits(b)

\* operator&, |, ^ and ~ of std::byte
BitAnd(a, b) == FromBits(ToBits(a) \cap ToBits(b))
BitOr(a, b)  == FromBits(ToBits(a) \cup ToBits(b))
BitXor(a, b) == FromBits((ToBits(a) \ ToBits(b)) \cup (ToBits(b) \ ToBits(a)))
BitClear(a, b) == FromBits(ToBits(a) \ ToBits(b))
=============================================================================
