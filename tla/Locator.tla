------------------------------ MODULE Locator ------------------------------
(***************************************************************************)
(* The Locator word of src/src/nonuniform.rs: an unsigned integer of       *)
(* LocatorBits bits (u32 in the code, scaled down for TLC) with wrapping   *)
(* arithmetic, and the bit operations the code applies to it.              *)
(***************************************************************************)
EXTENDS Integers, Bitwise

CONSTANT LocatorBits   \* 32 in the code

ASSUME LocatorBits \in 2..8

Word == 2^LocatorBits                  \* 2^Locator::BITS
LocatorSet == 0 .. Word - 1
LocatorMax == Word - 1                  \* Locator::MAX

WrapAdd(a, b) == (a + b) % Word         \* wrapping_add
WrapSub(a, b) == (a - b + Word) % Word  \* wrapping_sub
WrapNeg(a) == (Word - a) % Word         \* wrapping_neg
AsLocator(x) == x % Word                \* the cast `x as Locator`
Complement(x) == LocatorMax - x         \* !x
Shl(x, n) == (x * 2^n) % Word           \* x << n, n < LocatorBits

(* Bits [shift, shift + nbits) of x, as an nbits-bit integer. *)
BitField(x, shift, nbits) == (x \div 2^shift) % 2^nbits

RECURSIVE CountOnesR(_)
CountOnesR(x) == IF x = 0 THEN 0 ELSE (x % 2) + CountOnesR(x \div 2)

CountOnes(x) == CountOnesR(x)           \* count_ones

TrailingZeros(x) ==                     \* trailing_zeros; BITS for 0
    IF x = 0 THEN LocatorBits
    ELSE CHOOSE i \in 0 .. LocatorBits - 1 :
            x % 2^(i + 1) = 2^i

LeadingZeros(x) ==                      \* leading_zeros; BITS for 0
    IF x = 0 THEN LocatorBits
    ELSE CHOOSE i \in 0 .. LocatorBits - 1 :
            2^(LocatorBits - 1 - i) <= x /\ x < 2^(LocatorBits - i)

IsPowerOf2(w) == (w & WrapSub(w, 1)) = 0   \* w & (w-1) == 0

(* high_bit: the index of the highest set bit; the code panics on 0. *)
high_bit(x) == LocatorBits - 1 - LeadingZeros(x)

(* floor_power_of_2: the greatest power of 2 <= x, and 1 for 0. *)
floor_power_of_2(x) == IF x = 0 THEN 1 ELSE 2^high_bit(x)

=============================================================================
