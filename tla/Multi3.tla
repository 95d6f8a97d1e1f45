-------------------------------- MODULE Multi3 --------------------------------
(***************************************************************************)
(* __multi3 of multi3.ll: the product of two words of four digits to a base*)
(* B, from products of one digit by one digit and of two by two, in        *)
(* registers of two digits.  The file has B = 2^32.                        *)
(***************************************************************************)
EXTENDS Naturals, Sequences

CONSTANT B

ASSUME BaseAssumption == B \in Nat \ {0, 1}

Register == 0..(B * B - 1)
Word == 0..(B * B * B * B - 1)

\* and with 2^32 - 1, lshr by 32; shl by 32, add and mul drop what does not fit.
lo(x) == x % B
hi(x) == x \div B
shl(x) == (x * B) % (B * B)
add(x, y) == (x + y) % (B * B)
mul(x, y) == (x * y) % (B * B)

\* Mutant: the carry out of the first middle product is dropped.
mulhuNoCarry(a_lo, b_lo) ==
    LET t0 == mul(lo(a_lo), lo(b_lo))
        mid1 == add(mul(hi(a_lo), lo(b_lo)), hi(t0))
        mid2 == add(lo(mid1), mul(lo(a_lo), hi(b_lo))) IN
    add(mul(hi(a_lo), hi(b_lo)), hi(mid2))

Middle1(a_lo, b_lo) == add(mul(hi(a_lo), lo(b_lo)), hi(mul(lo(a_lo), lo(b_lo))))
Middle2(a_lo, b_lo) == add(lo(Middle1(a_lo, b_lo)), mul(lo(a_lo), hi(b_lo)))

\* The upper register of the product of two registers.
mulhu(a_lo, b_lo) ==
    add(add(mul(hi(a_lo), hi(b_lo)), hi(Middle1(a_lo, b_lo))), hi(Middle2(a_lo, b_lo)))

\* or joins two numbers without a bit in common.
result_lo(a_lo, b_lo) == lo(mul(lo(a_lo), lo(b_lo))) + shl(Middle2(a_lo, b_lo))

multi3(a, b) ==
    LET a_lo == a % (B * B)
        a_hi == a \div (B * B)
        b_lo == b % (B * B)
        b_hi == b \div (B * B)
        result_hi == add(add(mulhu(a_lo, b_lo), mul(a_hi, b_lo)), mul(a_lo, b_hi)) IN
    result_lo(a_lo, b_lo) + result_hi * (B * B)

VARIABLES
    operands,   \* of the call of __multi3, if there was one
    product     \* what it returned

NotCalled == operands = <<>> /\ product = 0

\* A program multiplies; __multi3 keeps nothing, so one call is as good as any.
Multiply ==
    /\ operands = <<>>
    /\ \E a, b \in Word : operands' = <<a, b>> /\ product' = multi3(a, b)

CallSpec == NotCalled /\ [][Multiply]_<<operands, product>>

\* The result is the product, as far as it fits into a word: no carry from one digit
\* to the next is lost (multi3.ll 24-38).
ProductExact ==
    operands # <<>> => product = (operands[1] * operands[2]) % (B * B * B * B)
==============================================================================
