----------------------------- MODULE Multi3Proofs -----------------------------
(***************************************************************************)
(* __multi3 multiplies, to any base: no sum of the middle products is too  *)
(* large for a register, and what shl drops is what the upper half has.    *)
(***************************************************************************)
EXTENDS Multi3, Integers, TLAPS

M == B * B

------------------------------------------------------------------------------
(* Quotient and remainder. *)

LEMMA Division ==
    ASSUME NEW x \in Int, NEW m \in Int, m > 0,
           NEW q \in Int, NEW r \in Int, q = x \div m, r = x % m
    PROVE  x = m * q + r
BY Z3

LEMMA Bounds ==
    ASSUME NEW x \in Nat, NEW m \in Nat \ {0}
    PROVE  x % m \in Nat /\ x % m < m /\ x \div m \in Nat
<1>1. x % m \in Int /\ x % m >= 0 /\ x % m < m
  BY Z3
<1>2. x \div m \in Int
  BY Z3
<1>3. x \div m >= 0
  BY Z3
<1> QED  BY <1>1, <1>2, <1>3

\* A number has a quotient and a remainder.
LEMMA Parts ==
    ASSUME NEW x \in Nat, NEW m \in Nat \ {0}
    PROVE  \E q, r \in Nat : q = x \div m /\ r = x % m /\ r < m /\ x = m * q + r
<1>1. PICK q \in Nat : q = x \div m
  BY Bounds, Zenon
<1>2. PICK r \in Nat : r = x % m
  BY Bounds, Zenon
<1>3. r < m
  BY <1>2, Bounds
<1>4. x = m * q + r
  BY <1>1, <1>2, Division
<1> QED  BY <1>1, <1>2, <1>3, <1>4, Zenon

\* These are the only ones.
LEMMA Unique ==
    ASSUME NEW m \in Nat \ {0}, NEW q \in Nat, NEW r \in Nat, r < m
    PROVE  (m * q + r) % m = r /\ (m * q + r) \div m = q
BY Z3

LEMMA Fits ==
    ASSUME NEW m \in Nat \ {0}, NEW r \in Nat, r < m
    PROVE  r % m = r
BY Z3

\* Multiples of m do not count modulo m.
LEMMA Drop ==
    ASSUME NEW m \in Nat \ {0}, NEW x \in Nat, NEW k \in Nat
    PROVE  (x + m * k) % m = x % m
<1>1. PICK q, r \in Nat : q = x \div m /\ r = x % m /\ r < m /\ x = m * q + r
  BY Parts, Zenon
<1>2. x + m * k = m * (q + k) + r
  BY <1>1
<1>3. q + k \in Nat
  OBVIOUS
<1>4. (m * (q + k) + r) % m = r
  BY <1>1, <1>3, Unique, Zenon
<1> QED  BY <1>1, <1>2, <1>4, Zenon

------------------------------------------------------------------------------
(* Registers. *)

LEMMA Base == B \in Nat \ {0} /\ B >= 2 /\ M \in Nat \ {0} /\ M = B * B
<1>1. B \in Nat /\ B >= 2
  BY BaseAssumption
<1>2. B * B \in Nat /\ B * B > 0
  BY <1>1
<1> QED  BY <1>1, <1>2 DEF M

LEMMA DigitProduct ==
    ASSUME NEW x \in Nat, x < B, NEW y \in Nat, y < B
    PROVE  x * y \in Nat /\ x * y <= M - 2 * B + 1
<1>1. x * y <= (B - 1) * (B - 1)
  BY Base, Z3
<1>2. (B - 1) * (B - 1) = B * B - 2 * B + 1
  BY Base, Z3
<1> QED  BY <1>1, <1>2, Base DEF M

\* The two digits of a register.
LEMMA Digits ==
    ASSUME NEW x \in Nat, x < M
    PROVE  \E h, l \in Nat : h = hi(x) /\ l = lo(x) /\ h < B /\ l < B /\ x = B * h + l
<1>1. PICK h, l \in Nat : h = x \div B /\ l = x % B /\ l < B /\ x = B * h + l
  BY Parts, Base, Zenon
<1>2. h < B
  <2> SUFFICES ASSUME h >= B PROVE FALSE
    BY <1>1, Base
  <2>1. B * h >= B * B
    BY Base, Z3
  <2> QED  BY <1>1, <2>1, Base
<1> QED  BY <1>1, <1>2, Zenon DEF hi, lo

\* What fits into a register is not cut.
LEMMA AddFits ==
    ASSUME NEW x \in Nat, NEW y \in Nat, x + y < M PROVE add(x, y) = x + y
<1>1. (x + y) % M = x + y
  BY Base, Fits
<1> QED  BY <1>1 DEF add, M

LEMMA MulFits ==
    ASSUME NEW x \in Nat, x < B, NEW y \in Nat, y < B PROVE mul(x, y) = x * y
<1>1. x * y \in Nat /\ x * y < M
  BY DigitProduct, Base
<1>2. (x * y) % M = x * y
  BY <1>1, Base, Fits
<1> QED  BY <1>2 DEF mul, M

LEMMA ShlDropsHigh ==
    ASSUME NEW x \in Nat, NEW h \in Nat, NEW l \in Nat, l < B, x = B * h + l
    PROVE  shl(x) = B * l
<1>1. x * B = M * h + B * l
  BY Base, Z3
<1>2. B * l \in Nat /\ B * l < M
  BY Base, Z3
<1>3. (M * h + B * l) % M = B * l
  BY <1>2, Base, Unique, Zenon
<1> QED  BY <1>1, <1>3 DEF shl, M

\* The full product of two registers, in two registers.
LEMMA Halves ==
    ASSUME NEW a \in Nat, a < M, NEW b \in Nat, b < M
    PROVE  \E u, l \in Nat : /\ u = mulhu(a, b) /\ l = result_lo(a, b)
                             /\ l < M /\ a * b = M * u + l
<1>1. PICK x1, x0 \in Nat : x1 = hi(a) /\ x0 = lo(a) /\ x1 < B /\ x0 < B /\ a = B * x1 + x0
  BY Digits, Zenon
<1>2. PICK y1, y0 \in Nat : y1 = hi(b) /\ y0 = lo(b) /\ y1 < B /\ y0 < B /\ b = B * y1 + y0
  BY Digits, Zenon
<1>3. /\ x0 * y0 \in Nat /\ x0 * y0 <= M - 2 * B + 1
      /\ x1 * y0 \in Nat /\ x1 * y0 <= M - 2 * B + 1
      /\ x0 * y1 \in Nat /\ x0 * y1 <= M - 2 * B + 1
      /\ x1 * y1 \in Nat /\ x1 * y1 <= M - 2 * B + 1
  BY <1>1, <1>2, DigitProduct
<1>4. /\ mul(lo(a), lo(b)) = x0 * y0 /\ mul(hi(a), lo(b)) = x1 * y0
      /\ mul(lo(a), hi(b)) = x0 * y1 /\ mul(hi(a), hi(b)) = x1 * y1
  BY <1>1, <1>2, MulFits
<1>5. PICK th, tl \in Nat : /\ th = hi(x0 * y0) /\ tl = lo(x0 * y0)
                            /\ th < B /\ tl < B /\ x0 * y0 = B * th + tl
  <2>1. x0 * y0 < M
    BY <1>3, Base
  <2> QED  BY <1>3, <2>1, Digits, Zenon
<1>6. Middle1(a, b) = x1 * y0 + th /\ x1 * y0 + th \in Nat /\ x1 * y0 + th < M
  <2>1. x1 * y0 + th \in Nat /\ x1 * y0 + th < M
    BY <1>3, <1>5, Base
  <2>2. add(x1 * y0, th) = x1 * y0 + th
    BY <1>3, <2>1, AddFits
  <2>3. Middle1(a, b) = add(x1 * y0, th)
    BY <1>4, <1>5 DEF Middle1
  <2> QED  BY <2>1, <2>2, <2>3
<1>7. PICK ph, pl \in Nat : /\ ph = hi(Middle1(a, b)) /\ pl = lo(Middle1(a, b))
                            /\ ph < B /\ pl < B /\ x1 * y0 + th = B * ph + pl
  BY <1>6, Digits, Zenon
<1>8. Middle2(a, b) = pl + x0 * y1 /\ pl + x0 * y1 \in Nat /\ pl + x0 * y1 < M
  <2>1. pl + x0 * y1 \in Nat /\ pl + x0 * y1 < M
    BY <1>3, <1>7, Base
  <2>2. add(pl, x0 * y1) = pl + x0 * y1
    BY <1>3, <1>7, <2>1, AddFits
  <2>3. Middle2(a, b) = add(pl, x0 * y1)
    BY <1>4, <1>7 DEF Middle2
  <2> QED  BY <2>1, <2>2, <2>3
<1>9. PICK sh, sl \in Nat : /\ sh = hi(Middle2(a, b)) /\ sl = lo(Middle2(a, b))
                            /\ sh < B /\ sl < B /\ pl + x0 * y1 = B * sh + sl
  BY <1>8, Digits, Zenon
<1>10. mulhu(a, b) = x1 * y1 + ph + sh
  <2>1. /\ x1 * y1 + ph \in Nat /\ x1 * y1 + ph < M
        /\ x1 * y1 + ph + sh \in Nat /\ x1 * y1 + ph + sh < M
    BY <1>3, <1>7, <1>9, Base
  <2>2. add(x1 * y1, ph) = x1 * y1 + ph
    BY <1>3, <1>7, <2>1, AddFits
  <2>3. add(x1 * y1 + ph, sh) = x1 * y1 + ph + sh
    BY <1>9, <2>1, AddFits
  <2>4. mulhu(a, b) = add(add(x1 * y1, ph), sh)
    BY <1>4, <1>7, <1>9 DEF mulhu
  <2> QED  BY <2>2, <2>3, <2>4
<1>11. result_lo(a, b) = tl + B * sl
  <2>1. shl(Middle2(a, b)) = B * sl
    BY <1>8, <1>9, ShlDropsHigh
  <2>2. lo(mul(lo(a), lo(b))) = tl
    BY <1>4, <1>5
  <2> QED  BY <2>1, <2>2 DEF result_lo
<1>12. tl + B * sl \in Nat /\ tl + B * sl < M
  <2>1. B * sl <= B * (B - 1)
    BY <1>9, Base, Z3
  <2>2. B * (B - 1) = M - B
    BY Base, Z3
  <2>3. B * sl \in Nat
    BY Base
  <2> QED  BY <1>5, <2>1, <2>2, <2>3, Base
<1>13. a * b = M * (x1 * y1 + ph + sh) + (tl + B * sl)
  <2>1. a * b = B * B * (x1 * y1) + B * (x1 * y0) + B * (x0 * y1) + x0 * y0
    BY <1>1, <1>2, Base, Z3
  <2>2. x0 * y0 + B * (x1 * y0) = tl + B * (x1 * y0 + th)
    BY <1>3, <1>5, Base, Z3
  <2>3. B * (x1 * y0 + th) + B * (x0 * y1) = B * B * ph + B * (pl + x0 * y1)
    BY <1>3, <1>5, <1>7, Base, Z3
  <2>4. B * (pl + x0 * y1) = B * B * sh + B * sl
    BY <1>3, <1>7, <1>9, Base, Z3
  <2> QED  BY <1>3, <1>5, <1>7, <1>9, <2>1, <2>2, <2>3, <2>4, Base, Z3
<1>14. x1 * y1 + ph + sh \in Nat
  BY <1>3
<1> QED  BY <1>10, <1>11, <1>12, <1>13, <1>14, Zenon

------------------------------------------------------------------------------
(* Words. *)

\* Sums and products of registers agree with those of numbers modulo M.
LEMMA AddModulo ==
    ASSUME NEW x \in Nat, NEW y \in Nat PROVE add(x % M, y) = (x + y) % M
<1>1. PICK q, r \in Nat : q = x \div M /\ r = x % M /\ r < M /\ x = M * q + r
  BY Parts, Base, Zenon
<1>2. x + y = (r + y) + M * q
  BY <1>1, Base, Z3
<1>3. ((r + y) + M * q) % M = (r + y) % M
  <2>1. r + y \in Nat
    OBVIOUS
  <2> QED  BY <2>1, Drop, Base, Zenon
<1> QED  BY <1>1, <1>2, <1>3 DEF add, M

LEMMA AddRightModulo ==
    ASSUME NEW x \in Nat, NEW y \in Nat PROVE add(x, y % M) = (x + y) % M
<1>1. add(y % M, x) = (y + x) % M
  BY AddModulo
<1>2. y % M \in Nat
  BY Bounds, Base
<1> QED  BY <1>1, <1>2 DEF add

\* __multi3 returns the product modulo the words.
LEMMA Exact ==
    ASSUME NEW a \in Word, NEW b \in Word
    PROVE  multi3(a, b) = (a * b) % (B * B * B * B)
<1>1. PICK a1, a0 \in Nat : a1 = a \div M /\ a0 = a % M /\ a0 < M /\ a = M * a1 + a0
  <2>1. a \in Nat
    BY Base DEF Word
  <2> QED  BY <2>1, Parts, Base, Zenon
<1>2. PICK b1, b0 \in Nat : b1 = b \div M /\ b0 = b % M /\ b0 < M /\ b = M * b1 + b0
  <2>1. b \in Nat
    BY Base DEF Word
  <2> QED  BY <2>1, Parts, Base, Zenon
<1>3. PICK u, l \in Nat : /\ u = mulhu(a0, b0) /\ l = result_lo(a0, b0)
                          /\ l < M /\ a0 * b0 = M * u + l
  BY <1>1, <1>2, Halves, Zenon
<1>4. a1 * b0 \in Nat /\ a0 * b1 \in Nat /\ a1 * b1 \in Nat
  BY Z3
<1>5. mul(a1, b0) = (a1 * b0) % M /\ mul(a0, b1) = (a0 * b1) % M
  BY DEF mul, M
<1> DEFINE w == u + a1 * b0 + a0 * b1
<1>6. w \in Nat
  BY <1>4
<1>7. add(add(u, mul(a1, b0)), mul(a0, b1)) = w % M
  <2>1. add(u, mul(a1, b0)) = (u + a1 * b0) % M
    BY <1>4, <1>5, AddRightModulo
  <2>2. u + a1 * b0 \in Nat
    BY <1>4
  <2>3. mul(a0, b1) \in Nat
    BY <1>4, <1>5, Bounds, Base
  <2>4. add((u + a1 * b0) % M, mul(a0, b1)) = ((u + a1 * b0) + mul(a0, b1)) % M
    BY <2>2, <2>3, AddModulo
  <2>5. add(u + a1 * b0, (a0 * b1) % M) = (u + a1 * b0 + a0 * b1) % M
    BY <1>4, <2>2, AddRightModulo
  <2>6. add(u + a1 * b0, mul(a0, b1)) = ((u + a1 * b0) + mul(a0, b1)) % M
    BY DEF add, M
  <2> QED  BY <1>5, <2>1, <2>4, <2>5, <2>6
<1>8. multi3(a, b) = l + (w % M) * M
  <2>1. /\ a % (B * B) = a0 /\ a \div (B * B) = a1
        /\ b % (B * B) = b0 /\ b \div (B * B) = b1
    BY <1>1, <1>2 DEF M
  <2>2. multi3(a, b) =
          result_lo(a0, b0) + add(add(mulhu(a0, b0), mul(a1, b0)), mul(a0, b1)) * (B * B)
    BY <2>1, Zenon DEF multi3
  <2> QED  BY <1>3, <1>7, <2>2 DEF M
<1> HIDE DEF w
<1>9. PICK q, r \in Nat : q = w \div M /\ r = w % M /\ r < M /\ w = M * q + r
  BY <1>6, Parts, Base, Zenon
<1>10. a * b = (M * M) * (a1 * b1 + q) + (M * r + l)
  <2>1. a * b = M * M * (a1 * b1) + M * (a1 * b0) + M * (a0 * b1) + a0 * b0
    BY <1>1, <1>2, Base, Z3
  <2>2. M * w = M * u + M * (a1 * b0) + M * (a0 * b1)
    BY <1>4, Base, Z3 DEF w
  <2>3. M * w = M * M * q + M * r
    BY <1>9, Base, Z3
  <2>4. M * u + M * (a1 * b0) + M * (a0 * b1) + l = M * (a1 * b0) + M * (a0 * b1) + a0 * b0
    BY <1>3, <1>4, Base, Z3
  <2>5. M * M * (a1 * b1 + q) = M * M * (a1 * b1) + M * M * q
    BY <1>4, Base, Z3
  <2>6. /\ M * M * (a1 * b1) \in Nat /\ M * M * q \in Nat /\ M * r \in Nat /\ M * u \in Nat
        /\ M * (a1 * b0) \in Nat /\ M * (a0 * b1) \in Nat /\ a0 * b0 \in Nat
    BY <1>4, Base, Z3
  <2>7. a * b = M * M * (a1 * b1) + M * w + l
    BY <1>3, <2>1, <2>2, <2>4, <2>6
  <2>8. a * b = M * M * (a1 * b1) + M * M * q + (M * r + l)
    BY <2>3, <2>6, <2>7
  <2> QED  BY <2>5, <2>8, Zenon
<1>11. M * r + l \in Nat /\ M * r + l < M * M
  <2>1. M * r <= M * (M - 1)
    BY <1>9, Base, Z3
  <2>2. M * (M - 1) = M * M - M
    BY Base, Z3
  <2>3. M * r \in Nat /\ M * M \in Nat
    BY Base, Z3
  <2> QED  BY <1>3, <2>1, <2>2, <2>3, Base
<1>12. ((M * M) * (a1 * b1 + q) + (M * r + l)) % (M * M) = M * r + l
  <2>1. M * M \in Nat \ {0} /\ a1 * b1 + q \in Nat
    BY <1>4, Base, Z3
  <2> QED  BY <1>11, <2>1, Unique
<1>13. B * B * B * B = M * M
  BY Base, Z3 DEF M
<1>14. l + r * M = M * r + l
  BY Base, Z3
<1> QED  BY <1>8, <1>9, <1>10, <1>12, <1>13, <1>14, Zenon

\* Whatever a program multiplies, the result is the product, to any base
\* (ProductExact; multi3.ll 24-38).
THEOREM ProductsExact == CallSpec => []ProductExact
<1>1. NotCalled => ProductExact
  BY DEF NotCalled, ProductExact
<1>2. ProductExact /\ [Multiply]_<<operands, product>> => ProductExact'
  BY Exact DEF Multiply, ProductExact
<1> QED  BY <1>1, <1>2, PTL DEF CallSpec
==============================================================================
