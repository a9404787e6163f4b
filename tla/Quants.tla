------------------------------- MODULE Quants -------------------------------
(***************************************************************************)
(* The quantised rows: the block layouts of the weights and what one       *)
(* element of them is worth (quant.rs), and the two quantisers of an       *)
(* activation row, scalar (q8.rs, q8k.rs) and vector (avx2.rs).            *)
(*                                                                         *)
(* Block bytes, vectors and rows are functions from 0; the codes of a row  *)
(* are kept by blocks of 32, qs[b][i]. Activations are                     *)
(* integers and the codes are computed on exact fractions: the rounding of *)
(* f32 and f16 is left out, both paths apply it to the same expressions.   *)
(* The f16 scales of a block (d, dmin) are left out in the same way.       *)
(***************************************************************************)
EXTENDS Integers, Sequences, FiniteSetsExt

KQuants == {"Q4_K", "Q5_K", "Q6_K"}

BlockBytes(t) == [Q4_0 |-> 18, Q8_0 |-> 34, Q4_K |-> 144, Q5_K |-> 176, Q6_K |-> 210, F32 |-> 4][t]
BlockLen(t)   == IF t \in KQuants THEN 256 ELSE IF t = "F32" THEN 1 ELSE 32

\* The n terms F(0) .. F(n-1) added from left to right.
SumTo(n, F(_)) == LET s[i \in 0..n] == IF i = 0 THEN 0 ELSE s[i-1] + F(i-1) IN s[n]

Low(b)    == b % 16
High(b)   == b \div 16
Bit(b, k) == (b \div 2^k) % 2
Int8(b)   == IF b < 128 THEN b ELSE b - 256
Abs(x)    == IF x < 0 THEN -x ELSE x
Sign(x)   == IF x < 0 THEN -1 ELSE IF x > 0 THEN 1 ELSE 0

-----------------------------------------------------------------------------
(* Dequantisation: element e of a block b is scale * code - min, times the *)
(* block's f16 scales.                                                     *)

\* The 6-bit scale and min of sub-block j, in the 12 bytes from b[4].
ScaleMinK4(j, b) ==
  LET q(i) == b[4+i] IN
  IF j < 4 THEN <<q(j) % 64, q(j+4) % 64>>
           ELSE <<Low(q(j+4)) + (q(j-4) \div 64) * 16, High(q(j+4)) + (q(j) \div 64) * 16>>

DequantQ4_0(b, e) == <<1, (IF e < 16 THEN Low(b[2+e]) ELSE High(b[2+e-16])) - 8, 0>>

DequantQ8_0(b, e) == <<1, Int8(b[2+e]), 0>>

\* The 32 bytes of a pair of sub-blocks hold the first in their low nibbles.
DequantQ4_K(b, e) ==
  LET pair == e \div 64  high == (e % 64) \div 32  byte == b[16 + 32*pair + (e % 32)]
      sm == ScaleMinK4(2*pair + high, b)
  IN <<sm[1], IF high = 0 THEN Low(byte) ELSE High(byte), sm[2]>>

DequantQ5_K(b, e) ==
  LET pair == e \div 64  high == (e % 64) \div 32  byte == b[48 + 32*pair + (e % 32)]
      sm == ScaleMinK4(2*pair + high, b)
      fifth == 16 * Bit(b[16 + (e % 32)], 2*pair + high)
  IN <<sm[1], (IF high = 0 THEN Low(byte) ELSE High(byte)) + fifth, sm[2]>>

\* Quarter k of a half: nibbles of ql, two bits of qh, one scale per 16 elements.
DequantQ6_K(b, e) ==
  LET half == e \div 128  k == (e % 128) \div 32  l == e % 32
      ql == b[64*half + l + 32*(k % 2)]
      qh == (b[128 + 32*half + l] \div 4^k) % 4
  IN <<Int8(b[192 + 8*half + l \div 16 + 2*k]),
       (IF k < 2 THEN Low(ql) ELSE High(ql)) + 16*qh - 32, 0>>

Dequant(t, b, e) ==
  CASE t = "Q4_0" -> DequantQ4_0(b, e)
    [] t = "Q8_0" -> DequantQ8_0(b, e)
    [] t = "Q4_K" -> DequantQ4_K(b, e)
    [] t = "Q5_K" -> DequantQ5_K(b, e)
    [] t = "Q6_K" -> DequantQ6_K(b, e)

-----------------------------------------------------------------------------
(* Rounding the fraction num / den, den > 0.                               *)

RoundHalfAway(num, den) == Sign(num) * ((2*Abs(num) + den) \div (2*den))

RoundTiesEven(num, den) ==
  LET f == num \div den  r == 2 * (num - f*den)
  IN IF r < den \/ (r = den /\ f % 2 = 0) THEN f ELSE f + 1

\* avx2: round to nearest even, a tie replaced by the truncation plus the sign.
RoundHalfAwayV(num, den) ==
  LET trunc == Sign(num) * (Abs(num) \div den)
  IN IF 2 * Abs(num - trunc*den) = den THEN trunc + Sign(num) ELSE RoundTiesEven(num, den)

-----------------------------------------------------------------------------
(* Q8_0 rows: blocks of 32, scale amax / 127.                              *)

AMax(x, from, n) == Max({Abs(x[i]) : i \in from..from+n-1})

QuantizeQ8Scalar(x, n) ==
  [b \in 0..(n \div 32)-1 |->
     LET amax == AMax(x, 32*b, 32)
     IN [i \in 0..31 |-> IF amax = 0 THEN 0 ELSE RoundHalfAway(127 * x[32*b + i], amax)]]

\* Interleaving of two vectors by a pack instruction (two 128-bit halves, n lanes each), with its saturation.
Packs(a, b, n, lo, hi) ==
  [m \in 0..2*n-1 |-> LET half == m \div n  k == m % n
                          v == IF k < n \div 2 THEN a[half * (n \div 2) + k]
                                               ELSE b[half * (n \div 2) + k - n \div 2]
                      IN IF v > hi THEN hi ELSE IF v < lo THEN lo ELSE v]

Perm == <<0, 4, 1, 5, 2, 6, 3, 7>>

\* Four vectors of eight i32 codes, packed to 32 bytes and put back in order.
PackCodes(q) ==
  LET v(from) == [i \in 0..7 |-> q[from + i]]
      i0 == Packs(v(0), v(8), 8, -32768, 32767)
      i2 == Packs(v(16), v(24), 8, -32768, 32767)
      packed == Packs(i0, i2, 16, -128, 127)
  IN [k \in 0..31 |-> packed[4 * Perm[k \div 4 + 1] + (k % 4)]]

QuantizeQ8Vector(x, n) ==
  [b \in 0..(n \div 32)-1 |->
     LET amax == AMax(x, 32*b, 32)
         q == [i \in 0..31 |-> IF amax = 0 THEN 0
                                ELSE Min({127, Max({-128, RoundHalfAwayV(127 * x[32*b + i], amax)})})]
     IN PackCodes(q)]

HalfSum(qs, b, h) == SumTo(16, LAMBDA i : qs[b][16*h + i])

\* Mutant of Off6: the sum of the whole block in the first lane.
Off6OneLane(qs, b) ==
  [i \in 0..7 |-> IF i = 0 THEN 32 * (HalfSum(qs, b, 0) + HalfSum(qs, b, 1)) ELSE 0]

\* The eight lanes of the Q6_K offset: a half block's sum in the first lane of the half.
Off6(qs, b) == [i \in 0..7 |-> IF i % 4 = 0 THEN 32 * HalfSum(qs, b, i \div 4) ELSE 0]

\* Derived per block: the sum of the codes (dxs) and the Q6_K offset (off6).
DeriveQ8(qs, n) ==
  [n    |-> n,
   qs   |-> qs,
   dxs  |-> [b \in DOMAIN qs |-> HalfSum(qs, b, 0) + HalfSum(qs, b, 1)],
   off6 |-> [b \in DOMAIN qs |-> Off6(qs, b)]]

QuantizeQ8(x, n, simd) ==
  DeriveQ8(IF simd THEN QuantizeQ8Vector(x, n) ELSE QuantizeQ8Scalar(x, n), n)

-----------------------------------------------------------------------------
(* Q8_K rows: blocks of 256, scale -127 / the first element that is        *)
(* greatest in absolute value.                                             *)

\* left to right, replaced by a strictly greater one: the first of the greatest
MaxScalar(x, from) ==
  LET amax == AMax(x, from, 256)
  IN IF amax = 0 THEN 0 ELSE x[Min({i \in from..from+255 : Abs(x[i]) = amax})]

\* the first vector of eight with a lane equal to amax, its lowest such lane
MaxVector(x, from) ==
  LET amax == AMax(x, from, 256)
      group == Min({g \in 0..31 : \E l \in 0..7 : Abs(x[from + 8*g + l]) = amax})
      lane == Min({l \in 0..7 : Abs(x[from + 8*group + l]) = amax})
  IN IF amax = 0 THEN 0 ELSE x[from + 8*group + lane]

CodeQ8K(v, max) == IF max = 0 THEN 0 ELSE Min({127, RoundTiesEven(-127 * v * Sign(max), Abs(max))})

QuantizeQ8KScalar(x, n) ==
  [b \in 0..(n \div 32)-1 |->
     LET max == MaxScalar(x, 256 * (b \div 8))
     IN [i \in 0..31 |-> CodeQ8K(x[32*b + i], max)]]

QuantizeQ8KVector(x, n) ==
  [b \in 0..(n \div 32)-1 |->
     LET max == MaxVector(x, 256 * (b \div 8))
     IN PackCodes([i \in 0..31 |-> CodeQ8K(x[32*b + i], max)])]

\* bsums: 16 per block of 256, of 16 codes each; q8s: their pairs.
SumsQ8K(qs, n) ==
  LET group(g) == SumTo(16, LAMBDA i : qs[g \div 2][16 * (g % 2) + i])
  IN [n     |-> n,
      qs    |-> qs,
      bsums |-> [g \in 0..(n \div 16)-1 |-> group(g)],
      q8s   |-> [s \in 0..(n \div 32)-1 |-> group(2*s) + group(2*s + 1)]]

QuantizeQ8K(x, n, simd) ==
  SumsQ8K(IF simd THEN QuantizeQ8KVector(x, n) ELSE QuantizeQ8KScalar(x, n), n)
=============================================================================
