-------------------------------- MODULE Dots --------------------------------
(***************************************************************************)
(* The row dot products: one row of weights times one quantised activation *)
(* row, as the scalar kernels compute it (dot.rs, kdot.rs), as the vector  *)
(* kernels do (avx2.rs), and blocked over a tile of activation rows.       *)
(*                                                                         *)
(* A result is kept as the exact integers the kernels form in each block,  *)
(* one entry [lanes, factors, mins] per block: the integer sum of every    *)
(* f32 lane, the integer part of the factor it is multiplied by, and the   *)
(* sums the mins are multiplied into. The f32 expression that follows is   *)
(* the same in every path as soon as these are; the order in which its     *)
(* lanes are added is the last section's subject.                          *)
(***************************************************************************)
EXTENDS Quants

Entry(lanes, factors, mins) == [lanes |-> lanes, factors |-> factors, mins |-> mins]

Ones == [i \in 0..7 |-> 1]
NoMins == [i \in {0} |-> 0]

-----------------------------------------------------------------------------
(* Codes of sub-block s (32 elements) of a super-block, as unsigned bytes. *)

QwQ4_K(b, s, j) == LET q == b[16 + 32 * (s \div 2) + j] IN IF s % 2 = 0 THEN Low(q) ELSE High(q)

QwQ5_K(b, s, j) ==
  LET q == b[48 + 32 * (s \div 2) + j]
  IN (IF s % 2 = 0 THEN Low(q) ELSE High(q)) + IF Bit(b[16 + j], s) # 0 THEN 16 ELSE 0

QwQ45_K(t, b, s, j) == IF t = "Q4_K" THEN QwQ4_K(b, s, j) ELSE QwQ5_K(b, s, j)

QwQ6_K(b, s, l) ==
  LET half == s \div 4  k == s % 4
      ql == 64 * half + l
      lo == CASE k = 0 -> Low(b[ql]) [] k = 1 -> Low(b[ql + 32])
              [] k = 2 -> High(b[ql]) [] k = 3 -> High(b[ql + 32])
  IN lo + 16 * ((b[128 + 32 * half + l] \div 2^(2*k)) % 4)

\* int8 scale of 16-group g
ScaleQ6(b, g) == Int8(b[192 + g])

-----------------------------------------------------------------------------
(* Scalar kernels, Q8_0-grain activations: one factor per sub-block.       *)

DotQ8_0(b, x, blk) ==
  Entry([i \in {0} |-> SumTo(32, LAMBDA j : Int8(b[2+j]) * x.qs[blk][j])], [i \in {0} |-> 1], NoMins)

DotQ4_0(b, x, blk) ==
  LET term(j) == (Low(b[2+j]) - 8) * x.qs[blk][j] + (High(b[2+j]) - 8) * x.qs[blk][j+16]
  IN Entry([i \in {0} |-> SumTo(16, term)], [i \in {0} |-> 1], NoMins)

\* lane 8s + i: elements 4i .. 4i+3 of sub-block s
DotQ45_KQ8(t, b, x, sb) ==
  Entry([p \in 0..63 |-> LET s == p \div 8  i == p % 8
                         IN SumTo(4, LAMBDA k : QwQ45_K(t, b, s, 4*i + k) * x.qs[8*sb + s][4*i + k])],
        [p \in 0..63 |-> ScaleMinK4(p \div 8, b)[1]],
        [s \in 0..7 |-> ScaleMinK4(s, b)[2] * x.dxs[8*sb + s]])

DotQ6_KQ8(b, x, sb) ==
  Entry([p \in 0..63 |-> LET s == p \div 8  i == p % 8
                         IN SumTo(4, LAMBDA k : QwQ6_K(b, s, 4*i + k) * x.qs[8*sb + s][4*i + k])
                            - (IF i \in {0, 4} THEN x.off6[8*sb + s][i] ELSE 0)],
        [p \in 0..63 |-> LET s == p \div 8 IN ScaleQ6(b, IF p % 8 < 4 THEN 2*s ELSE 2*s + 1)],
        NoMins)

DotQ8Scalar(t, b, x, blk) ==
  CASE t = "Q8_0" -> DotQ8_0(b, x, blk)
    [] t = "Q4_0" -> DotQ4_0(b, x, blk)
    [] t \in {"Q4_K", "Q5_K"} -> DotQ45_KQ8(t, b, x, blk)
    [] t = "Q6_K" -> DotQ6_KQ8(b, x, blk)

-----------------------------------------------------------------------------
(* Scalar kernels, Q8_K activations: the sub-block scale in the integer    *)
(* sums, the mins and the -32 of Q6_K through the sums of the activation.  *)

DotQ45_KQ8K(t, b, x, sb) ==
  LET sc(s) == ScaleMinK4(s, b)[1]
      mn(s) == ScaleMinK4(s, b)[2]
      q8s(s) == x.q8s[8*sb + s]
  IN Entry([i \in 0..7 |-> SumTo(8, LAMBDA s : sc(s) * SumTo(4, LAMBDA k :
                                  QwQ45_K(t, b, s, 4*i + k) * x.qs[8*sb + s][4*i + k]))],
           Ones,
           [i \in 0..3 |-> mn(2*i) * q8s(2*i) + mn(2*i + 1) * q8s(2*i + 1)])

DotQ6_KQ8K(b, x, sb) ==
  LET bs(g) == x.bsums[16*sb + g]
      main(i) == SumTo(8, LAMBDA s : ScaleQ6(b, 2*s + i \div 4) * SumTo(4, LAMBDA k :
                          QwQ6_K(b, s, 4*i + k) * x.qs[8*sb + s][4*i + k]))
  IN Entry([i \in 0..7 |-> main(i) - 32 * (bs(2*i) * ScaleQ6(b, 2*i) + bs(2*i + 1) * ScaleQ6(b, 2*i + 1))],
           Ones, NoMins)

DotQ8KScalar(t, b, x, sb) ==
  CASE t \in {"Q4_K", "Q5_K"} -> DotQ45_KQ8K(t, b, x, sb)
    [] t = "Q6_K" -> DotQ6_KQ8K(b, x, sb)

-----------------------------------------------------------------------------
(* Vector instructions. Shifts are on 16-bit lanes, so that bits cross the *)
(* bytes of a pair; a mask names the first bit it keeps and how many.      *)

LoadBytes(b, from) == [j \in 0..31 |-> b[from + j]]

Srli16(v, n) == [j \in DOMAIN v |-> v[j] \div 2^n + (IF j % 2 = 0 THEN (v[j+1] * 2^(8-n)) % 256 ELSE 0)]

Slli16(v, n) == [j \in DOMAIN v |-> ((v[j] * 2^n) % 256) + (IF j % 2 = 1 THEN v[j-1] \div 2^(8-n) ELSE 0)]

Masked(v, bit, n) == [j \in DOMAIN v |-> ((v[j] \div 2^bit) % 2^n) * 2^bit]

AddBytes(u, v) == [j \in DOMAIN u |-> (u[j] + v[j]) % 256]

Sat16(x) == IF x > 32767 THEN 32767 ELSE IF x < -32768 THEN -32768 ELSE x

\* unsigned times signed bytes, pairs added with saturation
MaddUbs(u, x) == [k \in 0..15 |-> Sat16(u[2*k] * x[2*k] + u[2*k + 1] * x[2*k + 1])]

Madd(a, b) == [i \in 0..7 |-> a[2*i] * b[2*i] + a[2*i + 1] * b[2*i + 1]]

\* Exact 8 lanes of four unsigned codes each.
LanesU8(c, x) == Madd([k \in 0..15 |-> 1], MaddUbs(c, x))

\* Signed weights: |w| times x with the sign of w.
Dot32I8(w, x) == LanesU8([j \in 0..31 |-> Abs(w[j])], [j \in 0..31 |-> x[j] * Sign(w[j])])

-----------------------------------------------------------------------------
(* Unpacking in vectors.                                                   *)

\* The 16 lanes sc[0..8], m[0..8] of a Q4_K / Q5_K block, from the 16 bytes at b[4].
ScalesMinsK4(b) ==
  LET v == [j \in 0..15 |-> b[4 + j]]
      lo == Masked(v, 0, 6)
      top == Slli16(Masked(Srli16(v, 6), 0, 2), 4)
      c == [j \in 0..15 |-> IF j < 8 THEN v[8 + (j % 4)] ELSE 0]
      cl == Masked(c, 0, 4)
      ch == Masked(Srli16(c, 4), 0, 4)
      hi == [j \in 0..15 |-> (IF j \div 2 \in {2, 3} THEN ch[j] ELSE cl[j]) + top[j]]
  IN [k \in 0..15 |-> LET word == 4 * (k \div 8) + (k % 4)
                      IN IF (k \div 4) % 2 = 0 THEN lo[word] ELSE hi[word]]

CodesQ4(b, s) ==
  LET q == LoadBytes(b, 16 + 32 * (s \div 2))
  IN Masked(IF s % 2 = 0 THEN q ELSE Srli16(q, 4), 0, 4)

\* Mutant of CodesQ5: the plane shifted without keeping its lowest bits only: the others spill.
CodesQ5Spilled(b, s, h) ==
  LET q == LoadBytes(b, 48 + 32 * (s \div 2))
  IN AddBytes(Masked(IF s % 2 = 0 THEN q ELSE Srli16(q, 4), 0, 4), Slli16(h, 4))

\* h: the plane of fifth bits, shifted so that bit 0 of a byte is the sub-block's
CodesQ5(b, s, h) ==
  LET q == LoadBytes(b, 48 + 32 * (s \div 2))
  IN AddBytes(Masked(IF s % 2 = 0 THEN q ELSE Srli16(q, 4), 0, 4), Slli16(Masked(h, 0, 1), 4))

\* by the shift itself (Q8_0 grain), or one bit further with every sub-block (Q8_K)
PlaneShifted(b, s) == Srli16(LoadBytes(b, 16), s)

PlaneSerial(b, s) ==
  LET hb[n \in 0..s] == IF n = 0 THEN LoadBytes(b, 16) ELSE Srli16(hb[n-1], 1)
  IN hb[s]

\* the four code vectors of a half: low nibbles, and bit pairs moved to bits 4 and 5
CodesQ6(b, s) ==
  LET half == s \div 4  k == s % 4
      ql == LoadBytes(b, 64 * half + 32 * (k % 2))
      qh == LoadBytes(b, 128 + 32 * half)
      pair == CASE k = 0 -> Slli16(qh, 4) [] k = 1 -> Slli16(qh, 2)
                [] k = 2 -> qh            [] k = 3 -> Srli16(qh, 2)
  IN AddBytes(Masked(IF k < 2 THEN ql ELSE Srli16(ql, 4), 0, 4), Masked(pair, 4, 2))

\* one scale in all 16 lanes (the table's bytes 2s, 2s+1 repeated)
ScaleShuf(sm, s) == [k \in 0..15 |-> sm[s]]

\* two group scales, eight lanes each
Q6ScalePair(b, s) == [k \in 0..15 |-> Int8(b[192 + (IF k < 8 THEN 2*s ELSE 2*s + 1)])]

-----------------------------------------------------------------------------
(* Vector kernels.                                                         *)

\* the eight lanes added by halves
HSum(v) == LET h(i) == v[i] + v[i + 4] IN (h(0) + h(2)) + (h(1) + h(3))

DotQ8_0V(b, x, blk) ==
  Entry([i \in {0} |-> HSum(Dot32I8([j \in 0..31 |-> Int8(b[2+j])], x.qs[blk]))], [i \in {0} |-> 1], NoMins)

DotQ4_0V(b, x, blk) ==
  LET q == [j \in 0..15 |-> b[2+j]]
      lo == Masked(q, 0, 4)  hi == Masked(Srli16(q, 4), 0, 4)
  IN Entry([i \in {0} |-> HSum(Dot32I8([j \in 0..31 |-> (IF j < 16 THEN lo[j] ELSE hi[j - 16]) - 8], x.qs[blk]))],
           [i \in {0} |-> 1], NoMins)

\* factors and min terms of a super-block, from its unpacked scales
K45Header(b, x, sb) ==
  LET sm == ScalesMinsK4(b)
  IN [factors |-> [p \in 0..63 |-> sm[p \div 8]],
      mins    |-> [s \in 0..7 |-> sm[8 + s] * x.dxs[8*sb + s]]]

DotQ4_KQ8V(b, x, sb) ==
  LET h == K45Header(b, x, sb)
  IN Entry([p \in 0..63 |-> LanesU8(CodesQ4(b, p \div 8), x.qs[8*sb + p \div 8])[p % 8]], h.factors, h.mins)

DotQ5_KQ8V(b, x, sb) ==
  LET h == K45Header(b, x, sb)
      codes(s) == CodesQ5(b, s, PlaneShifted(b, s))
  IN Entry([p \in 0..63 |-> LanesU8(codes(p \div 8), x.qs[8*sb + p \div 8])[p % 8]], h.factors, h.mins)

\* the scales with the even groups first, then the odd ones
Q6Factors(b) ==
  LET sc2 == [i \in 0..15 |-> Int8(b[192 + (IF i < 8 THEN 2*i ELSE 2*(i - 8) + 1)])]
  IN [p \in 0..63 |-> sc2[IF p % 8 < 4 THEN p \div 8 ELSE 8 + p \div 8]]

DotQ6_KQ8V(b, x, sb) ==
  Entry([p \in 0..63 |-> LET s == p \div 8
                         IN LanesU8(CodesQ6(b, s), x.qs[8*sb + s])[p % 8] - x.off6[8*sb + s][p % 8]],
        Q6Factors(b), NoMins)

DotQ8Vector(t, b, x, blk) ==
  CASE t = "Q8_0" -> DotQ8_0V(b, x, blk)
    [] t = "Q4_0" -> DotQ4_0V(b, x, blk)
    [] t = "Q4_K" -> DotQ4_KQ8V(b, x, blk)
    [] t = "Q5_K" -> DotQ5_KQ8V(b, x, blk)
    [] t = "Q6_K" -> DotQ6_KQ8V(b, x, blk)

\* the eight lanes of the products with the scales, over the eight sub-blocks
ScaledLanes(x, sb, scales, codes) ==
  LET term == [s \in 0..7 |-> Madd(scales[s], MaddUbs(codes[s], x.qs[8*sb + s]))]
  IN [i \in 0..7 |-> SumTo(8, LAMBDA s : term[s][i])]

\* four lanes, from the mins and the sub-block sums
MinsTerm(sm, x, sb) ==
  [i \in 0..3 |-> sm[8 + 2*i] * x.q8s[8*sb + 2*i] + sm[9 + 2*i] * x.q8s[8*sb + 2*i + 1]]

DotQ4_KQ8KV(b, x, sb) ==
  LET sm == ScalesMinsK4(b)
      scales == [s \in 0..7 |-> ScaleShuf(sm, s)]
      codes == [s \in 0..7 |-> CodesQ4(b, s)]
  IN Entry(ScaledLanes(x, sb, scales, codes), Ones, MinsTerm(sm, x, sb))

DotQ5_KQ8KV(b, x, sb) ==
  LET sm == ScalesMinsK4(b)
      scales == [s \in 0..7 |-> ScaleShuf(sm, s)]
      codes == [s \in 0..7 |-> CodesQ5(b, s, PlaneSerial(b, s))]
  IN Entry(ScaledLanes(x, sb, scales, codes), Ones, MinsTerm(sm, x, sb))

\* 32 times the products of the group sums with the scales
Q6Offset(b, x, sb) ==
  LET fold == Madd([g \in 0..15 |-> x.bsums[16*sb + g]], [g \in 0..15 |-> Int8(b[192 + g])])
  IN [i \in 0..7 |-> fold[i] * 2^5]

DotQ6_KQ8KV(b, x, sb) ==
  LET scales == [s \in 0..7 |-> Q6ScalePair(b, s)]
      codes  == [s \in 0..7 |-> CodesQ6(b, s)]
      main   == ScaledLanes(x, sb, scales, codes)
      offset == Q6Offset(b, x, sb)
  IN Entry([i \in 0..7 |-> main[i] - offset[i]], Ones, NoMins)

DotQ8KVector(t, b, x, sb) ==
  CASE t = "Q4_K" -> DotQ4_KQ8KV(b, x, sb)
    [] t = "Q5_K" -> DotQ5_KQ8KV(b, x, sb)
    [] t = "Q6_K" -> DotQ6_KQ8KV(b, x, sb)

-----------------------------------------------------------------------------
(* Blocked: one weight block against a tile of activation rows xs[0..t-1], *)
(* the codes and scales unpacked once.                                     *)

T_MAX == 16

TileQ45_K(ty, b, xs, t, sb) ==
  LET sm == [s \in 0..7 |-> ScaleMinK4(s, b)]
      codes(e) == QwQ45_K(ty, b, e \div 32, e % 32)
  IN [a \in 0..t-1 |->
       Entry([l \in 0..7 |-> SumTo(8, LAMBDA s : SumTo(4, LAMBDA k :
                 sm[s][1] * codes(32*s + 4*l + k) * xs[a].qs[8*sb + s][4*l + k]))],
             Ones,
             [l \in 0..3 |-> sm[2*l][2] * xs[a].q8s[8*sb + 2*l] + sm[2*l + 1][2] * xs[a].q8s[8*sb + 2*l + 1]])]

\* element e belongs to group e div 16 and to lane (e % 32) div 4
TileQ6_K(b, xs, t, sb) ==
  LET sc(g) == Int8(b[192 + g])
      code(e) == QwQ6_K(b, e \div 32, e % 32)
      ofLane(l, n) == 32 * (n \div 4) + 4 * l + (n % 4)
  IN [a \in 0..t-1 |->
       Entry([l \in 0..7 |->
                SumTo(32, LAMBDA n : sc(ofLane(l, n) \div 16) * code(ofLane(l, n))
                                   * xs[a].qs[8*sb + ofLane(l, n) \div 32][ofLane(l, n) % 32])
                - 32 * (xs[a].bsums[16*sb + 2*l] * sc(2*l) + xs[a].bsums[16*sb + 2*l + 1] * sc(2*l + 1))],
             Ones, NoMins)]

DotTileScalar(ty, b, xs, t, sb) ==
  CASE ty \in {"Q4_K", "Q5_K"} -> TileQ45_K(ty, b, xs, t, sb)
    [] ty = "Q6_K" -> TileQ6_K(b, xs, t, sb)

\* what a group adds for one of its activations
K45Group(sm, codes, x, sb) ==
  Entry(ScaledLanes(x, sb, [s \in 0..7 |-> ScaleShuf(sm, s)], codes), Ones, MinsTerm(sm, x, sb))

Q6Group(b, codes, x, sb) ==
  LET main   == ScaledLanes(x, sb, [s \in 0..7 |-> Q6ScalePair(b, s)], codes)
      offset == Q6Offset(b, x, sb)
  IN Entry([i \in 0..7 |-> main[i] - offset[i]], Ones, NoMins)

\* groups <<first, size>> of 8, then at most one each of 4, 2 and 1
Groups(t) ==
  LET i8 == t - (t % 8)
      i4 == IF i8 + 4 <= t THEN i8 + 4 ELSE i8
      i2 == IF i4 + 2 <= t THEN i4 + 2 ELSE i4
  IN {<<8*g, 8>> : g \in 0..(t \div 8)-1}
     \cup (IF i4 > i8 THEN {<<i8, 4>>} ELSE {})
     \cup (IF i2 > i4 THEN {<<i4, 2>>} ELSE {})
     \cup (IF i2 < t THEN {<<i2, 1>>} ELSE {})

\* Accumulator a gets what its activation adds once for every group that has it.
Accumulated(t, added) ==
  [a \in 0..t-1 |->
     LET times == Cardinality({g \in Groups(t) : a \in g[1]..g[1]+g[2]-1})
     IN [added[a] EXCEPT !.lanes = [i \in DOMAIN @ |-> times * @[i]],
                           !.mins  = [i \in DOMAIN @ |-> times * @[i]]]]

TileQ4_KV(b, xs, t, sb) ==
  LET sm == ScalesMinsK4(b)
      codes == [s \in 0..7 |-> CodesQ4(b, s)]
  IN Accumulated(t, [a \in 0..t-1 |-> K45Group(sm, codes, xs[a], sb)])

TileQ5_KV(b, xs, t, sb) ==
  LET sm == ScalesMinsK4(b)
      codes == [s \in 0..7 |-> CodesQ5(b, s, PlaneSerial(b, s))]
  IN Accumulated(t, [a \in 0..t-1 |-> K45Group(sm, codes, xs[a], sb)])

TileQ6_KV(b, xs, t, sb) ==
  LET codes == [s \in 0..7 |-> CodesQ6(b, s)]
  IN Accumulated(t, [a \in 0..t-1 |-> Q6Group(b, codes, xs[a], sb)])

DotTileVector(ty, b, xs, t, sb) ==
  CASE ty = "Q4_K" -> TileQ4_KV(b, xs, t, sb)
    [] ty = "Q5_K" -> TileQ5_KV(b, xs, t, sb)
    [] ty = "Q6_K" -> TileQ6_KV(b, xs, t, sb)

-----------------------------------------------------------------------------
(* The order of the f32 additions, as the term that is evaluated: prefix   *)
(* notation over the elements 1..n, 0 for an addition, -1 for the zero an  *)
(* accumulator starts from.                                                *)

Add(a, b) == <<0>> \o a \o b

Reduce8(l) == Add(Add(Add(l[0], l[4]), Add(l[2], l[6])), Add(Add(l[1], l[5]), Add(l[3], l[7])))

\* avx2: the halves added, then the upper pair onto the lower, then lane 1 onto lane 0
Reduce8V(l) ==
  LET s4 == [i \in 0..3 |-> Add(l[i], l[i + 4])]
      s2 == [i \in 0..1 |-> Add(s4[i], s4[i + 2])]
  IN Add(s2[0], s2[1])

\* eight interleaved lanes, then the tail from left to right
SumOf(n, simd) ==
  LET lane(k) == LET s[i \in 0..(n \div 8)] == IF i = 0 THEN <<-1>> ELSE Add(s[i-1], <<8*(i-1) + k + 1>>)
                 IN s[n \div 8]
      lanes == [k \in 0..7 |-> lane(k)]
      tail[i \in 0..(n % 8)] == IF i = 0 THEN (IF simd THEN Reduce8V(lanes) ELSE Reduce8(lanes))
                                ELSE Add(tail[i-1], <<n - (n % 8) + i>>)
  IN tail[n % 8]

SumScalar(n) == SumOf(n, FALSE)
SumVector(n) == SumOf(n, TRUE)
=============================================================================
