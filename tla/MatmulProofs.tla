---------------------------- MODULE MatmulProofs ----------------------------
(***************************************************************************)
(* Proofs about Matmul for every job its assumption admits, every number   *)
(* of workers, every block and tile: the participants of a job write       *)
(* disjoint cells of the shared buffers, inside them, and all the cells of *)
(* the results.                                                            *)
(*                                                                         *)
(* Every cell belongs to one row of the product or one head of the layer,  *)
(* its Unit, which its index in the buffer determines. RowRange splits the *)
(* units: no unit is in two ranges and none is left out. The items of a    *)
(* share write cells of the participant's own units (ProductCells,         *)
(* LoopCells), and together all of them (ProductComplete, LoopComplete),   *)
(* whether a product goes row by row, activation by activation or in       *)
(* blocks and tiles. IInv carries these through the run.                   *)
(***************************************************************************)
EXTENDS Matmul, DataLemmas, FiniteSetTheorems, TLAPS

-----------------------------------------------------------------------------
\* The first, the last and the number of a range that is not empty.
LEMMA RangeFacts ==
  ASSUME NEW a \in Int, NEW b \in Int, a <= b
  PROVE  Min(a .. b) = a /\ Max(a .. b) = b /\ Cardinality(a .. b) = b - a + 1
<1>1. Min(a .. b) \in a .. b /\ \A x \in a .. b : Min(a .. b) <= x
  <2>1. a \in a .. b /\ \A z \in a .. b : a <= z
    OBVIOUS
  <2>2. QED
    BY <2>1 DEF Min
<1>2. Max(a .. b) \in a .. b /\ \A x \in a .. b : Max(a .. b) >= x
  <2>1. b \in a .. b /\ \A z \in a .. b : b >= z
    OBVIOUS
  <2>2. QED
    BY <2>1 DEF Max
<1>3. Cardinality(a .. b) = b - a + 1
  BY FS_Interval
<1>4. QED
  BY <1>1, <1>2, <1>3

-----------------------------------------------------------------------------
(* The split over the participants.                                        *)

LEMMA CeilDivFacts ==
  ASSUME NEW a \in Nat, NEW b \in Nat \ {0}
  PROVE  /\ CeilDiv(a, b) \in Nat /\ CeilDiv(a, b) * b >= a /\ (a > 0 => CeilDiv(a, b) > 0)
         /\ \A c \in Nat : c < CeilDiv(a, b) => c * b < a
<1> DEFINE m == a + b - 1
           q == m \div b
<1>1. m \in Nat
  OBVIOUS
<1>2. m = q * b + (m % b) /\ q \in Nat /\ (m % b) \in 0 .. b - 1
  <2> HIDE DEF m
  <2>1. QED
    BY <1>1, SMT
<1>3. CeilDiv(a, b) = q
  BY DEF CeilDiv
<1> HIDE DEF q
<1>4. q * b >= a
  BY <1>2
<1>5. a > 0 => q # 0
  BY <1>4
<1>6. \A c \in Nat : c < q => c * b < a
  <2> SUFFICES ASSUME NEW c \in Nat, c < q PROVE c * b < a
    OBVIOUS
  <2>1. (c + 1) * b <= q * b
    BY <1>2
  <2>2. c * b + b = (c + 1) * b
    OBVIOUS
  <2>3. q * b <= m
    BY <1>2
  <2>4. c * b \in Nat /\ q * b \in Nat
    BY <1>2
  <2>5. QED
    BY <2>1, <2>2, <2>3, <2>4
<1>7. QED
  BY <1>2, <1>3, <1>4, <1>5, <1>6

\* The bounds of a participant's share.
LEMMA RowRangeBounds ==
  ASSUME NEW rows \in Nat, NEW n \in Nat \ {0}, NEW tid \in Nat
  PROVE  \E a, b \in 0 .. rows :
           /\ RowRange(rows, tid, n) = a .. b - 1
           /\ \A r \in 0 .. rows - 1 :
                r \in a .. b - 1 <=> tid * CeilDiv(rows, n) <= r /\ r < (tid + 1) * CeilDiv(rows, n)
<1> DEFINE chunk == CeilDiv(rows, n)
           a == Min({tid * chunk, rows})
           b == Min({(tid + 1) * chunk, rows})
<1>1. chunk \in Nat
  BY CeilDivFacts
<1>2. RowRange(rows, tid, n) = a .. b - 1
  BY DEF RowRange
<1>3. tid * chunk \in Nat /\ (tid + 1) * chunk \in Nat
  BY <1>1
<1>4. a = IF tid * chunk <= rows THEN tid * chunk ELSE rows
  BY <1>3, MinOfTwo
<1>5. b = IF (tid + 1) * chunk <= rows THEN (tid + 1) * chunk ELSE rows
  BY <1>3, MinOfTwo
<1> HIDE DEF a, b
<1>6. a \in 0 .. rows /\ b \in 0 .. rows
  BY <1>3, <1>4, <1>5
<1>7. \A r \in 0 .. rows - 1 : r \in a .. b - 1 <=> tid * chunk <= r /\ r < (tid + 1) * chunk
  <2> DEFINE u == tid * chunk
             v == (tid + 1) * chunk
  <2>1. u \in Nat /\ v \in Nat
    BY <1>3
  <2>2. a = (IF u <= rows THEN u ELSE rows) /\ b = (IF v <= rows THEN v ELSE rows)
    BY <1>4, <1>5
  <2> HIDE DEF u, v
  <2>3. \A r \in 0 .. rows - 1 : r \in a .. b - 1 <=> u <= r /\ r < v
    BY <2>1, <2>2
  <2>4. QED
    BY <2>3 DEF u, v
<1>8. QED
  BY <1>2, <1>6, <1>7 DEF chunk

LEMMA RowRangeIsRange ==
  \A rows \in Nat, n \in Nat \ {0}, tid \in Nat :
    \E a \in 0 .. rows, b \in 0 .. rows : RowRange(rows, tid, n) = a .. b - 1
<1> SUFFICES ASSUME NEW rows \in Nat, NEW n \in Nat \ {0}, NEW tid \in Nat
             PROVE  \E a \in 0 .. rows, b \in 0 .. rows : RowRange(rows, tid, n) = a .. b - 1
  OBVIOUS
<1>1. PICK a \in 0 .. rows, b \in 0 .. rows :
        /\ RowRange(rows, tid, n) = a .. b - 1
        /\ \A r \in 0 .. rows - 1 :
             r \in a .. b - 1 <=> tid * CeilDiv(rows, n) <= r /\ r < (tid + 1) * CeilDiv(rows, n)
  BY RowRangeBounds
<1>2. QED
  BY <1>1

\* No row is in two shares.
LEMMA RowRangesDisjoint ==
  ASSUME NEW rows \in Nat, NEW n \in Nat \ {0}, NEW s \in Nat, NEW t \in Nat,
         NEW r \in RowRange(rows, s, n), r \in RowRange(rows, t, n)
  PROVE  s = t
<1> DEFINE chunk == CeilDiv(rows, n)
<1>1. chunk \in Nat
  BY CeilDivFacts
<1>2. r \in 0 .. rows - 1 /\ s * chunk <= r /\ r < (s + 1) * chunk
  <2>1. PICK a \in 0 .. rows, b \in 0 .. rows :
          /\ RowRange(rows, s, n) = a .. b - 1
          /\ \A x \in 0 .. rows - 1 : x \in a .. b - 1 <=> s * chunk <= x /\ x < (s + 1) * chunk
    BY RowRangeBounds
  <2>2. r \in a .. b - 1 /\ r \in 0 .. rows - 1
    BY <2>1
  <2>3. QED
    BY <2>1, <2>2
<1>3. t * chunk <= r /\ r < (t + 1) * chunk
  <2>1. PICK a \in 0 .. rows, b \in 0 .. rows :
          /\ RowRange(rows, t, n) = a .. b - 1
          /\ \A x \in 0 .. rows - 1 : x \in a .. b - 1 <=> t * chunk <= x /\ x < (t + 1) * chunk
    BY RowRangeBounds
  <2>2. r \in a .. b - 1 /\ r \in 0 .. rows - 1
    BY <2>1
  <2>3. QED
    BY <2>1, <2>2
<1> HIDE DEF chunk
<1>4. s * chunk < (t + 1) * chunk /\ t * chunk < (s + 1) * chunk
  BY <1>1, <1>2, <1>3
<1>5. ~(s + 1 <= t) /\ ~(t + 1 <= s)
  BY <1>1, <1>4
<1>6. QED
  BY <1>5

\* Every row is in one.
LEMMA RowRangesCover ==
  ASSUME NEW rows \in Nat, NEW n \in Nat \ {0}, NEW r \in 0 .. rows - 1
  PROVE  \E t \in 0 .. n - 1 : r \in RowRange(rows, t, n)
<1> DEFINE chunk == CeilDiv(rows, n)
<1>1. chunk \in Nat \ {0} /\ chunk * n >= rows
  BY CeilDivFacts
<1>a. r \in Nat
  OBVIOUS
<1>2. PICK q \in Nat, x \in 0 .. chunk - 1 : r = q * chunk + x
  <2> HIDE DEF chunk
  <2>1. QED
    BY <1>1, <1>a, DivMod
<1> HIDE DEF chunk
<1>3. q * chunk <= r /\ r < (q + 1) * chunk
  BY <1>1, <1>2
<1>4. q \in 0 .. n - 1
  <2>1. q * chunk < n * chunk
    BY <1>1, <1>3
  <2>2. ~(n <= q)
    BY <1>1, <2>1
  <2>3. QED
    BY <2>2
<1>5. PICK a \in 0 .. rows, b \in 0 .. rows :
        /\ RowRange(rows, q, n) = a .. b - 1
        /\ \A y1 \in 0 .. rows - 1 : y1 \in a .. b - 1 <=> q * chunk <= y1 /\ y1 < (q + 1) * chunk
  BY RowRangeBounds DEF chunk
<1>6. r \in RowRange(rows, q, n)
  BY <1>3, <1>5
<1>7. QED
  BY <1>4, <1>6

-----------------------------------------------------------------------------
(* The items of a share.                                                   *)

IsProductJob == job.kind \in Products /\ IsProduct(job)
IsLoopJob    == job.kind \notin Products /\ IsLoop(job)

\* What an item of a product may be, for the rows rs.
Items(rs) == {it \in [m : 1 .. Len(job.ws), r : rs, t0 : Nat, tn : Nat] : it.t0 + it.tn <= job.n}

\* Every result of the rows rs of matrix m is computed by some item of s.
Covers(s, m, rs) ==
  \A r \in rs, t \in 0 .. job.n - 1 :
    \E i \in 1 .. Len(s) : s[i].m = m /\ s[i].r = r /\ t \in s[i].t0 .. s[i].t0 + s[i].tn - 1

LEMMA ProductFacts ==
  ASSUME IsProductJob
  PROVE  /\ job.n \in Nat /\ job.cols \in Nat /\ job.tile \in Nat /\ job.threads \in Nat /\ job.pinned \in Nat
         /\ Rows \in Nat /\ Len(job.ws) \in {1, 2} /\ (job.kind # "matmul" => job.n = 1)
         /\ (Len(job.ws) = 2 <=> job.kind = "matvec2")
         /\ RowBlock \in Nat \ {0} /\ TileBytes \in Nat \ {0} /\ Workers \in Nat
  BY MatmulAssumption DEF IsProductJob, IsProduct, Rows

LEMMA ItemFacts ==
  ASSUME NEW m, NEW r, NEW t0, NEW tn
  PROVE  /\ Item(m, r, t0, tn).m = m /\ Item(m, r, t0, tn).r = r
         /\ Item(m, r, t0, tn).t0 = t0 /\ Item(m, r, t0, tn).tn = tn
         /\ Item(m, r, t0, tn) = [m |-> m, r |-> r, t0 |-> t0, tn |-> tn]
  BY DEF Item

LEMMA ItemIn ==
  ASSUME NEW rs, NEW m \in 1 .. Len(job.ws), NEW r \in rs, NEW t0 \in Nat, NEW tn \in Nat, t0 + tn <= job.n
  PROVE  Item(m, r, t0, tn) \in Items(rs)
  BY DEF Item, Items

\* A function over 1 .. n is a sequence of length n.
LEMMA FunctionIsSeq ==
  ASSUME NEW S, NEW n \in Nat, NEW f \in [1 .. n -> S]
  PROVE  f \in Seq(S) /\ Len(f) = n /\ \A i \in 1 .. n : f[i] \in S
  OBVIOUS

LEMMA RowItemsFacts ==
  ASSUME IsProductJob, NEW m \in 1 .. Len(job.ws), NEW a \in Nat, NEW b \in Nat, a <= b, job.n = 1
  PROVE  RowItems(m, a .. b) \in Seq(Items(a .. b)) /\ Covers(RowItems(m, a .. b), m, a .. b)
<1> DEFINE N == b - a + 1
           s == [i \in 1 .. N |-> Item(m, a + i - 1, 0, 1)]
<1>1. N \in Nat /\ Min(a .. b) = a /\ Cardinality(a .. b) = N
  BY RangeFacts
<1>2. RowItems(m, a .. b) = s
  BY <1>1, Zenon DEF RowItems
<1>3. \A i \in 1 .. N : Item(m, a + i - 1, 0, 1) \in Items(a .. b)
  <2> SUFFICES ASSUME NEW i \in 1 .. N PROVE Item(m, a + i - 1, 0, 1) \in Items(a .. b)
    OBVIOUS
  <2>1. a + i - 1 \in a .. b /\ 0 \in Nat /\ 1 \in Nat /\ 0 + 1 <= job.n
    OBVIOUS
  <2>2. QED
    BY <2>1, ItemIn
<1>4. s \in [1 .. N -> Items(a .. b)]
  BY <1>3
<1>5. s \in Seq(Items(a .. b)) /\ Len(s) = N
  <2> HIDE DEF s, N
  <2>1. QED
    BY <1>1, <1>4, FunctionIsSeq
<1>6. Covers(s, m, a .. b)
  <2> SUFFICES ASSUME NEW r \in a .. b, NEW t \in 0 .. job.n - 1
               PROVE  \E i \in 1 .. Len(s) : s[i].m = m /\ s[i].r = r /\ t \in s[i].t0 .. s[i].t0 + s[i].tn - 1
    BY DEF Covers
  <2>1. r - a + 1 \in 1 .. N /\ a + (r - a + 1) - 1 = r
    OBVIOUS
  <2>2. s[r - a + 1] = Item(m, r, 0, 1)
    BY <2>1
  <2>3. t \in 0 .. 0 + 1 - 1
    OBVIOUS
  <2> HIDE DEF s, N
  <2>4. QED
    BY <1>5, <2>1, <2>2, <2>3, ItemFacts
<1>7. QED
  BY <1>2, <1>5, <1>6

\* Quotient and remainder of any way to write a number as q * n + r with r below n.
LEMMA DivUnique ==
  ASSUME NEW n \in Nat \ {0}, NEW q \in Nat, NEW r \in 0 .. n - 1
  PROVE  (q * n + r) \div n = q
  BY SMT

LEMMA DivModIs ==
  ASSUME NEW n \in Nat \ {0}, NEW a \in Nat
  PROVE  a = (a \div n) * n + (a % n) /\ a \div n \in Nat /\ (a % n) \in 0 .. n - 1
  BY SMT

LEMMA MatmulItemsFacts ==
  ASSUME IsProductJob, NEW a \in Nat, NEW b \in Nat, a <= b
  PROVE  MatmulItems(a .. b) \in Seq(Items(a .. b)) /\ Covers(MatmulItems(a .. b), 1, a .. b)
<1> DEFINE N == (b - a + 1) * job.n
           it(i) == Item(1, a + (i - 1) \div job.n, (i - 1) % job.n, 1)
           s == [i \in 1 .. N |-> it(i)]
<1>1. job.n \in Nat /\ 1 \in 1 .. Len(job.ws) /\ b - a + 1 \in Nat
  <2>1. job.n \in Nat /\ Len(job.ws) \in {1, 2}
    BY ProductFacts
  <2>2. QED
    BY <2>1, SMTT(30)
<1>2. N \in Nat
  BY <1>1
<1>3. MatmulItems(a .. b) = s
  <2>1. Min(a .. b) = a /\ Cardinality(a .. b) = b - a + 1
    BY RangeFacts
  <2>2. QED
    BY <2>1, Zenon DEF MatmulItems
<1>4. \A i \in 1 .. N : it(i) \in Items(a .. b)
  <2> SUFFICES ASSUME NEW i \in 1 .. N PROVE it(i) \in Items(a .. b)
    OBVIOUS
  <2> DEFINE x == i - 1
             q == x \div job.n
             z == x % job.n
  <2>1. x \in Nat /\ x < (b - a + 1) * job.n /\ job.n # 0
    BY <1>1, <1>2
  <2>2. x = q * job.n + z /\ q \in Nat /\ z \in 0 .. job.n - 1
    <3> HIDE DEF x
    <3>1. QED
      BY <1>1, <2>1, DivModIs
  <2> HIDE DEF q, z, x
  <2>3. q * job.n < (b - a + 1) * job.n
    <3>1. q * job.n \in Nat /\ (b - a + 1) * job.n \in Nat
      BY <1>1, <2>2
    <3>2. q * job.n <= x
      BY <1>1, <2>1, <2>2, <3>1
    <3>3. QED
      BY <2>1, <3>1, <3>2
  <2>4. ~(b - a + 1 <= q)
    BY <1>1, <2>2, <2>3
  <2>5. a + q \in a .. b /\ z \in Nat /\ 1 \in Nat /\ z + 1 <= job.n
    BY <1>1, <2>2, <2>4
  <2>6. Item(1, a + q, z, 1) \in Items(a .. b)
    BY <1>1, <2>5, ItemIn
  <2>7. QED
    BY <2>6 DEF q, z, x
<1>5. s \in Seq(Items(a .. b)) /\ Len(s) = N
  <2>1. s \in [1 .. N -> Items(a .. b)]
    <3> HIDE DEF N, it
    <3>1. QED
      BY <1>4
  <2> HIDE DEF s, N
  <2>2. QED
    BY <1>2, <2>1, FunctionIsSeq
<1>6. Covers(s, 1, a .. b)
  <2> SUFFICES ASSUME NEW r \in a .. b, NEW t \in 0 .. job.n - 1
               PROVE  \E i \in 1 .. Len(s) : s[i].m = 1 /\ s[i].r = r /\ t \in s[i].t0 .. s[i].t0 + s[i].tn - 1
    BY DEF Covers
  <2> DEFINE x == (r - a) * job.n + t
  <2>1. job.n \in Nat \ {0} /\ r - a \in Nat /\ t \in 0 .. job.n - 1 /\ (r - a) * job.n \in Nat
    BY <1>1
  <2>2. x \in Nat /\ x + 1 \in 1 .. N
    <3>1. (r - a + 1) * job.n <= (b - a + 1) * job.n
      BY <1>1, <2>1
    <3>2. (r - a + 1) * job.n = (r - a) * job.n + job.n
      BY <2>1
    <3>3. x + 1 <= (r - a) * job.n + job.n
      BY <2>1
    <3>4. QED
      BY <2>1, <3>1, <3>2, <3>3
  <2>3. x \div job.n = r - a /\ (x % job.n) = t
    BY <2>1, DivUnique, ModUnique
  <2> HIDE DEF x
  <2>4. (x + 1) - 1 = x /\ a + (r - a) = r
    BY <2>2
  <2>5. it(x + 1) = Item(1, r, t, 1)
    BY <2>3, <2>4
  <2>6. s[x + 1] = Item(1, r, t, 1)
    <3> HIDE DEF N, it
    <3>1. QED
      BY <2>2, <2>5
  <2>7. t \in t .. t + 1 - 1
    BY <2>1
  <2> HIDE DEF s, N
  <2>8. QED
    BY <1>5, <2>2, <2>6, <2>7, ItemFacts
<1>7. QED
  BY <1>3, <1>5, <1>6

-----------------------------------------------------------------------------
(* A blocked product: blocks of rows, tiles of activations in each.        *)

LEMMA TileForPositive == ASSUME IsProductJob, job.tile > 0 PROVE TileFor \in Nat \ {0}
<1> DEFINE c == job.cols \div 256
           row == Max({c * (292 + 16), 1})
           u == TileBytes \div row
           byCache == Max({u, 1})
           pow2 == IF byCache >= T_MAX THEN T_MAX ELSE Max({p \in {1, 2, 4, 8} : p <= byCache})
<1>1. TileFor = Min({job.tile, pow2})
  BY Zenon DEF TileFor
<1>2. row \in Nat \ {0}
  <2>1. c \in Nat
    BY ProductFacts, SMT
  <2> HIDE DEF c
  <2>2. c * (292 + 16) \in Nat
    BY <2>1
  <2>3. QED
    BY <2>2, MaxOfTwo
<1> HIDE DEF row
<1>3. u \in Nat
  BY <1>2, ProductFacts, SMT
<1> HIDE DEF u
<1>4. byCache \in Nat \ {0}
  BY <1>3, MaxOfTwo
<1> HIDE DEF byCache
<1>5. pow2 \in {1, 2, 4, 8, 16}
  <2> DEFINE C == {p \in {1, 2, 4, 8} : p <= byCache}
  <2>1. \E p \in C : \A z \in C : p >= z
    BY <1>4
  <2>2. Max(C) \in C
    <3> HIDE DEF C
    <3>1. QED
      BY <2>1 DEF Max
  <2>3. Max(C) \in {1, 2, 4, 8}
    BY <2>2
  <2> HIDE DEF C
  <2>4. QED
    BY <2>3 DEF T_MAX, C
<1> HIDE DEF pow2
<1>6. QED
  BY <1>1, <1>5, ProductFacts, MinOfTwo

\* The tile that begins with activation t0, of the rn rows from r0, and all tiles of those rows.
TileItems(r0, rn, t0) == [i \in 1 .. rn |-> Item(1, r0 + i - 1, t0, Min({TileFor, job.n - t0}))]
BlockItems(r0, rn) == FlattenSeq([k \in 1 .. CeilDiv(job.n, TileFor) |-> TileItems(r0, rn, (k - 1) * TileFor)])

LEMMA TileItemsFacts ==
  ASSUME IsProductJob, job.tile > 0, NEW r0 \in Nat, NEW rn \in Nat, NEW t0 \in Nat, t0 < job.n
  PROVE  /\ TileItems(r0, rn, t0) \in Seq(Items(r0 .. r0 + rn - 1))
         /\ Len(TileItems(r0, rn, t0)) = rn
         /\ \A r \in r0 .. r0 + rn - 1, t \in 0 .. job.n - 1 : t0 <= t /\ t < t0 + TileFor =>
              \E i \in 1 .. rn :
                 LET it == TileItems(r0, rn, t0)[i]
                 IN  it.m = 1 /\ it.r = r /\ t \in it.t0 .. it.t0 + it.tn - 1
<1> DEFINE tn == Min({TileFor, job.n - t0})
           s == TileItems(r0, rn, t0)
<1>1. TileFor \in Nat \ {0} /\ job.n \in Nat
  BY TileForPositive, ProductFacts
<1>2. tn = (IF TileFor <= job.n - t0 THEN TileFor ELSE job.n - t0) /\ tn \in Nat
  BY <1>1, MinOfTwo
<1>a. 1 \in 1 .. Len(job.ws)
  <2>1. Len(job.ws) \in {1, 2}
    BY ProductFacts
  <2>2. QED
    BY <2>1
<1>3. s = [i \in 1 .. rn |-> Item(1, r0 + i - 1, t0, tn)]
  BY Zenon DEF TileItems
<1> HIDE DEF tn, s
<1>4. \A i \in 1 .. rn : Item(1, r0 + i - 1, t0, tn) \in Items(r0 .. r0 + rn - 1)
  <2> SUFFICES ASSUME NEW i \in 1 .. rn PROVE Item(1, r0 + i - 1, t0, tn) \in Items(r0 .. r0 + rn - 1)
    OBVIOUS
  <2>1. r0 + i - 1 \in r0 .. r0 + rn - 1 /\ t0 + tn <= job.n
    BY <1>1, <1>2
  <2>2. QED
    BY <1>2, <1>a, <2>1, ItemIn
<1>5. s \in Seq(Items(r0 .. r0 + rn - 1)) /\ Len(s) = rn
  <2>1. s \in [1 .. rn -> Items(r0 .. r0 + rn - 1)]
    BY <1>3, <1>4
  <2>2. QED
    BY <2>1, FunctionIsSeq
<1>6. ASSUME NEW r \in r0 .. r0 + rn - 1, NEW t \in 0 .. job.n - 1, t0 <= t, t < t0 + TileFor
      PROVE  \E i \in 1 .. rn : s[i].m = 1 /\ s[i].r = r /\ t \in s[i].t0 .. s[i].t0 + s[i].tn - 1
  <2>1. r - r0 + 1 \in 1 .. rn /\ r0 + (r - r0 + 1) - 1 = r
    OBVIOUS
  <2>2. s[r - r0 + 1] = Item(1, r, t0, tn)
    BY <1>3, <2>1
  <2>3. t \in t0 .. t0 + tn - 1
    BY <1>1, <1>2, <1>6
  <2>4. QED
    BY <2>1, <2>2, <2>3, ItemFacts
<1>7. QED
  BY <1>5, <1>6 DEF s

LEMMA BlockItemsFacts ==
  ASSUME IsProductJob, job.tile > 0, NEW r0 \in Nat, NEW rn \in Nat
  PROVE  /\ BlockItems(r0, rn) \in Seq(Items(r0 .. r0 + rn - 1))
         /\ Covers(BlockItems(r0, rn), 1, r0 .. r0 + rn - 1)
<1> DEFINE K == CeilDiv(job.n, TileFor)
           S == Items(r0 .. r0 + rn - 1)
           tile(k) == TileItems(r0, rn, (k - 1) * TileFor)
           m == [k \in 1 .. K |-> tile(k)]
<1>1. TileFor \in Nat \ {0} /\ job.n \in Nat
  BY TileForPositive, ProductFacts
<1>2. /\ K \in Nat /\ K * TileFor >= job.n
      /\ \A c \in Nat : c < K => c * TileFor < job.n
  BY <1>1, CeilDivFacts
<1> HIDE DEF K
<1>3. \A k \in 1 .. K : (k - 1) * TileFor \in Nat /\ (k - 1) * TileFor < job.n
  <2> SUFFICES ASSUME NEW k \in 1 .. K PROVE (k - 1) * TileFor \in Nat /\ (k - 1) * TileFor < job.n
    OBVIOUS
  <2>1. k - 1 \in Nat /\ k - 1 < K
    BY <1>2
  <2>2. QED
    BY <1>1, <1>2, <2>1
<1>4. \A k \in 1 .. K : tile(k) \in Seq(S) /\ Len(tile(k)) = rn
  BY <1>3, TileItemsFacts
<1>5. m \in Seq(Seq(S)) /\ Len(m) = K /\ \A k \in 1 .. K : m[k] = tile(k)
  <2>1. \A k \in 1 .. K : m[k] = tile(k)
    <3> HIDE DEF tile
    <3>1. QED
      OBVIOUS
  <2>2. m \in [1 .. K -> Seq(S)]
    <3> HIDE DEF tile, S
    <3>1. QED
      BY <1>4
  <2> HIDE DEF m, tile, S
  <2>3. QED
    BY <1>2, <2>1, <2>2, FunctionIsSeq
<1>6. BlockItems(r0, rn) = FlattenSeq(m)
  BY Zenon DEF BlockItems, K
<1> HIDE DEF m
<1>7. BlockItems(r0, rn) \in Seq(S)
  <2> HIDE DEF S
  <2>1. QED
    BY <1>5, <1>6, FlattenType
<1>8. Covers(FlattenSeq(m), 1, r0 .. r0 + rn - 1)
  <2> SUFFICES ASSUME NEW r \in r0 .. r0 + rn - 1, NEW t \in 0 .. job.n - 1
               PROVE  \E i \in 1 .. Len(FlattenSeq(m)) :
                        /\ FlattenSeq(m)[i].m = 1 /\ FlattenSeq(m)[i].r = r
                        /\ t \in FlattenSeq(m)[i].t0 .. FlattenSeq(m)[i].t0 + FlattenSeq(m)[i].tn - 1
    BY DEF Covers
  <2>1. t \in Nat /\ t < job.n
    BY <1>1
  <2>2. PICK q \in Nat, z \in 0 .. TileFor - 1 : t = q * TileFor + z
    BY <1>1, <2>1, DivMod
  <2>3. q * TileFor \in Nat /\ q * TileFor <= t /\ t < q * TileFor + TileFor
    BY <1>1, <2>2
  <2>4. q < K
    <3>1. q * TileFor < K * TileFor
      BY <1>1, <1>2, <2>1, <2>3
    <3>2. ~(K <= q)
      BY <1>1, <1>2, <3>1
    <3>3. QED
      BY <1>2, <3>2
  <2>5. q + 1 \in 1 .. K /\ (q + 1) - 1 = q
    BY <1>2, <2>4
  <2>6. q * TileFor < job.n
    BY <1>2, <2>4
  <2>7. tile(q + 1) = TileItems(r0, rn, q * TileFor)
    BY <2>5
  <2>8. PICK i \in 1 .. rn :
          LET it == TileItems(r0, rn, q * TileFor)[i]
          IN  it.m = 1 /\ it.r = r /\ t \in it.t0 .. it.t0 + it.tn - 1
    <3> DEFINE v == q * TileFor
    <3>1. v \in Nat /\ v < job.n /\ v <= t /\ t < v + TileFor
      BY <2>3, <2>6
    <3> HIDE DEF v
    <3>2. \A r1 \in r0 .. r0 + rn - 1, t1 \in 0 .. job.n - 1 : v <= t1 /\ t1 < v + TileFor =>
            \E i \in 1 .. rn :
              LET it == TileItems(r0, rn, v)[i]
              IN  it.m = 1 /\ it.r = r1 /\ t1 \in it.t0 .. it.t0 + it.tn - 1
      BY <3>1, TileItemsFacts
    <3>3. \E i \in 1 .. rn :
            LET it == TileItems(r0, rn, v)[i]
            IN  it.m = 1 /\ it.r = r /\ t \in it.t0 .. it.t0 + it.tn - 1
      BY <3>1, <3>2
    <3>4. QED
      BY <3>3 DEF v
  <2> DEFINE x == TileItems(r0, rn, q * TileFor)[i]
  <2>9. x.m = 1 /\ x.r = r /\ t \in x.t0 .. x.t0 + x.tn - 1
    BY <2>8
  <2>10. m[q + 1][i] = x /\ Len(m[q + 1]) = rn /\ m[q + 1] \in Seq(S)
    <3> HIDE DEF x, S
    <3>1. m[q + 1] = TileItems(r0, rn, q * TileFor)
      BY <1>5, <2>5, <2>7
    <3>2. QED
      BY <1>4, <2>5, <2>7, <3>1 DEF x
  <2> HIDE DEF x, S, tile
  <2>11. x \in S
    BY <2>10, ElementOfSeq
  <2>12. \E j \in 1 .. Len(m) : \E h \in 1 .. Len(m[j]) : m[j][h] = x
    BY <1>5, <2>5, <2>10
  <2>13. PICK h \in 1 .. Len(FlattenSeq(m)) : FlattenSeq(m)[h] = x
    BY <1>5, <2>11, <2>12, FlattenElements, SMTT(30)
  <2>14. QED
    BY <2>9, <2>13
<1>9. QED
  BY <1>6, <1>7, <1>8

LEMMA BlockedItemsFacts ==
  ASSUME IsProductJob, job.tile > 0, NEW a \in Nat, NEW b \in Nat, a <= b
  PROVE  BlockedItems(a .. b) \in Seq(Items(a .. b)) /\ Covers(BlockedItems(a .. b), 1, a .. b)
<1> DEFINE N == CeilDiv(b - a + 1, RowBlock)
           S == Items(a .. b)
           first(k) == a + (k - 1) * RowBlock
           rows(k) == Min({RowBlock, b + 1 - first(k)})
           block(k) == BlockItems(first(k), rows(k))
           m == [k \in 1 .. N |-> block(k)]
<1>1. RowBlock \in Nat \ {0} /\ b - a + 1 \in Nat
  BY MatmulAssumption
<1>2. /\ N \in Nat /\ N * RowBlock >= b - a + 1
      /\ \A c \in Nat : c < N => c * RowBlock < b - a + 1
  BY <1>1, CeilDivFacts
<1>3. Min(a .. b) = a /\ Max(a .. b) = b /\ Cardinality(a .. b) = b - a + 1
  BY RangeFacts
<1>4. BlockedItems(a .. b) = FlattenSeq(m)
  BY <1>3, Zenon DEF BlockedItems, BlockItems, TileItems
<1> HIDE DEF N
<1>5. \A k \in 1 .. N :
        /\ first(k) \in Nat /\ first(k) >= a /\ first(k) <= b
        /\ rows(k) = IF RowBlock <= b + 1 - first(k) THEN RowBlock ELSE b + 1 - first(k)
        /\ rows(k) \in Nat /\ first(k) + rows(k) - 1 <= b
  <2> SUFFICES ASSUME NEW k \in 1 .. N
               PROVE  /\ first(k) \in Nat /\ first(k) >= a /\ first(k) <= b
                      /\ rows(k) = IF RowBlock <= b + 1 - first(k) THEN RowBlock ELSE b + 1 - first(k)
                      /\ rows(k) \in Nat /\ first(k) + rows(k) - 1 <= b
    OBVIOUS
  <2>1. k - 1 \in Nat /\ k - 1 < N
    BY <1>2
  <2>2. (k - 1) * RowBlock \in Nat /\ (k - 1) * RowBlock < b - a + 1
    BY <1>1, <1>2, <2>1
  <2>3. first(k) \in Nat /\ first(k) >= a /\ first(k) <= b
    BY <2>2
  <2> HIDE DEF first
  <2>4. rows(k) = IF RowBlock <= b + 1 - first(k) THEN RowBlock ELSE b + 1 - first(k)
    BY <1>1, <2>3, MinOfTwo
  <2> HIDE DEF rows
  <2>5. QED
    BY <1>1, <2>3, <2>4
<1>6. \A k \in 1 .. N : block(k) \in Seq(S)
  <2> SUFFICES ASSUME NEW k \in 1 .. N PROVE block(k) \in Seq(S)
    OBVIOUS
  <2> DEFINE r0 == first(k)
             rn == rows(k)
  <2>1. r0 \in Nat /\ rn \in Nat /\ r0 >= a /\ r0 + rn - 1 <= b
    <3> HIDE DEF first, rows
    <3>1. QED
      BY <1>5
  <2> HIDE DEF r0, rn
  <2>2. BlockItems(r0, rn) \in Seq(Items(r0 .. r0 + rn - 1))
    BY <2>1, BlockItemsFacts
  <2>3. Items(r0 .. r0 + rn - 1) \subseteq S
    <3>1. r0 .. r0 + rn - 1 \subseteq a .. b
      BY <2>1
    <3>2. QED
      BY <3>1 DEF Items
  <2>4. BlockItems(r0, rn) \in Seq(S)
    BY <2>2, <2>3, SeqMonotonic
  <2>5. QED
    BY <2>4 DEF r0, rn
<1>7. m \in Seq(Seq(S)) /\ Len(m) = N /\ \A k \in 1 .. N : m[k] = block(k)
  <2> HIDE DEF block, S
  <2>1. \A k \in 1 .. N : m[k] = block(k)
    OBVIOUS
  <2>2. m \in [1 .. N -> Seq(S)]
    BY <1>6
  <2> HIDE DEF m
  <2>3. QED
    BY <1>2, <2>1, <2>2, FunctionIsSeq
<1> HIDE DEF m
<1>8. FlattenSeq(m) \in Seq(S)
  <2> HIDE DEF S
  <2>1. QED
    BY <1>7, FlattenType
<1>9. Covers(FlattenSeq(m), 1, a .. b)
  <2> SUFFICES ASSUME NEW r \in a .. b, NEW t \in 0 .. job.n - 1
               PROVE  \E i \in 1 .. Len(FlattenSeq(m)) :
                        /\ FlattenSeq(m)[i].m = 1 /\ FlattenSeq(m)[i].r = r
                        /\ t \in FlattenSeq(m)[i].t0 .. FlattenSeq(m)[i].t0 + FlattenSeq(m)[i].tn - 1
    BY DEF Covers
  <2>1. r - a \in Nat /\ r - a < b - a + 1
    OBVIOUS
  <2>2. PICK q \in Nat, z \in 0 .. RowBlock - 1 : r - a = q * RowBlock + z
    BY <1>1, <2>1, DivMod
  <2>3. q * RowBlock \in Nat
    BY <1>1, <2>2
  <2>4. q < N
    <3>1. q * RowBlock < N * RowBlock
      BY <1>1, <1>2, <2>1, <2>2, <2>3
    <3>2. ~(N <= q)
      BY <1>1, <1>2, <3>1
    <3>3. QED
      BY <1>2, <3>2
  <2>5. q + 1 \in 1 .. N /\ (q + 1) - 1 = q
    BY <1>2, <2>4
  <2> DEFINE r0 == first(q + 1)
             rn == rows(q + 1)
             s == BlockItems(r0, rn)
  <2>6. r0 = a + q * RowBlock
    BY <2>5
  <2>7. r0 \in Nat /\ rn \in Nat /\ rn = IF RowBlock <= b + 1 - r0 THEN RowBlock ELSE b + 1 - r0
    <3> HIDE DEF first, rows
    <3>1. QED
      BY <1>5, <2>5
  <2>8. m[q + 1] = s
    BY <1>7, <2>5
  <2>9. s \in Seq(S)
    <3> HIDE DEF S, block, m, s
    <3>1. QED
      BY <1>7, <2>5, <2>8, ElementOfSeq
  <2> HIDE DEF r0, rn
  <2>10. r \in r0 .. r0 + rn - 1
    BY <1>1, <2>2, <2>3, <2>6, <2>7
  <2>11. Covers(s, 1, r0 .. r0 + rn - 1)
    BY <2>7, BlockItemsFacts
  <2> HIDE DEF s
  <2>12. PICK i \in 1 .. Len(s) : s[i].m = 1 /\ s[i].r = r /\ t \in s[i].t0 .. s[i].t0 + s[i].tn - 1
    BY <2>10, <2>11 DEF Covers
  <2> HIDE DEF S, block
  <2>13. s[i] \in S
    BY <2>9, <2>12, ElementOfSeq
  <2>14. \E j \in 1 .. Len(m) : \E h \in 1 .. Len(m[j]) : m[j][h] = s[i]
    BY <1>7, <2>5, <2>8, <2>12
  <2>15. PICK h \in 1 .. Len(FlattenSeq(m)) : FlattenSeq(m)[h] = s[i]
    <3> DEFINE x == s[i]
    <3>1. x \in S /\ m \in Seq(Seq(S)) /\ \E j \in 1 .. Len(m) : \E h \in 1 .. Len(m[j]) : m[j][h] = x
      BY <1>7, <2>13, <2>14
    <3> HIDE DEF x
    <3>2. \E h \in 1 .. Len(FlattenSeq(m)) : FlattenSeq(m)[h] = x
      BY <3>1, FlattenElements
    <3>3. QED
      BY <3>2 DEF x
  <2>16. QED
    BY <2>12, <2>15
<1>10. QED
  BY <1>4, <1>8, <1>9

-----------------------------------------------------------------------------
(* The shares of the participants.                                         *)

LEMMA ParticipantsPositive ==
  ASSUME IsProductJob \/ IsLoopJob PROVE Participants \in Nat \ {0}
<1> DEFINE asked == CASE job.kind = "matmul" -> Min({MatmulThreads, Max({Rows, 1})})
                      [] job.kind \in Products \ {"matmul"} -> Min({job.threads, Max({Rows, 1})})
                      [] OTHER -> Min({Max({job.threads, 1}), job.heads})
<1>1. Participants = Min({Max({asked, 1}), Workers + 1})
  BY Zenon DEF Participants
<1>2. asked \in Nat
  <2>1. CASE IsProductJob
    <3>1. Rows \in Nat /\ Max({Rows, 1}) \in Nat
      BY <2>1, ProductFacts, MaxOfTwo
    <3>2. job.threads \in Nat /\ MatmulThreads \in Nat
      <4>1. Max({Workers + 1, job.threads}) \in Nat
        BY <2>1, ProductFacts, MaxOfTwo
      <4>2. QED
        BY <2>1, <4>1, ProductFacts DEF MatmulThreads
    <3>3. Min({MatmulThreads, Max({Rows, 1})}) \in Nat /\ Min({job.threads, Max({Rows, 1})}) \in Nat
      BY <3>1, <3>2, MinOfTwo
    <3>4. job.kind = "matmul" \/ job.kind \in Products \ {"matmul"}
      BY <2>1 DEF IsProductJob, Products
    <3>5. QED
      BY <3>3, <3>4
  <2>2. CASE IsLoopJob
    <3>1. job.threads \in Nat /\ job.heads \in Nat /\ Max({job.threads, 1}) \in Nat
      BY <2>2, MaxOfTwo DEF IsLoopJob, IsLoop
    <3>2. Min({Max({job.threads, 1}), job.heads}) \in Nat
      BY <3>1, MinOfTwo
    <3>3. job.kind # "matmul" /\ job.kind \notin Products \ {"matmul"}
      BY <2>2 DEF IsLoopJob, Products
    <3>4. QED
      BY <3>2, <3>3
  <2>3. QED
    BY <2>1, <2>2
<1> HIDE DEF asked
<1>3. Max({asked, 1}) \in Nat \ {0}
  BY <1>2, MaxOfTwo
<1>4. Workers + 1 \in Nat \ {0}
  BY MatmulAssumption
<1> DEFINE x == Max({asked, 1})
           w == Workers + 1
<1>5. x \in Nat \ {0} /\ w \in Nat \ {0} /\ Participants = Min({x, w})
  BY <1>1, <1>3, <1>4
<1> HIDE DEF x, w
<1>6. QED
  BY <1>5, MinOfTwo

LEMMA CoversConcat ==
  ASSUME NEW S, NEW s \in Seq(S), NEW t \in Seq(S), NEW m, NEW rs, Covers(s, m, rs) \/ Covers(t, m, rs)
  PROVE  Covers(s \o t, m, rs)
<1>1. /\ Len(s \o t) = Len(s) + Len(t) /\ Len(s) \in Nat /\ Len(t) \in Nat
      /\ \A i \in 1 .. Len(s) : (s \o t)[i] = s[i]
      /\ \A i \in 1 .. Len(t) : (s \o t)[Len(s) + i] = t[i]
  BY Concatenated
<1> SUFFICES ASSUME NEW r \in rs, NEW x \in 0 .. job.n - 1
             PROVE  \E i \in 1 .. Len(s \o t) :
                      /\ (s \o t)[i].m = m /\ (s \o t)[i].r = r
                      /\ x \in (s \o t)[i].t0 .. (s \o t)[i].t0 + (s \o t)[i].tn - 1
  BY DEF Covers
<1>2. CASE Covers(s, m, rs)
  <2>1. PICK i \in 1 .. Len(s) : s[i].m = m /\ s[i].r = r /\ x \in s[i].t0 .. s[i].t0 + s[i].tn - 1
    BY <1>2 DEF Covers
  <2>2. i \in 1 .. Len(s \o t) /\ (s \o t)[i] = s[i]
    BY <1>1
  <2>3. QED
    BY <2>1, <2>2
<1>3. CASE Covers(t, m, rs)
  <2>1. PICK i \in 1 .. Len(t) : t[i].m = m /\ t[i].r = r /\ x \in t[i].t0 .. t[i].t0 + t[i].tn - 1
    BY <1>3 DEF Covers
  <2>2. Len(s) + i \in 1 .. Len(s \o t) /\ (s \o t)[Len(s) + i] = t[i]
    BY <1>1
  <2>3. QED
    BY <2>1, <2>2
<1>4. QED
  BY <1>2, <1>3

\* What participant tid of n is given.
RangeOf(tid) ==
  RowRange(IF job.kind \in Products THEN Rows ELSE job.heads, tid, Cardinality(DOMAIN pos))

LEMMA ShareOfProduct ==
  ASSUME IsProductJob, Cardinality(DOMAIN pos) \in Nat \ {0}, NEW tid \in Nat
  PROVE  /\ Share(tid) \in Seq(Items(RangeOf(tid)))
         /\ \A m \in 1 .. Len(job.ws) : Covers(Share(tid), m, RangeOf(tid))
<1> DEFINE rs == RangeOf(tid)
<1>1. rs = RowRange(Rows, tid, Cardinality(DOMAIN pos))
  BY DEF RangeOf, IsProductJob
<1>2. PICK a \in 0 .. Rows, b \in 0 .. Rows : rs = a .. b - 1
  <2>1. Cardinality(DOMAIN pos) \in Nat \ {0} /\ Rows \in Nat
    BY ProductFacts
  <2>2. Rows \in Nat
    BY <2>1
  <2>3. \E a \in 0 .. Rows, b \in 0 .. Rows : RowRange(Rows, tid, Cardinality(DOMAIN pos)) = a .. b - 1
    BY <2>2, RowRangeIsRange, Zenon
  <2>4. QED
    BY <1>1, <2>3
<1>3. Share(tid) =
        IF rs = {} THEN <<>>
        ELSE CASE job.kind = "matvec"  -> RowItems(1, rs)
               [] job.kind = "matvec2" -> RowItems(1, rs) \o RowItems(2, rs)
               [] job.kind = "matmul"  -> IF Blocked THEN BlockedItems(rs) ELSE MatmulItems(rs)
               [] OTHER -> [i \in 1 .. Cardinality(rs) |-> Min(rs) + i - 1]
  BY Zenon DEF Share, RangeOf
<1> HIDE DEF rs
<1>4. CASE rs = {}
  <2>1. Share(tid) = <<>>
    BY <1>3, <1>4
  <2>2. QED
    BY <1>4, <2>1, EmptySeq DEF Covers, rs
<1>5. CASE rs # {}
  <2> DEFINE c == b - 1
  <2>1. a \in Nat /\ c \in Nat /\ a <= c /\ rs = a .. c
    <3>1. a <= b - 1
      BY <1>2, <1>5
    <3>2. QED
      BY <1>2, <3>1, ProductFacts
  <2> HIDE DEF c
  <2>2. Len(job.ws) \in {1, 2} /\ (job.kind # "matmul" => job.n = 1) /\ (Len(job.ws) = 2 <=> job.kind = "matvec2")
    BY ProductFacts
  <2>3. CASE job.kind = "matvec"
    <3>1. Share(tid) = RowItems(1, rs)
      BY <1>3, <1>5, <2>3
    <3>a. Len(job.ws) = 1 /\ 1 .. 1 = {1} /\ job.n = 1
      BY <2>2, <2>3
    <3>2. job.n = 1 /\ 1 .. Len(job.ws) = {1}
      BY <3>a
    <3>3. RowItems(1, rs) \in Seq(Items(rs)) /\ Covers(RowItems(1, rs), 1, rs)
      BY <2>1, <3>2, RowItemsFacts
    <3>4. QED
      BY <3>1, <3>2, <3>3 DEF rs
  <2>4. CASE job.kind = "matvec2"
    <3>1. Share(tid) = RowItems(1, rs) \o RowItems(2, rs)
      BY <1>3, <1>5, <2>4
    <3>a. Len(job.ws) = 2 /\ 1 .. 2 = {1, 2} /\ job.n = 1
      BY <2>2, <2>4
    <3>2. job.n = 1 /\ 1 .. Len(job.ws) = {1, 2}
      BY <3>a
    <3>3. /\ RowItems(1, rs) \in Seq(Items(rs)) /\ Covers(RowItems(1, rs), 1, rs)
          /\ RowItems(2, rs) \in Seq(Items(rs)) /\ Covers(RowItems(2, rs), 2, rs)
      BY <2>1, <3>2, RowItemsFacts
    <3>4. RowItems(1, rs) \o RowItems(2, rs) \in Seq(Items(rs))
      BY <3>3, Concatenated
    <3>5. \A m \in {1, 2} : Covers(RowItems(1, rs) \o RowItems(2, rs), m, rs)
      BY <3>3, CoversConcat
    <3>6. QED
      BY <3>1, <3>2, <3>4, <3>5 DEF rs
  <2>5. CASE job.kind = "matmul"
    <3>1. Share(tid) = IF Blocked THEN BlockedItems(rs) ELSE MatmulItems(rs)
      BY <1>3, <1>5, <2>5
    <3>a. Len(job.ws) = 1 /\ 1 .. 1 = {1}
      BY <2>2, <2>5
    <3>2. 1 .. Len(job.ws) = {1}
      BY <3>a
    <3>3. MatmulItems(rs) \in Seq(Items(rs)) /\ Covers(MatmulItems(rs), 1, rs)
      BY <2>1, MatmulItemsFacts
    <3>4. Blocked => BlockedItems(rs) \in Seq(Items(rs)) /\ Covers(BlockedItems(rs), 1, rs)
      BY <2>1, BlockedItemsFacts DEF Blocked
    <3>5. QED
      BY <3>1, <3>2, <3>3, <3>4 DEF rs
  <2>6. QED
    BY <2>3, <2>4, <2>5 DEF IsProductJob, Products
<1>6. QED
  BY <1>4, <1>5

LEMMA ShareOfLoop ==
  ASSUME IsLoopJob, Cardinality(DOMAIN pos) \in Nat \ {0}, NEW tid \in Nat
  PROVE  /\ Share(tid) \in Seq(RangeOf(tid))
         /\ \A p \in RangeOf(tid) : \E i \in 1 .. Len(Share(tid)) : Share(tid)[i] = p
<1> DEFINE rs == RangeOf(tid)
<1>1. rs = RowRange(job.heads, tid, Cardinality(DOMAIN pos)) /\ job.heads \in Nat
  BY DEF RangeOf, IsLoopJob, IsLoop
<1>2. PICK a \in 0 .. job.heads, b \in 0 .. job.heads : rs = a .. b - 1
  <2>1. Cardinality(DOMAIN pos) \in Nat \ {0} /\ job.heads \in Nat
    BY <1>1
  <2>2. job.heads \in Nat
    BY <2>1
  <2>3. \E a \in 0 .. job.heads, b \in 0 .. job.heads : RowRange(job.heads, tid, Cardinality(DOMAIN pos)) = a .. b - 1
    BY <2>2, RowRangeIsRange, Zenon
  <2>4. QED
    BY <1>1, <2>3
<1>3. Share(tid) = IF rs = {} THEN <<>> ELSE [i \in 1 .. Cardinality(rs) |-> Min(rs) + i - 1]
  <2>1. job.kind # "matvec" /\ job.kind # "matvec2" /\ job.kind # "matmul" /\ job.kind \notin Products
    BY DEF IsLoopJob, Products
  <2>2. Share(tid) =
        IF rs = {} THEN <<>>
        ELSE CASE job.kind = "matvec"  -> RowItems(1, rs)
               [] job.kind = "matvec2" -> RowItems(1, rs) \o RowItems(2, rs)
               [] job.kind = "matmul"  -> IF Blocked THEN BlockedItems(rs) ELSE MatmulItems(rs)
               [] OTHER -> [i \in 1 .. Cardinality(rs) |-> Min(rs) + i - 1]
    BY Zenon DEF Share, RangeOf
  <2> HIDE DEF rs
  <2>3. QED
    BY <2>1, <2>2
<1> HIDE DEF rs
<1>4. CASE rs = {}
  BY <1>3, <1>4, EmptySeq DEF rs
<1>5. CASE rs # {}
  <2> DEFINE N == b - 1 - a + 1
             s == [i \in 1 .. N |-> a + i - 1]
  <2>1. a \in Nat /\ b - 1 \in Nat /\ a <= b - 1
    BY <1>1, <1>2, <1>5
  <2>2. Min(rs) = a /\ Cardinality(rs) = N
    BY <1>2, <2>1, RangeFacts
  <2>3. Share(tid) = s
    BY <1>3, <1>5, <2>2
  <2>4. N \in Nat /\ s \in [1 .. N -> rs]
    BY <1>2, <2>1
  <2>5. \A p \in rs : p - a + 1 \in 1 .. N /\ s[p - a + 1] = p
    BY <1>2, <2>1
  <2> HIDE DEF s, N
  <2>6. s \in Seq(rs) /\ Len(s) = N
    BY <2>4, FunctionIsSeq
  <2>7. QED
    BY <2>3, <2>5, <2>6 DEF rs
<1>6. QED
  BY <1>4, <1>5

-----------------------------------------------------------------------------
(* The cells of a head.                                                    *)

\* A shared buffer of a loop is a number of rows, each split over the heads in equal parts.
Width(b) ==
  CASE b \in {"qn", "kn"} -> DK
    [] b \in {"o", "heads"} -> DV
    [] b = "rec" -> DK * DV
    [] b = "attn" -> HD
    [] b \in {"scores", "probs"} -> MaxPos(job)

RowsOf(b) == IF b \in {"heads", "attn"} THEN job.t ELSE 1

LoopBuffers ==
  IF job.kind \in DeltaLoops THEN {"qn", "kn", "o", "rec", "heads"} ELSE {"scores", "probs", "attn"}

\* w is a write in head p's part of a row.
InPart(w, p) ==
  /\ w[1] \in LoopBuffers
  /\ \E i \in 0 .. RowsOf(w[1]) - 1 : w[2] = (i * job.heads + p) * Width(w[1])
  /\ w[3] \in 0 .. Width(w[1])

LEMMA LoopFacts ==
  ASSUME IsLoopJob
  PROVE  /\ DK \in Nat \ {0} /\ DV \in Nat \ {0} /\ HD \in Nat \ {0}
         /\ job.heads \in Nat /\ job.t \in Nat /\ job.base \in Nat
         /\ MaxPos(job) \in Nat /\ job.base + job.t <= MaxPos(job)
         /\ job.kind \notin Products /\ job.kind # "sum"
         /\ job.kind \in DeltaLoops \/ job.kind \in AttnLoops
         /\ job.kind \in {"delta_token", "attn_token"} => job.t = 1
<1>1. job.heads \in Nat /\ job.t \in Nat /\ job.base \in Nat /\ job.maxPos \in Nat
  BY DEF IsLoopJob, IsLoop
<1>2. MaxPos(job) = IF job.maxPos >= job.base + job.t THEN job.maxPos ELSE job.base + job.t
  BY <1>1, MaxOfTwo DEF MaxPos
<1>3. DK \in Nat \ {0} /\ DV \in Nat \ {0} /\ HD \in Nat \ {0}
  BY HeadLoopsAssumption
<1>4. job.kind \notin Products /\ job.kind \in DeltaLoops \cup AttnLoops
  BY DEF IsLoopJob, IsLoop
<1>5. job.kind # "sum"
  BY <1>4 DEF DeltaLoops, AttnLoops
<1>6. job.kind \in {"delta_token", "attn_token"} => job.t = 1
  BY DEF IsLoopJob, IsLoop
<1>7. QED
  BY <1>1, <1>2, <1>3, <1>4, <1>5, <1>6

LEMMA PartSizes ==
  ASSUME IsLoopJob, NEW b \in LoopBuffers
  PROVE  /\ Width(b) \in Nat /\ RowsOf(b) \in Nat
         /\ Extent(b) = (RowsOf(b) * job.heads) * Width(b)
<1>1. DK * DV \in Nat
  BY LoopFacts
<1>2. CASE job.kind \in DeltaLoops
  <2>1. b \in {"qn", "kn", "o", "rec", "heads"}
    BY <1>2 DEF LoopBuffers
  <2>2. Extent(b) = DeltaBuffers(job)[b]
    BY <1>2, LoopFacts DEF Extent
  <2>3. CASE b \in {"qn", "kn"}
    <3>1. Width(b) = DK /\ RowsOf(b) = 1 /\ Extent(b) = job.heads * DK
      BY <2>2, <2>3 DEF Width, RowsOf, DeltaBuffers
    <3>2. QED
      BY <3>1, LoopFacts
  <2>4. CASE b = "o"
    <3>1. Width(b) = DV /\ RowsOf(b) = 1 /\ Extent(b) = job.heads * DV
      BY <2>2, <2>4 DEF Width, RowsOf, DeltaBuffers
    <3>2. QED
      BY <3>1, LoopFacts
  <2>5. CASE b = "rec"
    <3>1. Width(b) = DK * DV /\ RowsOf(b) = 1 /\ Extent(b) = job.heads * DK * DV
      BY <2>2, <2>5 DEF Width, RowsOf, DeltaBuffers
    <3>2. QED
      BY <1>1, <3>1, LoopFacts
  <2>6. CASE b = "heads"
    <3>1. Width(b) = DV /\ RowsOf(b) = job.t /\ Extent(b) = job.t * job.heads * DV
      BY <2>2, <2>6 DEF Width, RowsOf, DeltaBuffers
    <3>2. QED
      BY <3>1, LoopFacts
  <2>7. QED
    BY <2>1, <2>3, <2>4, <2>5, <2>6
<1>3. CASE job.kind \notin DeltaLoops
  <2>1. b \in {"scores", "probs", "attn"}
    BY <1>3 DEF LoopBuffers
  <2>2. Extent(b) = AttnBuffers(job)[b]
    BY <1>3, LoopFacts DEF Extent
  <2>3. CASE b \in {"scores", "probs"}
    <3>1. Width(b) = MaxPos(job) /\ RowsOf(b) = 1 /\ Extent(b) = job.heads * MaxPos(job)
      BY <2>2, <2>3 DEF Width, RowsOf, AttnBuffers
    <3>2. QED
      BY <3>1, LoopFacts
  <2>4. CASE b = "attn"
    <3>1. Width(b) = HD /\ RowsOf(b) = job.t /\ Extent(b) = job.t * job.heads * HD
      BY <2>2, <2>4 DEF Width, RowsOf, AttnBuffers
    <3>2. QED
      BY <3>1, LoopFacts
  <2>5. QED
    BY <2>1, <2>3, <2>4
<1>4. QED
  BY <1>2, <1>3

LEMMA InPartIntro ==
  ASSUME NEW b \in LoopBuffers, NEW i \in 0 .. RowsOf(b) - 1, NEW n \in 0 .. Width(b), NEW p \in Nat,
         NEW start, start = (i * job.heads + p) * Width(b)
  PROVE  InPart(<<b, start, n>>, p)
  BY DEF InPart

LEMMA PartStart ==
  ASSUME NEW h \in Nat, NEW p \in Nat, NEW a \in Nat, NEW b \in Nat
  PROVE  /\ p * a = (0 * h + p) * a
         /\ p * a * b = (0 * h + p) * (a * b)
         /\ \A i \in Nat : i * (h * a) + p * a = (i * h + p) * a
  OBVIOUS

\* The writes into the buffers that are split over the heads once, and into those of all rows.
LEMMA DeltaParts ==
  ASSUME IsLoopJob, job.kind \in DeltaLoops, NEW p \in Nat
  PROVE  /\ InPart(<<"qn", p*DK, DK>>, p) /\ InPart(<<"kn", p*DK, DK>>, p)
         /\ InPart(<<"o", p*DV, DV>>, p) /\ InPart(<<"rec", p*DK*DV, DK*DV>>, p)
         /\ \A i \in 0 .. job.t - 1 : InPart(<<"heads", i * (job.heads * DV) + p*DV, DV>>, p)
<1>1. LoopBuffers = {"qn", "kn", "o", "rec", "heads"}
  BY DEF LoopBuffers
<1>2. /\ Width("qn") = DK /\ Width("kn") = DK /\ Width("o") = DV
      /\ Width("rec") = DK * DV /\ Width("heads") = DV
  BY DEF Width
<1>3. /\ RowsOf("qn") = 1 /\ RowsOf("kn") = 1 /\ RowsOf("o") = 1 /\ RowsOf("rec") = 1
      /\ RowsOf("heads") = job.t
  BY DEF RowsOf
<1>4. DK \in Nat /\ DV \in Nat /\ job.heads \in Nat /\ job.t \in Nat /\ DK * DV \in Nat
  <2>1. DK \in Nat /\ DV \in Nat /\ job.heads \in Nat /\ job.t \in Nat
    BY LoopFacts
  <2>2. QED
    BY <2>1
<1>5. /\ p * DK = (0 * job.heads + p) * DK
      /\ p * DV = (0 * job.heads + p) * DV
      /\ p * DK * DV = (0 * job.heads + p) * (DK * DV)
      /\ \A i \in Nat : i * (job.heads * DV) + p * DV = (i * job.heads + p) * DV
  BY <1>4, PartStart
<1>6. 0 \in 0 .. 1 - 1
  OBVIOUS
<1>7. DK \in 0 .. DK /\ DV \in 0 .. DV /\ DK * DV \in 0 .. DK * DV
  BY <1>4
<1>8. InPart(<<"qn", p*DK, DK>>, p) /\ InPart(<<"kn", p*DK, DK>>, p)
  BY <1>1, <1>2, <1>3, <1>5, <1>6, <1>7, InPartIntro
<1>9. InPart(<<"o", p*DV, DV>>, p)
  BY <1>1, <1>2, <1>3, <1>5, <1>6, <1>7, InPartIntro
<1>10. InPart(<<"rec", p*DK*DV, DK*DV>>, p)
  BY <1>1, <1>2, <1>3, <1>5, <1>6, <1>7, InPartIntro
<1>11. \A i \in 0 .. job.t - 1 : InPart(<<"heads", i * (job.heads * DV) + p*DV, DV>>, p)
  <2> SUFFICES ASSUME NEW i \in 0 .. job.t - 1
               PROVE  InPart(<<"heads", i * (job.heads * DV) + p*DV, DV>>, p)
    OBVIOUS
  <2>1. i * (job.heads * DV) + p * DV = (i * job.heads + p) * DV
    BY <1>4, <1>5
  <2>2. QED
    BY <1>1, <1>2, <1>3, <1>7, <2>1, InPartIntro
<1>12. QED
  BY <1>8, <1>9, <1>10, <1>11

LEMMA AttnParts ==
  ASSUME IsLoopJob, job.kind \in AttnLoops, NEW p \in Nat
  PROVE  /\ \A b \in {"scores", "probs"}, i \in 0 .. job.t - 1 :
              InPart(<<b, p * MaxPos(job), job.base + i + 1>>, p)
         /\ \A i \in 0 .. job.t - 1 : InPart(<<"attn", i * (job.heads * HD) + p*HD, HD>>, p)
<1>1. LoopBuffers = {"scores", "probs", "attn"}
  BY DEF LoopBuffers, DeltaLoops, AttnLoops
<1>2. Width("scores") = MaxPos(job) /\ Width("probs") = MaxPos(job) /\ Width("attn") = HD
  BY DEF Width
<1>3. RowsOf("scores") = 1 /\ RowsOf("probs") = 1 /\ RowsOf("attn") = job.t
  BY DEF RowsOf
<1>4. /\ HD \in Nat /\ job.heads \in Nat /\ job.t \in Nat /\ job.base \in Nat
      /\ MaxPos(job) \in Nat /\ job.base + job.t <= MaxPos(job)
  BY LoopFacts
<1>5. \A b \in {"scores", "probs"}, i \in 0 .. job.t - 1 :
        InPart(<<b, p * MaxPos(job), job.base + i + 1>>, p)
  <2> SUFFICES ASSUME NEW b \in {"scores", "probs"}, NEW i \in 0 .. job.t - 1
               PROVE  InPart(<<b, p * MaxPos(job), job.base + i + 1>>, p)
    OBVIOUS
  <2>1. b \in LoopBuffers /\ Width(b) = MaxPos(job) /\ RowsOf(b) = 1
    BY <1>1, <1>2, <1>3
  <2>2. job.base + i + 1 \in 0 .. Width(b) /\ 0 \in 0 .. RowsOf(b) - 1
    BY <1>4, <2>1
  <2>3. p * MaxPos(job) = (0 * job.heads + p) * Width(b)
    BY <1>4, <2>1, PartStart
  <2>4. QED
    BY <2>1, <2>2, <2>3, InPartIntro
<1>6. \A i \in 0 .. job.t - 1 : InPart(<<"attn", i * (job.heads * HD) + p*HD, HD>>, p)
  <2> SUFFICES ASSUME NEW i \in 0 .. job.t - 1
               PROVE  InPart(<<"attn", i * (job.heads * HD) + p*HD, HD>>, p)
    OBVIOUS
  <2>1. i * (job.heads * HD) + p * HD = (i * job.heads + p) * HD
    BY <1>4, PartStart
  <2>2. "attn" \in LoopBuffers /\ i \in 0 .. RowsOf("attn") - 1 /\ HD \in 0 .. Width("attn")
    BY <1>1, <1>2, <1>3, <1>4
  <2>3. QED
    BY <1>2, <2>1, <2>2, InPartIntro
<1>7. QED
  BY <1>5, <1>6

\* A head writes in its own part of every row.
LEMMA WritesInPart ==
  ASSUME IsLoopJob, NEW p \in Nat, NEW w \in HeadWrites(job, p)
  PROVE  InPart(w, p)
<1>0. job.heads \in Nat /\ job.t \in Nat /\ job.base \in Nat /\ DV \in Nat /\ HD \in Nat
  BY LoopFacts
<1>1. CASE job.kind \in DeltaLoops
  <2>1. HeadWrites(job, p) \subseteq
          {<<"qn", p*DK, DK>>, <<"kn", p*DK, DK>>, <<"o", p*DV, DV>>, <<"rec", p*DK*DV, DK*DV>>}
            \cup {<<"heads", i * (job.heads * DV) + p*DV, DV>> : i \in 0 .. job.t - 1}
    <3>1. CASE job.kind = "delta_token"
      <4>1. HeadWrites(job, p) = DeltaTokenWrites(job, p)
        BY <3>1 DEF HeadWrites
      <4>2. job.t = 1
        BY <3>1, LoopFacts
      <4>3. 0 * (job.heads * DV) + p*DV = p*DV /\ 0 \in 0 .. job.t - 1
        BY <1>0, <4>2
      <4>4. <<"heads", p*DV, DV>> \in {<<"heads", i * (job.heads * DV) + p*DV, DV>> : i \in 0 .. job.t - 1}
        BY <4>3
      <4>5. QED
        BY <4>1, <4>4 DEF DeltaTokenWrites
    <3>2. CASE job.kind = "delta_prefill"
      <4>1. HeadWrites(job, p) = DeltaPrefillWrites(job, p)
        BY <3>2 DEF HeadWrites
      <4>2. QED
        BY <4>1 DEF DeltaPrefillWrites
    <3>3. CASE job.kind = "delta_batch"
      <4>1. HeadWrites(job, p) = DeltaBatchWrites(job, p)
        BY <3>3 DEF HeadWrites
      <4>2. QED
        BY <4>1 DEF DeltaBatchWrites, DeltaReplayWrites
    <3>4. CASE job.kind = "delta_replay"
      <4>1. HeadWrites(job, p) = DeltaReplayWrites(job, p)
        BY <3>4 DEF HeadWrites
      <4>2. QED
        BY <4>1 DEF DeltaReplayWrites
    <3>5. QED
      BY <1>1, <3>1, <3>2, <3>3, <3>4 DEF DeltaLoops
  <2>2. /\ InPart(<<"qn", p*DK, DK>>, p) /\ InPart(<<"kn", p*DK, DK>>, p)
        /\ InPart(<<"o", p*DV, DV>>, p) /\ InPart(<<"rec", p*DK*DV, DK*DV>>, p)
        /\ \A i \in 0 .. job.t - 1 : InPart(<<"heads", i * (job.heads * DV) + p*DV, DV>>, p)
    BY <1>1, DeltaParts
  <2>3. QED
    BY <2>1, <2>2
<1>2. CASE job.kind \in AttnLoops
  <2>1. HeadWrites(job, p) \subseteq
          {<<b, p * MaxPos(job), job.base + i + 1>> : b \in {"scores", "probs"}, i \in 0 .. job.t - 1}
            \cup {<<"attn", i * (job.heads * HD) + p*HD, HD>> : i \in 0 .. job.t - 1}
    <3>1. CASE job.kind = "attn_token"
      <4>1. HeadWrites(job, p) = AttnTokenWrites(job, p)
        BY <3>1 DEF HeadWrites
      <4>2. job.t = 1
        BY <3>1, LoopFacts
      <4>3. 0 * (job.heads * HD) + p*HD = p*HD /\ 0 \in 0 .. job.t - 1 /\ job.base + 0 + 1 = job.base + 1
        BY <1>0, <4>2
      <4>4. <<"attn", p*HD, HD>> \in {<<"attn", i * (job.heads * HD) + p*HD, HD>> : i \in 0 .. job.t - 1}
        BY <4>3
      <4>5. \A b \in {"scores", "probs"} : <<b, p * MaxPos(job), job.base + 1>> \in
              {<<c, p * MaxPos(job), job.base + i + 1>> : c \in {"scores", "probs"}, i \in 0 .. job.t - 1}
        BY <4>3
      <4>6. QED
        BY <4>1, <4>4, <4>5 DEF AttnTokenWrites
    <3>2. CASE job.kind = "attn_prefill"
      <4>1. HeadWrites(job, p) = AttnPrefillWrites(job, p)
        BY <3>2 DEF HeadWrites
      <4>2. QED
        BY <4>1 DEF AttnPrefillWrites
    <3>3. CASE job.kind = "attn_batch"
      <4>1. HeadWrites(job, p) = AttnBatchWrites(job, p)
        BY <3>3 DEF HeadWrites
      <4>2. QED
        BY <4>1 DEF AttnBatchWrites, AttnPrefillWrites
    <3>4. QED
      BY <1>2, <3>1, <3>2, <3>3 DEF AttnLoops
  <2>2. /\ \A b \in {"scores", "probs"}, i \in 0 .. job.t - 1 :
             InPart(<<b, p * MaxPos(job), job.base + i + 1>>, p)
        /\ \A i \in 0 .. job.t - 1 : InPart(<<"attn", i * (job.heads * HD) + p*HD, HD>>, p)
    BY <1>2, AttnParts
  <2>3. QED
    BY <2>1, <2>2
<1>3. QED
  BY <1>1, <1>2, LoopFacts

\* Of the results it writes its whole part of every row.
LEMMA ResultsWritten ==
  ASSUME IsLoopJob, NEW b \in HeadResults(job), NEW p \in Nat, NEW i \in 0 .. RowsOf(b) - 1
  PROVE  b \in LoopBuffers /\ <<b, (i * job.heads + p) * Width(b), Width(b)>> \in HeadWrites(job, p)
<1>1. /\ DK \in Nat /\ DV \in Nat /\ HD \in Nat /\ job.heads \in Nat /\ job.t \in Nat
      /\ job.kind \in {"delta_token", "attn_token"} => job.t = 1
  BY LoopFacts
<1>2. CASE job.kind \in DeltaLoops
  <2>1. b \in {"rec", "heads"} /\ (job.kind = "delta_replay" => b = "rec")
    BY <1>2 DEF HeadResults
  <2>2. CASE b = "rec"
    <3>1. Width(b) = DK * DV /\ RowsOf(b) = 1 /\ b \in LoopBuffers
      BY <1>2, <2>2 DEF Width, RowsOf, LoopBuffers
    <3>2. i = 0
      BY <3>1
    <3>3. (i * job.heads + p) * Width(b) = p * DK * DV
      BY <1>1, <3>1, <3>2, PartStart
    <3>4. <<"rec", p * DK * DV, DK * DV>> \in HeadWrites(job, p)
      BY <1>2 DEF DeltaLoops, HeadWrites, DeltaTokenWrites, DeltaPrefillWrites, DeltaBatchWrites, DeltaReplayWrites
    <3>5. QED
      BY <2>2, <3>1, <3>3, <3>4
  <2>3. CASE b = "heads"
    <3>1. Width(b) = DV /\ RowsOf(b) = job.t /\ b \in LoopBuffers
      BY <1>2, <2>3 DEF Width, RowsOf, LoopBuffers
    <3>2. (i * job.heads + p) * DV = i * (job.heads * DV) + p * DV
      BY <1>1, PartStart
    <3>3. CASE job.kind = "delta_token"
      <4>1. i = 0
        BY <1>1, <3>1, <3>3
      <4>2. (i * job.heads + p) * DV = p * DV
        BY <1>1, <4>1, PartStart
      <4>3. HeadWrites(job, p) = DeltaTokenWrites(job, p)
        BY <3>3 DEF HeadWrites
      <4>4. <<"heads", p * DV, DV>> \in DeltaTokenWrites(job, p)
        BY DEF DeltaTokenWrites
      <4>5. QED
        BY <2>3, <3>1, <4>2, <4>3, <4>4
    <3>4. CASE job.kind = "delta_prefill"
      <4>1. HeadWrites(job, p) = DeltaPrefillWrites(job, p)
        BY <3>4 DEF HeadWrites
      <4>2. <<"heads", i * (job.heads * DV) + p * DV, DV>> \in DeltaPrefillWrites(job, p)
        BY <3>1 DEF DeltaPrefillWrites
      <4>3. QED
        BY <2>3, <3>1, <3>2, <4>1, <4>2
    <3>5. CASE job.kind = "delta_batch"
      <4>1. HeadWrites(job, p) = DeltaBatchWrites(job, p)
        BY <3>5 DEF HeadWrites
      <4>2. <<"heads", i * (job.heads * DV) + p * DV, DV>> \in DeltaBatchWrites(job, p)
        BY <3>1 DEF DeltaBatchWrites
      <4>3. QED
        BY <2>3, <3>1, <3>2, <4>1, <4>2
    <3>6. QED
      BY <1>2, <2>1, <2>3, <3>3, <3>4, <3>5 DEF DeltaLoops
  <2>4. QED
    BY <2>1, <2>2, <2>3
<1>3. CASE job.kind \in AttnLoops
  <2>1. b = "attn"
    BY <1>3 DEF HeadResults, DeltaLoops, AttnLoops
  <2>2. Width(b) = HD /\ RowsOf(b) = job.t /\ b \in LoopBuffers
    BY <1>3, <2>1 DEF Width, RowsOf, LoopBuffers, DeltaLoops, AttnLoops
  <2>3. (i * job.heads + p) * HD = i * (job.heads * HD) + p * HD
    BY <1>1, PartStart
  <2>4. CASE job.kind = "attn_token"
    <3>1. i = 0
      BY <1>1, <2>2, <2>4
    <3>2. (i * job.heads + p) * HD = p * HD
      BY <1>1, <3>1, PartStart
    <3>3. HeadWrites(job, p) = AttnTokenWrites(job, p)
      BY <2>4 DEF HeadWrites
    <3>4. <<"attn", p * HD, HD>> \in AttnTokenWrites(job, p)
      BY DEF AttnTokenWrites
    <3>5. QED
      BY <2>1, <2>2, <3>2, <3>3, <3>4
  <2>5. CASE job.kind \in {"attn_prefill", "attn_batch"}
    <3>1. AttnPrefillWrites(job, p) \subseteq HeadWrites(job, p)
      BY <2>5 DEF HeadWrites, AttnBatchWrites
    <3>2. <<"attn", i * (job.heads * HD) + p * HD, HD>> \in AttnPrefillWrites(job, p)
      BY <2>2 DEF AttnPrefillWrites
    <3>3. QED
      BY <2>1, <2>2, <2>3, <3>1, <3>2
  <2>6. QED
    BY <1>3, <2>4, <2>5 DEF AttnLoops
<1>4. QED
  BY <1>2, <1>3, LoopFacts

-----------------------------------------------------------------------------
(* The cells an item writes, and who may write them.                       *)

CellsOf(item) ==
  IF job.kind \in Products THEN {Cell(item.m, item.t0 + i, item.r) : i \in 0 .. item.tn - 1}
  ELSE UNION {{<<w[1], w[2] + i>> : i \in 0 .. w[3] - 1} : w \in HeadWrites(job, item)}

LEMMA CellIs ==
  ASSUME NEW m \in {1, 2}, NEW t, NEW r
  PROVE  Cell(m, t, r) = <<IF m = 1 THEN "y1" ELSE "y2", t * Rows + r>>
  BY DEF Cell

\* The place of a cell tells its row (its head), and is inside the buffer.
LEMMA PlaceOfRow ==
  ASSUME NEW n \in Nat, NEW rows \in Nat, NEW t \in 0 .. n - 1, NEW r \in 0 .. rows - 1
  PROVE  t * rows + r \in 0 .. n * rows - 1 /\ (t * rows + r) % rows = r
<1>1. rows \in Nat \ {0} /\ t \in Nat /\ r \in Nat
  OBVIOUS
<1>2. (t * rows + r) % rows = r
  BY <1>1, ModUnique
<1>3. t * rows + rows <= n * rows
  <2>1. (t + 1) * rows <= n * rows
    BY <1>1
  <2>2. (t + 1) * rows = t * rows + rows
    BY <1>1
  <2>3. QED
    BY <2>1, <2>2
<1>4. t * rows \in Nat /\ n * rows \in Nat
  BY <1>1
<1>5. QED
  BY <1>1, <1>2, <1>3, <1>4

LEMMA PlaceOfHead ==
  \A nn, hh, ww \in Nat : \A ii \in 0 .. nn - 1, pp \in 0 .. hh - 1, xx \in 0 .. ww - 1 :
    /\ (ii * hh + pp) * ww + xx \in 0 .. (nn * hh) * ww - 1
    /\ (((ii * hh + pp) * ww + xx) \div ww) % hh = pp
<1> SUFFICES ASSUME NEW n \in Nat, NEW heads \in Nat, NEW width \in Nat,
                    NEW i \in 0 .. n - 1, NEW p \in 0 .. heads - 1, NEW x \in 0 .. width - 1
             PROVE  /\ (i * heads + p) * width + x \in 0 .. (n * heads) * width - 1
                    /\ (((i * heads + p) * width + x) \div width) % heads = p
  OBVIOUS
<1> DEFINE c == i * heads + p
<1>1. c \in 0 .. n * heads - 1 /\ c % heads = p
  BY PlaceOfRow
<1>2. n * heads \in Nat
  OBVIOUS
<1> DEFINE N == n * heads
<1>3. N \in Nat /\ c \in 0 .. N - 1
  BY <1>1, <1>2
<1> HIDE DEF c, N
<1>4. c * width + x \in 0 .. N * width - 1
  BY <1>3, PlaceOfRow
<1>5. (c * width + x) \div width = c
  <2>1. width \in Nat \ {0} /\ c \in Nat
    BY <1>3
  <2>2. QED
    BY <2>1, DivUnique
<1>6. QED
  BY <1>1, <1>4, <1>5 DEF c, N
\* A place of a buffer of n parts of the given width is in one of them.
LEMMA PlaceIs ==
  \A nn, ww, ii \in Nat :
    ii < nn * ww => \E qq \in 0 .. nn - 1 : \E xx \in 0 .. ww - 1 : ii = qq * ww + xx
<1> SUFFICES ASSUME NEW n \in Nat, NEW width \in Nat, NEW i \in Nat, i < n * width
             PROVE  \E q \in 0 .. n - 1 : \E x \in 0 .. width - 1 : i = q * width + x
  OBVIOUS
<1>1. width # 0
  <2> SUFFICES ASSUME width = 0 PROVE FALSE
    OBVIOUS
  <2>1. n * width = 0
    OBVIOUS
  <2>2. QED
    BY <2>1
<1> DEFINE q == i \div width
           x == i % width
<1>2. i = q * width + x /\ q \in Nat /\ x \in 0 .. width - 1
  BY <1>1, DivModIs
<1> HIDE DEF q, x
<1>3. q * width \in Nat /\ n * width \in Nat
  BY <1>2
<1>4. q * width < n * width
  BY <1>2, <1>3
<1>5. ~(n <= q)
  BY <1>2, <1>4
<1>6. q \in 0 .. n - 1
  BY <1>2, <1>5
<1>7. QED
  BY <1>2, <1>6

\* The row or the head a cell belongs to.
Unit(c) == IF job.kind \in Products THEN c[2] % Rows ELSE (c[2] \div Width(c[1])) % job.heads

LEMMA RangeOfUnits ==
  ASSUME IsProductJob \/ IsLoopJob, Cardinality(DOMAIN pos) \in Nat \ {0}, NEW tid \in Nat
  PROVE  RangeOf(tid) \subseteq 0 .. (IF job.kind \in Products THEN Rows ELSE job.heads) - 1
<1> DEFINE units == IF job.kind \in Products THEN Rows ELSE job.heads
           N == Cardinality(DOMAIN pos)
<1>1. units \in Nat
  BY ProductFacts, LoopFacts DEF IsProductJob
<1>2. RangeOf(tid) = RowRange(units, tid, N)
  BY DEF RangeOf
<1>3. N \in Nat \ {0}
  OBVIOUS
<1> HIDE DEF units, N
<1>4. \E a \in 0 .. units, b \in 0 .. units : RowRange(units, tid, N) = a .. b - 1
  BY <1>1, <1>3, RowRangeIsRange, Zenon
<1>5. PICK a \in 0 .. units, b \in 0 .. units : RangeOf(tid) = a .. b - 1
  BY <1>2, <1>4
<1>6. RangeOf(tid) \subseteq 0 .. units - 1
  BY <1>1, <1>5
<1>7. QED
  BY <1>6 DEF units

\* An item of a participant's share writes inside the buffers, and only the participant's rows.
LEMMA ProductCells ==
  ASSUME IsProductJob, Cardinality(DOMAIN pos) \in Nat \ {0}, NEW tid \in Nat,
         NEW k \in 1 .. Len(Share(tid)), NEW c \in CellsOf(Share(tid)[k])
  PROVE  c[2] \in 0 .. Extent(c[1]) - 1 /\ Unit(c) \in RangeOf(tid)
<1> DEFINE item == Share(tid)[k]
           rs == RangeOf(tid)
<1>1. item \in Items(rs)
  <2>1. Share(tid) \in Seq(Items(rs))
    BY ShareOfProduct
  <2> HIDE DEF rs
  <2>2. QED
    BY <2>1, ElementOfSeq
<1>2. item.m \in {1, 2} /\ item.r \in rs /\ item.t0 \in Nat /\ item.tn \in Nat /\ item.t0 + item.tn <= job.n
  <2>1. item.m \in 1 .. Len(job.ws)
    BY <1>1 DEF Items
  <2>a. Len(job.ws) \in {1, 2}
    BY ProductFacts
  <2> DEFINE len == Len(job.ws)
             m == item.m
  <2>b. m \in 1 .. len /\ len \in {1, 2}
    BY <2>1, <2>a
  <2> HIDE DEF len, m
  <2>c. m \in {1, 2}
    BY <2>b
  <2>2. item.m \in {1, 2}
    BY <2>c DEF m
  <2>3. QED
    BY <1>1, <2>2 DEF Items
<1>3. PICK i \in 0 .. item.tn - 1 : c = Cell(item.m, item.t0 + i, item.r)
  BY DEF CellsOf, IsProductJob
<1> HIDE DEF item
<1>4. c[1] \in {"y1", "y2"} /\ c[2] = (item.t0 + i) * Rows + item.r
  BY <1>2, <1>3, CellIs
<1>5. Rows \in Nat /\ job.n \in Nat
  BY ProductFacts
<1>6. item.r \in 0 .. Rows - 1
  <2>1. rs \subseteq 0 .. Rows - 1
    BY RangeOfUnits DEF IsProductJob
  <2>2. QED
    BY <1>2, <2>1
<1>7. item.t0 + i \in 0 .. job.n - 1
  BY <1>2, <1>5
<1>8. c[2] \in 0 .. job.n * Rows - 1 /\ c[2] % Rows = item.r
  <2> DEFINE n == job.n
             rows == Rows
             t == item.t0 + i
             r == item.r
  <2>1. n \in Nat /\ rows \in Nat /\ t \in 0 .. n - 1 /\ r \in 0 .. rows - 1
    BY <1>5, <1>6, <1>7
  <2> HIDE DEF n, rows, t, r
  <2>2. t * rows + r \in 0 .. n * rows - 1 /\ (t * rows + r) % rows = r
    BY <2>1, PlaceOfRow
  <2>3. QED
    BY <1>4, <2>2 DEF n, rows, t, r
<1>9. Extent(c[1]) = job.n * Rows /\ Unit(c) = c[2] % Rows
  BY <1>4 DEF Extent, Unit, IsProductJob
<1>10. QED
  BY <1>2, <1>8, <1>9

LEMMA LoopCells ==
  ASSUME IsLoopJob, Cardinality(DOMAIN pos) \in Nat \ {0}, NEW tid \in Nat,
         NEW k \in 1 .. Len(Share(tid)), NEW c \in CellsOf(Share(tid)[k])
  PROVE  c[2] \in 0 .. Extent(c[1]) - 1 /\ Unit(c) \in RangeOf(tid)
<1> DEFINE p == Share(tid)[k]
           rs == RangeOf(tid)
<1>1. p \in rs
  <2>1. Share(tid) \in Seq(rs)
    BY ShareOfLoop
  <2> HIDE DEF rs
  <2>2. QED
    BY <2>1, ElementOfSeq
<1>2. job.heads \in Nat /\ p \in 0 .. job.heads - 1 /\ p \in Nat
  <2>1. rs \subseteq 0 .. job.heads - 1 /\ job.heads \in Nat
    BY RangeOfUnits, LoopFacts
  <2>2. p \in 0 .. job.heads - 1
    BY <1>1, <2>1
  <2>3. QED
    BY <2>1, <2>2
<1>3. PICK w \in HeadWrites(job, p) : \E x \in 0 .. w[3] - 1 : c = <<w[1], w[2] + x>>
  BY LoopFacts DEF CellsOf
<1>4. PICK x \in 0 .. w[3] - 1 : c = <<w[1], w[2] + x>>
  BY <1>3
<1>5. InPart(w, p)
  BY <1>2, WritesInPart
<1> HIDE DEF p
<1>6. PICK i \in 0 .. RowsOf(w[1]) - 1 : w[2] = (i * job.heads + p) * Width(w[1])
  BY <1>5 DEF InPart
<1> DEFINE b == w[1]
<1>7. b \in LoopBuffers /\ w[3] \in 0 .. Width(b)
  BY <1>5 DEF InPart
<1>8. Width(b) \in Nat /\ RowsOf(b) \in Nat /\ Extent(b) = (RowsOf(b) * job.heads) * Width(b)
  BY <1>7, PartSizes
<1>9. c[1] = b /\ c[2] = (i * job.heads + p) * Width(b) + x
  BY <1>4, <1>6
<1>10. i \in 0 .. RowsOf(b) - 1 /\ x \in 0 .. Width(b) - 1
  BY <1>4, <1>6, <1>7, <1>8
<1>11. /\ (i * job.heads + p) * Width(b) + x \in 0 .. (RowsOf(b) * job.heads) * Width(b) - 1
       /\ (((i * job.heads + p) * Width(b) + x) \div Width(b)) % job.heads = p
  <2> DEFINE n == RowsOf(b)
             heads == job.heads
             width == Width(b)
  <2>1. n \in Nat /\ heads \in Nat /\ width \in Nat /\ i \in 0 .. n - 1 /\ p \in 0 .. heads - 1 /\ x \in 0 .. width - 1
    BY <1>2, <1>8, <1>10
  <2> HIDE DEF n, heads, width
  <2>a. n \in Nat
    BY <2>1
  <2>b. heads \in Nat
    BY <2>1
  <2>c. width \in Nat
    BY <2>1
  <2>d. \A ii \in 0 .. n - 1, pp \in 0 .. heads - 1, xx \in 0 .. width - 1 :
    /\ (ii * heads + pp) * width + xx \in 0 .. (n * heads) * width - 1
    /\ (((ii * heads + pp) * width + xx) \div width) % heads = pp
    BY <2>a, <2>b, <2>c, PlaceOfHead, ZenonT(30)
  <2>2. /\ (i * heads + p) * width + x \in 0 .. (n * heads) * width - 1
        /\ (((i * heads + p) * width + x) \div width) % heads = p
    BY <2>1, <2>d, Zenon
  <2>3. QED
    BY <2>2 DEF n, heads, width
<1>12. Unit(c) = (c[2] \div Width(c[1])) % job.heads
  BY LoopFacts DEF Unit
<1>13. QED
  BY <1>1, <1>8, <1>9, <1>11, <1>12

\* The shares of the participants compute every cell of the results.
LEMMA ProductComplete ==
  ASSUME IsProductJob, Cardinality(DOMAIN pos) \in Nat \ {0},
         NEW b \in Results, NEW i \in 0 .. Extent(b) - 1
  PROVE  \E tid \in 0 .. Cardinality(DOMAIN pos) - 1 :
           \E k \in 1 .. Len(Share(tid)) : <<b, i>> \in CellsOf(Share(tid)[k])
<1> DEFINE N == Cardinality(DOMAIN pos)
<1>1. Rows \in Nat /\ job.n \in Nat /\ Len(job.ws) \in {1, 2}
  BY ProductFacts
<1>2. PICK m \in 1 .. Len(job.ws) : m \in {1, 2} /\ b = (IF m = 1 THEN "y1" ELSE "y2")
  <2>1. Results = IF Len(job.ws) = 2 THEN {"y1", "y2"} ELSE {"y1"}
    BY DEF Results, IsProductJob
  <2>2. QED
    BY <1>1, <2>1
<1>3. Extent(b) = job.n * Rows
  BY <1>2 DEF Extent, IsProductJob
<1>4. i \in Nat /\ Rows \in Nat \ {0} /\ i < job.n * Rows
  <2>1. job.n * Rows \in Nat
    BY <1>1
  <2>2. i \in Nat /\ i < job.n * Rows
    BY <1>3, <2>1
  <2>3. Rows # 0
    <3>1. SUFFICES ASSUME Rows = 0 PROVE FALSE
      OBVIOUS
    <3>2. job.n * Rows = 0
      BY <1>1, <3>1
    <3>3. QED
      BY <2>2, <3>2
  <2>4. QED
    BY <1>1, <2>2, <2>3
<1> DEFINE t == i \div Rows
           r == i % Rows
<1>5. i = t * Rows + r /\ t \in Nat /\ r \in 0 .. Rows - 1
  BY <1>4, DivModIs
<1> HIDE DEF t, r
<1>6. t \in 0 .. job.n - 1
  <2>1. t * Rows < job.n * Rows
    <3>1. t * Rows \in Nat /\ job.n * Rows \in Nat
      BY <1>1, <1>5
    <3>2. QED
      BY <1>4, <1>5, <3>1
  <2>2. ~(job.n <= t)
    BY <1>1, <1>5, <2>1
  <2>3. QED
    BY <1>1, <1>5, <2>2
<1>7. PICK tid \in 0 .. N - 1 : r \in RowRange(Rows, tid, N)
  <2>1. N \in Nat \ {0}
    OBVIOUS
  <2> HIDE DEF N
  <2>2. QED
    BY <1>1, <1>5, <2>1, RowRangesCover
<1>8. r \in RangeOf(tid) /\ tid \in Nat
  BY <1>7 DEF RangeOf, IsProductJob
<1>9. Covers(Share(tid), m, RangeOf(tid))
  BY <1>8, ShareOfProduct
<1>10. PICK k \in 1 .. Len(Share(tid)) :
         /\ Share(tid)[k].m = m /\ Share(tid)[k].r = r
         /\ t \in Share(tid)[k].t0 .. Share(tid)[k].t0 + Share(tid)[k].tn - 1
  BY <1>6, <1>8, <1>9 DEF Covers
<1> DEFINE item == Share(tid)[k]
<1>11. item.t0 \in Nat /\ item.tn \in Nat
  <2>1. Share(tid) \in Seq(Items(RangeOf(tid)))
    BY <1>8, ShareOfProduct
  <2>2. item \in Items(RangeOf(tid))
    <3> DEFINE S == Items(RangeOf(tid))
    <3>1. Share(tid) \in Seq(S)
      BY <2>1
    <3> HIDE DEF S
    <3>2. item \in S
      BY <3>1, ElementOfSeq
    <3>3. QED
      BY <3>2 DEF S
  <2>3. QED
    BY <2>2 DEF Items
<1>12. item.m = m /\ item.r = r /\ t \in item.t0 .. item.t0 + item.tn - 1
  BY <1>10
<1> HIDE DEF item
<1>13. t - item.t0 \in 0 .. item.tn - 1 /\ item.t0 + (t - item.t0) = t
  BY <1>5, <1>11, <1>12, SMTT(30)
<1>14. Cell(item.m, item.t0 + (t - item.t0), item.r) = <<b, i>>
  BY <1>2, <1>5, <1>12, <1>13, CellIs
<1>15. <<b, i>> \in CellsOf(item)
  BY <1>13, <1>14 DEF CellsOf, IsProductJob
<1>16. QED
  BY <1>15 DEF item

LEMMA LoopComplete ==
  ASSUME IsLoopJob, Cardinality(DOMAIN pos) \in Nat \ {0},
         NEW b \in Results, NEW i \in 0 .. Extent(b) - 1
  PROVE  \E tid \in 0 .. Cardinality(DOMAIN pos) - 1 :
           \E k \in 1 .. Len(Share(tid)) : <<b, i>> \in CellsOf(Share(tid)[k])
<1> DEFINE N == Cardinality(DOMAIN pos)
           W == Width(b)
           H == job.heads
           R == RowsOf(b)
<1>1. b \in HeadResults(job)
  BY LoopFacts DEF Results
<1>2. b \in LoopBuffers
  BY <1>1, LoopFacts DEF HeadResults, LoopBuffers, DeltaLoops, AttnLoops
<1>3. W \in Nat /\ R \in Nat /\ H \in Nat /\ Extent(b) = (R * H) * W
  BY <1>2, PartSizes, LoopFacts
<1> HIDE DEF W, H, R
<1>4. R * H \in Nat /\ (R * H) * W \in Nat
  <2>1. R * H \in Nat
    BY <1>3
  <2> DEFINE X == R * H
  <2>2. X \in Nat
    BY <2>1
  <2> HIDE DEF X
  <2>3. X * W \in Nat
    BY <1>3, <2>2
  <2>4. QED
    BY <2>1, <2>3 DEF X
<1>5. i \in Nat /\ i < (R * H) * W
  BY <1>3, <1>4
<1>6. \E c \in 0 .. R * H - 1 : \E x \in 0 .. W - 1 : i = c * W + x
  <2> DEFINE X == R * H
  <2>1. X \in Nat /\ i \in Nat /\ i < X * W
    BY <1>4, <1>5
  <2> HIDE DEF X
  <2>a. X \in Nat
    BY <2>1
  <2>b. W \in Nat
    BY <1>3
  <2>c. i \in Nat
    BY <2>1
  <2>d. i < X * W => \E c \in 0 .. X - 1 : \E x \in 0 .. W - 1 : i = c * W + x
    BY <2>a, <2>b, <2>c, PlaceIs, Zenon
  <2>2. \E c \in 0 .. X - 1 : \E x \in 0 .. W - 1 : i = c * W + x
    BY <2>1, <2>d, Zenon
  <2>3. QED
    BY <2>2 DEF X
<1>7. PICK c \in 0 .. R * H - 1 : \E x \in 0 .. W - 1 : i = c * W + x
  BY <1>6
<1>a. PICK x \in 0 .. W - 1 : i = c * W + x
  BY <1>7
<1>8. c \in Nat /\ c < R * H
  BY <1>4
<1>c. \E row \in 0 .. R - 1 : \E p \in 0 .. H - 1 : c = row * H + p
  <2>1. R \in Nat
    BY <1>3
  <2>2. H \in Nat
    BY <1>3
  <2>3. c \in Nat
    BY <1>8
  <2>4. c < R * H => \E row \in 0 .. R - 1 : \E p \in 0 .. H - 1 : c = row * H + p
    BY <2>1, <2>2, <2>3, PlaceIs, Zenon
  <2>5. c < R * H
    BY <1>8
  <2>6. QED
    BY <2>4, <2>5, Zenon
<1>9. PICK row \in 0 .. R - 1 : \E p \in 0 .. H - 1 : c = row * H + p
  BY <1>c
<1>b. PICK p \in 0 .. H - 1 : c = row * H + p
  BY <1>9
<1>10. PICK tid \in 0 .. N - 1 : p \in RowRange(H, tid, N)
  <2>1. N \in Nat \ {0}
    OBVIOUS
  <2> HIDE DEF N
  <2>2. QED
    BY <1>3, <2>1, RowRangesCover
<1>11. p \in RangeOf(tid) /\ tid \in Nat /\ p \in Nat
  BY <1>b, <1>10, LoopFacts DEF RangeOf, H
<1>12. PICK k \in 1 .. Len(Share(tid)) : Share(tid)[k] = p
  BY <1>11, ShareOfLoop
<1>13. <<b, (row * H + p) * W, W>> \in HeadWrites(job, p)
  BY <1>1, <1>11, ResultsWritten DEF H, W, R
<1>14. <<b, i>> \in CellsOf(p)
  <2> DEFINE w == <<b, (row * H + p) * W, W>>
             cells(v) == {<<v[1], v[2] + z>> : z \in 0 .. v[3] - 1}
  <2>1. w[1] = b /\ w[2] = (row * H + p) * W /\ w[3] = W
    OBVIOUS
  <2>2. <<b, i>> = <<w[1], w[2] + x>> /\ x \in 0 .. w[3] - 1
    BY <1>a, <1>b, <2>1
  <2>3. <<b, i>> \in cells(w)
    BY <2>2
  <2>4. w \in HeadWrites(job, p)
    BY <1>13
  <2> HIDE DEF w
  <2>5. CellsOf(p) = UNION {cells(v) : v \in HeadWrites(job, p)}
    BY LoopFacts DEF CellsOf
  <2> HIDE DEF cells
  <2>6. QED
    BY <2>3, <2>4, <2>5
<1>15. QED
  BY <1>12, <1>14

-----------------------------------------------------------------------------
(* The invariant: while the participants run, what is written is what they *)
(* have done, each in its own rows.                                        *)

\* A loop or a product that runs has a position for every participant.
Positions ==
  /\ IsProductJob \/ IsLoopJob
  /\ pos \in [0 .. Participants - 1 -> Nat]
  /\ \A tid \in DOMAIN pos : pos[tid] <= Len(Share(tid))

\* A cell that is written is in its buffer, and its only writer is the participant it belongs to.
Owned ==
  \A c \in DOMAIN y : /\ c[2] \in 0 .. Extent(c[1]) - 1
                      /\ \E tid \in DOMAIN pos : y[c].by = {tid} /\ Unit(c) \in RangeOf(tid)

\* All a participant is past is written.
Progress ==
  \A tid \in DOMAIN pos : \A i \in 1 .. pos[tid] : CellsOf(Share(tid)[i]) \subseteq DOMAIN y

IInv ==
  /\ job \in Jobs /\ phase \in {"fill", "ready", "run", "done"}
  /\ phase \in {"fill", "ready"} => y = <<>>
  /\ phase = "run" => Positions /\ Owned /\ Progress
  /\ OneWriterPerCell

-----------------------------------------------------------------------------
(* What does not change while the participants run.                        *)

LEMMA SameItems ==
  ASSUME UNCHANGED job
  PROVE  /\ \A rs : MatmulItems(rs)' = MatmulItems(rs)
         /\ \A rs : BlockedItems(rs)' = BlockedItems(rs)
         /\ Blocked' = Blocked
<1>1. Rows' = Rows /\ TileFor' = TileFor /\ Blocked' = Blocked
  BY DEF Rows, TileFor, Blocked, ActKind
<1>2. ASSUME NEW rs PROVE MatmulItems(rs)' = MatmulItems(rs)
  BY DEF MatmulItems
<1>3. ASSUME NEW rs PROVE BlockedItems(rs)' = BlockedItems(rs)
  BY <1>1 DEF BlockedItems
<1>4. QED
  BY <1>1, <1>2, <1>3

LEMMA SameShares ==
  ASSUME UNCHANGED job, DOMAIN pos' = DOMAIN pos, NEW tid
  PROVE  Share(tid)' = Share(tid) /\ RangeOf(tid)' = RangeOf(tid)
<1>1. Rows' = Rows
  BY DEF Rows
<1>2. RangeOf(tid)' = RangeOf(tid)
  BY <1>1 DEF RangeOf
<1> DEFINE rs == RangeOf(tid)
           share(items, blocked, kind) ==
             IF rs = {} THEN <<>>
             ELSE CASE kind = "matvec"  -> RowItems(1, rs)
                    [] kind = "matvec2" -> RowItems(1, rs) \o RowItems(2, rs)
                    [] kind = "matmul"  -> IF Blocked THEN blocked ELSE items
                    [] OTHER -> [i \in 1 .. Cardinality(rs) |-> Min(rs) + i - 1]
<1>3. Share(tid) = share(MatmulItems(rs), BlockedItems(rs), job.kind)
  BY Zenon DEF Share, RangeOf
<1>4. Share(tid)' = share(MatmulItems(rs), BlockedItems(rs), job.kind)'
  BY Zenon DEF Share, RangeOf
<1>5. MatmulItems(rs)' = MatmulItems(rs) /\ BlockedItems(rs)' = BlockedItems(rs) /\ Blocked' = Blocked
  BY <1>2, SameItems
<1>6. QED
  BY <1>2, <1>3, <1>4, <1>5

LEMMA SameCells ==
  ASSUME UNCHANGED job
  PROVE  /\ \A item : CellsOf(item)' = CellsOf(item)
         /\ \A b : Extent(b)' = Extent(b)
         /\ \A c : Unit(c)' = Unit(c)
         /\ Participants' = Participants
         /\ IsProductJob' = IsProductJob /\ IsLoopJob' = IsLoopJob
         /\ Results' = Results
<1>1. Rows' = Rows
  BY DEF Rows
<1>2. ASSUME NEW item PROVE CellsOf(item)' = CellsOf(item)
  BY <1>1 DEF CellsOf, Cell
<1>3. ASSUME NEW b PROVE Extent(b)' = Extent(b)
  BY <1>1 DEF Extent
<1>4. ASSUME NEW c PROVE Unit(c)' = Unit(c)
  BY <1>1 DEF Unit, Width
<1>5. Participants' = Participants
  BY <1>1 DEF Participants, MatmulThreads
<1>6. IsProductJob' = IsProductJob /\ IsLoopJob' = IsLoopJob
  BY DEF IsProductJob, IsLoopJob
<1>7. Results' = Results
  BY DEF Results
<1>8. QED
  BY <1>2, <1>3, <1>4, <1>5, <1>6, <1>7

\* An item writes its cells, in the name of the participant.
LEMMA StepWrites ==
  ASSUME NEW tid, NEW item,
         IF job.kind \in Products THEN ProductStep(tid, item) ELSE HeadStep(tid, item)
  PROVE  /\ DOMAIN y' = DOMAIN y \cup CellsOf(item)
         /\ \A c \in DOMAIN y' : y'[c].by = (IF c \in DOMAIN y THEN y[c].by ELSE {})
                                              \cup (IF c \in CellsOf(item) THEN {tid} ELSE {})
<1>1. \E v : DOMAIN v = CellsOf(item) /\ y' = Written(v, tid)
  <2>1. CASE job.kind \in Products
    <3> DEFINE row == job.ws[item.m][item.r + 1]
               tile == DotTile(row, item.t0, item.tn)
               cells == [i \in 0..item.tn-1 |-> Cell(item.m, item.t0 + i, item.r)]
               value(i) == IF Blocked THEN [blk \in Blocks |-> tile[blk][i]] ELSE OneRow(row, act[item.t0])
               v == [c \in {cells[i] : i \in 0..item.tn-1} |->
                       value(CHOOSE i \in 0..item.tn-1 : cells[i] = c)]
    <3>1. y' = Written(v, tid)
      BY <2>1, Zenon DEF ProductStep
    <3> HIDE DEF value
    <3>2. DOMAIN v = {cells[i] : i \in 0..item.tn-1}
      OBVIOUS
    <3>3. {cells[i] : i \in 0..item.tn-1} = CellsOf(item)
      BY <2>1 DEF CellsOf
    <3> HIDE DEF v, cells
    <3>4. QED
      BY <3>1, <3>2, <3>3
  <2>2. CASE job.kind \notin Products
    <3> DEFINE v == [c \in CellsOf(item) |-> None]
    <3>1. y' = Written(v, tid)
      BY <2>2 DEF HeadStep, CellsOf
    <3>2. DOMAIN v = CellsOf(item)
      OBVIOUS
    <3> HIDE DEF v
    <3>3. QED
      BY <3>1, <3>2
  <2>3. QED
    BY <2>1, <2>2
<1>2. PICK v : DOMAIN v = CellsOf(item) /\ y' = Written(v, tid)
  BY <1>1
<1>3. DOMAIN y' = DOMAIN y \cup CellsOf(item)
  BY <1>2 DEF Written
<1>4. \A c \in DOMAIN y' : y'[c].by = (IF c \in DOMAIN y THEN y[c].by ELSE {})
                                        \cup (IF c \in CellsOf(item) THEN {tid} ELSE {})
  BY <1>2 DEF Written
<1>5. QED
  BY <1>3, <1>4

-----------------------------------------------------------------------------
LEMMA KindOfJob ==
  ASSUME job \in Jobs, job.kind # "sum" PROVE IsProductJob \/ IsLoopJob
<1>1. IsProduct(job) \/ IsLoop(job)
  BY MatmulAssumption
<1>2. IsProduct(job) => job.kind \in Products
  BY DEF IsProduct, Products
<1>3. IsLoop(job) => job.kind \notin Products
  BY DEF IsLoop, Products, DeltaLoops, AttnLoops
<1>4. QED
  BY <1>1, <1>2, <1>3 DEF IsProductJob, IsLoopJob

LEMMA PositionsFacts ==
  ASSUME Positions
  PROVE  /\ Participants \in Nat \ {0} /\ DOMAIN pos = 0 .. Participants - 1
         /\ Cardinality(DOMAIN pos) = Participants
         /\ \A tid \in DOMAIN pos : tid \in Nat /\ pos[tid] \in Nat
<1>1. Participants \in Nat \ {0}
  BY ParticipantsPositive DEF Positions
<1>2. DOMAIN pos = 0 .. Participants - 1
  BY DEF Positions
<1>3. Cardinality(0 .. Participants - 1) = Participants
  <2> DEFINE n == Participants
  <2>1. n \in Nat \ {0}
    BY <1>1
  <2> HIDE DEF n
  <2>2. Cardinality(0 .. n - 1) = n
    BY <2>1, FS_Interval
  <2>3. QED
    BY <2>2 DEF n
<1>4. QED
  BY <1>1, <1>2, <1>3 DEF Positions

LEMMA SharesAreSequences ==
  (IsProductJob \/ IsLoopJob) /\ Cardinality(DOMAIN pos) \in Nat \ {0} =>
    \A tid \in Nat : Len(Share(tid)) \in Nat
<1> SUFFICES ASSUME IsProductJob \/ IsLoopJob, Cardinality(DOMAIN pos) \in Nat \ {0}, NEW tid \in Nat
             PROVE  Len(Share(tid)) \in Nat
  OBVIOUS
<1>1. CASE IsProductJob
  <2> DEFINE S == Items(RangeOf(tid))
  <2>1. Share(tid) \in Seq(S)
    BY <1>1, ShareOfProduct
  <2> HIDE DEF S
  <2>2. QED
    BY <2>1, LenProperties
<1>2. CASE IsLoopJob
  <2> DEFINE S == RangeOf(tid)
  <2>1. Share(tid) \in Seq(S)
    BY <1>2, ShareOfLoop
  <2> HIDE DEF S
  <2>2. QED
    BY <2>1, LenProperties
<1>3. QED
  BY <1>1, <1>2

LEMMA ShareFacts ==
  ASSUME Positions, NEW tid \in DOMAIN pos
  PROVE  /\ Len(Share(tid)) \in Nat
         /\ \A k \in 1 .. Len(Share(tid)) : \A c \in CellsOf(Share(tid)[k]) :
              c[2] \in 0 .. Extent(c[1]) - 1 /\ Unit(c) \in RangeOf(tid)
<1>1. tid \in Nat /\ Cardinality(DOMAIN pos) \in Nat \ {0}
  BY PositionsFacts
<1>2. Len(Share(tid)) \in Nat
  BY <1>1, SharesAreSequences DEF Positions
<1>3. \A k \in 1 .. Len(Share(tid)) : \A c \in CellsOf(Share(tid)[k]) :
        c[2] \in 0 .. Extent(c[1]) - 1 /\ Unit(c) \in RangeOf(tid)
  BY <1>1, ProductCells, LoopCells DEF Positions
<1>4. QED
  BY <1>2, <1>3

\* A row or a head belongs to one participant.
LEMMA OneOwner ==
  ASSUME Positions, NEW s \in DOMAIN pos, NEW t \in DOMAIN pos, NEW u \in RangeOf(s), u \in RangeOf(t)
  PROVE  s = t
<1> DEFINE units == IF job.kind \in Products THEN Rows ELSE job.heads
           n == Cardinality(DOMAIN pos)
<1>1. s \in Nat /\ t \in Nat /\ n \in Nat \ {0}
  BY PositionsFacts
<1>2. units \in Nat
  BY ProductFacts, LoopFacts DEF Positions, IsProductJob
<1>3. u \in RowRange(units, s, n) /\ u \in RowRange(units, t, n)
  BY DEF RangeOf
<1> HIDE DEF units, n
<1>4. QED
  BY <1>1, <1>2, <1>3, RowRangesDisjoint

LEMMA Complete ==
  ASSUME Positions, Progress, \A tid \in DOMAIN pos : pos[tid] = Len(Share(tid)),
         NEW b \in Results, NEW i \in 0 .. Extent(b) - 1
  PROVE  <<b, i>> \in DOMAIN y
<1>1. Cardinality(DOMAIN pos) \in Nat \ {0} /\ DOMAIN pos = 0 .. Cardinality(DOMAIN pos) - 1
  BY PositionsFacts
<1>2. \E tid \in 0 .. Cardinality(DOMAIN pos) - 1 :
        \E k \in 1 .. Len(Share(tid)) : <<b, i>> \in CellsOf(Share(tid)[k])
  BY <1>1, ProductComplete, LoopComplete DEF Positions
<1>3. PICK tid \in DOMAIN pos : \E k \in 1 .. Len(Share(tid)) : <<b, i>> \in CellsOf(Share(tid)[k])
  BY <1>1, <1>2
<1>4. PICK k \in 1 .. Len(Share(tid)) : <<b, i>> \in CellsOf(Share(tid)[k])
  BY <1>3
<1>5. k \in 1 .. pos[tid]
  BY <1>4
<1>6. QED
  BY <1>4, <1>5 DEF Progress

\* A participant's step.
LEMMA StepKeeps ==
  ASSUME IInv, NEW tid \in DOMAIN pos, Step(tid) PROVE IInv'
<1> DEFINE item == Share(tid)[pos[tid] + 1]
<1>1. phase = "run" /\ Positions /\ Owned /\ Progress /\ pos[tid] < Len(Share(tid))
  BY DEF IInv, Step
<1>2. UNCHANGED <<job, act, phase>> /\ pos' = [pos EXCEPT ![tid] = @ + 1]
  BY DEF Step
<1>3. DOMAIN pos' = DOMAIN pos /\ pos'[tid] = pos[tid] + 1
      /\ \A t \in DOMAIN pos : t # tid => pos'[t] = pos[t]
  BY <1>2
<1>4. \A t : Share(t)' = Share(t) /\ RangeOf(t)' = RangeOf(t)
  BY <1>2, <1>3, SameShares
<1>5. /\ \A it : CellsOf(it)' = CellsOf(it)
      /\ \A b : Extent(b)' = Extent(b)
      /\ \A c : Unit(c)' = Unit(c)
      /\ Participants' = Participants
      /\ IsProductJob' = IsProductJob /\ IsLoopJob' = IsLoopJob
  BY <1>2, SameCells
<1>6. /\ pos[tid] \in Nat /\ Len(Share(tid)) \in Nat /\ pos[tid] + 1 \in 1 .. Len(Share(tid))
  <2>1. pos[tid] \in Nat
    BY <1>1, PositionsFacts
  <2>2. Len(Share(tid)) \in Nat
    BY <1>1, ShareFacts
  <2>3. QED
    BY <1>1, <2>1, <2>2
<1>7. \A c \in CellsOf(item) : c[2] \in 0 .. Extent(c[1]) - 1 /\ Unit(c) \in RangeOf(tid)
  BY <1>1, <1>6, ShareFacts
<1>8. /\ DOMAIN y' = DOMAIN y \cup CellsOf(item)
      /\ \A c \in DOMAIN y' : y'[c].by = (IF c \in DOMAIN y THEN y[c].by ELSE {})
                                           \cup (IF c \in CellsOf(item) THEN {tid} ELSE {})
  <2>1. IF job.kind \in Products THEN ProductStep(tid, item) ELSE HeadStep(tid, item)
    BY DEF Step
  <2> HIDE DEF item
  <2>2. QED
    BY <2>1, StepWrites
<1>9. Positions'
  <2>1. pos' \in [0 .. Participants - 1 -> Nat]
    BY <1>1, <1>2, <1>6 DEF Positions
  <2>2. \A t \in DOMAIN pos : pos'[t] <= Len(Share(t))
    BY <1>1, <1>3, <1>6 DEF Positions
  <2>3. QED
    BY <1>1, <1>3, <1>4, <1>5, <2>1, <2>2 DEF Positions
<1>10. Owned'
  <2> SUFFICES ASSUME NEW c \in DOMAIN y'
               PROVE  /\ c[2] \in 0 .. Extent(c[1]) - 1
                      /\ \E t \in DOMAIN pos : y'[c].by = {t} /\ Unit(c) \in RangeOf(t)
    BY <1>3, <1>4, <1>5 DEF Owned
  <2>1. CASE c \in CellsOf(item) /\ c \in DOMAIN y
    <3>1. PICK t \in DOMAIN pos : y[c].by = {t} /\ Unit(c) \in RangeOf(t)
      BY <1>1, <2>1 DEF Owned
    <3>2. Unit(c) \in RangeOf(tid) /\ c[2] \in 0 .. Extent(c[1]) - 1
      BY <1>7, <2>1
    <3>3. t = tid
      BY <1>1, <3>1, <3>2, OneOwner
    <3>4. y'[c].by = {tid}
      BY <1>8, <2>1, <3>1, <3>3
    <3>5. QED
      BY <3>2, <3>4
  <2>2. CASE c \in CellsOf(item) /\ c \notin DOMAIN y
    <3>1. y'[c].by = {tid}
      BY <1>8, <2>2
    <3>2. QED
      BY <1>7, <2>2, <3>1
  <2>3. CASE c \notin CellsOf(item)
    <3>1. c \in DOMAIN y /\ y'[c].by = y[c].by
      BY <1>8, <2>3
    <3>2. QED
      BY <1>1, <3>1 DEF Owned
  <2>4. QED
    BY <2>1, <2>2, <2>3
<1>11. Progress'
  <2> SUFFICES ASSUME NEW t \in DOMAIN pos, NEW i \in 1 .. pos'[t]
               PROVE  CellsOf(Share(t)[i]) \subseteq DOMAIN y'
    BY <1>3, <1>4, <1>5 DEF Progress
  <2>1. CASE t = tid /\ i = pos[tid] + 1
    BY <1>8, <2>1
  <2>2. CASE ~(t = tid /\ i = pos[tid] + 1)
    <3>1. i \in 1 .. pos[t]
      BY <1>3, <1>6, <2>2
    <3>2. CellsOf(Share(t)[i]) \subseteq DOMAIN y
      BY <1>1, <3>1 DEF Progress
    <3>3. QED
      BY <1>8, <3>2
  <2>3. QED
    BY <2>1, <2>2
<1>12. OneWriterPerCell'
  <2>1. \A c \in DOMAIN y' : c[2] \in 0 .. Extent(c[1])' - 1 /\ Cardinality(y'[c].by) = 1
    <3> SUFFICES ASSUME NEW c \in DOMAIN y'
                 PROVE  c[2] \in 0 .. Extent(c[1]) - 1 /\ Cardinality(y'[c].by) = 1
      BY <1>5
    <3>1. PICK t : y'[c].by = {t} /\ c[2] \in 0 .. Extent(c[1]) - 1
      BY <1>5, <1>10 DEF Owned
    <3>2. Cardinality({t}) = 1
      BY FS_Singleton
    <3>3. QED
      BY <3>1, <3>2
  <2>2. phase' # "done"
    BY <1>1, <1>2
  <2>3. QED
    BY <2>1, <2>2 DEF OneWriterPerCell
<1>13. QED
  BY <1>1, <1>2, <1>9, <1>10, <1>11, <1>12 DEF IInv

LEMMA NothingWritten == ASSUME y = <<>> PROVE DOMAIN y = {}
  OBVIOUS

LEMMA InitIInv == Init => IInv
<1> SUFFICES ASSUME Init PROVE IInv
  OBVIOUS
<1>1. job \in Jobs /\ phase \in {"fill", "ready"} /\ y = <<>>
  BY DEF Init
<1>2. OneWriterPerCell
  BY <1>1, NothingWritten DEF OneWriterPerCell
<1>3. QED
  BY <1>1, <1>2 DEF IInv

LEMMA NextIInv == IInv /\ [Next]_vars => IInv'
<1> SUFFICES ASSUME IInv, [Next]_vars PROVE IInv'
  OBVIOUS
<1>1. CASE Fill
  <2>1. phase' = "ready" /\ job' = job /\ y' = y /\ y = <<>> /\ job \in Jobs
    BY <1>1 DEF Fill, IInv
  <2>2. DOMAIN y' = {}
    BY <2>1, NothingWritten
  <2>3. OneWriterPerCell'
    BY <2>1, <2>2 DEF OneWriterPerCell
  <2>4. QED
    BY <2>1, <2>3 DEF IInv
<1>2. CASE Dispatch
  <2>1. /\ job' = job /\ y' = y /\ y = <<>> /\ job \in Jobs
        /\ IsProductJob \/ IsLoopJob
    BY <1>2, KindOfJob DEF Dispatch, IInv
  <2>2. DOMAIN y = {} /\ DOMAIN y' = {}
    BY <2>1, NothingWritten
  <2>3. CASE job.kind = "matmul" /\ job.n = 0 /\ phase' = "done"
    <3>1. Extent("y1") = 0 /\ Results = {"y1"}
      <4>1. IsProductJob
        BY <2>1, <2>3, LoopFacts DEF Products
      <4>2. Rows \in Nat /\ (Len(job.ws) # 2)
        BY <2>3, <4>1, ProductFacts
      <4>3. Extent("y1") = job.n * Rows
        BY <4>1 DEF Extent, IsProductJob
      <4>4. QED
        BY <2>3, <4>1, <4>2, <4>3 DEF Results, IsProductJob
    <3>2. Extent("y1")' = 0 /\ Results' = {"y1"}
      BY <2>1, <3>1, SameCells
    <3>3. OneWriterPerCell'
      BY <2>2, <3>2 DEF OneWriterPerCell
    <3>4. QED
      BY <2>1, <2>3, <3>3 DEF IInv
  <2>4. CASE pos' = [tid \in 0..Participants-1 |-> 0] /\ phase' = "run"
    <3>1. Participants \in Nat \ {0} /\ Participants' = Participants
      BY <2>1, ParticipantsPositive, SameCells
    <3>2. pos' \in [0 .. Participants' - 1 -> Nat] /\ \A tid \in DOMAIN pos' : pos'[tid] = 0
      BY <2>4, <3>1
    <3>3. \A tid \in DOMAIN pos' : pos'[tid] <= Len(Share(tid)')
      <4>1. ((IsProductJob \/ IsLoopJob) /\ Cardinality(DOMAIN pos) \in Nat \ {0} =>
              \A tid \in Nat : Len(Share(tid)) \in Nat)'
        BY SharesAreSequences, PTL
      <4>2. Cardinality(DOMAIN pos') \in Nat \ {0}
        <5> DEFINE n == Participants
        <5>1. n \in Nat \ {0} /\ DOMAIN pos' = 0 .. n - 1
          BY <2>4, <3>1
        <5> HIDE DEF n
        <5>2. Cardinality(0 .. n - 1) = n
          BY <5>1, FS_Interval
        <5>3. QED
          BY <5>1, <5>2
      <4>3. DOMAIN pos' \subseteq Nat
        BY <2>4, <3>1
      <4>4. \A tid \in DOMAIN pos' : Len(Share(tid)') \in Nat
        BY <2>1, <4>1, <4>2, <4>3, SameCells
      <4>5. QED
        BY <3>2, <4>4
    <3>4. Positions'
      BY <2>1, <3>2, <3>3, SameCells DEF Positions
    <3>5. Owned' /\ Progress'
      BY <2>2, <3>2 DEF Owned, Progress
    <3>6. OneWriterPerCell'
      BY <2>2, <2>4 DEF OneWriterPerCell
    <3>7. QED
      BY <2>1, <2>4, <3>4, <3>5, <3>6 DEF IInv
  <2>5. QED
    BY <1>2, <2>3, <2>4 DEF Dispatch
<1>3. CASE Return
  <2>1. /\ phase = "run" /\ Positions /\ Progress
        /\ \A tid \in DOMAIN pos : pos[tid] = Len(Share(tid))
        /\ phase' = "done" /\ UNCHANGED <<job, act, pos, y>>
    BY <1>3 DEF Return, IInv
  <2>2. \A b \in Results : \A i \in 0 .. Extent(b) - 1 : <<b, i>> \in DOMAIN y
    BY <2>1, Complete
  <2>3. \A c \in DOMAIN y : c[2] \in 0 .. Extent(c[1]) - 1 /\ Cardinality(y[c].by) = 1
    BY DEF IInv, OneWriterPerCell
  <2>4. Results' = Results /\ \A b : Extent(b)' = Extent(b)
    BY <2>1, SameCells
  <2>5. OneWriterPerCell'
    BY <2>1, <2>2, <2>3, <2>4 DEF OneWriterPerCell
  <2>6. QED
    BY <2>1, <2>5 DEF IInv
<1>4. CASE Reduce
  <2> DEFINE c0 == <<"sum", 0>>
  <2>1. job' = job /\ job \in Jobs /\ job.kind = "sum" /\ phase' = "done" /\ y = <<>>
    BY <1>4 DEF Reduce, IInv
  <2>2. DOMAIN y = {}
    BY <2>1, NothingWritten
  <2>3. DOMAIN y' = {c0} /\ y'[c0].by = {0}
    <3> DEFINE v == [c \in {c0} |-> IF job.simd THEN SumVector(job.n) ELSE SumScalar(job.n)]
    <3>1. y' = Written(v, 0)
      BY <1>4 DEF Reduce
    <3>2. DOMAIN v = {c0}
      OBVIOUS
    <3> HIDE DEF v
    <3>3. QED
      BY <2>2, <3>1, <3>2 DEF Written
  <2>4. Extent("sum")' = 1 /\ Results' = {"sum"}
    BY <2>1 DEF Extent, Results, Products
  <2>5. Cardinality({0}) = 1
    BY FS_Singleton
  <2>6. \A c \in DOMAIN y' : c[2] \in 0 .. Extent(c[1])' - 1 /\ Cardinality(y'[c].by) = 1
    <3>1. \A c \in DOMAIN y' : c = c0
      BY <2>3
    <3>2. c0[1] = "sum" /\ c0[2] = 0 /\ Cardinality(y'[c0].by) = 1
      BY <2>3, <2>5
    <3>3. QED
      BY <2>4, <3>1, <3>2
  <2>7. \A b \in Results' : \A i \in 0 .. Extent(b)' - 1 : <<b, i>> \in DOMAIN y'
    BY <2>3, <2>4
  <2>8. OneWriterPerCell'
    BY <2>6, <2>7 DEF OneWriterPerCell
  <2>9. QED
    BY <2>1, <2>8 DEF IInv
<1>5. ASSUME NEW tid \in DOMAIN pos, Step(tid) PROVE IInv'
  BY <1>5, StepKeeps
<1>6. CASE UNCHANGED vars
  <2>1. UNCHANGED <<job, act, pos, y, phase>>
    BY <1>6 DEF vars
  <2>2. /\ (\A t : Share(t)' = Share(t) /\ RangeOf(t)' = RangeOf(t))
        /\ \A it : CellsOf(it)' = CellsOf(it)
        /\ \A b : Extent(b)' = Extent(b)
        /\ \A c : Unit(c)' = Unit(c)
        /\ Participants' = Participants /\ Results' = Results
        /\ IsProductJob' = IsProductJob /\ IsLoopJob' = IsLoopJob
    BY <2>1, SameShares, SameCells
  <2>3. Positions => Positions'
    BY <2>1, <2>2 DEF Positions
  <2>4. Owned => Owned'
    BY <2>1, <2>2 DEF Owned
  <2>5. Progress => Progress'
    BY <2>1, <2>2 DEF Progress
  <2>6. OneWriterPerCell => OneWriterPerCell'
    BY <2>1, <2>2 DEF OneWriterPerCell
  <2>7. QED
    BY <2>1, <2>3, <2>4, <2>5, <2>6 DEF IInv
<1>7. QED
  BY <1>1, <1>2, <1>3, <1>4, <1>5, <1>6 DEF Next

-----------------------------------------------------------------------------
(* Every write of a kernel's job is inside its buffer, no two participants *)
(* write one cell, and when the pool returns every cell of the results has *)
(* been written, for every number of workers, every shape of the rows and  *)
(* the heads, every tile and block: the ranges of matvec.rs and the head   *)
(* loops that share their buffers through pool::SharedMut do not overlap.  *)
THEOREM MatmulOneWriterPerCell == Spec => []OneWriterPerCell
<1>1. IInv => OneWriterPerCell
  BY DEF IInv
<1>2. QED
  BY <1>1, InitIInv, NextIInv, PTL DEF Spec

=============================================================================
