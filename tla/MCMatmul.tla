------------------------------ MODULE MCMatmul ------------------------------
(***************************************************************************)
(* Instance of Matmul: every kernel on rows of bytes and activations that  *)
(* reach its extremes (all scales and codes at their greatest, amax ties   *)
(* of both signs, zeros), every way the rows and the activations split.    *)
(***************************************************************************)
EXTENDS Matmul

Bytes(pattern, i) ==
  CASE pattern = "mixed"  -> (((i*i*7 + 31*i + 13) * 97) \div 8) % 256
    [] pattern = "full"   -> 255
    [] pattern = "lowest" -> 128

\* r: which row of the matrix
WeightRow(ty, cols, pattern, r) ==
  [i \in 0..(cols \div BlockLen(ty)) * (IF ty = "F32" THEN 1 ELSE BlockBytes(ty))-1 |->
     Bytes(pattern, i + 37*r)]

Activation(cols, pattern, t) ==
  [i \in 0..cols-1 |->
     CASE pattern = "mixed" -> ((i*i*13 + 17*i + 29*t) % 201) - 100
       [] pattern = "ties"  -> IF i % 3 = 2 THEN -9 ELSE IF (i + t) % 2 = 0 THEN 9 ELSE 4
       [] pattern = "zero"  -> 0
       [] pattern = "equal" -> 5 + t]

Product(kind, ty, cols, rows, wp, xp, n, simd, fine, tile, threads, pinned) ==
  [kind |-> kind, ty |-> ty, cols |-> cols,
   ws |-> [m \in 1..(IF kind = "matvec2" THEN 2 ELSE 1) |-> [r \in 1..rows |-> WeightRow(ty, cols, wp, r + 5*m)]],
   xs |-> [t \in 1..n |-> Activation(cols, xp, t)],
   n |-> n, simd |-> simd, fine |-> fine, tile |-> tile, threads |-> threads, pinned |-> pinned]

Patterns == {<<"mixed", "mixed">>, <<"full", "ties">>, <<"full", "equal">>, <<"lowest", "mixed">>, <<"mixed", "zero">>}

\* one row, one activation: every type, grain and path, on every pattern
OneRowJobs ==
  {Product("matvec", ty, 512, 1, p[1], p[2], 1, simd, fine, 0, 1, 0) :
     ty \in KQuants, p \in Patterns, simd \in BOOLEAN, fine \in BOOLEAN}
  \cup {Product("matvec", ty, 96, 1, p[1], p[2], 1, simd, FALSE, 0, 1, 0) :
     ty \in {"Q4_0", "Q8_0"}, p \in Patterns, simd \in BOOLEAN}
  \cup {Product("matvec", "F32", c, 1, "mixed", "mixed", 1, simd, FALSE, 0, 1, 0) :
     c \in {32, 40}, simd \in BOOLEAN}

\* several rows over several participants
SplitJobs ==
  {Product(k, "Q4_0", 32, 5, "mixed", "mixed", 1, TRUE, FALSE, 0, th, 0) : k \in {"matvec", "matvec2"}, th \in 1..6}
  \cup {Product("matmul", "Q5_K", 256, 2, "mixed", "mixed", n, FALSE, TRUE, 16, 1, pin) : n \in {0, 1, 3}, pin \in {0, 2}}

\* blocked: 3 rows in blocks of 2, tiles that divide n and tiles that do not
BlockedJobs ==
  {Product("matmul", ty, 256, 3, "mixed", "mixed", n, simd, FALSE, tile, 1, 2) :
     ty \in {"Q4_K", "Q6_K"}, n \in {1, 7}, tile \in {3, 16}, simd \in BOOLEAN}
  \cup {Product("matmul", "Q5_K", 256, 1, "mixed", "ties", n, TRUE, FALSE, 16, 1, 1) : n \in {11, 17}}
  \* three super-blocks a row: the cache holds 5 activations, the tile is 4
  \cup {Product("matmul", "Q4_K", 768, 1, "mixed", "mixed", 5, TRUE, FALSE, 16, 1, 1)}
  \cup {Product("matmul", "Q4_K", 256, 2, "full", "mixed", 2, TRUE, FALSE, tile, 2, 0) : tile \in {0, 16}}

SumJobs == {[kind |-> "sum", n |-> n, simd |-> simd] : n \in {5, 8, 19, 27}, simd \in BOOLEAN}

HeadJobs ==
  {[kind |-> k, heads |-> h, t |-> t, base |-> base, maxPos |-> mp, threads |-> th] :
     k \in DeltaLoops \cup AttnLoops, h \in {2, 5}, t \in {1, 3}, base \in {0, 2}, mp \in {0, 4}, th \in 0..4}

MCJobs ==
  OneRowJobs \cup SplitJobs \cup BlockedJobs \cup SumJobs
    \cup {j \in HeadJobs : j.kind \in {"delta_token", "attn_token"} => j.t = 1}
=============================================================================
