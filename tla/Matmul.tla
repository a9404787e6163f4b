------------------------------- MODULE Matmul -------------------------------
(***************************************************************************)
(* The jobs a layer gives the worker pool (matvec.rs and the head loops):  *)
(* the activation rows are quantised, the rows of the product or the heads *)
(* of the layer are split over the participants, each participant goes     *)
(* through its share in its own time, with the scalar or the vector        *)
(* kernels, one activation at a time or blocked over a tile.               *)
(*                                                                         *)
(* A job is a record; its field kind says what it is:                      *)
(*   matvec, matvec2, matmul  [kind, ty, cols, ws, xs, n, simd, fine,      *)
(*                             tile, threads, pinned]: weight matrices ws  *)
(*                             of type ty (rows of bytes) by n rows xs     *)
(*   sum                      [kind, n, simd]: a norm's or softmax's sum   *)
(*   the head loops           HeadLoops, with threads                      *)
(***************************************************************************)
EXTENDS Dots, HeadLoops, SequencesExt

CONSTANTS Jobs, Workers, RowBlock, TileBytes

\* Where the kinds come from: matvec.rs asserts the shapes of its arguments, a layer gives
\* its loops its own heads and rows.
IsProduct(j) ==
  /\ j.kind \in {"matvec", "matvec2", "matmul"} /\ (j.kind = "matmul" \/ j.n = 1)
  /\ {j.cols, j.n, j.tile, j.threads, j.pinned} \subseteq Nat
  /\ Len(j.ws) = (IF j.kind = "matvec2" THEN 2 ELSE 1) /\ Len(j.ws[1]) \in Nat

IsLoop(j) ==
  /\ j.kind \in DeltaLoops \cup AttnLoops /\ (j.kind \in {"delta_token", "attn_token"} => j.t = 1)
  /\ {j.heads, j.t, j.base, j.maxPos, j.threads} \subseteq Nat

ASSUME MatmulAssumption ==
  /\ Workers \in Nat /\ {RowBlock, TileBytes} \subseteq Nat \ {0}
  /\ \A j \in Jobs : IsProduct(j) \/ IsLoop(j) \/ j.kind = "sum"

VARIABLES
  job,
  act,    \* the quantised forms of the activation rows
  pos,    \* of every participant: how many items of its share it has done
  y,      \* what has been written: of a cell <<buffer, index>>, its value and who wrote it
  phase

vars == <<job, act, pos, y, phase>>

Products == {"matvec", "matvec2", "matmul"}
Rows == Len(job.ws[1])
None == <<>>

-----------------------------------------------------------------------------
(* Activation forms.                                                       *)

ActKind(ty) ==
  IF ty = "F32" THEN "F32" ELSE IF ty \in KQuants /\ ~job.fine THEN "Q8K" ELSE "Q8"

\* ActBuf::fill: every form some weight of the job consumes
FillRow(x) ==
  [f32 |-> x,
   q8  |-> IF ActKind(job.ty) = "Q8" THEN QuantizeQ8(x, job.cols, job.simd) ELSE None,
   q8k |-> IF ActKind(job.ty) = "Q8K" THEN QuantizeQ8K(x, job.cols, job.simd) ELSE None]

Init ==
  /\ job \in Jobs
  /\ act = None /\ pos = None /\ y = <<>>
  /\ phase = IF job.kind \in Products THEN "fill" ELSE "ready"

Fill ==
  /\ phase = "fill"
  /\ act' = [t \in 0..job.n-1 |-> FillRow(job.xs[t+1])]
  /\ phase' = "ready"
  /\ UNCHANGED <<job, pos, y>>

-----------------------------------------------------------------------------
(* One row of weights.                                                     *)

Block(row, blk) == LET size == BlockBytes(job.ty) IN [j \in 0..size-1 |-> row[size * blk + j]]

\* f32 weights: partial sums of 32, the tail last
DotF32(row, x) ==
  [blk \in 0..job.cols \div 32 |->
     Entry([i \in {0} |-> SumTo(Min({32, job.cols - 32*blk}), LAMBDA j : row[32*blk + j] * x[32*blk + j])],
           [i \in {0} |-> 1], NoMins)]

Blocks == 0..(job.cols \div BlockLen(job.ty))-1

DotQ8(row, x) ==
  [blk \in Blocks |-> IF job.simd THEN DotQ8Vector(job.ty, Block(row, blk), x, blk)
                                  ELSE DotQ8Scalar(job.ty, Block(row, blk), x, blk)]

DotQ8K(row, x) ==
  [blk \in Blocks |-> IF job.simd THEN DotQ8KVector(job.ty, Block(row, blk), x, blk)
                                  ELSE DotQ8KScalar(job.ty, Block(row, blk), x, blk)]

OneRow(row, a) ==
  CASE ActKind(job.ty) = "F32" -> DotF32(row, a.f32)
    [] ActKind(job.ty) = "Q8"  -> DotQ8(row, a.q8)
    [] ActKind(job.ty) = "Q8K" -> DotQ8K(row, a.q8k)

\* one row against tn activations from t0
DotTile(row, t0, tn) ==
  LET xs == [i \in 0..tn-1 |-> act[t0 + i].q8k]
  IN [blk \in Blocks |-> IF job.simd THEN DotTileVector(job.ty, Block(row, blk), xs, tn, blk)
                                     ELSE DotTileScalar(job.ty, Block(row, blk), xs, tn, blk)]

-----------------------------------------------------------------------------
(* Shares.                                                                 *)

CeilDiv(a, b) == (a + b - 1) \div b

\* Mutant of RowRange: the share rounded down.
RowRangeFloor(rows, tid, n) ==
  LET chunk == rows \div n
  IN Min({tid * chunk, rows})..Min({(tid+1) * chunk, rows})-1

\* Contiguous range of participant tid of n.
RowRange(rows, tid, n) ==
  LET chunk == CeilDiv(rows, n)
  IN Min({tid * chunk, rows})..Min({(tid+1) * chunk, rows})-1

\* the greatest power of two whose activation rows fit the cache
TileFor ==
  LET byCache == Max({TileBytes \div Max({(job.cols \div 256) * (292 + 16), 1}), 1})
      pow2 == IF byCache >= T_MAX THEN T_MAX ELSE Max({p \in {1, 2, 4, 8} : p <= byCache})
  IN Min({job.tile, pow2})

Blocked == job.kind = "matmul" /\ job.tile > 0 /\ ActKind(job.ty) = "Q8K"

MatmulThreads ==
  IF job.pinned > 0 THEN job.pinned
  ELSE IF job.n >= 2 THEN Max({Workers + 1, job.threads}) ELSE job.threads

Participants ==
  LET asked == CASE job.kind = "matmul" -> Min({MatmulThreads, Max({Rows, 1})})
                 [] job.kind \in Products \ {"matmul"} -> Min({job.threads, Max({Rows, 1})})
                 [] OTHER -> Min({Max({job.threads, 1}), job.heads})
  IN Min({Max({asked, 1}), Workers + 1})

\* An item of a product: row r of matrix m against tn activations from t0.
Item(m, r, t0, tn) == [m |-> m, r |-> r, t0 |-> t0, tn |-> tn]

RowItems(m, rs) == [i \in 1..Cardinality(rs) |-> Item(m, Min(rs) + i - 1, 0, 1)]

MatmulItems(rs) ==
  [i \in 1..Cardinality(rs) * job.n |-> Item(1, Min(rs) + (i-1) \div job.n, (i-1) % job.n, 1)]

\* blocks of rows, tiles of activations in each, rows of the block in each
BlockedItems(rs) ==
  LET tiles == CeilDiv(job.n, TileFor)
      Tile(r0, rn, k) == LET t0 == k * TileFor
                         IN [i \in 1..rn |-> Item(1, r0 + i - 1, t0, Min({TileFor, job.n - t0}))]
      RowsFrom(r0) == LET rn == Min({RowBlock, Max(rs) + 1 - r0})
                      IN FlattenSeq([k \in 1..tiles |-> Tile(r0, rn, k - 1)])
  IN FlattenSeq([b \in 1..CeilDiv(Cardinality(rs), RowBlock) |-> RowsFrom(Min(rs) + (b-1) * RowBlock)])

Share(tid) ==
  LET units == IF job.kind \in Products THEN Rows ELSE job.heads
      rs == RowRange(units, tid, Cardinality(DOMAIN pos))
  IN IF rs = {} THEN <<>>
     ELSE CASE job.kind = "matvec"  -> RowItems(1, rs)
            [] job.kind = "matvec2" -> RowItems(1, rs) \o RowItems(2, rs)
            [] job.kind = "matmul"  -> IF Blocked THEN BlockedItems(rs) ELSE MatmulItems(rs)
            [] OTHER -> [i \in 1..Cardinality(rs) |-> Min(rs) + i - 1]

-----------------------------------------------------------------------------
(* The pool's job.                                                         *)

Dispatch ==
  /\ phase = "ready" /\ job.kind # "sum"
  /\ \/ /\ job.kind = "matmul" /\ job.n = 0
        /\ phase' = "done"
        /\ UNCHANGED pos
     \/ /\ job.kind = "matmul" => job.n > 0
        /\ pos' = [tid \in 0..Participants-1 |-> 0]
        /\ phase' = "run"
  /\ UNCHANGED <<job, act, y>>

\* v: cells and their new values
Written(v, tid) ==
  [c \in DOMAIN y \cup DOMAIN v |->
     [val |-> IF c \in DOMAIN v THEN v[c] ELSE y[c].val,
      by  |-> (IF c \in DOMAIN y THEN y[c].by ELSE {}) \cup (IF c \in DOMAIN v THEN {tid} ELSE {})]]

\* A product's buffers are named by their matrix; activation t's outputs start at t * rows.
Cell(m, t, r) == <<<<"y1", "y2">>[m], t * Rows + r>>

ProductStep(tid, item) ==
  LET row == job.ws[item.m][item.r + 1]
      tile == DotTile(row, item.t0, item.tn)
      cells == [i \in 0..item.tn-1 |-> Cell(item.m, item.t0 + i, item.r)]
      value(i) == IF Blocked THEN [blk \in Blocks |-> tile[blk][i]] ELSE OneRow(row, act[item.t0])
  IN y' = Written([c \in {cells[i] : i \in 0..item.tn-1} |->
                     value(CHOOSE i \in 0..item.tn-1 : cells[i] = c)], tid)

HeadStep(tid, p) ==
  LET cells == UNION {{<<w[1], w[2] + k>> : k \in 0..w[3]-1} : w \in HeadWrites(job, p)}
  IN y' = Written([c \in cells |-> None], tid)

\* Participant tid does the next item of its share.
Step(tid) ==
  /\ phase = "run"
  /\ pos[tid] < Len(Share(tid))
  /\ LET item == Share(tid)[pos[tid] + 1]
     IN IF job.kind \in Products THEN ProductStep(tid, item) ELSE HeadStep(tid, item)
  /\ pos' = [pos EXCEPT ![tid] = @ + 1]
  /\ UNCHANGED <<job, act, phase>>

\* the pool returns when every participant has
Return ==
  /\ phase = "run"
  /\ \A tid \in DOMAIN pos : pos[tid] = Len(Share(tid))
  /\ phase' = "done"
  /\ UNCHANGED <<job, act, pos, y>>

\* rmsnorm.rs, softmax.rs: the sum of a row of n terms
Reduce ==
  /\ phase = "ready" /\ job.kind = "sum"
  /\ y' = Written([c \in {<<"sum", 0>>} |-> IF job.simd THEN SumVector(job.n) ELSE SumScalar(job.n)], 0)
  /\ phase' = "done"
  /\ UNCHANGED <<job, act, pos>>

Next ==
  \/ Fill \/ Dispatch \/ Return \/ Reduce
  \/ phase = "run" /\ \E tid \in DOMAIN pos : Step(tid)

Spec == Init /\ [][Next]_vars

-----------------------------------------------------------------------------
(* Properties.                                                             *)

\* The value of a cell by the scalar kernel for one row, on a row quantised by the scalar quantiser.
Reference(row, x) ==
  CASE ActKind(job.ty) = "F32" -> DotF32(row, x)
    [] ActKind(job.ty) = "Q8" ->
         LET q == DeriveQ8(QuantizeQ8Scalar(x, job.cols), job.cols)
         IN [blk \in Blocks |-> DotQ8Scalar(job.ty, Block(row, blk), q, blk)]
    [] ActKind(job.ty) = "Q8K" ->
         LET q == SumsQ8K(QuantizeQ8KScalar(x, job.cols), job.cols)
         IN [blk \in Blocks |-> DotQ8KScalar(job.ty, Block(row, blk), q, blk)]

Cells == {<<m, t, r>> \in (1..Len(job.ws)) \X (0..job.n-1) \X (0..Rows-1) : TRUE}

(* Row r of activation t has the same exact sums whatever computed it: the *)
(* vector kernels saturate nowhere and unpack the same codes, the blocked  *)
(* product gives every activation its own lanes once, and a norm or a      *)
(* softmax adds its terms in the same order ("bit-identical", avx2.rs,     *)
(* matvec.rs).                                                             *)
KernelsAgree ==
  phase = "done" =>
    /\ job.kind = "sum" => y[<<"sum", 0>>].val = SumScalar(job.n)
    /\ job.kind \in Products =>
         \A c \in Cells : y[Cell(c[1], c[2], c[3])].val = Reference(job.ws[c[1]][c[3]+1], job.xs[c[2]+1])

CodeOf(a, e) ==
  CASE ActKind(job.ty) = "F32" -> a.f32[e]
    [] ActKind(job.ty) = "Q8"  -> a.q8.qs[e \div 32][e % 32]
    [] ActKind(job.ty) = "Q8K" -> a.q8k.qs[e \div 32][e % 32]

MainTotal(e) == SumTo(Cardinality(DOMAIN e.lanes), LAMBDA i : e.lanes[i] * e.factors[i])
MinTotal(e)  == SumTo(Cardinality(DOMAIN e.mins), LAMBDA i : e.mins[i])

(* The sums of a block of a row are the product of the dequantised weights *)
(* with the activation's codes: every code is multiplied by its own scale  *)
(* and by its own activation, and what is taken out of the loop (the mins, *)
(* the -32 of Q6_K, the -8 of Q4_0) comes back exactly through the sums    *)
(* the quantiser kept.                                                     *)
DotIsOfDequantised ==
  phase = "done" /\ job.kind \in Products /\ job.ty # "F32" =>
    \A c \in Cells, blk \in Blocks :
      LET e == y[Cell(c[1], c[2], c[3])].val[blk]
          b == Block(job.ws[c[1]][c[3]+1], blk)
          len == BlockLen(job.ty)
          x(i) == CodeOf(act[c[2]], len * blk + i)
          w(i) == Dequant(job.ty, b, i)
      IN /\ MainTotal(e) = SumTo(len, LAMBDA i : w(i)[1] * w(i)[2] * x(i))
         /\ MinTotal(e) = SumTo(len, LAMBDA i : w(i)[3] * x(i))

Extent(b) ==
  IF job.kind \in Products THEN (IF b \in {"y1", "y2"} THEN job.n * Rows ELSE 0)
  ELSE IF job.kind = "sum" THEN 1
  ELSE IF job.kind \in DeltaLoops THEN DeltaBuffers(job)[b] ELSE AttnBuffers(job)[b]

Results ==
  IF job.kind \in Products THEN (IF Len(job.ws) = 2 THEN {"y1", "y2"} ELSE {"y1"})
  ELSE IF job.kind = "sum" THEN {"sum"} ELSE HeadResults(job)

(* The participants of a job write through one shared pointer: every write *)
(* is inside its buffer, no two participants ever write one cell, and when *)
(* the pool returns every cell of the results has been written.            *)
OneWriterPerCell ==
  /\ \A c \in DOMAIN y : c[2] \in 0..Extent(c[1])-1 /\ Cardinality(y[c].by) = 1
  /\ phase = "done" => \A b \in Results : \A i \in 0..Extent(b)-1 : <<b, i>> \in DOMAIN y
=============================================================================
