----------------------------- MODULE StateBytes -----------------------------
(***************************************************************************)
(* The bytes of everything a generation carries, twice: as the constructors*)
(* of model::State and spec::SpecState allocate them, and as the formulas  *)
(* of crates/core/src/tier.rs predict them before anything is allocated.   *)
(* c is a ModelConfig, t the rows of a batch, pos the positions reserved,  *)
(* k the drafts of a round. Rows of activations are multiples of 256.      *)
(***************************************************************************)
EXTENDS Integers, FiniteSets, Functions

Total4(elems) == 4 * SumFunctionOnSet(elems, DOMAIN elems)

-----------------------------------------------------------------------------
(* The live buffers. Each list is the vectors of one structure, in f32.    *)

\* Q8Row and Q8KRow, whose vectors have different element types.
Q8RowBytes(n)  == 2 * (n \div 32) + n + 4 * (n \div 32) + 4 * (n \div 32) + 4 * 8 * (n \div 32)
Q8KRowBytes(n) == 4 * (n \div 256) + n + 2 * 16 * (n \div 256) + 2 * 8 * (n \div 256)
ActBuf(n)      == Q8RowBytes(n) + Q8KRowBytes(n)

MlpScratch(c)  == Total4(<<c.inter, c.inter, c.inter>>) + ActBuf(c.inter)
MlpBatch(c, t) == Total4(<<t * c.inter, t * c.inter, t * c.inter>>) + t * ActBuf(c.inter)

\* mixed, z, ga, gb, conved, heads, qn, kn, o
DeltaScratch(c) ==
  Total4(<<c.qkvDim, c.vDim, c.nV, c.nV, c.qkvDim, c.vDim, c.nV * c.dk, c.nV * c.dk, c.vDim>>)
    + ActBuf(c.vDim)

DeltaBatch(c, t) ==
  Total4(<<t * c.qkvDim, t * c.vDim, t * c.nV, t * c.nV, t * c.qkvDim, t * c.vDim,
           c.nV * c.dk, c.nV * c.dk, c.vDim>>) + t * ActBuf(c.vDim)

DeltaState(c) == Total4(<<c.qkvDim * (c.kernel - 1), c.nV * c.dk * c.dv>>)

\* qg, k, v, cos, sin, q, gate, tmp, attn, and the score rows once reserved
AttnScratch(c, pos) ==
  Total4(<<2 * c.nHead * c.headDim, c.kvDim, c.kvDim, c.ropeDim, c.ropeDim, c.qDim, c.qDim,
           c.headDim, c.qDim, c.nHead * pos, c.nHead * pos>>) + ActBuf(c.qDim)

AttnBatch(c, t) ==
  Total4(<<t * 2 * c.qDim, t * c.kvDim, t * c.kvDim, t * c.qDim, t * c.qDim, t * c.qDim,
           c.ropeDim, c.ropeDim, c.headDim>>) + t * ActBuf(c.qDim)

KvCache(c, pos) == Total4(<<pos * c.kvDim, pos * c.kvDim>>)

\* Scratch and BatchScratch for a stack with these kinds of layers.
Scratch(c, dn, at, pos) ==
  Total4(<<c.hidden, c.hidden, c.hidden>>) + ActBuf(c.hidden) + MlpScratch(c)
    + (IF dn THEN DeltaScratch(c) ELSE 0) + (IF at THEN AttnScratch(c, pos) ELSE 0)

BatchScratch(c, dn, at, t) ==
  Total4(<<t * c.hidden, t * c.hidden, t * c.hidden>>) + t * ActBuf(c.hidden) + MlpBatch(c, t)
    + (IF dn THEN DeltaBatch(c, t) ELSE 0) + (IF at THEN AttnBatch(c, t) ELSE 0)

HasDn(c) == c.deltanet # {}
HasAt(c) == c.attention # {}

\* State::new_state after reserve(pos), without the caller's logits.
StateBytes(c, pos) ==
  Cardinality(c.deltanet) * DeltaState(c) + Cardinality(c.attention) * KvCache(c, pos)
    + Scratch(c, HasDn(c), HasAt(c), pos) + Total4(<<c.hidden, c.hidden, c.hidden>>) + ActBuf(c.hidden)

\* MtpHead::new_scratch: e, hprev, cat, u, y, hout, logits; the scratch of one attention block.
MtpScratch(c, t, pos) ==
  Total4(<<c.hidden, c.hidden, t * 2 * c.hidden, t * c.hidden, t * c.hidden, t * c.hidden, c.vocab>>)
    + t * ActBuf(2 * c.hidden) + Scratch(c, FALSE, TRUE, pos) + BatchScratch(c, FALSE, TRUE, t)
    + ActBuf(c.hidden)

\* SpecState::new after reserve(pos).
SpecStateBytes(c, k, pos) ==
  LET t    == k + 1
      nDn  == Cardinality(c.deltanet)
      snap == nDn * (c.nV * c.dk * c.dv + c.qkvDim * (c.kernel - 1))
  IN  BatchScratch(c, HasDn(c), HasAt(c), t)
        + Total4(<<t * c.hidden, t * c.hidden, t * c.hidden, t * c.vocab, snap,
                   nDn * t * c.qkvDim, nDn * t * c.nV, nDn * t * c.nV, k * c.vocab>>)
        + t * ActBuf(c.hidden) + KvCache(c, pos) + MtpScratch(c, t, pos)
        + Total4(<<k, t, t>>) + 8 * (k + t)

-----------------------------------------------------------------------------
(* The plan's formulas.                                                    *)

act_buf_bytes(n) == n + (n \div 32) * (2 + 4 + 4 + 32) + n + (n \div 256) * (4 + 32 + 16)

kv_bytes_per_pos(c) == Cardinality(c.attention) * 2 * c.nHeadKv * c.headDim * 4

deltanet_state_bytes(c) ==
  Cardinality(c.deltanet) * (c.nV * c.dk * c.dv + c.qkvDim * (c.kernel - 1)) * 4

scratch_bytes(c, pos) ==
  LET vd   == c.nV * c.dv
      qd   == c.nHead * c.headDim
      dn   == (2 * c.qkvDim + 3 * vd + 2 * c.nV + 2 * c.nV * c.dk) * 4 + act_buf_bytes(vd)
      at   == (5 * qd + 2 * c.nHeadKv * c.headDim + 2 * c.ropeDim + c.headDim) * 4 + act_buf_bytes(qd)
                + 2 * c.nHead * pos * 4
  IN  2 * (3 * c.hidden * 4 + act_buf_bytes(c.hidden)) + 3 * c.inter * 4 + act_buf_bytes(c.inter)
        + (IF HasDn(c) THEN dn ELSE 0) + (IF HasAt(c) THEN at ELSE 0) + c.vocab * 4

spec_snapshot_bytes(c)     == deltanet_state_bytes(c)
spec_mtp_kv_bytes(c, pos)  == 2 * c.nHeadKv * c.headDim * 4 * pos

\* The closure `batch` of spec_scratch_bytes.
PlannedBatch(c, t, dn) ==
  LET vd == c.nV * c.dv
      qd == c.nHead * c.headDim
  IN  3 * t * c.hidden * 4 + t * act_buf_bytes(c.hidden) + 3 * t * c.inter * 4 + t * act_buf_bytes(c.inter)
        + (IF dn /\ HasDn(c)
           THEN (2 * t * c.qkvDim + 2 * t * vd + 2 * t * c.nV + 2 * c.nV * c.dk + vd) * 4 + t * act_buf_bytes(vd)
           ELSE 0)
        + (IF HasAt(c)
           THEN (t * 2 * qd + 2 * t * c.nHeadKv * c.headDim + 3 * t * qd + 2 * c.ropeDim + c.headDim) * 4
                  + t * act_buf_bytes(qd)
           ELSE 0)

\* Mutant of SavedInputs: the two gate rows of each saved input are left out.
SavedInputsWithoutGates(c, t) == Cardinality(c.deltanet) * t * c.qkvDim * 4

SavedInputs(c, t) == Cardinality(c.deltanet) * t * (c.qkvDim + 2 * c.nV) * 4

spec_scratch_bytes(c, k, pos) ==
  LET t   == k + 1
      h   == c.hidden
      qd  == c.nHead * c.headDim
      mtp == (2 * h + t * 2 * h + 3 * t * h + c.vocab) * 4 + t * act_buf_bytes(2 * h) + act_buf_bytes(h)
               + 3 * h * 4 + act_buf_bytes(h) + 3 * c.inter * 4 + act_buf_bytes(c.inter)
               + (5 * qd + 2 * c.nHeadKv * c.headDim + 2 * c.ropeDim + c.headDim) * 4 + act_buf_bytes(qd)
               + 2 * c.nHead * pos * 4 + PlannedBatch(c, t, FALSE)
  IN  PlannedBatch(c, t, TRUE) + 3 * t * h * 4 + t * act_buf_bytes(h) + t * c.vocab * 4
        + SavedInputs(c, t) + mtp + k * 4 + k * c.vocab * 4 + 2 * t * 4 + (k + t) * 8

spec_bytes(c, k, pos) ==
  IF k = 0 THEN 0
  ELSE spec_snapshot_bytes(c) + spec_mtp_kv_bytes(c, pos) + spec_scratch_bytes(c, k, pos)
=============================================================================
