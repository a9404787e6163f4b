-------------------------------- MODULE Load --------------------------------
(***************************************************************************)
(* Model::load_with of crates/core/src/model.rs, from opening the file to  *)
(* the state of a generation: the header is parsed, the config checked,    *)
(* the plan computed and accepted, the resident tensors and the pinned     *)
(* layers read into their arenas, the ring's slots allocated, every matrix *)
(* made a view of its arena or slot, and new_state and reserve allocate.   *)
(* The drive may fail any read. Arenas are counted without the rounding of *)
(* large pages; the small tensors of the files are f32, as the plan counts *)
(* them; the files' tensors do not overlap.                                *)
(***************************************************************************)
EXTENDS ModelConfig, MemoryPlan, StateBytes

CONSTANTS MaxPositions,  \* --max-pos
          Drafts,        \* --spec, 0 for none
          Baseline,      \* the reserve for what is not a planned buffer
          DriveFails     \* whether a read of the drive may fail

ASSUME LoadAssumption ==
  /\ MaxPositions \subseteq Nat /\ Drafts \subseteq Nat /\ Baseline \in Nat /\ DriveFails \in BOOLEAN

VARIABLES config,           \* the Config of the model
          maxPos, drafts,   \* the rest of PlanParams
          next,             \* the next block to load
          buffers,          \* id -> [bytes, from, got]: an arena or slot, its size, its file range
          views,            \* the matrices: [tensor, id, layer, off, len]
          mem,              \* bytes allocated so far
          failure           \* why the load failed

loadVars == <<config, maxPos, drafts, next, buffers, views, mem, failure>>
vars     == <<ggufVars, planVars, loadVars>>

Fail(why) == phase' = "failed" /\ failure' = why

-----------------------------------------------------------------------------
(* What the plan is computed from: PlanInput::new.                         *)

SmallSuffixes == {"attn_norm.weight", "post_attention_norm.weight", "ssm_a", "ssm_dt.bias",
  "ssm_conv1d.weight", "ssm_norm.weight", "attn_q_norm.weight", "attn_k_norm.weight",
  "nextn.enorm.weight", "nextn.hnorm.weight", "nextn.shared_head_norm.weight"}

IsResidentSmall(name) == LayerOf(name) # NoLayer /\ name[2] \in SmallSuffixes

\* What the plan takes for granted of a file: its small tensors are f32, and the kernel of the
\* convolution is not empty.
IsCounted(f) ==
  /\ \A i \in DOMAIN f.infos : IsResidentSmall(f.infos[i].name) => f.infos[i].type = 0
  /\ \A i \in DOMAIN f.kv : f.kv[i].key = "ssm.conv_kernel" /\ HasType(f.kv[i], "UINT32") => f.kv[i].val # 0

ASSUME CountedAssumption == \A n \in DOMAIN Files : IsCounted(Files[n])

NonLayerRange == <<FirstByte(NonLayerTensors), LastByte(NonLayerTensors)>>

\* One arena for the tensors of no layer, unless they lie too far apart.
IsOneRegion ==
  LET sum == SumSizes(NonLayerTensors)
  IN  NonLayerRange[2] - NonLayerRange[1] <= sum + sum \div 8

NonLayerArenaBytes ==
  IF IsOneRegion THEN ArenaBytes(NonLayerRange[2] - NonLayerRange[1]) ELSE SumSizes(NonLayerTensors)

BlockRange(l) == LET s == LayerSpan(l) IN <<s.start, s.end>>

LayerSmall(l) == SumSizes({t \in LayerTensors(l) : IsResidentSmall(t.name)})

SumOver(S, F(_)) == SumFunctionOnSet([x \in S |-> F(x)], S)

\* The carried state, the buffers of a generation and the caller's logits.
PlannedState(pos, n) ==
  deltanet_state_bytes(config) + kv_bytes_per_pos(config) * pos + scratch_bytes(config, pos) + spec_bytes(config, n, pos)

\* The sum of the always-resident lines.
ResidentBytes(pos, n) ==
  NonLayerArenaBytes
    + SumOver(config.mtp, LAMBDA m : ArenaBytes(BlockRange(m)[2] - BlockRange(m)[1]))
    + SumOver(0 .. config.nLayer - 1, LayerSmall)
    + PlannedState(pos, n) + Baseline

-----------------------------------------------------------------------------
(* The tensors a block is loaded from, in the order they are asked for.    *)

Mat(suffix, rows, cols) == <<"mat", suffix, rows, cols>>
Vec(suffix, len)        == <<"vec", suffix, len, 1>>

AttentionTensors(c) ==
  << Mat("attn_q.weight", 2 * c.nHead * c.headDim, c.hidden), Mat("attn_k.weight", c.kvDim, c.hidden),
     Mat("attn_v.weight", c.kvDim, c.hidden), Mat("attn_output.weight", c.hidden, c.qDim),
     Vec("attn_q_norm.weight", c.headDim), Vec("attn_k_norm.weight", c.headDim) >>

DeltaNetTensors(c) ==
  << Mat("attn_qkv.weight", c.qkvDim, c.hidden), Mat("attn_gate.weight", c.vDim, c.hidden),
     Mat("ssm_alpha.weight", c.nV, c.hidden), Mat("ssm_beta.weight", c.nV, c.hidden),
     Vec("ssm_a", c.nV), Vec("ssm_dt.bias", c.nV), Vec("ssm_conv1d.weight", c.qkvDim * c.kernel),
     Vec("ssm_norm.weight", c.dv), Mat("ssm_out.weight", c.hidden, c.vDim) >>

NormAndMlpTensors(c) ==
  << Vec("attn_norm.weight", c.hidden), Vec("post_attention_norm.weight", c.hidden),
     Mat("ffn_gate.weight", c.inter, c.hidden), Mat("ffn_up.weight", c.inter, c.hidden),
     Mat("ffn_down.weight", c.hidden, c.inter) >>

LayerLoad(c, l) ==
  (IF l \in c.attention THEN AttentionTensors(c) ELSE DeltaNetTensors(c)) \o NormAndMlpTensors(c)

MtpLoad(c) ==
  AttentionTensors(c) \o NormAndMlpTensors(c)
    \o << Mat("nextn.eh_proj.weight", c.hidden, 2 * c.hidden), Vec("nextn.enorm.weight", c.hidden),
          Vec("nextn.hnorm.weight", c.hidden), Vec("nextn.shared_head_norm.weight", c.hidden) >>

HeadLoad(c) ==
  << Mat("token_embd.weight", c.vocab, c.hidden), Mat("output.weight", c.vocab, c.hidden),
     Vec("output_norm.weight", c.hidden) >>

-----------------------------------------------------------------------------
(* ArenaSource over the arena or slot that starts at file byte `from`.     *)

\* The types dequantize knows, for a small tensor that is no f32.
Dequantised == {"F32", "Q4_0", "Q8_0", "Q4_K", "Q5_K", "Q6_K"}

RowBytes(type, cols) ==
  LET b == CHOOSE id \in DOMAIN GgmlTypes : GgmlTypes[id][1] = type
  IN  (cols \div GgmlTypes[b][2]) * GgmlTypes[b][3]

BlockOf(type) == GgmlTypes[CHOOSE id \in DOMAIN GgmlTypes : GgmlTypes[id][1] = type][2]

Window(t, from, bytes) == t.abs >= from /\ t.abs - from + t.size <= bytes

\* `mat` with the asserts of WeightMat::view, or the Gguf's own `mat` when there is no arena
\* (from = NoArena), which reads the tensor through the ordinary file.
NoArena == -1

MatError(t, rows, cols, from, bytes) ==
  IF t.shape # <<cols, rows>> THEN "Shape"
  ELSE IF from # NoArena /\ ~Window(t, from, bytes) THEN "Missing"
  ELSE IF from = NoArena /\ ReadError(t) # "" THEN ReadError(t)
  ELSE Unless(cols % BlockOf(t.type) = 0 /\ t.size = rows * RowBytes(t.type, cols), "panic: row bytes")

VecError(t, len) ==
  IF t.elems # len THEN "Shape"
  ELSE IF ReadError(t) # "" THEN ReadError(t)
  ELSE Unless(t.type \in Dequantised, "Unsupported")

SourceError(l, e, from, bytes) ==
  IF ~HasTensor(<<l, e[2]>>) THEN "Missing"
  ELSE LET t == Tensor(<<l, e[2]>>)
       IN  IF e[1] = "mat" THEN MatError(t, e[3], e[4], from, bytes) ELSE VecError(t, e[3])

\* The error of loading the block, the views it makes, and the bytes of its resident copies.
LoadError(l, list, from, bytes) ==
  FirstError([i \in DOMAIN list |-> SourceError(l, list[i], from, bytes)])

ViewsOf(l, list, id, from) ==
  {LET t == Tensor(<<l, e[2]>>)
   IN  [tensor |-> t.name, id |-> id, layer |-> l, off |-> t.abs - from, len |-> t.size] :
     e \in {list[i] : i \in {j \in DOMAIN list : list[j][1] = "mat"}}}

Copies(list)      == {i \in DOMAIN list : list[i][1] = "vec"}
CopiedBytes(list) == SumFunctionOnSet([i \in Copies(list) |-> 4 * list[i][3]], Copies(list))

-----------------------------------------------------------------------------
Init ==
  /\ GgufInit
  /\ span = <<>> /\ slots = 0 /\ resident = 0 /\ budget = NoBudget
  /\ phase = "file" /\ pinned = 0 /\ nSlots = 0 /\ slotBytes = 0
  /\ k = 0
  /\ config = <<>> /\ maxPos = 0 /\ drafts = 0 /\ next = 0
  /\ buffers = <<>> /\ views = {} /\ mem = 0 /\ failure = ""

\* Gguf::open, a step of it.
ReadHeader == Open /\ UNCHANGED <<planVars, loadVars>>

OpenFails ==
  /\ phase = "file" /\ stage \notin {"header", "index", "opened"}
  /\ Fail(stage) /\ UNCHANGED <<ggufVars, input, k, plan, config, maxPos, drafts, next, buffers, views, mem>>

ConfigFails ==
  /\ phase = "file" /\ stage = "opened" /\ ConfigError # ""
  /\ Fail(ConfigError)
  /\ UNCHANGED <<ggufVars, input, k, plan, config, maxPos, drafts, next, buffers, views, mem>>

ConfigAccepted ==
  /\ phase = "file" /\ stage = "opened" /\ ConfigError = ""
  /\ config' = Config /\ phase' = "config"
  /\ UNCHANGED <<ggufVars, input, k, plan, maxPos, drafts, next, buffers, views, mem, failure>>

\* PlanInput and PlanParams, for what the caller asked.
MakePlanInput ==
  /\ phase = "config"
  /\ slots' \in SlotCounts /\ budget' \in Budgets /\ maxPos' \in MaxPositions /\ drafts' \in Drafts
  /\ span' = [l \in 0 .. config.nLayer - 1 |-> BlockRange(l)]
  /\ resident' = ResidentBytes(maxPos', drafts')
  /\ phase' = "resident" /\ k' = config.nLayer
  /\ UNCHANGED <<ggufVars, plan, config, next, buffers, views, mem, failure>>

MakePlan == PlanNext /\ UNCHANGED <<ggufVars, loadVars>>

\* Mutant of FileStart: where the span starts, not where its aligned read starts.
FileStartOfSpan(range) == range[1]

\* The file offset of an arena's first byte, for the views into it.
FileStart(range) == ReadStart(range)

Least(a, b) == IF a < b THEN a ELSE b

\* What the file has of the sector-aligned read of a range.
Filled(range) == Least(ReadBytes(range), file.size - ReadStart(range))

\* Buffers, with the new ones.
With(new, old) ==
  [id \in DOMAIN new \cup DOMAIN old |-> IF id \in DOMAIN new THEN new[id] ELSE old[id]]

\* load_arena: the aligned superset of the range into a new arena, and the block made of it.
LoadArena(id, l, range, list, then) ==
  LET bytes == ArenaBytes(range[2] - range[1])
      got   == Filled(range)
      err   == IF ReadBytes(range) > bytes THEN "arena too small"
               ELSE IF got < HeadBytes(range) + (range[2] - range[1]) THEN "short read"
               ELSE LoadError(l, list, FileStart(range), bytes)
  IN  IF err # ""
      THEN Fail(err) /\ UNCHANGED <<next, buffers, views, mem>>
      ELSE /\ buffers' = With([x \in {id} |-> [bytes |-> bytes, from |-> ReadStart(range), got |-> got]], buffers)
           /\ views' = views \cup ViewsOf(l, list, id, FileStart(range))
           /\ mem' = mem + bytes + CopiedBytes(list)
           /\ phase' = then.phase /\ next' = then.next /\ UNCHANGED failure

LoadFrame == UNCHANGED <<ggufVars, input, k, plan, config, maxPos, drafts>>

\* Embedding, head and final norm: one arena, or copies of their own.
LoadResident ==
  /\ phase = "accepted" /\ LoadFrame
  /\ IF IsOneRegion
     THEN LoadArena([kind |-> "non-layer", i |-> 0], NoLayer, NonLayerRange, HeadLoad(config),
                    [phase |-> "mtp", next |-> config.nLayer])
     ELSE LET err  == LoadError(NoLayer, HeadLoad(config), NoArena, 0)
              mats == {Tensor(<<NoLayer, s>>) : s \in {"token_embd.weight", "output.weight"}}
          IN  IF err # ""
              THEN Fail(err) /\ UNCHANGED <<next, buffers, views, mem>>
              ELSE /\ mem' = mem + SumSizes(mats) + CopiedBytes(HeadLoad(config))
                   /\ phase' = "mtp" /\ next' = config.nLayer /\ UNCHANGED <<buffers, views, failure>>

\* The MTP blocks: all get an arena, the first one is the draft head.
LoadMtp ==
  /\ phase = "mtp" /\ next \in config.mtp /\ LoadFrame
  /\ LoadArena([kind |-> "mtp", i |-> next], next, BlockRange(next),
               IF next = config.nLayer THEN MtpLoad(config) ELSE <<>>, [phase |-> "mtp", next |-> next + 1])

MtpLoaded ==
  /\ phase = "mtp" /\ next \notin config.mtp /\ LoadFrame
  /\ phase' = "tier 1" /\ next' = 0 /\ UNCHANGED <<buffers, views, mem, failure>>

LoadPinned ==
  /\ phase = "tier 1" /\ next < pinned /\ LoadFrame
  /\ LoadArena([kind |-> "arena", i |-> next], next, span[next], LayerLoad(config, next),
               [phase |-> "tier 1", next |-> next + 1])

\* Ring::start: the slots, each able to hold every streamed layer.
StartRing ==
  /\ phase = "tier 1" /\ next = pinned /\ pinned < NLayer /\ LoadFrame
  /\ IF \E l \in pinned .. NLayer - 1 : ReadBytes(span[l]) > slotBytes
     THEN Fail("arena too small") /\ UNCHANGED <<next, buffers, views, mem>>
     ELSE /\ buffers' = With([id \in {[kind |-> "slot", i |-> s] : s \in 0 .. nSlots - 1} |->
                                [bytes |-> slotBytes, from |-> 0, got |-> 0]], buffers)
          /\ mem' = mem + nSlots * slotBytes
          /\ phase' = "tier 2" /\ UNCHANGED <<next, views, failure>>

SlotOf(l) == [kind |-> "slot", i |-> (l - pinned) % nSlots]

\* A streamed layer: views into its slot, which the I/O thread refills.
LoadStreamed ==
  /\ phase = "tier 2" /\ next < NLayer /\ LoadFrame
  /\ LET list == LayerLoad(config, next)
         err  == LoadError(next, list, FileStart(span[next]), slotBytes)
     IN  IF err # ""
         THEN Fail(err) /\ UNCHANGED <<next, buffers, views, mem>>
         ELSE /\ views' = views \cup ViewsOf(next, list, SlotOf(next), FileStart(span[next]))
              /\ mem' = mem + CopiedBytes(list)
              /\ next' = next + 1 /\ UNCHANGED <<phase, buffers, failure>>

Loaded ==
  /\ next = NLayer
  /\ phase = "tier 2" \/ (phase = "tier 1" /\ pinned = NLayer)
  /\ phase' = "loaded" /\ LoadFrame /\ UNCHANGED <<next, buffers, views, mem, failure>>

\* A read of the drive fails during the load.
DriveFailed ==
  /\ DriveFails /\ LoadFrame
  /\ phase = "accepted" \/ (phase = "mtp" /\ next \in config.mtp) \/ (phase = "tier 1" /\ next < pinned)
  /\ Fail("drive") /\ UNCHANGED <<next, buffers, views, mem>>

\* new_state or new_state_spec, then reserve(max_pos), and the caller's logits.
NewState ==
  /\ phase = "loaded" /\ LoadFrame
  /\ IF drafts > 0 /\ config.mtp = {}
     THEN Fail("NoMtp") /\ UNCHANGED mem
     ELSE /\ mem' = mem + StateBytes(config, maxPos) + 4 * config.vocab
                      + (IF drafts > 0 THEN SpecStateBytes(config, drafts, maxPos) ELSE 0)
          /\ phase' = "ready" /\ UNCHANGED failure
  /\ UNCHANGED <<next, buffers, views>>

Ended == phase \in {"ready", "refused", "failed"} /\ UNCHANGED vars

Next ==
  \/ ReadHeader \/ OpenFails \/ ConfigFails \/ ConfigAccepted \/ MakePlanInput \/ MakePlan
  \/ LoadResident \/ LoadMtp \/ MtpLoaded \/ LoadPinned \/ StartRing \/ LoadStreamed
  \/ Loaded \/ DriveFailed \/ NewState \/ Ended

Spec == Init /\ [][Next]_vars

-----------------------------------------------------------------------------
(* Properties.                                                             *)

\* Opening a file hands the parser its bytes in order whatever the system returns, ends at
\* the end of the header, and, when the tensor-info section is at least a chunk long, has
\* read nothing behind it; every tensor of an opened file lies in its data section, inside
\* the file, under a name of its own.
OpenIsExact ==
  /\ \A i \in 1 .. Available : reader.buf[reader.start + i] = reader.consumed + i - 1
  /\ stage \in {"index", "opened"} =>
       /\ reader.consumed = header.end
       /\ header.infoBytes >= HeaderChunk => reader.read <= header.end
  /\ stage = "opened" =>
       /\ \A t \in index : DataOffset <= t.abs /\ TensorEnd(t) <= file.size
       /\ Cardinality({t.name : t \in index}) = Len(file.infos)

\* Every matrix of a loaded model is a window of bytes that were, or by the I/O thread will
\* be, read from exactly the file range of its tensor: an arena holds the sector-aligned
\* read of its span, a slot that of the layer streamed into it; and no accepted plan has an
\* arena or a slot too small for what is read into it.
ViewsHoldTheirTensor ==
  /\ failure # "arena too small"
  /\ \A v \in views :
       LET t    == Tensor(v.tensor)
           slot == v.id.kind = "slot"
           from == IF slot THEN ReadStart(span[v.layer]) ELSE buffers[v.id].from
           got  == IF slot THEN Filled(span[v.layer]) ELSE buffers[v.id].got
       IN  /\ from + v.off = t.abs /\ v.len = t.size
           /\ v.off + v.len <= got /\ got <= buffers[v.id].bytes

\* The copies the plan has no line for: the final norm and the first MTP block's vectors.
Unplanned ==
  CopiedBytes(HeadLoad(config)) + (IF config.mtp = {} THEN 0 ELSE CopiedBytes(MtpLoad(config)))

\* "The plan and the loader cannot disagree": what a load and the state of its generation
\* have allocated never exceeds the plan's lines, its reserve aside, by more than the copies
\* it has no line for, and the state is the very number of bytes the plan foresaw. What the
\* planner is given of a file whose configuration was accepted is what it takes for granted.
PlanCoversMemory ==
  /\ phase = "resident" => PlanInput
  /\ mem > 0 => mem <= Total - Baseline + Unplanned
  /\ phase = "ready" =>
       PlannedState(maxPos, drafts) =
         StateBytes(config, maxPos) + 4 * config.vocab
           + (IF drafts > 0 THEN SpecStateBytes(config, drafts, maxPos) ELSE 0)
=============================================================================
