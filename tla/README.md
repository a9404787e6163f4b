# TLA+ verification of aqueduct (Qwen-3.8-in-Rust)

`aqueduct` runs a hybrid DeltaNet / attention language model that is larger than the memory it is
given: part of the layers is pinned, the others are streamed from disk once per pass. This directory
holds TLA+ models of the engine: the file that is opened, the plan and the load, the two threads that share the
ring's slots, the worker pool and what its jobs write, the integer arithmetic of the kernels, a state that is
speculated on and rolled back, the sampler, and a conversation that must match that state; the TLC
configurations that check them; and TLAPS proofs, for every value of the constants, of the safety
properties of the header reader, the loader, the ring, the pool, the plan, the unbuffered reads, the split of the kernels,
speculative decoding, the sampler and the conversation. Paths below are relative to `src/crates/`.

## 1. Inventory

| Component | Source | State | Operations | Talks to |
|---|---|---|---|---|
| GGUF reader | `core/src/gguf.rs` | header buffer, tensor index | `open`, `get_*`, `layer_span` | config, plan, loader |
| Configuration | `core/src/config.rs`, `arch.rs` | none | `from_gguf` | loader |
| Memory plan | `core/src/tier.rs` 38-452, 530-649 | none after `compute` | `PlanInput`, `compute`, `fits`, `check`, `LayerRead::new` | loader, ring |
| Loader | `core/src/model.rs` 90-340, `core/src/layers/mod.rs` | arenas, views | `load_with`, `ArenaSource`, `new_state`, `reserve` | plan, reads, ring |
| Unbuffered reads | `core/src/os.rs` | requests in flight | `open`, `read_at`, `AlignedBuf::new` | I/O thread, loader |
| Streaming ring | `core/src/tier.rs` 570-791 | slot states under mutexes, slot memory, `stop`, per-layer counters | I/O thread loop, `acquire`, `release`, `shutdown`, `Drop` | model (per layer), unbuffered reads |
| Worker pool | `core/src/kernels/pool.rs` | job, `n`, `generation`, `remaining`, `panicked`, caller mutex | `run`, `worker` | every kernel and layer |
| Kernels, quantisation | `core/src/kernels/`, `quant.rs` | quantised rows, results | `matvec`, `matmul`, `dot_*`, `quantize` | pool, layers |
| Layers | `core/src/layers/*.rs` | KV rows, recurrent state, conv window | `forward_*`, `truncate`, `replay_in` | pool, kernels |
| Model and its state | `core/src/model.rs` | KV caches, DeltaNet states, position, ring | `prefill`, `forward_token`, `Drop` | ring, layers |
| Speculative decoding | `core/src/spec.rs`, `core/src/layers/mtp.rs` | snapshot, saved inputs, drafts, MTP cache and hiddens | `spec_prefill`, `spec_round`, `chain_drafts` | model state, sampler, `run`, `chat` |
| Sampler | `core/src/sample.rs` | RNG, kept set, dense draft rows | `process`, `draw`, `write_dense`, `accept_or_resample` | spec, run, chat |
| Chat session | `cli/src/chat.rs` | messages, `consumed`, model state, `INTERRUPT` | lines, `/reset`, `/quit`, turns, Ctrl-C | spec, model, template, tokenizer |
| run command | `cli/src/run.rs` | emitted ids, pending token | plain and speculative loops | model, spec |
| Template, tokenizer | `core/src/chat.rs`, `tok.rs` | none | render, split, encode | chat |
| doctor, bench, disk, info, prof | `cli/src/*.rs`, `prof.rs`, `rss.rs`, `cpu.rs` | measurements | reports | all |

What makes each of them correct, and hard:

* **Opening and loading.** The header comes in chunks that may be cut anywhere; every matrix is a raw window at
  an offset computed from the tensor's place in the file and the aligned start of one of four kinds of read. An
  error in either is not detected by anything: the model computes with other bytes.
* **Plan and reads.** Off-by-one at sectors and budgets; formulas that must predict what constructors elsewhere
  allocate; several requests in flight when one fails.
* **Ring.** The layer structs hold raw views into the slots and are never re-pointed, so the I/O thread
  must never write a slot between `acquire` and `release`. Condition variables, a stop flag outside the
  mutexes, and counters written by two threads. Every layer of a pass is read once.
* **Pool.** The job is a borrow whose lifetime is transmuted to `'static`: nobody may hold it after `run`
  returned. Spinning and sleeping are mixed on both sides; jobs may panic anywhere. Its participants write one
  buffer through raw pointers, each in the range it computes for itself.
* **Kernels.** The code claims the vector and blocked kernels to be bit-identical to the scalar ones: saturating 16-bit products, bits
  that a shift carries across bytes, offsets taken out of the loop, partial blocks and tiles.
* **Speculation.** Output must equal the plain loop's. Attention rows are rolled back by truncation,
  DeltaNet states by a snapshot and a replay, the MTP's cache by truncation and re-feeding.
* **Sampler.** Accept or resample must leave the target's distribution, whatever the draft's settings kept.
* **Chat.** What the REPL believes the state has consumed must be what it has consumed, through
  interrupts, stop tokens inside a batch, refused messages and re-encodings.

The list of hazards, each at its line with the properties that cover it, is in `PROJECT.json`.

## 2. Modules

| Module | Models | Extends / instantiates |
|---|---|---|
| `Gguf` | `open`: the header reader and the tensor index | |
| `GgufValues` | the header fields of a metadata value, which may be nested arrays | extends `Gguf` |
| `ModelConfig` | the checks and derived sizes of `Config::from_gguf` | extends `Gguf` |
| `MemoryPlan` | `compute`, `check`, the aligned reads | |
| `StateBytes` | the bytes of the state, as allocated and as planned | |
| `Load` | `load_with`, `new_state`, `reserve` | extends `ModelConfig`, `MemoryPlan`, `StateBytes` |
| `DirectFile` | both `read_at`, with the disk as an environment | |
| `Ring` | the I/O thread and the decode thread | instantiates `LayerFifo` |
| `LayerFifo` | abstract: what the ring promises, a bounded FIFO of layers | |
| `Pool` | `Pool::run` and its workers | |
| `Quants` | block layouts, dequantisation, the activation quantisers | |
| `Dots` | the dot products of a row: scalar, vector, blocked | extends `Quants` |
| `HeadLoops` | what one head writes in the layers' parallel loops | |
| `Matmul` | one job on the pool: quantise, split, compute, return | extends `Dots`, `HeadLoops` |
| `SpecDecode` | both decode loops of run.rs over spec.rs and model.rs | instantiates `TokenStream` |
| `TokenStream` | abstract: the tokens a turn may emit | |
| `Sampler` | the sampler in a speculative round | |
| `ChatSession` | the REPL of chat.rs | |
| `ToyNets` | small argmax functions for TLC | |
| `DataLemmas` | lemmas on remainders, least and greatest numbers, prefixes, concatenation and flattening of sequences | `TLAPS` |
| `StreamingProofs` | theorems about `Ring` and `DirectFile` (section 4) | extends both, `DataLemmas` |
| `LoadProofs` | theorems about `MemoryPlan`, `Gguf` and `Load` | extends `Load`, `DataLemmas` |
| `PoolProofs`, `MatmulProofs`, `SpecDecodeProofs`, `SamplerProofs`, `ChatSessionProofs` | theorems about the module named | extend that module and, most of them, `DataLemmas` |
| `MC*` | the instances TLC checks | the module named |

An operator whose comment begins with "Mutant of X" is not part of the model: it is X with a plausible
bug, and shows that a property can tell the difference (section 3). Only the fields of a nested metadata value need a
`RECURSIVE` operator: `Gguf` takes `ValueFields` as a constant, to which `load.cfg` gives `GgufValues!ValueLayout`; everything
else is written with functions and folds, so that it can be proved about.

### How the modules read the code

**Gguf.** A file is the list of what was written into it (metadata entries, tensor infos) and its size; a header field is
its width and the error its value causes. `StartRefill`, `OsRead` and `Take` follow `HeaderReader`: `ensure` asks for a chunk in the
metadata section and for what is missing in the tensor-info section, the system may return less, and a buffer that is compacted keeps the unread
bytes. `reader.buf` holds the file offsets of its bytes, so that a byte lost or read twice shows. Building the
index is one step (`BuildIndex`): alignment, extents against the file's size, duplicates.

**ModelConfig** keeps the order of `from_gguf`: the first failing check is the error. **StateBytes** states each size twice,
from the constructors of `State`, `SpecState` and their parts, and from the formulas of tier.rs.

**Load.** `config`, `span` and the plan come from the two modules above, on the file that was opened. `buffers` are
arenas and slots with the file range they hold, `views` the matrices with buffer, offset and length. A load that meets a wrong
or missing tensor, a vector where `read_into` refuses it or a failing read ends in `failed`. `mem` counts what
was allocated.

**MemoryPlan.** The search over `k` is one step per `k`. `Load` fills its input from a file; `MCMemoryPlan` from small numbers.
`PlanInput` is any input it may be given, `PlanSpec` the planner by itself on such an input: the proofs are about it.

**DirectFile.** `os` is the build. On Windows `req[s]` is the operating system's side of the `OVERLAPPED` in slot `s`. The
disk (external, modelled from how it is used) ends pending requests in any order, transfers what the file has, or fails; a
call of `ReadFile` may also end at once. On Linux a `pread` is interrupted, short, at the end or failed. Bytes are counted from
the offset of the call.

**Ring.** `state[s]` is the `SlotState` under the slot's mutex (`Free` or the layer that is ready), `owner[s]`
the holder of that mutex, `buf[s]` the layer whose bytes are in the slot's memory (`Torn` while a read is
under way or after one that failed). `ioPc` and `pc` are the program points of the two threads. A critical section that only
assigns and notifies (`IoPublish`, `Release`, one iteration of `ShutdownNotify`) is one step that needs
the mutex free; one that waits is split into lock, test, wait, because `stop` can change in between.
Atomics outside the mutexes (`stop`, the counters) are read and written in steps of their own; the two
counters `release` reads change only while its slot is not in the I/O thread's hands, which
`ReleaseAsserts` and the proofs confirm. The I/O thread's `read` step is the interval in which the
system writes the slot. A failing read panics the thread (`IoReadFails`): no mutex is held, so nothing is
poisoned. A pass is any of `run_layers`, `prefill`, `forward_batch`: all of them acquire, run and release the layers in
order. `ShutdownBegin` is `shutdown_streaming` between passes, or `Drop` while a panic of a layer's
forward unwinds.

**Pool.** A job is its generation number. Spinning ends at any moment, with the value spun for or without it. `generation` is written under the
state mutex, so a worker's test-and-wait is one step; `remaining` is not, so the caller's is three.
`ran` and `hurt` are history variables of the current job.

**Quants, Dots, Matmul.** Weights are the bytes of their blocks, activations integers; a product is kept as the exact
integers the kernels form per block before the floating-point part, which is the same expression in every path: the sums of
the lanes, the factors they are multiplied by, the sums the mins are multiplied into. The order of the floating-point additions of
a norm or a softmax is kept symbolically (a sum is a term). AVX2 instructions (external) are modelled on the lanes the code
uses: saturation of `maddubs`, the sign trick, shifts on 16- and 32-bit lanes. A participant takes one item of its share (a row, a block of rows by a tile,
a head) per step; `y[c].by` collects who wrote a cell. The pool's own protocol is `Pool`; here a job starts and returns.

**SpecDecode.** A number is replaced by what it was computed from: a KV cache is the sequence of tokens whose
rows it holds, a DeltaNet state the sequence of tokens folded into it, and a row of the MTP's cache the token
and the hidden it was paired with (the target's after some context, or the MTP's own of an earlier row). One
sequence stands for all attention layers, one for all DeltaNet layers: in `prefill`, `forward_batch_in`,
`truncate` and `replay_in` they are treated alike. The argmax is an operator parameter of the tokens in both kinds of
state, so that a rollback that forgets one of them changes what is emitted; `Sampled` is what the argmax or the sampler may return. Drafts are arbitrary tokens:
nothing may depend on the MTP being right. In greedy mode acceptance is the code's comparison with the
argmax; in sampling mode any number of drafts may be accepted and any token resampled. `mode.k = 0` is the plain loop, with the
batched and the token-by-token prefill. The caller's loop is that of run.rs; a second turn on the same state (as in chat) is a
second prefill. Verification, acceptance, rollback and re-feeding are separate steps so that their intermediate states can be looked at;
in the code they run in one call.

**Sampler.** A candidate has an integer weight and its probability is an exact fraction. What rounding can change is kept as choice: an
exponential that underflows, cumulative sums that stay below the number drawn, so that the last kept token is
always a possible draw. `proposed` is the kept set a draft came from (history).

**ChatSession.** A user message renders to `<<"u">>`, a reply to its tokens and the end marker `"eos"`. At the end of a turn
a reply may also become a message that renders to other tokens: the template drops earlier reasoning and
the tokenizer need not encode a text to the tokens that produced it. `ctx` is what the model's state has really consumed,
`consumed` what the REPL noted. `CtrlC` may happen at any moment. A round is one step: it consumes the
pending token and the accepted drafts, and the loop over the accepted drafts follows from them. `hit` and
`stale` are history variables. `--system`, `/config` and empty lines change none of this and are left out.

## 3. Runs

Each passing run explores its whole state space, with deadlock checking on except in `kernels`, whose jobs end. For every
property of a passing run `PROJECT.json` names a mutant that the run must find.

| Run | Instance | Question |
|---|---|---|
| `load` | 35 files, short header reads, 32 budgets, 1-2 slots, 0 or 2 drafts, reads that fail | from the file to a generation's state: what is parsed, planned, read, viewed and allocated |
| `plan_minimum` | 3 layers of 1 or 20 bytes | counterexample: a feasible budget refused |
| `direct_file` | 3 requests in flight, 4 chunks, all ends of file, both builds | prefix, no pending write, termination |
| `ring` | layers 1..3 streamed, 2 slots, 3 passes, failing reads | all safety of the ring, the FIFO refinement, liveness |
| `ring_read_fails` | layers 0..1, 2 slots, 1 pass | counterexample: a failed read and a waiting `acquire` |
| `pool` | 2 callers, 2 workers, 2 jobs, panics | safety of a job's borrow; every `run` returns |
| `pool_stale_panic` | the same | counterexample: a stale panic flag |
| `kernels` | all six types, 1-3 participants, up to 17 activations | same sums on every path, the dequantised product, one writer per cell |
| `decode` | K = 3 any acceptance; K = 0, 2 greedy with 3 nets; K = 0, 1 sampled with a budget of 0 and 2; 2 turns | states after rounds and turns, reserves, refinement of `TokenStream`, every turn ends |
| `sample` | 3 tokens, 2 drafts, 28 settings, 5 rows of logits | the kept set, what is emitted, its distribution |
| `chat` | 0, 1 and 2 drafts per round, 3 lines | the session's invariants |
| `chat_stale_state` | 2 drafts per round, 2 lines | counterexample: a state that is ahead and is reused |

Why the bounds are enough:

* `load`: the model files have a layer of each kind, an MTP block, and sizes no two of which are equal where the code
  could take one for the other; tensors before, between and behind the layers; one thing wrong at a time for each check. The
  small files make every refill of the header buffer happen at every place, with a chunk of 64 bytes. The budgets go from
  below the always-resident set to everything.
* `direct_file`: lengths of 0, one chunk, one and a half, and three and a half; files that end before, in, at and after a chunk; a sector of two pages.
* `ring`: three streamed layers in two slots make the last layer of a pass share its slot with the first of
  the next (tier.rs 17-19), and three passes let the prefetch of a next pass, its consumption and its
  release all happen. The proofs cover all other geometries.
* `pool`: two jobs let the last worker of one job meet the next job; two workers let one of them have no
  work, and let `notify_one` be told from `notify_all`.
* `kernels`: up to three super-blocks per row; bytes at their greatest and least, so that every scale and code is extreme at once, ties of the
  greatest activation with both signs, zeros; 5 rows asked over 1 to 6 threads; tiles that divide the batch and tiles that do not,
  up to a full tile of 16 activations and one of 1 behind it; rows of three super-blocks, of which the cache holds 5, so that the tile is 4. `RowBlock` (2) and `TileBytes` (16 rows of activations) are
  smaller than the code's 32 rows and 192 KiB so that blocks and tiles end inside a matrix this small.
* `decode`: with K = 3 a round can accept none, some and all drafts, and the chain of drafts has a first, a middle and
  a last row. The second turn starts on a used state, with and without a pending token that was not consumed. The nets of
  `ToyNets` depend on every token of the context and on its order; three of them with three tokens reach stop tokens at every place of a round.
* `sample`: distributions with ties, with an underflow, and a draft's kept set that is disjoint from, inside and around the target's.
* `chat`: two drafts per round is the first value at which a turn can end inside a round. Three
  lines are a first turn, a turn on a used state and one after a re-encoding, a reset or a refusal.

Constants that only bound the model: `MaxPasses`, `MaxTurns`, `MaxLines`, `MaxJobs`.

### Fairness

* `Ring`: weak fairness of each thread's steps (both are scheduled by the operating system), strong fairness
  of the actions that take a mutex both threads want (it is held for a few instructions at a time, so a thread that waits
  finds it free again and again). None for spurious wakeups, the start of a pass, the start of a shutdown or
  the outcome of a read, except that a read ends.
* `Pool`: strong fairness of each thread, for the same reasons. None for calling `run` or spurious wakeups.
* `SpecDecode`: a single thread that goes on (`WF_vars(Next)`); `TurnEnds` depends on nothing else.
* `ChatSession`: weak fairness of the turn only; the user may stop typing.
* `DirectFile`: the caller goes on, and every pending request is ended by the system, in one way or another.

### What the violations show

1. `chat_stale_state`: after a turn that ended inside a verified batch (a stop token or `--max-tokens` among the accepted
   drafts, with more of them behind it) `consumed` is cleared and the state is kept (chat.rs 471-473). The next
   turn takes the empty `consumed` for a fresh state (392-397) and prefills the whole conversation on top of the
   old one. The header of chat.rs says it is re-encoded from scratch. `chat` shows that this is the only way to get there:
   as long as no turn ended like this (`~stale`) the state is the conversation.
2. `pool_stale_panic`: when the caller's part of a job and a worker's part both panic, the worker's flag
   survives the unwinding, and the next job panics although nobody in it did (pool.rs 146-151).
3. `ring_read_fails`: when a read fails the I/O thread panics, and `acquire` waits for ever (tier.rs 724,
   748): the error does not reach the decode thread. `ring` shows that without it every acquire returns.
4. `plan_minimum`: `minimum` counts a ring for the largest of all layers; once
   the largest are pinned (they come early, or all layers are pinned, as in TLC's trace) a plan can fit below that, which `compute` finds, `fits` accepts and `check` refuses (tier.rs 408, 436).

What the passing runs say beside their properties:

* `RowsWithinReserve` holds for K up to 4. The bound behind it, prompt + max_tokens + 2K - 2 rows against
  a reserve of prompt + max_tokens + K + 2 (run.rs 271), says that the MTP's cache would grow during the decode for K >= 5, against
  run.rs 293-294; a mode with k = 5 in `MCSpecDecode` makes TLC show it.
* `PlanCoversMemory` allows for two copies the plan has no line for: the final norm, and the small vectors of the first MTP block
  (`Unplanned`). They are a few tens of kilobytes in a real model and fall under the plan's baseline reserve.
* A file whose `attn_q` has no output gate, or that ties its embeddings, passes the configuration and is refused by the
  loader; `full_attention_interval` = 0 divides by zero in the configuration instead of being refused (config.rs 241).
* On Linux a short `pread` before the end of the file ends the loop (os.rs 651): `TotalIsPrefix` allows a total that is short for this
  reason, and says that it happened (`short`). The ring turns it into a panic.

## 4. Proofs

Each theorem is of the specification TLC runs (`Safety` is the ring's without fairness, `PlanSpec` the planner's own), for every value of the constants, from the `ASSUME` of the module alone. TLC evaluates these assumptions on every run.

| Module | Theorem | States |
|---|---|---|
| `StreamingProofs` | `RingTypeOK` | the type invariant |
| | `RingComputeSeesItsLayer` | no slot is written or holds another layer while its layer is computed |
| | `RingReadAhead` | reads are 0 or 1 ahead of consumes, for every layer |
| | `RingReleaseAsserts` | the assertions of `release` hold |
| | `RingCountersFinal` | no slot and no counter changes after `shutdown` returned |
| | `RingImplementsFifo` | the ring implements `LayerFifo`, a FIFO of layers bounded by the number of slots |
| | `DirectNothingPending` | no request is pending when `read_at` has returned, with an error or without |
| | `DirectTotalIsPrefix` | the count returned is the prefix of the range that is in the buffer |
| | `DirectOneRequestPerSlot` | flags and table agree; the requests in flight are of distinct bytes, in order |
| `PoolProofs` | `PoolTypeOK` | the type invariant; `remaining` does not underflow |
| | `PoolEveryoneRanOnce` | when `run` returns, the participants have run once each, and nobody else has |
| | `PoolBorrowIsLive` | no worker has the closure after the `run` that lent it |
| | `PoolPanicReachesCaller` | a `run` in whose job somebody panicked does not return normally |
| `LoadProofs` | `PlanLongestPrefix` | `compute` pins the longest prefix that fits |
| | `PlanAcceptedFits` | an accepted plan is within the budget, and its slots hold the read of every layer it streams |
| | `LoadOpenIsExact` | the parser gets the header's bytes in order, however the reads are cut, and none behind it; tensors of an opened file are inside it, under names of their own |
| | `LoadViewsHoldTheirTensor` | every matrix is a window of bytes read from its tensor's place, in a buffer large enough for what is read |
| | `LoadPlanCoversMemory` | at every point of a load, also of one that fails, what is allocated is within the plan's lines and `Unplanned`; the state is the number of bytes planned |
| | `LoadLongestPrefix`, `LoadAcceptedFits` | the planner's two properties, for the plan a load goes by: the input is what `PlanInput` makes of an accepted file |
| `MatmulProofs` | `MatmulOneWriterPerCell` | the participants write disjoint cells, inside the buffers, and all cells of the results |
| `SpecDecodeProofs` | `SpecStateIsCommitted` | both kinds of state hold what was committed, and no rejected draft |
| | `SpecMtpFollowsState` | the rows of the MTP's cache |
| | `SpecRowsWithinReserve` | the caches stay within what run.rs reserves (the MTP's for K <= 4) |
| | `SpecImplementsStream` | both loops implement `TokenStream`: greedy speculation is lossless, whatever the drafts |
| `SamplerProofs` | `SamplerKeptIsWarped` | the kept set of a position is what top-k, top-p and min-p leave of the target's tokens, whatever the buffers held before |
| | `SamplerEmittedIsKept` | a token that is emitted is in the kept set of the target at its position |
| | `SamplerLosslessSampling` | accept-or-resample gives every token the target's probability, whatever the draft's settings kept |
| `ChatSessionProofs` | `ChatTypeOK` | the type invariant |
| | `ChatStateFollowsConversation` | unless a turn ended inside a batch, the state is the conversation |
| | `ChatStateFits` | under the same condition the state does not outgrow `--max-pos` |
| | `ChatOwnInterruptOnly` | a turn is cut short only by an interrupt of its own |
| | `ChatReplyWithinBudget` | a reply is within `--max-tokens` |
| | `ChatGoesOnFromState` | a next turn goes on from the state, without re-encoding, when the reply renders to itself |

The assumptions: at least one streamed layer and one slot (`RingAssumption`); a value that stands for "no caller" and is none
(`PoolAssumption`); a sector and a number of slots that are not 0 (`PlanAssumption`); files, whatever is wrong with them, whose
unsigned fields are natural numbers and whose values have a sequence of fields (`GgufAssumption`, `LoadAssumption`); what the plan takes for
granted of a file (`CountedAssumption`: its small layer tensors are f32, for tier.rs 128 counts their bytes in the file while a copy has 4 per element, tier.rs 8;
the convolution's kernel is not 0, from which tier.rs 173 and config.rs 373 subtract 1); settings that are
numbers, and weights that are natural numbers and never greater the farther from the greatest logit, which is what the sampler uses of exponentials
(`SamplerAssumption`, `WeightAssumption`); natural numbers for what is asked of
`read_at`, with no relation between sector, page, chunk, length and file (`DirectFileAssumption`); at least one row per block, and
of a job what matvec.rs asserts of its arguments and a layer gives its loops (`MatmulAssumption`, `HeadLoopsAssumption`);
prompts that are not empty, and nothing of the model, which is any function (`SpecAssumption`); words, stop tokens and the user's marker
that differ (`ChatAssumption`). None bounds a number of layers, slots, callers, workers, jobs, requests, rows, heads, drafts, tokens or lines.

Hardly any of the properties is inductive. What each invariant adds, and why:

* **Ring** (`IInv`). A `Ready(l)` slot is the slot of `l` and holds its bytes (`ReadyHoldsLayer`); while the I/O thread is between
  its test and its publish the slot is `Free` (`IoOwnsFreeSlot`); from the consume until the release the decode thread's
  slot is ready with its layer (`DecodeOwnsReadySlot`), which excludes the other; the consumes of a layer are the passes, plus one for the
  layers before `cur` (`ConsumesOfPass`); reads exceed consumes exactly while a counted read waits to be consumed
  (`ReadsOfLayer`). The mutexes serve only to make a critical section one step: `owner` appears in no conjunct but the type.
  For the refinement `RefInv` adds that the layers between `released` and `idx` are ready, that nothing else is, and that these are
  at most one round of the streamed layers: the bound of the FIFO then follows by counting slots. It holds also when the layers are no multiple of the slots.
* **Pool** (`IInv`). `remaining` is the number of workers that have not counted the job down, whether they run it, are about to or
  have not seen it (`RemainingIsPending`); while there is one, a caller is inside `run` (`PendingHasCaller`); a worker on a job has the
  job and the `n` of that caller (`WorkerOnJob`). `RanOfJob` and `PanicIsKept` say what the history variables mean for that caller. The
  generation is what keeps a late worker from a second count.
* **MemoryPlan** (`PlanInv`). The search goes down from the whole model, so its answer is the best because of what it has passed
  (`SearchPassed`): a shorter prefix may need a larger ring, so nothing is said of what lies below. A slot is one sector longer than the
  longest span, which holds the aligned read wherever the span starts.
* **DirectFile** (`ReadInv`). With several requests in flight what has been counted is no prefix. The requests are of disjoint bytes below
  `issued` (`TableAgrees`, `Requests`), so `total` is the number of the file's bytes below it that no request still covers (`Counted`),
  and the buffer holds those that no unfinished request covers (`Landed`). When the table is empty the two are one prefix.
* **Gguf** (`HeaderInv`). The widths of the fields ahead are what is left of the header (`WidthLeft`), the bytes held begin with the next one
  to be parsed (`BytesInOrder`), and a refill asks for no more than it may (`Asked`). Why the exact mode stops at the end: the tensor infos are
  the last fields ahead (`InfosLast`), so that once one of them is to be parsed a refill asks for what this field is short of, and the chunk before
  them cannot pass the end when they are as long as a chunk. That sizes and offsets of the index are natural numbers needs a product over a
  shape of any length (`ElementsNat`).
* **Load** (`LoadInv`). An arena holds the aligned read of its block's range (`ArenasOk`), a view is at its tensor's place from the aligned start of its own
  layer's range (`ViewsOk`), and the plan that was accepted has slots for every streamed layer (`SlotRoom`), from the planner's invariant. The
  range of a block is the least and greatest byte of tensors that are in the index, which the header's invariant gives for an opened file.
* **Load, memory** (`MemInv`). The bound of the whole is not inductive: a phase may use up only its own lines of the plan, or the next one has nothing left.
  `MemInv` bounds what is allocated phase by phase, by the lines up to there: head and embeddings (`HeadBytesOf`), MTP blocks (`MtpUpTo`), pinned
  layers (`Prefix`), small copies (`SmallUpTo`), ring (`RingBytes`), state (`PlannedState`). A layer's copies are within its line because each is of a different
  small tensor of the layer, named in the order its kind of layer loads them, with 4 bytes for each element (`SmallCopies`). The copies for which no line exists are the final
  norm and those of the first MTP block. That the state has exactly the planned bytes is arithmetic on the shape (`StateAsPlanned`). While the plan is being decided the
  planner's `PlanInv` holds of the input made from the file, which gives the load its two properties.
* **Matmul** (`IInv`). A cell determines its row or head (`Unit`) by its index in the buffer. `RowRangesDisjoint` and `RowRangesCover` say
  that every unit is in one range exactly, also when the rounded-up chunks run out before the participants do; `ProductCells` and `LoopCells` that a
  share writes cells of its own units; `ProductComplete` and `LoopComplete` that the shares write all of them, row by row, per activation, or in
  row blocks and tiles whose last ones are partial. `Owned` and `Progress` carry this through the interleavings.
* **SpecDecode** (`IInv`). During a round the state is the caller's context followed by the drafts, and what the replay puts back is
  the part that the accepted drafts make up (`RoundState`, `AcceptedPart`). `LineIsChosen` says that the tokens not emitted yet are
  the argmax (a possible sample) of what comes before them, which the drafts do not enter. `MtpRows` holds the pairing of the MTP's cache through verification,
  acceptance and re-feeding; `WithinBudget` is where the reserve's arithmetic is.
* **Sampler** (`SamplerInv`). A row of the draft is the kept set its draft came from, spread over the vocabulary (`DraftRows`), also when the buffer of the kept
  set has been used for a later draft or for the target; the kept set of the last emitted token is that of the target (`KeptOfTarget`). That the
  steps of `process` leave `Warped` rests on the ranking being total and the weights not growing along it. Losslessness
  is then a statement about sums over finite sets: what acceptance gives a token and its share of the residual add up to its weight, because the
  masses that the two rows have in common cancel.
* **ChatSession** (`IInv`). What the REPL notes as consumed is at every point of a turn a known prefix of the rendering, the reply and at
  most one stop token (`ConsumedIsConversation`), and the state is that, except between a poisoned turn and the next restart
  (`StateIsConsumed`). An interrupt that a turn sees was raised since it began (`InterruptIsOwn`).

Every step of `Next` is a step of the proof. `DataLemmas` has what several modules need: remainders and wrap-around, prefixes, and that
`FlattenSeq` of the community modules, a recursive function, exists and concatenates, by a least counterexample.

Only model-checked:

* liveness (`AcquireReturnsUnlessDead`, `ShutdownCompletes`, `RunReturns`, `ReadReturns`, `TurnEnds`, `TurnComesBack`): it rests on fairness and `ENABLED`, which the prover has no rules for;
* `KernelsAgree`, `DotIsOfDequantised`: equalities of sums over the lanes of a block, for every value of bytes and codes. They are about recursive sums and fixed-width
  bit operations; TLC evaluates them on the extremes.


## 5. Not modelled

* Floating-point arithmetic: the rounding of f32 and f16 in kernels and quantisers, RoPE, the convolution, the DeltaNet recurrence, elementwise
  functions. TLA+ has no floating-point numbers and the repository compares them with fixtures. That a batch computes what
  single tokens compute is taken from those tests.
* The random generator; probabilities are exact fractions, so what rounding does to a distribution is not shown.
* The JSON reader of `generation_config.json`, template and tokenizer: parsers without state that matters to what is checked here, the latter two run by libraries.
* Rounding of arenas to large pages, and the transient vectors of a prefill: neither is in the plan.
* Files whose tensors overlap, whose small tensors are not f32, or whose offsets come near 2^63. The plan counts small tensors as f32.
* The memory cap; `doctor`, `bench`, `disk`, `info`, statistics and printing.
* Memory ordering of the atomics weaker than sequential consistency. The accesses that publish data are acquire/release pairs or under a mutex.
* Overflow of the `u32` and `u64` counters, which a run does not reach.

## 6. Plan

1. `ChatSession` over `SpecDecode`: its round implemented by the rounds of `SpecDecode`.
2. `KernelsAgree`: the lanes of one block as an equality of two finite sums, without the bit operations.
