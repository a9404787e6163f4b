----------------------------- MODULE SpecDecode -----------------------------
(***************************************************************************)
(* Decoding: Model::spec_prefill and Model::spec_round of                  *)
(* crates/core/src/spec.rs, Model::prefill and Model::forward_token of     *)
(* crates/core/src/model.rs, and the two loops of crates/cli/src/run.rs    *)
(* that call them, with --spec K and without it (K = 0).                   *)
(* The model's state is what it was computed from: a KV cache              *)
(* is the sequence of tokens whose rows it holds, a DeltaNet state the     *)
(* sequence of tokens folded into it, a row of the MTP's cache its token   *)
(* and the hidden it was paired with. All attention layers see the same    *)
(* rows and all DeltaNet layers the same tokens, so one of each stands for *)
(* all. A round is split where its intermediate state is worth looking at. *)
(***************************************************************************)
EXTENDS Naturals, Sequences

CONSTANTS
  Tok, Stop,        \* the vocabulary and its stop tokens
  Modes,            \* the settings tried: see mode
  Argmax(_, _, _),  \* of a net, the tokens in the KV caches, those in the DeltaNet states
  Prompts,          \* the tokens a turn feeds
  MaxTurns          \* bound of the model: turns made on one state

ASSUME SpecAssumption ==
  /\ Stop \subseteq Tok
  /\ MaxTurns \in Nat
  /\ \A m \in Modes : m.k \in Nat /\ m.max \in Nat /\ m.greedy \in BOOLEAN /\ m.toks \subseteq Tok
  /\ \A ids \in Prompts : ids \in Seq(Tok) /\ ids # <<>>

VARIABLES
  mode,             \* k: --spec, drafts per round; max: --max-tokens; greedy; net: the weights;
                    \* toks: the tokens that drafts and samplers try
  phase, turns,     \* the step the turn is at; turns started
  base, out,        \* the caller: context after the prefill, tokens emitted since
  ids,              \* prompt tokens the plain prefill has not fed yet
  todo, next,       \* accepted drafts of the round not emitted yet; the pending token
  kv, rec, pos,     \* the state: attention rows, DeltaNet state, position
  p, snap, saved,   \* the round: its first position, the snapshot, the saved batch inputs
  logits, hidden,   \* per row of the last batch: its argmax, and the hidden's context
  emitted,
  drafts, mtp,      \* the drafts of the next round; the rows of the MTP's cache
  hout, prev        \* the MTP rows whose hiddens are in hout; the one the chain goes on from

main  == <<kv, rec, pos>>
round == <<p, snap, saved, logits, hidden>>
head  == <<drafts, mtp, hout, prev>>
vars  == <<mode, phase, turns, base, out, ids, todo, next, emitted, main, round, head>>

K      == mode.k
MaxTokens == mode.max
Greedy == mode.greedy
net    == mode.net

Upto(s, n) == SubSeq(s, 1, n)

\* A row of the MTP's cache pairs token x with a hidden: the target's after the context
\* ctx, or the hidden of an earlier row of the MTP itself.
TargetRow(x, ctx)  == [tok |-> x, ctx |-> ctx, row |-> 0]
ChainedRow(x, row) == [tok |-> x, ctx |-> <<>>, row |-> row]

\* The token of the vocabulary chosen from the logits of a state: the argmax, or any draw
\* of the sampler.
Sampled(s, r) == {t \in Tok : IF Greedy THEN t = Argmax(net, s, r) ELSE t \in mode.toks}

Init ==
  /\ mode \in Modes /\ phase = "done" /\ turns = 0
  /\ base = <<>> /\ out = <<>> /\ ids = <<>> /\ todo = <<>> /\ next = 0 /\ emitted = <<>>
  /\ kv = <<>> /\ rec = <<>> /\ pos = 0
  /\ p = 0 /\ snap = <<>> /\ saved = <<>> /\ logits = <<>> /\ hidden = <<>>
  /\ drafts = <<>> /\ mtp = <<>> /\ hout = <<>> /\ prev = 1

-----------------------------------------------------------------------------
(* The MTP head.                                                           *)

\* Mutant of FeedMtp: the old draft rows are not forgotten.
FeedMtpKeeping(from, rows) ==
  /\ mtp' = mtp \o rows
  /\ hout' = [i \in 1 .. Len(rows) |-> from + i]
  /\ prev' = Len(rows)
  /\ \E d \in mode.toks : drafts' = <<d>>

\* Forget the rows from position `from` on, append `rows`, keep their hiddens, and take
\* the first draft from the last of them.
FeedMtp(from, rows) ==
  /\ mtp' = Upto(mtp, from) \o rows
  /\ hout' = [i \in 1 .. Len(rows) |-> from + i]
  /\ prev' = Len(rows)
  /\ \E d \in mode.toks : drafts' = <<d>>

\* One more draft from the MTP's own hidden and the draft before it, while K are not there.
ChainDraft ==
  /\ phase = "chain" /\ Len(drafts) < K
  /\ mtp' = Append(mtp, ChainedRow(drafts[Len(drafts)], hout[prev]))
  /\ hout' = [hout EXCEPT ![1] = Len(mtp')]
  /\ prev' = 1
  /\ \E d \in mode.toks : drafts' = Append(drafts, d)
  /\ UNCHANGED <<mode, phase, turns, base, out, ids, todo, next, emitted, main, round>>

ChainDone ==
  /\ phase = "chain" /\ Len(drafts) = K /\ phase' = "emit"
  /\ UNCHANGED <<mode, turns, base, out, ids, todo, next, emitted, main, round, head>>

-----------------------------------------------------------------------------
(* spec_prefill: on a used state it feeds the tokens after the ones the    *)
(* state has consumed, and forgets the last round's draft rows.            *)

SpecPrefill ==
  /\ phase = "done" /\ turns < MaxTurns /\ K > 0
  /\ turns' = turns + 1
  /\ \E fed \in Prompts :
       /\ kv' = kv \o fed /\ rec' = rec \o fed /\ pos' = pos + Len(fed)
       /\ next' \in Sampled(kv', rec')
       /\ FeedMtp(pos, [j \in 1 .. Len(fed) |->
                          TargetRow(IF j < Len(fed) THEN fed[j + 1] ELSE next', Upto(kv', pos + j))])
  /\ base' = kv' /\ out' = <<>> /\ todo' = <<>>
  /\ phase' = "chain"
  /\ UNCHANGED <<mode, ids, emitted, round>>

-----------------------------------------------------------------------------
(* Without --spec: n prompt tokens through all layers, the whole prompt as *)
(* one batch or one token at a time, and then one token per step.          *)

StartPlain ==
  /\ phase = "done" /\ turns < MaxTurns /\ K = 0
  /\ turns' = turns + 1 /\ phase' = "prefill"
  /\ ids' \in Prompts /\ base' = kv \o ids' /\ out' = <<>>
  /\ UNCHANGED <<mode, todo, next, emitted, main, round, head>>

Prefill ==
  /\ phase = "prefill"
  /\ \E n \in {1, Len(ids)} :
       /\ kv' = kv \o Upto(ids, n) /\ rec' = rec \o Upto(ids, n) /\ pos' = pos + n
       /\ ids' = SubSeq(ids, n + 1, Len(ids))
  /\ IF ids' = <<>> THEN phase' = "emit" /\ next' \in Sampled(kv', rec') ELSE UNCHANGED <<phase, next>>
  /\ UNCHANGED <<mode, turns, base, out, todo, emitted, round, head>>

ForwardToken ==
  /\ phase = "forward" /\ phase' = "emit"
  /\ kv' = Append(kv, next) /\ rec' = Append(rec, next) /\ pos' = pos + 1
  /\ next' \in Sampled(kv', rec')
  /\ UNCHANGED <<mode, turns, base, out, ids, todo, emitted, round, head>>

Plain == StartPlain \/ Prefill \/ ForwardToken

-----------------------------------------------------------------------------
(* The caller's loops: emit the accepted drafts, then the pending token,   *)
(* until a stop token or the token budget ends the turn.                   *)

Current == IF todo # <<>> THEN Head(todo) ELSE next

\* Only the plain loop looks at the budget before it emits anything.
EmitNothing ==
  /\ phase = "emit" /\ K = 0 /\ MaxTokens = 0 /\ phase' = "done"
  /\ UNCHANGED <<mode, turns, base, out, ids, todo, next, emitted, main, round, head>>

\* Mutant of EmitStop: a stop token is skipped over, not acted on.
EmitStopIgnored == phase = "emit" /\ Current \in Stop /\ UNCHANGED vars

EmitStop ==
  /\ phase = "emit" /\ Current \in Stop /\ phase' = "done"
  /\ UNCHANGED <<mode, turns, base, out, ids, todo, next, emitted, main, round, head>>

EmitToken ==
  /\ phase = "emit" /\ Current \notin Stop /\ ~(K = 0 /\ MaxTokens = 0)
  /\ out' = Append(out, Current)
  /\ todo' = IF todo # <<>> THEN Tail(todo) ELSE todo
  /\ phase' = IF Len(out') >= MaxTokens THEN "done"
              ELSE IF todo # <<>> THEN "emit"
              ELSE IF K > 0 THEN "verify" ELSE "forward"
  /\ UNCHANGED <<mode, turns, base, ids, next, emitted, main, round, head>>

\* Mutant of Reserved: the batch's rows are forgotten.
ReservedForOutput == Len(base) + MaxTokens

\* The positions the caches are reserved for.
Reserved == Len(base) + MaxTokens + K + 2

-----------------------------------------------------------------------------
(* spec_round.                                                             *)

\* Snapshot the DeltaNet states, then forward the pending token and the drafts as one
\* batch that also saves its inputs, its logits and its hiddens.
Verify ==
  LET batch == <<next>> \o drafts IN
  /\ phase = "verify" /\ phase' = "accept"
  /\ p' = pos /\ snap' = rec /\ saved' = batch
  /\ kv' = kv \o batch /\ rec' = rec \o batch /\ pos' = pos + K + 1
  /\ logits' = [i \in 1 .. K + 1 |-> Argmax(net, Upto(kv', Len(kv) + i), Upto(rec', Len(rec) + i))]
  /\ hidden' = [i \in 1 .. K + 1 |-> Upto(kv', pos + i)]
  /\ UNCHANGED <<mode, turns, base, out, ids, todo, next, emitted, head>>

\* Mutant of Accepts: the draft that differs is accepted along with those before it.
AcceptsOneMore(m, x) ==
  Greedy => /\ \A i \in 1 .. m - 1 : drafts[i] = logits[i]
            /\ m < K => drafts[m + 1] # logits[m + 1]
            /\ x = logits[m + 1]

\* m drafts are accepted. Greedy: those before the first that is not the argmax of its
\* row, which is emitted instead. Sampling: any m and any resampled token.
Accepts(m, x) ==
  Greedy => /\ \A i \in 1 .. m : drafts[i] = logits[i]
            /\ m < K => drafts[m + 1] # logits[m + 1]
            /\ x = logits[m + 1]

Accept ==
  /\ phase = "accept" /\ phase' = "rollback"
  /\ \E m \in 0 .. K, x \in IF Greedy THEN Tok ELSE mode.toks :
       /\ Accepts(m, x)
       /\ emitted' = Append(Upto(drafts, m), x)
       /\ todo' = Upto(drafts, m) /\ next' = x
  /\ UNCHANGED <<mode, turns, base, out, ids, main, round, head>>

\* Mutant of Replayed: the snapshot is not restored.
ReplayedOnTop(keep)  == rec \o Upto(saved, keep)

\* The DeltaNet state after the snapshot is restored and `keep` saved rows are replayed.
Replayed(keep) == snap \o Upto(saved, keep)

\* Back to the accepted rows: the KV caches by length, the DeltaNet states by restoring
\* the snapshot and replaying the saved inputs.
Rollback ==
  LET keep == Len(emitted) IN
  /\ phase = "rollback" /\ phase' = "refeed"
  /\ IF keep < K + 1
     THEN rec' = Replayed(keep) /\ kv' = Upto(kv, p + keep) /\ pos' = p + keep
     ELSE UNCHANGED main
  /\ UNCHANGED <<mode, turns, base, out, ids, todo, next, emitted, round, head>>

\* The MTP forgets its draft rows and gets the accepted tokens with the target's hiddens.
Refeed ==
  /\ phase = "refeed" /\ phase' = "chain"
  /\ FeedMtp(p, [i \in 1 .. Len(emitted) |-> TargetRow(emitted[i], hidden[i])])
  /\ UNCHANGED <<mode, turns, base, out, ids, todo, next, emitted, main, round>>

SpecRound == Verify \/ Accept \/ Rollback \/ Refeed
Emission  == EmitNothing \/ EmitStop \/ EmitToken

Finished == phase = "done" /\ turns = MaxTurns /\ UNCHANGED vars

Next == Plain \/ SpecPrefill \/ ChainDraft \/ ChainDone \/ Emission \/ SpecRound \/ Finished

Spec == Init /\ [][Next]_vars /\ WF_vars(Next)

-----------------------------------------------------------------------------
(* Properties.                                                             *)

\* The attention caches, the DeltaNet states and the position agree, and what they have
\* consumed is exactly the context, the emitted tokens and the accepted drafts still to be
\* emitted: no rejected draft survives a round in either kind of state. A turn that ends
\* leaves none behind either; a last token that no step consumed may be missing.
StateIsCommitted ==
  /\ phase \in {"emit", "refeed", "chain"} => kv = base \o out \o todo
  /\ phase = "done" /\ turns > 0 => kv \in {base \o out \o todo, base \o Upto(out, Len(out) - 1)}
  /\ phase \notin {"accept", "rollback"} => rec = kv /\ pos = Len(kv)

\* What spec_round asserts on entry, and what spec_prefill's comment says of a used state:
\* one row per consumed position, of the target's hidden there and (in the turn's own
\* part) the token after it, then the K - 1 rows of the drafts, each chained on the row
\* before it. A row of an earlier turn may hold a pending token the next turn did not feed.
MtpFollowsState ==
  K > 0 /\ (phase \in {"emit", "verify"} \/ (phase = "done" /\ turns > 0)) =>
    /\ Len(drafts) = K /\ Len(mtp) = pos + K - 1
    /\ \A j \in 1 .. pos : mtp[j] = TargetRow(mtp[j].tok, Upto(kv, j))
    /\ \A j \in Len(base) .. pos : mtp[j].tok = Append(kv, next)[j + 1]
    /\ \A i \in 1 .. K - 1 : mtp[pos + i] = ChainedRow(drafts[i], pos + i - 1)

\* Neither a batch nor the MTP's draft rows outgrow the caches, which run.rs reserves for
\* the prompt, the tokens to generate and K + 2 more, so that "after this the decode step
\* allocates nothing". For the MTP's cache it holds for K <= 4: the last round may bring
\* it 2 * K - 2 rows past the prompt and the tokens to generate.
RowsWithinReserve == Len(kv) <= Reserved /\ Len(mtp) <= Reserved

\* A round emits at least one token, so every turn ends.
TurnEnds == phase \in {"chain", "prefill"} ~> phase = "done"

Stream == INSTANCE TokenStream
            WITH out <- Upto(out, IF Len(out) < MaxTokens THEN Len(out) ELSE MaxTokens),
                 finished <- (phase = "done")

\* Both loops emit what decoding promises: the argmax after the context and everything
\* emitted so far, whatever the drafts were, so that greedy speculation is lossless
\* ("the plain loop's ids"); with a sampler a stop token still ends the turn, unemitted.
ImplementsStream == Stream!Spec
=============================================================================
