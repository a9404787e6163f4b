------------------------------ MODULE Sampler ------------------------------
(***************************************************************************)
(* The sampler of crates/core/src/sample.rs in the round that uses it:     *)
(* each draft is drawn from the processed distribution of the MTP's        *)
(* logits, which is kept densely; each verified position accepts its draft *)
(* or resamples from what the draft distribution left of the target's      *)
(* (Model::draft_token and the sampling branch of Model::spec_round).      *)
(*                                                                         *)
(* Probabilities are exact: a candidate has an integer weight, and its     *)
(* probability is its weight over the mass of the kept set. What rounding  *)
(* can change is kept as choice: an exponential that underflows to 0, and  *)
(* cumulative sums that stay below the number drawn.                       *)
(***************************************************************************)
EXTENDS Integers, SequencesExt

CONSTANTS
  Vocab,         \* token ids
  Files,         \* generation_config.json: the fields it gives
  Flags,         \* the sampling options of the command line
  Weight(_, _),  \* of a temperature and a distance to the greatest logit: its exponential
  LogitRows,     \* the rows of logits tried: functions of the token
  K              \* drafts per round

\* The values of a setting: top_p and min_p are fractions.
IsSetting(x, v) ==
  /\ x = "temperature" => v \in Int
  /\ x = "top_k" => v \in Nat
  /\ x \in {"top_p", "min_p"} => v[1] \in Int /\ v[2] \in Nat \ {0}

ASSUME SamplerAssumption ==
  /\ Vocab \subseteq Nat /\ Vocab # {} /\ IsFiniteSet(Vocab) /\ K \in Nat
  /\ \A l \in LogitRows : l \in [Vocab -> Int]
  /\ \A f \in Files : \A x \in DOMAIN f : IsSetting(x, f[x])
  /\ \A o \in Flags : \A x \in DOMAIN o : IsSetting(x, o[x])

VARIABLES
  cfg,                 \* the settings
  kept,                \* the buffers: ids and weights of the kept set, its mass
  drafts, q, proposed, \* the drafts; the dense rows; the kept sets they were drawn from (history)
  target,              \* the target's logits of the position just decided
  emitted, accepted    \* tokens of the round; how many are accepted drafts

vars == <<cfg, kept, drafts, q, proposed, target, emitted, accepted>>

Off == "off"

-----------------------------------------------------------------------------
(* Settings.                                                               *)

\* The file's fields over the neutral settings; do_sample = false makes them greedy.
FromFile(f) ==
  LET given == [x \in {"temperature", "top_k", "top_p", "min_p"} |->
                  IF x \in DOMAIN f THEN f[x]
                  ELSE CASE x = "temperature" -> 1 [] x = "top_k" -> 0 [] x = "top_p" -> <<1, 1>> [] OTHER -> <<0, 1>>]
  IN IF "do_sample" \in DOMAIN f /\ ~f.do_sample THEN [given EXCEPT !.temperature = 0] ELSE given

\* Greedy unless a sampling option is given; then the file's settings and, over them, the options.
Resolved(f, flags) ==
  IF DOMAIN flags = {} THEN [FromFile(<<>>) EXCEPT !.temperature = 0]
  ELSE [x \in DOMAIN FromFile(f) |-> IF x \in DOMAIN flags THEN flags[x] ELSE FromFile(f)[x]]

\* A file that names a repetition penalty is refused; so is --sample without a file.
Refused(f, flags) ==
  /\ DOMAIN flags # {}
  /\ \/ "repetition_penalty" \in DOMAIN f /\ f.repetition_penalty # 1
     \/ "missing" \in DOMAIN f /\ "sample" \in DOMAIN flags

Greedy == cfg.temperature <= 0

\* What the weights share with exponentials: none is greater the farther from the greatest logit.
ASSUME WeightAssumption ==
  \A f \in Files, o \in Flags, l \in LogitRows : \A a, b, c \in Vocab :
    LET t == Resolved(f, o).temperature IN
    t > 0 /\ l[a] >= l[b] /\ l[b] >= l[c] =>
      Weight(t, l[a] - l[b]) \in Nat /\ Weight(t, l[a] - l[c]) <= Weight(t, l[a] - l[b])

-----------------------------------------------------------------------------
(* process: the kept set.                                                  *)

Before(l, a, b) == l[a] > l[b] \/ (l[a] = l[b] /\ a < b)

Descending(l) ==
  [i \in 1 .. Cardinality(Vocab) |-> CHOOSE t \in Vocab : Cardinality({s \in Vocab : Before(l, s, t)}) = i - 1]

\* The first maximum.
Argmax(l) == Descending(l)[1]

NCand == IF cfg.top_k > 0 /\ cfg.top_k < Cardinality(Vocab) THEN cfg.top_k ELSE Cardinality(Vocab)

SumOf(w) == FoldSeq(+, 0, w)

\* Mutant of TopPCount: the candidate that crosses the threshold goes.
TopPCountBelow(w) ==
  Max({1} \cup {n \in 1 .. Len(w) : SumOf(SubSeq(w, 1, n)) * cfg.top_p[2] < cfg.top_p[1] * SumOf(w)})

\* Candidates stay while the mass before them is below top_p, and at least one does.
TopPCount(w) ==
  IF cfg.top_p[1] >= cfg.top_p[2] THEN Len(w)
  ELSE Max({1} \cup {n \in 1 .. Len(w) : SumOf(SubSeq(w, 1, n - 1)) * cfg.top_p[2] < cfg.top_p[1] * SumOf(w)})

\* Of the first n, those up to the first one below min_p times the top probability.
MinPCount(w, n) ==
  Max({c \in 1 .. n : \A i \in 2 .. c : w[i] * cfg.min_p[2] >= cfg.min_p[1] * w[1]})

KeptSet(ids, w) == [ids |-> ids, w |-> w, mass |-> SumOf(w)]

\* The kept set of a row of logits: top-k, temperature, top-p, min-p, in this order.
Process(l) ==
  IF Greedy THEN KeptSet(<<Argmax(l)>>, <<1>>)
  ELSE LET cand == SubSeq(Descending(l), 1, NCand)
           w    == [i \in 1 .. NCand |-> Weight(cfg.temperature, l[cand[1]] - l[cand[i]])]
           n    == MinPCount(w, TopPCount(w))
       IN KeptSet(SubSeq(cand, 1, n), SubSeq(w, 1, n))

\* What draw may return: a candidate of positive weight, or the last one when the
\* cumulative sum stays below the number drawn.
Draws(s) == {s.ids[i] : i \in {j \in DOMAIN s.ids : s.w[j] > 0}} \cup {Last(s.ids)}

\* The weight of token t in a kept set.
WeightIn(s, t) == IF t \in ToSet(s.ids) THEN s.w[CHOOSE i \in DOMAIN s.ids : s.ids[i] = t] ELSE 0

\* Mutant of WriteDense: the row is not cleared first.
WriteDenseOver(s, old) == [w |-> [t \in Vocab |-> IF t \in ToSet(s.ids) THEN WeightIn(s, t) ELSE old.w[t]], mass |-> s.mass]

\* The kept set as a row over the vocabulary, written into a row used before.
WriteDense(s, old) == [w |-> [t \in Vocab |-> WeightIn(s, t)], mass |-> s.mass]

-----------------------------------------------------------------------------
(* accept_or_resample: p is the target's kept set, qr the dense row.       *)

\* Mutant of ShareNum: a draft more probable under the target is accepted, any other is not.
ShareNumAllOrNothing(p, qr, d) == IF WeightIn(p, d) * qr.mass >= p.mass * qr.w[d] THEN p.mass * qr.w[d] ELSE 0

\* The draft d is accepted with probability ShareNum / ShareDen = min(1, p(d) / q(d)).
ShareNum(p, qr, d) == Min({p.mass * qr.w[d], WeightIn(p, d) * qr.mass})
ShareDen(p, qr, d) == p.mass * qr.w[d]

\* Mutant of MayAccept: a draft that the target excludes may be accepted.
MayAcceptAny(p, qr, d) == qr.w[d] > 0

\* Some number drawn accepts, some number drawn does not.
MayAccept(p, qr, d) == qr.w[d] > 0 /\ ShareNum(p, qr, d) > 0
MayReject(p, qr, d) == qr.w[d] = 0 \/ ShareNum(p, qr, d) < ShareDen(p, qr, d)

\* What is left of p where q is taken away: max(0, p - q) over the kept set.
Residual(p, qr) ==
  KeptSet(p.ids, [i \in DOMAIN p.ids |-> Max({0, p.w[i] * qr.mass - qr.w[p.ids[i]] * p.mass})])

\* Nothing left happens only to rounding: then p itself is drawn from.
Leftover(p, qr) == IF Residual(p, qr).mass > 0 THEN Residual(p, qr) ELSE p

-----------------------------------------------------------------------------
(* The round.                                                              *)

ZeroRow == [w |-> [t \in Vocab |-> 0], mass |-> 1]

Init ==
  /\ \E f \in Files, o \in Flags : ~Refused(f, o) /\ cfg = Resolved(f, o)
  /\ kept = KeptSet(<<>>, <<>>)
  /\ drafts = <<>> /\ proposed = <<>> /\ q = [i \in 1 .. K |-> ZeroRow]
  /\ target \in LogitRows /\ emitted = <<>> /\ accepted = 0

\* One draft. A greedy one is the argmax, and its row is not written.
DraftToken ==
  LET i == Len(drafts) + 1 IN
  /\ i <= K /\ emitted = <<>>
  /\ \E l \in LogitRows, d \in Vocab :
       /\ IF Greedy
          THEN d = Argmax(l) /\ UNCHANGED <<kept, q>> /\ proposed' = Append(proposed, KeptSet(<<d>>, <<1>>))
          ELSE /\ kept' = Process(l)
               /\ d \in Draws(kept')
               /\ q' = [q EXCEPT ![i] = WriteDense(kept', q[i])]
               /\ proposed' = Append(proposed, kept')
       /\ drafts' = Append(drafts, d)
  /\ UNCHANGED <<cfg, target, emitted, accepted>>

\* Another draft is looked at: all those before it were accepted.
Verifying == Len(drafts) = K /\ Len(emitted) = accepted /\ accepted < K

AcceptDraft ==
  LET d == drafts[accepted + 1] IN
  /\ Verifying
  /\ target' \in LogitRows /\ kept' = Process(target')
  /\ IF Greedy THEN kept'.ids[1] = d ELSE MayAccept(kept', q[accepted + 1], d)
  /\ emitted' = Append(emitted, d) /\ accepted' = accepted + 1
  /\ UNCHANGED <<cfg, drafts, q, proposed>>

\* The residual replaces the probabilities in the buffers.
Resample ==
  LET d == drafts[accepted + 1] IN
  /\ Verifying
  /\ target' \in LogitRows
  /\ LET p == Process(target') IN
     IF Greedy
     THEN p.ids[1] # d /\ kept' = p
     ELSE MayReject(p, q[accepted + 1], d) /\ kept' = Leftover(p, q[accepted + 1])
  /\ \E t \in Draws(kept') : emitted' = Append(emitted, t)
  /\ UNCHANGED <<cfg, drafts, q, proposed, accepted>>

\* All drafts accepted: one token from the last row of logits.
Bonus ==
  /\ Len(drafts) = K /\ accepted = K /\ Len(emitted) = K
  /\ target' \in LogitRows /\ kept' = Process(target')
  /\ \E t \in Draws(kept') : emitted' = Append(emitted, t)
  /\ UNCHANGED <<cfg, drafts, q, proposed, accepted>>

\* The next round: the dense rows keep what they hold.
NewRound ==
  /\ Len(emitted) = accepted + 1
  /\ drafts' = <<>> /\ proposed' = <<>> /\ emitted' = <<>> /\ accepted' = 0
  /\ UNCHANGED <<cfg, kept, q, target>>

Next == DraftToken \/ AcceptDraft \/ Resample \/ Bonus \/ NewRound

Spec == Init /\ [][Next]_vars

-----------------------------------------------------------------------------
(* Properties.                                                             *)

\* The kept set by rank, as the warpers define it (docs of `process`: "HF generate's warper
\* order, each on the distribution the previous one left").
Warped(l) ==
  LET top    == CHOOSE t \in Vocab : \A s \in Vocab \ {t} : Before(l, t, s)
      w == [t \in Vocab |-> Weight(cfg.temperature, l[top] - l[t])]
      mass(S) == SumFunctionOnSet(w, S)
      byK    == {t \in Vocab : cfg.top_k = 0 \/ Cardinality({s \in Vocab : Before(l, s, t)}) < cfg.top_k}
      byP    == {t \in byK : cfg.top_p[1] >= cfg.top_p[2] \/ t = top
                   \/ mass({s \in byK : Before(l, s, t)}) * cfg.top_p[2] < mass(byK) * cfg.top_p[1]}
  IN {t \in byP : t = top \/ w[t] * cfg.min_p[2] >= w[top] * cfg.min_p[1]}

\* The kept set of every position is what the warpers keep, whatever the buffers held
\* before, and resampling leaves it alone.
KeptIsWarped == ~Greedy /\ emitted # <<>> => ToSet(kept.ids) = Warped(target)

\* No token that the target's settings exclude is emitted, however the drafts came about:
\* speculation keeps top-k, top-p and min-p of the target.
EmittedIsKept == emitted # <<>> => Last(emitted) \in ToSet(kept.ids)

\* Over the drafts that the head may propose at a position and the numbers drawn, the token
\* emitted there has the target's distribution ("the exact speculative acceptance rule"):
\* accepted mass of t plus rejected mass times the residual's share of t is p(t).
LosslessSampling ==
  LET i == Len(emitted)   p == Process(target)   s == proposed[i]   r == Residual(p, q[i])
      num == [t \in Vocab |-> ShareNum(p, q[i], t)]
      rejected == p.mass * q[i].mass - SumFunctionOnSet(num, Vocab)
  IN ~Greedy /\ i \in 1 .. K =>
       /\ \A t \in Vocab : q[i].w[t] * s.mass = WeightIn(s, t) * q[i].mass
       /\ \A t \in Vocab : num[t] * r.mass + rejected * WeightIn(r, t) = WeightIn(p, t) * q[i].mass * r.mass
       /\ r.mass = 0 => rejected = 0
=============================================================================
