-------------------------- MODULE SpecDecodeProofs --------------------------
(***************************************************************************)
(* Proofs about SpecDecode for every model (the Argmax), vocabulary, mode, *)
(* set of prompts and number of turns.                                     *)
(*                                                                         *)
(* During a round the state holds what the caller has (Said) and the       *)
(* drafts; the replay after a rejection is a prefix of that, the one that  *)
(* the accepted drafts make up (RoundState, AcceptedPart). The tokens not  *)
(* emitted yet are choices after what comes before them (LineIsChosen),    *)
(* which is what makes the stream lossless.                                *)
(***************************************************************************)
EXTENDS SpecDecode, DataLemmas, TLAPS

\* The context of the caller; with what the round holds for it still to emit.
Said == base \o out
Line == Said \o Append(todo, next)

Row == [tok : Tok, ctx : Seq(Tok), row : Nat]

SpecTypes ==
  /\ mode \in Modes
  /\ phase \in IF K = 0 THEN {"done", "prefill", "emit", "forward"}
               ELSE {"done", "chain", "emit", "verify", "accept", "rollback", "refeed"}
  /\ turns \in Nat /\ pos \in Nat /\ p \in Nat
  /\ base \in Seq(Tok) /\ out \in Seq(Tok) /\ todo \in Seq(Tok) /\ ids \in Seq(Tok)
  /\ kv \in Seq(Tok) /\ rec \in Seq(Tok) /\ snap \in Seq(Tok) /\ saved \in Seq(Tok)
  /\ drafts \in Seq(Tok) /\ emitted \in Seq(Tok) /\ mtp \in Seq(Row)
  /\ turns > 0 /\ phase # "prefill" => next \in Tok
  /\ turns > 0 => base # <<>>
  /\ K = 0 => mtp = <<>>
  /\ turns = 0 => phase = "done" /\ kv = <<>> /\ base = <<>> /\ out = <<>> /\ todo = <<>> /\ mtp = <<>>

\* Outside a round's batch the two kinds of state and the position agree.
StatesAgree == phase \notin {"accept", "rollback"} => rec = kv /\ pos = Len(kv)

\* What the state has consumed, between the rounds.
CommittedState ==
  /\ phase \in {"emit", "refeed", "chain"} => kv = Said \o todo
  /\ phase \in {"verify", "forward"} => todo = <<>> /\ Append(kv, next) = Said /\ out # <<>>
  /\ phase = "prefill" => todo = <<>> /\ out = <<>> /\ ids # <<>> /\ kv \o ids = base
  /\ phase = "done" /\ turns > 0 => kv \in {Said \o todo, base \o Upto(out, Len(out) - 1)}
  /\ K = 0 => todo = <<>>

\* ... and inside one.
RoundState ==
  /\ phase \in {"accept", "rollback", "refeed"} =>
       /\ Len(drafts) = K /\ out # <<>> /\ p = Len(Said) - 1
  /\ phase \in {"accept", "rollback"} =>
       /\ kv = Said \o drafts /\ rec = kv /\ pos = Len(kv)
       /\ p = Len(snap) /\ Len(saved) = K + 1 /\ rec = snap \o saved
  /\ phase = "accept" => todo = <<>>

\* The accepted drafts and the token that follows them.
AcceptedPart ==
  phase \in {"rollback", "refeed"} =>
    /\ Len(todo) <= K /\ todo = Upto(drafts, Len(todo)) /\ emitted = Append(todo, next)

WithinBudget ==
  /\ phase \in {"emit", "chain"} => out = <<>> \/ Len(out) < MaxTokens
  /\ phase \in {"verify", "forward", "accept", "rollback", "refeed"} => Len(out) < MaxTokens
  /\ phase = "prefill" => Len(kv) <= Len(base)
  /\ phase \notin {"accept", "rollback", "prefill"} =>
       Len(kv) <= Len(base) + MaxTokens + (IF K = 0 THEN 0 ELSE K - 1)

\* The rows of the MTP's cache for the context full without its last token.
RowsOf(full) ==
  /\ Len(mtp) >= Len(full) - 1
  /\ \A j \in 1 .. Len(full) - 1 : mtp[j] = TargetRow(mtp[j].tok, Upto(full, j))
  /\ \A j \in Len(base) .. Len(full) - 1 : mtp[j].tok = full[j + 1]

\* ... and those of the drafts, each chained on the row before it.
DraftRows ==
  /\ Len(mtp) = pos + Len(drafts) - 1
  /\ \A i \in 1 .. Len(drafts) - 1 : mtp[pos + i] = ChainedRow(drafts[i], pos + i - 1)

MtpRows ==
  K > 0 /\ turns > 0 =>
    /\ phase \in {"done", "emit", "verify", "chain"} => RowsOf(Append(kv, next)) /\ DraftRows
    /\ phase \in {"accept", "rollback", "refeed"} => RowsOf(Said) /\ Len(mtp) = p + K - 1
    /\ phase \in {"done", "emit", "verify"} => Len(drafts) = K
    /\ phase = "chain" =>
         /\ Len(drafts) \in 1 .. K
         /\ hout \in [DOMAIN hout -> Nat] /\ 1 \in DOMAIN hout /\ prev \in DOMAIN hout
         /\ hout[prev] = Len(mtp)
    /\ phase \in {"accept", "rollback", "refeed"} =>
         \A i \in 1 .. K + 1 : i \in DOMAIN hidden /\ hidden[i] = Upto(Said \o drafts, p + i)

\* The choices of the model, as decoding promises them.
Chosen(ctx, t) == IF Greedy THEN t = Argmax(net, ctx, ctx) ELSE t \in mode.toks

LineIsChosen ==
  /\ phase \in {"emit", "rollback", "refeed", "chain"} =>
       \A q \in Len(Said) + 1 .. Len(Line) : Chosen(Upto(Line, q - 1), Line[q])
  /\ \A i \in DOMAIN drafts : drafts[i] \in mode.toks
  /\ phase = "accept" =>
       \A i \in 1 .. K + 1 : logits[i] = Argmax(net, Upto(Said \o drafts, p + i), Upto(Said \o drafts, p + i))

\* The inductive invariant of decoding.
IInv ==
  /\ SpecTypes
  /\ StatesAgree
  /\ CommittedState
  /\ RoundState
  /\ AcceptedPart
  /\ WithinBudget
  /\ MtpRows
  /\ LineIsChosen

-----------------------------------------------------------------------------
LEMMA ModeFacts ==
  ASSUME mode \in Modes
  PROVE  /\ K \in Nat /\ MaxTokens \in Nat /\ Greedy \in BOOLEAN /\ mode.toks \subseteq Tok
  BY SpecAssumption DEF K, MaxTokens, Greedy

LEMMA SameMode ==
  ASSUME mode' = mode
  PROVE  K' = K /\ MaxTokens' = MaxTokens /\ Greedy' = Greedy /\ net' = net
  BY DEF K, MaxTokens, Greedy, net

\* A draft that was accepted or not, the context up to it is the same.
LEMMA AcceptedPrefix ==
  ASSUME NEW s \in Seq(Tok), NEW d \in Seq(Tok), NEW m \in 0 .. Len(d), NEW x \in Tok, NEW i \in 0 .. m
  PROVE  /\ Upto(s \o Append(Upto(d, m), x), Len(s) + i) = s \o Upto(d, i)
         /\ Upto(s \o d, Len(s) + i) = s \o Upto(d, i)
<1> DEFINE u == Upto(d, m)
<1>1. u \in Seq(Tok) /\ Len(u) = m /\ m \in Nat /\ i \in 0 .. Len(d)
  BY PrefixFacts, LenProperties DEF Upto
<1>2. <<x>> \in Seq(Tok) /\ Append(u, x) = u \o <<x>> /\ Append(u, x) \in Seq(Tok) /\ Len(Append(u, x)) = m + 1
  BY <1>1, AppendIsConcat, AppendProperties
<1>3. Upto(u, i) = Upto(d, i)
  BY PrefixOfPrefix DEF Upto
<1> HIDE DEF u
<1>4. i \in 0 .. Len(u) /\ i \in 0 .. Len(Append(u, x))
  BY <1>1, <1>2
<1>5. Upto(Append(u, x), i) = Upto(u, i)
  BY <1>1, <1>2, <1>4, PrefixOfConcat DEF Upto
<1>6. Upto(s \o Append(u, x), Len(s) + i) = s \o Upto(Append(u, x), i)
  BY <1>2, <1>4, PrefixIntoConcat DEF Upto
<1>7. Upto(s \o d, Len(s) + i) = s \o Upto(d, i)
  BY <1>1, PrefixIntoConcat DEF Upto
<1>8. QED
  BY <1>3, <1>5, <1>6, <1>7 DEF u

LEMMA InvInit == Init => IInv
<1> SUFFICES ASSUME Init PROVE IInv
  OBVIOUS
<1> USE DEF Init
<1>1. K \in Nat /\ MaxTokens \in Nat
  BY ModeFacts
<1>2. <<>> \in Seq(Tok) /\ <<>> \in Seq(Row) /\ Len(<<>>) = 0
  BY EmptySeq
<1>3. SpecTypes
  BY <1>1, <1>2 DEF SpecTypes
<1>4. StatesAgree /\ CommittedState /\ RoundState /\ AcceptedPart /\ MtpRows
  BY <1>1, <1>2 DEF StatesAgree, CommittedState, RoundState, AcceptedPart, MtpRows
<1>5. WithinBudget /\ LineIsChosen
  BY <1>1, <1>2 DEF WithinBudget, LineIsChosen
<1>6. QED
  BY <1>3, <1>4, <1>5 DEF IInv

\* Nothing but the phase changes: the last draft is there, a turn ends unemitted, or nothing.
LEMMA QuietStep ==
  ASSUME IInv, ChainDone \/ EmitNothing \/ EmitStop \/ UNCHANGED vars
  PROVE  IInv'
<1> USE DEF ChainDone, EmitNothing, EmitStop, vars, main, round, head
<1>1. /\ UNCHANGED <<mode, turns, base, out, ids, todo, next, emitted, kv, rec, pos, p, snap, saved,
                     logits, hidden, drafts, mtp, hout, prev>>
      /\ K' = K /\ MaxTokens' = MaxTokens /\ Greedy' = Greedy /\ net' = net
      /\ Said' = Said /\ Line' = Line
  BY SameMode DEF Said, Line
<1>2. \/ phase' = phase
      \/ phase = "chain" /\ phase' = "emit" /\ Len(drafts) = K
      \/ phase = "emit" /\ phase' = "done"
  OBVIOUS
<1>3. K \in Nat /\ MaxTokens \in Nat
  BY ModeFacts DEF IInv, SpecTypes
<1> HIDE DEF ChainDone, EmitNothing, EmitStop, vars
<1>4. SpecTypes'
  BY <1>1, <1>2 DEF IInv, SpecTypes
<1>5. StatesAgree'
  BY <1>1, <1>2 DEF IInv, StatesAgree
<1>6. CommittedState'
  BY <1>1, <1>2 DEF IInv, CommittedState, Upto
<1>7. RoundState'
  BY <1>1, <1>2 DEF IInv, RoundState
<1>8. AcceptedPart'
  BY <1>1, <1>2 DEF IInv, AcceptedPart, Upto
<1>9. WithinBudget'
  BY <1>1, <1>2 DEF IInv, WithinBudget
<1>10. MtpRows'
  BY <1>1, <1>2 DEF IInv, MtpRows, RowsOf, DraftRows, TargetRow, ChainedRow, Upto
<1>11. LineIsChosen'
  BY <1>1, <1>2 DEF IInv, LineIsChosen, Chosen, Upto
<1>12. QED
  BY <1>4, <1>5, <1>6, <1>7, <1>8, <1>9, <1>10, <1>11 DEF IInv

\* The caller emits the pending token.
LEMMA EmitNextStep == ASSUME IInv, EmitToken, todo = <<>> PROVE IInv'
<1>1. /\ phase = "emit" /\ out' = Append(out, next) /\ todo' = <<>>
      /\ ~(K = 0 /\ MaxTokens = 0)
      /\ phase' = IF Len(out') >= MaxTokens THEN "done" ELSE IF K > 0 THEN "verify" ELSE "forward"
      /\ UNCHANGED <<mode, turns, base, ids, next, emitted, kv, rec, pos, p, snap, saved,
                     logits, hidden, drafts, mtp, hout, prev>>
      /\ K' = K /\ MaxTokens' = MaxTokens /\ Greedy' = Greedy /\ net' = net
  BY SameMode DEF EmitToken, Current, main, round, head
<1>2. K \in Nat /\ MaxTokens \in Nat
  BY ModeFacts DEF IInv, SpecTypes
<1>3. /\ base \in Seq(Tok) /\ out \in Seq(Tok) /\ kv \in Seq(Tok) /\ next \in Tok /\ turns \in Nat /\ turns > 0
      /\ kv = (base \o out) \o <<>>
  BY <1>1 DEF IInv, SpecTypes, CommittedState, Said
<1>4. /\ out' \in Seq(Tok) /\ Len(out') = Len(out) + 1 /\ Len(out) \in Nat /\ out' # <<>>
      /\ Upto(out', Len(out') - 1) = out
  <2>1. /\ Append(out, next) \in Seq(Tok) /\ Len(Append(out, next)) = Len(out) + 1 /\ Len(out) \in Nat
        /\ Append(out, next) # <<>> /\ SubSeq(Append(out, next), 1, Len(out)) = out
    BY <1>3, Appended
  <2>2. Len(Append(out, next)) - 1 = Len(out)
    BY <2>1
  <2>3. QED
    BY <1>1, <2>1, <2>2 DEF Upto
<1>5. kv = base \o out /\ Append(kv, next) = base \o out'
  <2>1. kv = base \o out
    BY <1>3, ConcatProperties, ConcatEmptySeq
  <2>2. Append(base \o out, next) = base \o Append(out, next)
    <3>1. base \in Seq(Tok) /\ out \in Seq(Tok) /\ next \in Tok
      BY <1>3
    <3>2. QED
      BY <3>1
  <2>3. QED
    BY <1>1, <2>1, <2>2
<1>6. phase' \in IF K = 0 THEN {"done", "forward"} ELSE {"done", "verify"}
  BY <1>1, <1>2
<1>7. SpecTypes'
  BY <1>1, <1>3, <1>4, <1>6, EmptySeq DEF IInv, SpecTypes
<1>8. StatesAgree'
  BY <1>1, <1>6 DEF IInv, StatesAgree
<1>9. CommittedState'
  <2>1. Append(kv', next') = base' \o out' /\ todo' = <<>> /\ kv' = base' \o Upto(out', Len(out') - 1)
    BY <1>1, <1>4, <1>5
  <2>2. QED
    BY <1>4, <1>6, <2>1 DEF CommittedState, Said, Upto
<1>10. RoundState' /\ AcceptedPart'
  BY <1>6 DEF RoundState, AcceptedPart
<1>11. WithinBudget'
  <2>1. phase' # "done" => Len(out') < MaxTokens
    BY <1>1, <1>2, <1>4
  <2>2. Len(kv) <= Len(base) + MaxTokens + (IF K = 0 THEN 0 ELSE K - 1)
    BY <1>1 DEF IInv, WithinBudget
  <2>3. QED
    BY <1>1, <1>6, <2>1, <2>2 DEF WithinBudget
<1>12. MtpRows'
  BY <1>1, <1>2, <1>6 DEF IInv, MtpRows, RowsOf, DraftRows, TargetRow, ChainedRow, Upto
<1>13. LineIsChosen'
  BY <1>1, <1>6 DEF IInv, LineIsChosen
<1>14. QED
  BY <1>7, <1>8, <1>9, <1>10, <1>11, <1>12, <1>13 DEF IInv

LEMMA HeadAndTail ==
  ASSUME NEW S, NEW s \in Seq(S), s # <<>>
  PROVE  /\ Head(s) \in S /\ Tail(s) \in Seq(S) /\ <<Head(s)>> \in Seq(S)
         /\ <<Head(s)>> \o Tail(s) = s
<1>1. Head(s) \in S /\ Tail(s) \in Seq(S) /\ <<Head(s)>> \in Seq(S)
  BY HeadTailProperties
<1>2. <<Head(s)>> \o Tail(s) = s
  OBVIOUS
<1>3. QED
  BY <1>1, <1>2

\* The caller emits the next accepted draft: the line it is in stays.
LEMMA DraftEmitted ==
  ASSUME IInv, EmitToken, todo # <<>>
  PROVE  /\ Said' \o todo' = Said \o todo /\ Line' = Line
         /\ Said' \in Seq(Tok) /\ Said \in Seq(Tok) /\ Len(Said') = Len(Said) + 1
         /\ out' \in Seq(Tok) /\ todo' \in Seq(Tok) /\ out' # <<>>
<1>1. /\ out' = Append(out, Head(todo)) /\ todo' = Tail(todo) /\ base' = base /\ next' = next
  BY DEF EmitToken, Current
<1>2. base \in Seq(Tok) /\ out \in Seq(Tok) /\ todo \in Seq(Tok) /\ next \in Tok /\ <<next>> \in Seq(Tok)
  BY DEF IInv, SpecTypes, EmitToken
<1> DEFINE h == <<Head(todo)>>
<1>3. Head(todo) \in Tok /\ Tail(todo) \in Seq(Tok) /\ h \in Seq(Tok) /\ h \o Tail(todo) = todo
  BY <1>2, HeadAndTail
<1>4. out' = out \o h /\ out' \in Seq(Tok) /\ Len(out') = Len(out) + 1 /\ out' # <<>>
  <2>1. out \in Seq(Tok) /\ Head(todo) \in Tok
    BY <1>2, <1>3
  <2>2. QED
    BY <1>1, <2>1, Appended
<1> HIDE DEF h
<1>5. Said \in Seq(Tok) /\ Said' \in Seq(Tok) /\ Len(Said') = Len(Said) + 1
  <2>1. base \o out \in Seq(Tok) /\ Len(base \o out) = Len(base) + Len(out) /\ Len(base) \in Nat /\ Len(out) \in Nat
    BY <1>2, Concatenated
  <2>2. base \o out' \in Seq(Tok) /\ Len(base \o out') = Len(base) + Len(out')
    BY <1>2, <1>4, Concatenated
  <2>3. QED
    BY <1>1, <1>4, <2>1, <2>2 DEF Said
<1>6. Said' = Said \o h
  <2>1. (base \o out) \o h = base \o (out \o h)
    BY <1>2, <1>3, Regroup
  <2>2. QED
    BY <1>1, <1>4, <2>1 DEF Said
<1>7. Said' \o todo' = Said \o todo
  <2>1. Said \in Seq(Tok) /\ h \in Seq(Tok) /\ Tail(todo) \in Seq(Tok)
    BY <1>3, <1>5
  <2>2. (Said \o h) \o Tail(todo) = Said \o (h \o Tail(todo))
    BY <2>1, Regroup, SMTT(30)
  <2>3. QED
    BY <1>1, <1>3, <1>6, <2>2
<1>8. Line' = Line
  <2>1. todo \in Seq(Tok) /\ Tail(todo) \in Seq(Tok) /\ next \in Tok /\ Said \in Seq(Tok) /\ Said' \in Seq(Tok)
    BY <1>2, <1>3, <1>5
  <2>2. Append(Said \o todo, next) = Said \o Append(todo, next)
    BY <2>1, SMTT(30)
  <2>3. Append(Said' \o Tail(todo), next) = Said' \o Append(Tail(todo), next)
    BY <2>1, SMTT(30)
  <2>4. QED
    BY <1>1, <1>7, <2>2, <2>3 DEF Line
<1>9. QED
  BY <1>1, <1>3, <1>4, <1>5, <1>7, <1>8

LEMMA EmitDraftStep == ASSUME IInv, EmitToken, todo # <<>> PROVE IInv'
<1>1. /\ phase = "emit" /\ phase' = IF Len(out') >= MaxTokens THEN "done" ELSE "emit"
      /\ UNCHANGED <<mode, turns, base, ids, next, emitted, kv, rec, pos, p, snap, saved,
                     logits, hidden, drafts, mtp, hout, prev>>
      /\ K' = K /\ MaxTokens' = MaxTokens /\ Greedy' = Greedy /\ net' = net
  BY SameMode DEF EmitToken, main, round, head
<1>2. K \in Nat /\ MaxTokens \in Nat /\ K # 0
  BY ModeFacts DEF IInv, SpecTypes, CommittedState
<1>3. /\ Said' \o todo' = Said \o todo /\ Line' = Line
      /\ Said \in Seq(Tok) /\ Len(Said') = Len(Said) + 1 /\ Len(Said) \in Nat
      /\ out' \in Seq(Tok) /\ todo' \in Seq(Tok) /\ Len(out') \in Nat
  BY DraftEmitted, LenProperties
<1>4. phase' \in {"done", "emit"}
  BY <1>1
<1>5. SpecTypes'
  BY <1>1, <1>2, <1>3, <1>4 DEF IInv, SpecTypes
<1>6. StatesAgree'
  BY <1>1, <1>4 DEF IInv, StatesAgree
<1>7. CommittedState'
  BY <1>1, <1>2, <1>3, <1>4 DEF IInv, CommittedState
<1>8. RoundState' /\ AcceptedPart'
  BY <1>4 DEF RoundState, AcceptedPart
<1>9. WithinBudget'
  <2>1. phase' = "emit" => Len(out') < MaxTokens
    BY <1>1, <1>2, <1>3
  <2>2. Len(kv) <= Len(base) + MaxTokens + (IF K = 0 THEN 0 ELSE K - 1)
    BY <1>1 DEF IInv, WithinBudget
  <2>3. QED
    BY <1>1, <1>4, <2>1, <2>2 DEF WithinBudget
<1>10. MtpRows'
  BY <1>1, <1>2, <1>4 DEF IInv, MtpRows, RowsOf, DraftRows, TargetRow, ChainedRow, Upto
<1>11. LineIsChosen'
  <2>1. \A q \in Len(Said) + 1 .. Len(Line) : Chosen(Upto(Line, q - 1), Line[q])
    BY <1>1 DEF IInv, LineIsChosen
  <2>2. \A q \in Len(Said') + 1 .. Len(Line') : q \in Len(Said) + 1 .. Len(Line)
    BY <1>3
  <2>3. \A q \in Len(Said') + 1 .. Len(Line') : Chosen(Upto(Line, q - 1), Line[q])
    BY <2>1, <2>2
  <2>4. \A i \in DOMAIN drafts' : drafts'[i] \in mode'.toks
    BY <1>1 DEF IInv, LineIsChosen
  <2>5. QED
    BY <1>1, <1>3, <1>4, <2>3, <2>4 DEF LineIsChosen, Chosen, Upto
<1>12. QED
  BY <1>5, <1>6, <1>7, <1>8, <1>9, <1>10, <1>11 DEF IInv

\* The line when all that is left to emit is x.
LEMMA OneMore ==
  ASSUME NEW s \in Seq(Tok), NEW x \in Tok
  PROVE  /\ s \o Append(<<>>, x) = Append(s, x)
         /\ \A q \in Len(s) + 1 .. Len(Append(s, x)) : Upto(Append(s, x), q - 1) = s /\ Append(s, x)[q] = x
<1>1. Append(<<>>, x) = <<x>>
  OBVIOUS
<1>2. /\ Len(Append(s, x)) = Len(s) + 1 /\ Len(s) \in Nat /\ Append(s, x) = s \o <<x>>
      /\ Append(s, x)[Len(s) + 1] = x /\ SubSeq(Append(s, x), 1, Len(s)) = s
  BY Appended
<1>3. \A q \in Len(s) + 1 .. Len(Append(s, x)) : q = Len(s) + 1 /\ q - 1 = Len(s)
  BY <1>2
<1>4. QED
  BY <1>1, <1>2, <1>3 DEF Upto

\* A token chosen after all that the state has consumed is the line's only one.
LEMMA NextIsChosen ==
  ASSUME NEW s \in Seq(Tok), NEW x \in Sampled(s, s), Greedy \in BOOLEAN
  PROVE  \A q \in Len(s) + 1 .. Len(s \o Append(<<>>, x)) :
           Chosen(Upto(s \o Append(<<>>, x), q - 1), (s \o Append(<<>>, x))[q])
<1>1. x \in Tok /\ Chosen(s, x)
  BY DEF Sampled, Chosen
<1>2. /\ s \o Append(<<>>, x) = Append(s, x)
      /\ \A q \in Len(s) + 1 .. Len(Append(s, x)) : Upto(Append(s, x), q - 1) = s /\ Append(s, x)[q] = x
  BY <1>1, OneMore
<1>3. QED
  BY <1>1, <1>2

LEMMA StartPlainStep == ASSUME IInv, StartPlain PROVE IInv'
<1>1. /\ phase = "done" /\ phase' = "prefill" /\ K = 0 /\ turns' = turns + 1
      /\ ids' \in Prompts /\ base' = kv \o ids' /\ out' = <<>>
      /\ UNCHANGED <<mode, todo, next, emitted, kv, rec, pos, p, snap, saved,
                     logits, hidden, drafts, mtp, hout, prev>>
      /\ K' = K /\ MaxTokens' = MaxTokens /\ Greedy' = Greedy /\ net' = net
  BY SameMode DEF StartPlain, main, round, head
<1>2. K \in Nat /\ MaxTokens \in Nat /\ turns \in Nat /\ todo = <<>>
  BY <1>1, ModeFacts DEF IInv, SpecTypes, CommittedState
<1>3. ids' \in Seq(Tok) /\ ids' # <<>> /\ Len(ids') # 0 /\ kv \in Seq(Tok)
  BY <1>1, SpecAssumption, EmptySeq DEF IInv, SpecTypes
<1>4. base' \in Seq(Tok) /\ Len(base') = Len(kv) + Len(ids') /\ Len(kv) \in Nat /\ Len(ids') \in Nat
  BY <1>1, <1>3, Concatenated
<1>5. base' # <<>> /\ Len(kv) <= Len(base')
  <2>1. Len(base') # 0 /\ Len(kv) <= Len(base')
    BY <1>3, <1>4
  <2>2. QED
    BY <2>1, EmptySeq
<1>6. SpecTypes'
  BY <1>1, <1>2, <1>3, <1>4, <1>5, EmptySeq DEF IInv, SpecTypes
<1>7. StatesAgree'
  BY <1>1 DEF IInv, StatesAgree
<1>8. CommittedState' /\ RoundState' /\ AcceptedPart'
  BY <1>1, <1>2, <1>3 DEF CommittedState, RoundState, AcceptedPart
<1>9. WithinBudget'
  BY <1>1, <1>5 DEF WithinBudget
<1>10. MtpRows' /\ LineIsChosen'
  BY <1>1 DEF IInv, MtpRows, LineIsChosen
<1>11. QED
  BY <1>6, <1>7, <1>8, <1>9, <1>10 DEF IInv

LEMMA PrefillStep == ASSUME IInv, Prefill PROVE IInv'
<1>1. PICK n \in {1, Len(ids)} :
        /\ kv' = kv \o Upto(ids, n) /\ rec' = rec \o Upto(ids, n) /\ pos' = pos + n
        /\ ids' = SubSeq(ids, n + 1, Len(ids))
  BY DEF Prefill
<1>2. /\ phase = "prefill"
      /\ \/ ids' = <<>> /\ phase' = "emit" /\ next' \in Sampled(kv', rec')
         \/ ids' # <<>> /\ phase' = "prefill" /\ next' = next
      /\ UNCHANGED <<mode, turns, base, out, todo, emitted, p, snap, saved,
                     logits, hidden, drafts, mtp, hout, prev>>
      /\ K' = K /\ MaxTokens' = MaxTokens /\ Greedy' = Greedy /\ net' = net
  BY SameMode DEF Prefill, round, head
<1>3. K \in Nat /\ MaxTokens \in Nat /\ Greedy \in BOOLEAN /\ K = 0
  BY <1>2, ModeFacts DEF IInv, SpecTypes
<1>4. /\ ids \in Seq(Tok) /\ ids # <<>> /\ kv \in Seq(Tok) /\ rec = kv /\ pos = Len(kv) /\ base \in Seq(Tok)
      /\ todo = <<>> /\ out = <<>> /\ kv \o ids = base /\ turns \in Nat /\ turns # 0
  BY <1>2 DEF IInv, SpecTypes, StatesAgree, CommittedState
<1>5. n \in 0 .. Len(ids)
  <2>1. Len(ids) \in Nat /\ Len(ids) # 0
    BY <1>4, EmptySeq, LenProperties
  <2>2. QED
    BY <2>1
<1> DEFINE u == Upto(ids, n)
<1>6. u \in Seq(Tok) /\ Len(u) = n /\ ids' \in Seq(Tok) /\ u \o ids' = ids
  BY <1>1, <1>4, <1>5, PrefixFacts, PrefixAndRest DEF Upto
<1>7. kv' = kv \o u /\ rec' = kv \o u
  BY <1>1, <1>4
<1> HIDE DEF u
<1>8. kv' \in Seq(Tok) /\ Len(kv') = Len(kv) + n /\ rec' = kv' /\ Len(kv) \in Nat
  BY <1>4, <1>6, <1>7, Concatenated
<1>9. kv' \o ids' = base
  <2>1. kv \in Seq(Tok) /\ u \in Seq(Tok) /\ ids' \in Seq(Tok)
    BY <1>4, <1>6
  <2>2. (kv \o u) \o ids' = kv \o (u \o ids')
    BY <2>1, Regroup
  <2>3. QED
    BY <1>4, <1>6, <1>7, <2>2
<1>10. Len(kv') <= Len(base) /\ Len(base) \in Nat
  <2>1. Len(kv' \o ids') = Len(kv') + Len(ids') /\ Len(ids') \in Nat /\ Len(kv') \in Nat
    BY <1>6, <1>8, Concatenated
  <2>2. QED
    BY <1>9, <2>1
<1>11. pos' = Len(kv') /\ pos' \in Nat
  BY <1>1, <1>4, <1>5, <1>8
<1>12. Said' = base
  BY <1>2, <1>4, ConcatEmptySeq DEF Said
<1>13. phase' = "emit" => next' \in Tok /\ kv' = Said' /\ next' \in Sampled(Said', Said')
  <2>1. phase' = "emit" => kv' \o <<>> = base /\ next' \in Sampled(kv', kv')
    BY <1>2, <1>8, <1>9
  <2>2. kv' \o <<>> = kv'
    BY <1>8, ConcatEmptySeq
  <2>3. QED
    BY <1>12, <2>1, <2>2 DEF Sampled
<1>14. SpecTypes'
  BY <1>2, <1>3, <1>4, <1>6, <1>8, <1>11, <1>13 DEF IInv, SpecTypes
<1>15. StatesAgree'
  BY <1>8, <1>11 DEF StatesAgree
<1>16. CommittedState'
  <2>1. Said' \o <<>> = Said'
    BY <1>4, <1>12, ConcatEmptySeq
  <2>2. QED
    BY <1>2, <1>4, <1>9, <1>13, <2>1 DEF CommittedState
<1>17. RoundState' /\ AcceptedPart'
  BY <1>2 DEF RoundState, AcceptedPart
<1>18. WithinBudget'
  <2>1. Len(kv') <= Len(base) + MaxTokens + 0
    BY <1>3, <1>8, <1>10
  <2>2. QED
    BY <1>2, <1>3, <1>4, <1>10, <2>1 DEF WithinBudget
<1>19. MtpRows'
  BY <1>2, <1>3 DEF MtpRows
<1>20. LineIsChosen'
  <2>1. ASSUME phase' = "emit"
        PROVE  \A q \in Len(Said') + 1 .. Len(Line') : Chosen(Upto(Line', q - 1), Line'[q])
    <3>1. Said' \in Seq(Tok) /\ next' \in Sampled(Said', Said') /\ Line' = Said' \o Append(<<>>, next')
      BY <1>2, <1>4, <1>12, <1>13, <2>1 DEF Line
    <3>2. QED
      BY <1>3, <3>1, NextIsChosen
  <2>2. QED
    BY <1>2, <2>1 DEF IInv, LineIsChosen, Chosen
<1>21. QED
  BY <1>14, <1>15, <1>16, <1>17, <1>18, <1>19, <1>20 DEF IInv

LEMMA ForwardStep == ASSUME IInv, ForwardToken PROVE IInv'
<1>1. /\ phase = "forward" /\ phase' = "emit"
      /\ kv' = Append(kv, next) /\ rec' = Append(rec, next) /\ pos' = pos + 1 /\ next' \in Sampled(kv', rec')
      /\ UNCHANGED <<mode, turns, base, out, ids, todo, emitted, p, snap, saved,
                     logits, hidden, drafts, mtp, hout, prev>>
      /\ K' = K /\ MaxTokens' = MaxTokens /\ Greedy' = Greedy /\ net' = net /\ Said' = Said
  BY SameMode DEF ForwardToken, round, head, Said
<1>2. K \in Nat /\ MaxTokens \in Nat /\ Greedy \in BOOLEAN /\ K = 0
  BY <1>1, ModeFacts DEF IInv, SpecTypes
<1>3. /\ kv \in Seq(Tok) /\ rec = kv /\ pos = Len(kv) /\ todo = <<>> /\ Append(kv, next) = Said
      /\ turns \in Nat /\ turns # 0 /\ next \in Tok /\ base \in Seq(Tok) /\ out \in Seq(Tok)
      /\ Len(out) < MaxTokens
  BY <1>1 DEF IInv, SpecTypes, StatesAgree, CommittedState, WithinBudget
<1>4. kv' \in Seq(Tok) /\ Len(kv') = Len(kv) + 1 /\ Len(kv) \in Nat /\ rec' = kv' /\ kv' = Said
  <2>1. Append(kv, next) \in Seq(Tok) /\ Len(Append(kv, next)) = Len(kv) + 1 /\ Len(kv) \in Nat
    BY <1>3, Appended
  <2>2. QED
    BY <1>1, <1>3, <2>1
<1>5. pos' = Len(kv') /\ pos' \in Nat
  BY <1>1, <1>3, <1>4
<1>6. Len(kv') = Len(base) + Len(out) /\ Len(base) \in Nat /\ Len(out) \in Nat
  BY <1>3, <1>4, Concatenated DEF Said
<1>7. next' \in Tok /\ next' \in Sampled(Said, Said)
  BY <1>1, <1>4 DEF Sampled
<1>8. SpecTypes'
  BY <1>1, <1>2, <1>3, <1>4, <1>5, <1>7 DEF IInv, SpecTypes
<1>9. StatesAgree'
  BY <1>4, <1>5 DEF StatesAgree
<1>10. CommittedState'
  <2>1. Said \o <<>> = Said
    BY <1>4, ConcatEmptySeq
  <2>2. QED
    BY <1>1, <1>3, <1>4, <2>1 DEF CommittedState
<1>11. RoundState' /\ AcceptedPart'
  BY <1>1 DEF RoundState, AcceptedPart
<1>12. WithinBudget'
  <2>1. Len(kv') <= Len(base) + MaxTokens + 0
    BY <1>2, <1>3, <1>6
  <2>2. QED
    BY <1>1, <1>2, <1>3, <2>1 DEF WithinBudget
<1>13. MtpRows'
  BY <1>1, <1>2 DEF MtpRows
<1>14. LineIsChosen'
  <2>1. Said \in Seq(Tok) /\ Line' = Said \o Append(<<>>, next')
    BY <1>1, <1>3, <1>4 DEF Line
  <2>2. \A q \in Len(Said) + 1 .. Len(Line') : Chosen(Upto(Line', q - 1), Line'[q])
    BY <1>2, <1>7, <2>1, NextIsChosen
  <2>3. QED
    BY <1>1, <2>2 DEF IInv, LineIsChosen, Chosen
<1>15. QED
  BY <1>8, <1>9, <1>10, <1>11, <1>12, <1>13, <1>14 DEF IInv

LEMMA VerifyStep == ASSUME IInv, Verify PROVE IInv'
<1> DEFINE batch == <<next>> \o drafts
<1>1. /\ phase = "verify" /\ phase' = "accept" /\ p' = pos /\ snap' = rec /\ saved' = batch
      /\ kv' = kv \o batch /\ rec' = rec \o batch /\ pos' = pos + K + 1
      /\ logits' = [i \in 1 .. K + 1 |-> Argmax(net, Upto(kv', Len(kv) + i), Upto(rec', Len(rec) + i))]
      /\ hidden' = [i \in 1 .. K + 1 |-> Upto(kv', pos + i)]
      /\ UNCHANGED <<mode, turns, base, out, ids, todo, next, emitted, drafts, mtp, hout, prev>>
      /\ K' = K /\ MaxTokens' = MaxTokens /\ Greedy' = Greedy /\ net' = net /\ Said' = Said
  BY SameMode DEF Verify, head, Said
<1>2. K \in Nat /\ MaxTokens \in Nat /\ K > 0
  BY <1>1, ModeFacts DEF IInv, SpecTypes
<1>3. /\ kv \in Seq(Tok) /\ rec = kv /\ pos = Len(kv) /\ todo = <<>> /\ Append(kv, next) = Said
      /\ turns \in Nat /\ turns > 0 /\ next \in Tok /\ drafts \in Seq(Tok) /\ out # <<>>
      /\ Len(out) < MaxTokens
  BY <1>1 DEF IInv, SpecTypes, StatesAgree, CommittedState, WithinBudget
<1>4. Len(drafts) = K /\ RowsOf(Append(kv, next)) /\ Len(mtp) = pos + K - 1
  BY <1>1, <1>2, <1>3 DEF IInv, MtpRows, DraftRows
<1>5. /\ Said \in Seq(Tok) /\ Len(Said) = Len(kv) + 1 /\ Len(kv) \in Nat
      /\ Said = kv \o <<next>> /\ <<next>> \in Seq(Tok) /\ Len(<<next>>) = 1
  <2>1. /\ Append(kv, next) \in Seq(Tok) /\ Len(Append(kv, next)) = Len(kv) + 1 /\ Len(kv) \in Nat
        /\ Append(kv, next) = kv \o <<next>> /\ <<next>> \in Seq(Tok) /\ Len(<<next>>) = 1
    BY <1>3, Appended, ZenonT(40)
  <2>2. QED
    BY <1>3, <2>1
<1>6. batch \in Seq(Tok) /\ Len(batch) = K + 1
  <2>1. batch \in Seq(Tok) /\ Len(batch) = Len(<<next>>) + Len(drafts)
    BY <1>3, <1>5, Concatenated
  <2>2. QED
    BY <1>2, <1>4, <1>5, <2>1
<1>7. kv \o batch = Said \o drafts
  <2>1. kv \in Seq(Tok) /\ <<next>> \in Seq(Tok) /\ drafts \in Seq(Tok)
    BY <1>3, <1>5
  <2>2. (kv \o <<next>>) \o drafts = kv \o (<<next>> \o drafts)
    BY <2>1, Regroup
  <2>3. QED
    BY <1>5, <2>2
<1> HIDE DEF batch
<1>8. kv' \in Seq(Tok) /\ Len(kv') = Len(kv) + (K + 1)
  <2>1. kv \o batch \in Seq(Tok) /\ Len(kv \o batch) = Len(kv) + Len(batch)
    BY <1>3, <1>6, Concatenated
  <2>2. QED
    BY <1>1, <1>6, <2>1
<1>9. rec' = kv' /\ kv' = Said \o drafts /\ pos' = Len(kv') /\ pos' \in Nat
  BY <1>1, <1>2, <1>3, <1>5, <1>7, <1>8
<1>10. SpecTypes'
  BY <1>1, <1>2, <1>3, <1>5, <1>6, <1>8, <1>9 DEF IInv, SpecTypes
<1>11. StatesAgree' /\ CommittedState' /\ AcceptedPart'
  BY <1>1, <1>2 DEF StatesAgree, CommittedState, AcceptedPart
<1>12. RoundState'
  <2>1. p' = Len(Said) - 1 /\ p' = Len(snap') /\ Len(saved') = K + 1 /\ rec' = snap' \o saved'
    BY <1>1, <1>3, <1>5, <1>6
  <2>2. QED
    BY <1>1, <1>3, <1>4, <1>9, <2>1 DEF RoundState
<1>13. WithinBudget'
  BY <1>1, <1>3 DEF WithinBudget
<1>14. MtpRows'
  <2>1. RowsOf(Said)'
    BY <1>1, <1>3, <1>4 DEF RowsOf, TargetRow, Upto
  <2>2. Len(mtp') = p' + K - 1
    BY <1>1, <1>4
  <2>3. \A i \in 1 .. K + 1 : i \in DOMAIN hidden' /\ hidden'[i] = Upto(Said \o drafts, p' + i)
    BY <1>1, <1>9
  <2>4. QED
    BY <1>1, <2>1, <2>2, <2>3 DEF MtpRows, Upto
<1>15. LineIsChosen'
  <2>1. \A i \in 1 .. K + 1 :
          logits'[i] = Argmax(net, Upto(Said \o drafts, p' + i), Upto(Said \o drafts, p' + i))
    BY <1>1, <1>3, <1>9
  <2>2. QED
    BY <1>1, <2>1 DEF IInv, LineIsChosen, Upto
<1>16. QED
  BY <1>10, <1>11, <1>12, <1>13, <1>14, <1>15 DEF IInv

\* The tokens of a verified round are choices, whichever drafts are accepted.
LEMMA AcceptedAreChosen ==
  ASSUME IInv, phase = "accept", NEW m \in 0 .. K, NEW x \in IF Greedy THEN Tok ELSE mode.toks,
         Accepts(m, x), x \in Tok
  PROVE  LET line == Said \o Append(Upto(drafts, m), x)
         IN  \A q \in Len(Said) + 1 .. Len(line) : Chosen(Upto(line, q - 1), line[q])
<1> DEFINE line == Said \o Append(Upto(drafts, m), x)
<1>1. K \in Nat /\ Greedy \in BOOLEAN /\ base \in Seq(Tok) /\ out \in Seq(Tok) /\ drafts \in Seq(Tok)
  BY ModeFacts DEF IInv, SpecTypes
<1>2. /\ Len(drafts) = K /\ p = Len(Said) - 1
      /\ \A i \in DOMAIN drafts : drafts[i] \in mode.toks
      /\ \A i \in 1 .. K + 1 : logits[i] = Argmax(net, Upto(Said \o drafts, p + i), Upto(Said \o drafts, p + i))
  BY DEF IInv, RoundState, LineIsChosen
<1>3. Said \in Seq(Tok) /\ Len(Said) \in Nat
  BY <1>1, Concatenated, LenProperties DEF Said
<1> DEFINE u == Upto(drafts, m)
<1>4. u \in Seq(Tok) /\ Len(u) = m /\ \A i \in 1 .. m : u[i] = drafts[i]
  BY <1>1, <1>2, PrefixFacts DEF Upto
<1> HIDE DEF u
<1>5. /\ Append(u, x) \in Seq(Tok) /\ Len(Append(u, x)) = m + 1
      /\ Append(u, x)[m + 1] = x /\ \A i \in 1 .. m : Append(u, x)[i] = u[i]
  BY <1>4, Appended
<1>6. /\ Len(line) = Len(Said) + (m + 1)
      /\ \A i \in 1 .. m + 1 : line[Len(Said) + i] = Append(u, x)[i]
  <2>1. line = Said \o Append(u, x)
    BY DEF u
  <2>2. /\ Len(Said \o Append(u, x)) = Len(Said) + Len(Append(u, x))
        /\ \A i \in 1 .. Len(Append(u, x)) : (Said \o Append(u, x))[Len(Said) + i] = Append(u, x)[i]
    <3>1. Said \in Seq(Tok) /\ Append(u, x) \in Seq(Tok)
      BY <1>3, <1>5
    <3>2. QED
      BY <3>1, Concatenated
  <2> HIDE DEF line
  <2>3. QED
    BY <1>5, <2>1, <2>2
<1> HIDE DEF line
<1>7. ASSUME NEW i \in 1 .. m + 1
      PROVE  Chosen(Upto(line, Len(Said) + (i - 1)), line[Len(Said) + i])
  <2>1. i - 1 \in 0 .. m /\ m \in 0 .. Len(drafts) /\ i \in 1 .. K + 1 /\ p + i = Len(Said) + (i - 1)
    BY <1>1, <1>2, <1>3
  <2>2. Upto(line, Len(Said) + (i - 1)) = Upto(Said \o drafts, p + i)
    <3>1. /\ Upto(line, Len(Said) + (i - 1)) = Said \o Upto(drafts, i - 1)
          /\ Upto(Said \o drafts, Len(Said) + (i - 1)) = Said \o Upto(drafts, i - 1)
      BY <1>1, <1>3, <2>1, AcceptedPrefix DEF line
    <3>2. QED
      BY <2>1, <3>1
  <2>3. Greedy => line[Len(Said) + i] = logits[i]
    <3>1. CASE i = m + 1
      BY <1>5, <1>6, <3>1 DEF Accepts
    <3>2. CASE i \in 1 .. m
      BY <1>4, <1>5, <1>6, <3>2 DEF Accepts
    <3>3. QED
      BY <3>1, <3>2
  <2>4. ~Greedy => line[Len(Said) + i] \in mode.toks
    <3>1. CASE i = m + 1
      BY <1>5, <1>6, <3>1
    <3>2. CASE i \in 1 .. m
      <4>1. i \in DOMAIN drafts
        BY <1>1, <1>2, <3>2
      <4>2. QED
        BY <1>2, <1>4, <1>5, <1>6, <3>2, <4>1
    <3>3. QED
      BY <3>1, <3>2
  <2>5. QED
    BY <1>2, <2>1, <2>2, <2>3, <2>4 DEF Chosen
<1>8. ASSUME NEW q \in Len(Said) + 1 .. Len(line) PROVE Chosen(Upto(line, q - 1), line[q])
  <2>1. q - Len(Said) \in 1 .. m + 1 /\ q = Len(Said) + (q - Len(Said))
        /\ q - 1 = Len(Said) + ((q - Len(Said)) - 1)
    BY <1>3, <1>6
  <2>2. QED
    BY <1>7, <2>1
<1>9. QED
  BY <1>8 DEF line

LEMMA AcceptStep == ASSUME IInv, Accept PROVE IInv'
<1>1. PICK m \in 0 .. K, x \in IF Greedy THEN Tok ELSE mode.toks :
        /\ Accepts(m, x)
        /\ emitted' = Append(Upto(drafts, m), x)
        /\ todo' = Upto(drafts, m) /\ next' = x
  BY DEF Accept
<1>2. /\ phase = "accept" /\ phase' = "rollback"
      /\ UNCHANGED <<mode, turns, base, out, ids, kv, rec, pos, p, snap, saved,
                     logits, hidden, drafts, mtp, hout, prev>>
      /\ K' = K /\ MaxTokens' = MaxTokens /\ Greedy' = Greedy /\ net' = net /\ Said' = Said
  BY SameMode DEF Accept, main, round, head, Said
<1>3. /\ K \in Nat /\ MaxTokens \in Nat /\ mode.toks \subseteq Tok /\ K # 0
      /\ drafts \in Seq(Tok) /\ turns \in Nat /\ turns # 0 /\ Len(drafts) = K
  BY <1>2, ModeFacts DEF IInv, SpecTypes, RoundState
<1>4. x \in Tok
  BY <1>3
<1>5. todo' \in Seq(Tok) /\ Len(todo') = m /\ emitted' = Append(todo', next')
  BY <1>1, <1>3, PrefixFacts DEF Upto
<1>6. emitted' \in Seq(Tok)
  BY <1>1, <1>4, <1>5, Appended
<1>7. SpecTypes'
  BY <1>1, <1>2, <1>3, <1>4, <1>5, <1>6 DEF IInv, SpecTypes
<1>8. StatesAgree' /\ CommittedState'
  BY <1>2, <1>3 DEF StatesAgree, CommittedState
<1>9. RoundState'
  BY <1>2 DEF IInv, RoundState
<1>10. AcceptedPart'
  BY <1>1, <1>2, <1>5 DEF AcceptedPart, Upto
<1>11. WithinBudget'
  BY <1>2 DEF IInv, WithinBudget
<1>12. MtpRows'
  BY <1>2 DEF IInv, MtpRows, RowsOf, TargetRow, Upto
<1>13. LineIsChosen'
  <2>1. Line' = Said \o Append(Upto(drafts, m), x)
    BY <1>1, <1>2 DEF Line
  <2>2. \A q \in Len(Said) + 1 .. Len(Line') : Chosen(Upto(Line', q - 1), Line'[q])
    BY <1>1, <1>2, <1>4, <2>1, AcceptedAreChosen
  <2>3. QED
    BY <1>2, <2>2 DEF IInv, LineIsChosen, Chosen, Upto
<1>14. QED
  BY <1>7, <1>8, <1>9, <1>10, <1>11, <1>12, <1>13 DEF IInv

\* Rewinding the KV caches and replaying the accepted rows on the snapshot end at the
\* same place: what the caller has, and the accepted drafts.
LEMMA RolledBack ==
  ASSUME IInv, Rollback
  PROVE  kv' = Said \o todo /\ rec' = kv' /\ pos' = Len(kv') /\ kv' \in Seq(Tok)
         /\ Len(kv') = Len(Said) + Len(todo)
<1>1. /\ phase = "rollback"
      /\ IF Len(emitted) < K + 1
         THEN rec' = Replayed(Len(emitted)) /\ kv' = Upto(kv, p + Len(emitted)) /\ pos' = p + Len(emitted)
         ELSE kv' = kv /\ rec' = rec /\ pos' = pos
  BY DEF Rollback, main
<1>2. /\ kv = Said \o drafts /\ rec = kv /\ pos = Len(kv) /\ p = Len(Said) - 1
      /\ p = Len(snap) /\ Len(saved) = K + 1 /\ rec = snap \o saved /\ Len(drafts) = K
      /\ Len(todo) <= K /\ todo = Upto(drafts, Len(todo)) /\ emitted = Append(todo, next)
  BY <1>1 DEF IInv, RoundState, AcceptedPart
<1>3. /\ K \in Nat /\ drafts \in Seq(Tok) /\ todo \in Seq(Tok) /\ next \in Tok
      /\ snap \in Seq(Tok) /\ saved \in Seq(Tok) /\ base \in Seq(Tok) /\ out \in Seq(Tok)
  <2>1. turns > 0 /\ phase # "prefill"
    BY <1>1 DEF IInv, SpecTypes
  <2>2. QED
    BY <2>1, ModeFacts DEF IInv, SpecTypes
<1>4. Said \in Seq(Tok) /\ Len(Said) \in Nat /\ Len(todo) \in Nat
  BY <1>3, Concatenated, LenProperties DEF Said
<1>5. Len(emitted) = Len(todo) + 1
  BY <1>2, <1>3, Appended
<1>6. Said \o todo \in Seq(Tok) /\ Len(Said \o todo) = Len(Said) + Len(todo)
  BY <1>3, <1>4, Concatenated
<1>7. CASE Len(emitted) < K + 1
  <2>1. Len(todo) \in 0 .. Len(drafts) /\ Len(emitted) \in 0 .. Len(saved) /\ p + Len(emitted) = Len(Said) + Len(todo)
    BY <1>2, <1>3, <1>4, <1>5, <1>7
  <2>2. Upto(kv, p + Len(emitted)) = Said \o todo
    <3>1. SubSeq(Said \o drafts, 1, Len(Said) + Len(todo)) = Said \o SubSeq(drafts, 1, Len(todo))
      BY <1>3, <1>4, <2>1, PrefixIntoConcat
    <3>2. QED
      BY <1>2, <2>1, <3>1 DEF Upto
  <2>3. Replayed(Len(emitted)) = Upto(kv, p + Len(emitted))
    <3>1. SubSeq(snap \o saved, 1, Len(snap) + Len(emitted)) = snap \o SubSeq(saved, 1, Len(emitted))
      BY <1>3, <2>1, PrefixIntoConcat
    <3>2. QED
      BY <1>2, <3>1 DEF Replayed, Upto
  <2>4. QED
    BY <1>1, <1>6, <1>7, <2>1, <2>2, <2>3
<1>8. CASE ~(Len(emitted) < K + 1)
  <2>1. Len(todo) = Len(drafts)
    BY <1>2, <1>3, <1>4, <1>5, <1>8
  <2>2. Upto(drafts, Len(drafts)) = drafts
    BY <1>3, SubSeqFull DEF Upto
  <2>3. todo = drafts
    BY <1>2, <2>1, <2>2
  <2>4. QED
    BY <1>1, <1>2, <1>6, <1>8, <2>3
<1>9. QED
  BY <1>7, <1>8

LEMMA RollbackStep == ASSUME IInv, Rollback PROVE IInv'
<1>1. /\ phase = "rollback" /\ phase' = "refeed"
      /\ UNCHANGED <<mode, turns, base, out, ids, todo, next, emitted, p, snap, saved,
                     logits, hidden, drafts, mtp, hout, prev>>
      /\ K' = K /\ MaxTokens' = MaxTokens /\ Greedy' = Greedy /\ net' = net /\ Said' = Said /\ Line' = Line
  BY SameMode DEF Rollback, round, head, Said, Line
<1>2. /\ kv' = Said \o todo /\ rec' = kv' /\ pos' = Len(kv') /\ kv' \in Seq(Tok)
      /\ Len(kv') = Len(Said) + Len(todo)
  BY RolledBack
<1>3. /\ K \in Nat /\ MaxTokens \in Nat /\ K # 0 /\ Len(todo) <= K /\ Len(out) < MaxTokens
      /\ base \in Seq(Tok) /\ out \in Seq(Tok) /\ todo \in Seq(Tok) /\ turns \in Nat /\ turns # 0
  BY <1>1, ModeFacts DEF IInv, SpecTypes, AcceptedPart, WithinBudget
<1>4. /\ Len(Said) = Len(base) + Len(out) /\ Len(base) \in Nat /\ Len(out) \in Nat /\ Len(todo) \in Nat
      /\ pos' \in Nat
  BY <1>2, <1>3, Concatenated, LenProperties DEF Said
<1>5. SpecTypes'
  BY <1>1, <1>2, <1>3, <1>4 DEF IInv, SpecTypes
<1>6. StatesAgree' /\ CommittedState'
  BY <1>1, <1>2, <1>3 DEF StatesAgree, CommittedState
<1>7. RoundState' /\ AcceptedPart'
  BY <1>1 DEF IInv, RoundState, AcceptedPart, Upto
<1>8. WithinBudget'
  <2>1. Len(kv') <= Len(base) + MaxTokens + (K - 1)
    BY <1>2, <1>3, <1>4
  <2>2. QED
    BY <1>1, <1>3, <2>1 DEF WithinBudget
<1>9. MtpRows'
  BY <1>1 DEF IInv, MtpRows, RowsOf, TargetRow, Upto
<1>10. LineIsChosen'
  BY <1>1 DEF IInv, LineIsChosen, Chosen, Upto
<1>11. QED
  BY <1>5, <1>6, <1>7, <1>8, <1>9, <1>10 DEF IInv

\* What FeedMtp leaves: the rows up to from, the new ones, one draft, the hiddens in hout.
LEMMA Fed ==
  ASSUME mtp \in Seq(Row), NEW from \in 0 .. Len(mtp), NEW rows \in Seq(Row), rows # <<>>,
         mode.toks \subseteq Tok, FeedMtp(from, rows)
  PROVE  /\ mtp' \in Seq(Row) /\ Len(mtp') = from + Len(rows)
         /\ \A j \in 1 .. from : mtp'[j] = mtp[j]
         /\ \A i \in 1 .. Len(rows) : mtp'[from + i] = rows[i]
         /\ drafts' \in Seq(Tok) /\ Len(drafts') = 1
         /\ \A i \in DOMAIN drafts' : drafts'[i] \in mode.toks
         /\ hout' \in [DOMAIN hout' -> Nat] /\ 1 \in DOMAIN hout' /\ prev' \in DOMAIN hout'
         /\ hout'[prev'] = Len(mtp')
<1> DEFINE u == Upto(mtp, from)
<1>1. u \in Seq(Row) /\ Len(u) = from /\ \A j \in 1 .. from : u[j] = mtp[j]
  BY PrefixFacts DEF Upto
<1>2. mtp' = u \o rows
  BY DEF FeedMtp
<1> HIDE DEF u
<1>3. /\ mtp' \in Seq(Row) /\ Len(mtp') = from + Len(rows) /\ Len(rows) \in Nat
      /\ \A j \in 1 .. from : mtp'[j] = u[j]
      /\ \A i \in 1 .. Len(rows) : mtp'[from + i] = rows[i]
  <2>1. u \in Seq(Row) /\ rows \in Seq(Row)
    BY <1>1
  <2>2. /\ u \o rows \in Seq(Row) /\ Len(u \o rows) = Len(u) + Len(rows) /\ Len(rows) \in Nat
        /\ \A j \in 1 .. Len(u) : (u \o rows)[j] = u[j]
        /\ \A i \in 1 .. Len(rows) : (u \o rows)[Len(u) + i] = rows[i]
    BY <2>1, Concatenated
  <2>3. QED
    BY <1>1, <1>2, <2>2
<1>4. PICK d \in mode.toks : drafts' = <<d>>
  BY DEF FeedMtp
<1>5. drafts' \in Seq(Tok) /\ Len(drafts') = 1 /\ \A i \in DOMAIN drafts' : drafts'[i] \in mode.toks
  BY <1>4
<1>6. Len(rows) \in Nat /\ Len(rows) # 0
  BY EmptySeq, LenProperties
<1>7. hout' = [i \in 1 .. Len(rows) |-> from + i] /\ prev' = Len(rows)
  BY DEF FeedMtp
<1>8. DOMAIN hout' = 1 .. Len(rows) /\ 1 \in 1 .. Len(rows) /\ prev' \in 1 .. Len(rows)
  BY <1>6, <1>7
<1>9. hout' \in [DOMAIN hout' -> Nat] /\ hout'[prev'] = from + Len(rows)
  BY <1>6, <1>7, <1>8
<1>10. QED
  BY <1>1, <1>3, <1>5, <1>8, <1>9

\* Between the rounds the MTP's cache has a row for every token the state consumed.
LEMMA RowsThere ==
  ASSUME IInv, phase = "done", K > 0
  PROVE  /\ pos \in 0 .. Len(mtp)
         /\ \A j \in 1 .. pos : mtp[j] = TargetRow(mtp[j].tok, Upto(kv, j))
<1>1. /\ kv \in Seq(Tok) /\ mtp \in Seq(Row) /\ pos = Len(kv) /\ Len(kv) \in Nat /\ Len(mtp) \in Nat /\ turns \in Nat
  BY LenProperties DEF IInv, SpecTypes, StatesAgree
<1>2. CASE turns = 0
  BY <1>1, <1>2, EmptySeq DEF IInv, SpecTypes
<1>3. CASE turns > 0
  <2>1. next \in Tok /\ RowsOf(Append(kv, next))
    BY <1>3 DEF IInv, SpecTypes, MtpRows
  <2>2. Len(Append(kv, next)) = Len(kv) + 1 /\ Append(kv, next) = kv \o <<next>> /\ <<next>> \in Seq(Tok)
    BY <1>1, <2>1, Appended
  <2>3. Len(mtp) >= Len(kv) /\ \A j \in 1 .. Len(kv) : mtp[j] = TargetRow(mtp[j].tok, Upto(Append(kv, next), j))
    BY <1>1, <2>1, <2>2 DEF RowsOf
  <2>4. ASSUME NEW j \in 1 .. Len(kv) PROVE Upto(Append(kv, next), j) = Upto(kv, j)
    <3>1. j \in 0 .. Len(kv)
      OBVIOUS
    <3>2. SubSeq(kv \o <<next>>, 1, j) = SubSeq(kv, 1, j)
      BY <1>1, <2>2, <3>1, PrefixOfConcat
    <3>3. QED
      BY <2>2, <3>2 DEF Upto
  <2>5. QED
    BY <1>1, <2>3, <2>4
<1>4. QED
  BY <1>1, <1>2, <1>3

LEMMA SpecPrefillStep == ASSUME IInv, SpecPrefill PROVE IInv'
<1> DEFINE rows(fed) == [j \in 1 .. Len(fed) |->
                           TargetRow(IF j < Len(fed) THEN fed[j + 1] ELSE next', Upto(kv', pos + j))]
<1>1. PICK fed \in Prompts :
        /\ kv' = kv \o fed /\ rec' = rec \o fed /\ pos' = pos + Len(fed)
        /\ next' \in Sampled(kv', rec') /\ FeedMtp(pos, rows(fed))
  BY DEF SpecPrefill
<1>2. /\ phase = "done" /\ phase' = "chain" /\ K > 0 /\ turns' = turns + 1
      /\ base' = kv' /\ out' = <<>> /\ todo' = <<>>
      /\ UNCHANGED <<mode, ids, emitted, p, snap, saved, logits, hidden>>
      /\ K' = K /\ MaxTokens' = MaxTokens /\ Greedy' = Greedy /\ net' = net
  BY SameMode DEF SpecPrefill, round
<1>3. /\ K \in Nat /\ MaxTokens \in Nat /\ Greedy \in BOOLEAN /\ mode.toks \subseteq Tok
      /\ kv \in Seq(Tok) /\ mtp \in Seq(Row) /\ rec = kv /\ pos = Len(kv) /\ pos \in Nat /\ turns \in Nat
      /\ fed \in Seq(Tok) /\ fed # <<>> /\ Len(fed) \in Nat /\ Len(fed) # 0
  <2>1. fed \in Seq(Tok) /\ fed # <<>>
    BY SpecAssumption
  <2>2. QED
    BY <1>2, <2>1, ModeFacts, EmptySeq, LenProperties DEF IInv, SpecTypes, StatesAgree
<1>4. /\ kv' \in Seq(Tok) /\ Len(kv') = pos + Len(fed) /\ rec' = kv' /\ pos' = Len(kv') /\ pos' \in Nat
      /\ kv' = kv \o fed
  BY <1>1, <1>3, Concatenated
<1>5. next' \in Tok /\ next' \in Sampled(kv', kv')
  BY <1>1, <1>4 DEF Sampled
<1> DEFINE r == rows(fed)
<1>6. /\ r \in Seq(Row) /\ Len(r) = Len(fed) /\ r # <<>>
      /\ \A i \in 1 .. Len(fed) : r[i].tok \in Tok /\ r[i] = TargetRow(r[i].tok, Upto(kv', pos + i))
      /\ r[Len(fed)].tok = next'
  <2>1. ASSUME NEW i \in 1 .. Len(fed)
        PROVE  (IF i < Len(fed) THEN fed[i + 1] ELSE next') \in Tok /\ Upto(kv', pos + i) \in Seq(Tok)
    <3>1. i < Len(fed) => fed[i + 1] \in Tok
      BY <1>3
    <3>2. pos + i \in 0 .. Len(kv')
      BY <1>3, <1>4
    <3>3. Upto(kv', pos + i) \in Seq(Tok)
      BY <1>4, <3>2, PrefixFacts DEF Upto
    <3>4. QED
      BY <1>5, <3>1, <3>3
  <2>2. \A i \in 1 .. Len(fed) : r[i] \in Row
    BY <2>1 DEF TargetRow, Row
  <2>3. r \in Seq(Row) /\ Len(r) = Len(fed)
    BY <1>3, <2>2
  <2>4. r # <<>>
    BY <1>3, <2>3
  <2>5. r[Len(fed)].tok = next'
    BY <1>3 DEF TargetRow
  <2>6. \A i \in 1 .. Len(fed) : r[i].tok \in Tok /\ r[i] = TargetRow(r[i].tok, Upto(kv', pos + i))
    BY <2>1 DEF TargetRow
  <2>7. QED
    BY <2>3, <2>4, <2>5, <2>6
<1> HIDE DEF r
<1>7. pos \in 0 .. Len(mtp) /\ \A j \in 1 .. pos : mtp[j] = TargetRow(mtp[j].tok, Upto(kv, j))
  BY <1>2, RowsThere
<1>8. /\ mtp' \in Seq(Row) /\ Len(mtp') = pos + Len(fed)
      /\ \A j \in 1 .. pos : mtp'[j] = mtp[j]
      /\ \A i \in 1 .. Len(fed) : mtp'[pos + i] = r[i]
      /\ drafts' \in Seq(Tok) /\ Len(drafts') = 1
      /\ \A i \in DOMAIN drafts' : drafts'[i] \in mode.toks
      /\ hout' \in [DOMAIN hout' -> Nat] /\ 1 \in DOMAIN hout' /\ prev' \in DOMAIN hout'
      /\ hout'[prev'] = Len(mtp')
  <2>1. FeedMtp(pos, r)
    BY <1>1 DEF r
  <2>2. QED
    BY <1>3, <1>6, <1>7, <2>1, Fed
<1>9. base' # <<>> /\ Said' = kv' /\ Said' \in Seq(Tok)
  <2>1. Len(kv') # 0
    BY <1>3, <1>4
  <2>2. kv' \o <<>> = kv'
    BY <1>4, ConcatEmptySeq
  <2>3. QED
    BY <1>2, <1>4, <2>1, <2>2, EmptySeq DEF Said
<1>10. SpecTypes'
  <2>1. /\ mtp' \in Seq(Row) /\ drafts' \in Seq(Tok) /\ kv' \in Seq(Tok) /\ rec' \in Seq(Tok)
        /\ pos' \in Nat /\ next' \in Tok /\ base' \in Seq(Tok) /\ base' # <<>>
        /\ out' \in Seq(Tok) /\ todo' \in Seq(Tok)
    BY <1>2, <1>4, <1>5, <1>8, <1>9, EmptySeq
  <2>2. /\ mode' \in Modes /\ K' # 0 /\ turns' \in Nat /\ turns' # 0 /\ p' \in Nat
        /\ ids' \in Seq(Tok) /\ snap' \in Seq(Tok) /\ saved' \in Seq(Tok) /\ emitted' \in Seq(Tok)
    BY <1>2, <1>3 DEF IInv, SpecTypes
  <2>3. QED
    BY <1>2, <2>1, <2>2 DEF SpecTypes
<1>11. StatesAgree' /\ RoundState' /\ AcceptedPart'
  BY <1>2, <1>4 DEF StatesAgree, RoundState, AcceptedPart
<1>12. CommittedState'
  <2>1. kv' = Said' \o todo'
    BY <1>2, <1>4, <1>9, ConcatEmptySeq
  <2>2. QED
    BY <1>2, <1>3, <2>1 DEF CommittedState
<1>13. WithinBudget'
  BY <1>2, <1>3, <1>4 DEF WithinBudget
<1>14. MtpRows'
  <2>1. RowsOf(Append(kv, next))'
    <3>1. /\ Len(Append(kv', next')) = Len(kv') + 1 /\ Append(kv', next') = kv' \o <<next'>> /\ <<next'>> \in Seq(Tok)
          /\ Append(kv', next')[Len(kv') + 1] = next'
      <4>1. kv' \in Seq(Tok) /\ next' \in Tok
        BY <1>4, <1>5
      <4>2. QED
        BY <4>1, Appended
    <3>2. ASSUME NEW j \in 1 .. Len(kv')
          PROVE  mtp'[j] = TargetRow(mtp'[j].tok, Upto(kv', j))
      <4>1. CASE j \in 1 .. pos
        <5>1. j \in 0 .. Len(kv)
          BY <1>3, <4>1
        <5>2. Upto(kv', j) = Upto(kv, j)
          BY <1>3, <1>4, <5>1, PrefixOfConcat DEF Upto
        <5>3. QED
          BY <1>7, <1>8, <4>1, <5>2
      <4>2. CASE j \notin 1 .. pos
        <5>1. j - pos \in 1 .. Len(fed) /\ j = pos + (j - pos)
          BY <1>3, <1>4, <4>2
        <5>2. QED
          BY <1>6, <1>8, <5>1
      <4>3. QED
        BY <4>1, <4>2
    <3>3. ASSUME NEW j \in 1 .. Len(kv')
          PROVE  Upto(Append(kv', next'), j) = Upto(kv', j)
      <4>1. j \in 0 .. Len(kv')
        OBVIOUS
      <4>2. SubSeq(kv' \o <<next'>>, 1, j) = SubSeq(kv', 1, j)
        BY <1>4, <3>1, <4>1, PrefixOfConcat
      <4>3. QED
        BY <3>1, <4>2 DEF Upto
    <3>4. mtp'[Len(kv')].tok = next'
      <4>1. Len(fed) \in 1 .. Len(fed) /\ Len(kv') = pos + Len(fed)
        BY <1>3, <1>4
      <4>2. QED
        BY <1>6, <1>8, <4>1
    <3>5. \A j \in Len(base') .. Len(kv') : mtp'[j].tok = Append(kv', next')[j + 1]
      BY <1>2, <1>4, <3>1, <3>4
    <3>6. Len(mtp') >= Len(kv') /\ Len(Append(kv', next')) - 1 = Len(kv')
      BY <1>3, <1>4, <1>8, <3>1
    <3>7. \A j \in 1 .. Len(kv') : mtp'[j] = TargetRow(mtp'[j].tok, Upto(Append(kv', next'), j))
      BY <3>2, <3>3
    <3>8. QED
      BY <3>5, <3>6, <3>7 DEF RowsOf, TargetRow, Upto
  <2>2. DraftRows'
    BY <1>1, <1>3, <1>8 DEF DraftRows
  <2>3. QED
    BY <1>2, <1>3, <1>8, <2>1, <2>2 DEF MtpRows
<1>15. LineIsChosen'
  <2>1. Line' = kv' \o Append(<<>>, next')
    BY <1>2, <1>9 DEF Line
  <2>2. \A q \in Len(kv') + 1 .. Len(Line') : Chosen(Upto(Line', q - 1), Line'[q])
    BY <1>3, <1>4, <1>5, <2>1, NextIsChosen
  <2>3. QED
    BY <1>2, <1>8, <1>9, <2>2 DEF LineIsChosen, Chosen, Upto
<1>16. QED
  BY <1>10, <1>11, <1>12, <1>13, <1>14, <1>15 DEF IInv

LEMMA ChainDraftStep == ASSUME IInv, ChainDraft PROVE IInv'
<1>1. PICK d \in mode.toks : drafts' = Append(drafts, d)
  BY DEF ChainDraft
<1> DEFINE row == ChainedRow(drafts[Len(drafts)], hout[prev])
<1>2. /\ phase = "chain" /\ phase' = phase /\ Len(drafts) < K
      /\ mtp' = Append(mtp, row)
      /\ hout' = [hout EXCEPT ![1] = Len(mtp')] /\ prev' = 1
      /\ UNCHANGED <<mode, turns, base, out, ids, todo, next, emitted, kv, rec, pos, p, snap, saved,
                     logits, hidden>>
      /\ K' = K /\ MaxTokens' = MaxTokens /\ Greedy' = Greedy /\ net' = net /\ Said' = Said /\ Line' = Line
  BY SameMode DEF ChainDraft, main, round, Said, Line
<1>3. /\ K \in Nat /\ K > 0 /\ mode.toks \subseteq Tok /\ turns \in Nat /\ turns > 0
      /\ drafts \in Seq(Tok) /\ mtp \in Seq(Row) /\ pos \in Nat /\ next \in Tok
      /\ kv \in Seq(Tok) /\ pos = Len(kv)
  BY <1>2, ModeFacts DEF IInv, SpecTypes, StatesAgree
<1>4. /\ RowsOf(Append(kv, next)) /\ DraftRows /\ Len(drafts) \in 1 .. K
      /\ hout \in [DOMAIN hout -> Nat] /\ 1 \in DOMAIN hout /\ prev \in DOMAIN hout
      /\ hout[prev] = Len(mtp)
  BY <1>2, <1>3 DEF IInv, MtpRows
<1>5. row \in Row /\ row = ChainedRow(drafts[Len(drafts)], Len(mtp))
  <2>1. drafts[Len(drafts)] \in Tok /\ hout[prev] \in Nat /\ <<>> \in Seq(Tok)
    BY <1>3, <1>4, EmptySeq
  <2>2. QED
    BY <1>4, <2>1 DEF ChainedRow, Row
<1> HIDE DEF row
<1>6. /\ mtp' \in Seq(Row) /\ Len(mtp') = Len(mtp) + 1 /\ Len(mtp) \in Nat
      /\ mtp'[Len(mtp) + 1] = row /\ \A j \in 1 .. Len(mtp) : mtp'[j] = mtp[j]
  <2>1. mtp \in Seq(Row) /\ row \in Row
    BY <1>3, <1>5
  <2>2. /\ Append(mtp, row) \in Seq(Row) /\ Len(Append(mtp, row)) = Len(mtp) + 1 /\ Len(mtp) \in Nat
        /\ Append(mtp, row)[Len(mtp) + 1] = row /\ \A j \in 1 .. Len(mtp) : Append(mtp, row)[j] = mtp[j]
    BY <2>1, Appended
  <2>3. QED
    BY <1>2, <2>2
<1>7. /\ drafts' \in Seq(Tok) /\ Len(drafts') = Len(drafts) + 1
      /\ drafts'[Len(drafts) + 1] = d /\ \A j \in 1 .. Len(drafts) : drafts'[j] = drafts[j]
      /\ DOMAIN drafts' = 1 .. Len(drafts) + 1
  <2>1. drafts \in Seq(Tok) /\ d \in Tok
    BY <1>3
  <2>2. /\ Append(drafts, d) \in Seq(Tok) /\ Len(Append(drafts, d)) = Len(drafts) + 1
        /\ Append(drafts, d)[Len(drafts) + 1] = d
        /\ \A j \in 1 .. Len(drafts) : Append(drafts, d)[j] = drafts[j]
    BY <2>1, Appended
  <2>3. DOMAIN Append(drafts, d) = 1 .. Len(drafts) + 1
    BY <2>2, LenProperties
  <2>4. QED
    BY <1>1, <2>2, <2>3
<1>8. SpecTypes'
  BY <1>2, <1>3, <1>6, <1>7 DEF IInv, SpecTypes
<1>9. StatesAgree' /\ CommittedState'
  BY <1>2 DEF IInv, StatesAgree, CommittedState
<1>10. RoundState' /\ AcceptedPart' /\ WithinBudget'
  BY <1>2 DEF IInv, RoundState, AcceptedPart, WithinBudget
<1>11. MtpRows'
  <2>1. RowsOf(Append(kv, next))'
    <3>1. Len(Append(kv, next)) = Len(kv) + 1 /\ Len(kv) \in Nat
      BY <1>3, Appended
    <3>2. Len(base) \in Nat \ {0}
      <4>1. base \in Seq(Tok) /\ base # <<>>
        BY <1>3 DEF IInv, SpecTypes
      <4>2. QED
        BY <4>1, EmptySeq, LenProperties
    <3>3. /\ Len(mtp) >= Len(kv)
          /\ \A j \in 1 .. Len(kv) : mtp[j] = TargetRow(mtp[j].tok, Upto(Append(kv, next), j))
          /\ \A j \in Len(base) .. Len(kv) : mtp[j].tok = Append(kv, next)[j + 1]
      BY <1>4, <3>1 DEF RowsOf
    <3>4. \A j \in 1 .. Len(kv) : mtp'[j] = mtp[j]
      BY <1>6, <3>1, <3>3
    <3>5. \A j \in Len(base) .. Len(kv) : j \in 1 .. Len(kv)
      BY <3>2
    <3>6. /\ Len(mtp') >= Len(kv)
          /\ \A j \in 1 .. Len(kv) : mtp'[j] = TargetRow(mtp'[j].tok, Upto(Append(kv, next), j))
          /\ \A j \in Len(base) .. Len(kv) : mtp'[j].tok = Append(kv, next)[j + 1]
      BY <1>6, <3>1, <3>3, <3>4, <3>5
    <3>7. Len(Append(kv, next)) - 1 = Len(kv)
      BY <3>1
    <3>8. kv' = kv /\ next' = next /\ base' = base
      BY <1>2
    <3>9. QED
      BY <3>6, <3>7, <3>8 DEF RowsOf, TargetRow, Upto
  <2>2. DraftRows'
    <3>1. Len(mtp) = pos + Len(drafts) - 1 /\ Len(drafts) \in Nat
          /\ \A i \in 1 .. Len(drafts) - 1 : mtp[pos + i] = ChainedRow(drafts[i], pos + i - 1)
      BY <1>3, <1>4 DEF DraftRows
    <3>2. Len(mtp') = pos' + Len(drafts') - 1
      BY <1>2, <1>3, <1>6, <1>7, <3>1
    <3>3. ASSUME NEW i \in 1 .. Len(drafts') - 1
          PROVE  mtp'[pos + i] = ChainedRow(drafts'[i], pos + i - 1)
      <4>1. CASE i = Len(drafts)
        <5>1. pos + i = Len(mtp) + 1 /\ pos + i - 1 = Len(mtp) /\ i \in 1 .. Len(drafts)
          BY <1>3, <1>4, <3>1, <4>1
        <5>2. QED
          BY <1>5, <1>6, <1>7, <4>1, <5>1
      <4>2. CASE i # Len(drafts)
        <5>1. i \in 1 .. Len(drafts) - 1 /\ i \in 1 .. Len(drafts) /\ pos + i \in 1 .. Len(mtp)
          BY <1>3, <1>7, <3>1, <4>2
        <5>2. QED
          BY <1>6, <1>7, <3>1, <5>1
      <4>3. QED
        BY <4>1, <4>2
    <3>4. QED
      BY <1>2, <3>2, <3>3 DEF DraftRows, ChainedRow
  <2>3. Len(drafts') \in 1 .. K
    BY <1>2, <1>3, <1>4, <1>7
  <2>4. hout' \in [DOMAIN hout' -> Nat] /\ 1 \in DOMAIN hout' /\ prev' \in DOMAIN hout' /\ hout'[prev'] = Len(mtp')
    BY <1>2, <1>4, <1>6
  <2>5. QED
    BY <1>2, <2>1, <2>2, <2>3, <2>4 DEF MtpRows
<1>12. LineIsChosen'
  <2>1. \A i \in DOMAIN drafts' : drafts'[i] \in mode.toks
    <3>1. \A i \in 1 .. Len(drafts) : drafts[i] \in mode.toks
      <4>1. DOMAIN drafts = 1 .. Len(drafts)
        BY <1>3, LenProperties
      <4>2. QED
        BY <4>1 DEF IInv, LineIsChosen
    <3>2. \A i \in 1 .. Len(drafts) + 1 : i \in 1 .. Len(drafts) \/ i = Len(drafts) + 1
      BY <1>4
    <3>3. QED
      BY <1>7, <3>1, <3>2
  <2>2. QED
    BY <1>2, <2>1 DEF IInv, LineIsChosen, Chosen, Upto
<1>13. QED
  BY <1>8, <1>9, <1>10, <1>11, <1>12 DEF IInv

\* The hiddens the batch saved are those of the context up to each emitted token.
LEMMA HiddenOfLine ==
  ASSUME IInv, phase = "refeed", NEW i \in 1 .. Len(todo) + 1
  PROVE  hidden[i] = Upto(Line, p + i) /\ p + i = Len(Said) + (i - 1)
<1>1. /\ Len(drafts) = K /\ p = Len(Said) - 1 /\ Len(todo) <= K /\ todo = Upto(drafts, Len(todo))
      /\ K \in Nat /\ K > 0 /\ turns > 0
      /\ drafts \in Seq(Tok) /\ todo \in Seq(Tok) /\ base \in Seq(Tok) /\ out \in Seq(Tok) /\ next \in Tok
  BY ModeFacts DEF IInv, SpecTypes, RoundState, AcceptedPart
<1>2. hidden[i] = Upto(Said \o drafts, p + i)
  <2>1. i \in 1 .. K + 1
    BY <1>1, LenProperties
  <2>2. QED
    BY <1>1, <2>1 DEF IInv, MtpRows
<1>3. Said \in Seq(Tok) /\ Len(Said) \in Nat
  BY <1>1, Concatenated, LenProperties DEF Said
<1>4. Len(todo) \in 0 .. Len(drafts) /\ i - 1 \in 0 .. Len(todo) /\ p + i = Len(Said) + (i - 1)
  BY <1>1, <1>3, LenProperties
<1>5. /\ Upto(Said \o Append(Upto(drafts, Len(todo)), next), Len(Said) + (i - 1)) = Said \o Upto(drafts, i - 1)
      /\ Upto(Said \o drafts, Len(Said) + (i - 1)) = Said \o Upto(drafts, i - 1)
  BY <1>1, <1>3, <1>4, AcceptedPrefix
<1>6. QED
  BY <1>1, <1>2, <1>4, <1>5 DEF Line

LEMMA RefeedStep == ASSUME IInv, Refeed PROVE IInv'
<1> DEFINE rows == [i \in 1 .. Len(emitted) |-> TargetRow(emitted[i], hidden[i])]
<1>1. /\ phase = "refeed" /\ phase' = "chain" /\ FeedMtp(p, rows)
      /\ UNCHANGED <<mode, turns, base, out, ids, todo, next, emitted, kv, rec, pos, p, snap, saved,
                     logits, hidden>>
      /\ K' = K /\ MaxTokens' = MaxTokens /\ Greedy' = Greedy /\ net' = net /\ Said' = Said /\ Line' = Line
  BY SameMode DEF Refeed, main, round, Said, Line
<1>2. /\ K \in Nat /\ K > 0 /\ MaxTokens \in Nat /\ mode.toks \subseteq Tok /\ turns \in Nat /\ turns > 0
      /\ mtp \in Seq(Row) /\ next \in Tok /\ kv \in Seq(Tok) /\ pos = Len(kv) /\ todo \in Seq(Tok)
      /\ base \in Seq(Tok) /\ out \in Seq(Tok) /\ p \in Nat /\ base # <<>>
  BY <1>1, ModeFacts DEF IInv, SpecTypes, StatesAgree
<1>3. /\ kv = Said \o todo /\ p = Len(Said) - 1 /\ emitted = Append(todo, next)
      /\ RowsOf(Said) /\ Len(mtp) = p + K - 1 /\ Len(out) < MaxTokens
  BY <1>1, <1>2 DEF IInv, CommittedState, RoundState, AcceptedPart, MtpRows, WithinBudget
<1>4. Said \in Seq(Tok) /\ Len(Said) \in Nat
  BY <1>2, Concatenated, LenProperties DEF Said
<1>5. /\ emitted \in Seq(Tok) /\ Len(emitted) = Len(todo) + 1 /\ Len(todo) \in Nat /\ emitted # <<>>
  BY <1>2, <1>3, Appended, SMTT(30)
<1>6. Append(kv, next) = Line /\ Line = Said \o emitted
  <2>1. Said \in Seq(Tok) /\ todo \in Seq(Tok) /\ next \in Tok
    BY <1>2, <1>4
  <2>2. Append(Said \o todo, next) = Said \o Append(todo, next)
    BY <2>1
  <2>3. QED
    BY <1>3, <2>2 DEF Line
<1>7. /\ Line \in Seq(Tok) /\ Len(Line) = Len(Said) + Len(emitted)
      /\ \A j \in 1 .. Len(Said) : Line[j] = Said[j]
      /\ \A i \in 1 .. Len(emitted) : Line[Len(Said) + i] = emitted[i]
  BY <1>4, <1>5, <1>6, Concatenated
<1>8. Len(kv) = p + Len(emitted) /\ Len(Line) - 1 = Len(kv)
  <2>1. Len(Append(kv, next)) = Len(kv) + 1 /\ Len(kv) \in Nat
    BY <1>2, Appended
  <2>2. QED
    BY <1>2, <1>3, <1>4, <1>5, <1>6, <1>7, <2>1
<1>9. /\ rows \in Seq(Row) /\ Len(rows) = Len(emitted) /\ rows # <<>>
      /\ \A i \in 1 .. Len(emitted) : rows[i] = TargetRow(rows[i].tok, Upto(Line, p + i)) /\ rows[i].tok = emitted[i]
  <2>1. ASSUME NEW i \in 1 .. Len(emitted)
        PROVE  hidden[i] = Upto(Line, p + i) /\ hidden[i] \in Seq(Tok) /\ emitted[i] \in Tok
    <3>1. hidden[i] = Upto(Line, p + i)
      BY <1>1, <1>5, HiddenOfLine
    <3>2. p + i \in 0 .. Len(Line)
      BY <1>2, <1>3, <1>4, <1>5, <1>7
    <3>3. Upto(Line, p + i) \in Seq(Tok)
      BY <1>7, <3>2, PrefixFacts DEF Upto
    <3>4. QED
      BY <1>5, <3>1, <3>3
  <2>2. \A i \in 1 .. Len(emitted) : TargetRow(emitted[i], hidden[i]) \in Row
    BY <2>1 DEF TargetRow, Row
  <2>3. rows \in Seq(Row) /\ Len(rows) = Len(emitted)
    BY <1>5, <2>2
  <2>4. rows # <<>>
    BY <1>5, <2>3
  <2>5. \A i \in 1 .. Len(emitted) : rows[i] = TargetRow(rows[i].tok, Upto(Line, p + i)) /\ rows[i].tok = emitted[i]
    BY <2>1 DEF TargetRow
  <2>6. QED
    BY <2>3, <2>4, <2>5
<1> HIDE DEF rows
<1>10. /\ mtp' \in Seq(Row) /\ Len(mtp') = p + Len(emitted)
       /\ \A j \in 1 .. p : mtp'[j] = mtp[j]
       /\ \A i \in 1 .. Len(emitted) : mtp'[p + i] = rows[i]
       /\ drafts' \in Seq(Tok) /\ Len(drafts') = 1
       /\ \A i \in DOMAIN drafts' : drafts'[i] \in mode.toks
       /\ hout' \in [DOMAIN hout' -> Nat] /\ 1 \in DOMAIN hout' /\ prev' \in DOMAIN hout'
       /\ hout'[prev'] = Len(mtp')
  <2>1. p \in 0 .. Len(mtp)
    BY <1>2, <1>3
  <2>2. QED
    BY <1>1, <1>2, <1>9, <2>1, Fed
<1>11. SpecTypes'
  <2>1. mtp' \in Seq(Row) /\ drafts' \in Seq(Tok)
    BY <1>10
  <2>2. QED
    BY <1>1, <1>2, <2>1 DEF IInv, SpecTypes
<1>12. StatesAgree' /\ CommittedState'
  BY <1>1, <1>2 DEF IInv, StatesAgree, CommittedState
<1>13. RoundState' /\ AcceptedPart' /\ WithinBudget'
  BY <1>1 DEF IInv, RoundState, AcceptedPart, WithinBudget
<1>14. MtpRows'
  <2>1. RowsOf(Append(kv, next))'
    <3>1. /\ Len(mtp) >= p
          /\ \A j \in 1 .. p : mtp[j] = TargetRow(mtp[j].tok, Upto(Said, j))
          /\ \A j \in Len(base) .. p : mtp[j].tok = Said[j + 1]
      BY <1>3 DEF RowsOf
    <3>2. Len(base) \in Nat \ {0}
      BY <1>2, EmptySeq, LenProperties
    <3>3. ASSUME NEW j \in 1 .. Len(kv)
          PROVE  /\ mtp'[j] = TargetRow(mtp'[j].tok, Upto(Line, j))
                 /\ j >= Len(base) => mtp'[j].tok = Line[j + 1]
      <4>1. CASE j \in 1 .. p
        <5>1. j \in 0 .. Len(Said) /\ j + 1 \in 1 .. Len(Said)
          BY <1>3, <1>4, <4>1
        <5>2. Upto(Line, j) = Upto(Said, j)
          BY <1>4, <1>5, <1>6, <5>1, PrefixOfConcat DEF Upto
        <5>3. j >= Len(base) => mtp[j].tok = Said[j + 1]
          BY <3>1, <3>2, <4>1
        <5>4. QED
          BY <1>7, <1>10, <3>1, <4>1, <5>1, <5>2, <5>3
      <4>2. CASE j \notin 1 .. p
        <5>1. j - p \in 1 .. Len(emitted) /\ j = p + (j - p) /\ j + 1 = Len(Said) + (j - p)
          BY <1>2, <1>3, <1>4, <1>8, <4>2
        <5>2. QED
          BY <1>7, <1>9, <1>10, <5>1
      <4>3. QED
        BY <4>1, <4>2
    <3>4. \A j \in Len(base) .. Len(kv) : j \in 1 .. Len(kv) /\ j >= Len(base)
      BY <3>2
    <3>5. \A j \in Len(base) .. Len(kv) : mtp'[j].tok = Line[j + 1]
      BY <3>3, <3>4
    <3>6. /\ Len(mtp') >= Len(Line) - 1 /\ Len(Line) - 1 = Len(kv)
          /\ Append(kv', next') = Line /\ base' = base
      BY <1>1, <1>6, <1>8, <1>10
    <3>7. QED
      BY <3>3, <3>5, <3>6 DEF RowsOf, TargetRow, Upto
  <2>2. DraftRows'
    <3>1. Len(mtp') = pos' + Len(drafts') - 1 /\ Len(drafts') = 1
      BY <1>1, <1>2, <1>8, <1>10
    <3>2. QED
      BY <3>1 DEF DraftRows
  <2>3. Len(drafts') \in 1 .. K
    BY <1>2, <1>10
  <2>4. QED
    BY <1>1, <1>10, <2>1, <2>2, <2>3 DEF MtpRows
<1>15. LineIsChosen'
  <2>1. \A i \in DOMAIN drafts' : drafts'[i] \in mode.toks
    BY <1>10
  <2>2. QED
    BY <1>1, <2>1 DEF IInv, LineIsChosen, Chosen, Upto
<1>16. QED
  BY <1>11, <1>12, <1>13, <1>14, <1>15 DEF IInv

LEMMA InvStep == IInv /\ [Next]_vars => IInv'
<1> SUFFICES ASSUME IInv, [Next]_vars PROVE IInv'
  OBVIOUS
<1>1. CASE Plain
  BY <1>1, StartPlainStep, PrefillStep, ForwardStep DEF Plain
<1>2. CASE SpecPrefill
  BY <1>2, SpecPrefillStep
<1>3. CASE ChainDraft
  BY <1>3, ChainDraftStep
<1>4. CASE EmitToken
  BY <1>4, EmitNextStep, EmitDraftStep
<1>5. CASE SpecRound
  BY <1>5, VerifyStep, AcceptStep, RollbackStep, RefeedStep DEF SpecRound
<1>6. CASE ChainDone \/ EmitNothing \/ EmitStop \/ UNCHANGED vars
  BY <1>6, QuietStep
<1>7. CASE Finished
  BY <1>7, QuietStep DEF Finished
<1>8. QED
  BY <1>1, <1>2, <1>3, <1>4, <1>5, <1>6, <1>7 DEF Next, Emission

THEOREM Invariance == Spec => []IInv
  BY InvInit, InvStep, PTL DEF Spec

\* The state has consumed the context, what was emitted and the accepted drafts, in both
\* kinds of layers: property StateIsCommitted of the decode run.
THEOREM SpecStateIsCommitted == Spec => []StateIsCommitted
<1>1. IInv => StateIsCommitted
  BY DEF IInv, SpecTypes, StatesAgree, CommittedState, StateIsCommitted, Said
<1>2. QED
  BY <1>1, Invariance, PTL

\* The MTP's cache has one row per consumed position and one per draft but the last.
THEOREM SpecMtpFollowsState == Spec => []MtpFollowsState
<1>1. IInv => MtpFollowsState
  <2> SUFFICES ASSUME IInv, K > 0, phase \in {"emit", "verify"} \/ (phase = "done" /\ turns > 0)
               PROVE  /\ Len(drafts) = K /\ Len(mtp) = pos + K - 1
                      /\ \A j \in 1 .. pos : mtp[j] = TargetRow(mtp[j].tok, Upto(kv, j))
                      /\ \A j \in Len(base) .. pos : mtp[j].tok = Append(kv, next)[j + 1]
                      /\ \A i \in 1 .. K - 1 : mtp[pos + i] = ChainedRow(drafts[i], pos + i - 1)
    BY DEF MtpFollowsState
  <2>1. /\ turns > 0 /\ kv \in Seq(Tok) /\ next \in Tok /\ pos = Len(kv)
    BY DEF IInv, SpecTypes, StatesAgree
  <2>2. RowsOf(Append(kv, next)) /\ DraftRows /\ Len(drafts) = K
    BY <2>1 DEF IInv, MtpRows
  <2>3. Len(Append(kv, next)) = Len(kv) + 1 /\ Append(kv, next) = kv \o <<next>> /\ <<next>> \in Seq(Tok) /\ Len(kv) \in Nat
    BY <2>1, Appended
  <2>4. /\ \A j \in 1 .. Len(kv) : mtp[j] = TargetRow(mtp[j].tok, Upto(Append(kv, next), j))
        /\ \A j \in Len(base) .. Len(kv) : mtp[j].tok = Append(kv, next)[j + 1]
    BY <2>2, <2>3 DEF RowsOf
  <2>5. ASSUME NEW j \in 1 .. Len(kv) PROVE Upto(Append(kv, next), j) = Upto(kv, j)
    <3>1. j \in 0 .. Len(kv)
      OBVIOUS
    <3>2. SubSeq(kv \o <<next>>, 1, j) = SubSeq(kv, 1, j)
      BY <2>1, <2>3, <3>1, PrefixOfConcat
    <3>3. QED
      BY <2>3, <3>2 DEF Upto
  <2>6. QED
    BY <2>1, <2>2, <2>4, <2>5 DEF DraftRows
<1>2. QED
  BY <1>1, Invariance, PTL

\* The attention caches never outgrow what run.rs reserves; neither does the MTP's with at
\* most 4 drafts per round, the case the property RowsWithinReserve is about.
THEOREM SpecRowsWithinReserve == Spec => [](Len(kv) <= Reserved /\ (K <= 4 => RowsWithinReserve))
<1>1. IInv => Len(kv) <= Reserved /\ (K <= 4 => RowsWithinReserve)
  <2> SUFFICES ASSUME IInv PROVE Len(kv) <= Reserved /\ (K <= 4 => Len(mtp) <= Reserved)
    BY DEF RowsWithinReserve
  <2>1. /\ K \in Nat /\ MaxTokens \in Nat /\ turns \in Nat /\ p \in Nat
        /\ base \in Seq(Tok) /\ out \in Seq(Tok) /\ kv \in Seq(Tok) /\ drafts \in Seq(Tok) /\ mtp \in Seq(Row)
    BY ModeFacts DEF IInv, SpecTypes
  <2>2. Len(base) \in Nat /\ Len(out) \in Nat /\ Len(kv) \in Nat /\ Len(Said) = Len(base) + Len(out) /\ Said \in Seq(Tok)
    BY <2>1, Concatenated DEF Said
  <2>3. CASE phase \in {"accept", "rollback"}
    <3>1. kv = Said \o drafts /\ Len(drafts) = K /\ p = Len(Said) - 1 /\ Len(out) < MaxTokens /\ K > 0 /\ turns > 0
      BY <2>1, <2>3, SMTT(30) DEF IInv, SpecTypes, RoundState, WithinBudget
    <3>2. Len(kv) = Len(Said) + K
      BY <2>1, <2>2, <3>1, Concatenated
    <3>3. Len(mtp) = p + K - 1
      BY <2>3, <3>1 DEF IInv, MtpRows
    <3>4. QED
      BY <2>1, <2>2, <3>1, <3>2, <3>3 DEF Reserved
  <2>4. CASE phase = "prefill"
    <3>1. Len(kv) <= Len(base) /\ K = 0 /\ mtp = <<>>
      BY <2>4 DEF IInv, SpecTypes, WithinBudget
    <3>2. QED
      BY <2>1, <2>2, <3>1, EmptySeq DEF Reserved
  <2>5. CASE phase \notin {"accept", "rollback", "prefill"}
    <3>1. Len(kv) <= Len(base) + MaxTokens + (IF K = 0 THEN 0 ELSE K - 1) /\ pos = Len(kv)
      BY <2>5 DEF IInv, StatesAgree, WithinBudget
    <3>2. CASE K = 0 \/ turns = 0
      <4>1. mtp = <<>>
        BY <2>1, <3>2 DEF IInv, SpecTypes
      <4>2. QED
        BY <2>1, <2>2, <3>1, <4>1, EmptySeq DEF Reserved
    <3>3. CASE K > 0 /\ turns > 0 /\ phase = "refeed"
      <4>1. Len(mtp) = p + K - 1 /\ p = Len(Said) - 1 /\ Len(out) < MaxTokens
        BY <3>3 DEF IInv, MtpRows, RoundState, WithinBudget
      <4>2. QED
        BY <2>1, <2>2, <3>1, <3>3, <4>1 DEF Reserved
    <3>4. CASE K > 0 /\ turns > 0 /\ phase # "refeed"
      <4>1. phase \in {"done", "emit", "verify", "chain"}
        BY <2>5, <3>4 DEF IInv, SpecTypes
      <4>2. Len(mtp) = pos + Len(drafts) - 1 /\ Len(drafts) <= K /\ Len(drafts) \in Nat
        BY <2>1, <3>4, <4>1, LenProperties DEF IInv, MtpRows, DraftRows
      <4>3. QED
        BY <2>1, <2>2, <3>1, <3>4, <4>2 DEF Reserved
    <3>5. QED
      BY <2>1, <3>2, <3>3, <3>4
  <2>6. QED
    BY <2>3, <2>4, <2>5
<1>2. QED
  BY <1>1, Invariance, PTL

-----------------------------------------------------------------------------
\* What the stream shows of the tokens emitted: one token too many is only ever emitted
\* when none may be.
Shown == Upto(out, IF Len(out) < MaxTokens THEN Len(out) ELSE MaxTokens)

ShownWithinBudget ==
  /\ Len(out) <= MaxTokens => Shown = out
  /\ MaxTokens = 0 \/ out = <<>> => Shown = <<>>

LEMMA ShownFacts == ASSUME IInv PROVE ShownWithinBudget
<1>1. out \in Seq(Tok) /\ Len(out) \in Nat /\ MaxTokens \in Nat
  BY ModeFacts, LenProperties DEF IInv, SpecTypes
<1>2. Len(out) <= MaxTokens => Shown = out
  <2>1. Upto(out, Len(out)) = out
    BY <1>1, SubSeqFull DEF Upto
  <2>2. Len(out) <= MaxTokens => (IF Len(out) < MaxTokens THEN Len(out) ELSE MaxTokens) = Len(out)
    BY <1>1
  <2>3. QED
    BY <2>1, <2>2 DEF Shown
<1>3. MaxTokens = 0 \/ out = <<>> => Shown = <<>>
  <2>1. MaxTokens = 0 \/ out = <<>> => (IF Len(out) < MaxTokens THEN Len(out) ELSE MaxTokens) = 0
    BY <1>1, EmptySeq
  <2>2. SubSeq(out, 1, 0) = <<>>
    BY <1>1, SubSeqEmpty
  <2>3. QED
    BY <2>1, <2>2 DEF Shown, Upto
<1>4. QED
  BY <1>2, <1>3 DEF ShownWithinBudget

\* The same in the next state.
LEMMA ShownNext == IInv' => ShownWithinBudget'
<1>1. IInv => ShownWithinBudget
  BY ShownFacts
<1>2. QED
  BY <1>1, PTL

\* The token the caller looks at is a choice after what it has.
LEMMA CurrentIsChosen ==
  ASSUME IInv, phase = "emit"
  PROVE  Current \in Tok /\ Current \in Stream!Choices(Said)
<1>1. /\ base \in Seq(Tok) /\ out \in Seq(Tok) /\ todo \in Seq(Tok) /\ next \in Tok /\ Greedy \in BOOLEAN
  BY ModeFacts DEF IInv, SpecTypes
<1>2. Said \in Seq(Tok) /\ Len(Said) \in Nat
  BY <1>1, Concatenated, LenProperties DEF Said
<1>3. /\ Append(todo, next) \in Seq(Tok) /\ Len(Append(todo, next)) = Len(todo) + 1 /\ Len(todo) \in Nat
      /\ Append(todo, next)[Len(todo) + 1] = next
      /\ \A i \in 1 .. Len(todo) : Append(todo, next)[i] = todo[i]
  BY <1>1, Appended
<1>4. Current = Append(todo, next)[1] /\ Current \in Tok
  <2>1. CASE todo = <<>>
    BY <1>1, <1>3, <2>1 DEF Current
  <2>2. CASE todo # <<>>
    <3>1. Head(todo) = todo[1] /\ Head(todo) \in Tok /\ 1 \in 1 .. Len(todo)
      BY <1>1, <2>2, HeadTailProperties, EmptySeq, LenProperties
    <3>2. QED
      BY <1>3, <2>2, <3>1 DEF Current
  <2>3. QED
    BY <2>1, <2>2
<1>5. /\ Len(Line) = Len(Said) + Len(Append(todo, next))
      /\ \A i \in 1 .. Len(Append(todo, next)) : Line[Len(Said) + i] = Append(todo, next)[i]
  <2>1. Said \in Seq(Tok) /\ Append(todo, next) \in Seq(Tok)
    BY <1>2, <1>3
  <2>2. QED
    BY <2>1, Concatenated DEF Line
<1>6. Line[Len(Said) + 1] = Current /\ Len(Said) + 1 \in Len(Said) + 1 .. Len(Line)
  BY <1>2, <1>3, <1>4, <1>5
<1>7. Upto(Line, Len(Said)) = Said
  <2>1. Said \in Seq(Tok) /\ Append(todo, next) \in Seq(Tok)
    BY <1>2, <1>3
  <2>2. QED
    BY <2>1, PrefixIsFirst DEF Line, Upto
<1>8. Chosen(Upto(Line, (Len(Said) + 1) - 1), Line[Len(Said) + 1])
  BY <1>6 DEF IInv, LineIsChosen
<1>9. (Len(Said) + 1) - 1 = Len(Said)
  BY <1>2
<1>10. Chosen(Said, Current)
  BY <1>6, <1>7, <1>8, <1>9
<1>11. QED
  BY <1>1, <1>4, <1>10 DEF Chosen, Stream!Choices, Greedy, net

LEMMA StreamEmission ==
  ASSUME IInv, IInv', Emission
  PROVE  Stream!Next
<1>1. /\ phase = "emit" /\ MaxTokens \in Nat /\ K \in Nat
      /\ out \in Seq(Tok) /\ Len(out) \in Nat /\ (out = <<>> \/ Len(out) < MaxTokens)
      /\ mode' = mode /\ base' = base /\ MaxTokens' = MaxTokens
  <2>1. phase = "emit" /\ mode' = mode /\ base' = base
    BY DEF Emission, EmitNothing, EmitStop, EmitToken
  <2>2. QED
    BY <2>1, ModeFacts, SameMode, LenProperties DEF IInv, SpecTypes, WithinBudget
<1>2. Shown = out /\ Len(<<>>) = 0
  BY <1>1, ShownFacts, EmptySeq DEF ShownWithinBudget
<1>3. Current \in Tok /\ Current \in Stream!Choices(base \o out)
  BY <1>1, CurrentIsChosen DEF Said
<1>4. CASE EmitNothing \/ EmitStop
  <2>1. out' = out /\ phase' = "done"
    BY <1>4 DEF EmitNothing, EmitStop
  <2>2. Shown' = Shown
    BY <1>1, <2>1 DEF Shown, Upto
  <2>3. Len(Shown) = MaxTokens \/ Stream!Choices(base \o Shown) \cap Stop # {}
    <3>1. CASE EmitNothing
      BY <1>1, <1>2, <3>1 DEF EmitNothing
    <3>2. CASE EmitStop
      BY <1>2, <1>3, <3>2 DEF EmitStop
    <3>3. QED
      BY <1>4, <3>1, <3>2
  <2>4. Stream!Finish
    BY <1>1, <2>1, <2>2, <2>3 DEF Stream!Finish, Shown, MaxTokens
  <2>5. QED
    BY <2>4 DEF Stream!Next
<1>5. CASE EmitToken
  <2>1. /\ Current \notin Stop /\ out' = Append(out, Current)
        /\ phase' = IF Len(out') >= MaxTokens THEN "done"
                    ELSE IF todo # <<>> THEN "emit"
                    ELSE IF K > 0 THEN "verify" ELSE "forward"
    BY <1>5 DEF EmitToken
  <2>2. Len(out') = Len(out) + 1
    BY <1>1, <1>3, <2>1, Appended
  <2>3. (phase' = "done") = (Len(out') >= MaxTokens)
    BY <2>1
  <2>4. CASE MaxTokens = 0
    <3>1. Shown' = <<>> /\ Shown = <<>> /\ phase' = "done"
      BY <1>1, <1>2, <2>2, <2>3, <2>4, ShownNext DEF ShownWithinBudget
    <3>2. Stream!Finish
      BY <1>1, <1>2, <2>4, <3>1 DEF Stream!Finish, Shown, MaxTokens
    <3>3. QED
      BY <3>2 DEF Stream!Next
  <2>5. CASE MaxTokens # 0
    <3>1. Len(out) < MaxTokens /\ Len(out') <= MaxTokens
      BY <1>1, <1>2, <2>2, <2>5
    <3>2. Shown' = out'
      BY <1>1, <3>1, ShownNext DEF ShownWithinBudget
    <3>3. (phase' = "done") = (Len(Shown') = MaxTokens)
      BY <1>1, <2>2, <2>3, <3>1, <3>2
    <3>4. Current \in Stream!Choices(base \o Shown) \ Stop /\ Shown' = Append(Shown, Current) /\ Len(Shown) < MaxTokens
      BY <1>2, <1>3, <2>1, <3>1, <3>2
    <3>5. Stream!Emit
      BY <1>1, <3>3, <3>4 DEF Stream!Emit, Shown, MaxTokens
    <3>6. QED
      BY <3>5 DEF Stream!Next
  <2>6. QED
    BY <2>4, <2>5
<1>6. QED
  BY <1>4, <1>5 DEF Emission

LEMMA StreamStep ==
  ASSUME IInv, IInv', [Next]_vars
  PROVE  [Stream!Next]_Stream!stream
<1>1. CASE StartPlain \/ SpecPrefill
  <2>1. phase = "done" /\ phase' # "done" /\ out' = <<>> /\ mode' = mode
    BY <1>1 DEF StartPlain, SpecPrefill
  <2>2. base' \in Seq(Tok)
    BY DEF IInv, SpecTypes
  <2>3. Shown' = <<>>
    BY <2>1, ShownNext DEF ShownWithinBudget
  <2>4. Stream!StartTurn
    BY <2>1, <2>2, <2>3 DEF Stream!StartTurn, Shown
  <2>5. QED
    BY <2>4 DEF Stream!Next
<1>2. CASE Emission
  BY <1>2, StreamEmission
<1>3. CASE \/ Prefill \/ ForwardToken \/ ChainDraft \/ ChainDone \/ SpecRound \/ Finished \/ UNCHANGED vars
  <2>1. mode' = mode /\ base' = base /\ out' = out /\ (phase' = "done") = (phase = "done")
    BY <1>3 DEF Prefill, ForwardToken, ChainDraft, ChainDone, SpecRound, Verify, Accept, Rollback, Refeed,
       Finished, vars
  <2>2. Shown' = Shown
    BY <2>1 DEF Shown, Upto, MaxTokens
  <2>3. QED
    BY <2>1, <2>2 DEF Stream!stream, Shown
<1>4. QED
  BY <1>1, <1>2, <1>3 DEF Next, Plain

\* Whatever the drafts, the batches and the rollbacks, and with no --spec at all, a turn
\* emits a choice of the model after its context and everything emitted so far, until a
\* stop token or the budget ends it: greedy speculation emits the plain loop's tokens.
THEOREM SpecImplementsStream == Spec => ImplementsStream
<1>1. Init => Stream!Init
  <2> SUFFICES ASSUME Init PROVE Stream!Init
    OBVIOUS
  <2>1. IInv
    BY InvInit
  <2>2. Shown = <<>>
    BY <2>1, ShownFacts DEF Init, ShownWithinBudget
  <2>3. QED
    BY <2>2 DEF Stream!Init, Init, Shown
<1>2. IInv /\ IInv' /\ [Next]_vars => [Stream!Next]_Stream!stream
  BY StreamStep
<1>3. QED
  BY <1>1, <1>2, Invariance, PTL DEF Spec, ImplementsStream, Stream!Spec
=============================================================================
