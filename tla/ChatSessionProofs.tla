-------------------------- MODULE ChatSessionProofs --------------------------
(***************************************************************************)
(* Proofs about ChatSession for every number of drafts, every token        *)
(* budget, every size of the state and any number of lines.                *)
(*                                                                         *)
(* What the REPL believes was consumed is, at every point of a turn, a     *)
(* known prefix of the rendered conversation, the reply and at most one    *)
(* stop token (ConsumedIsConversation), and it is true of the state except *)
(* between a poisoned turn and the next restart (StateIsConsumed).         *)
(***************************************************************************)
EXTENDS ChatSession, DataLemmas, TLAPS

Tokens == Emitted \cup {"u", "reworded"}

InTurn == phase \in {"prefill", "turn", "step", "end"}

\* A turn answers a user message; at the prompt every message has its reply.
MessagesAlternate ==
  /\ messages \in Seq(Seq(Tokens))
  /\ InTurn => Len(messages) % 2 = 1
  /\ ~InTurn => Len(messages) % 2 = 0

\* What a turn may still generate fits the state.
TurnFits ==
  /\ InTurn => Len(ids) + MaxTokens + k + 2 <= MaxPos
  /\ phase = "turn" => generated = <<>> \/ Len(generated) < MaxTokens
  /\ phase = "step" => Len(generated) > 0 /\ Len(generated) < MaxTokens

\* The reply and the stop token e that may have been consumed after it.
Said(e) == (ids \o generated) \o <<e>>

ConsumedIsConversation ==
  /\ phase = "prefill" => Len(consumed) < Len(ids) /\ consumed = Upto(ids, Len(consumed))
  /\ phase = "turn" => consumed = ids \o generated
  /\ phase = "step" => Append(consumed, pending) = ids \o generated
  /\ phase \in {"end", "prompt", "closed"} /\ consumed # <<>> =>
       \E e \in Stop, n \in 0 .. Len(ids) + Len(generated) + 1 : consumed = Upto(Said(e), n)

StateIsConsumed ==
  /\ phase \in {"turn", "step"} => ~poisoned
  /\ ~stale /\ ~(phase = "end" /\ poisoned) => ctx = consumed

\* An interrupt that the turn has seen, or will see, was raised since it began.
InterruptIsOwn == (InTurn /\ INTERRUPT => hit) /\ OwnInterruptOnly

\* The inductive invariant of the session.
IInv ==
  /\ TypeOK
  /\ MessagesAlternate
  /\ TurnFits
  /\ ReplyWithinBudget
  /\ ConsumedIsConversation
  /\ StateIsConsumed
  /\ InterruptIsOwn

-----------------------------------------------------------------------------
\* What the invariant says of the types, in the form the steps use it.
LEMMA Facts ==
  ASSUME TypeOK
  PROVE  /\ ctx \in Seq(Tokens) /\ consumed \in Seq(Tokens) /\ ids \in Seq(Tokens)
         /\ generated \in Seq(Words) /\ generated \in Seq(Tokens)
         /\ pending \in Emitted /\ pending \in Tokens /\ "eos" \in Stop /\ "eos" \in Tokens
         /\ k \in Nat /\ MaxTokens \in Nat /\ MaxPos \in Nat /\ lines \in Nat
         /\ Words \subseteq Tokens /\ Stop \subseteq Tokens
<1>1. Words \subseteq Tokens /\ Stop \subseteq Tokens /\ Emitted \subseteq Tokens
  BY DEF Tokens, Emitted
<1>2. ctx \in Seq(Tokens) /\ consumed \in Seq(Tokens) /\ ids \in Seq(Tokens)
  BY DEF TypeOK, Tokens
<1>3. generated \in Seq(Words) /\ pending \in Emitted /\ k \in SpecKs /\ lines \in 0 .. MaxLines
  BY DEF TypeOK
<1>4. generated \in Seq(Tokens)
  BY <1>1, <1>3, SeqMonotonic
<1>5. QED
  BY <1>1, <1>2, <1>3, <1>4, ChatAssumption

\* Being consumed is about the prefix when the stop token is not reached.
LEMMA SaidPrefix ==
  ASSUME NEW s \in Seq(Tokens), NEW e \in Tokens, NEW n \in 0 .. Len(s)
  PROVE  Upto(s \o <<e>>, n) = Upto(s, n)
<1>1. <<e>> \in Seq(Tokens)
  OBVIOUS
<1>2. QED
  BY <1>1, PrefixOfConcat DEF Upto

\* All that was said is consumed, no stop token after it.
LEMMA AllConsumed ==
  ASSUME NEW s \in Seq(Tokens), NEW g \in Seq(Tokens), "eos" \in Stop
  PROVE  \E e \in Stop, n \in 0 .. Len(s) + Len(g) + 1 : s \o g = Upto((s \o g) \o <<e>>, n)
<1>1. s \o g \in Seq(Tokens) /\ Len(s \o g) = Len(s) + Len(g) /\ Len(s) + Len(g) \in 0 .. Len(s) + Len(g) + 1
  OBVIOUS
<1>2. "eos" \in Tokens
  BY DEF Tokens, Emitted
<1>3. Upto((s \o g) \o <<"eos">>, Len(s) + Len(g)) = Upto(s \o g, Len(s) + Len(g))
  <2>1. Len(s) + Len(g) \in 0 .. Len(s \o g)
    BY <1>1
  <2>2. QED
    BY <1>1, <1>2, <2>1, SaidPrefix
<1>4. Upto(s \o g, Len(s) + Len(g)) = s \o g
  BY <1>1, SubSeqFull DEF Upto
<1>5. QED
  BY <1>1, <1>3, <1>4

LEMMA InvInit == Init => IInv
<1> SUFFICES ASSUME Init PROVE IInv
  OBVIOUS
<1> USE DEF Init
<1>1. TypeOK
  <2>1. <<>> \in Seq(Words) /\ <<>> \in Seq(Emitted \cup {"u", "reworded"})
    BY EmptySeq
  <2>2. "eos" \in Emitted /\ k \in SpecKs /\ 0 \in 0 .. MaxLines
    BY ChatAssumption DEF Emitted
  <2>3. Len(messages) = 0 /\ \A i : i \notin 1 .. 0
    OBVIOUS
  <2>4. QED
    BY <2>1, <2>2, <2>3 DEF TypeOK
<1>2. MessagesAlternate
  <2>1. <<>> \in Seq(Seq(Tokens)) /\ Len(<<>>) = 0 /\ 0 % 2 = 0
    BY EmptySeq
  <2>2. QED
    BY <2>1 DEF MessagesAlternate, InTurn
<1>3. TurnFits /\ ReplyWithinBudget
  BY ChatAssumption DEF TurnFits, ReplyWithinBudget, InTurn
<1>4. ConsumedIsConversation /\ StateIsConsumed /\ InterruptIsOwn
  BY DEF ConsumedIsConversation, StateIsConsumed, InterruptIsOwn, OwnInterruptOnly, InTurn
<1>5. QED
  BY <1>1, <1>2, <1>3, <1>4 DEF IInv

\* Steps that neither say nor consume anything.
LEMMA QuietStep ==
  ASSUME IInv, CtrlC \/ ReadInterrupted \/ Quit \/ Closed \/ UNCHANGED vars
  PROVE  IInv'
<1> USE DEF CtrlC, ReadInterrupted, Quit, Closed, vars, turnVars
<1>1. /\ k' = k /\ lines' = lines /\ messages' = messages /\ ctx' = ctx /\ consumed' = consumed
      /\ ids' = ids /\ generated' = generated /\ pending' = pending /\ poisoned' = poisoned
      /\ interrupted' = interrupted /\ stale' = stale
      /\ phase' = phase \/ (phase = "prompt" /\ phase' = "closed")
  BY DEF IInv
<1>2. TypeOK'
  <2>1. INTERRUPT' \in BOOLEAN /\ hit' \in BOOLEAN /\ phase' \in {"prompt", "prefill", "turn", "step", "end", "closed"}
    BY DEF IInv, TypeOK
  <2>2. QED
    BY <1>1, <2>1 DEF IInv, TypeOK
<1>3. MessagesAlternate'
  BY <1>1 DEF IInv, MessagesAlternate, InTurn
<1>4. TurnFits' /\ ReplyWithinBudget'
  BY <1>1 DEF IInv, TurnFits, ReplyWithinBudget, InTurn
<1>5. ConsumedIsConversation' /\ StateIsConsumed'
  BY <1>1 DEF IInv, ConsumedIsConversation, StateIsConsumed, Said, Upto
<1>6. InterruptIsOwn'
  BY <1>1 DEF IInv, InterruptIsOwn, OwnInterruptOnly, InTurn, TypeOK
<1>7. QED
  BY <1>2, <1>3, <1>4, <1>5, <1>6 DEF IInv

LEMMA ResetStep == ASSUME IInv, Reset PROVE IInv'
<1> USE DEF Reset, turnVars
<1>1. TypeOK'
  <2>1. <<>> \in Seq(Emitted \cup {"u", "reworded"}) /\ Len(messages') = 0 /\ \A i : i \notin 1 .. 0
    BY EmptySeq
  <2>2. QED
    BY <2>1 DEF IInv, TypeOK
<1>2. MessagesAlternate'
  <2>1. <<>> \in Seq(Seq(Tokens)) /\ Len(<<>>) = 0 /\ 0 % 2 = 0
    BY EmptySeq
  <2>2. QED
    BY <2>1 DEF MessagesAlternate, InTurn
<1>3. TurnFits' /\ ReplyWithinBudget'
  BY DEF IInv, TurnFits, ReplyWithinBudget, InTurn
<1>4. ConsumedIsConversation' /\ StateIsConsumed' /\ InterruptIsOwn'
  BY DEF IInv, ConsumedIsConversation, StateIsConsumed, InterruptIsOwn, OwnInterruptOnly, InTurn
<1>5. QED
  BY <1>1, <1>2, <1>3, <1>4 DEF IInv

\* The conversation with one user message more.
LEMMA AskedFacts ==
  ASSUME IInv, phase = "prompt"
  PROVE  LET asked == Append(messages, <<"u">>) IN
         /\ asked \in Seq(Seq(Tokens)) /\ Len(asked) = Len(messages) + 1 /\ Len(asked) % 2 = 1
         /\ Upto(asked, Len(asked) - 1) = messages
         /\ \A i \in 1 .. Len(asked) : asked[i] = <<"u">> <=> i % 2 = 1
         /\ Rendered(messages) \in Seq(Tokens) /\ Rendered(asked) \in Seq(Tokens)
         /\ Rendered(asked) = Rendered(messages) \o <<"u">>
<1> DEFINE asked == Append(messages, <<"u">>)
<1>1. /\ messages \in Seq(Seq(Tokens)) /\ Len(messages) \in Nat /\ Len(messages) % 2 = 0
      /\ <<"u">> \in Seq(Tokens)
  BY DEF IInv, MessagesAlternate, InTurn, Tokens
<1>2. /\ asked \in Seq(Seq(Tokens)) /\ Len(asked) = Len(messages) + 1
      /\ \A i \in 1 .. Len(messages) : asked[i] = messages[i]
      /\ asked[Len(messages) + 1] = <<"u">>
  BY <1>1, AppendProperties
<1>3. asked = messages \o << <<"u">> >> /\ << <<"u">> >> \in Seq(Seq(Tokens))
  BY <1>1, AppendIsConcat
<1> HIDE DEF asked
<1>4. (Len(messages) + 1) % 2 = 1
  BY <1>1, Parity
<1>5. Upto(asked, Len(asked) - 1) = messages
  <2>1. Len(asked) - 1 = Len(messages)
    BY <1>1, <1>2
  <2>2. QED
    BY <1>1, <1>3, <2>1, PrefixIsFirst DEF Upto
<1>6. \A i \in 1 .. Len(asked) : asked[i] = <<"u">> <=> i % 2 = 1
  <2> SUFFICES ASSUME NEW i \in 1 .. Len(asked) PROVE asked[i] = <<"u">> <=> i % 2 = 1
    OBVIOUS
  <2>1. CASE i = Len(messages) + 1
    BY <1>2, <1>4, <2>1
  <2>2. CASE i # Len(messages) + 1
    <3>1. i \in 1 .. Len(messages)
      <4>1. Len(asked) = Len(messages) + 1 /\ Len(messages) \in Nat
        BY <1>1, <1>2
      <4>2. QED
        BY <4>1, <2>2
    <3>2. QED
      BY <1>2, <3>1 DEF IInv, TypeOK
  <2>3. QED
    BY <2>1, <2>2
<1>7. /\ Rendered(messages) \in Seq(Tokens) /\ Rendered(asked) \in Seq(Tokens)
      /\ Rendered(asked) = Rendered(messages) \o <<"u">>
  BY <1>1, <1>2, FlattenType, FlattenAppend DEF Rendered, asked
<1>8. QED
  BY <1>2, <1>4, <1>5, <1>6, <1>7 DEF asked

LEMMA RefuseLineStep == ASSUME IInv, RefuseLine PROVE IInv'
<1> USE DEF RefuseLine, turnVars
<1>1. messages' = messages
  BY AskedFacts
<1>2. lines' \in 0 .. MaxLines
  BY ChatAssumption DEF IInv, TypeOK
<1>3. TypeOK'
  BY <1>1, <1>2 DEF IInv, TypeOK
<1>4. MessagesAlternate' /\ TurnFits' /\ ReplyWithinBudget'
  BY <1>1 DEF IInv, MessagesAlternate, TurnFits, ReplyWithinBudget, InTurn
<1>5. ConsumedIsConversation' /\ StateIsConsumed' /\ InterruptIsOwn'
  BY DEF IInv, ConsumedIsConversation, StateIsConsumed, InterruptIsOwn, OwnInterruptOnly, InTurn,
         Said, Upto
<1>6. QED
  BY <1>3, <1>4, <1>5 DEF IInv

LEMMA TakeLineStep == ASSUME IInv, TakeLine PROVE IInv'
<1> DEFINE asked == Append(messages, <<"u">>)
           r == Rendered(asked)
<1>1. /\ phase = "prompt" /\ phase' = "prefill" /\ Fits(r) /\ messages' = asked /\ ids' = r
      /\ lines < MaxLines /\ lines' = lines + 1
      /\ INTERRUPT' = FALSE /\ hit' = FALSE
      /\ UNCHANGED <<k, generated, pending, poisoned, interrupted>>
  BY DEF TakeLine, ClearInterrupt, turnVars
<1>2. \/ ctx' = <<>> /\ consumed' = <<>> /\ stale' = FALSE
      \/ /\ consumed = <<>> \/ (Len(r) > Len(consumed) /\ IsPrefix(consumed, r))
         /\ ctx' = ctx /\ consumed' = consumed /\ stale' = stale
  BY DEF TakeLine, Restart
<1>3. /\ asked \in Seq(Seq(Tokens)) /\ Len(asked) = Len(messages) + 1 /\ Len(asked) % 2 = 1
      /\ \A i \in 1 .. Len(asked) : asked[i] = <<"u">> <=> i % 2 = 1
      /\ Rendered(messages) \in Seq(Tokens) /\ r \in Seq(Tokens)
      /\ r = Rendered(messages) \o <<"u">>
  BY <1>1, AskedFacts
<1> HIDE DEF r, asked
<1>4. TypeOK'
  <2>1. lines' \in 0 .. MaxLines
    BY <1>1, ChatAssumption DEF IInv, TypeOK
  <2>2. <<>> \in Seq(Tokens)
    BY EmptySeq
  <2>3. ctx' \in Seq(Tokens) /\ consumed' \in Seq(Tokens) /\ ids' \in Seq(Tokens)
    BY <1>1, <1>2, <1>3, <2>2 DEF IInv, TypeOK, Tokens
  <2>4. \A t \in {ctx', consumed', ids'} : t \in Seq(Emitted \cup {"u", "reworded"})
    BY <2>3 DEF Tokens
  <2>5. \A i \in 1 .. Len(messages') : messages'[i] = <<"u">> <=> i % 2 = 1
    BY <1>1, <1>3
  <2>6. {poisoned, interrupted, INTERRUPT, hit, stale}' \subseteq BOOLEAN
    BY <1>1, <1>2 DEF IInv, TypeOK
  <2>7. QED
    BY <1>1, <2>1, <2>4, <2>5, <2>6 DEF IInv, TypeOK
<1>5. MessagesAlternate'
  BY <1>1, <1>3 DEF MessagesAlternate, InTurn
<1>6. TurnFits' /\ ReplyWithinBudget'
  BY <1>1 DEF IInv, TurnFits, ReplyWithinBudget, InTurn, Fits
<1>7. ConsumedIsConversation'
  <2>1. Len(consumed') < Len(r) /\ consumed' = Upto(r, Len(consumed'))
    <3>1. Len(r) \in Nat /\ Len(r) > 0
      <4>1. <<"u">> \in Seq(Tokens) /\ Len(<<"u">>) = 1
        BY DEF Tokens
      <4>2. QED
        BY <1>3, <4>1, ConcatProperties, LenProperties
    <3>2. CASE consumed' = <<>>
      <4>1. Len(<<>>) = 0 /\ Upto(r, 0) = <<>>
        BY SubSeqEmpty DEF Upto
      <4>2. QED
        BY <3>1, <3>2, <4>1
    <3>3. CASE consumed' = consumed /\ Len(r) > Len(consumed) /\ IsPrefix(consumed, r)
      <4>1. consumed \in Seq(Tokens) /\ Len(consumed) \in Nat
        BY Facts, LenProperties DEF IInv
      <4>2. SubSeq(consumed, 1, Len(consumed)) = consumed
        BY <4>1, SubSeqFull
      <4>3. SubSeq(consumed, 1, Len(consumed)) = SubSeq(r, 1, Len(consumed))
        BY <3>3 DEF IsPrefix
      <4>4. QED
        BY <3>1, <3>3, <4>1, <4>2, <4>3 DEF Upto
    <3>4. QED
      BY <1>2, <3>2, <3>3
  <2>2. QED
    BY <1>1, <2>1 DEF ConsumedIsConversation, Upto
<1>8. StateIsConsumed' /\ InterruptIsOwn'
  BY <1>1, <1>2 DEF IInv, StateIsConsumed, InterruptIsOwn, OwnInterruptOnly, InTurn
<1>9. QED
  BY <1>4, <1>5, <1>6, <1>7, <1>8 DEF IInv

LEMMA PrefillStep == ASSUME IInv, Prefill PROVE IInv'
<1> DEFINE suffix == SubSeq(ids, Len(consumed) + 1, Len(ids))
<1>1. /\ phase = "prefill" /\ phase' = "turn" /\ ctx' = ctx \o suffix /\ consumed' = consumed \o suffix
      /\ pending' \in Emitted /\ generated' = <<>> /\ poisoned' = FALSE /\ interrupted' = FALSE
      /\ UNCHANGED <<k, lines, messages, ids, INTERRUPT, hit, stale>>
  BY DEF Prefill
<1>2. ctx \in Seq(Tokens) /\ consumed \in Seq(Tokens) /\ ids \in Seq(Tokens)
  BY Facts DEF IInv
<1>3. suffix \in Seq(Tokens) /\ consumed' = ids
  <2>1. Len(consumed) < Len(ids) /\ consumed = SubSeq(ids, 1, Len(consumed))
    BY <1>1 DEF IInv, ConsumedIsConversation, Upto
  <2>2. Len(consumed) \in 0 .. Len(ids)
    BY <1>2, <2>1, LenProperties
  <2>3. suffix \in Seq(Tokens) /\ SubSeq(ids, 1, Len(consumed)) \o suffix = ids
    BY <1>2, <2>2, PrefixAndRest
  <2>4. QED
    BY <1>1, <2>1, <2>3
<1> HIDE DEF suffix
<1>4. TypeOK'
  <2>1. ctx' \in Seq(Tokens) /\ consumed' \in Seq(Tokens) /\ ids' \in Seq(Tokens)
    BY <1>1, <1>2, <1>3, ConcatProperties
  <2>2. generated' \in Seq(Words)
    BY <1>1, EmptySeq
  <2>3. \A t \in {ctx', consumed', ids'} : t \in Seq(Emitted \cup {"u", "reworded"})
    BY <2>1 DEF Tokens
  <2>4. {poisoned, interrupted, INTERRUPT, hit, stale}' \subseteq BOOLEAN
    BY <1>1 DEF IInv, TypeOK
  <2>5. QED
    BY <1>1, <2>2, <2>3, <2>4 DEF IInv, TypeOK
<1>5. MessagesAlternate'
  BY <1>1 DEF IInv, MessagesAlternate, InTurn
<1>6. TurnFits' /\ ReplyWithinBudget'
  BY <1>1, EmptySeq, Facts DEF IInv, TurnFits, ReplyWithinBudget, InTurn
<1>7. ConsumedIsConversation'
  <2>1. ids \o <<>> = ids
    BY <1>2, ConcatEmptySeq
  <2>2. QED
    BY <1>1, <1>3, <2>1 DEF ConsumedIsConversation
<1>8. StateIsConsumed' /\ InterruptIsOwn'
  BY <1>1 DEF IInv, StateIsConsumed, InterruptIsOwn, OwnInterruptOnly, InTurn
<1>9. QED
  BY <1>4, <1>5, <1>6, <1>7, <1>8 DEF IInv

LEMMA StopPendingStep == ASSUME IInv, StopPending PROVE IInv'
<1> USE DEF StopPending, turnVars
<1>1. TypeOK'
  BY DEF IInv, TypeOK
<1>2. MessagesAlternate'
  BY DEF IInv, MessagesAlternate, InTurn
<1>3. TurnFits' /\ ReplyWithinBudget'
  BY DEF IInv, TurnFits, ReplyWithinBudget, InTurn
<1>4. ConsumedIsConversation'
  <2>1. consumed = ids \o generated
    BY DEF IInv, ConsumedIsConversation
  <2>2. \E e \in Stop, n \in 0 .. Len(ids) + Len(generated) + 1 : consumed = Upto(Said(e), n)
    <3>1. ids \in Seq(Tokens) /\ generated \in Seq(Tokens) /\ "eos" \in Stop
      BY Facts DEF IInv
    <3>2. \E e \in Stop, n \in 0 .. Len(ids) + Len(generated) + 1 :
            ids \o generated = Upto((ids \o generated) \o <<e>>, n)
      BY <3>1, AllConsumed
    <3>3. QED
      BY <2>1, <3>2 DEF Said
  <2>3. QED
    BY <2>2 DEF ConsumedIsConversation, Said, Upto
<1>5. StateIsConsumed' /\ InterruptIsOwn'
  BY DEF IInv, StateIsConsumed, InterruptIsOwn, OwnInterruptOnly, InTurn
<1>6. QED
  BY <1>1, <1>2, <1>3, <1>4, <1>5 DEF IInv

LEMMA PushPendingStep == ASSUME IInv, PushPending PROVE IInv'
<1>1. /\ phase = "turn" /\ pending \notin Stop /\ generated' = Append(generated, pending)
      /\ UNCHANGED <<k, lines, messages, ctx, consumed, ids, pending, poisoned, hit, stale>>
      /\ \/ /\ Len(generated') >= MaxTokens /\ phase' = "end" /\ UNCHANGED <<interrupted, INTERRUPT>>
         \/ /\ ~(Len(generated') >= MaxTokens)
            /\ INTERRUPT' = FALSE /\ interrupted' = INTERRUPT /\ phase' \in {"end", "step"}
  BY DEF PushPending
<1>2. /\ ctx \in Seq(Tokens) /\ consumed \in Seq(Tokens) /\ ids \in Seq(Tokens)
      /\ generated \in Seq(Tokens) /\ generated \in Seq(Words) /\ pending \in Tokens
      /\ "eos" \in Stop /\ "eos" \in Tokens /\ MaxTokens \in Nat
  BY Facts DEF IInv
<1>3. pending \in Words
  BY <1>1 DEF IInv, TypeOK, Emitted
<1>4. /\ generated' \in Seq(Words) /\ Len(generated') = Len(generated) + 1 /\ Len(generated) \in Nat
      /\ generated' \in Seq(Tokens)
  BY <1>1, <1>2, <1>3, AppendProperties
<1>5. TypeOK'
  <2>1. {poisoned, interrupted, INTERRUPT, hit, stale}' \subseteq BOOLEAN /\ phase' \in {"end", "step"}
    BY <1>1 DEF IInv, TypeOK
  <2>2. QED
    BY <1>1, <1>4, <2>1 DEF IInv, TypeOK
<1>6. MessagesAlternate'
  BY <1>1 DEF IInv, MessagesAlternate, InTurn
<1>7. generated = <<>> \/ Len(generated) < MaxTokens
  BY <1>1 DEF IInv, TurnFits
<1>8. Len(generated') <= IF MaxTokens = 0 THEN 1 ELSE MaxTokens
  <2>1. generated = <<>> => Len(generated) = 0
    OBVIOUS
  <2>2. QED
    BY <1>2, <1>4, <1>7, <2>1
<1>9. TurnFits' /\ ReplyWithinBudget'
  <2>1. phase' = "step" => Len(generated') < MaxTokens /\ Len(generated') > 0
    BY <1>1, <1>2, <1>4
  <2>2. Len(ids') + MaxTokens + k' + 2 <= MaxPos
    BY <1>1 DEF IInv, TurnFits, InTurn
  <2>3. phase' # "turn"
    BY <1>1
  <2>4. QED
    BY <1>8, <2>1, <2>2, <2>3 DEF TurnFits, ReplyWithinBudget
<1>10. ConsumedIsConversation'
  <2>1. consumed = ids \o generated
    BY <1>1 DEF IInv, ConsumedIsConversation
  <2>2. Append(consumed, pending) = ids \o generated'
    <3>1. Append(ids \o generated, pending) = ids \o Append(generated, pending)
      <4>1. ids \in Seq(Tokens) /\ generated \in Seq(Tokens) /\ pending \in Tokens
        BY <1>2
      <4>2. QED
        BY <4>1
    <3>2. QED
      BY <1>1, <2>1, <3>1
  <2>3. \E e \in Stop, n \in 0 .. Len(ids) + Len(generated') + 1 :
          consumed = Upto((ids \o generated') \o <<e>>, n)
    <3> DEFINE n == Len(consumed)
               all == ids \o generated'
    <3>1. /\ all \in Seq(Tokens) /\ Len(all) = Len(ids) + Len(generated')
          /\ n \in 0 .. Len(all) /\ n \in 0 .. Len(ids) + Len(generated') + 1
      BY <1>2, <1>4, <2>1
    <3>2. all = consumed \o <<pending>> /\ <<pending>> \in Seq(Tokens)
      BY <1>2, <2>2
    <3>3. Upto(all, n) = consumed
      BY <1>2, <3>2, PrefixIsFirst DEF Upto
    <3> HIDE DEF all, n
    <3>4. Upto(all \o <<"eos">>, n) = Upto(all, n)
      BY <1>2, <3>1, SaidPrefix
    <3>5. QED
      BY <1>2, <3>1, <3>3, <3>4 DEF all
  <2>4. phase' = "step" => Append(consumed', pending') = ids' \o generated'
    BY <1>1, <2>2
  <2>5. \E e \in Stop, n \in 0 .. Len(ids') + Len(generated') + 1 :
          consumed' = Upto((ids' \o generated') \o <<e>>, n)
    BY <1>1, <2>3
  <2>6. phase' \in {"end", "step"}
    BY <1>1
  <2>7. QED
    BY <2>4, <2>5, <2>6 DEF ConsumedIsConversation, Said, Upto
<1>11. StateIsConsumed' /\ InterruptIsOwn'
  BY <1>1 DEF IInv, StateIsConsumed, InterruptIsOwn, OwnInterruptOnly, InTurn
<1>12. QED
  BY <1>5, <1>6, <1>9, <1>10, <1>11 DEF IInv

LEMMA ForwardTokenStep == ASSUME IInv, ForwardToken PROVE IInv'
<1>1. /\ phase = "step" /\ phase' = "turn" /\ pending' \in Emitted
      /\ ctx' = Append(ctx, pending) /\ consumed' = Append(consumed, pending)
      /\ UNCHANGED <<k, lines, messages, ids, generated, poisoned, interrupted, INTERRUPT, hit, stale>>
  BY DEF ForwardToken
<1>2. ctx \in Seq(Tokens) /\ consumed \in Seq(Tokens) /\ ids \in Seq(Tokens) /\ pending \in Tokens
  BY Facts DEF IInv
<1>3. TypeOK'
  <2>1. ctx' \in Seq(Tokens) /\ consumed' \in Seq(Tokens) /\ ids' \in Seq(Tokens)
    BY <1>1, <1>2, AppendProperties
  <2>2. \A t \in {ctx', consumed', ids'} : t \in Seq(Emitted \cup {"u", "reworded"})
    BY <2>1 DEF Tokens
  <2>3. {poisoned, interrupted, INTERRUPT, hit, stale}' \subseteq BOOLEAN
    BY <1>1 DEF IInv, TypeOK
  <2>4. QED
    BY <1>1, <2>2, <2>3 DEF IInv, TypeOK
<1>4. MessagesAlternate'
  BY <1>1 DEF IInv, MessagesAlternate, InTurn
<1>5. TurnFits' /\ ReplyWithinBudget'
  BY <1>1 DEF IInv, TurnFits, ReplyWithinBudget, InTurn
<1>6. ConsumedIsConversation'
  BY <1>1 DEF IInv, ConsumedIsConversation
<1>7. StateIsConsumed' /\ InterruptIsOwn'
  BY <1>1 DEF IInv, StateIsConsumed, InterruptIsOwn, OwnInterruptOnly, InTurn
<1>8. QED
  BY <1>3, <1>4, <1>5, <1>6, <1>7 DEF IInv

LEMMA EndTurnStep == ASSUME IInv, EndTurn PROVE IInv'
<1>1. PICK body \in {generated, <<"reworded">>} : messages' = Append(messages, Append(body, "eos"))
  BY DEF EndTurn
<1>2. /\ phase = "end" /\ phase' = "prompt"
      /\ consumed' = IF poisoned THEN <<>> ELSE consumed
      /\ stale' = (stale \/ poisoned)
      /\ UNCHANGED <<k, lines, ctx, ids, generated, pending, poisoned, interrupted, INTERRUPT, hit>>
  BY DEF EndTurn, turnVars
<1> DEFINE reply == Append(body, "eos")
<1>3. reply \in Seq(Tokens) /\ Len(reply) \in Nat \ {0} /\ reply[Len(reply)] = "eos"
  <2>1. generated \in Seq(Tokens) /\ "eos" \in Tokens /\ <<"reworded">> \in Seq(Tokens)
    BY Facts DEF IInv, Tokens
  <2>2. body \in Seq(Tokens)
    BY <2>1
  <2>3. QED
    BY <2>1, <2>2, AppendProperties
<1> HIDE DEF reply
<1>4. reply # <<"u">>
  BY <1>3
<1>5. /\ messages \in Seq(Seq(Tokens)) /\ Len(messages) \in Nat /\ Len(messages) % 2 = 1
      /\ messages' = Append(messages, reply)
  BY <1>1, <1>2 DEF IInv, MessagesAlternate, InTurn, reply
<1>6. /\ messages' \in Seq(Seq(Tokens)) /\ Len(messages') = Len(messages) + 1
      /\ \A i \in 1 .. Len(messages) : messages'[i] = messages[i]
      /\ messages'[Len(messages) + 1] = reply
  BY <1>3, <1>5, AppendProperties
<1>7. Len(messages') % 2 = 0
  BY <1>5, <1>6, Parity
<1>8. \A i \in 1 .. Len(messages') : messages'[i] = <<"u">> <=> i % 2 = 1
  <2> SUFFICES ASSUME NEW i \in 1 .. Len(messages') PROVE messages'[i] = <<"u">> <=> i % 2 = 1
    OBVIOUS
  <2>1. Len(messages') = Len(messages) + 1 /\ Len(messages) \in Nat
    BY <1>5, <1>6
  <2>2. CASE i = Len(messages) + 1
    <3>1. i % 2 = 0
      BY <1>7, <2>1, <2>2
    <3>2. ~(i % 2 = 1)
      BY <3>1
    <3>3. messages'[i] = reply
      BY <1>6, <2>2
    <3>4. QED
      BY <1>4, <3>2, <3>3
  <2>3. CASE i # Len(messages) + 1
    <3>1. i \in 1 .. Len(messages)
      BY <2>1, <2>3
    <3>2. messages[i] = <<"u">> <=> i % 2 = 1
      BY <3>1 DEF IInv, TypeOK
    <3>3. QED
      BY <1>6, <3>1, <3>2
  <2>4. QED
    BY <2>2, <2>3
<1>9. TypeOK'
  <2>1. consumed' \in Seq(Tokens) /\ ctx' \in Seq(Tokens) /\ ids' \in Seq(Tokens)
    BY <1>2, EmptySeq, Facts DEF IInv
  <2>2. \A t \in {ctx', consumed', ids'} : t \in Seq(Emitted \cup {"u", "reworded"})
    BY <2>1 DEF Tokens
  <2>3. {poisoned, interrupted, INTERRUPT, hit, stale}' \subseteq BOOLEAN
    BY <1>2 DEF IInv, TypeOK
  <2>4. QED
    BY <1>2, <1>8, <2>2, <2>3 DEF IInv, TypeOK
<1>10. MessagesAlternate'
  BY <1>2, <1>6, <1>7 DEF MessagesAlternate, InTurn
<1>11. TurnFits' /\ ReplyWithinBudget'
  BY <1>2 DEF IInv, TurnFits, ReplyWithinBudget, InTurn
<1>12. ConsumedIsConversation'
  BY <1>2 DEF IInv, ConsumedIsConversation, Said, Upto
<1>13. StateIsConsumed' /\ InterruptIsOwn'
  BY <1>2 DEF IInv, StateIsConsumed, InterruptIsOwn, OwnInterruptOnly, InTurn
<1>14. QED
  BY <1>9, <1>10, <1>11, <1>12, <1>13 DEF IInv

\* The drafts of a round that the caller goes through: what it shows are words, and what
\* it consumes is what it shows and at most one stop token.
LEMMA DraftFacts ==
  ASSUME NEW m \in Nat, NEW d \in [1 .. m -> Emitted], NEW g \in Nat, g + 0 = Len(generated)
  PROVE  /\ d \in Seq(Emitted) /\ d \in Seq(Tokens) /\ Len(d) = m
         /\ \A i \in 1 .. m : ~Ends(d, i) => d[i] \in Words /\ g + i < MaxTokens
<1>1. d \in Seq(Emitted) /\ Len(d) = m
  BY SeqDef, LenProperties
<1>2. d \in Seq(Tokens)
  BY <1>1, SeqMonotonic DEF Tokens
<1>3. \A i \in 1 .. m : ~Ends(d, i) => d[i] \in Words /\ g + i < MaxTokens
  BY ChatAssumption DEF Ends, Emitted
<1>4. QED
  BY <1>1, <1>2, <1>3

\* Every accepted draft is emitted.
LEMMA RoundGoesOn ==
  ASSUME IInv, phase = "step", NEW m \in 0 .. k, NEW x \in Emitted, NEW d \in [1 .. m -> Emitted],
         \A i \in 1 .. m : ~Ends(d, i),
         ctx' = Append(ctx, pending) \o d,
         consumed' = Append(consumed, pending) \o d, generated' = generated \o d,
         pending' = x, phase' = "turn", UNCHANGED poisoned,
         UNCHANGED <<k, lines, messages, ids, interrupted, INTERRUPT, hit, stale>>
  PROVE  IInv'
<1>1. /\ ctx \in Seq(Tokens) /\ consumed \in Seq(Tokens) /\ ids \in Seq(Tokens) /\ pending \in Tokens
      /\ generated \in Seq(Words) /\ generated \in Seq(Tokens) /\ MaxTokens \in Nat /\ k \in Nat
  BY Facts DEF IInv
<1>2. m \in Nat /\ Len(generated) \in Nat
  BY <1>1, LenProperties
<1>3. d \in Seq(Tokens) /\ Len(d) = m /\ d \in Seq(Emitted)
      /\ \A i \in 1 .. m : d[i] \in Words /\ Len(generated) + i < MaxTokens
  <2>1. Len(generated) + 0 = Len(generated)
    BY <1>2
  <2>2. QED
    BY <1>2, <2>1, DraftFacts
<1>4. d \in Seq(Words)
  <2>1. d \in [1 .. m -> Words]
    BY <1>3
  <2>2. QED
    BY <1>2, <2>1, SeqDef
<1>5. generated' \in Seq(Words) /\ Len(generated') = Len(generated) + m
  BY <1>1, <1>3, <1>4, ConcatProperties
<1>6. Len(generated) < MaxTokens /\ Append(consumed, pending) = ids \o generated
  BY DEF IInv, TurnFits, ConsumedIsConversation
<1>7. Len(generated') < MaxTokens
  <2>1. CASE m = 0
    BY <1>2, <1>5, <1>6, <2>1
  <2>2. CASE m # 0
    <3>1. m \in 1 .. m
      BY <1>2, <2>2
    <3>2. QED
      BY <1>3, <1>5, <3>1
  <2>3. QED
    BY <2>1, <2>2
<1>8. consumed' = ids \o generated'
  <2>1. (ids \o generated) \o d = ids \o (generated \o d)
    BY <1>1, <1>3, SMTT(30)
  <2>2. QED
    BY <1>6, <2>1
<1>9. TypeOK'
  <2>1. Append(ctx, pending) \in Seq(Tokens) /\ Append(consumed, pending) \in Seq(Tokens)
    BY <1>1, AppendProperties
  <2>2. ctx' \in Seq(Tokens) /\ consumed' \in Seq(Tokens) /\ ids' \in Seq(Tokens)
    BY <1>1, <1>3, <2>1, ConcatProperties
  <2>3. \A t \in {ctx', consumed', ids'} : t \in Seq(Emitted \cup {"u", "reworded"})
    BY <2>2 DEF Tokens
  <2>4. {poisoned, interrupted, INTERRUPT, hit, stale}' \subseteq BOOLEAN
    BY DEF IInv, TypeOK
  <2>5. QED
    BY <1>5, <2>3, <2>4 DEF IInv, TypeOK
<1>10. MessagesAlternate'
  BY DEF IInv, MessagesAlternate, InTurn
<1>11. TurnFits' /\ ReplyWithinBudget'
  BY <1>1, <1>2, <1>5, <1>7 DEF IInv, TurnFits, ReplyWithinBudget, InTurn
<1>12. ConsumedIsConversation'
  BY <1>8 DEF ConsumedIsConversation
<1>13. StateIsConsumed' /\ InterruptIsOwn'
  BY DEF IInv, StateIsConsumed, InterruptIsOwn, OwnInterruptOnly, InTurn
<1>14. QED
  BY <1>9, <1>10, <1>11, <1>12, <1>13 DEF IInv

\* Draft i ends the turn.
LEMMA RoundEnds ==
  ASSUME IInv, phase = "step", NEW m \in 0 .. k, NEW d \in [1 .. m -> Emitted], NEW i \in 1 .. m,
         Ends(d, i), \A j \in 1 .. i - 1 : ~Ends(d, j),
         ctx' = Append(ctx, pending) \o d,
         consumed' = Append(consumed, pending) \o Upto(d, i),
         generated' = generated \o Shown(d, i),
         poisoned' = (i < m), pending' = d[i], phase' = "end",
         UNCHANGED <<k, lines, messages, ids, interrupted, INTERRUPT, hit, stale>>
  PROVE  IInv'
<1>1. /\ ctx \in Seq(Tokens) /\ consumed \in Seq(Tokens) /\ ids \in Seq(Tokens) /\ pending \in Tokens
      /\ generated \in Seq(Words) /\ generated \in Seq(Tokens) /\ MaxTokens \in Nat /\ k \in Nat
      /\ "eos" \in Stop /\ Stop \subseteq Tokens
  BY Facts DEF IInv
<1>2. m \in Nat /\ Len(generated) \in Nat /\ i \in Nat /\ i - 1 \in 0 .. m /\ i \in 0 .. m
  BY <1>1, LenProperties
<1>3. /\ d \in Seq(Tokens) /\ Len(d) = m /\ d \in Seq(Emitted)
      /\ \A j \in 1 .. i - 1 : d[j] \in Words /\ Len(generated) + j < MaxTokens
  <2>1. Len(generated) + 0 = Len(generated)
    BY <1>2
  <2>2. \A j \in 1 .. i - 1 : j \in 1 .. m
    BY <1>2
  <2>3. QED
    BY <1>2, <2>1, <2>2, DraftFacts
<1>4. Len(generated) < MaxTokens /\ Append(consumed, pending) = ids \o generated
  BY DEF IInv, TurnFits, ConsumedIsConversation
<1>5. Len(generated) + i <= MaxTokens
  <2>1. CASE i = 1
    BY <1>1, <1>2, <1>4, <2>1
  <2>2. CASE i # 1
    <3>1. i - 1 \in 1 .. i - 1
      BY <1>2, <2>2
    <3>2. Len(generated) + (i - 1) < MaxTokens
      BY <1>3, <3>1
    <3>3. QED
      BY <1>1, <1>2, <3>2
  <2>3. QED
    BY <2>1, <2>2
<1>6. /\ Upto(d, i) \in Seq(Emitted) /\ Upto(d, i) \in Seq(Tokens) /\ Len(Upto(d, i)) = i
      /\ \A j \in 1 .. i : Upto(d, i)[j] = d[j]
  BY <1>2, <1>3, PrefixFacts DEF Upto
<1>7. /\ Upto(d, i - 1) \in Seq(Tokens) /\ Len(Upto(d, i - 1)) = i - 1
      /\ \A j \in 1 .. i - 1 : Upto(d, i - 1)[j] = d[j]
  BY <1>2, <1>3, PrefixFacts DEF Upto
<1>8. Upto(d, i) = Upto(d, i - 1) \o <<d[i]>>
  <2>1. 1 \in 1 .. Len(d) /\ i \in 1 .. Len(d)
    BY <1>2, <1>3
  <2>2. QED
    BY <1>3, <2>1, SubSeqRecursiveSecond DEF Upto
<1>9. /\ Shown(d, i) \in Seq(Words) /\ Shown(d, i) \in Seq(Tokens)
      /\ Len(Shown(d, i)) <= i
  <2>1. CASE d[i] \in Stop
    <3>1. Upto(d, i - 1) \in [1 .. i - 1 -> Words]
      <4>1. DOMAIN Upto(d, i - 1) = 1 .. i - 1 /\ Upto(d, i - 1) = [j \in 1 .. i - 1 |-> Upto(d, i - 1)[j]]
        BY <1>7, LenProperties
      <4>2. \A j \in 1 .. i - 1 : Upto(d, i - 1)[j] \in Words
        BY <1>3, <1>7
      <4>3. QED
        BY <4>1, <4>2
    <3>2. Upto(d, i - 1) \in Seq(Words)
      BY <1>2, <3>1, SeqDef
    <3>3. QED
      BY <1>2, <1>7, <2>1, <3>2 DEF Shown
  <2>2. CASE d[i] \notin Stop
    <3>1. \A j \in 1 .. i : d[j] \in Words
      <4>1. \A j \in 1 .. i : j = i \/ j \in 1 .. i - 1
        BY <1>2
      <4>2. d[i] \in Words
        BY <2>2 DEF Emitted
      <4>3. QED
        BY <1>3, <4>1, <4>2
    <3>2. Upto(d, i) \in [1 .. i -> Words]
      <4>1. DOMAIN Upto(d, i) = 1 .. i /\ Upto(d, i) = [j \in 1 .. i |-> Upto(d, i)[j]]
        BY <1>6, LenProperties
      <4>2. \A j \in 1 .. i : Upto(d, i)[j] \in Words
        BY <1>6, <3>1
      <4>3. QED
        BY <4>1, <4>2
    <3>3. Upto(d, i) \in Seq(Words)
      BY <1>2, <3>2, SeqDef
    <3>4. QED
      BY <1>2, <1>6, <2>2, <3>3 DEF Shown
  <2>3. QED
    BY <2>1, <2>2
<1>10. /\ generated' \in Seq(Words) /\ generated' \in Seq(Tokens)
       /\ Len(generated') = Len(generated) + Len(Shown(d, i)) /\ Len(Shown(d, i)) \in Nat
  BY <1>1, <1>9, ConcatProperties, LenProperties
<1>11. TypeOK'
  <2>1. Append(ctx, pending) \in Seq(Tokens) /\ Append(consumed, pending) \in Seq(Tokens)
    BY <1>1, AppendProperties
  <2>2. ctx' \in Seq(Tokens) /\ consumed' \in Seq(Tokens) /\ ids' \in Seq(Tokens)
    BY <1>1, <1>3, <1>6, <2>1, ConcatProperties
  <2>3. \A t \in {ctx', consumed', ids'} : t \in Seq(Emitted \cup {"u", "reworded"})
    BY <2>2 DEF Tokens
  <2>4. {poisoned, interrupted, INTERRUPT, hit, stale}' \subseteq BOOLEAN
    BY DEF IInv, TypeOK
  <2>5. pending' \in Emitted
    OBVIOUS
  <2>6. QED
    BY <1>10, <2>3, <2>4, <2>5 DEF IInv, TypeOK
<1>12. MessagesAlternate'
  BY DEF IInv, MessagesAlternate, InTurn
<1>13. TurnFits' /\ ReplyWithinBudget'
  <2>1. Len(generated') <= MaxTokens /\ MaxTokens # 0
    BY <1>1, <1>2, <1>5, <1>9, <1>10
  <2>2. QED
    BY <2>1 DEF IInv, TurnFits, ReplyWithinBudget, InTurn
<1>14. \E e \in Stop, n \in 0 .. Len(ids) + Len(generated') + 1 :
         consumed' = Upto((ids \o generated') \o <<e>>, n)
  <2>1. consumed' = (ids \o generated) \o Upto(d, i)
    BY <1>4
  <2>2. CASE d[i] \in Stop
    <3> DEFINE all == (ids \o generated') \o <<d[i]>>
    <3>1. generated' = generated \o Upto(d, i - 1) /\ d[i] \in Tokens
      BY <1>1, <2>2 DEF Shown
    <3>2. <<d[i]>> \in Seq(Tokens) /\ Len(<<d[i]>>) = 1
      BY <3>1
    <3>3. ids \o generated \in Seq(Tokens) /\ ids \o generated' \in Seq(Tokens)
          /\ Len(ids \o generated') = Len(ids) + Len(generated')
      BY <1>1, <1>10, ConcatProperties
    <3>4. ids \o generated' = (ids \o generated) \o Upto(d, i - 1)
      <4> DEFINE a == ids
                 b == generated
                 c == Upto(d, i - 1)
                 T == Tokens
      <4>a. a \in Seq(T)
        BY <1>1
      <4>c. b \in Seq(T)
        BY <1>1
      <4>d. c \in Seq(T)
        BY <1>7
      <4> HIDE DEF a, b, c, T
      <4>b. (a \o b) \o c = a \o (b \o c)
        BY <4>a, <4>c, <4>d, SMTT(20)
      <4>1. (ids \o generated) \o Upto(d, i - 1) = ids \o (generated \o Upto(d, i - 1))
        BY <4>b DEF a, b, c
      <4>2. QED
        BY <3>1, <4>1
    <3>5. all = (ids \o generated) \o (Upto(d, i - 1) \o <<d[i]>>)
      <4> DEFINE said == ids \o generated
      <4>1. said \in Seq(Tokens)
        BY <3>3
      <4> HIDE DEF said
      <4>2. (said \o Upto(d, i - 1)) \o <<d[i]>> = said \o (Upto(d, i - 1) \o <<d[i]>>)
        BY <1>7, <3>2, <4>1, SMTT(30)
      <4>3. QED
        BY <3>4, <4>2 DEF said
    <3>6. consumed' = all
      BY <1>8, <2>1, <3>5
    <3>7. all \in Seq(Tokens) /\ Len(all) = Len(ids) + Len(generated') + 1
      BY <3>2, <3>3, ConcatProperties
    <3> HIDE DEF all
    <3>8. Upto(all, Len(all)) = all /\ Len(all) \in 0 .. Len(ids) + Len(generated') + 1
      BY <3>7, SubSeqFull, LenProperties DEF Upto
    <3>9. QED
      BY <2>2, <3>6, <3>8 DEF all
  <2>3. CASE d[i] \notin Stop
    <3>1. generated' = generated \o Upto(d, i)
      BY <2>3 DEF Shown
    <3>2. consumed' = ids \o generated'
      <4>1. (ids \o generated) \o Upto(d, i) = ids \o (generated \o Upto(d, i))
        BY <1>1, <1>6, SMTT(30)
      <4>2. QED
        BY <2>1, <3>1, <4>1
    <3>3. \E e \in Stop, n \in 0 .. Len(ids) + Len(generated') + 1 :
            ids \o generated' = Upto((ids \o generated') \o <<e>>, n)
      BY <1>1, <1>10, AllConsumed
    <3>4. QED
      BY <3>2, <3>3
  <2>4. QED
    BY <2>2, <2>3
<1>15. ConsumedIsConversation'
  <2>1. \E e \in Stop, n \in 0 .. Len(ids') + Len(generated') + 1 :
          consumed' = Upto((ids' \o generated') \o <<e>>, n)
    BY <1>14
  <2>2. QED
    BY <2>1 DEF ConsumedIsConversation, Said, Upto
<1>16. StateIsConsumed'
  <2>1. ~(i < m) => Upto(d, i) = d
    <3>1. ~(i < m) => i = Len(d)
      BY <1>2, <1>3
    <3>2. QED
      BY <1>3, <3>1, SubSeqFull DEF Upto
  <2>2. ~stale => ctx = consumed
    BY DEF IInv, StateIsConsumed
  <2>3. QED
    BY <2>1, <2>2 DEF StateIsConsumed
<1>17. InterruptIsOwn'
  BY DEF IInv, InterruptIsOwn, OwnInterruptOnly, InTurn
<1>18. QED
  BY <1>11, <1>12, <1>13, <1>15, <1>16, <1>17 DEF IInv

LEMMA SpecRoundStep == ASSUME IInv, SpecRound PROVE IInv'
<1> USE DEF SpecRound
<1>1. PICK m \in 0 .. k, x \in Emitted : \E d \in [1 .. m -> Emitted] :
        /\ ctx' = Append(ctx, pending) \o d
        /\ \/ /\ \A i \in 1 .. m : ~Ends(d, i)
              /\ consumed' = Append(consumed, pending) \o d
              /\ generated' = generated \o d
              /\ pending' = x /\ phase' = "turn"
              /\ UNCHANGED poisoned
           \/ \E i \in 1 .. m :
              /\ Ends(d, i) /\ \A j \in 1 .. i - 1 : ~Ends(d, j)
              /\ consumed' = Append(consumed, pending) \o Upto(d, i)
              /\ generated' = generated \o Shown(d, i)
              /\ poisoned' = (i < m)
              /\ pending' = d[i] /\ phase' = "end"
  OBVIOUS
<1>2. PICK d \in [1 .. m -> Emitted] :
        /\ ctx' = Append(ctx, pending) \o d
        /\ \/ /\ \A i \in 1 .. m : ~Ends(d, i)
              /\ consumed' = Append(consumed, pending) \o d
              /\ generated' = generated \o d
              /\ pending' = x /\ phase' = "turn"
              /\ UNCHANGED poisoned
           \/ \E i \in 1 .. m :
              /\ Ends(d, i) /\ \A j \in 1 .. i - 1 : ~Ends(d, j)
              /\ consumed' = Append(consumed, pending) \o Upto(d, i)
              /\ generated' = generated \o Shown(d, i)
              /\ poisoned' = (i < m)
              /\ pending' = d[i] /\ phase' = "end"
  BY <1>1
<1>3. phase = "step" /\ UNCHANGED <<k, lines, messages, ids, interrupted, INTERRUPT, hit, stale>>
  OBVIOUS
<1> HIDE DEF SpecRound
<1>4. CASE /\ \A i \in 1 .. m : ~Ends(d, i)
           /\ consumed' = Append(consumed, pending) \o d
           /\ generated' = generated \o d
           /\ pending' = x /\ phase' = "turn"
           /\ UNCHANGED poisoned
  BY <1>2, <1>3, <1>4, RoundGoesOn
<1>5. CASE \E i \in 1 .. m :
             /\ Ends(d, i) /\ \A j \in 1 .. i - 1 : ~Ends(d, j)
             /\ consumed' = Append(consumed, pending) \o Upto(d, i)
             /\ generated' = generated \o Shown(d, i)
             /\ poisoned' = (i < m)
             /\ pending' = d[i] /\ phase' = "end"
  <2>1. PICK i \in 1 .. m :
             /\ Ends(d, i) /\ \A j \in 1 .. i - 1 : ~Ends(d, j)
             /\ consumed' = Append(consumed, pending) \o Upto(d, i)
             /\ generated' = generated \o Shown(d, i)
             /\ poisoned' = (i < m)
             /\ pending' = d[i] /\ phase' = "end"
    BY <1>5
  <2>2. QED
    BY <1>2, <1>3, <2>1, RoundEnds
<1>6. QED
  BY <1>2, <1>4, <1>5

LEMMA InvStep == IInv /\ [Next]_vars => IInv'
<1> SUFFICES ASSUME IInv, [Next]_vars PROVE IInv'
  OBVIOUS
<1>1. CASE CtrlC \/ ReadInterrupted \/ Quit \/ Closed \/ UNCHANGED vars
  BY <1>1, QuietStep
<1>2. CASE Reset \/ RefuseLine \/ TakeLine
  BY <1>2, ResetStep, RefuseLineStep, TakeLineStep
<1>3. CASE Prefill \/ StopPending \/ PushPending
  BY <1>3, PrefillStep, StopPendingStep, PushPendingStep
<1>4. CASE ForwardToken \/ SpecRound \/ EndTurn
  BY <1>4, ForwardTokenStep, SpecRoundStep, EndTurnStep
<1>5. QED
  BY <1>1, <1>2, <1>3, <1>4 DEF Next, Prompt, Turn

LEMMA Invariance == Session => []IInv
<1>1. QED
  BY InvInit, InvStep, PTL DEF Session

-----------------------------------------------------------------------------
\* The types of the session, and that user messages and replies alternate.
THEOREM ChatTypeOK == Session => []TypeOK
<1>1. IInv => TypeOK
  BY DEF IInv
<1>2. QED
  BY <1>1, Invariance, PTL

\* The decode of a turn starts from a state that has consumed the rendered conversation and
\* goes on with what was generated since, unless an earlier turn ended inside a round:
\* through resets, re-encodings, refused messages, interrupts and reworded replies.
THEOREM ChatStateFollowsConversation == Session => []StateFollowsConversation
<1>1. IInv => StateFollowsConversation
  <2> SUFFICES ASSUME IInv, ~stale, phase \in {"turn", "step"}
               PROVE  ctx = ids \o (IF phase = "turn" THEN generated
                                    ELSE Upto(generated, Len(generated) - 1))
    BY DEF StateFollowsConversation, StateIsConversation
  <2>1. /\ ctx \in Seq(Tokens) /\ consumed \in Seq(Tokens) /\ ids \in Seq(Tokens)
        /\ generated \in Seq(Tokens) /\ pending \in Tokens
    BY Facts DEF IInv
  <2>2. ctx = consumed
    BY DEF IInv, StateIsConsumed
  <2>3. CASE phase = "turn"
    BY <2>2, <2>3 DEF IInv, ConsumedIsConversation
  <2>4. CASE phase = "step"
    <3>1. Append(consumed, pending) = ids \o generated /\ Len(generated) > 0
      BY <2>4 DEF IInv, ConsumedIsConversation, TurnFits
    <3>2. Len(generated) \in Nat /\ Len(generated) - 1 \in 0 .. Len(generated)
      BY <2>1, <3>1, LenProperties
    <3> DEFINE shown == Upto(generated, Len(generated) - 1)
               rest == SubSeq(generated, Len(generated), Len(generated))
    <3>3. /\ shown \in Seq(Tokens) /\ Len(shown) = Len(generated) - 1
          /\ rest \in Seq(Tokens) /\ Len(rest) = 1 /\ shown \o rest = generated
      <4>1. (Len(generated) - 1) + 1 = Len(generated) /\ Len(generated) - (Len(generated) - 1) = 1
        BY <3>2
      <4>2. QED
        BY <2>1, <3>2, <4>1, PrefixFacts, PrefixAndRest, ZenonT(40) DEF Upto
    <3> HIDE DEF shown, rest
    <3>4. (ids \o shown) \o rest = consumed \o <<pending>>
      <4>1. (ids \o shown) \o rest = ids \o (shown \o rest)
        <5>1. ids \in Seq(Tokens) /\ shown \in Seq(Tokens) /\ rest \in Seq(Tokens)
          BY <2>1, <3>3
        <5>2. QED
          BY <5>1, ConcatAssociative
      <4>2. Append(consumed, pending) = consumed \o <<pending>>
        BY <2>1, AppendIsConcat
      <4>3. QED
        BY <3>1, <3>3, <4>1, <4>2
    <3>5. consumed = ids \o shown
      <4>1. /\ ids \o shown \in Seq(Tokens) /\ <<pending>> \in Seq(Tokens)
            /\ Len(consumed) \in Nat /\ Len(ids \o shown) \in Nat /\ Len(<<pending>>) = 1
        BY <2>1, <3>3
      <4>2. /\ Len((ids \o shown) \o rest) = Len(ids \o shown) + 1
            /\ Len(consumed \o <<pending>>) = Len(consumed) + 1
        <5>1. Len((ids \o shown) \o rest) = Len(ids \o shown) + Len(rest)
          BY <3>3, <4>1, ConcatProperties
        <5>2. Len(consumed \o <<pending>>) = Len(consumed) + Len(<<pending>>)
          BY <2>1, <4>1, ConcatProperties
        <5>3. QED
          BY <3>3, <4>1, <5>1, <5>2
      <4>3. Len(ids \o shown) = Len(consumed)
        BY <3>4, <4>1, <4>2
      <4>4. SubSeq((ids \o shown) \o rest, 1, Len(ids \o shown)) = ids \o shown
        BY <3>3, <4>1, PrefixIsFirst
      <4>5. SubSeq(consumed \o <<pending>>, 1, Len(consumed)) = consumed
        BY <2>1, <4>1, PrefixIsFirst
      <4>6. QED
        BY <3>4, <4>3, <4>4, <4>5
    <3>6. QED
      BY <2>2, <2>4, <3>5 DEF shown
  <2>5. QED
    BY <2>3, <2>4
<1>2. QED
  BY <1>1, Invariance, PTL

\* Then no turn outgrows the state that --max-pos sized: `Fits` reserves enough.
THEOREM ChatStateFits == Session => []StateFits
<1>1. IInv => StateFits
  <2> SUFFICES ASSUME IInv, phase = "step", ~stale PROVE Len(ctx) + k + 1 <= MaxPos
    BY DEF StateFits
  <2>1. /\ consumed \in Seq(Tokens) /\ ids \in Seq(Tokens) /\ generated \in Seq(Tokens)
        /\ pending \in Tokens /\ k \in Nat /\ MaxTokens \in Nat /\ MaxPos \in Nat
    BY Facts DEF IInv
  <2>2. ctx = consumed /\ Append(consumed, pending) = ids \o generated
    BY DEF IInv, StateIsConsumed, ConsumedIsConversation
  <2>3. Len(consumed) + 1 = Len(ids) + Len(generated)
    <3>1. Len(Append(consumed, pending)) = Len(consumed) + 1
      BY <2>1, AppendProperties
    <3>2. Len(ids \o generated) = Len(ids) + Len(generated)
      BY <2>1, ConcatProperties
    <3>3. QED
      BY <2>2, <3>1, <3>2
  <2>4. Len(ids) + MaxTokens + k + 2 <= MaxPos /\ Len(generated) < MaxTokens
    BY DEF IInv, TurnFits, InTurn
  <2>5. Len(consumed) \in Nat /\ Len(ids) \in Nat /\ Len(generated) \in Nat
    BY <2>1, LenProperties
  <2>6. QED
    BY <2>1, <2>2, <2>3, <2>4, <2>5
<1>2. QED
  BY <1>1, Invariance, PTL

\* No Ctrl-C of an earlier turn, or of the prompt, cuts a reply short.
THEOREM ChatOwnInterruptOnly == Session => []OwnInterruptOnly
<1>1. IInv => OwnInterruptOnly
  BY DEF IInv, InterruptIsOwn
<1>2. QED
  BY <1>1, Invariance, PTL

\* No reply is longer than --max-tokens, however many drafts a round accepts.
THEOREM ChatReplyWithinBudget == Session => []ReplyWithinBudget
<1>1. IInv => ReplyWithinBudget
  BY DEF IInv
<1>2. QED
  BY <1>1, Invariance, PTL

\* A turn's prefix of what was said before it, ending at most in the end marker, is extended
\* by a rendering that adds to it.
LEMMA PrefixIsReused ==
  ASSUME NEW s \in Seq(Tokens), NEW e \in Stop, NEW n \in 0 .. Len(s) + 1, NEW c,
         c = Upto(s \o <<e>>, n), \A i \in DOMAIN c : c[i] \notin Stop \ {"eos"},
         NEW x \in Tokens, NEW r, r = (s \o <<"eos">>) \o <<x>>
  PROVE  Len(r) > Len(c) /\ IsPrefix(c, r)
<1>1. e \in Tokens /\ "eos" \in Tokens /\ <<e>> \in Seq(Tokens) /\ <<"eos">> \in Seq(Tokens) /\ <<x>> \in Seq(Tokens)
  BY ChatAssumption DEF Tokens, Emitted
<1> DEFINE a == s \o <<e>>
           b == s \o <<"eos">>
<1>2. /\ a \in Seq(Tokens) /\ Len(a) = Len(s) + 1 /\ a[Len(s) + 1] = e
      /\ b \in Seq(Tokens) /\ Len(b) = Len(s) + 1
      /\ \A i \in 1 .. Len(s) : a[i] = s[i] /\ b[i] = s[i]
  <2>1. a = Append(s, e) /\ b = Append(s, "eos")
    BY <1>1, AppendIsConcat
  <2> HIDE DEF a, b
  <2>2. QED
    BY <1>1, <2>1, AppendProperties
<1>3. Len(s) \in Nat /\ n \in 0 .. Len(a) /\ n \in 0 .. Len(b)
  <2> HIDE DEF a, b
  <2>1. QED
    BY <1>2, LenProperties
<1>4. /\ c \in Seq(Tokens) /\ Len(c) = n /\ DOMAIN c = 1 .. n
      /\ \A i \in 1 .. n : c[i] = a[i]
  <2> HIDE DEF a, b
  <2>1. c = SubSeq(a, 1, n)
    BY DEF Upto, a
  <2>2. /\ c \in Seq(Tokens) /\ Len(c) = n
        /\ \A i \in 1 .. n : c[i] = a[i]
    BY <1>2, <1>3, <2>1, PrefixFacts, ZenonT(40)
  <2>3. DOMAIN c = 1 .. Len(c)
    BY <2>2, LenProperties
  <2>4. QED
    BY <2>2, <2>3
<1>5. c = SubSeq(b, 1, n)
  <2>1. CASE n = Len(s) + 1
    <3>1. c[n] = e /\ n \in DOMAIN c
      <4> HIDE DEF a, b
      <4>1. n \in 1 .. n
        BY <1>3, <2>1
      <4>2. QED
        BY <1>2, <1>4, <2>1, <4>1
    <3>2. e = "eos"
      BY <3>1
    <3>3. QED
      BY <3>2 DEF Upto
  <2>2. CASE n # Len(s) + 1
    <3>1. n \in 0 .. Len(s)
      BY <1>3, <2>2
    <3>2. SubSeq(s \o <<e>>, 1, n) = SubSeq(s, 1, n) /\ SubSeq(s \o <<"eos">>, 1, n) = SubSeq(s, 1, n)
      BY <1>1, <3>1, PrefixOfConcat
    <3>3. QED
      BY <3>2 DEF Upto
  <2>3. QED
    BY <2>1, <2>2
<1>6. SubSeq(r, 1, n) = SubSeq(b, 1, n) /\ Len(r) = Len(b) + 1
  <2> HIDE DEF a
  <2>1. r = b \o <<x>>
    OBVIOUS
  <2> HIDE DEF b
  <2>2. Len(<<x>>) = 1
    OBVIOUS
  <2>3. QED
    BY <1>1, <1>2, <1>3, <2>1, <2>2, PrefixOfConcat, ConcatProperties
<1>7. SubSeq(c, 1, Len(c)) = c
  BY <1>4, SubSeqFull
<1>8. Len(r) > Len(c)
  <2> HIDE DEF a, b
  <2>1. Len(r) = Len(s) + 2 /\ Len(c) = n /\ n <= Len(s) + 1
    BY <1>2, <1>3, <1>4, <1>6
  <2>2. QED
    BY <1>3, <2>1
<1>9. QED
  BY <1>3, <1>4, <1>5, <1>6, <1>7, <1>8 DEF IsPrefix

\* When the reply renders to its own tokens, the next turn goes on from the state as it is.
THEOREM ChatGoesOnFromState == Session => GoesOnFromState
<1> DEFINE Reuse == /\ phase = "prompt" /\ phase' = "prefill" /\ consumed # <<>>
                    /\ Rendered(messages) = ids \o generated \o <<"eos">>
                    /\ \A i \in DOMAIN consumed : consumed[i] \notin Stop \ {"eos"}
                    => UNCHANGED <<ctx, consumed>>
<1>1. IInv /\ [Next]_vars => Reuse
  <2> SUFFICES ASSUME IInv, [Next]_vars, phase = "prompt", phase' = "prefill", consumed # <<>>,
                      Rendered(messages) = ids \o generated \o <<"eos">>,
                      \A i \in DOMAIN consumed : consumed[i] \notin Stop \ {"eos"}
               PROVE  UNCHANGED <<ctx, consumed>>
    OBVIOUS
  <2>1. TakeLine
    BY DEF Next, Prompt, Turn, CtrlC, ReadInterrupted, Reset, Quit, RefuseLine, Prefill, StopPending,
           PushPending, ForwardToken, SpecRound, EndTurn, Closed, vars
  <2> DEFINE r == Rendered(Append(messages, <<"u">>))
             said == ids \o generated
  <2>2. r = (said \o <<"eos">>) \o <<"u">>
    BY AskedFacts
  <2>3. said \in Seq(Tokens) /\ Len(said) = Len(ids) + Len(generated) /\ "u" \in Tokens
    <3>1. ids \in Seq(Tokens) /\ generated \in Seq(Tokens)
      BY Facts DEF IInv
    <3>2. QED
      BY <3>1, ConcatProperties DEF Tokens
  <2>4. PICK e \in Stop, n \in 0 .. Len(ids) + Len(generated) + 1 : consumed = Upto(said \o <<e>>, n)
    BY DEF IInv, ConsumedIsConversation, Said
  <2>5. n \in 0 .. Len(said) + 1
    BY <2>3
  <2> HIDE DEF r, said
  <2>6. Len(r) > Len(consumed) /\ IsPrefix(consumed, r)
    BY <2>2, <2>3, <2>4, <2>5, PrefixIsReused
  <2>7. QED
    BY <2>1, <2>6 DEF TakeLine, r
<1>2. QED
  BY <1>1, Invariance, PTL DEF Session, GoesOnFromState
=============================================================================
