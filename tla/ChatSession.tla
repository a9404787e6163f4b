---------------------------- MODULE ChatSession ----------------------------
(***************************************************************************)
(* The turns of `aqueduct chat` (crates/cli/src/chat.rs): what the REPL    *)
(* keeps of a conversation, what it believes the model's state has         *)
(* consumed, and the state itself. The engine is the one of SpecDecode,    *)
(* seen from outside: a prefill or a forward appends its tokens to the     *)
(* state, a round appends the pending token and the accepted drafts.       *)
(*                                                                         *)
(* Messages are kept as the template renders them: a user message is       *)
(* <<"u">>, an assistant message its tokens and the end marker "eos".      *)
(***************************************************************************)
EXTENDS Integers, SequencesExt

CONSTANTS SpecKs,     \* values of --spec: drafts per round, 0 without speculation
          MaxTokens,  \* --max-tokens
          MaxPos,     \* --max-pos
          Words, Stop,\* the tokens the model may emit: ordinary ones, stop tokens
          MaxLines    \* bound of the model: user messages typed

ASSUME ChatAssumption ==
  /\ SpecKs \subseteq Nat /\ MaxTokens \in Nat /\ MaxPos \in Nat /\ MaxLines \in Nat
  /\ "u" \notin Words \cup Stop /\ "eos" \in Stop /\ Words \cap Stop = {}

VARIABLES k,          \* --spec
          phase,      \* "prompt", "prefill", "turn" (top of the decode loop), "step", "end", "closed"
          lines,      \* user messages typed so far
          messages,   \* the rendered messages
          ctx,        \* tokens the model's state has consumed
          consumed,   \* tokens the REPL believes it has consumed
          ids,        \* the rendered conversation of this turn
          generated, pending, poisoned, interrupted,
          INTERRUPT,  \* set by Ctrl-C at any moment
          hit,        \* history: Ctrl-C was pressed since the turn began
          stale       \* history: `consumed` was forgotten and the state was not

turnVars == <<generated, pending, poisoned, interrupted>>
vars == <<k, phase, lines, messages, ctx, consumed, ids, turnVars, INTERRUPT, hit, stale>>

Emitted == Words \cup Stop

Upto(s, n) == SubSeq(s, 1, n)

\* tpl.render and tok.encode of the messages m
Rendered(m) == FlattenSeq(m)

Init ==
  /\ phase = "prompt" /\ lines = 0 /\ messages = <<>>
  /\ ctx = <<>> /\ consumed = <<>> /\ ids = <<>>
  /\ generated = <<>> /\ pending = "eos" /\ poisoned = FALSE /\ interrupted = FALSE
  /\ INTERRUPT = FALSE /\ hit = FALSE /\ stale = FALSE /\ k \in SpecKs

-----------------------------------------------------------------------------
(* The prompt.                                                             *)

CtrlC ==
  /\ phase # "closed" /\ INTERRUPT' = TRUE /\ hit' = TRUE
  /\ UNCHANGED <<k, phase, lines, messages, ctx, consumed, ids, turnVars, stale>>

\* A read of the line fails because of the Ctrl-C: it is read again.
ReadInterrupted ==
  /\ phase = "prompt" /\ INTERRUPT /\ INTERRUPT' = FALSE
  /\ UNCHANGED <<k, phase, lines, messages, ctx, consumed, ids, turnVars, hit, stale>>

Reset ==
  /\ phase = "prompt"
  /\ messages' = <<>> /\ ctx' = <<>> /\ consumed' = <<>> /\ stale' = FALSE
  /\ UNCHANGED <<k, phase, lines, ids, turnVars, INTERRUPT, hit>>

Quit ==
  /\ phase = "prompt" /\ phase' = "closed"
  /\ UNCHANGED <<k, lines, messages, ctx, consumed, ids, turnVars, INTERRUPT, hit, stale>>

\* Mutant of Fits: only the conversation is counted.
FitsPromptOnly(r) == Len(r) <= MaxPos

\* The message is refused when the conversation and the turn may not fit the state.
Fits(r) == Len(r) + MaxTokens + k + 2 <= MaxPos

\* Mutant of RefuseLine: the refused message stays.
RefuseLineKept ==
  LET asked == Append(messages, <<"u">>) IN
  /\ phase = "prompt" /\ lines < MaxLines /\ lines' = lines + 1
  /\ ~Fits(Rendered(asked))
  /\ messages' = asked
  /\ UNCHANGED <<k, phase, ctx, consumed, ids, turnVars, INTERRUPT, hit, stale>>

RefuseLine ==
  LET asked == Append(messages, <<"u">>) IN
  /\ phase = "prompt" /\ lines < MaxLines /\ lines' = lines + 1
  /\ ~Fits(Rendered(asked))
  /\ messages' = Upto(asked, Len(asked) - 1)
  /\ UNCHANGED <<k, phase, ctx, consumed, ids, turnVars, INTERRUPT, hit, stale>>

\* Mutants of Restart and ClearInterrupt: the state is kept; the flag is not cleared.
RestartKeepingState == consumed' = <<>> /\ UNCHANGED <<ctx, stale>>
LeaveInterrupt      == UNCHANGED INTERRUPT

Restart        == ctx' = <<>> /\ consumed' = <<>> /\ stale' = FALSE
ClearInterrupt == INTERRUPT' = FALSE

\* The state is kept when the rendering extends what it has consumed, and replaced when
\* the REPL thinks it has consumed something else. The interrupt flag is cleared last.
TakeLine ==
  LET asked == Append(messages, <<"u">>)
      r     == Rendered(asked)
      reuse == Len(r) > Len(consumed) /\ IsPrefix(consumed, r)
  IN
  /\ phase = "prompt" /\ lines < MaxLines /\ lines' = lines + 1
  /\ Fits(r)
  /\ messages' = asked /\ ids' = r
  /\ IF ~reuse /\ consumed # <<>>
     THEN Restart
     ELSE UNCHANGED <<ctx, consumed, stale>>
  /\ ClearInterrupt /\ hit' = FALSE
  /\ phase' = "prefill"
  /\ UNCHANGED <<k, turnVars>>

-----------------------------------------------------------------------------
(* The turn.                                                               *)

Prefill ==
  LET suffix == SubSeq(ids, Len(consumed) + 1, Len(ids)) IN
  /\ phase = "prefill" /\ phase' = "turn"
  /\ ctx' = ctx \o suffix /\ consumed' = consumed \o suffix
  /\ pending' \in Emitted
  /\ generated' = <<>> /\ poisoned' = FALSE /\ interrupted' = FALSE
  /\ UNCHANGED <<k, lines, messages, ids, INTERRUPT, hit, stale>>

\* Mutant of StopPending: a stop token is skipped over, not acted on.
StopPendingIgnored == phase = "turn" /\ pending \in Stop /\ UNCHANGED vars

\* The top of the loop: stop token, token budget, Ctrl-C, in this order.
StopPending ==
  /\ phase = "turn" /\ pending \in Stop /\ phase' = "end"
  /\ UNCHANGED <<k, lines, messages, ctx, consumed, ids, turnVars, INTERRUPT, hit, stale>>

PushPending ==
  /\ phase = "turn" /\ pending \notin Stop
  /\ generated' = Append(generated, pending)
  /\ IF Len(generated') >= MaxTokens
     THEN phase' = "end" /\ UNCHANGED <<interrupted, INTERRUPT>>
     ELSE /\ INTERRUPT' = FALSE /\ interrupted' = INTERRUPT
          /\ phase' = IF INTERRUPT THEN "end" ELSE "step"
  /\ UNCHANGED <<k, lines, messages, ctx, consumed, ids, pending, poisoned, hit, stale>>

\* Mutant of ForwardToken: the new pending token is noted as consumed, not the old one.
ForwardNotingNext ==
  /\ k = 0 /\ phase = "step" /\ phase' = "turn"
  /\ pending' \in Emitted
  /\ ctx' = Append(ctx, pending) /\ consumed' = Append(consumed, pending')
  /\ UNCHANGED <<k, lines, messages, ids, generated, poisoned, interrupted, INTERRUPT, hit, stale>>

ForwardToken ==
  /\ k = 0 /\ phase = "step" /\ phase' = "turn"
  /\ ctx' = Append(ctx, pending) /\ consumed' = Append(consumed, pending)
  /\ pending' \in Emitted
  /\ UNCHANGED <<k, lines, messages, ids, generated, poisoned, interrupted, INTERRUPT, hit, stale>>

\* Mutant of Ends: drafts are not counted against the budget.
EndsOnStop(d, i) == d[i] \in Stop

\* A round consumed the pending token and the accepted drafts d. Draft i of them ends the
\* turn when it stops or fills the budget.
Ends(d, i) == d[i] \in Stop \/ Len(generated) + i >= MaxTokens

\* The drafts that become part of the reply.
Shown(d, i) == IF d[i] \in Stop THEN Upto(d, i - 1) ELSE Upto(d, i)

\* The caller goes through the drafts up to the one that ends the turn: that one is
\* consumed, and generated unless it stops; the state is ahead of it if drafts follow.
SpecRound ==
  /\ k > 0 /\ phase = "step"
  /\ \E m \in 0 .. k, x \in Emitted : \E d \in [1 .. m -> Emitted] :
       /\ ctx' = Append(ctx, pending) \o d
       /\ \/ /\ \A i \in 1 .. m : ~Ends(d, i)
             /\ consumed' = Append(consumed, pending) \o d
             /\ generated' = generated \o d
             /\ pending' = x /\ phase' = "turn"
             /\ UNCHANGED poisoned
          \/ \E i \in 1 .. m :
             /\ Ends(d, i) /\ \A j \in 1 .. i - 1 : ~Ends(d, j)
             /\ consumed' = Append(consumed, pending) \o Upto(d, i)
             /\ generated' = generated \o Shown(d, i)
             /\ poisoned' = (i < m)
             /\ pending' = d[i] /\ phase' = "end"
  /\ UNCHANGED <<k, lines, messages, ids, interrupted, INTERRUPT, hit, stale>>

\* The reply becomes a message. It renders to its own tokens, or to others: the template
\* drops the reasoning of earlier turns, and text need not tokenise to what produced it.
EndTurn ==
  /\ phase = "end" /\ phase' = "prompt"
  /\ consumed' = IF poisoned THEN <<>> ELSE consumed
  /\ stale' = (stale \/ poisoned)
  /\ \E body \in {generated, <<"reworded">>} : messages' = Append(messages, Append(body, "eos"))
  /\ UNCHANGED <<k, lines, ctx, ids, turnVars, INTERRUPT, hit>>

Closed == phase = "closed" /\ UNCHANGED vars

Prompt == ReadInterrupted \/ Reset \/ Quit \/ RefuseLine \/ TakeLine
Turn   == Prefill \/ StopPending \/ PushPending \/ ForwardToken \/ SpecRound \/ EndTurn

Next == CtrlC \/ Prompt \/ Turn \/ Closed

\* A turn goes on by itself; the user may stop typing.
Session == Init /\ [][Next]_vars /\ WF_vars(Turn)

-----------------------------------------------------------------------------
(* Properties.                                                             *)

\* The type invariant of the session. Of the messages it says that user messages and replies
\* alternate, also after refused messages: a refused one is not sent with the next.
TypeOK ==
  /\ k \in SpecKs /\ phase \in {"prompt", "prefill", "turn", "step", "end", "closed"}
  /\ lines \in 0 .. MaxLines
  /\ \A s \in {ctx, consumed, ids} : s \in Seq(Emitted \cup {"u", "reworded"})
  /\ generated \in Seq(Words) /\ pending \in Emitted
  /\ {poisoned, interrupted, INTERRUPT, hit, stale} \subseteq BOOLEAN
  /\ \A i \in 1 .. Len(messages) : messages[i] = <<"u">> <=> i % 2 = 1

\* "Feeds the model only the tokens it has not consumed yet; when it does not, the context
\* is re-encoded from scratch": the decode of a turn starts from a state that has consumed
\* the rendered conversation, and goes on with what was generated since.
StateIsConversation ==
  phase \in {"turn", "step"} =>
    ctx = ids \o (IF phase = "turn" THEN generated ELSE Upto(generated, Len(generated) - 1))

\* The same as long as no turn has ended inside a round, whatever else happened: resets,
\* re-encodings, refused messages, interrupts, replies that render to other tokens.
StateFollowsConversation == ~stale => StateIsConversation

\* Then no turn outgrows the state that --max-pos sized, the rows of a batch under
\* verification included.
StateFits == phase = "step" /\ ~stale => Len(ctx) + k + 1 <= MaxPos

\* A turn is interrupted only by a Ctrl-C that was pressed during that turn: one pressed
\* at the prompt or in the last turn's tail does not cut the next reply short.
OwnInterruptOnly == phase \in {"turn", "step", "end"} /\ interrupted => hit

\* A reply is never longer than --max-tokens, however many drafts a round accepts, unless
\* it is 0, when one token is generated.
ReplyWithinBudget == Len(generated) <= IF MaxTokens = 0 THEN 1 ELSE MaxTokens

\* Ctrl-C ends the turn: every turn that was taken up comes back to the prompt.
TurnComesBack == phase = "prefill" ~> phase = "prompt"

\* When the reply re-renders to itself, the next turn goes on from the state as it is:
\* only a stop token other than the end marker, consumed as a draft, forces a re-encoding.
GoesOnFromState ==
  [][ /\ phase = "prompt" /\ phase' = "prefill" /\ consumed # <<>>
      /\ Rendered(messages) = ids \o generated \o <<"eos">>
      /\ \A i \in DOMAIN consumed : consumed[i] \notin Stop \ {"eos"}
      => UNCHANGED <<ctx, consumed>> ]_vars
=============================================================================
