---------------------------- MODULE TokenStream ----------------------------
(***************************************************************************)
(* What decoding promises to its caller, whatever computes it: a turn      *)
(* starts from a context, and each token it emits is a choice the model    *)
(* makes after the context and everything emitted so far (the argmax, or a *)
(* draw), until that choice is a stop token or mode.max tokens were        *)
(* emitted. With a greedy mode the stream is a function of the context:    *)
(* two implementations of it emit the same tokens.                         *)
(***************************************************************************)
EXTENDS Naturals, Sequences

CONSTANTS Tok, Stop, Argmax(_, _, _)

VARIABLES mode,      \* the settings and the weights
          base,      \* the context the turn started from
          out,       \* the tokens emitted in this turn
          finished

stream == <<mode, base, out, finished>>

\* The tokens the model may choose after a context.
Choices(ctx) == IF mode.greedy THEN {Argmax(mode.net, ctx, ctx)} ELSE mode.toks

Init == base = <<>> /\ out = <<>> /\ finished = TRUE

StartTurn ==
  /\ finished /\ finished' = FALSE
  /\ base' \in Seq(Tok) /\ out' = <<>>
  /\ UNCHANGED mode

Emit ==
  /\ ~finished /\ Len(out) < mode.max
  /\ \E t \in Choices(base \o out) \ Stop : out' = Append(out, t)
  /\ finished' = (Len(out') = mode.max)
  /\ UNCHANGED <<mode, base>>

Finish ==
  /\ ~finished /\ (Len(out) = mode.max \/ Choices(base \o out) \cap Stop # {})
  /\ finished' = TRUE
  /\ UNCHANGED <<mode, base, out>>

Next == StartTurn \/ Emit \/ Finish

Spec == Init /\ [][Next]_stream
=============================================================================
