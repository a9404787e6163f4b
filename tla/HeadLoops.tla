----------------------------- MODULE HeadLoops ------------------------------
(***************************************************************************)
(* What one head writes in the parallel loops of the DeltaNet and of the   *)
(* attention layers (gated_deltanet.rs, gqa_attention.rs): ranges          *)
(* <<buffer, start, length>> of buffers shared by all participants through *)
(* pool::SharedMut, and the length of every such buffer. A loop is a       *)
(* record [kind, heads, t, base, maxPos]: its number of heads and rows,    *)
(* the cached positions before it, and the positions the score rows have.  *)
(***************************************************************************)
EXTENDS Integers, FiniteSetsExt

CONSTANTS DK, DV, HD  \* key and value dimensions of a DeltaNet head, dimension of an attention head

ASSUME HeadLoopsAssumption == {DK, DV, HD} \subseteq Nat \ {0}

DeltaLoops == {"delta_token", "delta_prefill", "delta_batch", "delta_replay"}
AttnLoops  == {"attn_token", "attn_prefill", "attn_batch"}

-----------------------------------------------------------------------------
(* The DeltaNet: a head's temporaries, its recurrent state, its columns.   *)

DeltaTokenWrites(L, p) ==
  {<<"qn", p*DK, DK>>, <<"kn", p*DK, DK>>, <<"o", p*DV, DV>>,
   <<"rec", p*DK*DV, DK*DV>>, <<"heads", p*DV, DV>>}

\* its temporaries are the participant's own
DeltaPrefillWrites(L, p) ==
  {<<"rec", p*DK*DV, DK*DV>>} \cup {<<"heads", i * (L.heads * DV) + p*DV, DV>> : i \in 0..L.t-1}

DeltaReplayWrites(L, p) ==
  {<<"qn", p*DK, DK>>, <<"kn", p*DK, DK>>, <<"o", p*DV, DV>>, <<"rec", p*DK*DV, DK*DV>>}

DeltaBatchWrites(L, p) ==
  DeltaReplayWrites(L, p) \cup {<<"heads", i * (L.heads * DV) + p*DV, DV>> : i \in 0..L.t-1}

-----------------------------------------------------------------------------
(* Attention: a head's score and probability rows, its columns.            *)

\* AttnScratch::reserve: the score rows only ever get longer.
MaxPos(L) == Max({L.maxPos, L.base + L.t})

AttnTokenWrites(L, h) ==
  {<<"scores", h * MaxPos(L), L.base + 1>>, <<"probs", h * MaxPos(L), L.base + 1>>, <<"attn", h*HD, HD>>}

AttnPrefillWrites(L, h) == {<<"attn", i * (L.heads * HD) + h*HD, HD>> : i \in 0..L.t-1}

AttnBatchWrites(L, h) ==
  AttnPrefillWrites(L, h)
    \cup {<<b, h * MaxPos(L), L.base + i + 1>> : b \in {"scores", "probs"}, i \in 0..L.t-1}

-----------------------------------------------------------------------------
HeadWrites(L, p) ==
  CASE L.kind = "delta_token"   -> DeltaTokenWrites(L, p)
    [] L.kind = "delta_prefill" -> DeltaPrefillWrites(L, p)
    [] L.kind = "delta_batch"   -> DeltaBatchWrites(L, p)
    [] L.kind = "delta_replay"  -> DeltaReplayWrites(L, p)
    [] L.kind = "attn_token"    -> AttnTokenWrites(L, p)
    [] L.kind = "attn_prefill"  -> AttnPrefillWrites(L, p)
    [] L.kind = "attn_batch"    -> AttnBatchWrites(L, p)

\* Lengths of the buffers the loop is given.
DeltaBuffers(L) ==
  [qn |-> L.heads * DK, kn |-> L.heads * DK, o |-> L.heads * DV,
   rec |-> L.heads * DK * DV, heads |-> L.t * L.heads * DV]

AttnBuffers(L) ==
  [scores |-> L.heads * MaxPos(L), probs |-> L.heads * MaxPos(L), attn |-> L.t * L.heads * HD]

\* What the layer computes with the loop: all of it must be there afterwards.
HeadResults(L) ==
  IF L.kind = "delta_replay" THEN {"rec"} ELSE IF L.kind \in DeltaLoops THEN {"rec", "heads"} ELSE {"attn"}
=============================================================================
