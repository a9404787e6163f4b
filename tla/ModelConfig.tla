---------------------------- MODULE ModelConfig ----------------------------
(***************************************************************************)
(* The model contract of crates/core/src/config.rs and arch.rs: which      *)
(* opened files are accepted as a model, and the sizes derived from them.  *)
(* A metadata key stands for itself under the file's own architecture;     *)
(* what is only displayed is left out.                                     *)
(***************************************************************************)
EXTENDS Gguf

\* The keys from_gguf asks for, in order: <<key, type, type of the elements>>.
RequiredKeys ==
  LET U32(keys) == [i \in DOMAIN keys |-> <<keys[i], "UINT32", "">>] IN
  << <<"general.architecture", "STRING", "">> >>
  \o U32(<<"block_count", "nextn_predict_layers">>)

\* The keys read once the block counts are known to make sense.
RemainingKeys ==
  LET U32(keys) == [i \in DOMAIN keys |-> <<keys[i], "UINT32", "">>] IN
  U32(<<"context_length", "embedding_length", "feed_forward_length", "attention.head_count",
        "attention.head_count_kv", "attention.key_length", "attention.value_length">>)
  \o << <<"attention.layer_norm_rms_epsilon", "FLOAT32", "">> >> \o U32(<<"full_attention_interval">>)
  \o << <<"rope.freq_base", "FLOAT32", "">> >> \o U32(<<"rope.dimension_count">>)
  \o << <<"rope.dimension_sections", "ARRAY", "INT32">> >>
  \o U32(<<"ssm.conv_kernel", "ssm.state_size", "ssm.group_count", "ssm.time_step_rank", "ssm.inner_size">>)
  \o << <<"general.name", "STRING", "">> >>
  \o U32(<<"general.file_type", "general.quantization_version", "tokenizer.ggml.bos_token_id",
           "tokenizer.ggml.eos_token_id", "tokenizer.ggml.padding_token_id">>)
  \o << <<"tokenizer.ggml.add_bos_token", "BOOL", "">>, <<"tokenizer.ggml.model", "STRING", "">>,
        <<"tokenizer.ggml.pre", "STRING", "">>, <<"tokenizer.ggml.tokens", "ARRAY", "">> >>

KeyErrors(keys) ==
  FirstError([i \in DOMAIN keys |-> GetError(file, keys[i][1], keys[i][2], keys[i][3])])

\* The end-of-text id the file may name on top of the required one.
EotKey == "tokenizer.ggml.eot_token_id"

EotError == IF Has(file, EotKey) THEN GetError(file, EotKey, "UINT32", "") ELSE ""

Val(key) == Kv(file, key).val

-----------------------------------------------------------------------------
(* The sizes.                                                              *)

Config ==
  LET heads  == Val("attention.head_count")
      kv     == Val("attention.head_count_kv")
      hd     == Val("attention.key_length")
      nv     == Val("ssm.time_step_rank")
      nk     == Val("ssm.group_count")
      dk     == Val("ssm.state_size")
      dv     == Val("ssm.inner_size") \div nv
      nLayer == Val("block_count") - Val("nextn_predict_layers")
  IN  [blocks |-> Val("block_count"), nLayer |-> nLayer,
       mtp |-> nLayer .. Val("block_count") - 1,
       attention |-> {l \in 0 .. nLayer - 1 : HasTensor(<<l, "attn_q.weight">>)},
       deltanet  |-> {l \in 0 .. nLayer - 1 : HasTensor(<<l, "ssm_a">>)},
       hidden |-> Val("embedding_length"), inter |-> Val("feed_forward_length"),
       vocab |-> Len(Val("tokenizer.ggml.tokens")),
       nHead |-> heads, nHeadKv |-> kv, headDim |-> hd, ropeDim |-> Val("rope.dimension_count"),
       qDim |-> heads * hd, kvDim |-> kv * hd,
       nK |-> nk, nV |-> nv, dk |-> dk, dv |-> dv, kernel |-> Val("ssm.conv_kernel"),
       kDim |-> nk * dk, vDim |-> nv * dv, qkvDim |-> 2 * nk * dk + nv * dv]

EosIds ==
  {Val("tokenizer.ggml.eos_token_id")} \cup (IF Has(file, EotKey) THEN {Val(EotKey)} ELSE {})

\* arch.rs: the one architecture known, and the stop id it adds.
Qwen35 == [name |-> "qwen35", extraStop |-> {248044}]

StopIds == EosIds \cup Qwen35.extraStop

-----------------------------------------------------------------------------
(* The checks, in the code's order, each an error or "".                   *)

Unless(ok, err) == IF ok THEN "" ELSE err

HeadErrors ==
  LET kv == Val("attention.head_count_kv")
      nv == Val("ssm.time_step_rank")
      nk == Val("ssm.group_count")
      rope == Val("rope.dimension_count")
      sections == FoldLeft(LAMBDA s, v : s + v.val, 0, Val("rope.dimension_sections"))
  IN  Unless(/\ kv # 0 /\ Val("attention.head_count") % kv = 0
             /\ nv # 0 /\ Val("ssm.inner_size") % nv = 0
             /\ nk # 0 /\ nv % nk = 0
             /\ rope <= Val("attention.key_length") /\ 2 * sections = rope, "Inconsistent")

EmbeddingErrors ==
  LET c == Config
      Missing(suffix) == ~HasTensor(<<NoLayer, suffix>>)
      embd == Tensor(<<NoLayer, "token_embd.weight">>).shape
  IN  IF Missing("token_embd.weight") THEN "MissingTensor"
      ELSE IF embd # <<c.hidden, c.vocab>> THEN "Inconsistent"
      ELSE IF ~Missing("output.weight") /\ Tensor(<<NoLayer, "output.weight">>).shape # embd
           THEN "Inconsistent"
      ELSE Unless(~Missing("output_norm.weight"), "MissingTensor")

\* A tensor of the block has the shape, or the error.
Shaped(l, suffix, shape) ==
  IF ~HasTensor(<<l, suffix>>) THEN "NoTensor"
  ELSE Unless(Tensor(<<l, suffix>>).shape = shape, "Inconsistent")

\* attn_q has q_dim rows, or twice that when it carries the output gate.
QRows(l) == Tensor(<<l, "attn_q.weight">>).shape[2]

AttentionErrors(l) ==
  LET c == Config
      q == Tensor(<<l, "attn_q.weight">>).shape
  IN  IF ~(Len(q) = 2 /\ q[1] = c.hidden /\ QRows(l) \in {c.qDim, 2 * c.qDim}) THEN "Inconsistent"
      ELSE IF \E m \in c.attention : m < l /\ QRows(m) # QRows(l) THEN "Inconsistent"
      ELSE Shaped(l, "attn_k.weight", <<c.hidden, c.kvDim>>)

DeltaNetErrors(l) ==
  LET c == Config IN
  FirstError(<< Shaped(l, "attn_qkv.weight", <<c.hidden, c.qkvDim>>),
                Shaped(l, "ssm_conv1d.weight", <<c.kernel, c.qkvDim>>),
                Shaped(l, "ssm_a", <<c.nV>>) >>)

\* A block is an attention block exactly when its tensors and the interval say so.
LayerErrors(l) ==
  LET c      == Config
      byRule == (l + 1) % Val("full_attention_interval") = 0
  IN  IF (l \in c.attention) = (l \in c.deltanet) \/ (l \in c.attention) # byRule THEN "Inconsistent"
      ELSE IF byRule THEN AttentionErrors(l) ELSE DeltaNetErrors(l)

BlockErrors ==
  LET c == Config
      layers == FirstError([i \in 1 .. c.nLayer |-> LayerErrors(i - 1)])
  IN  IF layers # "" THEN layers
      ELSE IF c.attention = {} THEN "Inconsistent"
      ELSE IF \E m \in c.mtp : ~HasTensor(<<m, "nextn.eh_proj.weight">>) THEN "MissingTensor"
      ELSE Unless(\A l \in 0 .. c.blocks - 1 : LayerTensors(l) # {}, "MissingTensor")

\* from_gguf and arch_consts: why the file is refused, "" when it is accepted.
\* full_attention_interval = 0 divides by zero.
ConfigError ==
  IF KeyErrors(RequiredKeys) # "" THEN KeyErrors(RequiredKeys)
  ELSE IF Val("nextn_predict_layers") >= Val("block_count") THEN "Inconsistent"
  ELSE IF KeyErrors(RemainingKeys) # "" THEN KeyErrors(RemainingKeys)
  ELSE IF EotError # "" THEN EotError
  ELSE IF HeadErrors # "" THEN HeadErrors
  ELSE IF EmbeddingErrors # "" THEN EmbeddingErrors
  ELSE IF Val("full_attention_interval") = 0 THEN "panic"
  ELSE IF BlockErrors # "" THEN BlockErrors
  ELSE Unless(Val("general.architecture") = Qwen35.name, "UnknownArch")
=============================================================================
