------------------------------- MODULE MCLoad -------------------------------
(* Load for TLC: models of three layers (DeltaNet, attention, DeltaNet) and*)
(* an MTP block, in sizes no two of which are equal where the code could   *)
(* take one for the other, laid out in several ways and with one thing     *)
(* wrong at a time; and small files whose header reads may come back short.*)
EXTENDS Load, GgufValues

VtU32 == 5  VtF32 == 7  VtBool == 8  VtStr == 9  VtArr == 10  VtI32 == 6  VtU64 == 11

KvOf(key, vt, val) == [key |-> key, vt |-> vt, val |-> val, elem |-> 0]
ArrOf(key, elem, vals) ==
  [key |-> key, vt |-> VtArr, elem |-> elem, val |-> [i \in DOMAIN vals |-> [vt |-> elem, val |-> vals[i], elem |-> 0]]]

U32s(pairs) == [i \in DOMAIN pairs |-> KvOf(pairs[i][1], VtU32, pairs[i][2])]

ModelKv(mtp) ==
  << KvOf("general.architecture", VtStr, "qwen35"), KvOf("general.name", VtStr, "toy"),
     KvOf("attention.layer_norm_rms_epsilon", VtF32, 0), KvOf("rope.freq_base", VtF32, 0),
     ArrOf("rope.dimension_sections", VtI32, <<11, 11, 10, 0>>),
     KvOf("tokenizer.ggml.add_bos_token", VtBool, FALSE), KvOf("tokenizer.ggml.model", VtStr, "gpt2"),
     KvOf("tokenizer.ggml.pre", VtStr, "qwen2"), ArrOf("tokenizer.ggml.tokens", VtStr, <<"a", "b", "c">>) >>
  \o U32s(<< <<"block_count", 3 + mtp>>, <<"nextn_predict_layers", mtp>>, <<"context_length", 64>>,
     <<"embedding_length", 512>>, <<"feed_forward_length", 768>>, <<"attention.head_count", 4>>,
     <<"attention.head_count_kv", 2>>, <<"attention.key_length", 64>>, <<"attention.value_length", 64>>,
     <<"full_attention_interval", 2>>, <<"rope.dimension_count", 64>>, <<"ssm.conv_kernel", 4>>,
     <<"ssm.state_size", 128>>, <<"ssm.group_count", 1>>, <<"ssm.time_step_rank", 3>>,
     <<"ssm.inner_size", 768>>, <<"general.file_type", 15>>, <<"general.quantization_version", 2>>,
     <<"tokenizer.ggml.bos_token_id", 1>>, <<"tokenizer.ggml.eos_token_id", 2>>,
     <<"tokenizer.ggml.padding_token_id", 1>>, <<"tokenizer.ggml.eot_token_id", 0>> >>)

\* [name, shape, type] without offsets
TOf(l, suffix, shape, type) == [name |-> <<l, suffix>>, shape |-> shape, type |-> type]
F32Id == 0  Q8Id == 8  Q4Id == 12  Q6Id == 14

Norms(l) == << TOf(l, "attn_norm.weight", <<512>>, F32Id), TOf(l, "post_attention_norm.weight", <<512>>, F32Id) >>
FfnOf(l) == << TOf(l, "ffn_gate.weight", <<512, 768>>, Q4Id), TOf(l, "ffn_up.weight", <<512, 768>>, Q4Id),
               TOf(l, "ffn_down.weight", <<768, 512>>, Q6Id) >>
AttnOf(l, qRows) ==
  << TOf(l, "attn_q.weight", <<512, qRows>>, Q4Id), TOf(l, "attn_k.weight", <<512, 128>>, Q4Id),
     TOf(l, "attn_v.weight", <<512, 128>>, Q6Id), TOf(l, "attn_output.weight", <<256, 512>>, Q4Id),
     TOf(l, "attn_q_norm.weight", <<64>>, F32Id), TOf(l, "attn_k_norm.weight", <<64>>, F32Id) >>
DeltaOf(l) ==
  << TOf(l, "attn_qkv.weight", <<512, 1024>>, Q4Id), TOf(l, "attn_gate.weight", <<512, 768>>, Q4Id),
     TOf(l, "ssm_alpha.weight", <<512, 3>>, Q8Id), TOf(l, "ssm_beta.weight", <<512, 3>>, Q8Id),
     TOf(l, "ssm_a", <<3>>, F32Id), TOf(l, "ssm_dt.bias", <<3>>, F32Id),
     TOf(l, "ssm_conv1d.weight", <<4, 1024>>, F32Id), TOf(l, "ssm_norm.weight", <<256>>, F32Id),
     TOf(l, "ssm_out.weight", <<768, 512>>, Q6Id) >>
MtpOf(l) ==
  << TOf(l, "nextn.eh_proj.weight", <<1024, 512>>, Q8Id), TOf(l, "nextn.enorm.weight", <<512>>, F32Id),
     TOf(l, "nextn.hnorm.weight", <<512>>, F32Id), TOf(l, "nextn.shared_head_norm.weight", <<512>>, F32Id) >>
     \o Norms(l) \o AttnOf(l, 512) \o FfnOf(l)

Embedding == << TOf(NoLayer, "token_embd.weight", <<512, 3>>, Q4Id) >>
FinalNorm == << TOf(NoLayer, "output_norm.weight", <<512>>, F32Id) >>
Output    == << TOf(NoLayer, "output.weight", <<512, 3>>, Q6Id) >>
LayersOf(qRows) == Norms(0) \o DeltaOf(0) \o FfnOf(0) \o AttnOf(1, qRows) \o FfnOf(1) \o Norms(1) \o DeltaOf(2) \o FfnOf(2) \o Norms(2)

SizeOf(t) == LET b == GgmlTypes[t.type] IN (Elements(t.shape) \div b[2]) * b[3]
Padded(x, a) == ((x + a - 1) \div a) * a

\* The tensors one after the other, each aligned; the file ends with the last one.
LaidOut(ts, a) ==
  LET offs[i \in 1 .. Len(ts) + 1] == IF i = 1 THEN 0 ELSE Padded(offs[i - 1] + SizeOf(ts[i - 1]), a)
  IN  [i \in DOMAIN ts |-> [name |-> ts[i].name, shape |-> ts[i].shape, type |-> ts[i].type, off |-> offs[i]]] \o <<>>

HeaderBytes(f) ==
  WidthOf(Preamble(f) \o KvFields(f) \o InfoFields(f))

\* A file of metadata kv and tensors ts aligned to a.
FileOf(kv, ts, a) ==
  LET infos == LaidOut(ts, a)
      f     == [magic |-> "GGUF", version |-> 3, kv |-> kv, infos |-> infos, size |-> 0]
      last  == infos[Len(infos)]
  IN  [f EXCEPT !.size = Padded(HeaderBytes(f), a) + last.off + SizeOf(ts[Len(ts)])]

FilesOf(parts) == [i \in DOMAIN parts |-> FileOf(parts[i][1], parts[i][2], parts[i][3])] \o <<>>

\* Without the entry of a key; without a tensor; with one value or shape instead of another.
WithoutKey(kv, key)  == SelectSeq(kv, LAMBDA e : e.key # key)
WithValue(kv, key, v) == [i \in DOMAIN kv |-> IF kv[i].key = key THEN [kv[i] EXCEPT !.val = v] ELSE kv[i]] \o <<>>
WithoutTensor(ts, name) == SelectSeq(ts, LAMBDA t : t.name # name)
WithShape(ts, name, shape) == [i \in DOMAIN ts |-> IF ts[i].name = name THEN [ts[i] EXCEPT !.shape = shape] ELSE ts[i]] \o <<>>

\* The parts of a model: kv(mtp) are the metadata with mtp MTP blocks, ts the tensors of one with one.
ModelParts(kv, ts, layers, layersNoGate, mtp3, mtp4) ==
  << <<kv[1], ts, 32>>,
     \* the tensors of no layer at both ends; MTP first; two MTP blocks; none
     <<kv[1], Embedding \o mtp3 \o layers \o FinalNorm \o Output, 32>>,
     <<kv[2], mtp4 \o layers \o mtp3 \o Output \o FinalNorm \o Embedding, 32>>,
     <<kv[0], layers \o Embedding \o FinalNorm \o Output, 32>>,
     \* refused by the loader: no head of its own, no output gate, a tensor or a shape wrong
     <<kv[0], Embedding \o FinalNorm \o layers, 32>>,
     <<kv[0], Embedding \o FinalNorm \o Output \o layersNoGate, 32>>,
     <<kv[1], WithoutTensor(ts, <<2, "ffn_up.weight">>), 32>>,
     <<kv[1], WithShape(ts, <<3, "ffn_gate.weight">>, <<768, 512>>), 32>>,
     \* read by the parser, but a small tensor lies where read_into refuses it
     <<<<KvOf("general.alignment", VtU32, 4)>> \o kv[1], ts, 4>>,
     \* refused by the configuration
     <<WithoutKey(kv[1], "block_count"), ts, 32>>,
     <<WithValue(kv[1], "nextn_predict_layers", 4), ts, 32>>,
     <<WithValue(kv[1], "ssm.group_count", 2), ts, 32>>,
     <<WithValue(kv[1], "full_attention_interval", 3), ts, 32>>,
     <<WithValue(kv[1], "full_attention_interval", 0), ts, 32>>,
     <<WithValue(kv[1], "general.architecture", "qwen3"), ts, 32>>,
     <<kv[1], WithShape(ts, <<1, "attn_k.weight">>, <<512, 64>>), 32>>,
     <<kv[1], WithoutTensor(ts, <<NoLayer, "output_norm.weight">>), 32>>,
     <<kv[1], WithoutTensor(ts, <<3, "nextn.eh_proj.weight">>), 32>>,
     <<[kv[1] EXCEPT ![2] = KvOf("general.name", VtBool, TRUE)], ts, 32>> >>

AllTensors(layers, mtp3) == Embedding \o FinalNorm \o Output \o layers \o mtp3

ModelFilesOf(kv, layers, layersNoGate, mtp3, mtp4) ==
  FilesOf(ModelParts(kv, AllTensors(layers, mtp3), layers, layersNoGate, mtp3, mtp4))

ModelFiles ==
  ModelFilesOf([mtp \in 0 .. 2 |-> ModelKv(mtp)], LayersOf(512), LayersOf(256), MtpOf(3), MtpOf(4))

\* Small files, right and with one thing wrong: by its bytes, and by its parts.
SmallKv == << KvOf("general.name", VtStr, "s"), ArrOf("tokens", VtStr, <<"a">>), KvOf("count", VtU64, 0) >>
SmallTensors == << TOf(NoLayer, "a", <<32, 2>>, Q8Id), TOf(0, "b", <<3>>, F32Id) >>

Damaged(f) ==
  << f, [f EXCEPT !.size = 60], [f EXCEPT !.size = @ - 1],
     [f EXCEPT !.magic = "GGML"], [f EXCEPT !.version = 2],
     [f EXCEPT !.kv[2].elem = 20], [f EXCEPT !.kv[3].vt = 14], [f EXCEPT !.kv[3].key = "general.name"],
     [f EXCEPT !.infos[1].name = BadName], [f EXCEPT !.infos[2].name = f.infos[1].name],
     [f EXCEPT !.infos[2].shape = <<1, 1, 1, 1, 1>>], [f EXCEPT !.infos[1].shape = <<16>>],
     [f EXCEPT !.infos[1].type = 5] >>

SmallParts(kv, ts) ==
  << <<<<KvOf("general.alignment", VtU32, 24)>>, ts, 8>>,
     <<<<KvOf("general.alignment", VtU64, 32)>>, ts, 32>>,
     <<kv, <<ts[2]>>, 32>> >>

SmallFiles == Damaged(FileOf(SmallKv, SmallTensors, 32)) \o FilesOf(SmallParts(SmallKv, SmallTensors))

MCFiles == SmallFiles \o ModelFiles
MCShortReads == 1 .. 16

\* From below the always-resident set to everything in memory, and no budget at all.
MCBudgets == {NoBudget} \cup {3200000 + 200000 * i : i \in 0 .. 30}
=============================================================================
