-------------------------------- MODULE Gguf --------------------------------
(***************************************************************************)
(* The GGUF reader of crates/core/src/gguf.rs. `open` parses the header    *)
(* through HeaderReader, which asks the operating system for whole chunks  *)
(* in the metadata section and for exactly what is missing in the          *)
(* tensor-info section, and the system may return less than asked; then it *)
(* builds the tensor index. A file is the list of what was written into    *)
(* it; a header field is its width and the error its value causes, if any. *)
(* Offsets and sizes are assumed to stay far below 2^63.                   *)
(***************************************************************************)
EXTENDS Integers, Sequences, FiniteSetsExt, SequencesExt

CONSTANTS Files,           \* sequence of files: [magic, version, kv, infos, size]
          ShortReads,      \* indexes of the files whose header reads may come back short
          HeaderChunk,     \* HEADER_CHUNK
          ValueFields(_)   \* the header fields of a metadata value, behind its type id

VARIABLES file,        \* the file opened, and whether its header reads may come back short
          header,      \* of its header: [end, infoFields, infoBytes]
          stage,       \* "header", "index", "opened", or the error that ended open
          ahead,       \* the header fields not yet parsed
          reader,      \* HeaderReader: [buf, start, read, consumed, want, got]
          index        \* the tensor index: a set of TensorInfo

ggufVars == <<file, header, stage, ahead, reader, index>>

-----------------------------------------------------------------------------
(* Types, names, widths.                                                   *)

ValueTypes == << "UINT8", "INT8", "UINT16", "INT16", "UINT32", "INT32", "FLOAT32",
                 "BOOL", "STRING", "ARRAY", "UINT64", "INT64", "FLOAT64" >>

ScalarWidth == [ UINT8 |-> 1, INT8 |-> 1, BOOL |-> 1, UINT16 |-> 2, INT16 |-> 2, UINT32 |-> 4,
                 INT32 |-> 4, FLOAT32 |-> 4, UINT64 |-> 8, INT64 |-> 8, FLOAT64 |-> 8 ]

\* The type of a metadata value.
HasType(v, type) == v.vt \in DOMAIN ValueTypes /\ ValueTypes[v.vt] = type

\* A tensor's type by its id: <<name, elements of a block, bytes of a block>>. 4 and 5 are unassigned.
GgmlTypes ==
  LET Old == << <<"F32", 1, 4>>, <<"F16", 1, 2>>, <<"Q4_0", 32, 18>>, <<"Q4_1", 32, 20>> >>
      New == << <<"Q5_0", 32, 22>>, <<"Q5_1", 32, 24>>, <<"Q8_0", 32, 34>>, <<"Q8_1", 32, 36>>,
                <<"Q2_K", 256, 84>>, <<"Q3_K", 256, 110>>, <<"Q4_K", 256, 144>>,
                <<"Q5_K", 256, 176>>, <<"Q6_K", 256, 210>>, <<"Q8_K", 256, 292>>,
                <<"IQ2_XXS", 256, 66>>, <<"IQ2_XS", 256, 74>>, <<"IQ3_XXS", 256, 98>>,
                <<"IQ1_S", 256, 50>>, <<"IQ4_NL", 32, 18>>, <<"IQ3_S", 256, 110>>,
                <<"IQ2_S", 256, 82>>, <<"IQ4_XS", 256, 136>>, <<"I8", 1, 1>>, <<"I16", 1, 2>>,
                <<"I32", 1, 4>>, <<"I64", 1, 8>>, <<"F64", 1, 8>>, <<"IQ1_M", 256, 56>>,
                <<"BF16", 1, 2>> >>
  IN  [id \in (0 .. 3) \cup (6 .. 30) |-> IF id <= 3 THEN Old[id + 1] ELSE New[id - 5]]

\* A tensor's name is <<layer, suffix>>; a name outside blk.N. has layer NoLayer.
NoLayer == -1
LayerOf(name) == name[1]

\* A name whose bytes are no UTF-8, and the bytes other names are given here.
BadName  == <<NoLayer, "bad utf-8">>
NameBytes == 8

-----------------------------------------------------------------------------
(* The header of a file, field by field, in the order open reads it.       *)

Field(w)        == <<[w |-> w, err |-> ""]>>
Fault(bad, err) == IF bad THEN <<[w |-> 0, err |-> err]>> ELSE <<>>

StringFields(valid) == Field(8) \o Field(NameBytes) \o Fault(~valid, "Utf8")

KvFields(f) ==
  FlattenSeq([i \in DOMAIN f.kv |->
    StringFields(TRUE) \o Field(4) \o ValueFields(f.kv[i])
      \o Fault(\E j \in 1 .. i - 1 : f.kv[j].key = f.kv[i].key, "DuplicateKey")])

InfoFields(f) ==
  FlattenSeq([i \in DOMAIN f.infos |->
    StringFields(f.infos[i].name # BadName)
      \o Field(4) \o Fault(Len(f.infos[i].shape) > 4, "TooManyDims")
      \o FlattenSeq([d \in DOMAIN f.infos[i].shape |-> Field(8)]) \o Field(4) \o Field(8)])

Preamble(f) ==
  Field(4) \o Fault(f.magic # "GGUF", "BadMagic") \o Field(4) \o Fault(f.version # 3, "BadVersion")
    \o Field(8) \o Field(8)

\* The bytes of the fields, summed by halves.
WidthOf(fields) ==
  LET sum[r \in (1 .. Len(fields)) \X (1 .. Len(fields))] ==
        IF r[1] >= r[2] THEN fields[r[1]].w
        ELSE LET m == (r[1] + r[2]) \div 2 IN sum[<<r[1], m>>] + sum[<<m + 1, r[2]>>]
  IN  IF fields = <<>> THEN 0 ELSE sum[<<1, Len(fields)>>]

HeaderFaults ==
  {"BadMagic", "BadVersion", "Utf8", "BadValueType", "DuplicateKey", "TooManyDims"}
HeaderField == [w : Nat, err : HeaderFaults \cup {""}]

TensorInfos == [name : (Nat \cup {NoLayer}) \X STRING, shape : Seq(Nat), type : Nat, off : Nat]

\* What a file is, whatever is wrong with it. An unsigned value is a natural number.
IsFile(f) ==
  /\ f.size \in Nat /\ f.infos \in Seq(TensorInfos)
  /\ Len(f.kv) \in Nat /\ DOMAIN f.kv = 1 .. Len(f.kv)
  /\ \A i \in DOMAIN f.kv :
       /\ ValueFields(f.kv[i]) \in Seq(HeaderField)
       /\ HasType(f.kv[i], "UINT32") => f.kv[i].val \in Nat

ASSUME GgufAssumption ==
  /\ HeaderChunk \in Nat \ {0} /\ Len(Files) > 0 /\ ShortReads \subseteq DOMAIN Files
  /\ \A n \in DOMAIN Files : IsFile(Files[n])

-----------------------------------------------------------------------------
(* HeaderReader. A byte in the buffer is its offset in the file.           *)

\* A file to be opened, of the given header fields; infos are the last of them.
Opening(f, short, fields, infos) ==
  /\ file = [magic |-> f.magic, version |-> f.version, kv |-> f.kv, infos |-> f.infos,
             size |-> f.size, short |-> short]
  /\ stage = "header" /\ ahead = fields /\ index = {}
  /\ header = [end |-> WidthOf(fields), infoFields |-> Len(infos), infoBytes |-> WidthOf(infos)]
  /\ reader = [buf |-> <<>>, start |-> 0, read |-> 0, consumed |-> 0, want |-> 0, got |-> 0]

OpeningOf(f, short) ==
  Opening(f, short, Preamble(f) \o KvFields(f) \o InfoFields(f), InfoFields(f))

GgufInit == \E n \in DOMAIN Files : OpeningOf(Files[n], n \in ShortReads)

ThisField == Head(ahead)
Available == Len(reader.buf) - reader.start

\* The tensor-info section is reached, where the reader turns exact.
Exact == Len(ahead) <= header.infoFields

Parsing == stage = "header" /\ ahead # <<>>

\* What a refill asks the system for, when `need` bytes of a field of n are missing.
Ask(n, need) == IF Exact THEN need ELSE Max({need, HeaderChunk})

\* Mutant of Compacted: the bytes not yet parsed are dropped with the parsed ones.
CompactedToNothing(r) == [r EXCEPT !.buf = <<>>, !.start = 0]

\* The unread bytes move to the front of the buffer.
Compacted(r) == [r EXCEPT !.buf = SubSeq(r.buf, r.start + 1, Len(r.buf)), !.start = 0]

\* ensure(n): too few bytes are held.
StartRefill ==
  /\ Parsing /\ reader.want = 0 /\ Available < ThisField.w
  /\ LET r == Compacted(reader)
     IN  reader' = [r EXCEPT !.want = Ask(ThisField.w, ThisField.w - Len(r.buf))]
  /\ UNCHANGED <<file, header, stage, ahead, index>>

\* One read of the system, which returns some of the bytes asked for.
OsRead ==
  /\ Parsing /\ reader.want > 0
  /\ LET left == Min({reader.want - reader.got, file.size - (reader.read + reader.got)})
         need == ThisField.w - Len(reader.buf)
     IN  /\ left > 0
         /\ \E k \in (IF file.short THEN 1 .. left ELSE {left}) :
              LET got == reader.got + k IN
              reader' = IF got < need
                        THEN [reader EXCEPT !.got = got]
                        ELSE [reader EXCEPT !.got = 0, !.want = 0, !.read = @ + got,
                                !.buf = @ \o [i \in 1 .. got |-> reader.read + i - 1]]
  /\ UNCHANGED <<file, header, stage, ahead, index>>

\* The file ends inside the header.
OsReadNothing ==
  /\ Parsing /\ reader.want > 0
  /\ reader.read + reader.got >= file.size
  /\ stage' = "Truncated" /\ UNCHANGED <<file, header, ahead, reader, index>>

\* take(n): the parser gets its bytes, and ends open if their value is not acceptable.
Take ==
  /\ Parsing /\ reader.want = 0 /\ Available >= ThisField.w
  /\ IF ThisField.err # ""
     THEN stage' = ThisField.err /\ UNCHANGED <<ahead, reader>>
     ELSE /\ ahead' = Tail(ahead) /\ UNCHANGED stage
          /\ reader' = [reader EXCEPT !.start = @ + ThisField.w, !.consumed = @ + ThisField.w]
  /\ UNCHANGED <<file, header, index>>

HeaderRead ==
  /\ stage = "header" /\ ahead = <<>>
  /\ stage' = "index" /\ UNCHANGED <<file, header, ahead, reader, index>>

-----------------------------------------------------------------------------
(* Metadata and the tensor index of a parsed file.                         *)

Has(f, key) == \E i \in DOMAIN f.kv : f.kv[i].key = key
Kv(f, key)  == f.kv[CHOOSE i \in DOMAIN f.kv : f.kv[i].key = key]

\* get_u32 and its siblings: the error, "" for none. Array elements have the type asked for.
GetError(f, key, type, elem) ==
  IF ~Has(f, key) THEN "MissingKey"
  ELSE IF ~HasType(Kv(f, key), type) THEN "WrongType"
  ELSE IF elem # "" /\ \E i \in DOMAIN Kv(f, key).val : ~HasType(Kv(f, key).val[i], elem)
       THEN "WrongElemType"
  ELSE ""

AlignmentKey == "general.alignment"
Alignment(f) == IF Has(f, AlignmentKey) THEN Kv(f, AlignmentKey).val ELSE 32
\* Of a u32: 2^31 is one too, tested by its half.
IsPowerOfTwo(a) == a \in Nat \ {0} /\ (a = 1 \/ (a % 2 = 0 /\ \E i \in 0 .. 30 : a \div 2 = 2 ^ i))

DataOffset ==
  LET a == Alignment(file) IN ((header.end + a - 1) \div a) * a

Elements(shape) ==
  LET product[d \in 0 .. Len(shape)] == IF d = 0 THEN 1 ELSE product[d - 1] * shape[d]
  IN  product[Len(shape)]

\* A TensorInfo, for an info whose type is known.
TensorOf(i) ==
  LET t == file.infos[i]
      b == GgmlTypes[t.type]
  IN  [name |-> t.name, type |-> b[1], shape |-> t.shape, elems |-> Elements(t.shape),
       size |-> (Elements(t.shape) \div b[2]) * b[3], abs |-> DataOffset + t.off]

TensorEnd(t) == t.abs + t.size

PastFile(t) == TensorEnd(t) > file.size

TensorError(i) ==
  LET t == file.infos[i] IN
  IF t.type \notin DOMAIN GgmlTypes THEN "UnknownGgmlType"
  ELSE IF Elements(t.shape) % GgmlTypes[t.type][2] # 0 THEN "BadElementCount"
  ELSE IF PastFile(TensorOf(i)) THEN "OutOfFile"
  ELSE IF \E j \in 1 .. i - 1 : file.infos[j].name = t.name THEN "DuplicateTensor"
  ELSE ""

AlignmentError(f) ==
  IF Has(f, AlignmentKey) /\ ~HasType(Kv(f, AlignmentKey), "UINT32") THEN "WrongType"
  ELSE IF ~IsPowerOfTwo(Alignment(f)) THEN "BadAlignment" ELSE ""

\* The error of the first check of the sequence that fails, "" when all pass.
FirstError(errs) ==
  LET bad == {i \in DOMAIN errs : errs[i] # ""} IN IF bad = {} THEN "" ELSE errs[Min(bad)]

BuildIndex ==
  /\ stage = "index"
  /\ LET e == IF AlignmentError(file) # "" THEN AlignmentError(file)
              ELSE FirstError([i \in DOMAIN file.infos |-> TensorError(i)])
     IN  IF e = ""
         THEN stage' = "opened" /\ index' = {TensorOf(i) : i \in DOMAIN file.infos}
         ELSE stage' = e /\ UNCHANGED index
  /\ UNCHANGED <<file, header, ahead, reader>>

Open == StartRefill \/ OsRead \/ OsReadNothing \/ Take \/ HeaderRead \/ BuildIndex

-----------------------------------------------------------------------------
(* Lookups in the index of a file that has been opened.                    *)

HasTensor(name) == \E t \in index : t.name = name
Tensor(name)    == CHOOSE t \in index : t.name = name

LayerTensors(l) == {t \in index : LayerOf(t.name) = l}
NonLayerTensors == LayerTensors(NoLayer)

SumSizes(S) == SumFunctionOnSet([t \in S |-> t.size], S)

FirstByte(S) == Min({t.abs : t \in S})
LastByte(S)  == Max({TensorEnd(t) : t \in S})

\* Where a layer's tensors sit, and whether anything else sits among them.
LayerSpan(l) ==
  LET mine    == LayerTensors(l)
      from    == FirstByte(mine)
      to      == LastByte(mine)
      between == {t \in index \ mine : t.abs >= from /\ t.abs < to}
      Behind(t)   == {u \in mine : u.abs > t.abs}
      GapAfter(t) == IF Behind(t) = {} THEN 0 ELSE Max({0, FirstByte(Behind(t)) - TensorEnd(t)})
      gap     == Max({GapAfter(t) : t \in mine})
  IN  [start |-> from, end |-> to, sum |-> SumSizes(mine), gap |-> to - from - SumSizes(mine),
       contiguous |-> between = {} /\ gap < Alignment(file)]

\* read_raw and read_into: what a read of the whole tensor through the ordinary file fails with.
ReadError(t) == IF t.abs % Max({32, Alignment(file)}) # 0 THEN "Misaligned" ELSE ""
=============================================================================
