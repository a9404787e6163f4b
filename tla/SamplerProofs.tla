---------------------------- MODULE SamplerProofs ----------------------------
(***************************************************************************)
(* Theorems about the sampler (Sampler.tla), for every vocabulary, every   *)
(* row of logits, every settings file and option and every function of     *)
(* weights that does not grow with the distance from the greatest logit.   *)
(*                                                                         *)
(* A token's rank is the number of tokens before it; the sorted candidates *)
(* are the tokens by rank, so the cut by top-k, the cut of prefix sums by  *)
(* top-p and the cut of the weights by min-p are sets of ranks, and the    *)
(* warpers' sets are the same sets. The acceptance rule is algebra on sums *)
(* over these sets.                                                        *)
(***************************************************************************)
EXTENDS Sampler, DataLemmas, TLAPS

VocabSize == Cardinality(Vocab)

\* The tokens of greater logits, or of equal logits and smaller ids, and how many they are.
Below(l, t) == {s \in Vocab : Before(l, s, t)}
Rank(l, t)  == Cardinality(Below(l, t))

LEMMA VocabFacts ==
  /\ IsFiniteSet(Vocab) /\ Vocab \subseteq Nat /\ VocabSize \in Nat \ {0}
  /\ \A l \in LogitRows : l \in [Vocab -> Int]
<1>1. IsFiniteSet(Vocab) /\ Vocab \subseteq Nat /\ Vocab # {} /\ \A l \in LogitRows : l \in [Vocab -> Int]
  BY SamplerAssumption
<1>2. VocabSize \in Nat /\ VocabSize # 0
  BY <1>1, FS_CardinalityType, FS_EmptySet DEF VocabSize
<1>3. QED
  BY <1>1, <1>2

\* Tokens are ordered by their logits, and by their ids where these are equal.
LEMMA BeforeIsOrder ==
  ASSUME NEW l \in [Vocab -> Int], NEW a \in Vocab, NEW b \in Vocab
  PROVE  /\ ~Before(l, a, a) /\ ~(Before(l, a, b) /\ Before(l, b, a))
         /\ a # b => Before(l, a, b) \/ Before(l, b, a)
         /\ \A c \in Vocab : Before(l, a, b) /\ Before(l, b, c) => Before(l, a, c)
<1>1. a \in Nat /\ b \in Nat /\ l[a] \in Int /\ l[b] \in Int /\ \A c \in Vocab : c \in Nat /\ l[c] \in Int
  BY VocabFacts
<1>2. QED
  BY <1>1 DEF Before

\* Ranks count from 0 and respect the order, so no two tokens share one.
LEMMA RankFacts ==
  ASSUME NEW l \in [Vocab -> Int], NEW a \in Vocab
  PROVE  /\ Rank(l, a) \in 0 .. VocabSize - 1
         /\ \A b \in Vocab : Before(l, a, b) => Rank(l, a) < Rank(l, b)
<1>1. \A t \in Vocab : Below(l, t) \in SUBSET Vocab /\ IsFiniteSet(Below(l, t)) /\ Rank(l, t) \in Nat
  <2> SUFFICES ASSUME NEW t \in Vocab
               PROVE  Below(l, t) \in SUBSET Vocab /\ IsFiniteSet(Below(l, t)) /\ Rank(l, t) \in Nat
    OBVIOUS
  <2>1. Below(l, t) \in SUBSET Vocab
    BY DEF Below
  <2>2. IsFiniteSet(Below(l, t))
    BY <2>1, VocabFacts, FS_Subset
  <2>3. QED
    BY <2>1, <2>2, FS_CardinalityType DEF Rank
<1>2. Rank(l, a) < VocabSize
  <2>1. Below(l, a) \in SUBSET Vocab /\ a \notin Below(l, a)
    BY BeforeIsOrder DEF Below
  <2>2. Cardinality(Below(l, a)) <= Cardinality(Vocab) /\ Cardinality(Vocab) # Cardinality(Below(l, a))
    BY <2>1, VocabFacts, FS_Subset
  <2>3. QED
    BY <1>1, <2>2, VocabFacts DEF Rank, VocabSize
<1>3. ASSUME NEW b \in Vocab, Before(l, a, b) PROVE Rank(l, a) < Rank(l, b)
  <2>1. \A s \in Vocab : Before(l, s, a) => Before(l, s, b)
    BY <1>3, BeforeIsOrder
  <2>2. Below(l, a) \in SUBSET Below(l, b)
    BY <2>1 DEF Below
  <2>3. a \in Below(l, b) /\ a \notin Below(l, a)
    BY <1>3, BeforeIsOrder DEF Below
  <2>4. Cardinality(Below(l, a)) <= Cardinality(Below(l, b)) /\ Cardinality(Below(l, b)) # Cardinality(Below(l, a))
    BY <1>1, <2>2, <2>3, FS_Subset
  <2>5. QED
    BY <1>1, <2>4 DEF Rank
<1>4. QED
  BY <1>1, <1>2, <1>3, VocabFacts

LEMMA RankUnique ==
  ASSUME NEW l \in [Vocab -> Int], NEW a \in Vocab, NEW b \in Vocab, Rank(l, a) = Rank(l, b)
  PROVE  a = b
<1>1. Rank(l, a) \in Nat /\ Rank(l, b) \in Nat
  BY RankFacts
<1>2. ~Before(l, a, b) /\ ~Before(l, b, a)
  BY <1>1, RankFacts
<1>3. QED
  BY <1>2, BeforeIsOrder

\* ... and every rank is some token's: as many ranks as tokens.
LEMMA RankOnto ==
  ASSUME NEW l \in [Vocab -> Int], NEW i \in 0 .. VocabSize - 1
  PROVE  \E t \in Vocab : Rank(l, t) = i
<1> DEFINE R == 0 .. VocabSize - 1
           f == [t \in Vocab |-> Rank(l, t)]
<1>1. f \in [Vocab -> R]
  BY RankFacts
<1>2. \A a, b \in Vocab : f[a] = f[b] => a = b
  BY RankUnique
<1>3. IsFiniteSet(R) /\ Cardinality(R) = VocabSize
  <2>1. VocabSize - 1 \in Int /\ 0 \in Int /\ VocabSize - 1 >= 0
    BY VocabFacts
  <2>2. IsFiniteSet(0 .. VocabSize - 1) /\ Cardinality(0 .. VocabSize - 1) = (VocabSize - 1) - 0 + 1
    BY <2>1, FS_Interval
  <2>3. QED
    BY <2>1, <2>2, VocabFacts
<1> HIDE DEF f, R
<1>4. f \in Injection(Vocab, R)
  BY <1>1, <1>2 DEF Injection, IsInjective
<1>5. f \in Surjection(Vocab, R)
  <2>1. Cardinality(Vocab) = Cardinality(R)
    BY <1>3 DEF VocabSize
  <2>2. QED
    BY <1>3, <1>4, <2>1, FS_Injection
<1>6. \E t \in Vocab : f[t] = i
  BY <1>5 DEF Surjection, R
<1>7. QED
  BY <1>6 DEF f

-----------------------------------------------------------------------------
\* The tokens in descending order: each once, the i-th behind i - 1 others.
LEMMA DescendingFacts ==
  ASSUME NEW l \in [Vocab -> Int]
  PROVE  /\ DOMAIN Descending(l) = 1 .. VocabSize /\ Descending(l) \in [1 .. VocabSize -> Vocab]
         /\ \A i \in 1 .. VocabSize : Rank(l, Descending(l)[i]) = i - 1
         /\ \A t \in Vocab : Rank(l, t) + 1 \in 1 .. VocabSize /\ Descending(l)[Rank(l, t) + 1] = t
<1> DEFINE d(i) == CHOOSE t \in Vocab : Rank(l, t) = i - 1
<1>1. \A i \in 1 .. VocabSize : d(i) \in Vocab /\ Rank(l, d(i)) = i - 1
  <2> SUFFICES ASSUME NEW i \in 1 .. VocabSize PROVE d(i) \in Vocab /\ Rank(l, d(i)) = i - 1
    OBVIOUS
  <2>1. i - 1 \in 0 .. VocabSize - 1
    BY VocabFacts
  <2>2. \E t \in Vocab : Rank(l, t) = i - 1
    BY <2>1, RankOnto
  <2>3. QED
    BY <2>2
<1>2. Descending(l) = [i \in 1 .. VocabSize |-> d(i)]
  BY DEF Descending, VocabSize, Rank, Below
<1> HIDE DEF d
<1>3. ASSUME NEW t \in Vocab PROVE Rank(l, t) + 1 \in 1 .. VocabSize /\ d(Rank(l, t) + 1) = t
  <2>1. Rank(l, t) \in 0 .. VocabSize - 1 /\ VocabSize \in Nat
    BY RankFacts, VocabFacts
  <2>2. Rank(l, t) + 1 \in 1 .. VocabSize /\ (Rank(l, t) + 1) - 1 = Rank(l, t)
    BY <2>1
  <2>3. QED
    BY <1>1, <2>2, RankUnique
<1>4. QED
  BY <1>1, <1>2, <1>3

LEMMA DescendingOrder ==
  ASSUME NEW l \in [Vocab -> Int], NEW i \in 1 .. VocabSize, NEW j \in 1 .. VocabSize
  PROVE  /\ Descending(l)[i] = Descending(l)[j] => i = j
         /\ Before(l, Descending(l)[i], Descending(l)[j]) <=> i < j
<1> DEFINE a == Descending(l)[i]
           b == Descending(l)[j]
<1>1. a \in Vocab /\ b \in Vocab /\ Rank(l, a) = i - 1 /\ Rank(l, b) = j - 1
  BY DescendingFacts
<1> HIDE DEF a, b
<1>2. a = b => i = j
  BY <1>1, VocabFacts
<1>3. Before(l, a, b) => i < j
  <2>1. Before(l, a, b) => Rank(l, a) < Rank(l, b)
    BY <1>1, RankFacts
  <2>2. QED
    BY <1>1, <2>1, VocabFacts
<1>4. Before(l, b, a) => j < i
  <2>1. Before(l, b, a) => Rank(l, b) < Rank(l, a)
    BY <1>1, RankFacts
  <2>2. QED
    BY <1>1, <2>1, VocabFacts
<1>5. i < j => Before(l, a, b)
  <2>1. i < j => a # b
    BY <1>1, VocabFacts
  <2>2. i < j => ~(j < i)
    BY VocabFacts
  <2>3. QED
    BY <1>1, <1>4, <2>1, <2>2, BeforeIsOrder
<1>6. QED
  BY <1>2, <1>3, <1>5 DEF a, b

-----------------------------------------------------------------------------
\* The settings are some file's and some flags'. Their values are typed, and the weights of their
\* temperature do not grow with the distance.
SettingsInv == \E f \in Files, o \in Flags : cfg = Resolved(f, o)

SettingNames == {"temperature", "top_k", "top_p", "min_p"}

Typed(s) ==
  /\ s.temperature \in Int /\ s.top_k \in Nat
  /\ s.top_p[1] \in Int /\ s.top_p[2] \in Nat \ {0}
  /\ s.min_p[1] \in Int /\ s.min_p[2] \in Nat \ {0}

LEMMA FromFileTyped ==
  ASSUME NEW f, \A x \in DOMAIN f : IsSetting(x, f[x])
  PROVE  /\ DOMAIN FromFile(f) = SettingNames
         /\ \A x \in SettingNames : IsSetting(x, FromFile(f)[x])
<1> DEFINE given == [x \in SettingNames |->
                  IF x \in DOMAIN f THEN f[x]
                  ELSE CASE x = "temperature" -> 1 [] x = "top_k" -> 0 [] x = "top_p" -> <<1, 1>> [] OTHER -> <<0, 1>>]
           greedy == [given EXCEPT !.temperature = 0]
<1>1. \A x \in SettingNames : IsSetting(x, given[x])
  BY DEF IsSetting, SettingNames
<1>2. DOMAIN given = SettingNames /\ DOMAIN greedy = SettingNames
  OBVIOUS
<1>3. \A x \in SettingNames : IsSetting(x, greedy[x])
  <2>1. \A x \in SettingNames \ {"temperature"} : greedy[x] = given[x]
    OBVIOUS
  <2>2. greedy["temperature"] = 0
    BY DEF SettingNames
  <2>3. IsSetting("temperature", greedy["temperature"])
    BY <2>2 DEF IsSetting
  <2>4. QED
    BY <1>1, <2>1, <2>3
<1>4. FromFile(f) = given \/ FromFile(f) = greedy
  BY DEF FromFile, SettingNames
<1> HIDE DEF given, greedy
<1>5. QED
  BY <1>1, <1>2, <1>3, <1>4

LEMMA ResolvedTyped ==
  ASSUME NEW f \in Files, NEW o \in Flags
  PROVE  Typed(Resolved(f, o))
<1>1. \A x \in DOMAIN f : IsSetting(x, f[x])
  BY SamplerAssumption
<1>2. \A x \in DOMAIN o : IsSetting(x, o[x])
  BY SamplerAssumption
<1>3. DOMAIN FromFile(f) = SettingNames /\ \A x \in SettingNames : IsSetting(x, FromFile(f)[x])
  BY <1>1, FromFileTyped
<1>4. DOMAIN FromFile(<<>>) = SettingNames /\ \A x \in SettingNames : IsSetting(x, FromFile(<<>>)[x])
  <2>1. \A x \in DOMAIN <<>> : IsSetting(x, <<>>[x])
    OBVIOUS
  <2>2. QED
    BY <2>1, FromFileTyped
<1>5. ASSUME NEW r, \A x \in SettingNames : IsSetting(x, r[x])
      PROVE  Typed(r)
  <2>1. IsSetting("temperature", r["temperature"]) /\ IsSetting("top_k", r["top_k"])
        /\ IsSetting("top_p", r["top_p"]) /\ IsSetting("min_p", r["min_p"])
    BY <1>5 DEF SettingNames
  <2>2. QED
    BY <2>1 DEF IsSetting, Typed
<1>6. CASE DOMAIN o = {}
  <2> DEFINE e == FromFile(<<>>)   r == [e EXCEPT !.temperature = 0]
  <2>1. Resolved(f, o) = r
    BY <1>6 DEF Resolved
  <2>2. \A x \in SettingNames \ {"temperature"} : r[x] = e[x]
    BY <1>4
  <2>3. r["temperature"] = 0
    BY <1>4 DEF SettingNames
  <2> HIDE DEF r
  <2>4. \A x \in SettingNames \ {"temperature"} : IsSetting(x, r[x])
    BY <1>4, <2>2
  <2>5. IsSetting("temperature", r["temperature"])
    BY <2>3 DEF IsSetting
  <2>6. QED
    BY <1>5, <2>1, <2>4, <2>5
<1>7. CASE DOMAIN o # {}
  <2> DEFINE r == [x \in SettingNames |-> IF x \in DOMAIN o THEN o[x] ELSE FromFile(f)[x]]
  <2>1. Resolved(f, o) = r
    BY <1>3, <1>7 DEF Resolved
  <2>2. \A x \in SettingNames : IsSetting(x, r[x])
    BY <1>2, <1>3
  <2> HIDE DEF r
  <2>3. QED
    BY <1>5, <2>1, <2>2
<1>8. QED
  BY <1>6, <1>7

LEMMA SettingsFacts ==
  ASSUME SettingsInv
  PROVE  /\ Typed(cfg)
         /\ ~Greedy => \A l \in LogitRows : \A a, b, c \in Vocab : l[a] >= l[b] /\ l[b] >= l[c] =>
              /\ Weight(cfg.temperature, l[a] - l[b]) \in Nat
              /\ Weight(cfg.temperature, l[a] - l[c]) <= Weight(cfg.temperature, l[a] - l[b])
<1>1. PICK f \in Files, o \in Flags : cfg = Resolved(f, o)
  BY DEF SettingsInv
<1>2. Typed(cfg)
  BY <1>1, ResolvedTyped
<1>3. ASSUME ~Greedy, NEW l \in LogitRows, NEW a \in Vocab, NEW b \in Vocab, NEW c \in Vocab, l[a] >= l[b], l[b] >= l[c]
      PROVE  /\ Weight(cfg.temperature, l[a] - l[b]) \in Nat
             /\ Weight(cfg.temperature, l[a] - l[c]) <= Weight(cfg.temperature, l[a] - l[b])
  <2>1. Resolved(f, o).temperature > 0
    BY <1>1, <1>2, <1>3 DEF Greedy, Typed
  <2>2. /\ Weight(Resolved(f, o).temperature, l[a] - l[b]) \in Nat
        /\ Weight(Resolved(f, o).temperature, l[a] - l[c]) <= Weight(Resolved(f, o).temperature, l[a] - l[b])
    BY <1>3, <2>1, WeightAssumption
  <2>3. QED
    BY <1>1, <2>2
<1>4. QED
  BY <1>2, <1>3

-----------------------------------------------------------------------------
\* The counts: how many candidates top-p and min-p leave. At least one, and a candidate stays
\* exactly while the condition on it holds.
LEMMA NCandFacts == ASSUME Typed(cfg) PROVE NCand \in 1 .. VocabSize
<1>1. cfg.top_k \in Nat /\ VocabSize \in Nat \ {0}
  BY VocabFacts DEF Typed
<1>2. QED
  BY <1>1 DEF NCand, VocabSize

LEMMA SequenceOfFunction ==
  ASSUME NEW n \in Nat, NEW S, NEW w \in [1 .. n -> S]
  PROVE  w \in Seq(S) /\ Len(w) = n
  BY SMT

\* Sums of the first k of n numbers.
SumUpTo(w, k) == SumFunctionOnSet(w, 1 .. k)

LEMMA SumUpToFacts ==
  ASSUME NEW n \in Nat, NEW w \in [1 .. n -> Nat]
  PROVE  /\ SumOf(w) = SumUpTo(w, n) /\ SumOf(w) \in Nat
         /\ \A k \in 0 .. n : SumOf(SubSeq(w, 1, k)) = SumUpTo(w, k) /\ SumUpTo(w, k) \in Nat
         /\ \A j, k \in 0 .. n : j <= k => SumUpTo(w, j) <= SumUpTo(w, k)
<1>1. \A k \in 0 .. n : IsFiniteSet(1 .. k)
  BY FS_Interval
<1>2. \A k \in 0 .. n : \A i \in 1 .. k : w[i] \in Nat
  OBVIOUS
<1>3. ASSUME NEW v, DOMAIN v = 1 .. Len(v) PROVE SumOf(v) = SumFunctionOnSet(v, 1 .. Len(v))
  BY <1>3 DEF SumOf, FoldSeq, FoldFunction, FoldFunctionOnSet, SumFunctionOnSet
<1>4. Len(w) = n /\ DOMAIN w = 1 .. n /\ w \in Seq(Nat)
  BY SequenceOfFunction
<1>5. SumOf(w) = SumUpTo(w, n)
  BY <1>3, <1>4 DEF SumUpTo
<1>6. ASSUME NEW k \in 0 .. n
      PROVE  SumOf(SubSeq(w, 1, k)) = SumUpTo(w, k) /\ SumUpTo(w, k) \in Nat
  <2> DEFINE v == SubSeq(w, 1, k)
  <2>1. v \in Seq(Nat) /\ Len(v) = k /\ \A i \in 1 .. k : v[i] = w[i]
    BY <1>4, PrefixFacts
  <2> HIDE DEF v
  <2>2. DOMAIN v = 1 .. Len(v)
    BY <2>1
  <2>3. SumOf(v) = SumFunctionOnSet(v, 1 .. k)
    BY <1>3, <2>1, <2>2
  <2>4. \A i \in 1 .. k : w[i] \in Int /\ v[i] = w[i]
    BY <1>2, <2>1
  <2>5. SumFunctionOnSet(v, 1 .. k) = SumFunctionOnSet(w, 1 .. k)
    BY <1>1, <2>4, SumEqual
  <2>6. SumFunctionOnSet(w, 1 .. k) \in Nat
    BY <1>1, <1>2, SumPart
  <2>7. QED
    BY <2>3, <2>5, <2>6 DEF v, SumUpTo
<1>7. ASSUME NEW j \in 0 .. n, NEW k \in 0 .. n, j <= k PROVE SumUpTo(w, j) <= SumUpTo(w, k)
  <2>1. 1 .. j \in SUBSET (1 .. k)
    BY <1>7
  <2>2. SumFunctionOnSet(w, 1 .. j) <= SumFunctionOnSet(w, 1 .. k)
    BY <1>1, <1>2, <2>1, SumPart
  <2>3. QED
    BY <2>2 DEF SumUpTo
<1>8. SumUpTo(w, n) \in Nat
  BY <1>6
<1>9. QED
  BY <1>5, <1>6, <1>7, <1>8

LEMMA TimesMonotone ==
  ASSUME NEW x \in Int, NEW y \in Int, NEW b \in Nat, x <= y
  PROVE  x * b <= y * b
<1>1. (y - x) * b >= 0
  BY SMT
<1>2. QED
  BY <1>1, SMT

LEMMA TopPFacts ==
  ASSUME Typed(cfg), NEW n \in Nat \ {0}, NEW w \in [1 .. n -> Nat]
  PROVE  /\ TopPCount(w) \in 1 .. n
         /\ \A k \in 1 .. n : k <= TopPCount(w) <=>
              \/ cfg.top_p[1] >= cfg.top_p[2] \/ k = 1
              \/ SumUpTo(w, k - 1) * cfg.top_p[2] < SumUpTo(w, n) * cfg.top_p[1]
<1> DEFINE a == cfg.top_p[1]   b == cfg.top_p[2]
           C == {1} \cup {k \in 1 .. n : SumUpTo(w, k - 1) * b < a * SumUpTo(w, n)}
<1>1. a \in Int /\ b \in Nat \ {0}
  BY DEF Typed
<1>2. Len(w) = n
  BY SequenceOfFunction
<1>3. CASE a >= b
  <2>1. TopPCount(w) = n
    BY <1>2, <1>3 DEF TopPCount
  <2>2. QED
    BY <1>3, <2>1
<1>4. CASE ~(a >= b)
  <2>1. SumOf(w) = SumUpTo(w, n) /\ SumOf(w) \in Nat
    BY SumUpToFacts
  <2>2. \A k \in 1 .. n : SumOf(SubSeq(w, 1, k - 1)) = SumUpTo(w, k - 1) /\ SumUpTo(w, k - 1) \in Nat
    <3>1. \A k \in 1 .. n : k - 1 \in 0 .. n
      OBVIOUS
    <3>2. \A k \in 0 .. n : SumOf(SubSeq(w, 1, k)) = SumUpTo(w, k) /\ SumUpTo(w, k) \in Nat
      BY SumUpToFacts
    <3>3. QED
      BY <3>1, <3>2
  <2>3. TopPCount(w) = Max(C)
    <3>1. {k \in 1 .. Len(w) : SumOf(SubSeq(w, 1, k - 1)) * b < a * SumOf(w)}
            = {k \in 1 .. n : SumUpTo(w, k - 1) * b < a * SumUpTo(w, n)}
      BY <1>2, <2>1, <2>2
    <3>2. QED
      BY <1>4, <3>1 DEF TopPCount
  <2>4. C \in SUBSET (0 .. n) /\ C # {} /\ 1 \in C /\ C \in SUBSET (1 .. n)
    OBVIOUS
  <2> DEFINE m == Max(C)
  <2>5. m \in C /\ \A y \in C : y <= m
    BY <2>4, MaxOfSet
  <2>6. \A k \in 1 .. n : k \in C <=> k = 1 \/ SumUpTo(w, k - 1) * b < SumUpTo(w, n) * a
    <3>1. SumUpTo(w, n) \in Int
      BY <2>1
    <3>2. SumUpTo(w, n) * a = a * SumUpTo(w, n)
      BY <1>1, <3>1
    <3>3. QED
      BY <3>2
  <2> HIDE DEF C, a, b
  <2>7. m \in 1 .. n
    BY <2>4, <2>5
  <2> HIDE DEF m
  <2>8. ASSUME NEW k \in 1 .. n, k <= m PROVE k \in C
    <3>1. CASE k = 1
      BY <2>4, <3>1
    <3>2. CASE k # 1
      <4>1. m \in 1 .. n /\ m # 1
        BY <2>7, <2>8, <3>2
      <4>2. SumUpTo(w, m - 1) * b < SumUpTo(w, n) * a
        BY <2>5, <2>6, <4>1
      <4>3. SumUpTo(w, k - 1) <= SumUpTo(w, m - 1)
        <5>1. k - 1 \in 0 .. n /\ m - 1 \in 0 .. n /\ k - 1 <= m - 1
          BY <2>7, <2>8
        <5>2. \A i, j \in 0 .. n : i <= j => SumUpTo(w, i) <= SumUpTo(w, j)
          BY SumUpToFacts
        <5>3. QED
          BY <5>1, <5>2
      <4>4. SumUpTo(w, k - 1) \in Nat /\ SumUpTo(w, m - 1) \in Nat /\ SumUpTo(w, n) \in Nat
        BY <2>1, <2>2, <2>7
      <4>5. SumUpTo(w, k - 1) * b <= SumUpTo(w, m - 1) * b
        <5> DEFINE p == SumUpTo(w, k - 1)   r == SumUpTo(w, m - 1)
        <5>1. p \in Int /\ r \in Int /\ p <= r /\ b \in Nat
          BY <1>1, <4>3, <4>4
        <5> HIDE DEF p, r
        <5>2. p * b <= r * b
          BY <5>1, TimesMonotone
        <5>3. QED
          BY <5>2 DEF p, r
      <4> DEFINE x == SumUpTo(w, k - 1) * b   y == SumUpTo(w, m - 1) * b   z == SumUpTo(w, n) * a
      <4>6. x \in Int /\ y \in Int /\ z \in Int
        BY <1>1, <4>4
      <4>7. x <= y /\ y < z
        BY <4>2, <4>5
      <4> HIDE DEF x, y, z
      <4>8. x < z
        BY <4>6, <4>7
      <4>9. QED
        BY <2>6, <4>8 DEF x, z
    <3>3. QED
      BY <3>1, <3>2
  <2>9. \A k \in 1 .. n : k <= m <=> k \in C
    BY <2>5, <2>8
  <2>10. TopPCount(w) = m
    BY <2>3 DEF m
  <2>11. ~(cfg.top_p[1] >= cfg.top_p[2])
    BY <1>4 DEF a, b
  <2>12. QED
    BY <2>6, <2>7, <2>9, <2>10, <2>11 DEF a, b
<1>5. QED
  BY <1>3, <1>4

LEMMA MinPFacts ==
  ASSUME Typed(cfg), NEW N \in Nat \ {0}, NEW w \in [1 .. N -> Nat], NEW n \in 1 .. N,
         \A i, j \in 1 .. N : i <= j => w[j] <= w[i]
  PROVE  /\ MinPCount(w, n) \in 1 .. n
         /\ \A k \in 1 .. n : k <= MinPCount(w, n) <=>
              k = 1 \/ w[k] * cfg.min_p[2] >= w[1] * cfg.min_p[1]
<1> DEFINE a == cfg.min_p[1]   b == cfg.min_p[2]
           C == {c \in 1 .. n : \A i \in 2 .. c : w[i] * b >= a * w[1]}
           m == Max(C)
<1>1. a \in Int /\ b \in Nat \ {0} /\ w[1] \in Int /\ \A i \in 1 .. N : w[i] \in Int
  BY DEF Typed
<1>2. a * w[1] = w[1] * a
  BY <1>1
<1>3. MinPCount(w, n) = m
  BY DEF MinPCount
<1>4. 1 \in C /\ C \in SUBSET (0 .. n) /\ C \in SUBSET (1 .. n)
  OBVIOUS
<1> HIDE DEF m
<1>5. m \in C /\ \A y \in C : y <= m
  <2>1. C # {}
    BY <1>4
  <2> HIDE DEF C
  <2>3. n \in Nat
    OBVIOUS
  <2>2. QED
    BY <1>4, <2>1, <2>3, MaxOfSet DEF m
<1>6. ASSUME NEW k \in 1 .. n PROVE k \in C <=> k = 1 \/ w[k] * b >= w[1] * a
  <2>1. ASSUME k # 1, w[k] * b >= w[1] * a, NEW i \in 2 .. k PROVE w[i] * b >= a * w[1]
    <3>1. w[k] <= w[i] /\ w[k] \in Int /\ w[i] \in Int
      <4>1. i \in 1 .. N /\ k \in 1 .. N /\ i <= k
        OBVIOUS
      <4>2. QED
        BY <1>1, <4>1
    <3>2. w[k] * b <= w[i] * b
      BY <1>1, <3>1, TimesMonotone
    <3> DEFINE x == w[k] * b   y == w[i] * b   z == w[1] * a
    <3>3. x \in Int /\ y \in Int /\ z \in Int
      BY <1>1, <3>1, SMTT(30)
    <3>4. x <= y /\ x >= z
      BY <2>1, <3>2
    <3> HIDE DEF x, y, z
    <3>5. y >= z
      BY <3>3, <3>4
    <3>6. QED
      BY <1>2, <3>5 DEF y, z
  <2>2. k \in C /\ k # 1 => w[k] * b >= w[1] * a
    <3>1. k # 1 => k \in 2 .. k
      OBVIOUS
    <3>2. QED
      BY <1>2, <3>1
  <2>3. QED
    BY <1>4, <2>1, <2>2
<1>7. ASSUME NEW k \in 1 .. n, k <= m PROVE k \in C
  <2>1. \A i \in 2 .. k : i \in 2 .. m
    BY <1>4, <1>5, <1>7
  <2>2. QED
    BY <1>5, <2>1
<1> HIDE DEF C
<1>8. \A k \in 1 .. n : k <= m <=> k \in C
  BY <1>5, <1>7
<1>9. m \in 1 .. n
  BY <1>4, <1>5
<1>10. QED
  BY <1>3, <1>6, <1>8, <1>9

-----------------------------------------------------------------------------
\* The weights of the candidates, in descending order, and how many are kept.
CandWeights(l) == [i \in 1 .. NCand |-> Weight(cfg.temperature, l[Descending(l)[1]] - l[Descending(l)[i]])]
KeptCount(l)   == MinPCount(CandWeights(l), TopPCount(CandWeights(l)))

LEMMA CandWeightsFacts ==
  ASSUME SettingsInv, ~Greedy, NEW l \in LogitRows
  PROVE  /\ CandWeights(l) \in [1 .. NCand -> Nat]
         /\ \A i, j \in 1 .. NCand : i <= j => CandWeights(l)[j] <= CandWeights(l)[i]
<1> DEFINE D == Descending(l)
<1>1. Typed(cfg) /\ NCand \in 1 .. VocabSize /\ VocabSize \in Nat \ {0} /\ l \in [Vocab -> Int]
  BY SettingsFacts, NCandFacts, VocabFacts
<1>2. \A i \in 1 .. NCand : i \in 1 .. VocabSize
  BY <1>1
<1>3. \A i \in 1 .. VocabSize : D[i] \in Vocab /\ l[D[i]] \in Int
  BY <1>1, DescendingFacts
<1>4. \A i, j \in 1 .. VocabSize : Before(l, D[i], D[j]) <=> i < j
  BY <1>1, DescendingOrder
<1>5. \A i, j \in 1 .. VocabSize : i <= j => l[D[i]] >= l[D[j]]
  <2> SUFFICES ASSUME NEW i \in 1 .. VocabSize, NEW j \in 1 .. VocabSize, i <= j PROVE l[D[i]] >= l[D[j]]
    OBVIOUS
  <2>1. CASE i = j
    BY <1>3, <2>1
  <2>2. CASE i # j
    <3>1. Before(l, D[i], D[j])
      <4>1. i < j
        BY <2>2
      <4>2. QED
        BY <1>4, <4>1
    <3>2. QED
      BY <1>3, <3>1 DEF Before
  <2>3. QED
    BY <2>1, <2>2
<1> HIDE DEF D
<1>6. 1 \in 1 .. VocabSize /\ \A i \in 1 .. VocabSize : 1 <= i
  BY <1>1
<1>7. \A i, j \in 1 .. VocabSize : i <= j =>
        /\ Weight(cfg.temperature, l[D[1]] - l[D[i]]) \in Nat
        /\ Weight(cfg.temperature, l[D[1]] - l[D[j]]) <= Weight(cfg.temperature, l[D[1]] - l[D[i]])
  <2> SUFFICES ASSUME NEW i \in 1 .. VocabSize, NEW j \in 1 .. VocabSize, i <= j
               PROVE  /\ Weight(cfg.temperature, l[D[1]] - l[D[i]]) \in Nat
                      /\ Weight(cfg.temperature, l[D[1]] - l[D[j]]) <= Weight(cfg.temperature, l[D[1]] - l[D[i]])
    OBVIOUS
  <2>1. l[D[1]] >= l[D[i]] /\ l[D[i]] >= l[D[j]]
    BY <1>5, <1>6
  <2>2. D[1] \in Vocab /\ D[i] \in Vocab /\ D[j] \in Vocab
    BY <1>3, <1>6
  <2>3. QED
    BY <2>1, <2>2, SettingsFacts
<1>8. CandWeights(l) = [i \in 1 .. NCand |-> Weight(cfg.temperature, l[D[1]] - l[D[i]])]
  BY DEF CandWeights, D
<1>9. \A i \in 1 .. NCand : i <= i /\ i \in 1 .. VocabSize
  BY <1>1
<1>10. \A i \in 1 .. NCand : Weight(cfg.temperature, l[D[1]] - l[D[i]]) \in Nat
  BY <1>7, <1>9
<1>11. QED
  BY <1>2, <1>7, <1>8, <1>10

\* A kept set: a token or more, each once, with weights that add up to the mass.
KeptSets == [ids : Seq(Vocab), w : Seq(Nat), mass : Nat]

IsKept(s) ==
  /\ s \in KeptSets
  /\ s.ids \in Seq(Vocab) /\ Len(s.ids) >= 1
  /\ \A i, j \in 1 .. Len(s.ids) : s.ids[i] = s.ids[j] => i = j
  /\ s.w \in [1 .. Len(s.ids) -> Nat]
  /\ s.mass = SumFunctionOnSet(s.w, 1 .. Len(s.ids))

LEMMA KeptSetFacts ==
  ASSUME NEW n \in Nat \ {0}, NEW ids \in Seq(Vocab), Len(ids) = n, NEW w \in [1 .. n -> Nat],
         \A i, j \in 1 .. n : ids[i] = ids[j] => i = j
  PROVE  IsKept(KeptSet(ids, w))
<1>1. SumOf(w) = SumFunctionOnSet(w, 1 .. n)
  BY SumUpToFacts DEF SumUpTo
<1>2. SumOf(w) \in Nat /\ w \in Seq(Nat)
  BY SumUpToFacts, SequenceOfFunction
<1>3. QED
  BY <1>1, <1>2 DEF IsKept, KeptSet, KeptSets

LEMMA KeptCountFacts ==
  ASSUME SettingsInv, ~Greedy, NEW l \in LogitRows
  PROVE  /\ TopPCount(CandWeights(l)) \in 1 .. NCand
         /\ KeptCount(l) \in 1 .. TopPCount(CandWeights(l))
         /\ NCand \in 1 .. VocabSize /\ VocabSize \in Nat \ {0}
<1> DEFINE w == CandWeights(l)
<1>1. Typed(cfg) /\ NCand \in 1 .. VocabSize /\ VocabSize \in Nat \ {0}
  BY SettingsFacts, NCandFacts, VocabFacts
<1>2. w \in [1 .. NCand -> Nat] /\ \A i, j \in 1 .. NCand : i <= j => w[j] <= w[i]
  BY CandWeightsFacts
<1>3. NCand \in Nat \ {0}
  BY <1>1
<1> HIDE DEF w
<1>4. TopPCount(w) \in 1 .. NCand
  BY <1>1, <1>2, <1>3, TopPFacts
<1>5. MinPCount(w, TopPCount(w)) \in 1 .. TopPCount(w)
  BY <1>1, <1>2, <1>3, <1>4, MinPFacts
<1>6. QED
  BY <1>1, <1>4, <1>5 DEF w, KeptCount

LEMMA ProcessFacts ==
  ASSUME SettingsInv, NEW l \in LogitRows
  PROVE  /\ IsKept(Process(l))
         /\ Greedy => Process(l).ids = <<Argmax(l)>>
         /\ ~Greedy => /\ Len(Process(l).ids) = KeptCount(l)
                       /\ \A i \in 1 .. KeptCount(l) : Process(l).ids[i] = Descending(l)[i]
                       /\ \A i \in 1 .. KeptCount(l) : Process(l).w[i] = CandWeights(l)[i]
<1>1. l \in [Vocab -> Int] /\ VocabSize \in Nat \ {0}
  BY VocabFacts
<1>2. Descending(l) \in [1 .. VocabSize -> Vocab] /\ Argmax(l) \in Vocab
  <2>1. Descending(l) \in [1 .. VocabSize -> Vocab]
    BY <1>1, DescendingFacts
  <2>2. 1 \in 1 .. VocabSize
    BY <1>1
  <2>3. QED
    BY <2>1, <2>2 DEF Argmax
<1>3. CASE Greedy
  <2> DEFINE a == Argmax(l)   ids == <<a>>   w == <<1>>
  <2>1. Process(l) = KeptSet(ids, w)
    BY <1>3 DEF Process
  <2>2. ids \in Seq(Vocab) /\ Len(ids) = 1 /\ \A i, j \in 1 .. 1 : ids[i] = ids[j] => i = j
    BY <1>2
  <2>3. w \in [1 .. 1 -> Nat]
    OBVIOUS
  <2>4. Process(l).ids = ids
    BY <2>1 DEF KeptSet
  <2> HIDE DEF ids, w
  <2>5. IsKept(KeptSet(ids, w))
    <3>1. 1 \in Nat \ {0}
      OBVIOUS
    <3>2. QED
      BY <2>2, <2>3, <3>1, KeptSetFacts
  <2>6. QED
    BY <1>3, <2>1, <2>4, <2>5 DEF ids
<1>4. CASE ~Greedy
  <2> DEFINE D == Descending(l)
             cand == SubSeq(D, 1, NCand)
             w == CandWeights(l)
             n == KeptCount(l)
             ids == SubSeq(cand, 1, n)
             u == SubSeq(w, 1, n)
  <2>1. TopPCount(w) \in 1 .. NCand /\ n \in 1 .. TopPCount(w) /\ NCand \in 1 .. VocabSize
    BY <1>4, KeptCountFacts
  <2>2. w \in [1 .. NCand -> Nat]
    BY <1>4, CandWeightsFacts
  <2>3. D \in Seq(Vocab) /\ Len(D) = VocabSize
    BY <1>1, <1>2, SequenceOfFunction
  <2> HIDE DEF n, D
  <2>4. n \in 0 .. NCand /\ n \in 1 .. NCand /\ NCand \in 0 .. VocabSize /\ n \in Nat \ {0} /\ NCand \in Nat
    BY <1>1, <2>1
  <2>5. cand \in Seq(Vocab) /\ Len(cand) = NCand /\ \A i \in 1 .. NCand : cand[i] = D[i]
    <3>1. NCand \in 0 .. Len(D)
      BY <2>3, <2>4
    <3>2. QED
      BY <2>3, <3>1, PrefixFacts
  <2>6. Process(l) = KeptSet(ids, u)
    <3>1. 1 \in 1 .. NCand /\ \A i \in 1 .. NCand : cand[i] = D[i]
      BY <2>4, <2>5
    <3>2. [i \in 1 .. NCand |-> Weight(cfg.temperature, l[cand[1]] - l[cand[i]])] = w
      BY <3>1 DEF CandWeights, D
    <3>3. KeptCount(l) = MinPCount(w, TopPCount(w))
      BY DEF KeptCount
    <3> DEFINE v == [i \in 1 .. NCand |-> Weight(cfg.temperature, l[cand[1]] - l[cand[i]])]
    <3>4. Process(l) = KeptSet(SubSeq(cand, 1, MinPCount(v, TopPCount(v))), SubSeq(v, 1, MinPCount(v, TopPCount(v))))
      BY <1>4 DEF Process, D
    <3>5. v = w
      BY <3>2
    <3> HIDE DEF v, w, cand
    <3>6. QED
      BY <3>3, <3>4, <3>5 DEF n
  <2> HIDE DEF cand, w
  <2>7. ids \in Seq(Vocab) /\ Len(ids) = n /\ \A i \in 1 .. n : ids[i] = cand[i]
    <3>1. n \in 0 .. Len(cand)
      BY <2>4, <2>5
    <3>2. QED
      BY <2>5, <3>1, PrefixFacts
  <2>8. u \in Seq(Nat) /\ Len(u) = n /\ \A i \in 1 .. n : u[i] = w[i]
    <3>1. w \in Seq(Nat) /\ Len(w) = NCand
      BY <2>2, <2>4, SequenceOfFunction
    <3>2. QED
      BY <2>4, <3>1, PrefixFacts
  <2> HIDE DEF ids, u
  <2>9. u \in [1 .. n -> Nat]
    BY <2>8
  <2>10. \A i \in 1 .. n : ids[i] = D[i] /\ i \in 1 .. VocabSize
    <3>1. \A i \in 1 .. n : i \in 1 .. NCand /\ i \in 1 .. VocabSize
      BY <1>1, <2>4
    <3>2. QED
      BY <2>5, <2>7, <3>1
  <2>11. \A i, j \in 1 .. VocabSize : D[i] = D[j] => i = j
    BY <1>1, DescendingOrder DEF D
  <2>12. Process(l).ids = ids /\ Process(l).w = u
    BY <2>6 DEF KeptSet
  <2>13. IsKept(KeptSet(ids, u))
    <3>1. \A i, j \in 1 .. n : ids[i] = ids[j] => i = j
      BY <2>10, <2>11
    <3>2. QED
      BY <2>4, <2>7, <2>9, <3>1, KeptSetFacts
  <2>14. Len(ids) = n /\ (\A i \in 1 .. n : ids[i] = D[i]) /\ \A i \in 1 .. n : u[i] = w[i]
    BY <2>7, <2>8, <2>10
  <2>15. QED
    BY <1>4, <2>6, <2>12, <2>13, <2>14 DEF D, w, n
<1>5. QED
  BY <1>3, <1>4

-----------------------------------------------------------------------------
\* The warpers' set, piece by piece.
Top(l)         == CHOOSE t \in Vocab : \A s \in Vocab \ {t} : Before(l, t, s)
WeightOf(l)    == [t \in Vocab |-> Weight(cfg.temperature, l[Top(l)] - l[t])]
ByK(l)         == {t \in Vocab : cfg.top_k = 0 \/ Cardinality({s \in Vocab : Before(l, s, t)}) < cfg.top_k}
MassBefore(l, t) == SumFunctionOnSet(WeightOf(l), {s \in ByK(l) : Before(l, s, t)})
ByP(l) == {t \in ByK(l) : cfg.top_p[1] >= cfg.top_p[2] \/ t = Top(l)
             \/ MassBefore(l, t) * cfg.top_p[2] < SumFunctionOnSet(WeightOf(l), ByK(l)) * cfg.top_p[1]}

LEMMA WarpedIs ==
  ASSUME NEW l
  PROVE  Warped(l) = {t \in ByP(l) : t = Top(l) \/ WeightOf(l)[t] * cfg.min_p[2] >= WeightOf(l)[Top(l)] * cfg.min_p[1]}
  BY DEF Warped, ByP, MassBefore, ByK, WeightOf, Top

LEMMA TopIsFirst ==
  ASSUME NEW l \in [Vocab -> Int]
  PROVE  Top(l) = Descending(l)[1] /\ Top(l) \in Vocab /\ Rank(l, Top(l)) = 0
<1> DEFINE d == Descending(l)[1]
<1>1. 1 \in 1 .. VocabSize
  BY VocabFacts
<1>2. d \in Vocab /\ Rank(l, d) = 0
  <2>1. Descending(l) \in [1 .. VocabSize -> Vocab] /\ \A i \in 1 .. VocabSize : Rank(l, Descending(l)[i]) = i - 1
    BY DescendingFacts
  <2>2. Rank(l, Descending(l)[1]) = 1 - 1
    BY <1>1, <2>1
  <2>3. QED
    BY <1>1, <2>1, <2>2
<1>3. ASSUME NEW s \in Vocab \ {d} PROVE Before(l, d, s)
  <2>1. Rank(l, s) \in 0 .. VocabSize - 1 /\ Rank(l, s) # 0
    BY <1>2, <1>3, RankFacts, RankUnique
  <2>2. ~Before(l, s, d)
    <3>1. Before(l, s, d) => Rank(l, s) < Rank(l, d)
      BY <1>2, RankFacts
    <3>2. QED
      BY <1>2, <2>1, <3>1
  <2>3. QED
    BY <1>2, <1>3, <2>2, BeforeIsOrder
<1> HIDE DEF d
<1>4. ASSUME NEW t \in Vocab, \A s \in Vocab \ {t} : Before(l, t, s) PROVE t = d
  <2>1. SUFFICES ASSUME t # d PROVE FALSE
    OBVIOUS
  <2>2. Before(l, t, d) /\ Before(l, d, t)
    BY <1>2, <1>3, <1>4, <2>1
  <2>3. QED
    BY <1>2, <2>2, BeforeIsOrder
<1>5. Top(l) = d
  BY <1>2, <1>3, <1>4 DEF Top
<1>6. QED
  BY <1>2, <1>5 DEF d

LEMMA ByKFacts ==
  ASSUME SettingsInv, NEW l \in [Vocab -> Int]
  PROVE  /\ \A t \in Vocab : t \in ByK(l) <=> Rank(l, t) + 1 <= NCand
         /\ ByK(l) = {Descending(l)[i] : i \in 1 .. NCand}
         /\ \A k \in 1 .. NCand : {s \in ByK(l) : Before(l, s, Descending(l)[k])} = {Descending(l)[i] : i \in 1 .. k - 1}
<1> DEFINE D == Descending(l)
<1>1. cfg.top_k \in Nat /\ NCand \in 1 .. VocabSize /\ VocabSize \in Nat \ {0}
  BY SettingsFacts, NCandFacts, VocabFacts DEF Typed
<1>2. ASSUME NEW t \in Vocab PROVE t \in ByK(l) <=> Rank(l, t) + 1 <= NCand
  <2>1. t \in ByK(l) <=> cfg.top_k = 0 \/ Rank(l, t) < cfg.top_k
    BY DEF ByK, Rank, Below
  <2>2. Rank(l, t) \in 0 .. VocabSize - 1
    BY RankFacts
  <2>3. NCand = IF cfg.top_k > 0 /\ cfg.top_k < VocabSize THEN cfg.top_k ELSE VocabSize
    BY DEF NCand, VocabSize
  <2>4. QED
    BY <1>1, <2>1, <2>2, <2>3
<1>3. \A t \in ByK(l) : t \in Vocab
  BY DEF ByK
<1>4. \A i \in 1 .. VocabSize : D[i] \in Vocab /\ Rank(l, D[i]) = i - 1
  BY DescendingFacts
<1>5. \A t \in Vocab : Rank(l, t) + 1 \in 1 .. VocabSize /\ D[Rank(l, t) + 1] = t
  BY DescendingFacts
<1>6. \A i, j \in 1 .. VocabSize : Before(l, D[i], D[j]) <=> i < j
  BY DescendingOrder
<1>7. \A i \in 1 .. NCand : i \in 1 .. VocabSize
  BY <1>1
<1> HIDE DEF D
<1>8. ASSUME NEW t \in ByK(l) PROVE Rank(l, t) + 1 \in 1 .. NCand /\ D[Rank(l, t) + 1] = t
  <2>1. t \in Vocab /\ Rank(l, t) + 1 <= NCand /\ Rank(l, t) + 1 \in 1 .. VocabSize /\ D[Rank(l, t) + 1] = t
    BY <1>2, <1>3, <1>5
  <2>2. QED
    BY <1>1, <2>1
<1>9. ASSUME NEW i \in 1 .. NCand PROVE D[i] \in ByK(l)
  <2>1. D[i] \in Vocab /\ Rank(l, D[i]) = i - 1
    BY <1>4, <1>7
  <2>2. Rank(l, D[i]) + 1 <= NCand
    BY <1>1, <2>1
  <2>3. QED
    BY <1>2, <2>1, <2>2
<1>10. ByK(l) = {D[i] : i \in 1 .. NCand}
  BY <1>8, <1>9
<1>11. ASSUME NEW k \in 1 .. NCand PROVE {s \in ByK(l) : Before(l, s, D[k])} = {D[i] : i \in 1 .. k - 1}
  <2>1. \A i \in 1 .. k - 1 : i \in 1 .. NCand /\ i < k
    BY <1>1
  <2>2. ASSUME NEW i \in 1 .. k - 1 PROVE D[i] \in ByK(l) /\ Before(l, D[i], D[k])
    BY <1>6, <1>7, <1>9, <2>1
  <2>3. ASSUME NEW s \in ByK(l), Before(l, s, D[k]) PROVE \E i \in 1 .. k - 1 : s = D[i]
    <3>1. PICK i \in 1 .. NCand : s = D[i]
      BY <1>10
    <3>2. i < k
      BY <1>6, <1>7, <2>3, <3>1
    <3>3. i \in 1 .. k - 1
      BY <1>1, <3>2
    <3>4. QED
      BY <3>1, <3>3
  <2>4. QED
    BY <2>2, <2>3
<1>12. QED
  BY <1>2, <1>10, <1>11 DEF D

LEMMA MassFacts ==
  ASSUME SettingsInv, ~Greedy, NEW l \in LogitRows
  PROVE  /\ SumFunctionOnSet(WeightOf(l), ByK(l)) = SumUpTo(CandWeights(l), NCand)
         /\ \A k \in 1 .. NCand : /\ MassBefore(l, Descending(l)[k]) = SumUpTo(CandWeights(l), k - 1)
                                  /\ WeightOf(l)[Descending(l)[k]] = CandWeights(l)[k]
<1> DEFINE D == Descending(l)   e == CandWeights(l)   f == WeightOf(l)
<1>1. l \in [Vocab -> Int] /\ NCand \in 1 .. VocabSize /\ VocabSize \in Nat \ {0}
  BY SettingsFacts, NCandFacts, VocabFacts
<1>2. \A i \in 1 .. VocabSize : D[i] \in Vocab
  BY <1>1, DescendingFacts
<1>3. \A i, j \in 1 .. VocabSize : D[i] = D[j] => i = j
  BY <1>1, DescendingOrder
<1>4. \A i \in 1 .. NCand : i \in 1 .. VocabSize
  BY <1>1
<1>5. Top(l) = D[1]
  BY <1>1, TopIsFirst
<1>6. e \in [1 .. NCand -> Nat]
  BY CandWeightsFacts
<1>7. \A i \in 1 .. NCand : e[i] = Weight(cfg.temperature, l[D[1]] - l[D[i]])
  BY DEF CandWeights
<1>8. \A t \in Vocab : f[t] = Weight(cfg.temperature, l[D[1]] - l[t])
  BY <1>5 DEF WeightOf
<1> HIDE DEF D, e, f
<1>9. \A i \in 1 .. NCand : e[i] = f[D[i]] /\ e[i] \in Int /\ f[D[i]] \in Int
  BY <1>2, <1>4, <1>6, <1>7, <1>8
<1>10. ASSUME NEW k \in 0 .. NCand PROVE SumFunctionOnSet(f, {D[i] : i \in 1 .. k}) = SumUpTo(e, k)
  <2> DEFINE R == 1 .. k
  <2>1. IsFiniteSet(R) /\ \A i \in R : i \in 1 .. NCand /\ i \in 1 .. VocabSize
    BY <1>1, FS_Interval
  <2> HIDE DEF R
  <2>2. \A i, j \in R : D[i] = D[j] => i = j
    BY <1>3, <2>1
  <2>3. \A i \in R : f[D[i]] \in Int /\ e[i] = f[D[i]]
    BY <1>9, <2>1
  <2>4. SumFunctionOnSet(e, R) = SumFunctionOnSet(f, {D[i] : i \in R})
    BY <2>1, <2>2, <2>3, SumReindex
  <2>5. QED
    BY <2>4 DEF R, SumUpTo
<1>11. ByK(l) = {D[i] : i \in 1 .. NCand}
       /\ \A k \in 1 .. NCand : {s \in ByK(l) : Before(l, s, D[k])} = {D[i] : i \in 1 .. k - 1}
  BY <1>1, ByKFacts DEF D
<1>12. NCand \in 0 .. NCand /\ \A k \in 1 .. NCand : k - 1 \in 0 .. NCand
  BY <1>1
<1>13. SumFunctionOnSet(f, ByK(l)) = SumUpTo(e, NCand)
  BY <1>10, <1>11, <1>12
<1>14. ASSUME NEW k \in 1 .. NCand PROVE MassBefore(l, D[k]) = SumUpTo(e, k - 1)
  <2>1. SumFunctionOnSet(f, {D[i] : i \in 1 .. k - 1}) = SumUpTo(e, k - 1)
    BY <1>10, <1>12
  <2>2. {s \in ByK(l) : Before(l, s, D[k])} = {D[i] : i \in 1 .. k - 1}
    BY <1>11
  <2>3. QED
    BY <2>1, <2>2 DEF MassBefore, f
<1>15. QED
  BY <1>9, <1>13, <1>14 DEF D, e, f

LEMMA KeptOfRow ==
  ASSUME SettingsInv, ~Greedy, NEW l \in LogitRows
  PROVE  ToSet(Process(l).ids) = Warped(l)
<1> DEFINE D == Descending(l)   w == CandWeights(l)   f == WeightOf(l)
           P == TopPCount(w)   n == KeptCount(l)   ids == Process(l).ids
<1>1. l \in [Vocab -> Int] /\ NCand \in 1 .. VocabSize /\ VocabSize \in Nat \ {0} /\ Typed(cfg) /\ NCand \in Nat \ {0}
  BY SettingsFacts, NCandFacts, VocabFacts
<1>2. P \in 1 .. NCand /\ n \in 1 .. P
  BY KeptCountFacts
<1>3. w \in [1 .. NCand -> Nat] /\ \A i, j \in 1 .. NCand : i <= j => w[j] <= w[i]
  BY CandWeightsFacts
<1>4. \A k \in 1 .. NCand : k <= P <=>
        \/ cfg.top_p[1] >= cfg.top_p[2] \/ k = 1
        \/ SumUpTo(w, k - 1) * cfg.top_p[2] < SumUpTo(w, NCand) * cfg.top_p[1]
  <2> HIDE DEF w
  <2>1. QED
    BY <1>1, <1>3, TopPFacts
<1>5. \A k \in 1 .. P : k <= n <=> k = 1 \/ w[k] * cfg.min_p[2] >= w[1] * cfg.min_p[1]
  <2>1. n = MinPCount(w, P)
    BY DEF KeptCount
  <2> HIDE DEF w, P, n
  <2>2. \A k \in 1 .. P : k <= MinPCount(w, P) <=> k = 1 \/ w[k] * cfg.min_p[2] >= w[1] * cfg.min_p[1]
    BY <1>1, <1>2, <1>3, MinPFacts
  <2>3. QED
    BY <2>1, <2>2
<1>6. /\ SumFunctionOnSet(f, ByK(l)) = SumUpTo(w, NCand)
      /\ \A k \in 1 .. NCand : MassBefore(l, D[k]) = SumUpTo(w, k - 1) /\ f[D[k]] = w[k]
  BY MassFacts
<1>7. \A t \in Vocab : t \in ByK(l) <=> Rank(l, t) + 1 <= NCand
  BY <1>1, ByKFacts
<1>8. \A t \in Vocab : Rank(l, t) + 1 \in 1 .. VocabSize /\ D[Rank(l, t) + 1] = t
  BY <1>1, DescendingFacts
<1>9. \A i \in 1 .. VocabSize : D[i] \in Vocab /\ Rank(l, D[i]) = i - 1
  BY <1>1, DescendingFacts
<1>10. Top(l) = D[1] /\ 1 \in 1 .. VocabSize
  BY <1>1, TopIsFirst
<1>11. Len(ids) = n /\ ids \in Seq(Vocab) /\ \A i \in 1 .. n : ids[i] = D[i]
  BY ProcessFacts DEF IsKept
<1> HIDE DEF D, w, f, P, n, ids
<1>12. ASSUME NEW t \in Vocab PROVE t \in ToSet(ids) <=> Rank(l, t) + 1 <= n
  <2>1. t \in ToSet(ids) <=> \E i \in 1 .. n : ids[i] = t
    BY <1>11 DEF ToSet
  <2>2. \A i \in 1 .. n : i \in 1 .. VocabSize
    BY <1>1, <1>2
  <2>3. ASSUME NEW i \in 1 .. n, ids[i] = t PROVE Rank(l, t) + 1 <= n
    <3>1. D[i] = t /\ Rank(l, D[i]) = i - 1
      BY <1>9, <1>11, <2>2, <2>3
    <3>2. Rank(l, t) = i - 1
      BY <3>1
    <3>3. QED
      BY <1>1, <1>2, <3>2
  <2>4. ASSUME Rank(l, t) + 1 <= n PROVE \E i \in 1 .. n : ids[i] = t
    <3>1. Rank(l, t) + 1 \in 1 .. n
      BY <1>1, <1>2, <1>8, <2>4
    <3>2. ids[Rank(l, t) + 1] = t
      BY <1>8, <1>11, <3>1
    <3>3. QED
      BY <3>1, <3>2
  <2>5. QED
    BY <2>1, <2>3, <2>4
<1>13. ASSUME NEW t \in Vocab PROVE t \in Warped(l) <=> Rank(l, t) + 1 <= n
  <2> DEFINE k == Rank(l, t) + 1
  <2>1. k \in 1 .. VocabSize /\ D[k] = t
    BY <1>8
  <2>2. t = Top(l) <=> k = 1
    <3>1. Top(l) = t => k = 1
      <4>1. Rank(l, Top(l)) = 0
        BY <1>1, TopIsFirst
      <4>2. QED
        BY <4>1
    <3>2. k = 1 => t = Top(l)
      BY <1>10, <2>1
    <3>3. QED
      BY <3>1, <3>2
  <2>3. t \in ByK(l) <=> k <= NCand
    BY <1>7
  <2> HIDE DEF k
  <2>4. k <= NCand => k \in 1 .. NCand
    BY <1>1, <2>1
  <2>5. t \in ByP(l) <=> k <= P
    <3>1. CASE k <= NCand
      <4>1. MassBefore(l, t) = SumUpTo(w, k - 1)
        BY <1>6, <2>1, <2>4, <3>1
      <4>2. t \in ByP(l) <=> cfg.top_p[1] >= cfg.top_p[2] \/ t = Top(l)
             \/ MassBefore(l, t) * cfg.top_p[2] < SumFunctionOnSet(f, ByK(l)) * cfg.top_p[1]
        BY <2>3, <3>1 DEF ByP, f
      <4>3. t \in ByP(l) <=> cfg.top_p[1] >= cfg.top_p[2] \/ k = 1
             \/ SumUpTo(w, k - 1) * cfg.top_p[2] < SumUpTo(w, NCand) * cfg.top_p[1]
        BY <1>6, <2>2, <4>1, <4>2
      <4>4. k \in 1 .. NCand
        BY <2>4, <3>1
      <4>5. QED
        BY <1>4, <4>3, <4>4
    <3>2. CASE ~(k <= NCand)
      <4>1. ~(k <= P)
        BY <1>1, <1>2, <2>1, <3>2
      <4>2. t \notin ByP(l)
        BY <2>3, <3>2 DEF ByP
      <4>3. QED
        BY <4>1, <4>2
    <3>3. QED
      BY <3>1, <3>2
  <2>6. t \in Warped(l) <=> t \in ByP(l) /\ (t = Top(l) \/ f[t] * cfg.min_p[2] >= f[Top(l)] * cfg.min_p[1])
    BY WarpedIs DEF f
  <2>7. CASE k <= P
    <3>1. k \in 1 .. NCand /\ k \in 1 .. P /\ 1 \in 1 .. NCand
      BY <1>1, <1>2, <2>1, <2>7
    <3>2. f[t] = w[k] /\ f[Top(l)] = w[1]
      BY <1>6, <1>10, <2>1, <3>1
    <3>3. t \in Warped(l) <=> k = 1 \/ w[k] * cfg.min_p[2] >= w[1] * cfg.min_p[1]
      BY <2>2, <2>5, <2>6, <2>7, <3>2
    <3>4. QED
      BY <1>5, <3>1, <3>3 DEF k
  <2>8. CASE ~(k <= P)
    <3>1. ~(k <= n)
      BY <1>1, <1>2, <2>1, <2>8
    <3>2. t \notin Warped(l)
      BY <2>5, <2>6, <2>8
    <3>3. QED
      BY <3>1, <3>2 DEF k
  <2>9. QED
    BY <2>7, <2>8
<1>14. \A t \in ToSet(ids) : t \in Vocab
  BY <1>11 DEF ToSet
<1>15. \A t \in Warped(l) : t \in Vocab
  BY WarpedIs DEF ByP, ByK
<1>16. QED
  BY <1>12, <1>13, <1>14, <1>15 DEF ids

-----------------------------------------------------------------------------
(* The round. The settings are some file's; the drafts come with the kept  *)
(* sets they were drawn from and, when sampling, with these sets as dense  *)
(* rows; once a position is decided, the buffers hold the kept set of its  *)
(* target, or that set with other weights, and the token is one of it.     *)

IsRowOf(row, s) == row.w = [t \in Vocab |-> WeightIn(s, t)] /\ row.mass = s.mass

RoundShape ==
  /\ target \in LogitRows
  /\ drafts \in Seq(Vocab) /\ proposed \in Seq(KeptSets) /\ emitted \in Seq(Vocab)
  /\ Len(proposed) = Len(drafts) /\ Len(drafts) <= K /\ accepted \in 0 .. K
  /\ emitted # <<>> => Len(drafts) = K
  /\ DOMAIN q = 1 .. K

KeptOfTarget ==
  emitted # <<>> => /\ kept.ids = Process(target).ids
                    /\ Last(emitted) \in ToSet(kept.ids)

DraftRows ==
  ~Greedy => \A j \in 1 .. Len(proposed) : IsKept(proposed[j]) /\ IsRowOf(q[j], proposed[j])

SamplerInv == SettingsInv /\ RoundShape /\ KeptOfTarget /\ DraftRows

LEMMA DrawsFacts ==
  ASSUME NEW s, s.ids \in Seq(Vocab), Len(s.ids) >= 1
  PROVE  \A t \in Draws(s) : t \in ToSet(s.ids) /\ t \in Vocab
<1>1. \A i \in DOMAIN s.ids : s.ids[i] \in ToSet(s.ids) /\ s.ids[i] \in Vocab
  BY DEF ToSet
<1>2. Len(s.ids) \in DOMAIN s.ids
  OBVIOUS
<1>3. Last(s.ids) = s.ids[Len(s.ids)]
  BY DEF Last
<1>4. QED
  BY <1>1, <1>2, <1>3 DEF Draws

LEMMA SamplerInitInv == Init => SamplerInv
<1> SUFFICES ASSUME Init PROVE SamplerInv
  OBVIOUS
<1>1. SettingsInv
  BY DEF Init, SettingsInv
<1>2. K \in Nat
  BY SamplerAssumption
<1>3. RoundShape
  BY <1>2 DEF Init, RoundShape
<1>4. KeptOfTarget /\ DraftRows
  BY DEF Init, KeptOfTarget, DraftRows
<1>5. QED
  BY <1>1, <1>3, <1>4 DEF SamplerInv

LEMMA SettingsStay == ASSUME SettingsInv, cfg' = cfg PROVE SettingsInv' /\ (Greedy' <=> Greedy)
  BY DEF SettingsInv, Greedy

\* The kept set of a row depends on nothing but the row and the settings.
LEMMA ProcessStays == ASSUME cfg' = cfg PROVE Process(target)' = Process(target')
<1>1. Descending(target)' = Descending(target')
  BY DEF Descending, Before
<1>2. NCand' = NCand
  BY DEF NCand
<1>3. ASSUME NEW w PROVE TopPCount(w)' = TopPCount(w)
  BY DEF TopPCount
<1>4. ASSUME NEW w, NEW n PROVE MinPCount(w, n)' = MinPCount(w, n)
  BY DEF MinPCount
<1>5. QED
  BY <1>1, <1>2, <1>3, <1>4 DEF Process, Greedy, Argmax

\* A draft that may be accepted is a token of the kept set.
LEMMA AcceptedIsKept ==
  ASSUME NEW p, NEW s, NEW row, NEW d \in Vocab, IsKept(p), IsKept(s), IsRowOf(row, s), MayAccept(p, row, d)
  PROVE  d \in ToSet(p.ids)
<1>1. SUFFICES ASSUME d \notin ToSet(p.ids) PROVE FALSE
  OBVIOUS
<1>2. WeightIn(p, d) = 0
  BY <1>1 DEF WeightIn
<1>3. p.mass \in Nat /\ row.mass \in Nat /\ row.w[d] \in Nat
  <2>1. p.mass \in Nat /\ s.mass \in Nat
    BY DEF IsKept, KeptSets
  <2>2. row.mass = s.mass /\ row.w[d] = WeightIn(s, d)
    BY DEF IsRowOf
  <2>3. WeightIn(s, d) \in Nat
    <3>1. CASE d \in ToSet(s.ids)
      <4>1. \E i \in DOMAIN s.ids : s.ids[i] = d
        BY <3>1 DEF ToSet
      <4>2. DOMAIN s.ids = 1 .. Len(s.ids) /\ s.w \in [1 .. Len(s.ids) -> Nat]
        BY DEF IsKept
      <4> DEFINE i == CHOOSE i \in DOMAIN s.ids : s.ids[i] = d
      <4>3. i \in DOMAIN s.ids
        BY <4>1
      <4> HIDE DEF i
      <4>4. s.w[i] \in Nat
        BY <4>2, <4>3
      <4>5. QED
        BY <3>1, <4>4 DEF WeightIn, i
    <3>2. QED
      BY <3>1 DEF WeightIn
  <2>4. QED
    BY <2>1, <2>2, <2>3
<1> DEFINE a == p.mass * row.w[d]   b == WeightIn(p, d) * row.mass
<1>4. a \in Int /\ b = 0
  BY <1>2, <1>3
<1> HIDE DEF a, b
<1>5. Min({a, b}) = IF a <= b THEN a ELSE b
  BY <1>4, MinOfTwo
<1>6. Min({a, b}) <= 0
  BY <1>4, <1>5
<1>7. Min({a, b}) > 0
  BY DEF MayAccept, ShareNum, a, b
<1>8. QED
  BY <1>4, <1>5, <1>6, <1>7

LEMMA DraftStep == SamplerInv /\ DraftToken => SamplerInv'
<1> SUFFICES ASSUME SamplerInv, DraftToken PROVE SamplerInv'
  OBVIOUS
<1> DEFINE i == Len(drafts) + 1
<1>1. SettingsInv /\ RoundShape /\ DraftRows
  BY DEF SamplerInv
<1>2. /\ i <= K /\ emitted = <<>>
      /\ UNCHANGED <<cfg, target, emitted, accepted>>
  BY DEF DraftToken
<1>3. PICK l \in LogitRows, d \in Vocab :
        /\ IF Greedy
           THEN d = Argmax(l) /\ UNCHANGED <<kept, q>> /\ proposed' = Append(proposed, KeptSet(<<d>>, <<1>>))
           ELSE /\ kept' = Process(l)
                /\ d \in Draws(kept')
                /\ q' = [q EXCEPT ![i] = WriteDense(kept', q[i])]
                /\ proposed' = Append(proposed, kept')
        /\ drafts' = Append(drafts, d)
  BY DEF DraftToken
<1>4. SettingsInv' /\ (Greedy' <=> Greedy)
  BY <1>1, <1>2, SettingsStay
<1>5. KeptOfTarget'
  BY <1>2 DEF KeptOfTarget
<1>6. PICK s \in KeptSets :
        /\ proposed' = Append(proposed, s) /\ DOMAIN q' = DOMAIN q
        /\ ~Greedy => IsKept(s) /\ q' = [q EXCEPT ![i] = WriteDense(s, q[i])]
  <2>1. CASE Greedy
    <3> DEFINE s == KeptSet(<<d>>, <<1>>)
    <3>1. <<d>> \in Seq(Vocab) /\ Len(<<d>>) = 1 /\ <<1>> \in [1 .. 1 -> Nat]
          /\ \A a, b \in 1 .. 1 : <<d>>[a] = <<d>>[b] => a = b
      OBVIOUS
    <3>2. IsKept(s)
      <4>1. 1 \in Nat \ {0}
        OBVIOUS
      <4>2. QED
        BY <3>1, <4>1, KeptSetFacts
    <3>3. proposed' = Append(proposed, s) /\ q' = q
      BY <1>3, <2>1
    <3> HIDE DEF s
    <3>4. s \in KeptSets
      BY <3>2 DEF IsKept
    <3>5. QED
      BY <2>1, <3>3, <3>4
  <2>2. CASE ~Greedy
    <3> DEFINE s == Process(l)
    <3>1. IsKept(s)
      BY <1>1, ProcessFacts
    <3>2. proposed' = Append(proposed, s) /\ q' = [q EXCEPT ![i] = WriteDense(s, q[i])]
      BY <1>3, <2>2
    <3> HIDE DEF s
    <3>3. s \in KeptSets /\ DOMAIN q' = DOMAIN q
      BY <3>1, <3>2 DEF IsKept
    <3>4. QED
      BY <3>1, <3>2, <3>3
  <2>3. QED
    BY <2>1, <2>2
<1>7. Len(proposed) = Len(drafts) /\ proposed \in Seq(KeptSets) /\ drafts \in Seq(Vocab) /\ K \in Nat /\ DOMAIN q = 1 .. K
  BY <1>1, SamplerAssumption DEF RoundShape
<1>8. drafts' \in Seq(Vocab) /\ Len(drafts') = i /\ proposed' \in Seq(KeptSets) /\ Len(proposed') = i
  BY <1>3, <1>6, <1>7
<1>9. RoundShape'
  BY <1>1, <1>2, <1>6, <1>7, <1>8 DEF RoundShape
<1>10. DraftRows'
  <2> SUFFICES ASSUME ~Greedy, NEW j \in 1 .. i PROVE IsKept(proposed'[j]) /\ IsRowOf(q'[j], proposed'[j])
    BY <1>4, <1>8 DEF DraftRows, IsKept, IsRowOf, WeightIn
  <2>1. i \in 1 .. K /\ j \in 1 .. K
    BY <1>2, <1>7
  <2>2. CASE j = i
    <3>1. proposed'[j] = s
      BY <1>6, <1>7, <2>2
    <3>2. q'[j] = WriteDense(s, q[i])
      BY <1>6, <1>7, <2>1, <2>2
    <3>3. IsRowOf(WriteDense(s, q[i]), s)
      BY DEF IsRowOf, WriteDense
    <3>4. QED
      BY <1>6, <3>1, <3>2, <3>3
  <2>3. CASE j # i
    <3>1. j \in 1 .. Len(proposed)
      BY <1>7, <2>3
    <3>2. proposed'[j] = proposed[j]
      BY <1>6, <1>7, <3>1
    <3>3. q'[j] = q[j]
      BY <1>6, <1>7, <2>1, <2>3
    <3>4. IsKept(proposed[j]) /\ IsRowOf(q[j], proposed[j])
      BY <1>1, <3>1 DEF DraftRows
    <3>5. QED
      BY <3>2, <3>3, <3>4
  <2>4. QED
    BY <2>2, <2>3
<1>11. QED
  BY <1>4, <1>5, <1>9, <1>10 DEF SamplerInv

LEMMA DraftRowsStay == ASSUME DraftRows, Greedy' <=> Greedy, proposed' = proposed, q' = q PROVE DraftRows'
<1> SUFFICES ASSUME ~Greedy, NEW j \in 1 .. Len(proposed) PROVE IsKept(proposed'[j]) /\ IsRowOf(q'[j], proposed'[j])
  BY DEF DraftRows, IsKept, IsRowOf, WeightIn
<1>1. IsKept(proposed[j]) /\ IsRowOf(q[j], proposed[j])
  BY DEF DraftRows
<1>2. QED
  BY <1>1

\* What a decided position leaves: one token more, a token of its kept set.
LEMMA DecideStep ==
  ASSUME SamplerInv, Len(drafts) = K, target' \in LogitRows, NEW t \in Vocab,
         kept'.ids = Process(target').ids, t \in ToSet(Process(target').ids),
         emitted' = Append(emitted, t), accepted' \in 0 .. K, UNCHANGED <<cfg, drafts, q, proposed>>
  PROVE  SamplerInv'
<1>1. SettingsInv /\ RoundShape /\ DraftRows
  BY DEF SamplerInv
<1>2. SettingsInv' /\ (Greedy' <=> Greedy)
  BY <1>1, SettingsStay
<1>3. emitted' \in Seq(Vocab) /\ emitted' # <<>> /\ Last(emitted') = t
  BY <1>1, SMTT(30) DEF RoundShape, Last
<1>4. RoundShape'
  BY <1>1, <1>3 DEF RoundShape
<1>5. KeptOfTarget'
  <2>1. Process(target)' = Process(target')
    BY ProcessStays
  <2>2. QED
    BY <1>3, <2>1 DEF KeptOfTarget
<1>6. DraftRows'
  BY <1>1, <1>2, DraftRowsStay
<1>7. QED
  BY <1>2, <1>4, <1>5, <1>6 DEF SamplerInv

LEMMA AcceptStep == SamplerInv /\ AcceptDraft => SamplerInv'
<1> SUFFICES ASSUME SamplerInv, AcceptDraft PROVE SamplerInv'
  OBVIOUS
<1> DEFINE d == drafts[accepted + 1]
           p == Process(target')
<1>1. SettingsInv /\ RoundShape /\ DraftRows
  BY DEF SamplerInv
<1>2. /\ Len(drafts) = K /\ accepted < K /\ target' \in LogitRows /\ kept' = p
      /\ IF Greedy THEN p.ids[1] = d ELSE MayAccept(p, q[accepted + 1], d)
      /\ emitted' = Append(emitted, d) /\ accepted' = accepted + 1
      /\ UNCHANGED <<cfg, drafts, q, proposed>>
  BY DEF AcceptDraft, Verifying
<1>3. accepted + 1 \in 1 .. K /\ accepted' \in 0 .. K /\ Len(proposed) = K
  BY <1>1, <1>2, SamplerAssumption DEF RoundShape
<1>4. d \in Vocab
  BY <1>1, <1>2, <1>3 DEF RoundShape
<1>5. IsKept(p)
  BY <1>1, <1>2, ProcessFacts
<1> HIDE DEF d
<1>6. d \in ToSet(p.ids)
  <2>1. CASE Greedy
    <3>1. 1 \in DOMAIN p.ids
      BY <1>5 DEF IsKept
    <3>2. QED
      BY <1>2, <2>1, <3>1 DEF ToSet
  <2>2. CASE ~Greedy
    <3> DEFINE j == accepted + 1
    <3>1. IsKept(proposed[j]) /\ IsRowOf(q[j], proposed[j])
      BY <1>1, <1>3, <2>2 DEF DraftRows
    <3>2. MayAccept(p, q[j], d)
      BY <1>2, <2>2
    <3> HIDE DEF j, p
    <3>3. QED
      BY <1>4, <1>5, <3>1, <3>2, AcceptedIsKept
  <2>3. QED
    BY <2>1, <2>2
<1>7. QED
  BY <1>2, <1>3, <1>4, <1>6, DecideStep

LEMMA LeftoverIds == ASSUME NEW p, NEW row PROVE Leftover(p, row).ids = p.ids
  BY DEF Leftover, Residual, KeptSet

\* The same of a token drawn from the buffers.
LEMMA DrawStep ==
  ASSUME SamplerInv, Len(drafts) = K, target' \in LogitRows, kept'.ids = Process(target').ids,
         \E t \in Draws(kept') : emitted' = Append(emitted, t), UNCHANGED <<cfg, drafts, q, proposed, accepted>>
  PROVE  SamplerInv'
<1>1. SettingsInv /\ accepted \in 0 .. K
  BY DEF SamplerInv, RoundShape
<1>2. PICK t \in Draws(kept') : emitted' = Append(emitted, t)
  OBVIOUS
<1>3. IsKept(Process(target'))
  BY <1>1, ProcessFacts
<1>4. kept'.ids \in Seq(Vocab) /\ Len(kept'.ids) >= 1
  BY <1>3 DEF IsKept
<1>5. t \in ToSet(kept'.ids) /\ t \in Vocab
  BY <1>2, <1>4, DrawsFacts
<1>6. QED
  BY <1>1, <1>2, <1>5, DecideStep

LEMMA ResampleStep == SamplerInv /\ Resample => SamplerInv'
<1> SUFFICES ASSUME SamplerInv, Resample PROVE SamplerInv'
  OBVIOUS
<1>1. kept'.ids = Process(target').ids
  BY LeftoverIds DEF Resample
<1>2. QED
  BY <1>1, DrawStep DEF Resample, Verifying

LEMMA BonusStep == SamplerInv /\ Bonus => SamplerInv'
<1> SUFFICES ASSUME SamplerInv, Bonus PROVE SamplerInv'
  OBVIOUS
<1>1. QED
  BY DrawStep DEF Bonus

LEMMA NewRoundStep == SamplerInv /\ NewRound => SamplerInv'
<1> SUFFICES ASSUME SamplerInv, NewRound PROVE SamplerInv'
  OBVIOUS
<1>1. SettingsInv /\ RoundShape
  BY DEF SamplerInv
<1>2. /\ drafts' = <<>> /\ proposed' = <<>> /\ emitted' = <<>> /\ accepted' = 0
      /\ UNCHANGED <<cfg, kept, q, target>> /\ K \in Nat
  BY SamplerAssumption DEF NewRound
<1>3. SettingsInv'
  BY <1>1, <1>2, SettingsStay
<1>4. RoundShape'
  BY <1>1, <1>2 DEF RoundShape
<1>5. KeptOfTarget' /\ DraftRows'
  BY <1>2 DEF KeptOfTarget, DraftRows
<1>6. QED
  BY <1>3, <1>4, <1>5 DEF SamplerInv

LEMMA SamplerStutter == SamplerInv /\ UNCHANGED vars => SamplerInv'
<1> SUFFICES ASSUME SamplerInv, UNCHANGED vars PROVE SamplerInv'
  OBVIOUS
<1>1. SettingsInv /\ RoundShape /\ KeptOfTarget /\ DraftRows
  BY DEF SamplerInv
<1>2. UNCHANGED <<cfg, kept, drafts, q, proposed, target, emitted, accepted>>
  BY DEF vars
<1>3. SettingsInv' /\ (Greedy' <=> Greedy)
  BY <1>1, <1>2, SettingsStay
<1>4. RoundShape'
  BY <1>1, <1>2 DEF RoundShape
<1>5. KeptOfTarget'
  <2>1. Process(target)' = Process(target)
    BY <1>2, ProcessStays
  <2>2. QED
    BY <1>1, <1>2, <2>1 DEF KeptOfTarget
<1>6. DraftRows'
  BY <1>1, <1>2, <1>3, DraftRowsStay
<1>7. QED
  BY <1>3, <1>4, <1>5, <1>6 DEF SamplerInv

LEMMA SamplerInvariance == Spec => []SamplerInv
<1>1. SamplerInv /\ [Next]_vars => SamplerInv'
  BY DraftStep, AcceptStep, ResampleStep, BonusStep, NewRoundStep, SamplerStutter DEF Next
<1>2. QED
  BY SamplerInitInv, <1>1, PTL DEF Spec

\* KeptIsWarped: whatever the weights, the settings and the drafts, the buffers hold exactly the
\* tokens that top-k, temperature, top-p and min-p keep of the target's row.
THEOREM SamplerKeptIsWarped == Spec => []KeptIsWarped
<1>1. SamplerInv => KeptIsWarped
  BY KeptOfRow DEF SamplerInv, RoundShape, KeptOfTarget, KeptIsWarped
<1>2. QED
  BY <1>1, SamplerInvariance, PTL

\* EmittedIsKept: no token is emitted that the target's settings exclude.
THEOREM SamplerEmittedIsKept == Spec => []EmittedIsKept
<1>1. SamplerInv => EmittedIsKept
  BY DEF SamplerInv, KeptOfTarget, EmittedIsKept
<1>2. QED
  BY <1>1, SamplerInvariance, PTL

-----------------------------------------------------------------------------
(* The acceptance rule is exact. What is accepted of a token and what the  *)
(* residual leaves of it are together its weight in the target's kept set, *)
(* token by token, so the mass of the residual is the mass rejected.       *)

LEMMA WeightInFacts ==
  ASSUME NEW ids \in Seq(Vocab), NEW w \in [1 .. Len(ids) -> Nat], NEW s, s.ids = ids, s.w = w,
         \A i, j \in 1 .. Len(ids) : ids[i] = ids[j] => i = j
  PROVE  /\ \A t \in Vocab : WeightIn(s, t) \in Nat
         /\ \A i \in 1 .. Len(ids) : WeightIn(s, ids[i]) = w[i]
         /\ \A t : t \notin {ids[i] : i \in 1 .. Len(ids)} => WeightIn(s, t) = 0
<1>1. ToSet(ids) = {ids[i] : i \in 1 .. Len(ids)}
  BY DEF ToSet
<1>2. ASSUME NEW i \in 1 .. Len(ids) PROVE WeightIn(s, ids[i]) = w[i]
  <2> DEFINE k == CHOOSE j \in DOMAIN ids : ids[j] = ids[i]
  <2>1. DOMAIN ids = 1 .. Len(ids)
    OBVIOUS
  <2>2. k \in 1 .. Len(ids) /\ ids[k] = ids[i]
    BY <2>1
  <2>3. ids[i] \in ToSet(ids)
    BY <1>1
  <2>4. WeightIn(s, ids[i]) = w[k]
    BY <2>3 DEF WeightIn
  <2> HIDE DEF k
  <2>5. k = i
    BY <2>2
  <2>6. QED
    BY <2>4, <2>5
<1>3. \A t : t \notin ToSet(ids) => WeightIn(s, t) = 0
  BY DEF WeightIn
<1>4. ASSUME NEW t \in Vocab PROVE WeightIn(s, t) \in Nat
  <2>1. CASE t \in ToSet(ids)
    <3>1. PICK i \in 1 .. Len(ids) : t = ids[i]
      BY <1>1, <2>1
    <3>2. QED
      BY <1>2, <3>1
  <2>2. CASE t \notin ToSet(ids)
    BY <1>3, <2>2
  <2>3. QED
    BY <2>1, <2>2
<1>5. QED
  BY <1>1, <1>2, <1>3, <1>4

\* Two numbers, the smaller of them and what the first leaves of the second.
LEMMA Leaves ==
  ASSUME NEW a \in Int, NEW b \in Int
  PROVE  /\ Max({0, b - a}) = b - Min({a, b})
         /\ Min({a, b}) \in Int /\ Min({a, b}) <= a /\ Min({a, b}) <= b
         /\ a >= 0 /\ b >= 0 => Min({a, b}) >= 0
<1>1. Min({a, b}) = IF a <= b THEN a ELSE b
  BY MinOfTwo
<1>2. 0 \in Int /\ b - a \in Int
  OBVIOUS
<1>3. Max({0, b - a}) = IF 0 >= b - a THEN 0 ELSE b - a
  BY <1>2, MaxOfTwo
<1> DEFINE x == Min({a, b})   y == Max({0, b - a})
<1>4. x = (IF a <= b THEN a ELSE b) /\ y = (IF 0 >= b - a THEN 0 ELSE b - a)
  BY <1>1, <1>3
<1> HIDE DEF x, y
<1>5. y = b - x /\ x \in Int /\ x <= a /\ x <= b /\ (a >= 0 /\ b >= 0 => x >= 0)
  BY <1>4
<1>6. QED
  BY <1>5 DEF x, y

\* Times a number, exactly.
LEMMA Distributes ==
  ASSUME NEW a \in Int, NEW b \in Int, NEW c \in Int, NEW m \in Int
  PROVE  a * m + m * (b * c - a) = b * c * m
<1> DEFINE x == b * c
<1>1. x \in Int
  OBVIOUS
<1>2. b * c * m = x * m
  OBVIOUS
<1> HIDE DEF x
<1>3. a * m + m * (x - a) = x * m
  BY <1>1
<1>4. QED
  BY <1>2, <1>3 DEF x

LEMMA AcceptanceIsExact ==
  ASSUME NEW p, NEW s, NEW row, IsKept(p), IsKept(s), IsRowOf(row, s)
  PROVE  LET num == [t \in Vocab |-> ShareNum(p, row, t)]
             r == Residual(p, row)
         IN /\ \A t \in Vocab : row.w[t] * s.mass = WeightIn(s, t) * row.mass
            /\ \A t \in Vocab : num[t] \in Int /\ WeightIn(p, t) \in Nat /\ row.mass \in Nat
            /\ \A t \in Vocab : WeightIn(r, t) = WeightIn(p, t) * row.mass - num[t]
            /\ r.mass = p.mass * row.mass - SumFunctionOnSet(num, Vocab) /\ r.mass \in Int
<1> DEFINE num == [t \in Vocab |-> ShareNum(p, row, t)]
           r == Residual(p, row)
           P == p.mass   Q == row.mass   ids == p.ids   n == Len(ids)   w == p.w
           I == 1 .. n
           B == {ids[i] : i \in I}
           v == [i \in I |-> Max({0, w[i] * Q - row.w[ids[i]] * P})]
           e == [i \in I |-> num[ids[i]]]
<1>1. /\ ids \in Seq(Vocab) /\ n \in Nat /\ w \in [I -> Nat] /\ P \in Nat /\ P = SumFunctionOnSet(w, I)
      /\ \A i, j \in I : ids[i] = ids[j] => i = j
      /\ \A i \in I : ids[i] \in Vocab
  BY DEF IsKept, KeptSets
<1>2. Q \in Nat /\ Q = s.mass /\ \A t \in Vocab : row.w[t] = WeightIn(s, t) /\ row.w[t] \in Nat
  <2>1. s.mass \in Nat /\ Q = s.mass /\ \A t \in Vocab : row.w[t] = WeightIn(s, t)
    BY DEF IsKept, KeptSets, IsRowOf
  <2>2. \A t \in Vocab : WeightIn(s, t) \in Nat
    <3> DEFINE a == s.ids   b == s.w
    <3>1. a \in Seq(Vocab) /\ b \in [1 .. Len(a) -> Nat] /\ \A i, j \in 1 .. Len(a) : a[i] = a[j] => i = j
      BY DEF IsKept
    <3>2. s.ids = a /\ s.w = b
      OBVIOUS
    <3> HIDE DEF a, b
    <3>3. QED
      BY <3>1, <3>2, WeightInFacts
  <2>3. QED
    BY <2>1, <2>2
<1>3. /\ \A t \in Vocab : WeightIn(p, t) \in Nat
      /\ \A i \in I : WeightIn(p, ids[i]) = w[i]
      /\ \A t : t \notin B => WeightIn(p, t) = 0
  <2>1. p.ids = ids /\ p.w = w
    OBVIOUS
  <2> HIDE DEF ids, w
  <2>2. QED
    BY <1>1, <2>1, WeightInFacts
<1>4. ASSUME NEW t \in Vocab
      PROVE  /\ num[t] \in Int /\ num[t] <= WeightIn(p, t) * Q /\ num[t] >= 0
             /\ Max({0, WeightIn(p, t) * Q - P * row.w[t]}) = WeightIn(p, t) * Q - num[t]
  <2> DEFINE a == P * row.w[t]   b == WeightIn(p, t) * Q
  <2>1. a \in Int /\ b \in Int /\ a >= 0 /\ b >= 0
    BY <1>1, <1>2, <1>3
  <2>2. num[t] = Min({a, b})
    BY DEF ShareNum
  <2> HIDE DEF a, b, num
  <2>3. Max({0, b - a}) = b - Min({a, b}) /\ Min({a, b}) \in Int /\ Min({a, b}) <= b /\ Min({a, b}) >= 0
    BY <2>1, Leaves
  <2>4. num[t] \in Int /\ num[t] <= b /\ num[t] >= 0 /\ Max({0, b - a}) = b - num[t]
    BY <2>2, <2>3
  <2>5. QED
    BY <2>4 DEF a, b
<1>5. r = KeptSet(ids, v)
  <2>1. DOMAIN ids = I
    BY <1>1
  <2>2. QED
    BY <2>1 DEF Residual
<1>6. r.ids = ids /\ r.w = v /\ r.mass = SumOf(v)
  BY <1>5 DEF KeptSet
<1> HIDE DEF num, r, B
<1>7. \A i \in I : v[i] = Q * w[i] - num[ids[i]] /\ v[i] \in Nat /\ num[ids[i]] \in Int
  <2> SUFFICES ASSUME NEW i \in I PROVE v[i] = Q * w[i] - num[ids[i]] /\ v[i] \in Nat /\ num[ids[i]] \in Int
    OBVIOUS
  <2> DEFINE t == ids[i]   x == row.w[t]
  <2>1. t \in Vocab /\ WeightIn(p, t) = w[i] /\ w[i] \in Nat
    BY <1>1, <1>3
  <2>2. x \in Nat
    BY <1>2, <2>1
  <2>3. v[i] = Max({0, w[i] * Q - x * P})
    OBVIOUS
  <2> HIDE DEF v
  <2>4. /\ num[t] \in Int /\ num[t] <= WeightIn(p, t) * Q
        /\ Max({0, WeightIn(p, t) * Q - P * x}) = WeightIn(p, t) * Q - num[t]
    BY <1>4, <2>1
  <2> HIDE DEF t, x
  <2>5. w[i] * Q - x * P = w[i] * Q - P * x /\ w[i] * Q = Q * w[i] /\ w[i] * Q \in Int
    BY <1>1, <1>2, <2>1, <2>2
  <2>6. v[i] = w[i] * Q - num[t] /\ num[t] <= w[i] * Q
    BY <2>1, <2>3, <2>4, <2>5
  <2> DEFINE y == w[i] * Q
  <2>7. y \in Int /\ v[i] = y - num[t] /\ num[t] <= y /\ num[t] \in Int
    BY <2>4, <2>5, <2>6
  <2> HIDE DEF y
  <2>8. v[i] \in Nat
    BY <2>7
  <2>9. QED
    BY <2>4, <2>5, <2>6, <2>8 DEF t
<1>8. v \in [I -> Nat]
  BY <1>7
<1>9. r.mass = SumFunctionOnSet(v, I) /\ r.mass \in Int
  <2> HIDE DEF v
  <2>1. SumOf(v) = SumUpTo(v, n) /\ SumOf(v) \in Nat
    BY <1>1, <1>8, SumUpToFacts
  <2>2. QED
    BY <1>6, <2>1 DEF SumUpTo
<1>10. IsFiniteSet(I)
  BY <1>1, FS_Interval
<1>11. SumFunctionOnSet(v, I) = Q * SumFunctionOnSet(w, I) - SumFunctionOnSet(e, I)
  <2>1. \A i \in I : w[i] \in Int /\ e[i] \in Int /\ v[i] = Q * w[i] - e[i]
    <3>1. \A i \in I : e[i] = num[ids[i]]
      OBVIOUS
    <3>2. \A i \in I : w[i] \in Int
      BY <1>1
    <3> HIDE DEF e, v
    <3>3. QED
      BY <1>7, <3>1, <3>2
  <2>2. Q \in Int
    BY <1>2
  <2> HIDE DEF v, e, w, I, Q
  <2>3. QED
    BY <1>10, <2>1, <2>2, SumLinear
<1>12. SumFunctionOnSet(e, I) = SumFunctionOnSet(num, B)
  <2>1. \A i \in I : num[ids[i]] \in Int /\ e[i] = num[ids[i]]
    BY <1>7
  <2>2. \A i, j \in I : ids[i] = ids[j] => i = j
    BY <1>1
  <2> HIDE DEF e, I, ids
  <2>3. SumFunctionOnSet(e, I) = SumFunctionOnSet(num, {ids[i] : i \in I})
    BY <1>10, <2>1, <2>2, SumReindex
  <2>4. QED
    BY <2>3 DEF B
<1>13. \A t \in Vocab : t \notin B => num[t] = 0
  <2> SUFFICES ASSUME NEW t \in Vocab, t \notin B PROVE num[t] = 0
    OBVIOUS
  <2>1. WeightIn(p, t) = 0
    BY <1>3
  <2>2. WeightIn(p, t) * Q = 0
    BY <1>2, <2>1
  <2>3. num[t] \in Int /\ num[t] <= 0 /\ num[t] >= 0
    BY <1>4, <2>2
  <2>4. QED
    BY <2>3
<1>14. SumFunctionOnSet(num, Vocab) = SumFunctionOnSet(num, B) /\ SumFunctionOnSet(num, B) \in Int
  <2> DEFINE C == Vocab \ B
  <2>1. B \in SUBSET Vocab
    BY <1>1 DEF B
  <2>2. C \in SUBSET Vocab /\ B \cap C = {} /\ B \cup C = Vocab /\ \A t \in C : num[t] = 0
    BY <1>13, <2>1
  <2> HIDE DEF C
  <2>3. IsFiniteSet(B) /\ IsFiniteSet(C)
    BY <2>1, <2>2, VocabFacts, FS_Subset
  <2>4. \A t \in B \cup C : num[t] \in Int
    BY <1>4, <2>2
  <2>5. SumFunctionOnSet(num, B \cup C) = SumFunctionOnSet(num, B) + SumFunctionOnSet(num, C)
    BY <2>2, <2>3, <2>4, SumUnion
  <2>6. SumFunctionOnSet(num, C) = 0
    BY <2>2, <2>3, SumZero
  <2>7. SumFunctionOnSet(num, B) \in Int
    <3>1. \A t \in B : num[t] \in Int
      BY <2>4
    <3>2. B \in SUBSET B
      OBVIOUS
    <3>3. QED
      BY <2>3, <3>1, <3>2, SumFacts
  <2>8. SumFunctionOnSet(num, Vocab) = SumFunctionOnSet(num, B \cup C)
    <3>1. B \cup C = Vocab
      BY <2>2
    <3>2. QED
      BY <3>1
  <2> DEFINE x == SumFunctionOnSet(num, B)   y == SumFunctionOnSet(num, C)   z == SumFunctionOnSet(num, Vocab)
  <2>9. x \in Int /\ y = 0 /\ z = x + y
    BY <2>5, <2>6, <2>7, <2>8
  <2> HIDE DEF x, y, z
  <2>10. z = x
    BY <2>9
  <2>11. QED
    BY <2>9, <2>10 DEF x, z
<1>15. r.mass = P * Q - SumFunctionOnSet(num, Vocab)
  <2>1. Q * P = P * Q
    BY <1>1, <1>2
  <2>2. r.mass = Q * P - SumFunctionOnSet(num, Vocab)
    BY <1>1, <1>9, <1>11, <1>12, <1>14
  <2>3. QED
    BY <2>1, <2>2
<1>16. ASSUME NEW t \in Vocab PROVE WeightIn(r, t) = WeightIn(p, t) * Q - num[t]
  <2>1. /\ \A i \in I : WeightIn(r, ids[i]) = v[i]
        /\ \A u : u \notin B => WeightIn(r, u) = 0
    <3> HIDE DEF v, ids
    <3>1. QED
      BY <1>1, <1>6, <1>8, WeightInFacts DEF B
  <2>2. CASE t \in B
    <3>1. PICK i \in I : t = ids[i]
      BY <2>2 DEF B
    <3>2. WeightIn(r, t) = Q * w[i] - num[t] /\ WeightIn(p, t) = w[i]
      BY <1>3, <1>7, <2>1, <3>1
    <3>3. Q * w[i] = w[i] * Q
      BY <1>1, <1>2, <3>1
    <3>4. QED
      BY <3>2, <3>3
  <2>3. CASE t \notin B
    <3>1. WeightIn(r, t) = 0 /\ WeightIn(p, t) = 0 /\ num[t] = 0
      BY <1>3, <1>13, <2>1, <2>3
    <3>2. QED
      BY <1>2, <3>1
  <2>4. QED
    BY <2>2, <2>3
<1>17. \A t \in Vocab : row.w[t] * s.mass = WeightIn(s, t) * row.mass
  BY <1>2
<1>18. \A t \in Vocab : num[t] \in Int /\ WeightIn(p, t) \in Nat /\ row.mass \in Nat
  BY <1>2, <1>3, <1>4
<1>19. QED
  BY <1>9, <1>15, <1>16, <1>17, <1>18 DEF num, r

\* LosslessSampling: over the drafts the head may propose and the numbers drawn, every token is
\* emitted with the weight the target gives it.
THEOREM SamplerLosslessSampling == Spec => []LosslessSampling
<1>1. SamplerInv => LosslessSampling
  <2> SUFFICES ASSUME SamplerInv, ~Greedy, Len(emitted) \in 1 .. K PROVE LosslessSampling
    BY DEF LosslessSampling
  <2> DEFINE i == Len(emitted)   p == Process(target)   s == proposed[i]   row == q[i]   r == Residual(p, row)
             num == [t \in Vocab |-> ShareNum(p, row, t)]
             rejected == p.mass * row.mass - SumFunctionOnSet(num, Vocab)
  <2>1. SettingsInv /\ RoundShape /\ DraftRows
    BY DEF SamplerInv
  <2>2. emitted # <<>> /\ Len(proposed) = K
    BY <2>1 DEF RoundShape
  <2>3. IsKept(s) /\ IsRowOf(row, s)
    BY <2>1, <2>2 DEF DraftRows
  <2>4. IsKept(p)
    BY <2>1, ProcessFacts DEF RoundShape
  <2> HIDE DEF p, s, row, i
  <2>5. /\ \A t \in Vocab : row.w[t] * s.mass = WeightIn(s, t) * row.mass
        /\ \A t \in Vocab : num[t] \in Int /\ WeightIn(p, t) \in Nat /\ row.mass \in Nat
        /\ \A t \in Vocab : WeightIn(r, t) = WeightIn(p, t) * row.mass - num[t]
        /\ r.mass = rejected /\ r.mass \in Int
    BY <2>3, <2>4, AcceptanceIsExact
  <2> HIDE DEF num, r, rejected
  <2>6. ASSUME NEW t \in Vocab
        PROVE  num[t] * r.mass + rejected * WeightIn(r, t) = WeightIn(p, t) * row.mass * r.mass
    <3> DEFINE a == num[t]   b == WeightIn(p, t)   c == row.mass   m == r.mass
    <3>1. a \in Int /\ b \in Int /\ c \in Int /\ m \in Int /\ WeightIn(r, t) = b * c - a /\ rejected = m
      BY <2>5
    <3> HIDE DEF a, b, c, m
    <3>2. a * m + m * (b * c - a) = b * c * m
      BY <3>1, Distributes
    <3>3. a * m + rejected * WeightIn(r, t) = b * c * m
      BY <3>1, <3>2
    <3>4. QED
      BY <3>3 DEF a, b, c, m
  <2>7. r.mass = 0 => rejected = 0
    BY <2>5
  <2>8. QED
    BY <2>5, <2>6, <2>7 DEF LosslessSampling, i, p, s, row, num, r, rejected
<1>2. QED
  BY <1>1, SamplerInvariance, PTL

=============================================================================
