----------------------------- MODULE DataLemmas -----------------------------
(* Facts about numbers and sequences that the proofs about the components  *)
(* share: division with remainder, least and greatest elements, prefixes,   *)
(* concatenations of sequences, sums over finite sets.                     *)
EXTENDS Integers, SequencesExt, SequenceTheorems, FiniteSetTheorems, WellFoundedInduction, TLAPS

\* The remainder of a division by a positive number is below it.
LEMMA ModRange == ASSUME NEW n \in Nat \ {0}, NEW i \in Nat PROVE i % n \in 0 .. n - 1
  BY SMT

\* Division with remainder.
LEMMA DivMod ==
  ASSUME NEW n \in Nat \ {0}, NEW a \in Nat
  PROVE  \E q \in Nat, r \in 0 .. n - 1 : a = q * n + r /\ (a % n) = r
<1>1. a = (a \div n) * n + (a % n) /\ a \div n \in Nat /\ (a % n) \in 0 .. n - 1
  BY SMT
<1>2. QED
  BY <1>1

\* The remainder is the r of any way to write a number as q * n + r with r below n.
LEMMA ModUnique ==
  ASSUME NEW n \in Nat \ {0}, NEW q \in Nat, NEW r \in 0 .. n - 1
  PROVE  (q * n + r) % n = r
  BY SMT

\* Remainders come back after n.
LEMMA ModPeriod == ASSUME NEW n \in Nat \ {0}, NEW a \in Nat PROVE (a + n) % n = a % n
<1>1. PICK q \in Nat, r \in 0 .. n - 1 : a = q * n + r /\ (a % n) = r
  BY DivMod
<1>2. a + n = (q + 1) * n + r /\ q + 1 \in Nat
  BY <1>1
<1>3. QED
  BY <1>1, <1>2, ModUnique

\* ... and not before.
LEMMA ModGap ==
  ASSUME NEW n \in Nat \ {0}, NEW a \in Nat, NEW b \in Nat, a < b, a % n = b % n
  PROVE  b - a >= n
<1>1. PICK p \in Nat, r \in 0 .. n - 1 : a = p * n + r /\ (a % n) = r
  BY DivMod
<1>2. PICK q \in Nat, s \in 0 .. n - 1 : b = q * n + s /\ (b % n) = s
  BY DivMod
<1>3. q * n > p * n /\ r = s
  BY <1>1, <1>2
<1>4. q >= p + 1
  BY <1>3
<1>5. QED
  BY <1>1, <1>2, <1>3, <1>4

\* Even and odd numbers alternate.
LEMMA Parity ==
  ASSUME NEW n \in Nat
  PROVE  /\ n % 2 = 0 => (n + 1) % 2 = 1
         /\ n % 2 = 1 => (n + 1) % 2 = 0
<1>1. PICK q \in Nat, r \in 0 .. 2 - 1 : n = q * 2 + r /\ (n % 2) = r
  BY DivMod
<1>2. CASE r = 0
  <2>1. n + 1 = q * 2 + 1 /\ 1 \in 0 .. 2 - 1
    BY <1>1, <1>2
  <2>2. QED
    BY <1>1, <1>2, <2>1, ModUnique
<1>3. CASE r = 1
  <2>1. n + 1 = (q + 1) * 2 + 0 /\ 0 \in 0 .. 2 - 1 /\ q + 1 \in Nat
    BY <1>1, <1>3
  <2>2. ((q + 1) * 2 + 0) % 2 = 0
    BY <2>1, ModUnique
  <2>3. QED
    BY <1>1, <1>3, <2>1, <2>2
<1>4. QED
  BY <1>1, <1>2, <1>3

\* A set of naturals that is not empty has a least element.
LEMMA LeastNatural == ASSUME NEW T \in SUBSET Nat, T # {} PROVE \E m \in T : \A j \in T : m <= j
<1> DEFINE R == {ss \in Nat \X Nat : ss[1] < ss[2]}
<1>1. IsWellFoundedOn(R, Nat)
  BY NatLessThanWellFounded DEF OpToRel
<1>2. PICK x \in T : \A y \in T : ~ (<<y, x>> \in R)
  BY <1>1, WFMin
<1>3. \A y \in T : ~(y < x)
  BY <1>2
<1>4. \A y \in T : x <= y
  BY <1>3
<1>5. QED
  BY <1>4

\* A family of integers over a range of indices, none empty, has a greatest member.
LEMMA GreatestOfRange ==
  ASSUME NEW a \in Nat, NEW b \in Nat, a <= b, NEW f \in [a .. b -> Int]
  PROVE  \E i \in a .. b : \A j \in a .. b : f[j] <= f[i]
<1> DEFINE HasGreatest(m) == \E i \in a .. m : \A j \in a .. m : f[j] <= f[i]
           Bad == {m \in a .. b : ~HasGreatest(m)}
<1>1. SUFFICES ASSUME Bad # {} PROVE FALSE
  <2>1. b \notin Bad
    BY <1>1
  <2>2. b \in a .. b
    OBVIOUS
  <2>3. QED
    BY <2>1, <2>2
<1>2. PICK m \in Bad : \A j \in Bad : m <= j
  <2>1. Bad \in SUBSET Nat
    OBVIOUS
  <2> HIDE DEF Bad
  <2>2. QED
    BY <1>1, <2>1, LeastNatural
<1>3. m \in a .. b /\ ~HasGreatest(m)
  OBVIOUS
<1>4. m # a
  <2>1. a .. a = {a}
    OBVIOUS
  <2>2. HasGreatest(a)
    BY <2>1
  <2>3. QED
    BY <1>3, <2>2
<1>5. m - 1 \in a .. b /\ m - 1 \notin Bad
  <2>1. m - 1 \in a .. b /\ ~(m <= m - 1)
    BY <1>3, <1>4
  <2> HIDE DEF Bad
  <2>2. QED
    BY <1>2, <2>1
<1>6. PICK i \in a .. m - 1 : \A j \in a .. m - 1 : f[j] <= f[i]
  BY <1>5
<1>7. \A j \in a .. m : j = m \/ j \in a .. m - 1
  BY <1>3
<1>8. HasGreatest(m)
  <2>1. i \in a .. m /\ m \in a .. m /\ f[i] \in Int /\ f[m] \in Int
    BY <1>3, <1>6
  <2>2. \A j \in a .. m : f[j] \in Int
    BY <1>3
  <2>3. CASE f[m] <= f[i]
    <3>1. \A j \in a .. m : f[j] <= f[i]
      BY <1>6, <1>7, <2>3
    <3>2. QED
      BY <2>1, <3>1
  <2>4. CASE ~(f[m] <= f[i])
    <3>1. \A j \in a .. m : f[j] <= f[m]
      BY <1>6, <1>7, <2>1, <2>2, <2>4
    <3>2. QED
      BY <2>1, <3>1
  <2>5. QED
    BY <2>3, <2>4
<1>9. QED
  BY <1>3, <1>8

-----------------------------------------------------------------------------
\* The first n elements of a sequence.
LEMMA PrefixFacts ==
  ASSUME NEW S, NEW s \in Seq(S), NEW n \in 0 .. Len(s)
  PROVE  /\ SubSeq(s, 1, n) \in Seq(S) /\ Len(SubSeq(s, 1, n)) = n
         /\ \A i \in 1 .. n : SubSeq(s, 1, n)[i] = s[i]
<1>1. \A i \in 1 .. n : s[i] \in S
  BY ElementOfSeq
<1>2. n \in Int /\ Len(s) \in Nat
  OBVIOUS
<1>3. QED
  BY <1>1, <1>2, SubSeqProperties

\* A prefix and what follows it make up the sequence.
LEMMA PrefixAndRest ==
  ASSUME NEW S, NEW s \in Seq(S), NEW n \in 0 .. Len(s)
  PROVE  /\ SubSeq(s, n + 1, Len(s)) \in Seq(S) /\ Len(SubSeq(s, n + 1, Len(s))) = Len(s) - n
         /\ SubSeq(s, 1, n) \o SubSeq(s, n + 1, Len(s)) = s
<1>1. \A i \in n + 1 .. Len(s) : s[i] \in S
  BY ElementOfSeq
<1>2. n + 1 \in Int /\ Len(s) \in Nat /\ n \in Nat
  OBVIOUS
<1>3. SubSeq(s, n + 1, Len(s)) \in Seq(S) /\ Len(SubSeq(s, n + 1, Len(s))) = Len(s) - n
  BY <1>1, <1>2, SubSeqProperties
<1>4. 1 \in 1 .. Len(s) + 1 /\ n \in 1 - 1 .. Len(s) /\ Len(s) \in n .. Len(s)
  OBVIOUS
<1>5. SubSeq(s, 1, n) \o SubSeq(s, n + 1, Len(s)) = SubSeq(s, 1, Len(s))
  BY <1>4, ConcatAdjacentSubSeq
<1>6. SubSeq(s, 1, Len(s)) = s
  BY SubSeqFull
<1>7. QED
  BY <1>3, <1>5, <1>6

\* A prefix of s is a prefix of s \o t.
LEMMA PrefixOfConcat ==
  ASSUME NEW S, NEW s \in Seq(S), NEW t \in Seq(S), NEW n \in 0 .. Len(s)
  PROVE  SubSeq(s \o t, 1, n) = SubSeq(s, 1, n)
<1>1. s \o t \in Seq(S) /\ Len(s \o t) = Len(s) + Len(t) /\ n \in 0 .. Len(s \o t)
  OBVIOUS
<1>2. /\ SubSeq(s \o t, 1, n) \in Seq(S) /\ Len(SubSeq(s \o t, 1, n)) = n
      /\ \A i \in 1 .. n : SubSeq(s \o t, 1, n)[i] = (s \o t)[i]
  BY <1>1, PrefixFacts
<1>3. /\ SubSeq(s, 1, n) \in Seq(S) /\ Len(SubSeq(s, 1, n)) = n
      /\ \A i \in 1 .. n : SubSeq(s, 1, n)[i] = s[i]
  BY PrefixFacts
<1>4. \A i \in 1 .. n : (s \o t)[i] = s[i]
  BY ConcatProperties
<1>5. QED
  BY <1>2, <1>3, <1>4, SeqEqual

\* s is the prefix of s \o t as long as s.
LEMMA PrefixIsFirst ==
  ASSUME NEW S, NEW s \in Seq(S), NEW t \in Seq(S)
  PROVE  SubSeq(s \o t, 1, Len(s)) = s
<1>1. Len(s) \in 0 .. Len(s)
  OBVIOUS
<1>2. SubSeq(s \o t, 1, Len(s)) = SubSeq(s, 1, Len(s))
  BY <1>1, PrefixOfConcat
<1>3. QED
  BY <1>2, SubSeqFull

\* A prefix of a prefix.
LEMMA PrefixOfPrefix ==
  ASSUME NEW S, NEW s \in Seq(S), NEW n \in 0 .. Len(s), NEW m \in 0 .. n
  PROVE  SubSeq(SubSeq(s, 1, n), 1, m) = SubSeq(s, 1, m)
<1> DEFINE t == SubSeq(s, n + 1, Len(s))
           u == SubSeq(s, 1, n)
<1>1. u \in Seq(S) /\ Len(u) = n /\ t \in Seq(S) /\ u \o t = s
  BY PrefixFacts, PrefixAndRest
<1> HIDE DEF t, u
<1>2. SubSeq(u \o t, 1, m) = SubSeq(u, 1, m)
  BY <1>1, PrefixOfConcat
<1>3. QED
  BY <1>1, <1>2 DEF u

\* A concatenation and its elements.
LEMMA Concatenated ==
  ASSUME NEW S, NEW s \in Seq(S), NEW t \in Seq(S)
  PROVE  /\ s \o t \in Seq(S) /\ Len(s \o t) = Len(s) + Len(t) /\ Len(s) \in Nat /\ Len(t) \in Nat
         /\ \A i \in 1 .. Len(s) : (s \o t)[i] = s[i]
         /\ \A i \in 1 .. Len(t) : (s \o t)[Len(s) + i] = t[i]
<1>1. s \o t \in Seq(S) /\ Len(s \o t) = Len(s) + Len(t) /\ Len(s) \in Nat /\ Len(t) \in Nat
  OBVIOUS
<1>2. \A i \in 1 .. Len(s) : (s \o t)[i] = s[i]
  OBVIOUS
<1>3. \A i \in 1 .. Len(t) : (s \o t)[Len(s) + i] = t[i]
  OBVIOUS
<1>4. QED
  BY <1>1, <1>2, <1>3

LEMMA Regroup ==
  ASSUME NEW S, NEW s \in Seq(S), NEW t \in Seq(S), NEW u \in Seq(S)
  PROVE  (s \o t) \o u = s \o (t \o u)
  BY ConcatAssociative

\* One element more.
LEMMA Appended ==
  ASSUME NEW S, NEW s \in Seq(S), NEW x \in S
  PROVE  /\ Append(s, x) \in Seq(S) /\ Len(Append(s, x)) = Len(s) + 1 /\ Len(s) \in Nat /\ Append(s, x) # <<>>
         /\ Append(s, x) = s \o <<x>> /\ <<x>> \in Seq(S) /\ Len(<<x>>) = 1
         /\ Append(s, x)[Len(s) + 1] = x
         /\ \A i \in 1 .. Len(s) : Append(s, x)[i] = s[i]
         /\ SubSeq(Append(s, x), 1, Len(s)) = s
<1>1. /\ Append(s, x) \in Seq(S) /\ Len(Append(s, x)) = Len(s) + 1 /\ Len(s) \in Nat
      /\ Append(s, x)[Len(s) + 1] = x
      /\ \A i \in 1 .. Len(s) : Append(s, x)[i] = s[i]
  BY AppendProperties
<1>2. Append(s, x) # <<>>
  BY AppendProperties
<1>3. Append(s, x) = s \o <<x>>
  BY AppendIsConcat
<1>4. <<x>> \in Seq(S) /\ Len(<<x>>) = 1
  OBVIOUS
<1>5. SubSeq(s \o <<x>>, 1, Len(s)) = s
  BY <1>4, PrefixIsFirst
<1>6. QED
  BY <1>1, <1>2, <1>3, <1>4, <1>5

\* The prefixes of s \o t that reach into t.
LEMMA PrefixIntoConcat ==
  ASSUME NEW S, NEW s \in Seq(S), NEW t \in Seq(S), NEW n \in 0 .. Len(t)
  PROVE  SubSeq(s \o t, 1, Len(s) + n) = s \o SubSeq(t, 1, n)
<1> DEFINE u == SubSeq(t, 1, n)
           v == SubSeq(t, n + 1, Len(t))
<1>1. u \in Seq(S) /\ Len(u) = n /\ v \in Seq(S) /\ u \o v = t
  BY PrefixFacts, PrefixAndRest
<1> HIDE DEF u, v
<1>2. s \o u \in Seq(S) /\ Len(s \o u) = Len(s) + n
  BY <1>1, ConcatProperties
<1>3. (s \o u) \o v = s \o t
  <2>1. u \in Seq(S) /\ v \in Seq(S)
    BY <1>1
  <2>2. (s \o u) \o v = s \o (u \o v)
    BY <2>1, Regroup, SMTT(30)
  <2>3. QED
    BY <1>1, <2>2
<1>4. SubSeq((s \o u) \o v, 1, Len(s \o u)) = s \o u
  BY <1>1, <1>2, PrefixIsFirst
<1>5. QED
  BY <1>2, <1>3, <1>4 DEF u

-----------------------------------------------------------------------------
(* FlattenSeq.                                                             *)

\* The function that FlattenSeq of m is the last value of.
Flattens(m, g) == g = [i \in 1 .. Len(m) |-> IF i = 1 THEN m[i] ELSE g[i - 1] \o m[i]]

LEMMA FlattenIsLast ==
  ASSUME NEW m, Len(m) # 0
  PROVE  FlattenSeq(m) = (CHOOSE g : Flattens(m, g))[Len(m)]
  BY DEF FlattenSeq, Flattens

\* There is such a function: one for n messages extends to n + 1.
LEMMA FlattenExists ==
  ASSUME NEW S, NEW m \in Seq(Seq(S))
  PROVE  \E g \in [1 .. Len(m) -> Seq(S)] : Flattens(m, g)
<1> DEFINE Follows(n, g) == \A i \in 1 .. n : g[i] = IF i = 1 THEN m[i] ELSE g[i - 1] \o m[i]
           Has(n) == \E g \in [1 .. n -> Seq(S)] : Follows(n, g)
           Bad == {n \in 0 .. Len(m) : ~Has(n)}
<1>1. ASSUME NEW n \in 0 .. Len(m), n > 0, Has(n - 1) PROVE Has(n)
  <2>1. PICK g \in [1 .. n - 1 -> Seq(S)] : Follows(n - 1, g)
    BY <1>1
  <2>2. n \in 1 .. Len(m) /\ m[n] \in Seq(S)
    BY <1>1, ElementOfSeq
  <2>3. n # 1 => n - 1 \in 1 .. n - 1 /\ g[n - 1] \in Seq(S)
    BY <2>2
  <2> DEFINE last == IF n = 1 THEN m[n] ELSE g[n - 1] \o m[n]
             h == [i \in 1 .. n |-> IF i = n THEN last ELSE g[i]]
  <2>4. last \in Seq(S)
    BY <2>2, <2>3, ConcatProperties
  <2>5. h \in [1 .. n -> Seq(S)]
    <3> HIDE DEF last
    <3>1. \A i \in 1 .. n : i # n => i \in 1 .. n - 1
      BY <2>2
    <3>2. QED
      BY <2>4, <3>1
  <2>6. \A i \in 1 .. n : h[i] = IF i = 1 THEN m[i] ELSE h[i - 1] \o m[i]
    <3> SUFFICES ASSUME NEW i \in 1 .. n PROVE h[i] = IF i = 1 THEN m[i] ELSE h[i - 1] \o m[i]
      OBVIOUS
    <3>1. i # 1 => i - 1 \in 1 .. n /\ i - 1 # n /\ h[i - 1] = g[i - 1]
      BY <2>2
    <3>2. CASE i = n
      BY <3>1, <3>2
    <3>3. CASE i # n
      <4>1. i \in 1 .. n - 1
        BY <2>2, <3>3
      <4>2. QED
        BY <2>1, <3>1, <3>3, <4>1
    <3>4. QED
      BY <3>2, <3>3
  <2>7. QED
    BY <2>5, <2>6
<1>2. Has(0)
  <2>1. [i \in 1 .. 0 |-> <<>>] \in [1 .. 0 -> Seq(S)]
    OBVIOUS
  <2>2. \A i : i \notin 1 .. 0
    OBVIOUS
  <2>3. QED
    BY <2>1, <2>2
<1>3. Has(Len(m))
  <2> HIDE DEF Has
  <2>1. SUFFICES ASSUME Bad # {} PROVE FALSE
    OBVIOUS
  <2>2. PICK n \in Bad : \A j \in Bad : n <= j
    <3>1. Bad \in SUBSET Nat
      OBVIOUS
    <3> HIDE DEF Bad
    <3>2. QED
      BY <2>1, <3>1, LeastNatural
  <2>3. n \in 0 .. Len(m) /\ n > 0 /\ ~Has(n)
    BY <1>2
  <2>4. n - 1 \in 0 .. Len(m) /\ n - 1 \notin Bad
    <3>1. n - 1 \in 0 .. Len(m) /\ ~(n <= n - 1)
      BY <2>3
    <3> HIDE DEF Bad
    <3>2. QED
      BY <2>2, <3>1
  <2>5. QED
    BY <1>1, <2>3, <2>4
<1>4. PICK g \in [1 .. Len(m) -> Seq(S)] : Follows(Len(m), g)
  BY <1>3
<1>5. g = [i \in 1 .. Len(m) |-> IF i = 1 THEN m[i] ELSE g[i - 1] \o m[i]]
  BY <1>4
<1>6. QED
  BY <1>5 DEF Flattens

\* ... and no other one.
LEMMA FlattenUnique ==
  ASSUME NEW S, NEW m \in Seq(S), NEW g, NEW h, Flattens(m, g), Flattens(m, h)
  PROVE  g = h
<1> DEFINE F(f) == [i \in 1 .. Len(m) |-> IF i = 1 THEN m[i] ELSE f[i - 1] \o m[i]]
           Bad == {i \in 1 .. Len(m) : g[i] # h[i]}
<1>1. g = F(g) /\ h = F(h)
  BY DEF Flattens
<1>2. /\ \A i \in 1 .. Len(m) : g[i] = IF i = 1 THEN m[i] ELSE g[i - 1] \o m[i]
      /\ \A i \in 1 .. Len(m) : h[i] = IF i = 1 THEN m[i] ELSE h[i - 1] \o m[i]
  BY <1>1
<1>3. Len(m) \in Nat
  OBVIOUS
<1>4. \A i \in 1 .. Len(m) : g[i] = h[i]
  <2>1. SUFFICES ASSUME Bad # {} PROVE FALSE
    OBVIOUS
  <2>2. PICK n \in Bad : \A j \in Bad : n <= j
    <3>1. Bad \in SUBSET Nat
      OBVIOUS
    <3> HIDE DEF Bad
    <3>2. QED
      BY <2>1, <3>1, LeastNatural
  <2>3. n \in 1 .. Len(m) /\ g[n] # h[n]
    OBVIOUS
  <2>4. n # 1
    BY <1>2, <2>3
  <2>5. n - 1 \in 1 .. Len(m) /\ n - 1 \notin Bad
    <3>1. n - 1 \in 1 .. Len(m) /\ ~(n <= n - 1)
      BY <1>3, <2>3, <2>4
    <3> HIDE DEF Bad
    <3>2. QED
      BY <2>2, <3>1
  <2>6. g[n - 1] = h[n - 1]
    BY <2>5
  <2>7. QED
    BY <1>2, <2>3, <2>4, <2>6
<1>5. F(g) = F(h)
  <2>1. \A i \in 1 .. Len(m) : i # 1 => i - 1 \in 1 .. Len(m)
    BY <1>3
  <2>2. QED
    BY <1>4, <2>1
<1>6. QED
  BY <1>1, <1>5

LEMMA FlattenIs ==
  ASSUME NEW S, NEW m \in Seq(S), Len(m) # 0, NEW g, Flattens(m, g)
  PROVE  FlattenSeq(m) = g[Len(m)]
<1>1. Flattens(m, CHOOSE f : Flattens(m, f))
  OBVIOUS
<1>2. (CHOOSE f : Flattens(m, f)) = g
  BY <1>1, FlattenUnique
<1>3. QED
  BY <1>2, FlattenIsLast

\* The rendering of messages of tokens is made of tokens.
LEMMA FlattenType ==
  ASSUME NEW S, NEW m \in Seq(Seq(S)) PROVE FlattenSeq(m) \in Seq(S)
<1>1. CASE Len(m) = 0
  <2>1. m = <<>>
    BY <1>1, EmptySeq
  <2>2. FlattenSeq(m) = m
    BY <1>1 DEF FlattenSeq
  <2>3. QED
    BY <2>1, <2>2, EmptySeq
<1>2. CASE Len(m) # 0
  <2>1. PICK g \in [1 .. Len(m) -> Seq(S)] : Flattens(m, g)
    BY FlattenExists
  <2>2. FlattenSeq(m) = g[Len(m)]
    BY <1>2, <2>1, FlattenIs
  <2>3. Len(m) \in 1 .. Len(m)
    BY <1>2
  <2>4. QED
    BY <2>1, <2>2, <2>3
<1>3. QED
  BY <1>1, <1>2

\* One more message adds its tokens at the end.
LEMMA FlattenAppend ==
  ASSUME NEW S, NEW m \in Seq(Seq(S)), NEW x \in Seq(S)
  PROVE  FlattenSeq(Append(m, x)) = FlattenSeq(m) \o x
<1> DEFINE a == Append(m, x)
<1>1. /\ a \in Seq(Seq(S)) /\ Len(a) = Len(m) + 1 /\ Len(m) \in Nat
      /\ \A i \in 1 .. Len(m) : a[i] = m[i]
      /\ a[Len(m) + 1] = x
  BY AppendProperties
<1> HIDE DEF a
<1>2. PICK g \in [1 .. Len(a) -> Seq(S)] : Flattens(a, g)
  BY <1>1, FlattenExists
<1>3. FlattenSeq(a) = g[Len(a)]
  BY <1>1, <1>2, FlattenIs
<1>4. \A i \in 1 .. Len(a) : g[i] = IF i = 1 THEN a[i] ELSE g[i - 1] \o a[i]
  <2> DEFINE f == [i \in 1 .. Len(a) |-> IF i = 1 THEN a[i] ELSE g[i - 1] \o a[i]]
  <2>1. g = f
    BY <1>2 DEF Flattens
  <2>2. \A i \in 1 .. Len(a) : f[i] = IF i = 1 THEN a[i] ELSE g[i - 1] \o a[i]
    OBVIOUS
  <2> HIDE DEF f
  <2>3. QED
    BY <2>1, <2>2
<1>5. CASE Len(m) = 0
  <2>1. m = <<>> /\ FlattenSeq(m) = <<>>
    BY <1>5, EmptySeq DEF FlattenSeq
  <2>2. g[Len(a)] = x
    BY <1>1, <1>4, <1>5
  <2>3. <<>> \o x = x
    BY ConcatEmptySeq
  <2>4. QED
    BY <1>3, <2>1, <2>2, <2>3 DEF a
<1>6. CASE Len(m) # 0
  <2> DEFINE h == [i \in 1 .. Len(m) |-> g[i]]
  <2>1. h = [i \in 1 .. Len(m) |-> IF i = 1 THEN m[i] ELSE h[i - 1] \o m[i]]
    <3>1. \A i \in 1 .. Len(m) : i \in 1 .. Len(a) /\ a[i] = m[i] /\ (i # 1 => i - 1 \in 1 .. Len(m))
      BY <1>1
    <3>2. \A i \in 1 .. Len(m) : h[i] = IF i = 1 THEN m[i] ELSE h[i - 1] \o m[i]
      BY <1>4, <3>1
    <3>3. QED
      BY <3>2
  <2>2. Flattens(m, h)
    <3> HIDE DEF h
    <3>1. QED
      BY <2>1 DEF Flattens
  <2>3. FlattenSeq(m) = h[Len(m)]
    <3> HIDE DEF h
    <3>1. QED
      BY <1>6, <2>2, FlattenIs
  <2>4. h[Len(m)] = g[Len(m)]
    BY <1>1, <1>6
  <2>5. g[Len(a)] = g[Len(m)] \o x
    <3>1. Len(a) \in 1 .. Len(a) /\ Len(a) # 1 /\ Len(a) - 1 = Len(m)
      BY <1>1, <1>6
    <3>2. a[Len(a)] = x
      BY <1>1
    <3>3. g[Len(a)] = g[Len(a) - 1] \o a[Len(a)]
      BY <1>4, <3>1
    <3>4. QED
      BY <3>1, <3>2, <3>3
  <2>6. QED
    BY <1>3, <2>3, <2>4, <2>5 DEF a
<1>7. QED
  BY <1>5, <1>6

\* The elements of a concatenation are those of its parts.
LEMMA FlattenElements ==
  ASSUME NEW S, NEW m \in Seq(Seq(S)), NEW x \in S
  PROVE  (\E i \in 1 .. Len(FlattenSeq(m)) : FlattenSeq(m)[i] = x)
           <=> \E j \in 1 .. Len(m) : \E i \in 1 .. Len(m[j]) : m[j][i] = x
<1> DEFINE In(s) == \E i \in 1 .. Len(s) : s[i] = x
<1>0. \A s, t \in Seq(S) : In(s \o t) <=> In(s) \/ In(t)
  <2> SUFFICES ASSUME NEW s \in Seq(S), NEW t \in Seq(S) PROVE In(s \o t) <=> In(s) \/ In(t)
    OBVIOUS
  <2>1. /\ Len(s \o t) = Len(s) + Len(t) /\ Len(s) \in Nat /\ Len(t) \in Nat
        /\ \A i \in 1 .. Len(s) : (s \o t)[i] = s[i]
        /\ \A i \in 1 .. Len(t) : (s \o t)[Len(s) + i] = t[i]
    BY Concatenated
  <2>2. ASSUME In(s) PROVE In(s \o t)
    BY <2>1, <2>2
  <2>3. ASSUME In(t) PROVE In(s \o t)
    <3>1. PICK i \in 1 .. Len(t) : t[i] = x
      BY <2>3
    <3>2. Len(s) + i \in 1 .. Len(s \o t) /\ (s \o t)[Len(s) + i] = x
      BY <2>1, <3>1
    <3>3. QED
      BY <3>2
  <2>4. ASSUME In(s \o t) PROVE In(s) \/ In(t)
    <3>1. PICK i \in 1 .. Len(s \o t) : (s \o t)[i] = x
      BY <2>4
    <3>2. CASE i <= Len(s)
      BY <2>1, <3>1, <3>2, SMTT(30)
    <3>3. CASE i > Len(s)
      <4>1. i - Len(s) \in 1 .. Len(t) /\ Len(s) + (i - Len(s)) = i
        BY <2>1, <3>3
      <4>2. QED
        BY <2>1, <3>1, <4>1
    <3>4. QED
      BY <2>1, <3>2, <3>3
  <2>5. QED
    BY <2>2, <2>3, <2>4
<1> HIDE DEF In
<1>1. CASE Len(m) = 0
  <2>1. FlattenSeq(m) = m
    BY <1>1 DEF FlattenSeq
  <2>2. QED
    BY <1>1, <2>1
<1>2. CASE Len(m) # 0
  <2>1. PICK g \in [1 .. Len(m) -> Seq(S)] : Flattens(m, g)
    BY FlattenExists
  <2>2. FlattenSeq(m) = g[Len(m)]
    BY <1>2, <2>1, FlattenIs
  <2>3. \A i \in 1 .. Len(m) : g[i] = IF i = 1 THEN m[i] ELSE g[i - 1] \o m[i]
    <3> DEFINE f == [i \in 1 .. Len(m) |-> IF i = 1 THEN m[i] ELSE g[i - 1] \o m[i]]
    <3>1. g = f
      BY <2>1 DEF Flattens
    <3>2. \A i \in 1 .. Len(m) : f[i] = IF i = 1 THEN m[i] ELSE g[i - 1] \o m[i]
      OBVIOUS
    <3> HIDE DEF f
    <3>3. QED
      BY <3>1, <3>2
  <2> DEFINE Right(n) == In(g[n]) <=> \E j \in 1 .. n : In(m[j])
             Bad == {n \in 1 .. Len(m) : ~Right(n)}
  <2>4. Right(1)
    <3>1. 1 \in 1 .. Len(m) /\ 1 .. 1 = {1}
      BY <1>2
    <3>2. g[1] = m[1]
      BY <2>3, <3>1
    <3>3. QED
      BY <3>1, <3>2
  <2>5. ASSUME NEW n \in 1 .. Len(m), n # 1, Right(n - 1) PROVE Right(n)
    <3>a. n - 1 \in 1 .. Len(m)
      BY <2>5
    <3>b. g[n] = g[n - 1] \o m[n]
      BY <2>3, <2>5
    <3>1. n - 1 \in 1 .. Len(m) /\ g[n] = g[n - 1] \o m[n]
      BY <3>a, <3>b
    <3>2. g[n - 1] \in Seq(S) /\ m[n] \in Seq(S)
      BY <3>1, ElementOfSeq
    <3>3. In(g[n]) <=> In(g[n - 1]) \/ In(m[n])
      BY <1>0, <3>1, <3>2
    <3>4. \A j : j \in 1 .. n <=> j \in 1 .. n - 1 \/ j = n
      BY <3>1
    <3>5. QED
      BY <2>5, <3>3, <3>4
  <2>6. Right(Len(m))
    <3>1. SUFFICES ASSUME Bad # {} PROVE FALSE
      <4>1. Len(m) \in 1 .. Len(m)
        BY <1>2
      <4> HIDE DEF Right
      <4>2. QED
        BY <3>1, <4>1
    <3>2. PICK n \in Bad : \A j \in Bad : n <= j
      <4>1. Bad \in SUBSET Nat
        OBVIOUS
      <4> HIDE DEF Bad
      <4>2. QED
        BY <3>1, <4>1, LeastNatural
    <3>3. n \in 1 .. Len(m) /\ ~Right(n)
      BY <3>2
    <3> HIDE DEF Right
    <3>4. n # 1
      BY <2>4, <3>3
    <3>5. n - 1 \in 1 .. Len(m) /\ ~(n <= n - 1)
      BY <3>3, <3>4
    <3>6. Right(n - 1)
      <4>1. n - 1 \notin Bad
        <5> HIDE DEF Bad
        <5>1. QED
          BY <3>2, <3>5
      <4>2. QED
        BY <3>5, <4>1
    <3>7. QED
      BY <2>5, <3>3, <3>4, <3>6
  <2>7. In(FlattenSeq(m)) <=> \E j \in 1 .. Len(m) : In(m[j])
    BY <2>2, <2>6
  <2>8. QED
    BY <2>7 DEF In
<1>3. QED
  BY <1>1, <1>2

-----------------------------------------------------------------------------
(* Least and greatest of two, and of a bounded set of numbers.               *)

LEMMA MinOfTwo == ASSUME NEW a \in Int, NEW b \in Int PROVE Min({a, b}) = IF a <= b THEN a ELSE b
<1>1. Min({a, b}) \in {a, b} /\ \A x \in {a, b} : Min({a, b}) <= x
  <2>1. \E x \in {a, b} : \A z \in {a, b} : x <= z
    OBVIOUS
  <2>2. QED
    BY <2>1 DEF Min
<1>2. QED
  BY <1>1

LEMMA MaxOfTwo == ASSUME NEW a \in Int, NEW b \in Int PROVE Max({a, b}) = IF a >= b THEN a ELSE b
<1>1. Max({a, b}) \in {a, b} /\ \A x \in {a, b} : Max({a, b}) >= x
  <2>1. \E x \in {a, b} : \A z \in {a, b} : x >= z
    OBVIOUS
  <2>2. QED
    BY <2>1 DEF Max
<1>2. QED
  BY <1>1

LEMMA MaxOfSet ==
  ASSUME NEW n \in Nat, NEW S \in SUBSET (0 .. n), S # {}
  PROVE  Max(S) \in S /\ \A y \in S : y <= Max(S)
<1> DEFINE T == {n - x : x \in S}
<1>1. T \in SUBSET Nat /\ T # {}
  <2>1. \A x \in S : n - x \in Nat
    BY SMT
  <2>2. T \in SUBSET Nat
    BY <2>1
  <2>3. T # {}
    OBVIOUS
  <2>4. QED
    BY <2>2, <2>3
<1>2. PICK m \in T : \A j \in T : m <= j
  BY <1>1, LeastNatural
<1>3. PICK x \in S : m = n - x
  BY <1>2
<1>4. \A y \in S : x >= y
  <2> TAKE y \in S
  <2>1. n - y \in T
    OBVIOUS
  <2>2. n - x <= n - y
    BY <1>2, <1>3, <2>1
  <2>3. QED
    BY <2>2
<1>5. Max(S) \in S /\ \A y \in S : Max(S) >= y
  BY <1>4 DEF Max
<1>6. QED
  BY <1>5

-----------------------------------------------------------------------------
(* Sums over finite sets.                                                    *)

\* The element a sum takes first, the sum one step on, and the table of the sums of all subsets.
FirstOf(s) == CHOOSE x \in s : TRUE

SumStep(f, g, s) == IF s = {} THEN 0 ELSE f[FirstOf(s)] + g[s \ {FirstOf(s)}]

SumTable(f, S, g) == g = [s \in SUBSET S |-> SumStep(f, g, s)]

LEMMA SumIsLast ==
  ASSUME NEW f, NEW S
  PROVE  SumFunctionOnSet(f, S) = (CHOOSE g : SumTable(f, S, g))[S]
  BY DEF SumFunctionOnSet, FoldFunctionOnSet, MapThenFoldSet, SumTable, SumStep, FirstOf

LEMMA FirstIn == ASSUME NEW s, s # {} PROVE FirstOf(s) \in s
  BY DEF FirstOf

\* The subsets of a finite set, and what is left of one without its first element.
LEMMA SubsetFacts ==
  ASSUME NEW S, IsFiniteSet(S), NEW s \in SUBSET S
  PROVE  /\ IsFiniteSet(s) /\ Cardinality(s) \in Nat
         /\ s # {} => s \ {FirstOf(s)} \in SUBSET S /\ Cardinality(s \ {FirstOf(s)}) = Cardinality(s) - 1
                       /\ Cardinality(s) > 0
<1>1. IsFiniteSet(s) /\ Cardinality(s) \in Nat
  BY FS_Subset, FS_CardinalityType
<1>2. ASSUME s # {} PROVE s \ {FirstOf(s)} \in SUBSET S /\ Cardinality(s \ {FirstOf(s)}) = Cardinality(s) - 1 /\ Cardinality(s) > 0
  <2>1. FirstOf(s) \in s
    BY <1>2, FirstIn
  <2>2. Cardinality(s \ {FirstOf(s)}) = Cardinality(s) - 1
    BY <1>1, <2>1, FS_RemoveElement
  <2>3. Cardinality(s) # 0
    BY <1>1, <1>2, FS_EmptySet
  <2>4. QED
    BY <1>1, <2>2, <2>3
<1>3. QED
  BY <1>1, <1>2

\* There is such a table: one of the subsets of up to n elements extends to n + 1.
LEMMA SumTableExists ==
  ASSUME NEW S, IsFiniteSet(S), NEW f \in [S -> Int]
  PROVE  \E g \in [SUBSET S -> Int] : SumTable(f, S, g)
<1> DEFINE UpTo(n) == {s \in SUBSET S : Cardinality(s) <= n}
           Has(n) == \E g \in [UpTo(n) -> Int] : \A s \in UpTo(n) : g[s] = SumStep(f, g, s)
           Bad == {n \in Nat : ~Has(n)}
<1>0. \A s \in SUBSET S : /\ IsFiniteSet(s) /\ Cardinality(s) \in Nat
                          /\ s # {} => s \ {FirstOf(s)} \in SUBSET S /\ Cardinality(s \ {FirstOf(s)}) = Cardinality(s) - 1
                                        /\ Cardinality(s) > 0 /\ FirstOf(s) \in S
  <2> TAKE s \in SUBSET S
  <2>1. /\ IsFiniteSet(s) /\ Cardinality(s) \in Nat
        /\ s # {} => s \ {FirstOf(s)} \in SUBSET S /\ Cardinality(s \ {FirstOf(s)}) = Cardinality(s) - 1
                      /\ Cardinality(s) > 0
    BY SubsetFacts
  <2>2. s # {} => FirstOf(s) \in S
    BY FirstIn
  <2>3. QED
    BY <2>1, <2>2
<1>1. Has(0)
  <2>1. ASSUME NEW s \in UpTo(0) PROVE s = {}
    <3>1. s \in SUBSET S /\ Cardinality(s) <= 0
      OBVIOUS
    <3>2. s # {} => Cardinality(s) \in Nat /\ Cardinality(s) > 0
      BY <1>0, <3>1
    <3>3. QED
      BY <3>1, <3>2
  <2> DEFINE g == [s \in UpTo(0) |-> 0]
  <2>2. g \in [UpTo(0) -> Int]
    OBVIOUS
  <2>3. \A s \in UpTo(0) : g[s] = SumStep(f, g, s)
    BY <2>1 DEF SumStep
  <2>4. QED
    BY <2>2, <2>3
<1>2. ASSUME NEW n \in Nat, n > 0, Has(n - 1) PROVE Has(n)
  <2>1. PICK g \in [UpTo(n - 1) -> Int] : \A s \in UpTo(n - 1) : g[s] = SumStep(f, g, s)
    BY <1>2
  <2> DEFINE h == [s \in UpTo(n) |-> IF s \in UpTo(n - 1) THEN g[s] ELSE SumStep(f, g, s)]
  <2>2. ASSUME NEW s \in UpTo(n), s # {}
        PROVE  s \ {FirstOf(s)} \in UpTo(n - 1) /\ s \ {FirstOf(s)} \in UpTo(n) /\ FirstOf(s) \in S
    BY <1>0, <2>2
  <2>3. \A s \in UpTo(n) : SumStep(f, g, s) \in Int
    <3> SUFFICES ASSUME NEW s \in UpTo(n) PROVE SumStep(f, g, s) \in Int
      OBVIOUS
    <3> HIDE DEF UpTo
    <3>1. CASE s = {}
      BY <3>1 DEF SumStep
    <3>2. CASE s # {}
      <4>1. f[FirstOf(s)] \in Int /\ g[s \ {FirstOf(s)}] \in Int
        BY <2>2, <3>2
      <4>2. QED
        BY <3>2, <4>1 DEF SumStep
    <3>3. QED
      BY <3>1, <3>2
  <2>4. h \in [UpTo(n) -> Int]
    <3> HIDE DEF UpTo
    <3>1. QED
      BY <2>3
  <2>5. \A s \in UpTo(n) : h[s] = SumStep(f, g, s)
    <3> HIDE DEF UpTo
    <3>1. QED
      BY <2>1
  <2>6. \A s \in UpTo(n) : SumStep(f, h, s) = SumStep(f, g, s)
    <3> SUFFICES ASSUME NEW s \in UpTo(n) PROVE SumStep(f, h, s) = SumStep(f, g, s)
      OBVIOUS
    <3>1. s # {} => h[s \ {FirstOf(s)}] = g[s \ {FirstOf(s)}]
      <4>1. s # {} => s \ {FirstOf(s)} \in UpTo(n - 1) /\ s \ {FirstOf(s)} \in UpTo(n)
        BY <2>2
      <4> HIDE DEF UpTo
      <4>2. QED
        BY <4>1
    <3> HIDE DEF h, UpTo
    <3>2. QED
      BY <3>1 DEF SumStep
  <2>7. \A s \in UpTo(n) : h[s] = SumStep(f, h, s)
    BY <2>5, <2>6
  <2> HIDE DEF h, UpTo
  <2>8. QED
    BY <2>4, <2>7
<1>3. \A n \in Nat : Has(n)
  <2> HIDE DEF Has
  <2>1. SUFFICES ASSUME Bad # {} PROVE FALSE
    OBVIOUS
  <2>2. PICK n \in Bad : \A j \in Bad : n <= j
    <3>1. Bad \in SUBSET Nat
      OBVIOUS
    <3> HIDE DEF Bad
    <3>2. QED
      BY <2>1, <3>1, LeastNatural
  <2>3. n \in Nat /\ n > 0 /\ ~Has(n)
    BY <1>1
  <2>4. n - 1 \notin Bad /\ n - 1 \in Nat
    <3>1. n - 1 \in Nat /\ ~(n <= n - 1)
      BY <2>3
    <3> HIDE DEF Bad
    <3>2. QED
      BY <2>2, <3>1
  <2>5. Has(n - 1)
    BY <2>4
  <2>6. QED
    BY <1>2, <2>3, <2>5
<1>4. Has(Cardinality(S))
  <2> HIDE DEF Has
  <2>1. QED
    BY <1>3, FS_CardinalityType
<1>5. UpTo(Cardinality(S)) = SUBSET S
  BY FS_Subset
<1>6. \E g \in [SUBSET S -> Int] : \A s \in SUBSET S : g[s] = SumStep(f, g, s)
  <2> HIDE DEF UpTo
  <2>1. QED
    BY <1>4, <1>5
<1>7. PICK g \in [SUBSET S -> Int] : \A s \in SUBSET S : g[s] = SumStep(f, g, s)
  BY <1>6
<1>8. g = [s \in SUBSET S |-> SumStep(f, g, s)]
  BY <1>7
<1>9. QED
  BY <1>8 DEF SumTable

\* ... and no other one, whatever it is the table of a part of.
LEMMA SumTableUnique ==
  ASSUME NEW S, IsFiniteSet(S), NEW f, NEW T \in SUBSET S, NEW g, NEW h, SumTable(f, S, g), SumTable(f, T, h)
  PROVE  \A s \in SUBSET T : g[s] = h[s]
<1> DEFINE Bad == {s \in SUBSET T : g[s] # h[s]}
           Sizes == {Cardinality(s) : s \in Bad}
<1>0. /\ \A s \in SUBSET S : g[s] = SumStep(f, g, s)
      /\ \A s \in SUBSET T : h[s] = SumStep(f, h, s)
  BY DEF SumTable
<1>1. SUFFICES ASSUME Bad # {} PROVE FALSE
  OBVIOUS
<1>2. Sizes \in SUBSET Nat /\ Sizes # {}
  <2>1. \A s \in SUBSET T : Cardinality(s) \in Nat
    BY SubsetFacts
  <2>2. QED
    BY <1>1, <2>1
<1>3. PICK n \in Sizes : \A j \in Sizes : n <= j
  <2> HIDE DEF Sizes
  <2>1. QED
    BY <1>2, LeastNatural
<1>4. PICK s \in Bad : Cardinality(s) = n
  OBVIOUS
<1>5. s \in SUBSET T /\ s \in SUBSET S /\ g[s] # h[s]
  OBVIOUS
<1>6. s # {}
  <2>1. SumStep(f, g, {}) = SumStep(f, h, {})
    BY DEF SumStep
  <2>2. QED
    BY <1>0, <1>5, <2>1
<1>7. s \ {FirstOf(s)} \in SUBSET T /\ Cardinality(s \ {FirstOf(s)}) = Cardinality(s) - 1 /\ Cardinality(s) \in Nat
  BY <1>5, <1>6, SubsetFacts
<1>8. s \ {FirstOf(s)} \notin Bad
  <2> SUFFICES ASSUME s \ {FirstOf(s)} \in Bad PROVE FALSE
    OBVIOUS
  <2>1. Cardinality(s \ {FirstOf(s)}) \in Sizes
    OBVIOUS
  <2> HIDE DEF Sizes, Bad
  <2>2. n <= Cardinality(s) - 1
    BY <1>3, <1>7, <2>1
  <2>3. QED
    BY <1>4, <1>7, <2>2
<1>9. g[s \ {FirstOf(s)}] = h[s \ {FirstOf(s)}]
  BY <1>7, <1>8
<1>10. QED
  BY <1>0, <1>5, <1>6, <1>9 DEF SumStep

\* The sums of the subsets of S are in the table of S.
LEMMA SumInTable ==
  ASSUME NEW S, IsFiniteSet(S), NEW f, NEW g, SumTable(f, S, g), NEW T \in SUBSET S, NEW h, SumTable(f, T, h)
  PROVE  SumFunctionOnSet(f, T) = g[T]
<1> DEFINE c == CHOOSE e : SumTable(f, T, e)
<1>1. SumTable(f, T, c)
  OBVIOUS
<1> HIDE DEF c
<1>2. \A s \in SUBSET T : g[s] = c[s]
  BY <1>1, SumTableUnique
<1>3. SumFunctionOnSet(f, T) = c[T]
  BY SumIsLast DEF c
<1>4. QED
  BY <1>2, <1>3

\* The sum of a finite set of integers, element by element in the order of the choice.
LEMMA SumByFirst ==
  ASSUME NEW S, IsFiniteSet(S), NEW f, \A x \in S : f[x] \in Int
  PROVE  /\ SumFunctionOnSet(f, {}) = 0
         /\ \A T \in SUBSET S : SumFunctionOnSet(f, T) \in Int
         /\ \A T \in SUBSET S : T # {} =>
              SumFunctionOnSet(f, T) = f[FirstOf(T)] + SumFunctionOnSet(f, T \ {FirstOf(T)})
<1> DEFINE e == [x \in S |-> f[x]]
<1>1. \A T \in SUBSET S : \E g \in [SUBSET T -> Int] : SumTable(f, T, g)
  <2> SUFFICES ASSUME NEW T \in SUBSET S PROVE \E g \in [SUBSET T -> Int] : SumTable(f, T, g)
    OBVIOUS
  <2> DEFINE d == [x \in T |-> f[x]]
  <2>1. d \in [T -> Int] /\ IsFiniteSet(T)
    BY FS_Subset
  <2> HIDE DEF d
  <2>2. PICK g \in [SUBSET T -> Int] : SumTable(d, T, g)
    BY <2>1, SumTableExists
  <2>3. \A s \in SUBSET T : SumStep(d, g, s) = SumStep(f, g, s)
    <3> SUFFICES ASSUME NEW s \in SUBSET T, s # {} PROVE d[FirstOf(s)] = f[FirstOf(s)]
      BY DEF SumStep
    <3>1. FirstOf(s) \in T
      BY FirstIn
    <3>2. QED
      BY <3>1 DEF d
  <2>4. SumTable(f, T, g)
    BY <2>2, <2>3 DEF SumTable
  <2>5. QED
    BY <2>4
<1>2. PICK g \in [SUBSET S -> Int] : SumTable(f, S, g)
  BY <1>1
<1>3. \A T \in SUBSET S : SumFunctionOnSet(f, T) = g[T]
  <2> SUFFICES ASSUME NEW T \in SUBSET S PROVE SumFunctionOnSet(f, T) = g[T]
    OBVIOUS
  <2>1. PICK h : SumTable(f, T, h)
    BY <1>1
  <2>2. QED
    BY <1>2, <2>1, SumInTable
<1>4. \A T \in SUBSET S : g[T] = SumStep(f, g, T)
  BY <1>2 DEF SumTable
<1>5. SumFunctionOnSet(f, {}) = 0
  <2>1. {} \in SUBSET S
    OBVIOUS
  <2>2. QED
    BY <1>3, <1>4, <2>1 DEF SumStep
<1>6. ASSUME NEW T \in SUBSET S, T # {}
      PROVE  SumFunctionOnSet(f, T) = f[FirstOf(T)] + SumFunctionOnSet(f, T \ {FirstOf(T)})
  <2>1. T \ {FirstOf(T)} \in SUBSET S
    OBVIOUS
  <2>2. g[T] = f[FirstOf(T)] + g[T \ {FirstOf(T)}]
    BY <1>4, <1>6 DEF SumStep
  <2>3. SumFunctionOnSet(f, T) = g[T] /\ SumFunctionOnSet(f, T \ {FirstOf(T)}) = g[T \ {FirstOf(T)}]
    BY <1>3, <2>1
  <2>4. QED
    BY <2>2, <2>3
<1>7. \A T \in SUBSET S : SumFunctionOnSet(f, T) \in Int
  BY <1>2, <1>3
<1>8. QED
  BY <1>5, <1>6, <1>7

\* Induction over the subsets of a finite set: P holds those for which something is shown.
LEMMA SubsetInduction ==
  ASSUME NEW S, IsFiniteSet(S), NEW P, {} \in P,
         \A T \in SUBSET S : T \in P => \A x \in S \ T : T \cup {x} \in P
  PROVE  S \in P
<1> DEFINE Bad == {s \in SUBSET S : s \notin P}
           Sizes == {Cardinality(s) : s \in Bad}
<1>1. SUFFICES ASSUME Bad # {} PROVE FALSE
  OBVIOUS
<1>2. Sizes \in SUBSET Nat /\ Sizes # {}
  <2>1. \A s \in SUBSET S : Cardinality(s) \in Nat
    BY SubsetFacts
  <2>2. QED
    BY <1>1, <2>1
<1>3. PICK n \in Sizes : \A j \in Sizes : n <= j
  <2> HIDE DEF Sizes
  <2>1. QED
    BY <1>2, LeastNatural
<1>4. PICK s \in Bad : Cardinality(s) = n
  OBVIOUS
<1>5. s \in SUBSET S /\ s \notin P /\ s # {}
  OBVIOUS
<1>6. s \ {FirstOf(s)} \in SUBSET S /\ Cardinality(s \ {FirstOf(s)}) = Cardinality(s) - 1 /\ Cardinality(s) \in Nat
  BY <1>5, SubsetFacts
<1>7. s \ {FirstOf(s)} \in P
  <2> SUFFICES ASSUME s \ {FirstOf(s)} \in Bad PROVE FALSE
    BY <1>6
  <2>1. Cardinality(s \ {FirstOf(s)}) \in Sizes
    OBVIOUS
  <2> HIDE DEF Sizes, Bad
  <2>2. n <= Cardinality(s) - 1
    BY <1>3, <1>6, <2>1
  <2>3. QED
    BY <1>4, <1>6, <2>2
<1>8. FirstOf(s) \in S \ (s \ {FirstOf(s)}) /\ (s \ {FirstOf(s)}) \cup {FirstOf(s)} = s
  BY <1>5, FirstIn
<1>9. QED
  BY <1>5, <1>6, <1>7, <1>8

\* Any element may be taken first.
LEMMA SumRemove ==
  ASSUME NEW S, IsFiniteSet(S), NEW f, \A x \in S : f[x] \in Int, NEW x \in S
  PROVE  /\ SumFunctionOnSet(f, S) = f[x] + SumFunctionOnSet(f, S \ {x})
         /\ SumFunctionOnSet(f, S) \in Int /\ SumFunctionOnSet(f, S \ {x}) \in Int
<1> DEFINE Sum(T) == SumFunctionOnSet(f, T)
           Removal(T) == \A y \in T : Sum(T) = f[y] + Sum(T \ {y})
           Bad == {T \in SUBSET S : ~Removal(T)}
           Sizes == {Cardinality(T) : T \in Bad}
<1>0. /\ \A T \in SUBSET S : Sum(T) \in Int
      /\ \A T \in SUBSET S : T # {} => Sum(T) = f[FirstOf(T)] + Sum(T \ {FirstOf(T)})
  BY SumByFirst
<1>1. \A T \in SUBSET S : Removal(T)
  <2> HIDE DEF Sum
  <2>1. SUFFICES ASSUME Bad # {} PROVE FALSE
    OBVIOUS
  <2>2. Sizes \in SUBSET Nat /\ Sizes # {}
    <3>1. \A s \in SUBSET S : Cardinality(s) \in Nat
      BY SubsetFacts
    <3>2. QED
      BY <2>1, <3>1
  <2>3. PICK n \in Sizes : \A j \in Sizes : n <= j
    <3> HIDE DEF Sizes
    <3>1. QED
      BY <2>2, LeastNatural
  <2>4. PICK T \in Bad : Cardinality(T) = n
    OBVIOUS
  <2>5. PICK y \in T : Sum(T) # f[y] + Sum(T \ {y})
    OBVIOUS
  <2>6. T \in SUBSET S /\ y \in S /\ FirstOf(T) \in T /\ T # {}
    BY FirstIn
  <2> DEFINE c == FirstOf(T)
  <2>7. ASSUME NEW z \in T PROVE Removal(T \ {z})
    <3>1. Cardinality(T \ {z}) = Cardinality(T) - 1 /\ Cardinality(T) \in Nat
      <4>1. IsFiniteSet(T)
        BY <2>6, FS_Subset
      <4>2. QED
        BY <4>1, FS_RemoveElement, FS_CardinalityType
    <3> SUFFICES ASSUME T \ {z} \in Bad PROVE FALSE
      BY <2>6
    <3>2. Cardinality(T \ {z}) \in Sizes
      OBVIOUS
    <3> HIDE DEF Sizes, Bad
    <3>3. n <= Cardinality(T) - 1
      BY <2>3, <3>1, <3>2
    <3>4. QED
      BY <2>4, <3>1, <3>3
  <2>8. Sum(T) = f[c] + Sum(T \ {c})
    BY <1>0, <2>6
  <2>9. y # c
    BY <2>5, <2>8
  <2> HIDE DEF c
  <2>10. c \in T
    BY <2>6 DEF c
  <2>11. Sum(T \ {c}) = f[y] + Sum((T \ {c}) \ {y})
    BY <2>7, <2>9, <2>10
  <2>12. Sum(T \ {y}) = f[c] + Sum((T \ {y}) \ {c})
    BY <2>7, <2>9, <2>10
  <2> DEFINE r == Sum((T \ {c}) \ {y})
  <2>13. Sum((T \ {y}) \ {c}) = r
    <3>1. (T \ {y}) \ {c} = (T \ {c}) \ {y}
      OBVIOUS
    <3>2. QED
      BY <3>1
  <2>14. f[y] \in Int /\ f[c] \in Int /\ r \in Int
    BY <1>0, <2>6, <2>10
  <2>15. Sum(T) = f[c] + (f[y] + r) /\ Sum(T \ {y}) = f[c] + r
    BY <2>8, <2>11, <2>12, <2>13
  <2> HIDE DEF r
  <2>16. f[c] + (f[y] + r) = f[y] + (f[c] + r)
    BY <2>14
  <2>17. QED
    BY <2>5, <2>15, <2>16
<1>2. S \in SUBSET S /\ S \ {x} \in SUBSET S
  OBVIOUS
<1>3. Removal(S)
  BY <1>1, <1>2
<1>4. QED
  BY <1>0, <1>2, <1>3

\* One element more.
LEMMA SumAdd ==
  ASSUME NEW S, IsFiniteSet(S), NEW x, x \notin S, NEW f, \A y \in S \cup {x} : f[y] \in Int
  PROVE  /\ SumFunctionOnSet(f, S \cup {x}) = f[x] + SumFunctionOnSet(f, S)
         /\ SumFunctionOnSet(f, S \cup {x}) \in Int /\ SumFunctionOnSet(f, S) \in Int
<1> DEFINE T == S \cup {x}
<1>1. IsFiniteSet(T) /\ x \in T /\ T \ {x} = S
  BY FS_AddElement
<1>2. \A y \in T : f[y] \in Int
  OBVIOUS
<1> HIDE DEF T
<1>3. /\ SumFunctionOnSet(f, T) = f[x] + SumFunctionOnSet(f, T \ {x})
      /\ SumFunctionOnSet(f, T) \in Int /\ SumFunctionOnSet(f, T \ {x}) \in Int
  BY <1>1, <1>2, SumRemove
<1>4. QED
  BY <1>1, <1>3 DEF T

\* What every proof by induction over the summed set uses.
LEMMA SumFacts ==
  ASSUME NEW S, IsFiniteSet(S), NEW f, \A y \in S : f[y] \in Int
  PROVE  /\ SumFunctionOnSet(f, {}) = 0
         /\ \A T \in SUBSET S : SumFunctionOnSet(f, T) \in Int
         /\ \A T \in SUBSET S : \A x \in S \ T : SumFunctionOnSet(f, T \cup {x}) = f[x] + SumFunctionOnSet(f, T)
<1>1. ASSUME NEW T \in SUBSET S, NEW x \in S \ T
      PROVE SumFunctionOnSet(f, T \cup {x}) = f[x] + SumFunctionOnSet(f, T)
  <2>1. IsFiniteSet(T) /\ x \notin T /\ \A y \in T \cup {x} : f[y] \in Int
    BY FS_Subset
  <2>2. QED
    BY <2>1, SumAdd
<1>2. QED
  BY <1>1, SumByFirst

\* A sum is of a difference, a multiple, ...: h = c * f - g element by element.
LEMMA SumLinear ==
  ASSUME NEW S, IsFiniteSet(S), NEW c \in Int, NEW f, NEW g, NEW h,
         \A x \in S : f[x] \in Int /\ g[x] \in Int /\ h[x] = c * f[x] - g[x]
  PROVE  SumFunctionOnSet(h, S) = c * SumFunctionOnSet(f, S) - SumFunctionOnSet(g, S)
<1> DEFINE F(T) == SumFunctionOnSet(f, T)
           G(T) == SumFunctionOnSet(g, T)
           H(T) == SumFunctionOnSet(h, T)
           P == {T \in SUBSET S : H(T) = c * F(T) - G(T)}
<1>1. /\ F({}) = 0
      /\ \A T \in SUBSET S : F(T) \in Int
      /\ \A T \in SUBSET S : \A x \in S \ T : F(T \cup {x}) = f[x] + F(T)
  BY SumFacts
<1>2. /\ G({}) = 0
      /\ \A T \in SUBSET S : G(T) \in Int
      /\ \A T \in SUBSET S : \A x \in S \ T : G(T \cup {x}) = g[x] + G(T)
  BY SumFacts, ZenonT(40)
<1>3. /\ H({}) = 0
      /\ \A T \in SUBSET S : H(T) \in Int
      /\ \A T \in SUBSET S : \A x \in S \ T : H(T \cup {x}) = h[x] + H(T)
  <2>1. \A x \in S : h[x] \in Int
    OBVIOUS
  <2>2. QED
    BY <2>1, SumFacts
<1> HIDE DEF F, G, H
<1>4. {} \in P
  BY <1>1, <1>2, <1>3
<1>5. ASSUME NEW T \in SUBSET S, T \in P, NEW x \in S \ T PROVE T \cup {x} \in P
  <2>1. H(T) = c * F(T) - G(T) /\ F(T) \in Int /\ G(T) \in Int
    BY <1>1, <1>2, <1>5
  <2>2. F(T \cup {x}) = f[x] + F(T) /\ G(T \cup {x}) = g[x] + G(T) /\ H(T \cup {x}) = h[x] + H(T)
    BY <1>1, <1>2, <1>3
  <2>3. f[x] \in Int /\ g[x] \in Int /\ h[x] = c * f[x] - g[x]
    OBVIOUS
  <2>4. c * (f[x] + F(T)) = c * f[x] + c * F(T)
    BY <2>1, <2>3
  <2>5. H(T \cup {x}) = c * F(T \cup {x}) - G(T \cup {x})
    BY <2>1, <2>2, <2>3, <2>4
  <2>6. QED
    BY <2>5
<1>6. S \in P
  <2> HIDE DEF P
  <2>1. QED
    BY <1>4, <1>5, SubsetInduction
<1>7. QED
  BY <1>6 DEF F, G, H

LEMMA SumMonotone ==
  ASSUME NEW S, IsFiniteSet(S), NEW f, NEW g, \A x \in S : f[x] \in Int /\ g[x] \in Int /\ f[x] <= g[x]
  PROVE  SumFunctionOnSet(f, S) <= SumFunctionOnSet(g, S)
<1> DEFINE F(T) == SumFunctionOnSet(f, T)
           G(T) == SumFunctionOnSet(g, T)
           P == {T \in SUBSET S : F(T) <= G(T)}
<1>1. /\ F({}) = 0
      /\ \A T \in SUBSET S : F(T) \in Int
      /\ \A T \in SUBSET S : \A x \in S \ T : F(T \cup {x}) = f[x] + F(T)
  BY SumFacts
<1>2. /\ G({}) = 0
      /\ \A T \in SUBSET S : G(T) \in Int
      /\ \A T \in SUBSET S : \A x \in S \ T : G(T \cup {x}) = g[x] + G(T)
  BY SumFacts
<1> HIDE DEF F, G
<1>3. {} \in P
  BY <1>1, <1>2
<1>4. ASSUME NEW T \in SUBSET S, T \in P, NEW x \in S \ T PROVE T \cup {x} \in P
  <2>1. F(T) <= G(T) /\ F(T) \in Int /\ G(T) \in Int
    BY <1>1, <1>2, <1>4
  <2>2. F(T \cup {x}) = f[x] + F(T) /\ G(T \cup {x}) = g[x] + G(T)
    BY <1>1, <1>2
  <2>3. F(T \cup {x}) <= G(T \cup {x})
    BY <2>1, <2>2
  <2>4. QED
    BY <2>3
<1>5. S \in P
  <2> HIDE DEF P
  <2>1. QED
    BY <1>3, <1>4, SubsetInduction
<1>6. QED
  BY <1>5 DEF F, G

LEMMA SumEqual ==
  ASSUME NEW S, IsFiniteSet(S), NEW f, NEW g, \A x \in S : f[x] \in Int /\ g[x] = f[x]
  PROVE  SumFunctionOnSet(g, S) = SumFunctionOnSet(f, S)
<1>1. /\ \A x \in S : f[x] \in Int /\ g[x] \in Int /\ f[x] <= g[x]
      /\ \A x \in S : g[x] \in Int /\ f[x] \in Int /\ g[x] <= f[x]
  OBVIOUS
<1>2. SumFunctionOnSet(f, S) <= SumFunctionOnSet(g, S)
  BY <1>1, SumMonotone
<1>3. SumFunctionOnSet(g, S) <= SumFunctionOnSet(f, S)
  BY <1>1, SumMonotone
<1>4. SumFunctionOnSet(f, S) \in Int /\ SumFunctionOnSet(g, S) \in Int
  BY <1>1, SumByFirst
<1>5. QED
  BY <1>2, <1>3, <1>4

LEMMA SumZero ==
  ASSUME NEW S, IsFiniteSet(S), NEW f, \A x \in S : f[x] = 0
  PROVE  SumFunctionOnSet(f, S) = 0
<1> DEFINE P == {T \in SUBSET S : SumFunctionOnSet(f, T) = 0}
<1>1. \A x \in S : f[x] \in Int
  OBVIOUS
<1>2. /\ SumFunctionOnSet(f, {}) = 0
      /\ \A T \in SUBSET S : \A x \in S \ T : SumFunctionOnSet(f, T \cup {x}) = f[x] + SumFunctionOnSet(f, T)
  BY <1>1, SumFacts
<1>3. {} \in P /\ \A T \in SUBSET S : T \in P => \A x \in S \ T : T \cup {x} \in P
  BY <1>2
<1>4. S \in P
  <2> HIDE DEF P
  <2>1. QED
    BY <1>3, SubsetInduction
<1>5. QED
  BY <1>4

LEMMA SumUnion ==
  ASSUME NEW S, IsFiniteSet(S), NEW T, IsFiniteSet(T), S \cap T = {}, NEW f, \A x \in S \cup T : f[x] \in Int
  PROVE  SumFunctionOnSet(f, S \cup T) = SumFunctionOnSet(f, S) + SumFunctionOnSet(f, T)
<1> DEFINE F(U) == SumFunctionOnSet(f, U)
           P == {U \in SUBSET T : F(S \cup U) = F(S) + F(U)}
           all == S \cup T
<1>1. IsFiniteSet(all)
  BY FS_Union
<1>2. /\ F({}) = 0
      /\ \A U \in SUBSET all : F(U) \in Int
      /\ \A U \in SUBSET all : \A x \in all \ U : F(U \cup {x}) = f[x] + F(U)
  BY <1>1, SumFacts
<1> HIDE DEF F
<1>3. {} \in P
  <2>1. S \cup {} = S /\ S \in SUBSET all
    OBVIOUS
  <2>2. F(S) \in Int
    BY <1>2, <2>1
  <2>3. F(S \cup {}) = F(S)
    BY <2>1
  <2>4. QED
    BY <1>2, <2>2, <2>3
<1>4. ASSUME NEW U \in SUBSET T, U \in P, NEW x \in T \ U PROVE U \cup {x} \in P
  <2>1. F(S \cup U) = F(S) + F(U)
    BY <1>4
  <2>2. S \cup U \in SUBSET all /\ x \in all \ (S \cup U) /\ U \in SUBSET all /\ x \in all \ U /\ S \in SUBSET all
    OBVIOUS
  <2>3. F((S \cup U) \cup {x}) = f[x] + F(S \cup U) /\ F(U \cup {x}) = f[x] + F(U)
    BY <1>2, <2>2
  <2>4. F(S) \in Int /\ F(U) \in Int /\ f[x] \in Int
    BY <1>2, <2>2
  <2>5. f[x] + (F(S) + F(U)) = F(S) + (f[x] + F(U))
    BY <2>4
  <2>6. F((S \cup U) \cup {x}) = F(S) + F(U \cup {x})
    BY <2>1, <2>3, <2>5
  <2>7. (S \cup U) \cup {x} = S \cup (U \cup {x})
    OBVIOUS
  <2>8. QED
    BY <2>6, <2>7
<1>5. T \in P
  <2> HIDE DEF P
  <2>1. QED
    BY <1>3, <1>4, SubsetInduction
<1>6. QED
  BY <1>5 DEF F

\* The sum of natural numbers over a part is no more than over the whole.
LEMMA SumPart ==
  ASSUME NEW S, IsFiniteSet(S), NEW T \in SUBSET S, NEW f, \A x \in S : f[x] \in Nat
  PROVE  /\ SumFunctionOnSet(f, T) <= SumFunctionOnSet(f, S)
         /\ SumFunctionOnSet(f, T) \in Nat /\ SumFunctionOnSet(f, S) \in Nat
<1> DEFINE rest == S \ T
           none == [x \in S |-> 0]
           F(U) == SumFunctionOnSet(f, U)
<1>1. ASSUME NEW U \in SUBSET S PROVE F(U) \in Nat
  <2>1. IsFiniteSet(U) /\ \A x \in U : none[x] = 0
    BY FS_Subset
  <2>2. \A x \in U : none[x] \in Int /\ f[x] \in Int /\ none[x] <= f[x]
    OBVIOUS
  <2> HIDE DEF none
  <2>3. SumFunctionOnSet(none, U) = 0
    BY <2>1, SumZero
  <2>4. SumFunctionOnSet(none, U) <= F(U)
    BY <2>1, <2>2, SumMonotone
  <2>5. F(U) \in Int
    BY <2>1, <2>2, SumByFirst
  <2>6. QED
    BY <2>3, <2>4, <2>5
<1>2. IsFiniteSet(T) /\ IsFiniteSet(rest) /\ T \cap rest = {} /\ T \cup rest = S /\ rest \in SUBSET S /\ S \in SUBSET S
  BY FS_Subset
<1>3. \A x \in T \cup rest : f[x] \in Int
  OBVIOUS
<1> HIDE DEF rest
<1>4. SumFunctionOnSet(f, T \cup rest) = SumFunctionOnSet(f, T) + SumFunctionOnSet(f, rest)
  BY <1>2, <1>3, SumUnion
<1>5. F(S) = F(T) + F(rest)
  BY <1>2, <1>4
<1>6. F(S) \in Nat /\ F(T) \in Nat /\ F(rest) \in Nat
  BY <1>1, <1>2
<1> HIDE DEF F
<1>7. F(T) <= F(S)
  BY <1>5, <1>6
<1>8. QED
  BY <1>6, <1>7 DEF F

\* The values of a function on a finite set.
LEMMA ImageFinite == ASSUME NEW D, IsFiniteSet(D), NEW b PROVE IsFiniteSet({b[i] : i \in D})
<1> DEFINE I(U) == {b[i] : i \in U}
           P == {U \in SUBSET D : IsFiniteSet(I(U))}
<1>1. {} \in P
  <2>1. I({}) = {}
    OBVIOUS
  <2> HIDE DEF I
  <2>2. QED
    BY <2>1, FS_EmptySet
<1>2. ASSUME NEW U \in SUBSET D, U \in P, NEW x \in D \ U PROVE U \cup {x} \in P
  <2>1. IsFiniteSet(I(U)) /\ I(U \cup {x}) = I(U) \cup {b[x]}
    BY <1>2
  <2> HIDE DEF I
  <2>2. IsFiniteSet(I(U) \cup {b[x]})
    BY <2>1, FS_AddElement
  <2>3. QED
    BY <2>1, <2>2
<1>3. D \in P
  <2> HIDE DEF P
  <2>1. QED
    BY <1>1, <1>2, SubsetInduction
<1>4. QED
  BY <1>3

\* Summed over the indices or over what they stand for.
LEMMA SumReindex ==
  ASSUME NEW D, IsFiniteSet(D), NEW b, \A i, j \in D : b[i] = b[j] => i = j,
         NEW f, NEW e, \A i \in D : f[b[i]] \in Int /\ e[i] = f[b[i]]
  PROVE  SumFunctionOnSet(e, D) = SumFunctionOnSet(f, {b[i] : i \in D})
<1> DEFINE E(U) == SumFunctionOnSet(e, U)
           F(U) == SumFunctionOnSet(f, U)
           I(U) == {b[i] : i \in U}
           P == {U \in SUBSET D : E(U) = F(I(U))}
<1>1. /\ E({}) = 0
      /\ \A U \in SUBSET D : \A x \in D \ U : E(U \cup {x}) = e[x] + E(U)
  <2>1. \A i \in D : e[i] \in Int
    OBVIOUS
  <2>2. QED
    BY <2>1, SumFacts
<1>2. IsFiniteSet(I(D))
  BY ImageFinite
<1>3. \A x \in I(D) : f[x] \in Int
  OBVIOUS
<1>4. /\ F({}) = 0
      /\ \A U \in SUBSET I(D) : \A x \in I(D) \ U : F(U \cup {x}) = f[x] + F(U)
  <2> HIDE DEF I
  <2>1. QED
    BY <1>2, <1>3, SumFacts
<1> HIDE DEF E, F
<1>5. {} \in P
  <2>1. I({}) = {}
    OBVIOUS
  <2> HIDE DEF I
  <2>2. QED
    BY <1>1, <1>4, <2>1
<1>6. ASSUME NEW U \in SUBSET D, U \in P, NEW x \in D \ U PROVE U \cup {x} \in P
  <2>1. E(U) = F(I(U))
    BY <1>6
  <2>2. I(U) \in SUBSET I(D) /\ b[x] \in I(D) \ I(U) /\ I(U \cup {x}) = I(U) \cup {b[x]}
    OBVIOUS
  <2> HIDE DEF I
  <2>3. F(I(U) \cup {b[x]}) = f[b[x]] + F(I(U))
    BY <1>4, <2>2
  <2>4. E(U \cup {x}) = e[x] + E(U) /\ e[x] = f[b[x]]
    BY <1>1
  <2>5. E(U \cup {x}) = F(I(U \cup {x}))
    BY <2>1, <2>2, <2>3, <2>4
  <2>6. QED
    BY <2>5
<1>7. D \in P
  <2> HIDE DEF P
  <2>1. QED
    BY <1>5, <1>6, SubsetInduction
<1>8. QED
  BY <1>7 DEF E, F
=============================================================================
