------------------------------ MODULE ToyNets ------------------------------
(* Small models for TLC: the argmax of net n after a context depends on    *)
(* every token of the context and on its order, and comes out wrong when   *)
(* the KV caches and the DeltaNet states hold different contexts.          *)
EXTENDS Naturals, Folds

ToyNetsAll == 0 .. 2

\* The tokens of s, weighted by their positions.
Hash(n, s) ==
  MapThenFoldSet(+, 3 * n + 1, LAMBDA i : (s[i] + 1) * i * (i + n),
                 LAMBDA S : CHOOSE i \in S : TRUE, DOMAIN s) % 5

ToyArgmax(n, s, r) == (Hash(n, s) + (IF s = r THEN 0 ELSE 1 + Hash(n, r))) % 3
=============================================================================
