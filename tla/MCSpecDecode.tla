---------------------------- MODULE MCSpecDecode ----------------------------
(* SpecDecode for TLC: token 2 stops. Where any draft may be accepted two  *)
(* tokens are enough; three tell the models of ToyNets apart.              *)
EXTENDS SpecDecode, ToyNets

MCTok     == {0, 1, 2}
MCStop    == {2}
MCPrompts == {<<0>>, <<1, 0>>}

MCMode(k, max, greedy, n, toks) == [k |-> k, max |-> max, greedy |-> greedy, net |-> n, toks |-> toks]

MCModes == {MCMode(3, 3, FALSE, 0, {0, 2})}
           \cup {MCMode(k, 4, TRUE, n, MCTok) : k \in {0, 2}, n \in ToyNetsAll}
           \cup {MCMode(k, m, FALSE, 0, MCTok) : k \in {0, 1}, m \in {0, 2}}
=============================================================================
