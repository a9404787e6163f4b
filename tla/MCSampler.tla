------------------------------ MODULE MCSampler ------------------------------
(* Sampler for TLC: three tokens, two drafts. The weight of the least      *)
(* probable token underflows at the low temperature.                       *)
EXTENDS Sampler

MCVocab == 0 .. 2

MCFiles == {[temperature |-> 1, top_k |-> 2, top_p |-> <<9, 10>>], [do_sample |-> FALSE],
            [missing |-> TRUE], [repetition_penalty |-> 2]}

MCFlags == {<<>>, [sample |-> TRUE],
            [temperature |-> 2, top_k |-> 0, top_p |-> <<1, 1>>],
            [top_k |-> 0, top_p |-> <<2, 3>>, min_p |-> <<1, 4>>, temperature |-> 2],
            [temperature |-> 1, top_k |-> 0, top_p |-> <<1, 1>>], [top_p |-> <<0, 1>>], [temperature |-> 1, min_p |-> <<1, 2>>]}

MCWeight(t, d) == CASE t = 1 -> IF d = 0 THEN 3 ELSE IF d = 1 THEN 1 ELSE 0
                    [] OTHER -> IF d = 0 THEN 4 ELSE IF d = 1 THEN 2 ELSE 1

Row(a, b, c) == 0 :> a @@ 1 :> b @@ 2 :> c

MCLogitRows == {Row(2, 1, 0), Row(0, 1, 2), Row(1, 1, 1), Row(0, 2, 1), Row(2, 0, 2)}
=============================================================================
