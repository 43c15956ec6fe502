----------------------------- MODULE MCHttpApi ------------------------------
(* Two tabs and two tasks.  A text with a paragraph over the limit, two that *)
(* do not fit one chunk and two that just do; and one without any text.      *)
EXTENDS HttpApi, TLC

CONSTANTS task1, task2, tab1, tab2

SampleTexts == {<<>>, <<12, 5, 4, 4>>}

Symmetry == Permutations({task1, task2}) \cup Permutations({tab1, tab2})
=============================================================================
