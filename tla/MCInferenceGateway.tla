------------------------- MODULE MCInferenceGateway -------------------------
(* Instances of InferenceGateway for TLC. *)
EXTENDS InferenceGateway, TLC

CONSTANTS c1, c2, a1, s1, answer, extract

TwoCalls == {c1, c2}
OneAdmin == {a1}
OneSession == {s1}
TwoTasks == {answer, extract}
OneTask == {answer}

\* Calls are interchangeable: no definition orders or chooses them.
Symmetry == Permutations(Calls)
=============================================================================
