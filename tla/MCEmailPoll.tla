---------------------------- MODULE MCEmailPoll ----------------------------
(* Instances of EmailPoll for TLC. *)
EXTENDS EmailPoll, TLC

CONSTANTS p1, p2

TwoPolls == {p1, p2}

\* Polls are interchangeable: no definition orders or chooses them.
Symmetry == Permutations(Polls)
=============================================================================
