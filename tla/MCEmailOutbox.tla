--------------------------- MODULE MCEmailOutbox ---------------------------
(* Instances of EmailOutbox for TLC. *)
EXTENDS EmailOutbox, TLC

CONSTANTS m1, w1, w2, f1, f2

OneMessage == {m1}
TwoSlots == {w1, w2}
TwoFeeds == {f1, f2}
=============================================================================
