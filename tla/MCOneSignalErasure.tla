------------------------ MODULE MCOneSignalErasure ------------------------
(* Instances of OneSignalErasure for TLC. *)
EXTENDS OneSignalErasure, TLC

CONSTANTS e1, e2, w1, w2, t1, t2, t3

TwoErasures == {e1, e2}
TwoWorkers == {w1, w2}
ThreeTokens == {t1, t2, t3}
FirstUnreadable == {e1}
SomeRetryAfter == {0, 2}
=============================================================================
