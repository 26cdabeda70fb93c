----------------------------- MODULE MCAccounts -----------------------------
(* Instances of Accounts for TLC. *)
EXTENDS Accounts, TLC

CONSTANTS u1, u2, e1, e2, t1, t2, t3, w1, w2

TwoUsers == {u1, u2}
OneAdmin == {u1}
TwoEmails == {e1, e2}
TwoTokens == {t1, t2}
ThreeTokens == {t1, t2, t3}
TwoSlots == {w1, w2}

\* Addresses, tokens and slots are interchangeable: no definition orders or
\* chooses them.
Symmetry == Permutations(Emails) \cup Permutations(Tokens) \cup Permutations(Slots)
=============================================================================
