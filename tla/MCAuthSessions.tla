--------------------------- MODULE MCAuthSessions ---------------------------
(* Instances of AuthSessions for TLC. *)
EXTENDS AuthSessions, TLC

CONSTANTS u1, s1, s2, s3, r1, r2

OneUser == {u1}
TwoSids == {s1, s2}
ThreeSids == {s1, s2, s3}
TwoRequests == {r1, r2}

RevocationOps == AllOps \ {"stepUp"}
\* Every kind of lock but the FOR UPDATE of changeEmail.
WaitingOps == {"login", "refresh", "logout", "logoutAll", "stepUp"}
LogoutOps == {"login", "refresh", "logout"}
StepUpOps == {"login", "refresh", "stepUp"}

\* Ids and slots are interchangeable: no definition orders or chooses them.
Symmetry == Permutations(Sids) \cup Permutations(Requests)
=============================================================================
