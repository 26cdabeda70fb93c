--------------------------- MODULE MCSecondFactor ---------------------------
(* Instances of SecondFactor for TLC. *)
EXTENDS SecondFactor, TLC

CONSTANTS x1, x2, b1, c1, c2, f1, f2, r1, r2

TwoSecrets == {x1, x2}
OneBatch == {b1}
TwoChallenges == {c1, c2}
TwoFamilies == {f1, f2}
TwoRequests == {r1, r2}
WithFactor == {"stocked", "spent"}
WithoutFactor == {"none"}

\* Slots are interchangeable: no definition orders or chooses them.
Symmetry == Permutations(Requests)

\* States that differ only in what no step and no property reads again are one:
\* the stamp of a session of an old version, how a challenge was closed,
\* who earned a stamp once cutShort excuses all of them, and proved, which no
\* property of the run speaks of.
Closed(c) == chal[c] # None /\ (chal[c].consumed \/ chal[c].until <= now)
SeenMFA == IF mfa = None THEN mfa ELSE [mfa EXCEPT !.proved = TRUE]
SeenChallenge(c) ==
    IF Closed(c) THEN [purpose |-> "login", until |-> 0, consumed |-> TRUE] ELSE chal[c]
SeenSession(f) ==
    IF ses[f] = None THEN None
    ELSE IF Authenticated(f)
    THEN [ses[f] EXCEPT !.by = IF cutShort THEN None ELSE @]
    ELSE [ver |-> -1, live |-> FALSE, stamp |-> Null, by |-> None, from |-> ses[f].from]
View == <<SeenMFA, codes, [c \in Challenges |-> SeenChallenge(c)],
          [f \in Families |-> SeenSession(f)], ver, req, now, shown, uses, cutShort>>
=============================================================================
