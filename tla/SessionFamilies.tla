-------------------------- MODULE SessionFamilies --------------------------
(***************************************************************************)
(* What the refresh-token machinery promises, without requests, locks,     *)
(* clocks or tables: a login opens a family holding one redeemable         *)
(* refresh token; a refresh exchanges that token for a new one of the same *)
(* family; revocation, expiry cleanup and account deletion close families. *)
(* A token that has been exchanged or closed is spent, and a spent token   *)
(* is never redeemable again.  AuthSessions implements this specification. *)
(***************************************************************************)
CONSTANT Sids          \* session ids; a family is named by its first id

VARIABLES live,        \* set of <<session id, family>> that can be redeemed
          spent        \* session ids that were redeemable once and are not now

absVars == <<live, spent>>

Known == {p[1] : p \in live} \cup spent

Init == live = {} /\ spent = {}

\* A login starts a family of its own.
Open(s) ==
    /\ s \notin Known
    /\ \A p \in live : p[2] # s
    /\ live' = live \cup {<<s, s>>}
    /\ UNCHANGED spent

\* A refresh spends s and makes its successor t redeemable, in one step.
Rotate(s, t, f) ==
    /\ <<s, f>> \in live
    /\ t \notin Known
    /\ live' = (live \ {<<s, f>>}) \cup {<<t, f>>}
    /\ spent' = spent \cup {s}

\* Revocation, deletion and retention end any number of sessions at once.
Close(D) ==
    /\ D # {}
    /\ live' = live \ D
    /\ spent' = spent \cup {p[1] : p \in D}

Next ==
    \/ \E s \in Sids : Open(s)
    \/ \E s, t, f \in Sids : Rotate(s, t, f)
    \/ \E D \in SUBSET live : Close(D)

Spec == Init /\ [][Next]_absVars
=============================================================================
