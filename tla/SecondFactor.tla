---------------------------- MODULE SecondFactor ----------------------------
(***************************************************************************)
(* The second factor of one account: TOTP enrollment, recovery codes, the  *)
(* login challenge, step-up, disabling and the lost-device reset, as       *)
(* concurrent requests run them.                                           *)
(*                                                                         *)
(* Source: internal/usecase/user/mfa.go and                                *)
(* internal/repo/persistent/mfa_postgres.go.                               *)
(*                                                                         *)
(* As in AuthSessions a request is a slot with a program counter and one   *)
(* action is one statement or transaction; what a slot read before may be  *)
(* stale.  Accounts share no second-factor state, so one is enough.  Here  *)
(* a session family is one row (rotation keeps its stamp), and the rows of *)
(* consumed or expired challenges, which no query returns, are kept.  Time *)
(* is counted in TOTP periods.                                             *)
(***************************************************************************)
EXTENDS Integers, FiniteSets

CONSTANTS Secrets,      \* TOTP secrets, one per enrollment attempt
          Batches,      \* generated sets of recovery codes
          BatchSize,    \* mfaRecoveryCodeCount (10 in the code)
          Challenges,   \* challenge ids
          Families,     \* session families
          Requests,     \* concurrent request slots
          Starts,       \* how the account may begin, see Init
          None,         \* NULL, no such row
          StepUpTTL, ChallengeTTL, ResetTTL,
          MaxTime,      \* bound on the clock
          MaxVersion    \* bound on users.token_version

ASSUME BoundsAssumption ==
    /\ BatchSize \in Nat
    /\ {StepUpTTL, ChallengeTTL, ResetTTL} \subseteq Nat \ {0}
    /\ MaxTime \in Nat \ {0}
    /\ MaxVersion \in Nat
    /\ Starts \subseteq {"none", "stocked", "spent"}
    /\ Secrets # {} /\ Batches # {}

ASSUME DistinctAssumption ==
    /\ Secrets \cap Batches = {}
    /\ None \notin Secrets \cup Batches \cup Challenges \cup Families

VARIABLES mfa,          \* the user_mfa row
          codes,        \* unused rows of user_mfa_recovery_codes
          chal,         \* mfa_challenges
          ses,          \* auth_sessions, by family
          ver,          \* users.token_version
          req,          \* the request slots
          now,          \* the clock
          shown,        \* history: secrets and batches generated so far
          uses,         \* history: how often each recovery code was accepted
          cutShort      \* history: a removal died before it revoked the sessions

vars == <<mfa, codes, chal, ses, ver, req, now, shown, uses, cutShort>>

Null == -1
Times == 1..MaxTime     \* the periods of the codes that are submitted
TotpCodes == Secrets \X Times
RecoveryCodes == Batches \X (1..BatchSize)

\* proved and uses are history: a code of this secret was accepted, and how
\* often the guard let each step pass.
UserMFA == [secret : Secrets, step : {0} \cup Times, confirmed : BOOLEAN,
            proved : BOOLEAN, uses : [Times -> Nat]]
MFAChallenge == [purpose : {"login", "reset"}, until : Nat, consumed : BOOLEAN]

\* by and from are history: the enrollment that vouches for the stamp, and the
\* challenge that bought the session.
Session == [ver : Nat, live : BOOLEAN, stamp : Int,
            by : Secrets \cup {None}, from : Challenges \cup {None}]

ASSUME RowsAssumption == None \notin UserMFA \cup MFAChallenge \cup Session

PCs == {"idle", "challenge", "create", "enrollment", "factor", "consume",
        "stamp", "confirm", "replace", "insert", "delete", "erase",
        "revokeAll", "reload", "mint"}
Ops == {"login", "verify", "stepUp", "confirm", "disable", "regenerate", "reset"}

Request == [pc : PCs, op : Ops, ver : Nat, fam : Families \cup {None},
            chal : Challenges \cup {None}, secret : Secrets \cup {None},
            targets : SUBSET RecoveryCodes]

-----------------------------------------------------------------------------
Confirmed == mfa # None /\ mfa.confirmed

\* AuthenticateUserSession: an access token is good while its version is.  The
\* handler reads its first row right after it; a session that is revoked in
\* between only makes the later stamp find no row.
Authenticated(f) == ses[f] # None /\ ses[f].ver = ver
LiveFamily(f) == ses[f] # None /\ ses[f].live

\* requireFreshStepUp
FreshStepUp(f) ==
    /\ Confirmed
    /\ LiveFamily(f)
    /\ ses[f].stamp # Null
    /\ now - ses[f].stamp <= StepUpTTL

\* The WHERE of GetMFAChallengeByTokenHash and of ConsumeMFAChallenge.
OpenChallenge(c, purpose) ==
    /\ chal[c] # None
    /\ chal[c].purpose = purpose
    /\ ~chal[c].consumed
    /\ chal[c].until > now

\* Ids, secrets and codes come from a random source: any that are unused.
UnusedFamilies == {f \in Families : ses[f] = None}
UnusedChallenges == {c \in Challenges : chal[c] = None}
NewOf(S) == CHOOSE x \in S : TRUE

Slot(pc, op) ==
    [pc |-> pc, op |-> op, ver |-> 0, fam |-> None, chal |-> None,
     secret |-> None, targets |-> {}]
IdleSlot == Slot("idle", "login")

Free(r) == req[r].pc = "idle"
At(r, pc) == req[r].pc = pc
Goto(r, slot) == req' = [req EXCEPT ![r] = slot]
Jump(r, pc) == Goto(r, [req[r] EXCEPT !.pc = pc])
Finish(r) == Goto(r, IdleSlot)

\* The account has no enrollment, or one confirmed earlier, whose recovery
\* codes are there or spent.
Init ==
    /\ \E start \in Starts :
        LET x == NewOf(Secrets)
            b == IF start = "stocked" THEN {NewOf(Batches)} ELSE {}
        IN  /\ mfa = IF start = "none" THEN None
                     ELSE [secret |-> x, step |-> 0, confirmed |-> TRUE,
                           proved |-> TRUE, uses |-> [t \in Times |-> 0]]
            /\ shown = IF start = "none" THEN {} ELSE {x} \cup b
            /\ codes = b \X (1..BatchSize)
    /\ chal = [c \in Challenges |-> None]
    /\ ses = [f \in Families |-> None]
    /\ ver = 0
    /\ req = [r \in Requests |-> IdleSlot]
    /\ now = 1
    /\ uses = [x \in RecoveryCodes |-> 0]
    /\ cutShort = FALSE

-----------------------------------------------------------------------------
(* Login, up to mfaLoginChallengeFor, and CreateAuthSession.               *)

Login(r) ==
    /\ Free(r)
    /\ Goto(r, [Slot("challenge", "login") EXCEPT !.ver = ver])
    /\ UNCHANGED <<mfa, codes, chal, ses, ver, now, shown, uses, cutShort>>

CreateMFAChallenge(purpose, ttl) ==
    /\ UnusedChallenges # {}
    /\ chal' = [chal EXCEPT ![NewOf(UnusedChallenges)] =
                   [purpose |-> purpose, until |-> now + ttl, consumed |-> FALSE]]

LoginChallenge(r) ==
    /\ At(r, "challenge")
    /\ Confirmed
    /\ CreateMFAChallenge("login", ChallengeTTL)
    /\ Finish(r)
    /\ UNCHANGED <<mfa, codes, ses, ver, now, shown, uses, cutShort>>

LoginUnchallenged(r) ==
    /\ At(r, "challenge")
    /\ ~Confirmed
    /\ Jump(r, "create")
    /\ UNCHANGED <<mfa, codes, chal, ses, ver, now, shown, uses, cutShort>>

\* A session that VerifyMFALogin issues is born with a stamp.
CreateAuthSession(r) ==
    /\ At(r, "create")
    /\ UnusedFamilies # {}
    /\ ses' = [ses EXCEPT ![NewOf(UnusedFamilies)] =
           [ver |-> req[r].ver, live |-> TRUE,
            stamp |-> IF req[r].op = "verify" THEN now ELSE Null,
            by |-> req[r].secret, from |-> req[r].chal]]
    /\ Finish(r)
    /\ UNCHANGED <<mfa, codes, chal, ver, now, shown, uses, cutShort>>

-----------------------------------------------------------------------------
(* Enrollment.                                                             *)

\* Faulty variants: the guard's column left NULL, and an upsert without WHERE.
PendingMFANullStep ==
    /\ ~(Secrets \subseteq shown)
    /\ mfa' = [secret |-> NewOf(Secrets \ shown), step |-> Null,
               confirmed |-> FALSE, proved |-> FALSE, uses |-> [t \in Times |-> 0]]
    /\ shown' = shown \cup {NewOf(Secrets \ shown)}
PendingMFA ==
    /\ ~(Secrets \subseteq shown)
    /\ mfa' = [secret |-> NewOf(Secrets \ shown), step |-> 0,
               confirmed |-> FALSE, proved |-> FALSE, uses |-> [t \in Times |-> 0]]
    /\ shown' = shown \cup {NewOf(Secrets \ shown)}
UpsertAlways == PendingMFA

\* A confirmed enrollment is refused.
UpsertPendingMFA == ~Confirmed /\ PendingMFA

StartMFAEnrollment(f) ==
    /\ Authenticated(f)
    /\ UpsertPendingMFA
    /\ UNCHANGED <<codes, chal, ses, ver, req, now, uses, cutShort>>

\* pendingMFA
ConfirmMFAEnrollment(r, f) ==
    /\ Free(r)
    /\ Authenticated(f)
    /\ mfa # None /\ ~mfa.confirmed
    /\ Goto(r, [Slot("factor", "confirm") EXCEPT
                    !.fam = f, !.secret = mfa.secret])
    /\ UNCHANGED <<mfa, codes, chal, ses, ver, now, shown, uses, cutShort>>

\* ConfirmMFA: the pending row of the account, whatever its secret is by now.
ConfirmMFA(r) ==
    /\ At(r, "confirm")
    /\ IF mfa # None /\ ~mfa.confirmed
       THEN /\ mfa' = [mfa EXCEPT !.confirmed = TRUE]
            /\ Goto(r, [req[r] EXCEPT !.pc = "replace", !.secret = mfa.secret])
       ELSE Finish(r) /\ UNCHANGED mfa
    /\ UNCHANGED <<codes, chal, ses, ver, now, shown, uses, cutShort>>

\* ReplaceRecoveryCodes: the DELETE sees the rows of its snapshot, the new set
\* is visible with the commit.
ReplaceSnapshot(r) ==
    /\ At(r, "replace")
    /\ Goto(r, [req[r] EXCEPT !.pc = "insert", !.targets = codes])
    /\ UNCHANGED <<mfa, codes, chal, ses, ver, now, shown, uses, cutShort>>

ReplaceCommit(r) ==
    /\ At(r, "insert")
    /\ ~(Batches \subseteq shown)
    /\ codes' = (codes \ req[r].targets) \cup ({NewOf(Batches \ shown)} \X (1..BatchSize))
    /\ shown' = shown \cup {NewOf(Batches \ shown)}
    /\ IF req[r].op = "confirm"
       THEN Goto(r, [req[r] EXCEPT !.pc = "stamp", !.targets = {}])
       ELSE Finish(r)
    /\ UNCHANGED <<mfa, chal, ses, ver, now, uses, cutShort>>

-----------------------------------------------------------------------------
(* verifySecondFactor, for the login, the step-up, the confirmation and    *)
(* the reset, which takes recovery codes only (its secret stays None).     *)
(* The code came with the request and is first looked at here.             *)

AfterFactor(q) ==
    CASE q.op \in {"verify", "reset"} -> "consume"
      [] q.op = "stepUp"  -> "stamp"
      [] q.op = "confirm" -> "confirm"

\* verifyTOTP: the code matches the secret read before, inside the skew window.
Matches(q, x) == x[1] = q.secret /\ x[2] \in (now - 1)..(now + 1)

\* AdvanceMFATOTPStep's guard on the current row, after a faulty variant.
StepAdvancesOrEqual(step) == mfa # None /\ mfa.step <= step
StepAdvances(step) == mfa # None /\ mfa.step < step

AcceptTOTP(r, x) ==
    /\ At(r, "factor")
    /\ Matches(req[r], x)
    /\ StepAdvances(x[2])
    /\ mfa' = [mfa EXCEPT !.step = x[2],
                          !.proved = @ \/ req[r].secret = mfa.secret,
                          !.uses[x[2]] = @ + 1]
    /\ Jump(r, AfterFactor(req[r]))
    /\ UNCHANGED <<codes, chal, ses, ver, now, shown, uses, cutShort>>

\* ConsumeRecoveryCode; an enrollment is confirmed with a TOTP code only.
AcceptRecoveryCode(r, x) ==
    /\ At(r, "factor") /\ req[r].op # "confirm"
    /\ x \in codes
    /\ codes' = codes \ {x}
    /\ uses' = [uses EXCEPT ![x] = @ + 1]
    /\ Jump(r, AfterFactor(req[r]))
    /\ UNCHANGED <<mfa, chal, ses, ver, now, shown, cutShort>>

\* A wrong code, or one that another request has used by now.
RefuseFactor(r) ==
    /\ At(r, "factor")
    /\ Finish(r)
    /\ UNCHANGED <<mfa, codes, chal, ses, ver, now, shown, uses, cutShort>>

-----------------------------------------------------------------------------
(* VerifyMFALogin: the challenge and the user, the enrollment, the factor, *)
(* and then the challenge is consumed.                                     *)

VerifyMFALogin(r, c) ==
    /\ Free(r)
    /\ OpenChallenge(c, "login")
    /\ Goto(r, [Slot("enrollment", "verify") EXCEPT
                    !.chal = c, !.ver = ver])
    /\ UNCHANGED <<mfa, codes, chal, ses, ver, now, shown, uses, cutShort>>

LoadEnrollment(r) ==
    /\ At(r, "enrollment")
    /\ IF Confirmed
       THEN Goto(r, [req[r] EXCEPT !.pc = "factor", !.secret = mfa.secret])
       ELSE Finish(r)
    /\ UNCHANGED <<mfa, codes, chal, ses, ver, now, shown, uses, cutShort>>

\* Faulty variant: consumed without asking whether it still is open.
ConsumableAnyway(q) == chal[q.chal].until > now
Consumable(q) ==
    OpenChallenge(q.chal, IF q.op = "reset" THEN "reset" ELSE "login")

\* ConsumeMFAChallenge, of a login or of a reset.
ConsumeMFAChallenge(r) ==
    /\ At(r, "consume")
    /\ IF Consumable(req[r])
       THEN /\ chal' = [chal EXCEPT ![req[r].chal].consumed = TRUE]
            /\ IF req[r].op = "reset" THEN Goto(r, Slot("delete", "reset"))
                                       ELSE Jump(r, "create")
       ELSE Finish(r) /\ UNCHANGED chal
    /\ UNCHANGED <<mfa, codes, ses, ver, now, shown, uses, cutShort>>

-----------------------------------------------------------------------------
(* StepUpMFA and SetSessionMFAVerified.                                    *)

StepUpMFA(r, f) ==
    /\ Free(r)
    /\ Authenticated(f)
    /\ Confirmed
    /\ Goto(r, [Slot("factor", "stepUp") EXCEPT
                    !.fam = f, !.secret = mfa.secret])
    /\ UNCHANGED <<mfa, codes, chal, ses, ver, now, shown, uses, cutShort>>

SetSessionMFAVerified(r) ==
    /\ At(r, "stamp")
    /\ ses' = IF LiveFamily(req[r].fam)
              THEN [ses EXCEPT ![req[r].fam].stamp = now,
                               ![req[r].fam].by = req[r].secret]
              ELSE ses
    /\ Finish(r)
    /\ UNCHANGED <<mfa, codes, chal, ver, now, shown, uses, cutShort>>

-----------------------------------------------------------------------------
(* DisableMFA, RegenerateMFARecoveryCodes and the lost-device reset.       *)

DisableMFA(r, f) ==
    /\ Free(r)
    /\ Authenticated(f)
    /\ FreshStepUp(f)
    /\ Goto(r, Slot("delete", "disable"))
    /\ UNCHANGED <<mfa, codes, chal, ses, ver, now, shown, uses, cutShort>>

RegenerateMFARecoveryCodes(r, f) ==
    /\ Free(r)
    /\ Authenticated(f)
    /\ FreshStepUp(f)
    /\ Goto(r, Slot("replace", "regenerate"))
    /\ UNCHANGED <<mfa, codes, chal, ses, ver, now, shown, uses, cutShort>>

\* RequestMFAReset reads the login challenge, then stores one of its own.
RequestMFAReset(r, c) ==
    /\ Free(r)
    /\ OpenChallenge(c, "login")
    /\ Goto(r, Slot("mint", "reset"))
    /\ UNCHANGED <<mfa, codes, chal, ses, ver, now, shown, uses, cutShort>>

MintResetChallenge(r) ==
    /\ At(r, "mint")
    /\ CreateMFAChallenge("reset", ResetTTL)
    /\ Finish(r)
    /\ UNCHANGED <<mfa, codes, ses, ver, now, shown, uses, cutShort>>

\* ConfirmMFAReset with the emailed OTP; without it nothing changes.
ConfirmMFAReset(r, c) ==
    /\ Free(r)
    /\ OpenChallenge(c, "reset")
    /\ Goto(r, [Slot("factor", "reset") EXCEPT !.chal = c])
    /\ UNCHANGED <<mfa, codes, chal, ses, ver, now, shown, uses, cutShort>>

\* DeleteMFA: the codes of its snapshot and the enrollment, in one transaction.
DeleteSnapshot(r) ==
    /\ At(r, "delete")
    /\ Goto(r, [req[r] EXCEPT !.pc = "erase", !.targets = codes])
    /\ UNCHANGED <<mfa, codes, chal, ses, ver, now, shown, uses, cutShort>>

DeleteCommit(r) ==
    /\ At(r, "erase")
    /\ mfa' = None
    /\ codes' = codes \ req[r].targets
    /\ Goto(r, [req[r] EXCEPT !.pc = "revokeAll", !.targets = {}])
    /\ UNCHANGED <<chal, ses, ver, now, shown, uses, cutShort>>

\* RevokeAllAuthSessions bumps the version and revokes every row; the faulty
\* variant only revokes the rows.
RevokedFamilies ==
    [f \in Families |-> IF ses[f] = None THEN None
                        ELSE [ses[f] EXCEPT !.live = FALSE]]
VersionKept == ver
NextVersion == ver + 1
RevokeAllAuthSessions(r) ==
    /\ At(r, "revokeAll")
    /\ ver < MaxVersion
    /\ ver' = NextVersion
    /\ ses' = RevokedFamilies
    /\ IF req[r].op = "disable" THEN Jump(r, "reload") ELSE Finish(r)
    /\ UNCHANGED <<mfa, codes, chal, now, shown, uses, cutShort>>

\* DisableMFA reads the user again and issues a session.
ReloadUser(r) ==
    /\ At(r, "reload")
    /\ Goto(r, [Slot("create", "disable") EXCEPT !.ver = ver])
    /\ UNCHANGED <<mfa, codes, chal, ses, ver, now, shown, uses, cutShort>>

-----------------------------------------------------------------------------
\* A request dies; between DeleteMFA and RevokeAllAuthSessions that leaves the
\* sessions of the removed enrollment alive.
Abandon(r) ==
    /\ ~Free(r)
    /\ cutShort' = (cutShort \/ At(r, "revokeAll"))
    /\ Finish(r)
    /\ UNCHANGED <<mfa, codes, chal, ses, ver, now, shown, uses>>

Tick ==
    /\ now < MaxTime
    /\ now' = now + 1
    /\ UNCHANGED <<mfa, codes, chal, ses, ver, req, shown, uses, cutShort>>

Start(r) ==
    \/ Login(r)
    \/ \E c \in Challenges :
        RequestMFAReset(r, c) \/ VerifyMFALogin(r, c) \/ ConfirmMFAReset(r, c)
    \/ \E f \in Families :
        \/ DisableMFA(r, f) \/ RegenerateMFARecoveryCodes(r, f)
        \/ StepUpMFA(r, f) \/ ConfirmMFAEnrollment(r, f)

Progress(r) ==
    \/ LoginChallenge(r) \/ LoginUnchallenged(r) \/ CreateAuthSession(r)
    \/ LoadEnrollment(r) \/ RefuseFactor(r)
    \/ \E x \in TotpCodes : AcceptTOTP(r, x)
    \/ \E x \in RecoveryCodes : AcceptRecoveryCode(r, x)
    \/ ConsumeMFAChallenge(r) \/ SetSessionMFAVerified(r)
    \/ ConfirmMFA(r) \/ ReplaceSnapshot(r) \/ ReplaceCommit(r)
    \/ MintResetChallenge(r) \/ DeleteSnapshot(r) \/ DeleteCommit(r)
    \/ RevokeAllAuthSessions(r) \/ ReloadUser(r)

Next ==
    \/ \E r \in Requests : Start(r) \/ Progress(r) \/ Abandon(r)
    \/ \E f \in Families : StartMFAEnrollment(f)
    \/ Tick

Spec == Init /\ [][Next]_vars

-----------------------------------------------------------------------------
\* The tables and the request slots hold values of their types.
TypeOK ==
    /\ mfa \in UserMFA \cup {None}
    /\ codes \subseteq RecoveryCodes
    /\ chal \in [Challenges -> MFAChallenge \cup {None}]
    /\ ses \in [Families -> Session \cup {None}]
    /\ ver \in Nat
    /\ req \in [Requests -> Request]
    /\ now \in 1..MaxTime
    /\ shown \subseteq Secrets \cup Batches
    /\ uses \in [RecoveryCodes -> Nat]
    /\ cutShort \in BOOLEAN

\* "A concurrent double-submit of the right code issues exactly one session"
\* (VerifyMFALogin): two sessions never come from one login challenge, with
\* equal or with different codes.
OneSessionPerChallenge ==
    \A f, g \in Families :
        /\ ses[f] # None /\ ses[g] # None
        /\ ses[f].from = ses[g].from /\ ses[f].from # None
        => f = g

\* No factor is accepted twice, whoever submits it to whichever endpoint: a
\* recovery code ever, a TOTP step within one enrollment.
FactorAcceptedOnce ==
    /\ \A x \in RecoveryCodes : uses[x] <= 1
    /\ mfa # None => \A t \in Times : mfa.uses[t] <= 1

\* "A confirmed enrollment is never overwritten (disable first)": its secret
\* changes only through DeleteMFA, and its replay guard never goes back.
ConfirmedEnrollmentKept ==
    [][Confirmed /\ mfa' # None =>
           /\ mfa'.secret = mfa.secret /\ mfa'.confirmed
           /\ mfa'.step >= mfa.step]_vars

Removing == \E r \in Requests : At(r, "revokeAll")

\* DisableMFA and the reset revoke every session so that "stolen tokens die
\* with the second factor": the step-up stamp of a usable session was earned
\* with the enrollment that is now in force, never with a removed one, unless
\* a removal has not come to its revocation yet or died before it.
StampOfThisEnrollment ==
    (Confirmed /\ ~Removing /\ ~cutShort) =>
        \A f \in Families :
            LiveFamily(f) /\ Authenticated(f) /\ ses[f].stamp # Null
                => ses[f].by = mfa.secret

\* ConfirmMFAEnrollment "activates a pending enrollment after the user proves
\* the authenticator works": a code of the confirmed secret was accepted.
ConfirmedSecretWasProved == Confirmed => mfa.proved
=============================================================================
