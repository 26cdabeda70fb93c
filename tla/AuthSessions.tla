---------------------------- MODULE AuthSessions ----------------------------
(***************************************************************************)
(* Refresh-token sessions: issuing, rotation, reuse detection, the three   *)
(* kinds of revocation, the step-up stamp, and the retention cleanup.      *)
(*                                                                         *)
(* Source: internal/usecase/user/session.go and                            *)
(* internal/repo/persistent/auth_session_postgres.go, with the callers in  *)
(* user.go, user_postgres.go and mfa.go that issue or revoke sessions.     *)
(*                                                                         *)
(* Every HTTP or gRPC request runs its handler concurrently with others    *)
(* against one PostgreSQL database at READ COMMITTED.  A request is a slot *)
(* with a program counter; one action is one statement or one transaction  *)
(* step, so that whatever was read before stays in the slot and may be     *)
(* stale when it is used.  An UPDATE or DELETE of several rows is two      *)
(* steps: its snapshot chooses the rows, and once no row it chose is       *)
(* locked it re-evaluates its WHERE on their committed versions (rows that *)
(* appear after the snapshot are never seen).                              *)
(***************************************************************************)
EXTENDS Integers, FiniteSets

CONSTANTS Users,       \* accounts
          Sids,        \* session ids (uuids); the first of a family names it
          Requests,    \* concurrent request slots
          NoSid,       \* NULL session id
          NoRow,       \* no such row
          Ops,         \* operations that clients call in this instance
          TTL,         \* refresh token lifetime (REFRESH_TOKEN_TTL)
          Retention,   \* how long dead rows are kept
          MaxTime,     \* bound on the clock
          MaxVersion   \* bound on users.token_version

AllOps == {"login", "refresh", "logout", "revokeSession", "stepUp",
           "logoutAll", "changePassword", "changeEmail", "resetPassword",
           "deleteAccount"}

ASSUME UsersAssumption == Users # {}
ASSUME SidsAssumption == NoSid \notin Sids
ASSUME BoundsAssumption ==
    /\ TTL \in Nat \ {0}
    /\ Retention \in Nat
    /\ MaxTime \in Nat
    /\ MaxVersion \in Nat
ASSUME OpsAssumption == Ops \subseteq AllOps

VARIABLES user,        \* users rows: token_version and deleted_at IS NOT NULL
          table,       \* auth_sessions
          req,         \* the request slots
          now,         \* the clock
          access,      \* history: claims of every access token ever minted
          cut,         \* history: ids whose issuance read the user before its last bump
          ended,       \* history: families whose logout or revocation was acknowledged
          stepped,     \* history: last acknowledged step-up of each family
          exchanged    \* history: how often each refresh token was exchanged

vars == <<user, table, req, now, access, cut, ended, stepped, exchanged>>

Null == -1             \* SQL NULL in a timestamp column

Row == [family : Sids, owner : Users, ver : Nat, lastUsedAt : Int,
        expiresAt : Int, revokedAt : Int, next : Sids \cup {NoSid}, mfa : Int]

ASSUME RowAssumption == NoRow \notin Row

Claims == [sid : Sids, owner : Users, ver : Nat, family : Sids]

PCs == {"idle", "create", "loadUser", "rotate", "commit", "revoke", "apply",
        "stamp", "bumpSnapshot", "bumpCommit"}

Request == [pc : PCs, op : AllOps, sid : Sids \cup {NoSid},
            next : Sids \cup {NoSid}, family : Sids \cup {NoSid},
            owner : Users, ver : Nat, at : Nat, mfa : Int,
            targets : SUBSET Sids]

-----------------------------------------------------------------------------
(* Rows, locks and fresh ids.                                              *)

Present(s) == table[s] # NoRow

\* revoked_at IS NULL
Live(s) == Present(s) /\ table[s].revokedAt = Null

FamilyRows(f) == {s \in Sids : Live(s) /\ table[s].family = f}

\* FOR UPDATE locks are held from RotateLock to commit or rollback; the
\* users row is locked by the uncommitted token_version bump.
RowLocked(s) == \E r \in Requests : req[r].pc = "commit" /\ req[r].sid = s
UserLocked(u) ==
    \E r \in Requests :
        req[r].pc \in {"bumpSnapshot", "bumpCommit"} /\ req[r].owner = u

\* ChangeEmailWithToken locks the users row FOR UPDATE, which also keeps out the
\* foreign-key check of an insert into auth_sessions; the other bumps update
\* no key column and let it through.
KeyLocked(u) ==
    \E r \in Requests :
        /\ req[r].pc \in {"bumpSnapshot", "bumpCommit"} /\ req[r].owner = u
        /\ req[r].op = "changeEmail"

Issued == {a.sid : a \in access}
Reserving(q) == q.pc \in {"create", "rotate", "commit"}
Reserved == {req[r].next : r \in {x \in Requests : Reserving(req[x])}}

\* uuid.NewString(): an id nobody has used.
Fresh == Sids \ (Issued \cup Reserved \cup UNION {cut[u] : u \in Users})

\* effectiveAuthSessionDeadline
Deadline(row) ==
    IF row.expiresAt < row.lastUsedAt + TTL
    THEN row.expiresAt ELSE row.lastUsedAt + TTL

\* A refresh token that RefreshSession would exchange right now.
Refreshable(s) ==
    /\ Live(s)
    /\ now < Deadline(table[s])
    /\ ~user[table[s].owner].deleted
    /\ user[table[s].owner].ver = table[s].ver

\* AuthenticateUserSession: the user exists at the version in the claims.
AccessAccepted(a) == ~user[a.owner].deleted /\ user[a.owner].ver = a.ver

\* Faulty variants: a row without its family, one whose version is read again
\* at insertion, and claims that carry the session id as the family.
NewRowNoFamily(q, at) ==
    [family |-> NoSid, owner |-> q.owner, ver |-> q.ver, lastUsedAt |-> at,
     expiresAt |-> at + TTL, revokedAt |-> Null, next |-> NoSid, mfa |-> q.mfa]
NewRowRereadVersion(q, at) ==
    [family |-> q.family, owner |-> q.owner, ver |-> user[q.owner].ver,
     lastUsedAt |-> at, expiresAt |-> at + TTL, revokedAt |-> Null,
     next |-> NoSid, mfa |-> q.mfa]
NewClaimsOwnId(q) ==
    [sid |-> q.next, owner |-> q.owner, ver |-> q.ver, family |-> q.next]

\* The row issueSessionRowAt builds, and the claims GenerateSessionToken signs.
NewRow(q, at) ==
    [family |-> q.family, owner |-> q.owner, ver |-> q.ver, lastUsedAt |-> at,
     expiresAt |-> at + TTL, revokedAt |-> Null, next |-> NoSid, mfa |-> q.mfa]
NewClaims(q) ==
    [sid |-> q.next, owner |-> q.owner, ver |-> q.ver, family |-> q.family]

\* What a handler keeps: at its start, before issueSession inserts the row of
\* a new family, and after GetAuthSessionByTokenHash returned the row s.
Slot(pc, op, u, f) ==
    [pc |-> pc, op |-> op, sid |-> NoSid, next |-> NoSid, family |-> f,
     owner |-> u, ver |-> 0, at |-> 0, mfa |-> Null, targets |-> {}]
IssueSlot(op, u, s, v) ==
    [pc |-> "create", op |-> op, sid |-> NoSid, next |-> s, family |-> s,
     owner |-> u, ver |-> v, at |-> 0, mfa |-> Null, targets |-> {}]
RefreshSlot(s) ==
    [pc |-> "loadUser", op |-> "refresh", sid |-> s, next |-> NoSid,
     family |-> table[s].family, owner |-> table[s].owner,
     ver |-> table[s].ver, at |-> now, mfa |-> table[s].mfa, targets |-> {}]
StampSlot(a) ==
    [pc |-> "stamp", op |-> "stepUp", sid |-> NoSid, next |-> NoSid,
     family |-> a.family, owner |-> a.owner, ver |-> 0, at |-> now,
     mfa |-> Null, targets |-> FamilyRows(a.family)]

\* A slot between requests.
IdleSlot == Slot("idle", "login", CHOOSE u \in Users : TRUE, NoSid)

Free(r, op) == req[r].pc = "idle" /\ op \in Ops
Goto(r, slot) == req' = [req EXCEPT ![r] = slot]
Finish(r) == Goto(r, IdleSlot)

Unlocked(S) == \A s \in S : ~RowLocked(s)

\* The effect of SET revoked_at = now() ... WHERE revoked_at IS NULL on the rows S.
Revoked(S) ==
    [s \in Sids |-> IF s \in S /\ Live(s)
                    THEN [table[s] EXCEPT !.revokedAt = now]
                    ELSE table[s]]
Deleted(S) == [s \in Sids |-> IF s \in S THEN NoRow ELSE table[s]]

Init ==
    /\ user = [u \in Users |-> [ver |-> 0, deleted |-> FALSE]]
    /\ table = [s \in Sids |-> NoRow]
    /\ req = [r \in Requests |-> IdleSlot]
    /\ now = 0
    /\ access = {}
    /\ cut = [u \in Users |-> {}]
    /\ ended = {}
    /\ stepped = [f \in Sids |-> Null]
    /\ exchanged = [s \in Sids |-> 0]

-----------------------------------------------------------------------------
(* Login and issueSession.  Login reads the user once and checks the       *)
(* password against that copy; the session carries the copy's version.     *)

Login(r, u, s) ==
    /\ Free(r, "login")
    /\ ~user[u].deleted
    /\ s \in Fresh
    /\ Goto(r, IssueSlot("login", u, s, user[u].ver))
    /\ UNCHANGED <<user, table, now, access, cut, ended, stepped, exchanged>>

\* CreateAuthSession does not read the users row again; only its foreign key
\* makes it wait for one.
CreateAuthSession(r) ==
    /\ req[r].pc = "create"
    /\ ~KeyLocked(req[r].owner)
    /\ table' = [table EXCEPT ![req[r].next] = NewRow(req[r], now)]
    /\ access' = access \cup {NewClaims(req[r])}
    /\ Finish(r)
    /\ UNCHANGED <<user, now, cut, ended, stepped, exchanged>>

-----------------------------------------------------------------------------
(* RefreshSession.  A client may present any token it was ever handed, any *)
(* number of times.  Unknown and expired tokens are refused without a      *)
(* state change.                                                           *)

\* An already revoked or replaced token is reuse: the family is revoked.
RefreshReuse(r, s) ==
    /\ Free(r, "refresh")
    /\ Present(s)
    /\ ~Live(s) \/ table[s].next # NoSid
    /\ Goto(r, Slot("revoke", "refresh", table[s].owner, table[s].family))
    /\ UNCHANGED <<user, table, now, access, cut, ended, stepped, exchanged>>

RefreshLoad(r, s) ==
    /\ Free(r, "refresh")
    /\ Live(s) /\ table[s].next = NoSid
    /\ now < Deadline(table[s])
    /\ Goto(r, RefreshSlot(s))
    /\ UNCHANGED <<user, table, now, access, cut, ended, stepped, exchanged>>

\* GetByID: a vanished owner or another token_version revokes the family.
RefreshStale(r) ==
    /\ req[r].pc = "loadUser"
    /\ user[req[r].owner].deleted \/ user[req[r].owner].ver # req[r].ver
    /\ Goto(r, Slot("revoke", "refresh", req[r].owner, req[r].family))
    /\ UNCHANGED <<user, table, now, access, cut, ended, stepped, exchanged>>

RefreshLoadUser(r, s) ==
    /\ req[r].pc = "loadUser"
    /\ ~user[req[r].owner].deleted
    /\ user[req[r].owner].ver = req[r].ver
    /\ s \in Fresh
    /\ Goto(r, [req[r] EXCEPT !.pc = "rotate", !.next = s])
    /\ UNCHANGED <<user, table, now, access, cut, ended, stepped, exchanged>>

\* Faulty variants: no re-validation under the lock, and one that accepts a
\* revoked row that has no replacement.
RotatableRowUnchecked(q) == Present(q.sid)
RotatableRowEither(q) ==
    Present(q.sid) /\ (Live(q.sid) \/ table[q.sid].next = NoSid)

\* authSessionRotationState.validate, on the locked row
RotatableRow(q) ==
    /\ Live(q.sid)
    /\ table[q.sid].next = NoSid
ExpiredRow(q) ==
    \/ q.at >= table[q.sid].expiresAt
    \/ table[q.sid].lastUsedAt <= q.at - TTL

\* A row that is gone, revoked or replaced by now is reuse; an expired one is not.
ValidateRotation(r) ==
    /\ req[r].pc = "rotate"
    /\ \/ /\ ~RotatableRow(req[r])
          /\ Goto(r, Slot("revoke", "refresh", req[r].owner, req[r].family))
       \/ /\ RotatableRow(req[r])
          /\ Goto(r, IF ExpiredRow(req[r]) THEN IdleSlot
                     ELSE [req[r] EXCEPT !.pc = "commit"])
    /\ UNCHANGED <<user, table, now, access, cut, ended, stepped, exchanged>>

\* Faulty variant: the row is read without FOR UPDATE.
RotateWithoutLock(r) == ValidateRotation(r)

\* lockAuthSessionRotationState waits for the lock, then validates.
RotateLock(r) == ~RowLocked(req[r].sid) /\ ValidateRotation(r)

\* retireAuthSession: the old row is revoked and points to its replacement.
Retired(row, q) ==
    [row EXCEPT !.revokedAt = q.at, !.lastUsedAt = q.at, !.next = q.next]

\* retireAuthSession and insertRotatedAuthSession become visible together.
RetireAndInsert(r) ==
    /\ req[r].pc = "commit"
    /\ ~KeyLocked(req[r].owner)
    /\ table' = [table EXCEPT
           ![req[r].sid] = Retired(@, req[r]),
           ![req[r].next] = NewRow(req[r], req[r].at)]
    /\ access' = access \cup {NewClaims(req[r])}
    /\ exchanged' = [exchanged EXCEPT ![req[r].sid] = @ + 1]
    /\ Finish(r)
    /\ UNCHANGED <<user, now, cut, ended, stepped>>

\* Faulty variant: the rotation also takes the users row, after the session row.
RotateCommitLockingUser(r) == ~UserLocked(req[r].owner) /\ RetireAndInsert(r)

RotateCommit(r) == RetireAndInsert(r)

-----------------------------------------------------------------------------
(* Revoking one family: Logout, RevokeSession, and every refresh that      *)
(* detected reuse or a stale owner.                                        *)

Logout(r, s) ==
    /\ Free(r, "logout")
    /\ Present(s)
    /\ Goto(r, Slot("revoke", "logout", table[s].owner, table[s].family))
    /\ UNCHANGED <<user, table, now, access, cut, ended, stepped, exchanged>>

\* RevokeAuthSessionByID resolves an active row of the caller to its family.
RevokeSession(r, u, s) ==
    /\ Free(r, "revokeSession")
    /\ Live(s) /\ table[s].owner = u
    /\ table[s].expiresAt > now /\ table[s].lastUsedAt > now - TTL
    /\ Goto(r, Slot("revoke", "revokeSession", u, table[s].family))
    /\ UNCHANGED <<user, table, now, access, cut, ended, stepped, exchanged>>

\* RevokeAuthSessionFamily, its snapshot and its effect.
RevokeSnapshot(r) ==
    /\ req[r].pc = "revoke"
    /\ Goto(r, [req[r] EXCEPT !.pc = "apply",
                              !.targets = FamilyRows(req[r].family)])
    /\ UNCHANGED <<user, table, now, access, cut, ended, stepped, exchanged>>

RevokeApply(r) ==
    /\ req[r].pc = "apply"
    /\ Unlocked(req[r].targets)
    /\ table' = Revoked(req[r].targets)
    /\ ended' = IF req[r].op = "refresh" THEN ended
                ELSE ended \cup {req[r].family}
    /\ Finish(r)
    /\ UNCHANGED <<user, now, access, cut, stepped, exchanged>>

-----------------------------------------------------------------------------
(* Revoking everything: LogoutAll, ChangePassword, VerifyEmailChange,      *)
(* ResetPassword and DeleteAccount.  Each bumps token_version first and    *)
(* revokes or deletes the rows in the same transaction.                    *)

BumpOps == {"logoutAll", "changePassword", "changeEmail", "resetPassword",
            "deleteAccount"}

\* The caller stays logged in: issueSession with the bump's RETURNING row.
Reissuing == {"changePassword", "changeEmail"}

\* UPDATE users ... WHERE deleted_at IS NULL; not visible before the commit.
BumpUser(r, u, op) ==
    /\ Free(r, op)
    /\ ~UserLocked(u)
    /\ ~user[u].deleted
    /\ user[u].ver < MaxVersion
    /\ Goto(r, Slot("bumpSnapshot", op, u, NoSid))
    /\ UNCHANGED <<user, table, now, access, cut, ended, stepped, exchanged>>

BumpSnapshot(r) ==
    /\ req[r].pc = "bumpSnapshot"
    /\ Goto(r, [req[r] EXCEPT
           !.pc = "bumpCommit",
           !.targets = {s \in Sids :
               /\ Present(s) /\ table[s].owner = req[r].owner
               /\ req[r].op = "deleteAccount" \/ Live(s)}])
    /\ UNCHANGED <<user, table, now, access, cut, ended, stepped, exchanged>>

\* Ids already issued to u, or about to be by a request that read u's row.
IssuedFor(u) ==
    {a.sid : a \in {b \in access : b.owner = u}}
    \cup {req[r].next : r \in {x \in Requests :
                                   Reserving(req[x]) /\ req[x].owner = u}}

BumpCommit(r) ==
    LET u == req[r].owner IN
    /\ req[r].pc = "bumpCommit"
    /\ Unlocked(req[r].targets)
    /\ user' = [user EXCEPT ![u].ver = @ + 1,
                            ![u].deleted = (req[r].op = "deleteAccount")]
    /\ table' = IF req[r].op = "deleteAccount"
                THEN Deleted(req[r].targets) ELSE Revoked(req[r].targets)
    /\ cut' = [cut EXCEPT ![u] = @ \cup IssuedFor(u)]
    /\ \/ (req[r].op \notin Reissuing \/ Fresh = {}) /\ Finish(r)
       \/ /\ req[r].op \in Reissuing
          /\ \E s \in Fresh :
                Goto(r, IssueSlot(req[r].op, u, s, user[u].ver + 1))
    /\ UNCHANGED <<now, access, ended, stepped, exchanged>>

-----------------------------------------------------------------------------
(* StepUpMFA: after the second factor was verified, SetSessionMFAVerified  *)
(* stamps the unrevoked row of the caller's family.                        *)

StepUp(r, a) ==
    /\ Free(r, "stepUp")
    /\ AccessAccepted(a)
    /\ Goto(r, StampSlot(a))
    /\ UNCHANGED <<user, table, now, access, cut, ended, stepped, exchanged>>

\* No row left to stamp is ErrAuthSessionNotFound: the step-up is refused.
StampApply(r) ==
    LET hit == {s \in req[r].targets : Live(s)} IN
    /\ req[r].pc = "stamp"
    /\ Unlocked(req[r].targets)
    /\ table' = [s \in Sids |-> IF s \in hit
                                THEN [table[s] EXCEPT !.mfa = req[r].at]
                                ELSE table[s]]
    /\ stepped' = IF hit = {} THEN stepped
                  ELSE [stepped EXCEPT ![req[r].family] = req[r].at]
    /\ Finish(r)
    /\ UNCHANGED <<user, now, access, cut, ended, exchanged>>

-----------------------------------------------------------------------------
(* The environment: a handler that dies (crash, cancelled context, lost    *)
(* connection, or chosen by PostgreSQL's deadlock detector) rolls back     *)
(* what it had not committed; the clock; and the maintenance job           *)
(* CleanupAuthData.                                                        *)

Abandon(r) ==
    /\ req[r].pc # "idle"
    /\ Finish(r)
    /\ UNCHANGED <<user, table, now, access, cut, ended, stepped, exchanged>>

Tick ==
    /\ now < MaxTime
    /\ now' = now + 1
    /\ UNCHANGED <<user, table, req, access, cut, ended, stepped, exchanged>>

\* COALESCE(revoked_at, expires_at) <= now - retention
Purgeable(s) ==
    /\ Present(s)
    /\ (IF Live(s) THEN table[s].expiresAt ELSE table[s].revokedAt)
           <= now - Retention

CleanupAuthData ==
    /\ \E s \in Sids : Purgeable(s)
    /\ Unlocked({s \in Sids : Purgeable(s)})
    /\ table' = Deleted({s \in Sids : Purgeable(s)})
    /\ UNCHANGED <<user, req, now, access, cut, ended, stepped, exchanged>>

-----------------------------------------------------------------------------
Start(r) ==
    \/ \E u \in Users, s \in Sids : Login(r, u, s)
    \/ \E s \in Sids : RefreshReuse(r, s)
    \/ \E s \in Sids : RefreshLoad(r, s)
    \/ \E s \in Sids : Logout(r, s)
    \/ \E u \in Users, s \in Sids : RevokeSession(r, u, s)
    \/ \E u \in Users, op \in BumpOps : BumpUser(r, u, op)
    \/ \E a \in access : StepUp(r, a)

\* What a handler does once it has started.
Progress(r) ==
    \/ CreateAuthSession(r)
    \/ RefreshStale(r)
    \/ \E s \in Sids : RefreshLoadUser(r, s)
    \/ RotateLock(r)
    \/ RotateCommit(r)
    \/ RevokeSnapshot(r)
    \/ RevokeApply(r)
    \/ BumpSnapshot(r)
    \/ BumpCommit(r)
    \/ StampApply(r)

Next ==
    \/ \E r \in Requests : Start(r) \/ Progress(r) \/ Abandon(r)
    \/ Tick
    \/ CleanupAuthData

Spec == Init /\ [][Next]_vars

-----------------------------------------------------------------------------
(* Properties.                                                             *)

\* The database and the request slots hold values of their types.
TypeOK ==
    /\ user \in [Users -> [ver : Nat, deleted : BOOLEAN]]
    /\ table \in [Sids -> Row \cup {NoRow}]
    /\ req \in [Requests -> Request]
    /\ now \in Nat
    /\ access \in SUBSET Claims
    /\ cut \in [Users -> SUBSET Sids]
    /\ ended \in SUBSET Sids
    /\ stepped \in [Sids -> Int]
    /\ exchanged \in [Sids -> Nat]

\* "Rotation keeps one active row per family" (ListActiveAuthSessions relies
\* on it to show one device per family): whatever refreshes, logouts and
\* cleanups interleave, two rows of one family are never both unrevoked.
OneLiveRowPerFamily ==
    \A s, t \in Sids :
        Live(s) /\ Live(t) /\ table[s].family = table[t].family => s = t

\* A refresh token is exchanged at most once in its life, whichever of several
\* refreshes that read it unspent gets the row lock first and however long its
\* row is kept, and the token it was exchanged for continues the same family of
\* the same owner.  (RotateAuthSession: the FOR UPDATE, the re-validation under
\* it and the retirement of the row)
RotationIsLinear ==
    \A s \in Sids :
        /\ exchanged[s] <= 1
        /\ Present(s) /\ table[s].next # NoSid =>
               \A a \in access : a.sid = table[s].next =>
                   a.family = table[s].family /\ a.owner = table[s].owner

\* LogoutAll, a password or email change, a password reset and an account
\* deletion "bump token_version so outstanding access tokens die": no refresh
\* token and no access token whose issuance read the user before the bump
\* committed works afterwards, including the rows that a login or a rotation
\* in flight inserts after the bump.
BumpCutsOff ==
    \A u \in Users : \A s \in cut[u] :
        /\ ~Refreshable(s)
        /\ \A a \in access : a.sid = s => ~AccessAccepted(a)

\* What a client sees of the table: the redeemable tokens with their family,
\* and the tokens that were handed out and are redeemable no longer.
RedeemablePairs == {<<s, table[s].family>> : s \in {t \in Sids : Live(t)}}
SpentIds == {s \in Issued : ~Live(s)}

Families == INSTANCE SessionFamilies
                WITH live <- RedeemablePairs, spent <- SpentIds

\* The refresh machinery implements the abstract promise of SessionFamilies:
\* a spent refresh token never becomes redeemable again and a family that was
\* closed is never reopened, although handlers act on rows read earlier.
ImplementsFamilies == Families!Spec

\* Row locks and user locks are always released and every wait for one ends,
\* without the help of PostgreSQL's deadlock detector.  Claimed of every
\* operation but changeEmail, whose FOR UPDATE on the users row can close a
\* cycle with a rotation that only the detector (Abandon) breaks.
Waiting(r) == req[r].pc \in {"rotate", "commit", "apply", "stamp",
                             "bumpSnapshot", "bumpCommit"}
LockWaitsEnd == \A r \in Requests : Waiting(r) ~> ~Waiting(r)

\* A started handler runs on.  Strong fairness is what PostgreSQL's lock queue
\* gives a waiter: others may take and drop the lock first, but not forever.
\* Nothing forces clients to call, time to pass or the cleanup to run.
FairSpec == Spec /\ \A r \in Requests : SF_vars(Progress(r))

\* "Logout revokes the session family behind one refresh token" (session.go)
\* and RevokeSession's "the refresh token is killed immediately so the device
\* cannot renew": once the revocation is acknowledged, no row of the family is
\* unrevoked.
AcknowledgedRevocationHolds ==
    \A f \in ended : FamilyRows(f) = {}

\* "Step-up freshness survives rotation: the successor row inherits the MFA
\* stamp" (session.go): the unrevoked row of a family carries the family's
\* last acknowledged step-up.
StepUpSurvivesRotation ==
    \A s \in Sids : Live(s) => table[s].mfa >= stepped[table[s].family]
=============================================================================
