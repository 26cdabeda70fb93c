------------------------------ MODULE Accounts ------------------------------
(***************************************************************************)
(* Accounts and the one-time tokens mailed for them: registration, the     *)
(* verification of an address, password reset and change, the change of    *)
(* an address, roles and account deletion.                                 *)
(*                                                                         *)
(* Source: internal/usecase/user/user.go and                               *)
(* internal/repo/persistent/user_postgres.go.                              *)
(*                                                                         *)
(* A slot is a request in progress and one action one statement, under     *)
(* READ COMMITTED: a transaction's writes are seen, and its row locks      *)
(* dropped, when it commits.  A request whose next statement would wait    *)
(* for another's lock is simply not able to take it yet.  What a           *)
(* transaction writes to the users row is applied at its commit, since it  *)
(* holds the row from the statement that writes it.  An OTP is one more    *)
(* way to present the token it came with.  Expiry, cooldown and rate       *)
(* limits only refuse requests, so a request that is refused is one that   *)
(* never starts.  Sessions are the subject of AuthSessions.                *)
(***************************************************************************)
EXTENDS Integers, FiniteSets

CONSTANTS Users, Emails, Tokens, Slots,
          None,         \* NULL, no such row
          Admins,       \* users who are administrators from the start
          MaxChanges    \* bound on the changes of a password or an address

ASSUME ConstantsAssumption ==
    /\ Admins \subseteq Users /\ Admins # {} /\ MaxChanges \in Nat
    /\ None \notin Users \cup Emails \cup Tokens \cup Slots

VARIABLES user,         \* users
          token,        \* the three token tables
          slot,         \* requests in progress
          proven,       \* history: <<user, address>> shown to belong together
          adminRace     \* history: an administrator was removed past the guard

vars == <<user, token, slot, proven, adminRace>>

Kinds == {"verify", "reset", "change"}

\* gen is history: how often the password and the address were changed.
User == [email : Emails \cup {None}, verified : BOOLEAN, role : {"admin", "user"},
         deleted : BOOLEAN, gen : [{"reset", "change"} -> 0..MaxChanges]]

\* addr: where the token is mailed; new: the address it stands for.  epoch and
\* late are history: the user's gen when the token was stored, and whether a
\* transaction that revokes tokens of its kind was under way.
Token == [user : Users, kind : Kinds, addr : Emails, new : Emails, mailed : BOOLEAN,
          state : {"unused", "used", "gone"}, epoch : 0..MaxChanges, late : BOOLEAN]

\* mode: the lock the slot holds on the users row of u; targets: the tokens a
\* running statement found; marked: those it has written and locked.
Slot == [op : {"none", "send", "verify", "reset", "change", "password", "role", "delete"},
         pc : {"idle", "lock", "count", "token", "user", "revoke", "mark", "insert",
               "mail", "commit"},
         u : Users \cup {None}, t : Tokens \cup {None}, kind : Kinds,
         addr : Emails \cup {None}, new : Emails \cup {None},
         mode : {"none", "nokey", "key"}, targets : SUBSET Tokens, marked : SUBSET Tokens]

ASSUME RowsAssumption == None \notin User \cup Token

IdleSlot == [op |-> "none", pc |-> "idle", u |-> None, t |-> None, kind |-> "verify",
             addr |-> None, new |-> None, mode |-> "none", targets |-> {}, marked |-> {}]

-----------------------------------------------------------------------------
At(w, pc) == slot[w].pc = pc
Goto(w, pc) == slot' = [slot EXCEPT ![w].pc = pc]
Request(op, u, pc) == [IdleSlot EXCEPT !.op = op, !.u = u, !.pc = pc]

\* The row of a user who can be found: GetByID, GetByEmail.
Active(u) == user[u] # None /\ ~user[u].deleted
Free(e) == \A u \in Users : user[u] # None => user[u].email # e

\* Someone with a session: only verified accounts get one.
SignedIn(u) == Active(u) /\ user[u].verified

Unused(u, kinds) == {t \in Tokens : /\ token[t] # None /\ token[t].user = u
                                    /\ token[t].kind \in kinds
                                    /\ token[t].state = "unused"}

\* Row locks held by requests other than w.
UserLocked(w, u) == \E x \in Slots \ {w} : slot[x].u = u /\ slot[x].mode # "none"
KeyLocked(w, u) == \E x \in Slots \ {w} : slot[x].u = u /\ slot[x].mode = "key"
TokensLocked(w, S) == \E x \in Slots \ {w} : slot[x].marked \cap S # {}

\* ChangePassword without its UPDATE of password_reset_tokens.
RevokesPresentedOnly(op) == CASE op = "reset" -> {"reset"}
                              [] op = "change" -> {"change"}
                              [] op = "delete" -> Kinds
                              [] OTHER -> {}
\* The kinds of unused tokens that a transaction revokes as a whole.
Revokes(op) == CASE op \in {"reset", "password"} -> {"reset"}
                 [] op = "change" -> {"change"}
                 [] op = "delete" -> Kinds
                 [] OTHER -> {}

Gen(u, kind) == IF kind = "verify" THEN 0 ELSE user[u].gen[kind]

\* The change of an address confirmed at the old one.
MailToCurrent(u, kind, new) == user[u].email
\* The address a mail for a token of a kind goes to.
MailTo(u, kind, new) == IF kind = "change" THEN new ELSE user[u].email

NewToken(u, kind, addr, new, late) ==
    [user |-> u, kind |-> kind, addr |-> addr, new |-> new, mailed |-> FALSE,
     state |-> "unused", epoch |-> Gen(u, kind), late |-> late]

-----------------------------------------------------------------------------
(* Issuing tokens.                                                         *)

\* Register: the account and its first verification token in one transaction.
Register(w, u, e, t) ==
    /\ At(w, "idle")
    /\ user[u] = None /\ token[t] = None /\ Free(e)
    /\ user' = [user EXCEPT ![u] =
           [email |-> e, verified |-> FALSE, role |-> "user", deleted |-> FALSE,
            gen |-> [k \in {"reset", "change"} |-> 0]]]
    /\ token' = [token EXCEPT ![t] = [user |-> u, kind |-> "verify", addr |-> e, new |-> e,
            mailed |-> FALSE, state |-> "unused", epoch |-> 0, late |-> FALSE]]
    /\ slot' = [slot EXCEPT ![w] =
           [Request("send", u, "mail") EXCEPT !.t = t, !.addr = e, !.new = e]]
    /\ UNCHANGED <<proven, adminRace>>

\* ResendEmailVerification, ForgotPassword and RequestEmailChange, up to the
\* token they are about to store.
RequestToken(w, u, kind, new) ==
    /\ At(w, "idle") /\ Active(u)
    /\ \/ kind = "verify" /\ ~user[u].verified /\ new = user[u].email
       \/ kind = "reset" /\ new = user[u].email
       \/ kind = "change" /\ user[u].verified /\ new # user[u].email /\ Free(new)
    /\ slot' = [slot EXCEPT ![w] = [Request("send", u, "revoke") EXCEPT
           !.kind = kind, !.addr = MailTo(u, kind, new), !.new = new]]
    /\ UNCHANGED <<user, token, proven, adminRace>>

\* The kinds the revoking statement of a slot is about.
RevokedKinds(w) == IF slot[w].op = "send" THEN {slot[w].kind} ELSE Revokes(slot[w].op)

\* The revoking statement sees what is committed as it starts ...
RevokeSnapshot(w) ==
    /\ At(w, "revoke")
    /\ slot' = [slot EXCEPT ![w].targets = Unused(slot[w].u, RevokedKinds(w)),
                            ![w].pc = "mark"]
    /\ UNCHANGED <<user, token, proven, adminRace>>

\* ... waits for rows others have written, and skips those used meanwhile.
RevokeMark(w) ==
    /\ At(w, "mark")
    /\ ~TokensLocked(w, slot[w].targets)
    /\ slot' = [slot EXCEPT
           ![w].marked = @ \cup (slot[w].targets \cap Unused(slot[w].u, Kinds)),
           ![w].targets = {},
           ![w].pc = IF slot[w].op = "send" THEN "insert" ELSE "commit"]
    /\ UNCHANGED <<user, token, proven, adminRace>>

\* Insert and commit.  The foreign key locks the users row against the change
\* or the deletion of its key, and a deleted account's row is still there.
StoreToken(w, t) ==
    /\ At(w, "insert") /\ token[t] = None
    /\ ~KeyLocked(w, slot[w].u)
    /\ token' = [x \in Tokens |->
           IF x = t
           THEN NewToken(slot[w].u, slot[w].kind, slot[w].addr, slot[w].new,
                    \E v \in Slots \ {w} : slot[v].u = slot[w].u /\ slot[v].mode # "none"
                                           /\ slot[w].kind \in Revokes(slot[v].op))
           ELSE IF x \in slot[w].marked THEN [token[x] EXCEPT !.state = "used"]
           ELSE token[x]]
    /\ slot' = [slot EXCEPT ![w] = [@ EXCEPT !.t = t, !.marked = {}, !.pc = "mail"]]
    /\ UNCHANGED <<user, proven, adminRace>>

\* The mail is queued ...
MailToken(w) ==
    /\ At(w, "mail")
    /\ token' = [token EXCEPT ![slot[w].t].mailed = TRUE]
    /\ slot' = [slot EXCEPT ![w] = IdleSlot]
    /\ UNCHANGED <<user, proven, adminRace>>

\* ... or fails to be, and every unused token of the kind is revoked.
MailFails(w) ==
    LET S == Unused(slot[w].u, {slot[w].kind})
    IN /\ At(w, "mail") /\ ~TokensLocked(w, S)
       /\ token' = [x \in Tokens |-> IF x \in S THEN [token[x] EXCEPT !.state = "used"]
                                     ELSE token[x]]
       /\ slot' = [slot EXCEPT ![w] = IdleSlot]
       /\ UNCHANGED <<user, proven, adminRace>>

-----------------------------------------------------------------------------
(* Using tokens, changing passwords and roles, deleting accounts.          *)

\* VerifyEmail, ResetPassword, VerifyEmailChange: the token is looked up.
PresentToken(w, t) ==
    /\ At(w, "idle")
    /\ token[t] # None /\ token[t].mailed /\ token[t].state = "unused"
    /\ token[t].kind = "change" => SignedIn(token[t].user)
    /\ slot' = [slot EXCEPT ![w] =
           [Request(token[t].kind, token[t].user,
                    IF token[t].kind = "change" THEN "lock" ELSE "token")
              EXCEPT !.t = t, !.addr = token[t].addr, !.new = token[t].new]]
    /\ UNCHANGED <<user, token, proven, adminRace>>

\* ChangePassword and DeleteAccount of a signed-in user, password verified.
StartChange(w, u, op) ==
    /\ At(w, "idle") /\ SignedIn(u)
    /\ op \in {"password", "delete"}
    /\ slot' = [slot EXCEPT ![w] = Request(op, u, "user")]
    /\ UNCHANGED <<user, token, proven, adminRace>>

\* SetRoleByEmail: an administrator promotes or demotes someone else.
StartRole(w, u, actor) ==
    /\ At(w, "idle") /\ Active(u)
    /\ actor # u /\ SignedIn(actor) /\ user[actor].role = "admin"
    /\ slot' = [slot EXCEPT ![w] = Request("role", u, "lock")]
    /\ UNCHANGED <<user, token, proven, adminRace>>

\* A row that a transaction may write: not soft-deleted.  (WritableAnyway
\* leaves deleted_at out of the WHERE.)
WritableAnyway(u) == TRUE
Writable(u) == ~user[u].deleted

\* SELECT ... FOR UPDATE
LockUser(w) ==
    /\ At(w, "lock")
    /\ ~UserLocked(w, slot[w].u) /\ Writable(slot[w].u)
    /\ slot' = [slot EXCEPT ![w].mode = "key",
                            ![w].pc = IF slot[w].op = "role" THEN "count" ELSE "token"]
    /\ UNCHANGED <<user, token, proven, adminRace>>

\* UPDATE ... WHERE id = the token AND used_at IS NULL
UseToken(w) ==
    /\ At(w, "token")
    /\ ~TokensLocked(w, {slot[w].t}) /\ token[slot[w].t].state = "unused"
    /\ slot' = [slot EXCEPT ![w].marked = {slot[w].t}, ![w].pc = "user"]
    /\ UNCHANGED <<user, token, proven, adminRace>>

\* UPDATE users ... WHERE deleted_at IS NULL
UpdateUser(w) ==
    /\ At(w, "user")
    /\ ~UserLocked(w, slot[w].u) /\ Writable(slot[w].u)
    /\ slot[w].op = "change" => Free(slot[w].new)
    /\ slot' = [slot EXCEPT
           ![w].mode = IF slot[w].op \in {"change", "delete"} THEN "key" ELSE "nokey",
           ![w].pc = IF Revokes(slot[w].op) = {} THEN "commit" ELSE "revoke"]
    /\ UNCHANGED <<user, token, proven, adminRace>>

AdminSet == {u \in Users : Active(u) /\ user[u].role = "admin"}

\* The last administrator stays.  (MayDemoteLast is one off.)
MayDemoteLast(n) == n > 0
MayDemote(n) == n > 1

\* The request is about to take the role of an administrator away.
Demoting(s) == s.op = "role" /\ s.pc = "commit" /\ s.u \in AdminSet

\* A demotion counts the administrators, whatever others are about to commit.
CountAdmins(w) ==
    /\ At(w, "count")
    /\ slot[w].u \in AdminSet => MayDemote(Cardinality(AdminSet))
    /\ adminRace' = (adminRace \/ (/\ slot[w].u \in AdminSet
                                   /\ \E x \in Slots \ {w} : Demoting(slot[x])))
    /\ Goto(w, "commit")
    /\ UNCHANGED <<user, token, proven>>

\* anonymizeDeletedUser.  (AnonymizedExceptEmail keeps the address.)
AnonymizedExceptEmail(row) == [row EXCEPT !.deleted = TRUE, !.verified = FALSE]
Anonymized(row) == [row EXCEPT !.deleted = TRUE, !.email = None, !.verified = FALSE]

\* What the transaction wrote to the users row; a role change is the one that
\* makes a difference.
Written(w) ==
    LET row == user[slot[w].u]
    IN CASE slot[w].op = "verify" -> [row EXCEPT !.verified = TRUE]
         [] slot[w].op = "reset" -> [row EXCEPT !.verified = TRUE, !.gen["reset"] = @ + 1]
         [] slot[w].op = "password" -> [row EXCEPT !.gen["reset"] = @ + 1]
         [] slot[w].op = "change" -> [row EXCEPT !.verified = TRUE, !.email = slot[w].new,
                                                 !.gen["change"] = @ + 1]
         [] slot[w].op = "role" -> [row EXCEPT !.role = IF @ = "admin" THEN "user" ELSE "admin"]
         [] slot[w].op = "delete" -> Anonymized(row)

Bounded(row) == \A k \in DOMAIN row.gen : row.gen[k] <= MaxChanges

Commit(w) ==
    /\ At(w, "commit")
    /\ Bounded(Written(w))
    /\ slot[w].op = "change" => Free(slot[w].new)
    /\ user' = [user EXCEPT ![slot[w].u] = Written(w)]
    /\ token' = [t \in Tokens |->
           IF t \in slot[w].marked
           THEN [token[t] EXCEPT !.state = IF slot[w].op = "delete" THEN "gone" ELSE "used"]
           ELSE token[t]]
    /\ proven' = proven \cup (IF slot[w].t = None THEN {} ELSE {<<slot[w].u, slot[w].addr>>})
    /\ adminRace' = (adminRace \/ (slot[w].op = "delete" /\ user[slot[w].u].role = "admin"))
    /\ slot' = [slot EXCEPT ![w] = IdleSlot]

\* A statement affects no row or fails, the unique index objects, the deadlock
\* detector picks this transaction, or the process dies: nothing is written.
Rollback(w) ==
    /\ ~At(w, "idle")
    /\ slot' = [slot EXCEPT ![w] = IdleSlot]
    /\ UNCHANGED <<user, token, proven, adminRace>>

-----------------------------------------------------------------------------
\* The administrators exist, at an address each.
Init ==
    /\ \E mail \in [Admins -> Emails] :
          /\ \A a, b \in Admins : mail[a] = mail[b] => a = b
          /\ user = [u \in Users |-> IF u \in Admins
                 THEN [email |-> mail[u], verified |-> TRUE, role |-> "admin",
                       deleted |-> FALSE, gen |-> [k \in {"reset", "change"} |-> 0]]
                 ELSE None]
          /\ proven = {<<a, mail[a]>> : a \in Admins}
    /\ token = [t \in Tokens |-> None]
    /\ slot = [w \in Slots |-> IdleSlot]
    /\ adminRace = FALSE

Progress(w) ==
    \/ RevokeSnapshot(w) \/ RevokeMark(w) \/ MailToken(w) \/ MailFails(w)
    \/ LockUser(w) \/ UseToken(w) \/ UpdateUser(w) \/ CountAdmins(w) \/ Commit(w)
    \/ \E t \in Tokens : StoreToken(w, t)

Start(w) ==
    \/ \E u \in Users, e \in Emails, t \in Tokens : Register(w, u, e, t)
    \/ \E u \in Users, e \in Emails, k \in Kinds : RequestToken(w, u, k, e)
    \/ \E t \in Tokens : PresentToken(w, t)
    \/ \E u \in Users, op \in {"password", "delete"} : StartChange(w, u, op)
    \/ \E u, a \in Users : StartRole(w, u, a)

Next == \E w \in Slots : Start(w) \/ Progress(w) \/ Rollback(w)

Spec == Init /\ [][Next]_vars

-----------------------------------------------------------------------------
(* What is checked.                                                        *)

TypeOK ==
    /\ user \in [Users -> User \cup {None}]
    /\ \A u \in Users : user[u] # None => (user[u].deleted <=> user[u].email = None)
    /\ token \in [Tokens -> Token \cup {None}]
    /\ slot \in [Slots -> Slot]
    /\ proven \subseteq Users \X Emails
    /\ adminRace \in BOOLEAN

\* A verified account's address is one to which a token of that very account
\* was mailed and came back, although the address changes, deleted accounts
\* free theirs and links of all three kinds are under way at once.
\* (VerifyEmailWithToken, ResetPasswordWithToken, ChangeEmailWithToken)
VerifiedByMail ==
    \A u \in Users : Active(u) /\ user[u].verified => <<u, user[u].email>> \in proven

\* A link takes effect only if the password (the address) it is about has not
\* been changed since the link was stored: changes kill the links that were
\* there when they began, and no link works twice.  A link stored while such a
\* change was under way is as good as one asked for after it.
\* (ResetPasswordWithToken, ChangePassword, ChangeEmailWithToken)
OldLinksDead ==
    [][\A w \in Slots :
          /\ slot[w].pc = "commit" /\ slot[w].op \in {"reset", "change"}
          /\ user'[slot[w].u] # user[slot[w].u] /\ slot'[w] # slot[w]
          =>
              LET t == slot[w].t
              IN token[t].epoch = Gen(slot[w].u, token[t].kind) \/ token[t].late]_vars

\* A deleted account stays as the deletion left it, whatever requests loaded it
\* or had links for it before.  (deleted_at IS NULL in every UPDATE of users)
DeletedStaysDeleted ==
    [][\A u \in Users : user[u] # None /\ user[u].deleted => user'[u] = user[u]]_vars

\* "cannot demote the last admin": an administrator remains, although the actor
\* may be one no longer, unless one deleted the own account or the demotions of
\* two administrators overlapped, which the count does not see.  (SetRoleByEmail)
AdminRemains == AdminSet # {} \/ adminRace
=============================================================================
