--------------------------- MODULE AccountsProofs ---------------------------
(***************************************************************************)
(* Proofs about Accounts for every set of users, addresses, tokens and     *)
(* concurrent requests and every number of changes.                        *)
(***************************************************************************)
EXTENDS Accounts, FiniteSetTheorems, TLAPS

-----------------------------------------------------------------------------
(* The inductive invariant.                                                *)

ByToken(op) == op \in {"verify", "reset", "change"}

\* The shape of a slot: what it refers to, and the locks of its transaction.
SlotInv(s) ==
    /\ s.pc = "idle" => s.mode = "none" /\ s.marked = {}
    /\ s.pc # "idle" => s.u \in Users /\ user[s.u] # None /\ s.op # "none"
    /\ s.op = "send" => /\ s.mode = "none" /\ s.addr \in Emails /\ s.new \in Emails
                        /\ s.pc \in {"revoke", "mark", "insert", "mail"}
    /\ s.pc \in {"insert", "mail"} => s.op = "send"
    /\ s.pc = "mail" => s.t \in Tokens /\ token[s.t] # None
    /\ ByToken(s.op) => /\ s.t \in Tokens /\ token[s.t] # None
                        /\ token[s.t].user = s.u /\ token[s.t].kind = s.op
                        /\ token[s.t].addr = s.addr /\ token[s.t].new = s.new
    /\ s.op \in {"password", "delete", "role"} => s.t = None
    /\ s.op = "role" => s.pc \in {"lock", "count", "commit"}
    /\ s.pc = "count" => s.op = "role"
    /\ s.pc = "token" => ByToken(s.op)
    /\ s.pc = "lock" => s.op \in {"change", "role"}
    /\ s.pc \in {"count", "commit"} => s.mode # "none"
    /\ s.pc \in {"revoke", "mark"} /\ s.op # "send" => s.mode # "none"
    /\ ByToken(s.op) /\ s.pc \in {"user", "revoke", "mark", "commit"} => s.t \in s.marked
    /\ s.pc = "commit" => s.op \notin {"none", "send"}

\* A locked users row is not deleted.
LockInv(s) == s.mode # "none" => ~user[s.u].deleted

\* A token row that a transaction has written is unused so far.
MarkInv(s) == \A t \in s.marked : token[t] # None /\ token[t].state = "unused"

\* The tokens that a transaction has to kill: it found or has written them.
Doomed(s, t) == t \in Unused(s.u, Revokes(s.op)) /\ ~token[t].late

KillInv(s) ==
    \A t \in Tokens : Doomed(s, t) =>
        /\ s.pc = "mark" /\ s.op # "send" => t \in s.targets \cup s.marked
        /\ s.pc = "commit" => t \in s.marked

\* Until an account is verified its address is the one its links are mailed to.
Unverified(u) == Active(u) /\ ~user[u].verified
Mailed(u, kind, addr, new) ==
    /\ kind = "change" => addr = new
    /\ kind # "change" /\ Unverified(u) => addr = user[u].email

OwnInv(s) ==
    /\ SlotInv(s) /\ LockInv(s) /\ MarkInv(s) /\ KillInv(s)
    /\ s.op = "send" => Mailed(s.u, s.kind, s.addr, s.new)

\* No two requests lock one users row or have written one token row.
Apart(s, q) ==
    /\ s.mode # "none" /\ q.mode # "none" => s.u # q.u
    /\ s.marked \cap q.marked = {}

SlotsInv ==
    /\ \A w \in Slots : OwnInv(slot[w])
    /\ \A w, x \in Slots : w # x => Apart(slot[w], slot[x])

Fresh(t) == token[t].epoch = Gen(token[t].user, token[t].kind) \/ token[t].late

TokenInv ==
    \A t \in Tokens : token[t] # None =>
        /\ user[token[t].user] # None
        /\ token[t].state = "unused" => Fresh(t)
        /\ Mailed(token[t].user, token[t].kind, token[t].addr, token[t].new)

\* Of two demotions only one has counted, and its victim is not the last one.
AdminInv ==
    ~adminRace =>
        /\ AdminSet # {}
        /\ \A w, x \in Slots : Demoting(slot[w]) /\ Demoting(slot[x]) => w = x
        /\ \A w \in Slots : Demoting(slot[w]) => \E u \in AdminSet : u # slot[w].u

IndInv == TypeOK /\ SlotsInv /\ TokenInv /\ VerifiedByMail /\ AdminInv

-----------------------------------------------------------------------------
(* The parts of a step that are alike.                                     *)

LEMMA IdleFits ==
    /\ IdleSlot \in Slot /\ OwnInv(IdleSlot) /\ ~Demoting(IdleSlot)
    /\ \A q : Apart(IdleSlot, q) /\ Apart(q, IdleSlot)
<1>1. IdleSlot \in Slot
  BY DEF IdleSlot, Slot, Kinds
<1>2. /\ IdleSlot.pc = "idle" /\ IdleSlot.op = "none" /\ IdleSlot.mode = "none"
      /\ IdleSlot.marked = {}
  BY DEF IdleSlot
<1>3. OwnInv(IdleSlot) /\ ~Demoting(IdleSlot)
  BY <1>2 DEF OwnInv, SlotInv, LockInv, MarkInv, KillInv, ByToken, Demoting
<1> QED
  BY <1>1, <1>2, <1>3 DEF Apart

\* One request changes its slot and no table.
LEMMA SlotStep ==
    ASSUME IndInv, NEW w \in Slots, NEW s \in Slot, slot' = [slot EXCEPT ![w] = s],
           OwnInv(s), \A x \in Slots \ {w} : Apart(s, slot[x]),
           adminRace' \in BOOLEAN, adminRace => adminRace',
           ~adminRace' /\ Demoting(s) =>
               /\ \A x \in Slots \ {w} : ~Demoting(slot[x])
               /\ \E u \in AdminSet : u # s.u,
           UNCHANGED <<user, token, proven>>
    PROVE  IndInv'
<1>1. /\ \A x \in Slots : slot'[x] = IF x = w THEN s ELSE slot[x]
      /\ slot' \in [Slots -> Slot]
  BY DEF IndInv, TypeOK
<1>2. TypeOK'
  BY <1>1 DEF IndInv, TypeOK
<1>3. ASSUME NEW x \in Slots PROVE OwnInv(slot[x])'
  <2>1. OwnInv(slot'[x])
    BY <1>1 DEF IndInv, SlotsInv
  <2> QED
    BY <2>1 DEF OwnInv, SlotInv, LockInv, MarkInv, KillInv, Doomed, Unused, Mailed,
                Unverified, Active
<1>4. ASSUME NEW x \in Slots, NEW y \in Slots, x # y PROVE Apart(slot[x], slot[y])'
  BY <1>1, <1>4 DEF IndInv, SlotsInv, Apart
<1>5. TokenInv' /\ VerifiedByMail'
  BY DEF IndInv, TokenInv, VerifiedByMail, Fresh, Gen, Mailed, Unverified, Active
<1>6. AdminSet' = AdminSet
  BY DEF AdminSet, Active
<1>7. AdminInv'
  BY <1>1, <1>6 DEF IndInv, AdminInv, Demoting
<1> QED
  BY <1>2, <1>3, <1>4, <1>5, <1>7 DEF IndInv, SlotsInv

\* The same for a step that leaves the history of demotions alone.
LEMMA PlainStep ==
    ASSUME IndInv, NEW w \in Slots, NEW s \in Slot, slot' = [slot EXCEPT ![w] = s],
           OwnInv(s), \A x \in Slots \ {w} : Apart(s, slot[x]), ~Demoting(s),
           UNCHANGED <<user, token, proven, adminRace>>
    PROVE  IndInv'
<1>1. adminRace' \in BOOLEAN
  BY DEF IndInv, TypeOK
<1> QED
  BY <1>1, SlotStep

LEMMA RollbackInv ==
    ASSUME IndInv, NEW w \in Slots, Rollback(w)
    PROVE  IndInv'
BY IdleFits, PlainStep DEF Rollback

\* A request that holds nothing yet.
LEMMA BareFits ==
    ASSUME IndInv, NEW op \in {"send", "verify", "reset", "change", "password", "role", "delete"},
           NEW pc \in {"lock", "token", "user", "revoke"}, NEW u \in Users, user[u] # None
    PROVE  /\ Request(op, u, pc) \in Slot
           /\ Request(op, u, pc).op = op /\ Request(op, u, pc).pc = pc
           /\ Request(op, u, pc).u = u /\ Request(op, u, pc).t = None
           /\ Request(op, u, pc).mode = "none" /\ Request(op, u, pc).marked = {}
BY DEF Request, IdleSlot, Slot, Kinds

\* A request is taken up: it has no locks and its statements are to come.
LEMMA StartStep ==
    ASSUME IndInv, NEW w \in Slots, NEW s \in Slot, slot' = [slot EXCEPT ![w] = s],
           s.pc \in {"lock", "token", "user", "revoke"}, s.mode = "none", s.marked = {},
           SlotInv(s), s.op = "send" => Mailed(s.u, s.kind, s.addr, s.new),
           UNCHANGED <<user, token, proven, adminRace>>
    PROVE  IndInv'
<1>1. OwnInv(s) /\ ~Demoting(s) /\ \A x \in Slots \ {w} : Apart(s, slot[x])
  BY DEF OwnInv, LockInv, MarkInv, KillInv, Demoting, Apart
<1> QED
  BY <1>1, PlainStep

LEMMA RequestTokenInv ==
    ASSUME IndInv, NEW w \in Slots, NEW u \in Users, NEW kind \in Kinds, NEW new \in Emails,
           RequestToken(w, u, kind, new)
    PROVE  IndInv'
<1>1. Active(u) /\ user[u].email \in Emails /\ user[u] # None
  BY DEF RequestToken, Active, IndInv, TypeOK, User
<1>2. MailTo(u, kind, new) \in Emails
  BY <1>1 DEF MailTo
<1>3. PICK s \in Slot :
        s = [Request("send", u, "revoke") EXCEPT
                !.kind = kind, !.addr = MailTo(u, kind, new), !.new = new]
  <2>1. Request("send", u, "revoke") \in Slot
    BY <1>1, BareFits
  <2> QED
    BY <1>2, <2>1 DEF Slot
<1>4. /\ s.op = "send" /\ s.pc = "revoke" /\ s.u = u /\ s.mode = "none" /\ s.marked = {}
      /\ s.kind = kind /\ s.addr = MailTo(u, kind, new) /\ s.new = new
  BY <1>3 DEF Request, IdleSlot
<1>5. SlotInv(s)
  BY <1>1, <1>2, <1>4 DEF SlotInv, ByToken
<1>6. Mailed(s.u, s.kind, s.addr, s.new)
  BY <1>4 DEF Mailed, MailTo
<1> QED
  BY <1>3, <1>4, <1>5, <1>6, StartStep DEF RequestToken

LEMMA PresentTokenInv ==
    ASSUME IndInv, NEW w \in Slots, NEW t \in Tokens, PresentToken(w, t)
    PROVE  IndInv'
<1> DEFINE pc == IF token[t].kind = "change" THEN "lock" ELSE "token"
<1>1. token[t] \in Token /\ token[t] # None /\ user[token[t].user] # None
  BY DEF PresentToken, IndInv, TypeOK, TokenInv
<1>2. /\ token[t].user \in Users /\ token[t].kind \in Kinds
      /\ token[t].addr \in Emails /\ token[t].new \in Emails
  BY <1>1 DEF Token
<1>3. PICK s \in Slot :
        s = [Request(token[t].kind, token[t].user, pc) EXCEPT
                !.t = t, !.addr = token[t].addr, !.new = token[t].new]
  <2>1. Request(token[t].kind, token[t].user, pc) \in Slot
    BY <1>1, <1>2, BareFits DEF Kinds
  <2> QED
    BY <1>2, <2>1 DEF Slot
<1>4. /\ s.op = token[t].kind /\ s.pc = pc /\ s.u = token[t].user /\ s.mode = "none"
      /\ s.marked = {} /\ s.t = t /\ s.addr = token[t].addr /\ s.new = token[t].new
  BY <1>3 DEF Request, IdleSlot
<1>5. SlotInv(s) /\ s.op # "send"
  BY <1>1, <1>2, <1>4 DEF SlotInv, ByToken, Kinds
<1>6. slot' = [slot EXCEPT ![w] = s] /\ s.pc \in {"lock", "token"}
      /\ UNCHANGED <<user, token, proven, adminRace>>
  BY <1>3, <1>4 DEF PresentToken
<1> QED
  BY <1>4, <1>5, <1>6, StartStep

LEMMA StartChangeInv ==
    ASSUME IndInv, NEW w \in Slots, NEW u \in Users, NEW op \in {"password", "delete"},
           StartChange(w, u, op)
    PROVE  IndInv'
<1>1. user[u] # None
  BY DEF StartChange, SignedIn, Active
<1>2. PICK s \in Slot :
        /\ s = Request(op, u, "user") /\ s.op = op /\ s.pc = "user" /\ s.u = u
        /\ s.t = None /\ s.mode = "none" /\ s.marked = {}
  BY <1>1, BareFits
<1>3. SlotInv(s) /\ s.op # "send"
  BY <1>1, <1>2 DEF SlotInv, ByToken
<1> QED
  BY <1>2, <1>3, StartStep DEF StartChange

LEMMA StartRoleInv ==
    ASSUME IndInv, NEW w \in Slots, NEW u \in Users, NEW actor \in Users, StartRole(w, u, actor)
    PROVE  IndInv'
<1>1. user[u] # None
  BY DEF StartRole, Active
<1>2. PICK s \in Slot :
        /\ s = Request("role", u, "lock") /\ s.op = "role" /\ s.pc = "lock" /\ s.u = u
        /\ s.t = None /\ s.mode = "none" /\ s.marked = {}
  BY <1>1, BareFits
<1>3. SlotInv(s) /\ s.op # "send"
  BY <1>1, <1>2 DEF SlotInv, ByToken
<1> QED
  BY <1>2, <1>3, StartStep DEF StartRole

\* The snapshot of the revoking statement has every token to be killed.
LEMMA RevokeSnapshotInv ==
    ASSUME IndInv, NEW w \in Slots, RevokeSnapshot(w)
    PROVE  IndInv'
<1>1. slot[w] \in Slot /\ OwnInv(slot[w]) /\ slot[w].pc = "revoke"
  BY DEF IndInv, TypeOK, SlotsInv, RevokeSnapshot, At
<1>2. PICK s \in Slot :
        s = [slot[w] EXCEPT !.targets = Unused(slot[w].u, RevokedKinds(w)), !.pc = "mark"]
  BY <1>1 DEF Slot, Unused
<1>3. slot' = [slot EXCEPT ![w] = s]
  BY <1>2 DEF RevokeSnapshot, IndInv, TypeOK
<1>4. /\ s.op = slot[w].op /\ s.pc = "mark" /\ s.u = slot[w].u /\ s.mode = slot[w].mode
      /\ s.marked = slot[w].marked /\ s.t = slot[w].t /\ s.addr = slot[w].addr
      /\ s.new = slot[w].new /\ s.kind = slot[w].kind
      /\ s.targets = Unused(slot[w].u, RevokedKinds(w))
  BY <1>1, <1>2 DEF Slot
<1>5. SlotInv(s)
  BY <1>1, <1>4 DEF OwnInv, SlotInv
<1>6. KillInv(s)
  BY <1>4 DEF KillInv, Doomed, RevokedKinds
<1>7. OwnInv(s)
  BY <1>1, <1>4, <1>5, <1>6 DEF OwnInv, LockInv, MarkInv
<1>8. ~Demoting(s) /\ \A x \in Slots \ {w} : Apart(s, slot[x])
  BY <1>4 DEF Demoting, IndInv, SlotsInv, Apart
<1> QED
  BY <1>3, <1>7, <1>8, PlainStep DEF RevokeSnapshot

\* The statement writes those that are unused when it gets to them, and
\* nobody else has.
LEMMA RevokeMarkInv ==
    ASSUME IndInv, NEW w \in Slots, RevokeMark(w)
    PROVE  IndInv'
<1> DEFINE more == slot[w].targets \cap Unused(slot[w].u, Kinds)
           pc == IF slot[w].op = "send" THEN "insert" ELSE "commit"
<1>1. slot[w] \in Slot /\ OwnInv(slot[w]) /\ slot[w].pc = "mark"
  BY DEF IndInv, TypeOK, SlotsInv, RevokeMark, At
<1>2. PICK s \in Slot :
        s = [slot[w] EXCEPT !.marked = @ \cup more, !.targets = {}, !.pc = pc]
  BY <1>1 DEF Slot, Unused
<1>3. slot' = [slot EXCEPT ![w] = s]
  BY <1>2 DEF RevokeMark, IndInv, TypeOK
<1>4. /\ s.op = slot[w].op /\ s.pc = pc /\ s.u = slot[w].u /\ s.mode = slot[w].mode
      /\ s.marked = slot[w].marked \cup more /\ s.t = slot[w].t /\ s.addr = slot[w].addr
      /\ s.new = slot[w].new /\ s.kind = slot[w].kind
  BY <1>1, <1>2 DEF Slot
<1>5. SlotInv(s) /\ ~Demoting(s)
  BY <1>1, <1>4 DEF OwnInv, SlotInv, Demoting, ByToken
<1>6. MarkInv(s)
  BY <1>1, <1>4 DEF OwnInv, MarkInv, Unused
<1>7. KillInv(s)
  <2> SUFFICES ASSUME NEW t \in Tokens, Doomed(s, t), s.pc = "commit"
               PROVE  t \in s.marked
    BY <1>4 DEF KillInv
  <2>1. Doomed(slot[w], t) /\ slot[w].op # "send"
    BY <1>4 DEF Doomed
  <2>2. t \in slot[w].targets \cup slot[w].marked
    BY <1>1, <2>1 DEF OwnInv, KillInv
  <2>3. t \in Unused(slot[w].u, Kinds)
    BY <2>1 DEF Doomed, Unused, Revokes, IndInv, TypeOK, Token
  <2> QED
    BY <1>4, <2>2, <2>3
<1>8. OwnInv(s)
  BY <1>1, <1>4, <1>5, <1>6, <1>7 DEF OwnInv, LockInv
<1>9. \A x \in Slots \ {w} : Apart(s, slot[x])
  BY <1>4 DEF IndInv, SlotsInv, Apart, RevokeMark, TokensLocked
<1> QED
  BY <1>3, <1>5, <1>8, <1>9, PlainStep DEF RevokeMark

LEMMA LockUserInv ==
    ASSUME IndInv, NEW w \in Slots, LockUser(w)
    PROVE  IndInv'
<1> DEFINE pc == IF slot[w].op = "role" THEN "count" ELSE "token"
<1>1. slot[w] \in Slot /\ OwnInv(slot[w]) /\ slot[w].pc = "lock"
  BY DEF IndInv, TypeOK, SlotsInv, LockUser, At
<1>2. PICK s \in Slot : s = [slot[w] EXCEPT !.mode = "key", !.pc = pc]
  BY <1>1 DEF Slot
<1>3. slot' = [slot EXCEPT ![w] = s]
  BY <1>2 DEF LockUser, IndInv, TypeOK
<1>4. /\ s.op = slot[w].op /\ s.pc = pc /\ s.u = slot[w].u /\ s.mode = "key"
      /\ s.marked = slot[w].marked /\ s.t = slot[w].t /\ s.addr = slot[w].addr
      /\ s.new = slot[w].new /\ s.op \in {"role", "change"}
  BY <1>1, <1>2 DEF Slot, OwnInv, SlotInv
<1>5. SlotInv(s) /\ ~Demoting(s)
  BY <1>1, <1>4 DEF OwnInv, SlotInv, Demoting, ByToken
<1>6. OwnInv(s)
  BY <1>1, <1>4, <1>5 DEF OwnInv, LockInv, MarkInv, KillInv, LockUser, Writable
<1>7. \A x \in Slots \ {w} : Apart(s, slot[x])
  BY <1>4 DEF IndInv, SlotsInv, Apart, LockUser, UserLocked
<1> QED
  BY <1>3, <1>5, <1>6, <1>7, PlainStep DEF LockUser

LEMMA UseTokenInv ==
    ASSUME IndInv, NEW w \in Slots, UseToken(w)
    PROVE  IndInv'
<1>1. slot[w] \in Slot /\ OwnInv(slot[w]) /\ slot[w].pc = "token"
  BY DEF IndInv, TypeOK, SlotsInv, UseToken, At
<1>2. slot[w].t \in Tokens /\ token[slot[w].t] # None /\ ByToken(slot[w].op)
  BY <1>1 DEF OwnInv, SlotInv
<1>3. PICK s \in Slot : s = [slot[w] EXCEPT !.marked = {slot[w].t}, !.pc = "user"]
  BY <1>1, <1>2 DEF Slot
<1>4. slot' = [slot EXCEPT ![w] = s]
  BY <1>3 DEF UseToken, IndInv, TypeOK
<1>5. /\ s.op = slot[w].op /\ s.pc = "user" /\ s.u = slot[w].u /\ s.mode = slot[w].mode
      /\ s.marked = {slot[w].t} /\ s.t = slot[w].t /\ s.addr = slot[w].addr
      /\ s.new = slot[w].new
  BY <1>1, <1>3 DEF Slot
<1>6. SlotInv(s) /\ ~Demoting(s)
  BY <1>1, <1>2, <1>5 DEF OwnInv, SlotInv, Demoting, ByToken
<1>7. OwnInv(s)
  BY <1>1, <1>2, <1>5, <1>6 DEF OwnInv, LockInv, MarkInv, KillInv, UseToken, ByToken
<1>8. \A x \in Slots \ {w} : Apart(s, slot[x])
  BY <1>5 DEF IndInv, SlotsInv, Apart, UseToken, TokensLocked
<1> QED
  BY <1>4, <1>6, <1>7, <1>8, PlainStep DEF UseToken

LEMMA UpdateUserInv ==
    ASSUME IndInv, NEW w \in Slots, UpdateUser(w)
    PROVE  IndInv'
<1> DEFINE pc == IF Revokes(slot[w].op) = {} THEN "commit" ELSE "revoke"
           mode == IF slot[w].op \in {"change", "delete"} THEN "key" ELSE "nokey"
<1>1. slot[w] \in Slot /\ OwnInv(slot[w]) /\ slot[w].pc = "user"
  BY DEF IndInv, TypeOK, SlotsInv, UpdateUser, At
<1>2. PICK s \in Slot : s = [slot[w] EXCEPT !.mode = mode, !.pc = pc]
  BY <1>1 DEF Slot
<1>3. slot' = [slot EXCEPT ![w] = s]
  BY <1>2 DEF UpdateUser, IndInv, TypeOK
<1>4. /\ s.op = slot[w].op /\ s.pc = pc /\ s.u = slot[w].u /\ s.mode # "none"
      /\ s.marked = slot[w].marked /\ s.t = slot[w].t /\ s.addr = slot[w].addr
      /\ s.new = slot[w].new /\ s.op \notin {"none", "send", "role"}
  <2>1. slot[w].op \notin {"none", "send", "role"}
    BY <1>1 DEF OwnInv, SlotInv
  <2>2. mode \in {"key", "nokey"}
    OBVIOUS
  <2> HIDE DEF mode, pc
  <2> QED
    BY <1>1, <1>2, <2>1, <2>2 DEF Slot
<1>5. SlotInv(s) /\ ~Demoting(s)
  BY <1>1, <1>4 DEF OwnInv, SlotInv, Demoting, ByToken
<1>6. KillInv(s)
  BY <1>4 DEF KillInv, Doomed, Unused
<1>7. OwnInv(s)
  BY <1>1, <1>4, <1>5, <1>6 DEF OwnInv, LockInv, MarkInv, UpdateUser, Writable
<1>8. \A x \in Slots \ {w} : Apart(s, slot[x])
  BY <1>4 DEF IndInv, SlotsInv, Apart, UpdateUser, UserLocked
<1> QED
  BY <1>3, <1>5, <1>7, <1>8, PlainStep DEF UpdateUser

\* The count shows another administrator, and no other demotion is about to
\* commit unless the history knows of it.
LEMMA CountAdminsInv ==
    ASSUME IndInv, NEW w \in Slots, CountAdmins(w)
    PROVE  IndInv'
<1>1. slot[w] \in Slot /\ OwnInv(slot[w]) /\ slot[w].pc = "count"
  BY DEF IndInv, TypeOK, SlotsInv, CountAdmins, At
<1>2. PICK s \in Slot : s = [slot[w] EXCEPT !.pc = "commit"]
  BY <1>1 DEF Slot
<1>3. slot' = [slot EXCEPT ![w] = s]
  BY <1>2 DEF CountAdmins, Goto, IndInv, TypeOK
<1>4. /\ s.op = slot[w].op /\ s.pc = "commit" /\ s.u = slot[w].u /\ s.mode = slot[w].mode
      /\ s.marked = slot[w].marked /\ s.t = slot[w].t /\ s.op = "role"
  BY <1>1, <1>2 DEF Slot, OwnInv, SlotInv
<1>5. SlotInv(s)
  BY <1>1, <1>4 DEF OwnInv, SlotInv, ByToken
<1>6. KillInv(s)
  BY <1>4 DEF KillInv, Doomed, Unused, Revokes
<1>7. OwnInv(s)
  BY <1>1, <1>4, <1>5, <1>6 DEF OwnInv, LockInv, MarkInv
<1>8. \A x \in Slots \ {w} : Apart(s, slot[x])
  BY <1>4 DEF IndInv, SlotsInv, Apart
<1>9. adminRace' \in BOOLEAN /\ (adminRace => adminRace')
  <2>1. CASE slot[w].u \in AdminSet /\ \E x \in Slots \ {w} : Demoting(slot[x])
    BY <2>1 DEF CountAdmins
  <2>2. CASE ~(slot[w].u \in AdminSet /\ \E x \in Slots \ {w} : Demoting(slot[x]))
    BY <2>2 DEF CountAdmins, IndInv, TypeOK
  <2> QED
    BY <2>1, <2>2
<1>10. ~adminRace' /\ Demoting(s) => \A x \in Slots \ {w} : ~Demoting(slot[x])
  <2> SUFFICES ASSUME ~adminRace', Demoting(s) PROVE \A x \in Slots \ {w} : ~Demoting(slot[x])
    OBVIOUS
  <2>1. slot[w].u \in AdminSet
    BY <1>4 DEF Demoting
  <2> QED
    BY <2>1 DEF CountAdmins
<1>11. s.u \in AdminSet => \E u \in AdminSet : u # s.u
  <2> SUFFICES ASSUME s.u \in AdminSet, \A u \in AdminSet : u = s.u PROVE FALSE
    OBVIOUS
  <2>1. AdminSet = {s.u}
    OBVIOUS
  <2>2. Cardinality(AdminSet) = 1
    BY <2>1, FS_Singleton
  <2> QED
    BY <1>4, <2>2 DEF CountAdmins, MayDemote
<1>12. ~adminRace' /\ Demoting(s) => \E u \in AdminSet : u # s.u
  BY <1>11 DEF Demoting
<1>13. UNCHANGED <<user, token, proven>>
  BY DEF CountAdmins
<1> QED
  BY <1>3, <1>7, <1>8, <1>9, <1>10, <1>12, <1>13, SlotStep

-----------------------------------------------------------------------------
(* Steps that change the tables.                                           *)

\* A token row that was there stays, and is never unused again.
KeptRow(t) ==
    token[t] # None =>
        /\ token'[t] # None
        /\ token'[t].user = token[t].user /\ token'[t].kind = token[t].kind
        /\ token'[t].addr = token[t].addr /\ token'[t].new = token[t].new
        /\ token'[t].epoch = token[t].epoch /\ token'[t].late = token[t].late
        /\ token'[t].state = token[t].state \/ token'[t].state # "unused"

\* A users row that was there stays; the address of an unverified one, too.
KeptUser(u) ==
    user[u] # None =>
        /\ user'[u] # None
        /\ Unverified(u)' => Unverified(u) /\ user'[u].email = user[u].email

\* What another request relies on survives the step.
Respected(s) ==
    /\ \A t \in s.marked : token'[t].state = token[t].state
    /\ s.mode # "none" =>
          /\ user'[s.u].deleted = user[s.u].deleted
          /\ \A t \in Tokens : token[t] = None /\ token'[t] # None =>
                token'[t].late \/ token'[t].user # s.u \/ token'[t].kind \notin Revokes(s.op)

LEMMA OtherStands ==
    ASSUME IndInv, NEW x \in Slots, slot'[x] = slot[x], Respected(slot[x]),
           \A t \in Tokens : KeptRow(t), \A u \in Users : KeptUser(u)
    PROVE  OwnInv(slot[x])'
<1> DEFINE s == slot[x]
<1>1. OwnInv(s) /\ s \in Slot /\ slot'[x] = s
  BY DEF IndInv, SlotsInv, TypeOK
<1>2. s.marked \subseteq Tokens
  BY <1>1 DEF Slot
<1>3. PICK q \in Slot : q = slot[x]
  BY <1>1
<1>4. SlotInv(q)'
  BY <1>1, <1>3 DEF OwnInv, SlotInv, KeptRow, KeptUser, ByToken
<1>5. LockInv(q)' /\ MarkInv(q)'
  BY <1>1, <1>2, <1>3 DEF OwnInv, LockInv, MarkInv, Respected, KeptRow
<1>6. KillInv(q)'
  <2> SUFFICES ASSUME NEW t \in Tokens, Doomed(q, t)',
                      q.pc = "commit" \/ (q.pc = "mark" /\ q.op # "send")
               PROVE  Doomed(q, t)
    BY <1>1, <1>3 DEF OwnInv, KillInv
  <2>1. q.mode # "none"
    BY <1>1, <1>3 DEF OwnInv, SlotInv
  <2>2. /\ token'[t] # None /\ token'[t].user = q.u /\ token'[t].kind \in Revokes(q.op)
        /\ token'[t].state = "unused" /\ ~token'[t].late
    BY DEF Doomed, Unused
  <2>3. token[t] # None
    BY <1>3, <2>1, <2>2 DEF Respected
  <2> QED
    BY <2>2, <2>3 DEF Doomed, Unused, KeptRow
<1>7. (q.op = "send" => Mailed(q.u, q.kind, q.addr, q.new))'
  <2>1. q.op = "send" => KeptUser(q.u) /\ user[q.u] # None
    BY <1>1, <1>3 DEF OwnInv, SlotInv
  <2> QED
    BY <1>1, <1>3, <2>1 DEF OwnInv, Mailed, KeptUser
<1>8. OwnInv(q)'
  BY <1>4, <1>5, <1>6, <1>7 DEF OwnInv
<1> QED
  BY <1>1, <1>3, <1>8

\* A request that ends its transaction, or has only its mail to send.
LEMMA TableStep ==
    ASSUME IndInv, NEW w \in Slots, NEW s \in Slot, slot' = [slot EXCEPT ![w] = s],
           s.mode = "none", s.marked = {}, OwnInv(s)',
           \A x \in Slots \ {w} : Respected(slot[x]),
           \A t \in Tokens : KeptRow(t), \A u \in Users : KeptUser(u)
    PROVE  /\ SlotsInv' /\ slot' \in [Slots -> Slot]
           /\ \A x \in Slots : slot'[x] = IF x = w THEN s ELSE slot[x]
<1>1. /\ \A x \in Slots : slot'[x] = IF x = w THEN s ELSE slot[x]
      /\ slot' \in [Slots -> Slot]
  BY DEF IndInv, TypeOK
<1>2. ASSUME NEW x \in Slots PROVE OwnInv(slot[x])'
  <2>1. CASE x = w
    BY <1>1, <2>1
  <2>2. CASE x # w
    BY <1>1, <2>2, OtherStands
  <2> QED
    BY <2>1, <2>2
<1>3. ASSUME NEW x \in Slots, NEW y \in Slots, x # y PROVE Apart(slot[x], slot[y])'
  BY <1>1, <1>3 DEF IndInv, SlotsInv, Apart
<1> QED
  BY <1>1, <1>2, <1>3 DEF SlotsInv

LEMMA IdleFitsNext == OwnInv(IdleSlot)' /\ IdleSlot.mode = "none" /\ IdleSlot.marked = {}
<1>1. /\ IdleSlot.pc = "idle" /\ IdleSlot.op = "none" /\ IdleSlot.mode = "none"
      /\ IdleSlot.marked = {}
  BY DEF IdleSlot
<1> QED
  BY <1>1 DEF OwnInv, SlotInv, LockInv, MarkInv, KillInv, ByToken

\* Only slots and tokens change, no administrator counts.
LEMMA TokenStep ==
    ASSUME IndInv, NEW w \in Slots, NEW s \in Slot, slot' = [slot EXCEPT ![w] = s],
           s.mode = "none", s.marked = {}, OwnInv(s)', ~Demoting(s),
           \A x \in Slots \ {w} : Respected(slot[x]),
           \A t \in Tokens : KeptRow(t),
           token' \in [Tokens -> Token \cup {None}],
           \A t \in Tokens : token[t] = None /\ token'[t] # None =>
               /\ user[token'[t].user] # None
               /\ token'[t].epoch = Gen(token'[t].user, token'[t].kind)
               /\ Mailed(token'[t].user, token'[t].kind, token'[t].addr, token'[t].new),
           UNCHANGED <<user, proven, adminRace>>
    PROVE  IndInv'
<1>1. \A u \in Users : KeptUser(u)
  BY DEF KeptUser, Unverified, Active
<1>2. /\ SlotsInv' /\ slot' \in [Slots -> Slot]
      /\ \A x \in Slots : slot'[x] = IF x = w THEN s ELSE slot[x]
  BY <1>1, TableStep
<1>3. TypeOK'
  <2>1. adminRace' \in BOOLEAN
    BY DEF IndInv, TypeOK
  <2> QED
    BY <1>2, <2>1 DEF IndInv, TypeOK
<1>4. TokenInv'
  <2> SUFFICES ASSUME NEW t \in Tokens, token'[t] # None
               PROVE  /\ user'[token'[t].user] # None
                      /\ token'[t].state = "unused" => Fresh(t)'
                      /\ Mailed(token[t].user, token[t].kind, token[t].addr, token[t].new)'
    BY DEF TokenInv
  <2>1. CASE token[t] = None
    BY <2>1 DEF Fresh, Gen, Mailed, Unverified, Active
  <2>2. CASE token[t] # None
    <3>1. /\ user[token[t].user] # None /\ (token[t].state = "unused" => Fresh(t))
          /\ Mailed(token[t].user, token[t].kind, token[t].addr, token[t].new)
      BY <2>2 DEF IndInv, TokenInv
    <3>2. /\ token'[t].user = token[t].user /\ token'[t].kind = token[t].kind
          /\ token'[t].addr = token[t].addr /\ token'[t].new = token[t].new
          /\ token'[t].epoch = token[t].epoch /\ token'[t].late = token[t].late
          /\ token'[t].state = token[t].state \/ token'[t].state # "unused"
      BY <2>2 DEF KeptRow
    <3> QED
      BY <3>1, <3>2 DEF Fresh, Gen, Mailed, Unverified, Active
  <2> QED
    BY <2>1, <2>2
<1>5. VerifiedByMail' /\ AdminSet' = AdminSet
  BY DEF IndInv, VerifiedByMail, AdminSet, Active
<1>6. AdminInv'
  BY <1>2, <1>5 DEF IndInv, AdminInv, Demoting
<1> QED
  BY <1>2, <1>3, <1>4, <1>5, <1>6 DEF IndInv

LEMMA MailTokenInv ==
    ASSUME IndInv, NEW w \in Slots, MailToken(w)
    PROVE  IndInv'
<1>1. PICK t \in Tokens : t = slot[w].t /\ token[t] # None /\ token[t] \in Token
  BY DEF MailToken, At, IndInv, SlotsInv, OwnInv, SlotInv, TypeOK
<1>2. PICK row \in Token : row = [token[t] EXCEPT !.mailed = TRUE]
  BY <1>1 DEF Token
<1>3. /\ row # None /\ row.user = token[t].user /\ row.kind = token[t].kind
      /\ row.addr = token[t].addr /\ row.new = token[t].new
      /\ row.epoch = token[t].epoch /\ row.late = token[t].late /\ row.state = token[t].state
  BY <1>1, <1>2, RowsAssumption DEF Token
<1>4. token' = [token EXCEPT ![t] = row]
  BY <1>1, <1>2 DEF MailToken, IndInv, TypeOK
<1>5. /\ token' \in [Tokens -> Token \cup {None}]
      /\ \A y \in Tokens : token'[y] = IF y = t THEN row ELSE token[y]
  BY <1>4 DEF IndInv, TypeOK
<1>6. \A y \in Tokens : KeptRow(y)
  BY <1>1, <1>3, <1>5 DEF KeptRow
<1>7. \A x \in Slots \ {w} : Respected(slot[x])
  <2> TAKE x \in Slots \ {w}
  <2>1. slot[x].marked \subseteq Tokens
    BY DEF IndInv, TypeOK, Slot
  <2> QED
    BY <1>1, <1>3, <1>5, <2>1 DEF Respected, MailToken
<1>8. slot' = [slot EXCEPT ![w] = IdleSlot] /\ UNCHANGED <<user, proven, adminRace>>
  BY DEF MailToken
<1> QED
  BY <1>1, <1>5, <1>6, <1>7, <1>8, IdleFits, IdleFitsNext, TokenStep

\* The rows that are revoked belong to nobody else's transaction.
LEMMA MailFailsInv ==
    ASSUME IndInv, NEW w \in Slots, MailFails(w)
    PROVE  IndInv'
<1> DEFINE S == Unused(slot[w].u, {slot[w].kind})
<1>1. /\ ~TokensLocked(w, S)
      /\ token' = [x \in Tokens |-> IF x \in S THEN [token[x] EXCEPT !.state = "used"]
                                    ELSE token[x]]
      /\ slot' = [slot EXCEPT ![w] = IdleSlot] /\ UNCHANGED <<user, proven, adminRace>>
  BY DEF MailFails
<1>2. \A y \in Tokens : y \in S => token[y] \in Token /\ token[y] # None
  BY DEF Unused, IndInv, TypeOK
<1>3. \A y \in Tokens :
        y \in S => /\ token'[y] \in Token /\ token'[y] # None
                   /\ token'[y].user = token[y].user /\ token'[y].kind = token[y].kind
                   /\ token'[y].addr = token[y].addr /\ token'[y].new = token[y].new
                   /\ token'[y].epoch = token[y].epoch /\ token'[y].late = token[y].late
                   /\ token'[y].state = "used"
  <2> SUFFICES ASSUME NEW y \in Tokens, y \in S
               PROVE  /\ token'[y] \in Token /\ token'[y] # None
                      /\ token'[y].user = token[y].user /\ token'[y].kind = token[y].kind
                      /\ token'[y].addr = token[y].addr /\ token'[y].new = token[y].new
                      /\ token'[y].epoch = token[y].epoch /\ token'[y].late = token[y].late
                      /\ token'[y].state = "used"
    OBVIOUS
  <2>1. token[y] \in Token /\ token'[y] = [token[y] EXCEPT !.state = "used"]
    BY <1>1, <1>2
  <2>2. token'[y] \in Token
    BY <2>1 DEF Token
  <2> QED
    BY <2>1, <2>2, RowsAssumption DEF Token
<1>4. \A y \in Tokens : y \notin S => token'[y] = token[y]
  BY <1>1
<1>5. token' \in [Tokens -> Token \cup {None}]
  <2>1. \A y \in Tokens : token'[y] \in Token \cup {None}
    BY <1>3, <1>4 DEF IndInv, TypeOK
  <2> QED
    BY <1>1, <2>1
<1>6. \A y \in Tokens : KeptRow(y)
  BY <1>3, <1>4 DEF KeptRow
<1>7. \A y \in Tokens : token[y] = None => token'[y] = None
  BY <1>2, <1>4
<1>8. \A x \in Slots \ {w} : Respected(slot[x])
  <2> TAKE x \in Slots \ {w}
  <2>1. slot[x].marked \subseteq Tokens /\ slot[x].marked \cap S = {}
    BY <1>1 DEF IndInv, TypeOK, Slot, TokensLocked
  <2> QED
    BY <1>1, <1>4, <1>7, <2>1 DEF Respected
<1> QED
  BY <1>1, <1>5, <1>6, <1>7, <1>8, IdleFits, IdleFitsNext, TokenStep

\* A token row stays as it is but for its state.
Spent(t, state) ==
    /\ token'[t] \in Token /\ token'[t] # None
    /\ token'[t].user = token[t].user /\ token'[t].kind = token[t].kind
    /\ token'[t].addr = token[t].addr /\ token'[t].new = token[t].new
    /\ token'[t].epoch = token[t].epoch /\ token'[t].late = token[t].late
    /\ token'[t].state = state

LEMMA SpentRow ==
    ASSUME NEW t \in Tokens, token[t] \in Token, NEW state \in {"used", "gone"},
           token'[t] = [token[t] EXCEPT !.state = state]
    PROVE  Spent(t, state)
<1>1. token'[t] \in Token
  BY DEF Token
<1> QED
  BY <1>1, RowsAssumption DEF Token, Spent

\* The new token is late for every transaction that should have killed it.
LEMMA StoreTokenInv ==
    ASSUME IndInv, NEW w \in Slots, NEW t \in Tokens, StoreToken(w, t)
    PROVE  IndInv'
<1>1. PICK q \in Slot : /\ q = slot[w] /\ OwnInv(q) /\ q.pc = "insert" /\ q.op = "send"
                        /\ q.u \in Users /\ user[q.u] # None /\ q.mode = "none"
                        /\ q.addr \in Emails /\ q.new \in Emails /\ q.kind \in Kinds
                        /\ q.marked \subseteq Tokens
  BY DEF IndInv, TypeOK, SlotsInv, StoreToken, At, OwnInv, SlotInv, Slot
<1>2. PICK late \in BOOLEAN :
        late = \E v \in Slots \ {w} : /\ slot[v].u = q.u /\ slot[v].mode # "none"
                                      /\ q.kind \in Revokes(slot[v].op)
  OBVIOUS
<1>3. PICK row \in Token : row = NewToken(q.u, q.kind, q.addr, q.new, late)
  <2>1. user[q.u] \in User
    BY <1>1 DEF IndInv, TypeOK
  <2>2. Gen(q.u, q.kind) \in 0..MaxChanges
    BY <1>1, <2>1, ConstantsAssumption DEF User, Gen, Kinds
  <2> QED
    BY <1>1, <2>2 DEF NewToken, Token
<1>4. /\ row # None /\ row.user = q.u /\ row.kind = q.kind /\ row.addr = q.addr
      /\ row.new = q.new /\ row.epoch = Gen(q.u, q.kind) /\ row.late = late
  BY <1>3, RowsAssumption DEF NewToken
<1>5. /\ token[t] = None
      /\ token' = [x \in Tokens |-> IF x = t THEN row
                                    ELSE IF x \in q.marked THEN [token[x] EXCEPT !.state = "used"]
                                    ELSE token[x]]
  BY <1>1, <1>2, <1>3 DEF StoreToken
<1>6. \A y \in q.marked : token[y] \in Token /\ token[y] # None /\ y \in Tokens /\ y # t
  BY <1>1, <1>5 DEF OwnInv, MarkInv, IndInv, TypeOK
<1>7. \A y \in q.marked : Spent(y, "used")
  BY <1>5, <1>6, SpentRow
<1>8. token'[t] = row /\ \A y \in Tokens \ (q.marked \cup {t}) : token'[y] = token[y]
  BY <1>5
<1>9. token' \in [Tokens -> Token \cup {None}]
  <2>1. \A y \in Tokens : token'[y] \in Token \cup {None}
    BY <1>7, <1>8 DEF IndInv, TypeOK, Spent
  <2> QED
    BY <1>5, <2>1
<1>10. \A y \in Tokens : KeptRow(y)
  BY <1>5, <1>7, <1>8 DEF KeptRow, Spent
<1>11. \A y \in Tokens : token[y] = None /\ token'[y] # None => y = t
  BY <1>6, <1>8
<1>12. \A x \in Slots \ {w} : Respected(slot[x])
  <2> TAKE x \in Slots \ {w}
  <2>1. slot[x].marked \subseteq Tokens \ (q.marked \cup {t})
    BY <1>1, <1>5 DEF IndInv, TypeOK, Slot, SlotsInv, Apart, OwnInv, MarkInv
  <2>2. slot[x].mode # "none" => late \/ q.u # slot[x].u \/ q.kind \notin Revokes(slot[x].op)
    BY <1>2
  <2>3. UNCHANGED user
    BY DEF StoreToken
  <2> QED
    BY <1>4, <1>8, <1>11, <2>1, <2>2, <2>3 DEF Respected
<1>13. PICK s \in Slot : s = [q EXCEPT !.t = t, !.marked = {}, !.pc = "mail"]
  BY <1>1 DEF Slot
<1>14. /\ s.op = "send" /\ s.pc = "mail" /\ s.u = q.u /\ s.mode = "none" /\ s.marked = {}
       /\ s.t = t /\ s.addr = q.addr /\ s.new = q.new /\ s.kind = q.kind
  BY <1>1, <1>13 DEF Slot
<1>15. slot' = [slot EXCEPT ![w] = s] /\ UNCHANGED <<user, proven, adminRace>>
  BY <1>1, <1>13 DEF StoreToken, IndInv, TypeOK
<1>16. Mailed(q.u, q.kind, q.addr, q.new)
  BY <1>1 DEF OwnInv
<1>17. OwnInv(s)' /\ ~Demoting(s)
  <2>1. SlotInv(s)'
    BY <1>1, <1>4, <1>8, <1>14, <1>15 DEF SlotInv, ByToken
  <2> QED
    BY <1>14, <1>15, <1>16, <2>1 DEF OwnInv, LockInv, MarkInv, KillInv, Mailed, Unverified,
                                     Active, Demoting
<1>18. \A y \in Tokens : token[y] = None /\ token'[y] # None =>
          /\ user[token'[y].user] # None
          /\ token'[y].epoch = Gen(token'[y].user, token'[y].kind)
          /\ Mailed(token'[y].user, token'[y].kind, token'[y].addr, token'[y].new)
  BY <1>1, <1>4, <1>8, <1>11, <1>16
<1> QED
  BY <1>9, <1>10, <1>12, <1>14, <1>15, <1>17, <1>18, TokenStep

\* A new account has no requests or links from before.
LEMMA RegisterInv ==
    ASSUME IndInv, NEW w \in Slots, NEW u \in Users, NEW e \in Emails, NEW t \in Tokens,
           Register(w, u, e, t)
    PROVE  IndInv'
<1>1. PICK acc \in User :
        acc = [email |-> e, verified |-> FALSE, role |-> "user", deleted |-> FALSE,
               gen |-> [k \in {"reset", "change"} |-> 0]]
  <2>1. 0 \in 0..MaxChanges
    BY ConstantsAssumption
  <2>2. [email |-> e, verified |-> FALSE, role |-> "user", deleted |-> FALSE,
         gen |-> [k \in {"reset", "change"} |-> 0]] \in User
    BY <2>1 DEF User
  <2> QED
    BY <2>2
<1>2. PICK row \in Token :
        row = [user |-> u, kind |-> "verify", addr |-> e, new |-> e,
               mailed |-> FALSE, state |-> "unused", epoch |-> 0, late |-> FALSE]
  <2>1. 0 \in 0..MaxChanges
    BY ConstantsAssumption
  <2>2. [user |-> u, kind |-> "verify", addr |-> e, new |-> e, mailed |-> FALSE,
         state |-> "unused", epoch |-> 0, late |-> FALSE] \in Token
    BY <2>1 DEF Token, Kinds
  <2> QED
    BY <2>2
<1>3. PICK s \in Slot : s = [Request("send", u, "mail") EXCEPT !.t = t, !.addr = e, !.new = e]
  <2>1. Request("send", u, "mail") \in Slot
    BY DEF Request, IdleSlot, Slot, Kinds
  <2> QED
    BY <2>1 DEF Slot
<1>4. /\ user[u] = None /\ token[t] = None
      /\ user' = [user EXCEPT ![u] = acc] /\ token' = [token EXCEPT ![t] = row]
      /\ slot' = [slot EXCEPT ![w] = s] /\ UNCHANGED <<proven, adminRace>>
  BY <1>1, <1>2, <1>3 DEF Register
<1>5. /\ acc # None /\ acc.email = e /\ ~acc.verified /\ acc.role = "user" /\ ~acc.deleted
      /\ row # None /\ row.user = u /\ row.kind = "verify" /\ row.addr = e /\ row.new = e
      /\ row.state = "unused" /\ row.epoch = 0 /\ ~row.late
  BY <1>1, <1>2, RowsAssumption
<1>6. /\ s.op = "send" /\ s.pc = "mail" /\ s.u = u /\ s.mode = "none" /\ s.marked = {}
      /\ s.t = t /\ s.addr = e /\ s.new = e /\ s.kind = "verify"
  BY <1>3 DEF Request, IdleSlot
<1>7. /\ user' \in [Users -> User \cup {None}] /\ token' \in [Tokens -> Token \cup {None}]
      /\ \A v \in Users : user'[v] = IF v = u THEN acc ELSE user[v]
      /\ \A y \in Tokens : token'[y] = IF y = t THEN row ELSE token[y]
  BY <1>4 DEF IndInv, TypeOK
<1>8. /\ \A y \in Tokens : KeptRow(y)
      /\ \A v \in Users : KeptUser(v)
  BY <1>4, <1>7 DEF KeptRow, KeptUser, Unverified, Active
<1>9. \A x \in Slots \ {w} : Respected(slot[x])
  <2> TAKE x \in Slots \ {w}
  <2>1. /\ slot[x].marked \subseteq Tokens \ {t}
        /\ slot[x].mode # "none" => slot[x].u \in Users \ {u}
    BY <1>4 DEF IndInv, TypeOK, Slot, SlotsInv, OwnInv, SlotInv, MarkInv
  <2> QED
    BY <1>4, <1>5, <1>7, <2>1 DEF Respected
<1>10. OwnInv(s)'
  <2>1. SlotInv(s)'
    BY <1>5, <1>6, <1>7 DEF SlotInv, ByToken
  <2>2. Mailed(u, "verify", e, e)'
    BY <1>5, <1>7 DEF Mailed
  <2>3. Mailed(s.u, s.kind, s.addr, s.new)'
    BY <1>6, <2>2
  <2> QED
    BY <1>6, <2>1, <2>3 DEF OwnInv, LockInv, MarkInv, KillInv
<1>11. /\ SlotsInv' /\ slot' \in [Slots -> Slot]
       /\ \A x \in Slots : slot'[x] = IF x = w THEN s ELSE slot[x]
  BY <1>4, <1>6, <1>8, <1>9, <1>10, TableStep
<1>12. TypeOK'
  <2>1. adminRace' \in BOOLEAN
    BY <1>4 DEF IndInv, TypeOK
  <2>2. \A v \in Users : user'[v] # None => (user'[v].deleted <=> user'[v].email = None)
    BY <1>5, <1>7, ConstantsAssumption DEF IndInv, TypeOK
  <2> QED
    BY <1>4, <1>7, <1>11, <2>1, <2>2 DEF IndInv, TypeOK
<1>13. TokenInv'
  <2> SUFFICES ASSUME NEW y \in Tokens, token'[y] # None
               PROVE  /\ user'[token'[y].user] # None
                      /\ token'[y].state = "unused" => Fresh(y)'
                      /\ Mailed(token[y].user, token[y].kind, token[y].addr, token[y].new)'
    BY DEF TokenInv
  <2>1. CASE y = t
    BY <1>5, <1>7, <2>1 DEF Fresh, Gen, Mailed
  <2>2. CASE y # t
    <3>1. token'[y] = token[y] /\ token[y] # None
      BY <1>7, <2>2
    <3>2. token[y].user \in Users /\ user[token[y].user] # None
      BY <3>1 DEF IndInv, TypeOK, TokenInv, Token
    <3>3. user'[token[y].user] = user[token[y].user]
      BY <1>4, <1>7, <3>2
    <3> QED
      BY <3>1, <3>2, <3>3 DEF IndInv, TokenInv, Fresh, Gen, Mailed, Unverified, Active
  <2> QED
    BY <2>1, <2>2
<1>14. VerifiedByMail'
  BY <1>4, <1>5, <1>7 DEF IndInv, VerifiedByMail, Active
<1>15. AdminSet' = AdminSet
  BY <1>4, <1>5, <1>7 DEF AdminSet, Active
<1>16. AdminInv'
  BY <1>4, <1>6, <1>11, <1>15 DEF IndInv, AdminInv, Demoting
<1> QED
  BY <1>11, <1>12, <1>13, <1>14, <1>16 DEF IndInv

-----------------------------------------------------------------------------
(* The commit.                                                             *)

Mods == {"verify", "reset", "password", "change", "role", "delete"}

\* What a commit does to the users row, field by field.
LEMMA WrittenRow ==
    ASSUME NEW w \in Slots, NEW u \in Users, slot[w].u = u, user[u] \in User, ~user[u].deleted,
           slot[w].op \in Mods, slot[w].op = "change" => slot[w].new \in Emails,
           Bounded(Written(w))
    PROVE  /\ Written(w) \in User /\ Written(w) # None
           /\ Written(w).deleted <=> slot[w].op = "delete"
           /\ Written(w).email = IF slot[w].op = "delete" THEN None
                                 ELSE IF slot[w].op = "change" THEN slot[w].new
                                 ELSE user[u].email
           /\ slot[w].op \in {"verify", "reset", "change"} => Written(w).verified
           /\ slot[w].op \in {"password", "role"} => Written(w).verified = user[u].verified
           /\ slot[w].op # "role" => Written(w).role = user[u].role
           /\ \A k \in {"reset", "change"} : k \notin Revokes(slot[w].op)
                 => Written(w).gen[k] = user[u].gen[k]
<1> DEFINE old == user[u]
<1>1. /\ old.email \in Emails \cup {None} /\ old.verified \in BOOLEAN /\ old.deleted \in BOOLEAN
      /\ old.role \in {"admin", "user"} /\ old.gen \in [{"reset", "change"} -> 0..MaxChanges]
  BY DEF User
<1>2. CASE slot[w].op = "verify"
  <2>1. Written(w) = [old EXCEPT !.verified = TRUE]
    BY <1>2 DEF Written
  <2>2. Written(w) \in User
    BY <2>1 DEF User
  <2> QED
    BY <1>2, <2>1, <2>2, RowsAssumption DEF User
<1>3. CASE slot[w].op = "role"
  <2>1. Written(w) = [old EXCEPT !.role = IF @ = "admin" THEN "user" ELSE "admin"]
    BY <1>3 DEF Written
  <2>2. Written(w) \in User
    BY <2>1 DEF User
  <2> QED
    BY <1>3, <2>1, <2>2, RowsAssumption DEF User
<1>4. CASE slot[w].op = "delete"
  <2>1. Written(w) = [old EXCEPT !.deleted = TRUE, !.email = None, !.verified = FALSE]
    BY <1>4 DEF Written, Anonymized
  <2>2. Written(w) \in User
    BY <2>1 DEF User
  <2> QED
    BY <1>4, <2>1, <2>2, RowsAssumption DEF User
<1>5. ASSUME NEW k \in {"reset", "change"}, NEW g,
             g = [old.gen EXCEPT ![k] = @ + 1], \A j \in DOMAIN g : g[j] <= MaxChanges
      PROVE  /\ g \in [{"reset", "change"} -> 0..MaxChanges]
             /\ \A j \in {"reset", "change"} : j # k => g[j] = old.gen[j]
  BY <1>1, <1>5, ConstantsAssumption
<1>6. CASE slot[w].op = "reset"
  <2>1. PICK g : g = [old.gen EXCEPT !["reset"] = @ + 1]
    OBVIOUS
  <2>2. Written(w) = [old EXCEPT !.verified = TRUE, !.gen = g]
    BY <1>6, <2>1 DEF Written, User
  <2>3. \A j \in DOMAIN g : g[j] <= MaxChanges
    BY <2>2 DEF Bounded, User
  <2>4. /\ g \in [{"reset", "change"} -> 0..MaxChanges] /\ g["change"] = old.gen["change"]
    BY <1>5, <2>1, <2>3
  <2>5. Written(w) \in User
    BY <2>2, <2>4 DEF User
  <2> QED
    BY <1>6, <2>2, <2>4, <2>5, RowsAssumption DEF User, Revokes
<1>7. CASE slot[w].op = "password"
  <2>1. PICK g : g = [old.gen EXCEPT !["reset"] = @ + 1]
    OBVIOUS
  <2>2. Written(w) = [old EXCEPT !.gen = g]
    BY <1>7, <2>1 DEF Written, User
  <2>3. \A j \in DOMAIN g : g[j] <= MaxChanges
    BY <2>2 DEF Bounded, User
  <2>4. /\ g \in [{"reset", "change"} -> 0..MaxChanges] /\ g["change"] = old.gen["change"]
    BY <1>5, <2>1, <2>3
  <2>5. Written(w) \in User
    BY <2>2, <2>4 DEF User
  <2> QED
    BY <1>7, <2>2, <2>4, <2>5, RowsAssumption DEF User, Revokes
<1>8. CASE slot[w].op = "change"
  <2>1. PICK g : g = [old.gen EXCEPT !["change"] = @ + 1]
    OBVIOUS
  <2>2. Written(w) = [old EXCEPT !.verified = TRUE, !.email = slot[w].new, !.gen = g]
    BY <1>8, <2>1 DEF Written, User
  <2>3. \A j \in DOMAIN g : g[j] <= MaxChanges
    BY <2>2 DEF Bounded, User
  <2>4. /\ g \in [{"reset", "change"} -> 0..MaxChanges] /\ g["reset"] = old.gen["reset"]
    BY <1>5, <2>1, <2>3
  <2>5. Written(w) \in User
    BY <1>8, <2>2, <2>4 DEF User
  <2> QED
    BY <1>8, <2>2, <2>4, <2>5, RowsAssumption DEF User, Revokes
<1> QED
  BY <1>2, <1>3, <1>4, <1>6, <1>7, <1>8 DEF Mods

\* A commit kills every link it has to: those of a kind whose generation it
\* changes are marked or late.
LEMMA CommitInv ==
    ASSUME IndInv, NEW w \in Slots, Commit(w)
    PROVE  IndInv'
<1>1. PICK q \in Slot : /\ q = slot[w] /\ OwnInv(q) /\ q.pc = "commit" /\ q.op \in Mods
                        /\ q.u \in Users /\ user[q.u] # None /\ ~user[q.u].deleted
                        /\ q.marked \subseteq Tokens
  BY DEF IndInv, TypeOK, SlotsInv, Commit, At, OwnInv, SlotInv, LockInv, Slot, Mods
<1>2. /\ q.t = None \/ ByToken(q.op)
      /\ ByToken(q.op) => /\ q.t \in Tokens /\ token[q.t] # None /\ token[q.t] \in Token
                          /\ token[q.t].user = q.u /\ token[q.t].kind = q.op
                          /\ token[q.t].addr = q.addr /\ token[q.t].new = q.new
                          /\ q.addr \in Emails /\ q.new \in Emails /\ q.t # None
  BY <1>1, ConstantsAssumption DEF OwnInv, SlotInv, ByToken, IndInv, TypeOK, Token, Mods
<1>3. PICK old \in User : old = user[q.u]
  BY <1>1 DEF IndInv, TypeOK
<1>4. PICK row \in User :
        /\ row = Written(w) /\ row # None
        /\ row.deleted <=> q.op = "delete"
        /\ row.email = IF q.op = "delete" THEN None
                       ELSE IF q.op = "change" THEN q.new ELSE old.email
        /\ q.op \in {"verify", "reset", "change"} => row.verified
        /\ q.op \in {"password", "role"} => row.verified = old.verified
        /\ q.op # "role" => row.role = old.role
        /\ \A k \in {"reset", "change"} : k \notin Revokes(q.op) => row.gen[k] = old.gen[k]
  <2>1. slot[w].op = "change" => slot[w].new \in Emails
    BY <1>1, <1>2 DEF ByToken
  <2>2. Bounded(Written(w))
    BY DEF Commit
  <2> QED
    BY <1>1, <1>3, <2>1, <2>2, WrittenRow
<1>5. /\ user' = [user EXCEPT ![q.u] = row]
      /\ slot' = [slot EXCEPT ![w] = IdleSlot]
      /\ proven' = proven \cup (IF q.t = None THEN {} ELSE {<<q.u, q.addr>>})
      /\ adminRace' = (adminRace \/ (q.op = "delete" /\ old.role = "admin"))
  BY <1>1, <1>3, <1>4 DEF Commit
<1>6. /\ user' \in [Users -> User \cup {None}]
      /\ \A u \in Users : user'[u] = IF u = q.u THEN row ELSE user[u]
  BY <1>5 DEF IndInv, TypeOK
<1>7. PICK state \in {"used", "gone"} :
        token' = [t \in Tokens |-> IF t \in q.marked THEN [token[t] EXCEPT !.state = state]
                                   ELSE token[t]]
  BY <1>1 DEF Commit
<1>8. /\ \A t \in q.marked : Spent(t, state) /\ token[t] # None
      /\ \A t \in Tokens \ q.marked : token'[t] = token[t]
  <2>1. \A t \in q.marked : token[t] \in Token /\ token[t] # None /\ t \in Tokens
    BY <1>1 DEF OwnInv, MarkInv, IndInv, TypeOK
  <2> QED
    BY <1>7, <2>1, SpentRow
<1>9. token' \in [Tokens -> Token \cup {None}]
  <2>1. \A t \in Tokens : token'[t] \in Token \cup {None}
    BY <1>8 DEF Spent, IndInv, TypeOK
  <2> QED
    BY <1>7, <2>1
<1>10. \A t \in Tokens : KeptRow(t)
  BY <1>8 DEF KeptRow, Spent
<1>11. \A u \in Users : KeptUser(u)
  <2> SUFFICES ASSUME NEW u \in Users, user[u] # None PROVE KeptUser(u)
    BY DEF KeptUser
  <2>1. CASE u # q.u
    BY <1>6, <2>1 DEF KeptUser, Unverified, Active
  <2>2. CASE u = q.u
    BY <1>1, <1>3, <1>4, <1>6, <2>2 DEF KeptUser, Unverified, Active, Mods
  <2> QED
    BY <2>1, <2>2
<1>12. \A x \in Slots \ {w} : Respected(slot[x])
  <2> TAKE x \in Slots \ {w}
  <2>1. slot[x].marked \subseteq Tokens \ q.marked
    BY <1>1 DEF IndInv, TypeOK, Slot, SlotsInv, Apart
  <2>2. q.mode # "none"
    BY <1>1 DEF OwnInv, SlotInv
  <2>3. slot[x].mode # "none" => slot[x].u \in Users /\ slot[x].u # q.u
    BY <1>1, <2>2 DEF IndInv, SlotsInv, Apart, OwnInv, SlotInv
  <2> QED
    BY <1>6, <1>8, <2>1, <2>3 DEF Respected
<1>13. /\ SlotsInv' /\ slot' \in [Slots -> Slot]
       /\ \A x \in Slots : slot'[x] = IF x = w THEN IdleSlot ELSE slot[x]
  BY <1>5, <1>10, <1>11, <1>12, IdleFits, IdleFitsNext, TableStep
<1>14. TypeOK'
  <2>1. adminRace' \in BOOLEAN
    BY <1>5 DEF IndInv, TypeOK
  <2>2. proven' \subseteq Users \X Emails
    BY <1>1, <1>2, <1>5 DEF IndInv, TypeOK
  <2>3. \A u \in Users : user'[u] # None => (user'[u].deleted <=> user'[u].email = None)
    <3>1. old.email # None
      BY <1>1, <1>3 DEF IndInv, TypeOK
    <3>2. q.op = "change" => q.new # None
      BY <1>2, ConstantsAssumption DEF ByToken
    <3>3. row.deleted <=> row.email = None
      BY <1>4, <3>1, <3>2
    <3> QED
      BY <1>6, <3>3 DEF IndInv, TypeOK
  <2> QED
    BY <1>6, <1>9, <1>13, <2>1, <2>2, <2>3 DEF TypeOK
<1>15. TokenInv'
  <2> SUFFICES ASSUME NEW t \in Tokens, token'[t] # None
               PROVE  /\ user'[token'[t].user] # None
                      /\ token'[t].state = "unused" => Fresh(t)'
                      /\ Mailed(token[t].user, token[t].kind, token[t].addr, token[t].new)'
    BY DEF TokenInv
  <2>1. token[t] # None /\ token[t] \in Token /\ token[t].user \in Users /\ token[t].kind \in Kinds
    BY <1>8 DEF IndInv, TypeOK, Token
  <2>2. /\ user[token[t].user] # None /\ (token[t].state = "unused" => Fresh(t))
        /\ Mailed(token[t].user, token[t].kind, token[t].addr, token[t].new)
    BY <2>1 DEF IndInv, TokenInv
  <2>3. /\ token'[t].user = token[t].user /\ token'[t].kind = token[t].kind
        /\ token'[t].addr = token[t].addr /\ token'[t].new = token[t].new
        /\ token'[t].epoch = token[t].epoch /\ token'[t].late = token[t].late
    BY <1>10, <2>1 DEF KeptRow
  <2>4. KeptUser(token[t].user)
    BY <1>11, <2>1
  <2>5. Mailed(token[t].user, token[t].kind, token[t].addr, token[t].new)'
    BY <2>2, <2>3, <2>4 DEF Mailed, KeptUser
  <2>6. ASSUME token'[t].state = "unused" PROVE Fresh(t)'
    <3>1. t \notin q.marked /\ token[t].state = "unused" /\ Fresh(t)
      BY <1>8, <2>2, <2>6 DEF Spent
    <3>2. CASE token[t].user = q.u /\ token[t].kind \in Revokes(q.op)
      <4>1. token[t].late
        BY <1>1, <2>1, <3>1, <3>2 DEF OwnInv, KillInv, Doomed, Unused
      <4> QED
        BY <2>3, <4>1 DEF Fresh
    <3>3. CASE token[t].user = q.u /\ token[t].kind \notin Revokes(q.op)
      BY <1>3, <1>4, <1>6, <2>1, <2>3, <3>1, <3>3 DEF Fresh, Gen, Kinds
    <3>4. CASE token[t].user # q.u
      BY <1>6, <2>1, <2>3, <3>1, <3>4 DEF Fresh, Gen
    <3> QED
      BY <3>2, <3>3, <3>4
  <2> QED
    BY <2>2, <2>3, <2>4, <2>5, <2>6 DEF KeptUser
<1>16. VerifiedByMail'
  <2> SUFFICES ASSUME NEW u \in Users, user'[u] # None, ~user'[u].deleted, user'[u].verified
               PROVE  <<u, user'[u].email>> \in proven'
    BY DEF VerifiedByMail, Active
  <2>1. CASE u # q.u
    BY <1>5, <1>6, <2>1 DEF IndInv, VerifiedByMail, Active
  <2>2. CASE u = q.u /\ old.verified /\ q.op # "change"
    <3>1. row.email = old.email
      BY <1>4, <1>6, <2>2
    <3>2. <<u, old.email>> \in proven
      BY <1>1, <1>3, <2>2 DEF IndInv, VerifiedByMail, Active
    <3> QED
      BY <1>5, <1>6, <2>2, <3>1, <3>2
  <2>3. CASE u = q.u /\ (~old.verified \/ q.op = "change")
    <3>1. q.op \in {"verify", "reset", "change"}
      BY <1>1, <1>4, <1>6, <2>3 DEF Mods
    <3>2. Mailed(q.u, q.op, q.addr, q.new)
      BY <1>2, <3>1 DEF IndInv, TokenInv, ByToken
    <3>3. row.email = q.addr
      BY <1>1, <1>3, <1>4, <2>3, <3>1, <3>2 DEF Mailed, Unverified, Active
    <3> QED
      BY <1>2, <1>5, <1>6, <2>3, <3>1, <3>3 DEF ByToken
  <2> QED
    BY <2>1, <2>2, <2>3
<1>17. AdminInv'
  <2> SUFFICES ASSUME ~adminRace'
               PROVE  /\ AdminSet' # {}
                      /\ \A v, x \in Slots :
                            Demoting(slot[v])' /\ Demoting(slot[x])' => v = x
                      /\ \A v \in Slots :
                            Demoting(slot[v])' => \E u \in AdminSet' : u # slot'[v].u
    BY DEF AdminInv
  <2>1. ~adminRace /\ ~(q.op = "delete" /\ old.role = "admin")
    BY <1>5
  <2>2. /\ AdminSet # {}
        /\ \A v, x \in Slots : Demoting(slot[v]) /\ Demoting(slot[x]) => v = x
        /\ \A v \in Slots : Demoting(slot[v]) => \E u \in AdminSet : u # slot[v].u
    BY <2>1 DEF IndInv, AdminInv
  <2>3. /\ \A u \in Users : u # q.u => (u \in AdminSet' <=> u \in AdminSet)
        /\ AdminSet \subseteq Users /\ AdminSet' \subseteq Users
    BY <1>6 DEF AdminSet, Active
  <2>4. ASSUME NEW v \in Slots, Demoting(slot[v])'
        PROVE  /\ v # w /\ slot'[v] = slot[v] /\ slot[v].u # q.u
               /\ slot[v].u \in AdminSet /\ Demoting(slot[v])
    <3>1. v # w
      BY <1>13, <2>4, IdleFits DEF Demoting, IdleSlot
    <3>2. slot'[v] = slot[v]
      BY <1>13, <3>1
    <3>3. slot[v].op = "role" /\ slot[v].pc = "commit" /\ slot[v].u \in AdminSet'
      BY <2>4, <3>2 DEF Demoting
    <3>4. slot[v].mode # "none" /\ q.mode # "none"
      BY <1>1, <3>3 DEF IndInv, SlotsInv, OwnInv, SlotInv
    <3>5. slot[v].u # q.u
      BY <1>1, <3>1, <3>4 DEF IndInv, SlotsInv, Apart
    <3>6. slot[v].u \in AdminSet
      BY <2>3, <3>3, <3>5
    <3> QED
      BY <3>1, <3>2, <3>3, <3>5, <3>6 DEF Demoting
  <2>5. CASE q.u \in AdminSet' <=> q.u \in AdminSet
    <3>1. AdminSet' = AdminSet
      BY <2>3, <2>5
    <3> QED
      BY <2>2, <2>4, <3>1
  <2>6. CASE q.u \in AdminSet' /\ q.u \notin AdminSet
    <3>1. AdminSet \subseteq AdminSet'
      BY <2>3, <2>6
    <3> QED
      BY <2>2, <2>4, <2>6, <3>1
  <2>7. CASE q.u \notin AdminSet' /\ q.u \in AdminSet
    <3>1. q.op = "role"
      BY <1>1, <1>3, <1>4, <1>6, <2>1, <2>7 DEF AdminSet, Active
    <3>2. Demoting(slot[w])
      BY <1>1, <2>7, <3>1 DEF Demoting
    <3>3. \A v \in Slots : ~Demoting(slot[v])'
      BY <2>2, <2>4, <3>2
    <3>4. \E u \in AdminSet : u # q.u
      BY <1>1, <2>2, <3>2
    <3> QED
      BY <2>3, <3>3, <3>4
  <2> QED
    BY <2>5, <2>6, <2>7
<1> QED
  BY <1>13, <1>14, <1>15, <1>16, <1>17 DEF IndInv

-----------------------------------------------------------------------------
(* The theorems.                                                           *)

LEMMA InitInv == Init => IndInv
<1> SUFFICES ASSUME Init PROVE IndInv
  OBVIOUS
<1>1. PICK mail \in [Admins -> Emails] :
        /\ user = [u \in Users |-> IF u \in Admins
               THEN [email |-> mail[u], verified |-> TRUE, role |-> "admin",
                     deleted |-> FALSE, gen |-> [k \in {"reset", "change"} |-> 0]]
               ELSE None]
        /\ proven = {<<a, mail[a]>> : a \in Admins}
  BY DEF Init
<1>2. /\ token = [t \in Tokens |-> None] /\ slot = [w \in Slots |-> IdleSlot]
      /\ ~adminRace /\ adminRace \in BOOLEAN
  BY DEF Init
<1>3. \A u \in Users \ Admins : user[u] = None
  BY <1>1
<1>4. ASSUME NEW u \in Admins
      PROVE  /\ user[u] \in User /\ user[u] # None /\ user[u].email = mail[u]
             /\ mail[u] \in Emails /\ user[u].role = "admin"
             /\ ~user[u].deleted /\ u \in Users
  <2>1. u \in Users /\ 0 \in 0..MaxChanges /\ mail[u] \in Emails
    BY ConstantsAssumption
  <2>2. user[u] = [email |-> mail[u], verified |-> TRUE, role |-> "admin", deleted |-> FALSE,
                   gen |-> [k \in {"reset", "change"} |-> 0]]
    BY <1>1, <2>1
  <2>3. user[u] \in User
    BY <2>1, <2>2 DEF User
  <2>4. user[u] # None
    BY <2>3, RowsAssumption
  <2>5. user[u].email = mail[u] /\ user[u].role = "admin" /\ ~user[u].deleted
    BY <2>2
  <2> QED
    BY <2>1, <2>3, <2>4, <2>5
<1>5. TypeOK
  <2>1. user \in [Users -> User \cup {None}]
    <3>1. \A u \in Users : user[u] \in User \cup {None}
      BY <1>3, <1>4
    <3> QED
      BY <1>1, <3>1
  <2>2. proven \subseteq Users \X Emails
    <3>1. \A a \in Admins : a \in Users /\ mail[a] \in Emails
      BY <1>4
    <3> QED
      BY <1>1, <3>1
  <2>3. \A u \in Users : user[u] # None => (user[u].deleted <=> user[u].email = None)
    BY <1>3, <1>4, ConstantsAssumption
  <2>4. token \in [Tokens -> Token \cup {None}] /\ slot \in [Slots -> Slot]
    BY <1>2, IdleFits
  <2> QED
    BY <1>2, <2>1, <2>2, <2>3, <2>4 DEF TypeOK
<1>6. SlotsInv
  BY <1>2, IdleFits DEF SlotsInv
<1>7. TokenInv
  BY <1>2 DEF TokenInv
<1>8. VerifiedByMail
  BY <1>1, <1>3, <1>4 DEF VerifiedByMail, Active
<1>9. AdminInv
  <2>1. Admins \subseteq AdminSet /\ Admins # {}
    BY <1>4, ConstantsAssumption DEF AdminSet, Active
  <2> QED
    BY <1>2, <2>1, IdleFits DEF AdminInv
<1> QED
  BY <1>5, <1>6, <1>7, <1>8, <1>9 DEF IndInv

LEMMA NextInv == IndInv /\ [Next]_vars => IndInv'
<1> SUFFICES ASSUME IndInv, [Next]_vars PROVE IndInv'
  OBVIOUS
<1>1. ASSUME NEW w \in Slots, Start(w) PROVE IndInv'
  BY <1>1, RegisterInv, RequestTokenInv, PresentTokenInv, StartChangeInv, StartRoleInv DEF Start
<1>2. ASSUME NEW w \in Slots, Progress(w) PROVE IndInv'
  BY <1>2, RevokeSnapshotInv, RevokeMarkInv, MailTokenInv, MailFailsInv, LockUserInv,
     UseTokenInv, UpdateUserInv, CountAdminsInv, CommitInv, StoreTokenInv DEF Progress
<1>3. CASE UNCHANGED vars
  <2>1. UNCHANGED <<user, token, slot, proven, adminRace>>
    BY <1>3 DEF vars
  <2>2. TypeOK' /\ TokenInv' /\ VerifiedByMail' /\ AdminInv'
    <3>1. adminRace' \in BOOLEAN
      BY <2>1 DEF IndInv, TypeOK
    <3>2. TypeOK'
      BY <2>1, <3>1 DEF IndInv, TypeOK
    <3>3. TokenInv' /\ VerifiedByMail'
      BY <2>1 DEF IndInv, TokenInv, VerifiedByMail, Fresh, Gen, Mailed, Unverified, Active
    <3>4. AdminInv'
      BY <2>1 DEF IndInv, AdminInv, AdminSet, Active, Demoting
    <3> QED
      BY <3>2, <3>3, <3>4
  <2>3. SlotsInv'
    BY <2>1 DEF IndInv, SlotsInv, OwnInv, SlotInv, LockInv, MarkInv, KillInv, Doomed, Unused,
                Mailed, Unverified, Active, Apart
  <2> QED
    BY <2>2, <2>3 DEF IndInv
<1> QED
  BY <1>1, <1>2, <1>3, RollbackInv DEF Next

THEOREM Correct == Spec => []IndInv
BY InitInv, NextInv, PTL DEF Spec

\* Every request, account and token keeps its type, and an account has an
\* address exactly until it is deleted (anonymizeDeletedUser).
THEOREM TypeCorrect == Spec => []TypeOK
<1>1. IndInv => TypeOK
  BY DEF IndInv
<1> QED
  BY <1>1, Correct, PTL

\* The address of a verified account was proved by a link of that account
\* mailed to it, however changes, deletions and links of all kinds overlap
\* (VerifyEmailWithToken, ResetPasswordWithToken, ChangeEmailWithToken).
THEOREM AddressProved == Spec => []VerifiedByMail
<1>1. IndInv => VerifiedByMail
  BY DEF IndInv
<1> QED
  BY <1>1, Correct, PTL

\* An administrator remains, unless one deleted the own account or the demotions
\* of two administrators overlapped (SetRoleByEmail, the count of administrators).
THEOREM LastAdminStays == Spec => []AdminRemains
<1>1. IndInv => AdminRemains
  BY DEF IndInv, AdminInv, AdminRemains
<1> QED
  BY <1>1, Correct, PTL

\* No step writes the users row of a deleted account (deleted_at IS NULL in
\* every UPDATE of users, and the lock held from that statement to the commit).
THEOREM DeletionIsFinal == Spec => DeletedStaysDeleted
<1> DEFINE A == \A u \in Users : user[u] # None /\ user[u].deleted => user'[u] = user[u]
<1>1. IndInv /\ [Next]_vars => [A]_vars
  <2> SUFFICES ASSUME IndInv, [Next]_vars, NEW u \in Users, user[u] # None, user[u].deleted
               PROVE  user'[u] = user[u]
    OBVIOUS
  <2>1. ASSUME NEW w \in Slots, Start(w) PROVE user'[u] = user[u]
    <3>1. ASSUME NEW v \in Users, NEW e \in Emails, NEW t \in Tokens, Register(w, v, e, t)
          PROVE  user'[u] = user[u]
      BY <3>1 DEF Register, IndInv, TypeOK
    <3> QED
      BY <2>1, <3>1 DEF Start, RequestToken, PresentToken, StartChange, StartRole
  <2>2. ASSUME NEW w \in Slots, Commit(w) PROVE user'[u] = user[u]
    <3>1. ~user[slot[w].u].deleted
      BY <2>2 DEF Commit, At, IndInv, SlotsInv, OwnInv, SlotInv, LockInv
    <3> QED
      BY <2>2, <3>1 DEF Commit, IndInv, TypeOK
  <2>3. ASSUME NEW w \in Slots, Progress(w) \/ Rollback(w) PROVE user'[u] = user[u]
    BY <2>2, <2>3 DEF Progress, Rollback, RevokeSnapshot, RevokeMark, MailToken, MailFails,
                      LockUser, UseToken, UpdateUser, CountAdmins, StoreToken
  <2>4. CASE UNCHANGED vars
    BY <2>4 DEF vars
  <2> QED
    BY <2>1, <2>3, <2>4 DEF Next
<1> QED
  BY <1>1, Correct, PTL DEF Spec, DeletedStaysDeleted

\* A password reset and a change of address take effect only through a link
\* stored after the last change, or while one was under way
\* (ResetPasswordWithToken, ChangePassword, ChangeEmailWithToken).
THEOREM OldLinksAreDead == Spec => OldLinksDead
<1> DEFINE A == \A w \in Slots :
          /\ slot[w].pc = "commit" /\ slot[w].op \in {"reset", "change"}
          /\ user'[slot[w].u] # user[slot[w].u] /\ slot'[w] # slot[w]
          =>
              LET t == slot[w].t
              IN token[t].epoch = Gen(slot[w].u, token[t].kind) \/ token[t].late
<1>1. IndInv => A
  <2> SUFFICES ASSUME IndInv, NEW w \in Slots, slot[w].pc = "commit",
                      slot[w].op \in {"reset", "change"}
               PROVE  \/ token[slot[w].t].epoch = Gen(slot[w].u, token[slot[w].t].kind)
                      \/ token[slot[w].t].late
    OBVIOUS
  <2>1. /\ slot[w].t \in Tokens /\ token[slot[w].t] # None
        /\ token[slot[w].t].user = slot[w].u /\ slot[w].t \in slot[w].marked
    BY DEF IndInv, SlotsInv, OwnInv, SlotInv, ByToken
  <2>2. token[slot[w].t].state = "unused"
    BY <2>1 DEF IndInv, SlotsInv, OwnInv, MarkInv
  <2> QED
    BY <2>1, <2>2 DEF IndInv, TokenInv, Fresh
<1> QED
  BY <1>1, Correct, PTL DEF Spec, OldLinksDead
=============================================================================
