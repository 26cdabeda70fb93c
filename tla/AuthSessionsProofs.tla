------------------------- MODULE AuthSessionsProofs -------------------------
(***************************************************************************)
(* Proofs about AuthSessions for any number of users, sessions and         *)
(* concurrent requests.  The inductive invariant has one part about the    *)
(* rows, one about the ids that were handed out, one about the user        *)
(* versions they carry and one about what a request slot may rely on at    *)
(* each program counter although it was read earlier.                      *)
(***************************************************************************)
EXTENDS AuthSessions, TLAPS

-----------------------------------------------------------------------------
(* The inductive invariant.                                                *)

RowClaims(s) == [sid |-> s, owner |-> table[s].owner, ver |-> table[s].ver,
                 family |-> table[s].family]
SlotClaims(q) == [sid |-> q.sid, owner |-> q.owner, ver |-> q.ver,
                  family |-> q.family]

\* Every row was issued with the claims it still carries; retired rows are
\* revoked; successors are unique and were issued into the same family.
RowsInv ==
    /\ \A s \in Sids : Present(s) => RowClaims(s) \in access
    /\ \A s \in Sids : Present(s) /\ table[s].next # NoSid =>
           /\ ~Live(s)
           /\ \E a \in access : /\ a.sid = table[s].next
                                /\ a.family = table[s].family
                                /\ a.owner = table[s].owner
    /\ \A s, t \in Sids :
           Present(s) /\ Present(t) /\ table[s].next # NoSid
               /\ table[s].next = table[t].next => s = t
    /\ OneLiveRowPerFamily

\* An id is issued once, into a family whose first id was issued.
IssuedInv ==
    /\ \A a, b \in access : a.sid = b.sid => a = b
    /\ \A a \in access : \E b \in access : b.sid = a.family

\* Versions never run ahead of the users row, and lag behind it once cut off.
VersionInv ==
    /\ \A a \in access : a.ver <= user[a.owner].ver
    /\ \A a \in access, u \in Users :
           a.sid \in cut[u] => a.owner = u /\ a.ver < user[u].ver

Rotating(q) == q.pc \in {"loadUser", "rotate", "commit"}

SlotInv(q) ==
    /\ Reserving(q) =>
           /\ q.next \in Sids /\ q.next \notin Issued
           /\ q.ver <= user[q.owner].ver
           /\ \A u \in Users : q.next \in cut[u] =>
                                   q.owner = u /\ q.ver < user[u].ver
    /\ q.pc = "create" => q.family = q.next
    /\ Rotating(q) => SlotClaims(q) \in access
    /\ q.pc = "commit" => Live(q.sid) /\ table[q.sid].next = NoSid
    /\ q.pc \in {"revoke", "apply", "stamp"} => q.family \in Sids

\* No two requests reserve one id or hold one row lock.
Apart(p, q) ==
    /\ Reserving(p) /\ Reserving(q) => p.next # q.next
    /\ p.pc = "commit" /\ q.pc = "commit" => p.sid # q.sid

SlotsInv ==
    /\ \A r \in Requests : SlotInv(req[r])
    /\ \A r, x \in Requests : r # x => Apart(req[r], req[x])

IndInv == TypeOK /\ RowsInv /\ IssuedInv /\ VersionInv /\ SlotsInv

-----------------------------------------------------------------------------
LEMMA SlotType ==
    ASSUME NEW pc \in PCs, NEW op \in AllOps, NEW u \in Users,
           NEW f \in Sids \cup {NoSid}
    PROVE  Slot(pc, op, u, f) \in Request
BY DEF Slot, Request, Null

LEMMA IdleSlotType == IdleSlot \in Request /\ IdleSlot.pc = "idle"
<1>1. (CHOOSE u \in Users : TRUE) \in Users
  BY UsersAssumption
<1> QED
  BY <1>1, SlotType DEF IdleSlot, Slot, PCs, AllOps

LEMMA InitInv == Init => IndInv
<1> SUFFICES ASSUME Init PROVE IndInv
  OBVIOUS
<1> USE IdleSlotType
<1>1. TypeOK
  BY DEF Init, TypeOK, Null
<1>2. RowsInv
  BY DEF Init, RowsInv, Present, Live, OneLiveRowPerFamily
<1>3. IssuedInv /\ VersionInv
  BY DEF Init, IssuedInv, VersionInv
<1>4. SlotsInv
  BY DEF Init, SlotsInv, SlotInv, Apart, Reserving, Rotating
<1> QED
  BY <1>1, <1>2, <1>3, <1>4 DEF IndInv

-----------------------------------------------------------------------------
(* A step that only moves one request to a slot the invariant allows.      *)

LEMMA SlotStep ==
    ASSUME IndInv, NEW r \in Requests, NEW q \in Request,
           SlotInv(q), Goto(r, q),
           \A x \in Requests \ {r} : Apart(q, req[x]),
           UNCHANGED <<user, table, now, access, cut, ended, stepped, exchanged>>
    PROVE  IndInv'
<1>1. TypeOK'
  BY DEF IndInv, TypeOK, Goto
<1>2. RowsInv' /\ IssuedInv' /\ VersionInv'
  BY DEF IndInv, RowsInv, IssuedInv, VersionInv, Present, Live, RowClaims,
         OneLiveRowPerFamily
<1>3. \A x \in Requests : req'[x] = IF x = r THEN q ELSE req[x]
  BY DEF Goto, IndInv, TypeOK
<1>5. \A x \in Requests : SlotInv(req[x])'
  BY <1>3 DEF IndInv, SlotsInv, SlotInv, Present, Live, Issued, SlotClaims
<1>6. \A x, y \in Requests : x # y => Apart(req[x], req[y])'
  BY <1>3 DEF IndInv, SlotsInv, Apart
<1> QED
  BY <1>1, <1>2, <1>5, <1>6 DEF IndInv, SlotsInv

\* An idle slot satisfies the invariant and is apart from every other.
LEMMA IdleFits ==
    SlotInv(IdleSlot) /\ \A q : Apart(IdleSlot, q) /\ Apart(q, IdleSlot)
BY IdleSlotType DEF SlotInv, Apart, Reserving, Rotating

\* A slot that neither reserves an id nor rotates fits when its family is an id.
LEMMA PlainFits ==
    ASSUME NEW pc \in PCs \ {"create", "loadUser", "rotate", "commit"},
           NEW op \in AllOps, NEW u \in Users, NEW f \in Sids \cup {NoSid},
           pc \in {"revoke", "apply", "stamp"} => f \in Sids
    PROVE  /\ Slot(pc, op, u, f) \in Request
           /\ SlotInv(Slot(pc, op, u, f))
           /\ \A q : Apart(Slot(pc, op, u, f), q)
<1>1. Slot(pc, op, u, f) \in Request
  BY SlotType
<1>2. Slot(pc, op, u, f).pc = pc /\ Slot(pc, op, u, f).family = f
  BY DEF Slot
<1> QED
  BY <1>1, <1>2 DEF SlotInv, Apart, Reserving, Rotating

\* The type of a row that is there.
LEMMA RowType ==
    ASSUME TypeOK, NEW s \in Sids, Present(s)
    PROVE  table[s] \in Row
BY DEF TypeOK, Present

LEMMA FreshIsNew ==
    ASSUME TypeOK, NEW s \in Fresh
    PROVE  /\ s \in Sids /\ s \notin Issued
           /\ \A r \in Requests : Reserving(req[r]) => req[r].next # s
           /\ \A u \in Users : s \notin cut[u]
BY DEF Fresh, Reserved

-----------------------------------------------------------------------------
(* The handlers' steps that change no table.                               *)

LEMMA LoginStep ==
    ASSUME IndInv, NEW r \in Requests, NEW u \in Users, NEW s \in Sids,
           Login(r, u, s)
    PROVE  IndInv'
<1> DEFINE q == IssueSlot("login", u, s, user[u].ver)
<1>1. user[u].ver \in Nat
  BY DEF IndInv, TypeOK
<1>2. /\ q.pc = "create" /\ q.next = s /\ q.family = s /\ q.owner = u
      /\ q.ver = user[u].ver
  BY DEF IssueSlot
<1>3. q \in Request
  BY <1>1 DEF IssueSlot, Request, PCs, AllOps, Null
<1>4. s \in Fresh /\ Goto(r, q)
  BY DEF Login
<1>5. /\ s \notin Issued
      /\ \A x \in Requests : Reserving(req[x]) => req[x].next # s
      /\ \A v \in Users : s \notin cut[v]
  BY <1>4, FreshIsNew DEF IndInv
<1>6. SlotInv(q)
  BY <1>1, <1>2, <1>5 DEF SlotInv, Rotating
<1>7. \A x \in Requests \ {r} : Apart(q, req[x])
  BY <1>2, <1>5 DEF Apart
<1> HIDE DEF q
<1> QED
  BY <1>3, <1>4, <1>6, <1>7, SlotStep DEF Login

LEMMA RefreshReuseStep ==
    ASSUME IndInv, NEW r \in Requests, NEW s \in Sids, RefreshReuse(r, s)
    PROVE  IndInv'
<1>1. table[s] \in Row
  BY RowType DEF IndInv, RefreshReuse
<1>2. table[s].owner \in Users /\ table[s].family \in Sids
  BY <1>1 DEF Row
<1> QED
  BY <1>2, PlainFits, SlotStep DEF RefreshReuse, PCs, AllOps

LEMMA RefreshLoadStep ==
    ASSUME IndInv, NEW r \in Requests, NEW s \in Sids, RefreshLoad(r, s)
    PROVE  IndInv'
<1>1. Present(s)
  BY DEF RefreshLoad, Live
<1>2. table[s] \in Row
  BY <1>1, RowType DEF IndInv
<1>3. RefreshSlot(s) \in Request
  BY <1>2 DEF RefreshSlot, Request, Row, PCs, AllOps, IndInv, TypeOK
<1>4. RefreshSlot(s).pc = "loadUser" /\ SlotClaims(RefreshSlot(s)) = RowClaims(s)
  BY DEF RefreshSlot, SlotClaims, RowClaims
<1>5. SlotInv(RefreshSlot(s))
  BY <1>1, <1>4 DEF SlotInv, Reserving, IndInv, RowsInv
<1>6. \A x \in Requests \ {r} : Apart(RefreshSlot(s), req[x])
  BY <1>4 DEF Apart, Reserving
<1> QED
  BY <1>3, <1>5, <1>6, SlotStep DEF RefreshLoad

\* What a rotating slot says of its session is what was issued.
LEMMA RotatingType ==
    ASSUME IndInv, NEW r \in Requests, Rotating(req[r])
    PROVE  /\ req[r].sid \in Sids /\ req[r].family \in Sids
           /\ SlotClaims(req[r]) \in access
<1>1. SlotClaims(req[r]) \in access
  BY DEF IndInv, SlotsInv, SlotInv
<1>2. SlotClaims(req[r]) \in Claims
  BY <1>1 DEF IndInv, TypeOK
<1> QED
  BY <1>1, <1>2 DEF SlotClaims, Claims

LEMMA RevokeNext ==
    ASSUME IndInv, NEW r \in Requests, Rotating(req[r]),
           Goto(r, Slot("revoke", "refresh", req[r].owner, req[r].family)),
           UNCHANGED <<user, table, now, access, cut, ended, stepped, exchanged>>
    PROVE  IndInv'
<1>1. req[r].owner \in Users /\ req[r].family \in Sids
  BY RotatingType DEF IndInv, TypeOK, Request
<1> QED
  BY <1>1, PlainFits, SlotStep DEF PCs, AllOps

LEMMA RefreshStaleStep ==
    ASSUME IndInv, NEW r \in Requests, RefreshStale(r)
    PROVE  IndInv'
BY RevokeNext DEF RefreshStale, Rotating

LEMMA RefreshLoadUserStep ==
    ASSUME IndInv, NEW r \in Requests, NEW s \in Sids, RefreshLoadUser(r, s)
    PROVE  IndInv'
<1> DEFINE q == [req[r] EXCEPT !.pc = "rotate", !.next = s]
<1>1. req[r] \in Request /\ req[r].pc = "loadUser"
  BY DEF IndInv, TypeOK, RefreshLoadUser
<1>2. q \in Request
  BY <1>1 DEF Request, PCs
<1>3. /\ q.pc = "rotate" /\ q.next = s /\ q.owner = req[r].owner
      /\ q.ver = req[r].ver /\ SlotClaims(q) = SlotClaims(req[r])
  BY <1>1 DEF Request, SlotClaims
<1>4. s \in Fresh /\ Goto(r, q) /\ user[req[r].owner].ver = req[r].ver
  BY DEF RefreshLoadUser
<1>5. /\ s \notin Issued
      /\ \A x \in Requests : Reserving(req[x]) => req[x].next # s
      /\ \A v \in Users : s \notin cut[v]
  BY <1>4, FreshIsNew DEF IndInv
<1>6. SlotClaims(req[r]) \in access
  BY <1>1, RotatingType DEF Rotating
<1>7. req[r].ver \in Nat
  BY <1>1 DEF Request
<1> HIDE DEF q
<1>8. SlotInv(q)
  BY <1>3, <1>4, <1>5, <1>6, <1>7 DEF SlotInv
<1>9. \A x \in Requests \ {r} : Apart(q, req[x])
  BY <1>3, <1>5 DEF Apart
<1> QED
  BY <1>2, <1>4, <1>8, <1>9, SlotStep DEF RefreshLoadUser

LEMMA RotateLockStep ==
    ASSUME IndInv, NEW r \in Requests, RotateLock(r)
    PROVE  IndInv'
<1> DEFINE q == [req[r] EXCEPT !.pc = "commit"]
<1>1. req[r] \in Request /\ req[r].pc = "rotate" /\ Rotating(req[r])
  BY DEF IndInv, TypeOK, RotateLock, ValidateRotation, Rotating
<1>2. CASE ~RotatableRow(req[r])
  BY <1>1, <1>2, RevokeNext DEF RotateLock, ValidateRotation
<1>3. CASE RotatableRow(req[r]) /\ ExpiredRow(req[r])
  BY <1>3, IdleSlotType, IdleFits, SlotStep DEF RotateLock, ValidateRotation
<1>4. CASE RotatableRow(req[r]) /\ ~ExpiredRow(req[r])
  <2>1. q \in Request
    BY <1>1 DEF Request, PCs
  <2>2. /\ q.pc = "commit" /\ q.next = req[r].next /\ q.owner = req[r].owner
        /\ q.ver = req[r].ver /\ q.sid = req[r].sid
        /\ SlotClaims(q) = SlotClaims(req[r])
    BY <1>1 DEF Request, SlotClaims
  <2>3. Goto(r, q)
    BY <1>4 DEF RotateLock, ValidateRotation
  <2> HIDE DEF q
  <2>4. SlotInv(req[r])
    BY DEF IndInv, SlotsInv
  <2>5. SlotInv(q)
    BY <1>1, <1>4, <2>2, <2>4 DEF SlotInv, Reserving, RotatableRow
  <2>6. \A x \in Requests \ {r} : Apart(req[r], req[x])
    BY DEF IndInv, SlotsInv
  <2>7. \A x \in Requests \ {r} : Apart(q, req[x])
    BY <1>1, <2>2, <2>6 DEF Apart, Reserving, RotateLock, ValidateRotation, RowLocked
  <2> QED
    BY <2>1, <2>3, <2>5, <2>7, SlotStep DEF RotateLock, ValidateRotation
<1> QED
  BY <1>2, <1>3, <1>4

LEMMA LogoutStep ==
    ASSUME IndInv, NEW r \in Requests, NEW s \in Sids, Logout(r, s)
    PROVE  IndInv'
<1>1. table[s] \in Row
  BY RowType DEF IndInv, Logout
<1>2. table[s].owner \in Users /\ table[s].family \in Sids
  BY <1>1 DEF Row
<1> QED
  BY <1>2, PlainFits, SlotStep DEF Logout, PCs, AllOps

LEMMA RevokeSessionStep ==
    ASSUME IndInv, NEW r \in Requests, NEW u \in Users, NEW s \in Sids,
           RevokeSession(r, u, s)
    PROVE  IndInv'
<1>1. table[s] \in Row
  BY RowType DEF IndInv, RevokeSession, Live
<1>2. table[s].family \in Sids
  BY <1>1 DEF Row
<1> QED
  BY <1>2, PlainFits, SlotStep DEF RevokeSession, PCs, AllOps

LEMMA BumpUserStep ==
    ASSUME IndInv, NEW r \in Requests, NEW u \in Users, NEW op \in BumpOps,
           BumpUser(r, u, op)
    PROVE  IndInv'
BY PlainFits, SlotStep DEF BumpUser, PCs, AllOps, BumpOps

\* A snapshot moves the slot on and records its targets.
LEMMA SnapshotStep ==
    ASSUME IndInv, NEW r \in Requests, NEW pc \in {"apply", "bumpCommit"},
           req[r].pc \in {"revoke", "bumpSnapshot"},
           pc = "apply" => req[r].pc = "revoke",
           NEW T \in SUBSET Sids,
           Goto(r, [req[r] EXCEPT !.pc = pc, !.targets = T]),
           UNCHANGED <<user, table, now, access, cut, ended, stepped, exchanged>>
    PROVE  IndInv'
<1> DEFINE q == [req[r] EXCEPT !.pc = pc, !.targets = T]
<1>1. req[r] \in Request /\ SlotInv(req[r])
  BY DEF IndInv, TypeOK, SlotsInv
<1>2. q \in Request /\ q.pc = pc /\ q.family = req[r].family
  BY <1>1 DEF Request, PCs
<1> HIDE DEF q
<1>3. SlotInv(q) /\ \A x \in Requests \ {r} : Apart(q, req[x])
  BY <1>1, <1>2 DEF SlotInv, Apart, Reserving, Rotating
<1> QED
  BY <1>2, <1>3, SlotStep DEF q

LEMMA RevokeSnapshotStep ==
    ASSUME IndInv, NEW r \in Requests, RevokeSnapshot(r)
    PROVE  IndInv'
<1>1. FamilyRows(req[r].family) \in SUBSET Sids
  BY DEF FamilyRows
<1> QED
  BY <1>1, SnapshotStep DEF RevokeSnapshot

LEMMA BumpSnapshotStep ==
    ASSUME IndInv, NEW r \in Requests, BumpSnapshot(r)
    PROVE  IndInv'
<1> DEFINE T == {s \in Sids :
                    /\ Present(s) /\ table[s].owner = req[r].owner
                    /\ req[r].op = "deleteAccount" \/ Live(s)}
<1>1. T \in SUBSET Sids
  OBVIOUS
<1>2. Goto(r, [req[r] EXCEPT !.pc = "bumpCommit", !.targets = T])
  BY DEF BumpSnapshot
<1> HIDE DEF T
<1> QED
  BY <1>1, <1>2, SnapshotStep DEF BumpSnapshot

LEMMA StepUpStep ==
    ASSUME IndInv, NEW r \in Requests, NEW a \in access, StepUp(r, a)
    PROVE  IndInv'
<1>1. a \in Claims
  BY DEF IndInv, TypeOK
<1>2. FamilyRows(a.family) \in SUBSET Sids
  BY DEF FamilyRows
<1>3. StampSlot(a) \in Request
  BY <1>1, <1>2 DEF StampSlot, Request, Claims, PCs, AllOps, Null, IndInv, TypeOK
<1>4. StampSlot(a).pc = "stamp" /\ StampSlot(a).family \in Sids
  BY <1>1 DEF StampSlot, Claims
<1>5. /\ SlotInv(StampSlot(a))
      /\ \A x \in Requests \ {r} : Apart(StampSlot(a), req[x])
  BY <1>4 DEF SlotInv, Apart, Reserving, Rotating
<1> QED
  BY <1>3, <1>5, SlotStep DEF StepUp

LEMMA AbandonStep ==
    ASSUME IndInv, NEW r \in Requests, Abandon(r)
    PROVE  IndInv'
BY IdleSlotType, IdleFits, SlotStep DEF Abandon, Finish

-----------------------------------------------------------------------------
(* The steps that take rows away: revocation, stamping, deletion.          *)

\* What happened to the row s: it is gone, or it kept its identity and did
\* not become live again.
Kept(s) ==
    /\ Present(s)' => /\ Present(s)
                      /\ table'[s].family = table[s].family
                      /\ table'[s].owner = table[s].owner
                      /\ table'[s].ver = table[s].ver
                      /\ table'[s].next = table[s].next
                      /\ Live(s)' => Live(s)
    /\ RowLocked(s) => table'[s] = table[s]

LEMMA RowsKept ==
    ASSUME IndInv, \A s \in Sids : Kept(s), access' = access
    PROVE  RowsInv'
<1>1. \A s \in Sids : Present(s)' => RowClaims(s)' = RowClaims(s)
  BY DEF Kept, RowClaims
<1>2. \A s \in Sids : Present(s)' => RowClaims(s)' \in access'
  BY <1>1 DEF Kept, IndInv, RowsInv
<1>3. \A s \in Sids : Present(s)' /\ table'[s].next # NoSid =>
           /\ ~Live(s)'
           /\ \E a \in access' : /\ a.sid = table'[s].next
                                 /\ a.family = table'[s].family
                                 /\ a.owner = table'[s].owner
  BY DEF Kept, IndInv, RowsInv
<1>4. \A s, t \in Sids :
           Present(s)' /\ Present(t)' /\ table'[s].next # NoSid
               /\ table'[s].next = table'[t].next => s = t
  BY DEF Kept, IndInv, RowsInv
<1>5. OneLiveRowPerFamily'
  <2>1. \A s \in Sids : Live(s)' => Live(s) /\ table'[s].family = table[s].family
    BY DEF Kept, Live
  <2> QED
    BY <2>1 DEF IndInv, RowsInv, OneLiveRowPerFamily
<1> QED
  BY <1>2, <1>3, <1>4, <1>5 DEF RowsInv

\* The slots survive when one of them is finished and locked rows are kept.
LEMMA SlotsKept ==
    ASSUME IndInv, NEW r \in Requests,
           \/ Finish(r) \/ UNCHANGED req,
           \A s \in Sids : Kept(s),
           UNCHANGED <<user, access, cut>>
    PROVE  SlotsInv'
<1>1. \A x \in Requests : req'[x] = req[x] \/ req'[x] = IdleSlot
  BY DEF Finish, Goto, IndInv, TypeOK
<1>2. \A x, y \in Requests : x # y => Apart(req[x], req[y])'
  BY <1>1, IdleFits DEF IndInv, SlotsInv, Apart, Reserving
<1>3. ASSUME NEW x \in Requests PROVE SlotInv(req[x])'
  <2>1. CASE req'[x] = IdleSlot
    BY <2>1, IdleSlotType DEF SlotInv, Reserving, Rotating
  <2>2. CASE req'[x] = req[x]
    <3>1. SlotInv(req[x])
      BY DEF IndInv, SlotsInv
    <3>2. req[x].pc = "commit" => /\ Live(req[x].sid)'
                                  /\ table'[req[x].sid].next = NoSid
      <4> SUFFICES ASSUME req[x].pc = "commit"
                   PROVE  Live(req[x].sid)' /\ table'[req[x].sid].next = NoSid
        OBVIOUS
      <4>1. req[x].sid \in Sids
        BY RotatingType DEF Rotating
      <4>2. table'[req[x].sid] = table[req[x].sid]
        BY <4>1 DEF Kept, RowLocked
      <4> QED
        BY <2>2, <3>1, <4>2 DEF SlotInv, Live, Present
    <3> QED
      BY <2>2, <3>1, <3>2 DEF SlotInv, Issued, SlotClaims, Reserving, Rotating
  <2> QED
    BY <1>1, <2>1, <2>2
<1> QED
  BY <1>2, <1>3 DEF SlotsInv

LEMMA RowUpdateType ==
    ASSUME NEW row \in Row, NEW at \in Int
    PROVE  /\ [row EXCEPT !.revokedAt = at] \in Row
           /\ [row EXCEPT !.mfa = at] \in Row
BY DEF Row

LEMMA RevokedKeeps ==
    ASSUME IndInv, NEW S \in SUBSET Sids, Unlocked(S), table' = Revoked(S)
    PROVE  /\ table' \in [Sids -> Row \cup {NoRow}]
           /\ \A s \in Sids : Kept(s)
<1>1. now \in Nat /\ now \in Int /\ now # Null
  BY DEF IndInv, TypeOK, Null
<1>2. ASSUME NEW s \in Sids
      PROVE  table'[s] \in Row \cup {NoRow} /\ Kept(s)
  <2>1. CASE s \in S /\ Live(s)
    <3>1. table[s] \in Row
      BY <2>1, RowType DEF IndInv, Live
    <3>2. table'[s] = [table[s] EXCEPT !.revokedAt = now]
      BY <2>1 DEF Revoked
    <3>3. table'[s] \in Row
      BY <1>1, <3>1, <3>2, RowUpdateType
    <3>4. ~RowLocked(s)
      BY <2>1 DEF Unlocked
    <3> QED
      BY <2>1, <3>1, <3>2, <3>3, <3>4 DEF Kept, Present, Live, Row
  <2>2. CASE ~(s \in S /\ Live(s))
    <3>1. table'[s] = table[s]
      BY <2>2 DEF Revoked
    <3> QED
      BY <3>1 DEF Kept, Present, Live, IndInv, TypeOK
  <2> QED
    BY <2>1, <2>2
<1>3. table' = [s \in Sids |-> table'[s]]
  BY DEF Revoked
<1> QED
  BY <1>2, <1>3

LEMMA DeletedKeeps ==
    ASSUME IndInv, NEW S \in SUBSET Sids, Unlocked(S), table' = Deleted(S)
    PROVE  /\ table' \in [Sids -> Row \cup {NoRow}]
           /\ \A s \in Sids : Kept(s)
<1>1. \A s \in Sids : table'[s] = IF s \in S THEN NoRow ELSE table[s]
  BY DEF Deleted
<1>2. table' \in [Sids -> Row \cup {NoRow}]
  BY DEF Deleted, IndInv, TypeOK
<1>3. \A s \in Sids : Kept(s)
  BY <1>1 DEF Kept, Present, Live, Unlocked
<1> QED
  BY <1>2, <1>3

LEMMA RevokeApplyStep ==
    ASSUME IndInv, NEW r \in Requests, RevokeApply(r)
    PROVE  IndInv'
<1>1. req[r] \in Request /\ req[r].targets \in SUBSET Sids /\ req[r].family \in Sids
  BY DEF IndInv, TypeOK, Request, SlotsInv, SlotInv, RevokeApply
<1>2. table' \in [Sids -> Row \cup {NoRow}] /\ \A s \in Sids : Kept(s)
  BY <1>1, RevokedKeeps DEF RevokeApply
<1>3. TypeOK'
  BY <1>1, <1>2, IdleSlotType DEF IndInv, TypeOK, RevokeApply, Finish, Goto
<1>4. RowsInv'
  BY <1>2, RowsKept DEF RevokeApply
<1>5. IssuedInv' /\ VersionInv'
  BY DEF IndInv, IssuedInv, VersionInv, RevokeApply
<1>6. SlotsInv'
  BY <1>2, SlotsKept DEF RevokeApply
<1> QED
  BY <1>3, <1>4, <1>5, <1>6 DEF IndInv

LEMMA StampApplyStep ==
    ASSUME IndInv, NEW r \in Requests, StampApply(r)
    PROVE  IndInv'
<1> DEFINE hit == {s \in req[r].targets : Live(s)}
<1>1. /\ req[r] \in Request /\ req[r].targets \in SUBSET Sids
      /\ req[r].family \in Sids /\ req[r].at \in Int
  BY DEF IndInv, TypeOK, Request, SlotsInv, SlotInv, StampApply
<1>2. table' = [s \in Sids |-> IF s \in hit
                               THEN [table[s] EXCEPT !.mfa = req[r].at]
                               ELSE table[s]]
  BY DEF StampApply
<1>3. ASSUME NEW s \in Sids
      PROVE  table'[s] \in Row \cup {NoRow} /\ Kept(s)
  <2>1. CASE s \in hit
    <3>1. table[s] \in Row
      BY <2>1, RowType DEF IndInv, Live
    <3>2. table'[s] = [table[s] EXCEPT !.mfa = req[r].at]
      BY <1>2, <2>1
    <3>3. table'[s] \in Row
      BY <1>1, <3>1, <3>2, RowUpdateType
    <3>4. ~RowLocked(s)
      BY <2>1 DEF Unlocked, StampApply
    <3> QED
      BY <2>1, <3>1, <3>2, <3>3, <3>4 DEF Kept, Present, Live, Row
  <2>2. CASE s \notin hit
    <3>1. table'[s] = table[s]
      BY <1>2, <2>2
    <3> QED
      BY <3>1 DEF Kept, Present, Live, IndInv, TypeOK
  <2> QED
    BY <2>1, <2>2
<1>4. table' \in [Sids -> Row \cup {NoRow}]
  BY <1>2, <1>3
<1>5. stepped' \in [Sids -> Int]
  BY <1>1 DEF StampApply, IndInv, TypeOK
<1>6. TypeOK'
  BY <1>4, <1>5, IdleSlotType DEF IndInv, TypeOK, StampApply, Finish, Goto
<1>7. RowsInv'
  BY <1>3, RowsKept DEF StampApply
<1>8. IssuedInv' /\ VersionInv'
  BY DEF IndInv, IssuedInv, VersionInv, StampApply
<1>9. SlotsInv'
  BY <1>3, SlotsKept DEF StampApply
<1> QED
  BY <1>6, <1>7, <1>8, <1>9 DEF IndInv

LEMMA TickStep == IndInv /\ Tick => IndInv'
<1> SUFFICES ASSUME IndInv, Tick PROVE IndInv'
  OBVIOUS
<1>1. TypeOK'
  BY DEF IndInv, TypeOK, Tick
<1>2. RowsInv' /\ IssuedInv' /\ VersionInv'
  BY DEF IndInv, RowsInv, IssuedInv, VersionInv, Present, Live, RowClaims,
         OneLiveRowPerFamily, Tick
<1>3. SlotsInv'
  BY DEF IndInv, SlotsInv, SlotInv, Apart, Reserving, Rotating, Present, Live,
         Issued, SlotClaims, Tick
<1> QED
  BY <1>1, <1>2, <1>3 DEF IndInv

LEMMA CleanupStep == IndInv /\ CleanupAuthData => IndInv'
<1> SUFFICES ASSUME IndInv, CleanupAuthData PROVE IndInv'
  OBVIOUS
<1> DEFINE P == {s \in Sids : Purgeable(s)}
<1>1. P \in SUBSET Sids /\ Unlocked(P) /\ table' = Deleted(P)
  BY DEF CleanupAuthData
<1> HIDE DEF P
<1>2. table' \in [Sids -> Row \cup {NoRow}] /\ \A s \in Sids : Kept(s)
  BY <1>1, DeletedKeeps
<1>3. TypeOK'
  BY <1>2 DEF IndInv, TypeOK, CleanupAuthData
<1>4. RowsInv'
  BY <1>2, RowsKept DEF CleanupAuthData
<1>5. IssuedInv' /\ VersionInv'
  BY DEF IndInv, IssuedInv, VersionInv, CleanupAuthData
<1>6. SlotsInv'
  <2>1. CASE Requests = {}
    BY <2>1 DEF SlotsInv
  <2>2. CASE Requests # {}
    BY <1>2, <2>2, SlotsKept DEF CleanupAuthData
  <2> QED
    BY <2>1, <2>2
<1> QED
  BY <1>3, <1>4, <1>5, <1>6 DEF IndInv

-----------------------------------------------------------------------------
(* The bump of token_version.                                              *)

LEMMA BumpCommitStep ==
    ASSUME IndInv, NEW r \in Requests, BumpCommit(r)
    PROVE  IndInv'
<1> DEFINE u == req[r].owner
<1>1. req[r] \in Request /\ u \in Users /\ req[r].targets \in SUBSET Sids
  BY DEF IndInv, TypeOK, Request
<1>2. /\ user \in [Users -> [ver : Nat, deleted : BOOLEAN]]
      /\ cut \in [Users -> SUBSET Sids] /\ access \in SUBSET Claims
      /\ req \in [Requests -> Request]
  BY DEF IndInv, TypeOK
<1>3. /\ user' \in [Users -> [ver : Nat, deleted : BOOLEAN]]
      /\ user'[u].ver = user[u].ver + 1
      /\ \A v \in Users \ {u} : user'[v].ver = user[v].ver
  BY <1>1, <1>2 DEF BumpCommit
<1>4. /\ cut'[u] = cut[u] \cup IssuedFor(u)
      /\ \A v \in Users \ {u} : cut'[v] = cut[v]
  BY <1>1, <1>2 DEF BumpCommit
<1>5. access' = access
  BY DEF BumpCommit
<1>6. table' \in [Sids -> Row \cup {NoRow}] /\ \A s \in Sids : Kept(s)
  BY <1>1, RevokedKeeps, DeletedKeeps DEF BumpCommit
<1>7. \A x \in Requests : Reserving(req[x]) => req[x].next \in Sids
  BY DEF IndInv, SlotsInv, SlotInv
<1>8. IssuedFor(u) \in SUBSET Sids
  BY <1>2, <1>7 DEF IssuedFor, Claims
<1>9. cut' \in [Users -> SUBSET Sids]
  BY <1>1, <1>2, <1>8 DEF BumpCommit
<1>10. /\ \A x \in Requests \ {r} : req'[x] = req[x]
       /\ \/ req'[r] = IdleSlot
          \/ \E s \in Fresh :
                req'[r] = IssueSlot(req[r].op, u, s, user[u].ver + 1)
  BY <1>2 DEF BumpCommit, Finish, Goto
<1>11. ASSUME NEW s \in Fresh
       PROVE  IssueSlot(req[r].op, u, s, user[u].ver + 1) \in Request
  <2>1. s \in Sids /\ user[u].ver + 1 \in Nat
    BY <1>1, <1>2 DEF Fresh
  <2> QED
    BY <1>1, <2>1 DEF IssueSlot, Request, PCs, AllOps, Null
<1>12. req' \in [Requests -> Request]
  BY <1>2, <1>11, IdleSlotType DEF BumpCommit, Finish, Goto
<1>13. TypeOK'
  BY <1>3, <1>6, <1>9, <1>12 DEF BumpCommit, IndInv, TypeOK
<1>14. RowsInv'
  BY <1>5, <1>6, RowsKept
<1>15. IssuedInv'
  BY <1>5 DEF IndInv, IssuedInv
<1> HIDE DEF u
<1>16. VersionInv'
  <2>1. ASSUME NEW a \in access PROVE a.ver <= user'[a.owner].ver
    <3>1. a \in Claims /\ a.ver <= user[a.owner].ver
      BY <1>2 DEF IndInv, VersionInv
    <3>2. a.ver \in Nat /\ a.owner \in Users
      BY <3>1 DEF Claims
    <3> QED
      BY <1>1, <1>2, <1>3, <3>1, <3>2
  <2>2. ASSUME NEW a \in access, NEW v \in Users, a.sid \in cut'[v]
        PROVE  a.owner = v /\ a.ver < user'[v].ver
    <3>1. a \in Claims /\ a.ver <= user[a.owner].ver
      BY <1>2 DEF IndInv, VersionInv
    <3>2. a.ver \in Nat /\ a.owner \in Users /\ user[v].ver \in Nat
      BY <1>2, <3>1 DEF Claims
    <3>3. CASE a.sid \in cut[v]
      <4>1. a.owner = v /\ a.ver < user[v].ver
        BY <3>3 DEF IndInv, VersionInv
      <4> QED
        BY <1>1, <1>3, <3>2, <4>1
    <3>4. CASE v = u /\ a.sid \in IssuedFor(u)
      <4>1. a.owner = u
        <5>1. CASE \E b \in access : b.owner = u /\ b.sid = a.sid
          BY <5>1 DEF IndInv, IssuedInv
        <5>2. CASE \E x \in Requests : Reserving(req[x]) /\ req[x].next = a.sid
          BY <5>2 DEF IndInv, SlotsInv, SlotInv, Issued
        <5> QED
          BY <3>4, <5>1, <5>2 DEF IssuedFor
      <4> QED
        BY <1>1, <1>3, <3>1, <3>2, <3>4, <4>1
    <3> QED
      BY <1>4, <2>2, <3>3, <3>4
  <2> QED
    BY <1>5, <2>1, <2>2 DEF VersionInv
<1>17. \A x \in Requests : SlotInv(req[x])'
  <2>1. ASSUME NEW x \in Requests \ {r}, Reserving(req[x])
        PROVE  /\ req[x].ver <= user'[req[x].owner].ver
               /\ \A v \in Users : req[x].next \in cut'[v] =>
                     req[x].owner = v /\ req[x].ver < user'[v].ver
    <3>1. /\ req[x].next \notin Issued
          /\ req[x].ver <= user[req[x].owner].ver
          /\ \A v \in Users : req[x].next \in cut[v] =>
                     req[x].owner = v /\ req[x].ver < user[v].ver
      BY <2>1 DEF IndInv, SlotsInv, SlotInv
    <3>2. req[x].ver \in Nat /\ req[x].owner \in Users
      BY <1>2 DEF Request
    <3>3. req[x].next \in IssuedFor(u) => req[x].owner = u
      <4>1. \A y \in Requests : Reserving(req[y]) /\ req[y].next = req[x].next
                => y = x
        BY <2>1 DEF IndInv, SlotsInv, Apart
      <4> QED
        BY <3>1, <4>1 DEF IssuedFor, Issued
    <3>4. \A v \in Users : user[v].ver \in Nat
      BY <1>2
    <3> QED
      BY <1>1, <1>3, <1>4, <3>1, <3>2, <3>3, <3>4
  <2>2. ASSUME NEW x \in Requests \ {r} PROVE SlotInv(req[x])'
    <3>1. SlotInv(req[x]) /\ req'[x] = req[x]
      BY <1>10 DEF IndInv, SlotsInv
    <3>2. req[x].pc = "commit" =>
              Live(req[x].sid)' /\ table'[req[x].sid].next = NoSid
      <4> SUFFICES ASSUME req[x].pc = "commit"
                   PROVE  Live(req[x].sid)' /\ table'[req[x].sid].next = NoSid
        OBVIOUS
      <4>1. req[x].sid \in Sids
        BY RotatingType DEF Rotating
      <4>2. table'[req[x].sid] = table[req[x].sid]
        BY <1>6, <4>1 DEF Kept, RowLocked
      <4> QED
        BY <3>1, <4>2 DEF SlotInv, Live, Present
    <3> QED
      BY <1>5, <2>1, <3>1, <3>2
      DEF SlotInv, Issued, SlotClaims, Reserving, Rotating
  <2>3. SlotInv(req[r])'
    <3>1. CASE req'[r] = IdleSlot
      BY <3>1, IdleSlotType DEF SlotInv, Reserving, Rotating
    <3>2. ASSUME NEW s \in Fresh,
                 req'[r] = IssueSlot(req[r].op, u, s, user[u].ver + 1)
          PROVE  SlotInv(req[r])'
      <4>1. /\ req'[r].pc = "create" /\ req'[r].next = s /\ req'[r].family = s
            /\ req'[r].owner = u /\ req'[r].ver = user[u].ver + 1
        BY <3>2 DEF IssueSlot
      <4>2. s \in Sids /\ s \notin Issued /\ \A v \in Users : s \notin cut[v]
        BY FreshIsNew DEF IndInv
      <4>3. s \notin IssuedFor(u)
        BY <4>2, FreshIsNew DEF IndInv, IssuedFor, Issued
      <4>4. \A v \in Users : s \notin cut'[v]
        BY <1>4, <4>2, <4>3
      <4>5. user[u].ver + 1 <= user'[u].ver
        BY <1>1, <1>2, <1>3 DEF u
      <4> QED
        BY <1>5, <4>1, <4>2, <4>4, <4>5 DEF SlotInv, Issued, Rotating
    <3> QED
      BY <1>10, <3>1, <3>2
  <2> QED
    BY <2>2, <2>3
<1>18. \A x, y \in Requests : x # y => Apart(req[x], req[y])'
  <2>1. \A x \in Requests \ {r} : Apart(req'[r], req[x]) /\ Apart(req[x], req'[r])
    <3>1. CASE req'[r] = IdleSlot
      BY <3>1, IdleFits
    <3>2. ASSUME NEW s \in Fresh,
                 req'[r] = IssueSlot(req[r].op, u, s, user[u].ver + 1)
          PROVE  \A x \in Requests \ {r} :
                     Apart(req'[r], req[x]) /\ Apart(req[x], req'[r])
      <4>1. req'[r].pc = "create" /\ req'[r].next = s
        BY <3>2 DEF IssueSlot
      <4>2. \A x \in Requests : Reserving(req[x]) => req[x].next # s
        BY FreshIsNew DEF IndInv
      <4> QED
        BY <4>1, <4>2 DEF Apart
    <3> QED
      BY <1>10, <3>1, <3>2
  <2>2. \A x, y \in Requests : x # y => Apart(req'[x], req'[y])
    BY <1>10, <2>1 DEF IndInv, SlotsInv
  <2> QED
    BY <2>2 DEF Apart, Reserving
<1> QED
  BY <1>13, <1>14, <1>15, <1>16, <1>17, <1>18 DEF IndInv, SlotsInv

-----------------------------------------------------------------------------
(* The steps that insert a row and mint its access token.                  *)

\* Rows, and the families they are in, carry ids that were issued.
LEMMA RowsAreIssued ==
    ASSUME IndInv, NEW s \in Sids, Present(s)
    PROVE  s \in Issued /\ table[s].family \in Issued
<1>1. RowClaims(s) \in access
  BY DEF IndInv, RowsInv
<1>2. RowClaims(s).sid = s /\ RowClaims(s).family = table[s].family
  BY DEF RowClaims
<1>3. \E b \in access : b.sid = RowClaims(s).family
  BY <1>1 DEF IndInv, IssuedInv
<1> QED
  BY <1>1, <1>2, <1>3 DEF Issued

LEMMA IssueFacts ==
    ASSUME IndInv, NEW r \in Requests, req[r].pc \in {"create", "commit"}
    PROVE  /\ req[r] \in Request
           /\ req[r].next \in Sids /\ req[r].next \notin Issued
           /\ req[r].family \in Sids
           /\ NewClaims(req[r]) \in Claims
           /\ ~Present(req[r].next)
           /\ req[r].family = req[r].next \/ req[r].family \in Issued
<1>1. req[r] \in Request /\ SlotInv(req[r])
  BY DEF IndInv, TypeOK, SlotsInv
<1>2. req[r].next \in Sids /\ req[r].next \notin Issued
  BY <1>1 DEF SlotInv, Reserving
<1>3. CASE req[r].pc = "create"
  <2>1. req[r].family = req[r].next
    BY <1>1, <1>3 DEF SlotInv
  <2>2. ~Present(req[r].next)
    BY <1>2, RowsAreIssued
  <2>3. NewClaims(req[r]) \in Claims
    BY <1>1, <1>2, <2>1 DEF NewClaims, Claims, Request
  <2> QED
    BY <1>1, <1>2, <2>1, <2>2, <2>3
<1>4. CASE req[r].pc = "commit"
  <2>1. req[r].family \in Sids /\ SlotClaims(req[r]) \in access
    BY <1>4, RotatingType DEF Rotating
  <2>2. req[r].family \in Issued
    BY <2>1 DEF IndInv, IssuedInv, SlotClaims, Issued
  <2>3. ~Present(req[r].next)
    BY <1>2, RowsAreIssued
  <2>4. NewClaims(req[r]) \in Claims
    BY <1>1, <1>2, <2>1 DEF NewClaims, Claims, Request
  <2> QED
    BY <1>1, <1>2, <2>1, <2>2, <2>3, <2>4
<1> QED
  BY <1>3, <1>4

LEMMA IssueAccess ==
    ASSUME IndInv, NEW r \in Requests, req[r].pc \in {"create", "commit"},
           access' = access \cup {NewClaims(req[r])}, UNCHANGED <<user, cut>>
    PROVE  IssuedInv' /\ VersionInv'
<1> DEFINE c == NewClaims(req[r])
<1>1. c \in Claims /\ c.sid = req[r].next /\ c.family = req[r].family
      /\ c.owner = req[r].owner /\ c.ver = req[r].ver
  BY IssueFacts DEF NewClaims
<1>2. /\ c.sid \notin Issued
      /\ c.family = c.sid \/ c.family \in Issued
  BY <1>1, IssueFacts
<1>3. SlotInv(req[r]) /\ Reserving(req[r])
  BY DEF IndInv, SlotsInv, Reserving
<1>4. c \in access' /\ \A a \in access' : a \in access \/ a = c
  OBVIOUS
<1> HIDE DEF c
<1>5. IssuedInv'
  BY <1>2, <1>4 DEF IndInv, IssuedInv, Issued
<1>6. VersionInv'
  BY <1>1, <1>3, <1>4 DEF IndInv, VersionInv, SlotInv
<1> QED
  BY <1>5, <1>6

\* The other slots keep what they rely on: their ids are not the one issued,
\* and the rows they hold locked are not touched.
LEMMA IssueSlots ==
    ASSUME IndInv, NEW r \in Requests, req[r].pc \in {"create", "commit"},
           access' = access \cup {NewClaims(req[r])}, UNCHANGED <<user, cut>>,
           Finish(r),
           \A s \in Sids : Present(s) /\ (req[r].pc = "commit" => s # req[r].sid)
                               => table'[s] = table[s]
    PROVE  SlotsInv'
<1>1. /\ req'[r] = IdleSlot
      /\ \A x \in Requests \ {r} : req'[x] = req[x]
  BY DEF Finish, Goto, IndInv, TypeOK
<1>2. \A x, y \in Requests : x # y => Apart(req[x], req[y])'
  BY <1>1, IdleFits DEF IndInv, SlotsInv, Apart, Reserving
<1>3. SlotInv(req[r])'
  BY <1>1, IdleSlotType DEF SlotInv, Reserving, Rotating
<1>4. ASSUME NEW x \in Requests \ {r} PROVE SlotInv(req[x])'
  <2>1. SlotInv(req[x]) /\ req'[x] = req[x] /\ Apart(req[x], req[r])
    BY <1>1 DEF IndInv, SlotsInv
  <2>2. Reserving(req[x]) => req[x].next \notin Issued'
    <3>1. Reserving(req[x]) => req[x].next # req[r].next
      BY <2>1 DEF Apart, Reserving
    <3> QED
      BY <2>1, <3>1 DEF SlotInv, Issued, NewClaims
  <2>3. req[x].pc = "commit" =>
            Live(req[x].sid)' /\ table'[req[x].sid].next = NoSid
    <3> SUFFICES ASSUME req[x].pc = "commit"
                 PROVE  Live(req[x].sid)' /\ table'[req[x].sid].next = NoSid
      OBVIOUS
    <3>1. req[x].sid \in Sids
      BY RotatingType DEF Rotating
    <3>2. Live(req[x].sid) /\ table[req[x].sid].next = NoSid
      BY <2>1 DEF SlotInv
    <3>3. req[r].pc = "commit" => req[x].sid # req[r].sid
      BY <2>1 DEF Apart
    <3>4. table'[req[x].sid] = table[req[x].sid]
      BY <3>1, <3>2, <3>3 DEF Live
    <3> QED
      BY <2>1, <3>2, <3>4 DEF Live, Present
  <2> QED
    BY <2>1, <2>2, <2>3 DEF SlotInv, SlotClaims, Reserving, Rotating
<1> QED
  BY <1>2, <1>3, <1>4 DEF SlotsInv

LEMMA NewRowType ==
    ASSUME TypeOK, NEW r \in Requests, req[r].family \in Sids, NEW at \in Int
    PROVE  /\ NewRow(req[r], at) \in Row
           /\ NewRow(req[r], at).revokedAt = Null
           /\ NewRow(req[r], at).next = NoSid
           /\ NewRow(req[r], at).family = req[r].family
           /\ NewRow(req[r], at).owner = req[r].owner
           /\ NewRow(req[r], at).ver = req[r].ver
<1>1. req[r] \in Request
  BY DEF TypeOK
<1> QED
  BY <1>1, BoundsAssumption DEF NewRow, Row, Request, Null

LEMMA CreateAuthSessionStep ==
    ASSUME IndInv, NEW r \in Requests, CreateAuthSession(r)
    PROVE  IndInv'
<1>1. PICK n \in Sids : n = req[r].next
  BY IssueFacts DEF CreateAuthSession
<1>2. PICK c \in Claims : c = NewClaims(req[r])
  BY IssueFacts DEF CreateAuthSession
<1>3. PICK row \in Row : row = NewRow(req[r], now)
  <2>1. req[r].family \in Sids /\ now \in Int
    BY IssueFacts DEF CreateAuthSession, IndInv, TypeOK
  <2> QED
    BY <2>1, NewRowType DEF IndInv
<1>4. /\ req[r].pc = "create" /\ req[r].family = n
      /\ n \notin Issued /\ ~Present(n)
  BY <1>1, IssueFacts DEF CreateAuthSession, IndInv, SlotsInv, SlotInv
<1>5. /\ row.revokedAt = Null /\ row.next = NoSid /\ row.family = n
      /\ c = [sid |-> n, owner |-> row.owner, ver |-> row.ver, family |-> n]
  BY <1>1, <1>2, <1>3, <1>4 DEF NewRow, NewClaims
<1>6. /\ table'[n] = row
      /\ \A s \in Sids \ {n} : table'[s] = table[s]
      /\ access' = access \cup {c}
  BY <1>1, <1>2, <1>3 DEF CreateAuthSession, IndInv, TypeOK
<1>7. TypeOK'
  BY <1>1, <1>2, <1>3, IdleSlotType
  DEF IndInv, TypeOK, CreateAuthSession, Finish, Goto
<1>8. IssuedInv' /\ VersionInv'
  BY <1>4, IssueAccess DEF CreateAuthSession
<1>9. SlotsInv'
  <2>1. \A s \in Sids : Present(s) => table'[s] = table[s]
    BY <1>4, <1>6
  <2> QED
    BY <1>4, <2>1, IssueSlots DEF CreateAuthSession
<1>10. RowsInv'
  <2>1. \A s \in Sids \ {n} : /\ Present(s)' = Present(s)
                              /\ Live(s)' = Live(s)
                              /\ RowClaims(s)' = RowClaims(s)
    BY <1>6 DEF Present, Live, RowClaims
  <2>2. RowClaims(n)' = c
    BY <1>5, <1>6 DEF RowClaims
  <2>3. \A s \in Sids : Present(s)' => RowClaims(s)' \in access'
    BY <1>6, <2>1, <2>2 DEF IndInv, RowsInv
  <2>4. \A s \in Sids : Present(s)' /\ table'[s].next # NoSid =>
           /\ s # n /\ ~Live(s)'
           /\ \E a \in access' : /\ a.sid = table'[s].next
                                 /\ a.family = table'[s].family
                                 /\ a.owner = table'[s].owner
    BY <1>5, <1>6, <2>1 DEF IndInv, RowsInv
  <2>5. \A s, t \in Sids :
           Present(s)' /\ Present(t)' /\ table'[s].next # NoSid
               /\ table'[s].next = table'[t].next => s = t
    BY <1>5, <1>6, <2>1 DEF IndInv, RowsInv
  <2>6. \A s \in Sids : Present(s) => table[s].family # n
    BY <1>4, RowsAreIssued
  <2>7. OneLiveRowPerFamily'
    BY <1>5, <1>6, <2>1, <2>6 DEF IndInv, RowsInv, OneLiveRowPerFamily, Live
  <2> QED
    BY <2>3, <2>4, <2>5, <2>7 DEF RowsInv
<1> QED
  BY <1>7, <1>8, <1>9, <1>10 DEF IndInv

LEMMA RetiredRow ==
    ASSUME NEW row \in Row, NEW q \in Request, q.next \in Sids
    PROVE  /\ Retired(row, q) \in Row
           /\ Retired(row, q).revokedAt = q.at
           /\ Retired(row, q).next = q.next
           /\ Retired(row, q).family = row.family
           /\ Retired(row, q).owner = row.owner
           /\ Retired(row, q).ver = row.ver
<1> DEFINE a == [row EXCEPT !.revokedAt = q.at]
           b == [a EXCEPT !.lastUsedAt = q.at]
           old == [b EXCEPT !.next = q.next]
<1>0. q.at \in Nat
  BY DEF Request
<1>1. /\ a \in Row
      /\ a.revokedAt = q.at /\ a.family = row.family
      /\ a.owner = row.owner /\ a.ver = row.ver
  BY <1>0 DEF Row
<1> HIDE DEF a
<1>2. /\ b \in Row
      /\ b.revokedAt = q.at /\ b.family = row.family
      /\ b.owner = row.owner /\ b.ver = row.ver
  BY <1>0, <1>1 DEF Row
<1> HIDE DEF b
<1>3. /\ old \in Row
      /\ old.revokedAt = q.at /\ old.next = q.next
      /\ old.family = row.family /\ old.owner = row.owner
      /\ old.ver = row.ver
  BY <1>2 DEF Row
<1>4. Retired(row, q) = old
  BY Zenon DEF a, b, Retired
<1> HIDE DEF old
<1> QED
  BY <1>3, <1>4

LEMMA RotateCommitStep ==
    ASSUME IndInv, NEW r \in Requests, RotateCommit(r)
    PROVE  IndInv'
<1> USE DEF RotateCommit
<1>1. PICK n \in Sids : n = req[r].next
  BY IssueFacts DEF RetireAndInsert
<1>2. PICK c \in Claims : c = NewClaims(req[r])
  BY IssueFacts DEF RetireAndInsert
<1>3. PICK row \in Row : row = NewRow(req[r], req[r].at)
  <2>1. req[r].family \in Sids /\ req[r].at \in Int
    BY IssueFacts DEF RetireAndInsert, Request
  <2> QED
    BY <2>1, NewRowType DEF IndInv
<1>4. PICK o \in Sids : o = req[r].sid
  BY RotatingType DEF RetireAndInsert, Rotating
<1>5. /\ req[r].pc = "commit" /\ n \notin Issued /\ ~Present(n)
      /\ Live(o) /\ table[o].next = NoSid /\ SlotClaims(req[r]) \in access
      /\ req[r] \in Request
  BY <1>1, <1>4, IssueFacts, RotatingType
  DEF RetireAndInsert, IndInv, SlotsInv, SlotInv, Rotating
<1>6. table[o] \in Row /\ n # o
  BY <1>5, RowType DEF IndInv, Live
<1>7. /\ table[o].family = req[r].family /\ table[o].owner = req[r].owner
      /\ table[o].ver = req[r].ver
  <2>1. RowClaims(o) \in access
    BY <1>5 DEF IndInv, RowsInv, Live
  <2>2. RowClaims(o).sid = SlotClaims(req[r]).sid
    BY <1>4 DEF RowClaims, SlotClaims
  <2>3. RowClaims(o) = SlotClaims(req[r])
    BY <1>5, <2>1, <2>2 DEF IndInv, IssuedInv
  <2> QED
    BY <2>3 DEF RowClaims, SlotClaims
<1>8. /\ row.revokedAt = Null /\ row.next = NoSid
      /\ row.family = table[o].family /\ row.owner = table[o].owner
      /\ c = [sid |-> n, owner |-> row.owner, ver |-> row.ver,
              family |-> row.family]
  BY <1>1, <1>2, <1>3, <1>7 DEF NewRow, NewClaims
<1>9. PICK old \in Row :
          /\ old = Retired(table[o], req[r])
          /\ old.revokedAt = req[r].at /\ old.next = n
          /\ old.family = table[o].family /\ old.owner = table[o].owner
          /\ old.ver = table[o].ver
  BY <1>1, <1>5, <1>6, RetiredRow
<1>10. /\ table' \in [Sids -> Row \cup {NoRow}]
       /\ table'[n] = row /\ table'[o] = old
       /\ \A s \in Sids \ {n, o} : table'[s] = table[s]
       /\ access' = access \cup {c}
  BY <1>1, <1>2, <1>3, <1>4, <1>6, <1>9 DEF RetireAndInsert, IndInv, TypeOK
<1>11. TypeOK'
  <2>1. exchanged' \in [Sids -> Nat]
    BY <1>4 DEF IndInv, TypeOK, RetireAndInsert
  <2> QED
    BY <1>2, <1>10, <2>1, IdleSlotType
    DEF IndInv, TypeOK, RetireAndInsert, Finish, Goto
<1>12. IssuedInv' /\ VersionInv'
  BY <1>5, IssueAccess DEF RetireAndInsert
<1>13. SlotsInv'
  <2>1. \A s \in Sids : Present(s) /\ s # req[r].sid => table'[s] = table[s]
    BY <1>4, <1>5, <1>10
  <2> QED
    BY <1>5, <2>1, IssueSlots DEF RetireAndInsert
<1>14. RowsInv'
  <2>1. \A s \in Sids \ {n, o} : /\ Present(s)' = Present(s)
                                 /\ Live(s)' = Live(s)
                                 /\ RowClaims(s)' = RowClaims(s)
    BY <1>10 DEF Present, Live, RowClaims
  <2>2. RowClaims(n)' = c /\ RowClaims(o)' = RowClaims(o)
    BY <1>8, <1>9, <1>10 DEF RowClaims
  <2>3. req[r].at # Null
    BY <1>5 DEF Request, Null
  <2>4. Present(o) /\ ~Live(o)' /\ table'[o].next = n /\ table'[n].next = NoSid
    BY <1>5, <1>8, <1>9, <1>10, <2>3 DEF Live
  <2>5. \A s \in Sids : Present(s)' => RowClaims(s)' \in access'
    BY <1>10, <2>1, <2>2, <2>4 DEF IndInv, RowsInv
  <2>6. \A s \in Sids : Present(s)' /\ table'[s].next # NoSid =>
           /\ s # n /\ ~Live(s)'
           /\ \E a \in access' : /\ a.sid = table'[s].next
                                 /\ a.family = table'[s].family
                                 /\ a.owner = table'[s].owner
    <3>1. /\ c.sid = table'[o].next /\ c.family = table'[o].family
          /\ c.owner = table'[o].owner /\ c \in access'
      BY <1>8, <1>9, <1>10
    <3>2. \A s \in Sids \ {n, o} : Present(s)' /\ table'[s].next # NoSid =>
           /\ ~Live(s)'
           /\ \E a \in access' : /\ a.sid = table'[s].next
                                 /\ a.family = table'[s].family
                                 /\ a.owner = table'[s].owner
      BY <1>10, <2>1 DEF IndInv, RowsInv
    <3> QED
      BY <2>4, <3>1, <3>2
  <2>7. \A s, t \in Sids :
           Present(s)' /\ Present(t)' /\ table'[s].next # NoSid
               /\ table'[s].next = table'[t].next => s = t
    <3>1. \A s \in Sids \ {n, o} : Present(s) => table[s].next # n
      BY <1>5, SidsAssumption DEF IndInv, RowsInv, Issued
    <3> QED
      BY <1>10, <2>1, <2>4, <3>1 DEF IndInv, RowsInv
  <2>8. OneLiveRowPerFamily'
    <3>1. \A s \in Sids \ {n} : Live(s)' => /\ s # o /\ Live(s)
                                            /\ table'[s] = table[s]
      BY <1>10, <2>1, <2>4
    <3>2. \A s \in Sids \ {n, o} : Live(s) => table[s].family # row.family
      BY <1>5, <1>8 DEF IndInv, RowsInv, OneLiveRowPerFamily
    <3> QED
      BY <1>10, <3>1, <3>2 DEF IndInv, RowsInv, OneLiveRowPerFamily
  <2> QED
    BY <2>5, <2>6, <2>7, <2>8 DEF RowsInv
<1> QED
  BY <1>11, <1>12, <1>13, <1>14 DEF IndInv

-----------------------------------------------------------------------------
(* Invariance.                                                             *)

LEMMA NextInv == IndInv /\ [Next]_vars => IndInv'
<1> SUFFICES ASSUME IndInv, [Next]_vars PROVE IndInv'
  OBVIOUS
<1>1. ASSUME NEW r \in Requests, Start(r) PROVE IndInv'
  BY <1>1, LoginStep, RefreshReuseStep, RefreshLoadStep, LogoutStep,
     RevokeSessionStep, BumpUserStep, StepUpStep DEF Start
<1>2. ASSUME NEW r \in Requests, Progress(r) PROVE IndInv'
  BY <1>2, CreateAuthSessionStep, RefreshStaleStep, RefreshLoadUserStep,
     RotateLockStep, RotateCommitStep, RevokeSnapshotStep, RevokeApplyStep,
     BumpSnapshotStep, BumpCommitStep, StampApplyStep DEF Progress
<1>3. ASSUME NEW r \in Requests, Abandon(r) PROVE IndInv'
  BY <1>3, AbandonStep
<1>4. CASE UNCHANGED vars
  BY <1>4 DEF vars, IndInv, TypeOK, RowsInv, IssuedInv, VersionInv, SlotsInv,
     SlotInv, Apart, Reserving, Rotating, Present, Live, Issued, RowClaims,
     SlotClaims, OneLiveRowPerFamily
<1> QED
  BY <1>1, <1>2, <1>3, <1>4, TickStep, CleanupStep DEF Next

LEMMA Invariance == Spec => []IndInv
BY InitInv, NextInv, PTL DEF Spec

\* The tables and the request slots stay well-typed whatever requests
\* interleave (TypeOK of the session store).
THEOREM TypeCorrect == Spec => []TypeOK
<1>1. IndInv => TypeOK
  BY DEF IndInv
<1> QED
  BY <1>1, Invariance, PTL

\* For any number of concurrent refreshes, logouts and cleanups, rotation
\* (RotateAuthSession) leaves at most one unrevoked row per family.
THEOREM OneLiveRow == Spec => []OneLiveRowPerFamily
<1>1. IndInv => OneLiveRowPerFamily
  BY DEF IndInv, RowsInv
<1> QED
  BY <1>1, Invariance, PTL

\* Nothing whose issuance read the user before a token_version bump
\* (RevokeAllAuthSessions, ChangePassword, ResetPasswordWithToken,
\* DeleteAccount) works after it, even when it is inserted later.
THEOREM BumpsCutOff == Spec => []BumpCutsOff
<1>1. IndInv => BumpCutsOff
  <2> SUFFICES ASSUME IndInv, NEW u \in Users, NEW s \in cut[u]
               PROVE  /\ ~Refreshable(s)
                      /\ \A a \in access : a.sid = s => ~AccessAccepted(a)
    BY DEF BumpCutsOff
  <2>1. \A a \in access : a.sid = s => /\ a.owner = u /\ a.ver < user[u].ver
                                       /\ a \in Claims
    BY DEF IndInv, VersionInv, TypeOK
  <2>2. user[u].ver \in Nat /\ s \in Sids
    BY DEF IndInv, TypeOK
  <2>3. \A a \in access : a.sid = s => ~AccessAccepted(a)
    BY <2>1, <2>2 DEF AccessAccepted, Claims
  <2>4. ~Refreshable(s)
    <3> SUFFICES ASSUME Live(s), user[table[s].owner].ver = table[s].ver
                 PROVE  FALSE
      BY DEF Refreshable
    <3>1. RowClaims(s) \in access
      BY <2>2 DEF IndInv, RowsInv, Live
    <3>2. RowClaims(s).sid = s /\ RowClaims(s).owner = table[s].owner
          /\ RowClaims(s).ver = table[s].ver
      BY DEF RowClaims
    <3>3. table[s].owner = u /\ table[s].ver < user[u].ver
      BY <2>1, <3>1, <3>2
    <3> QED
      BY <2>2, <3>3
  <2> QED
    BY <2>3, <2>4
<1> QED
  BY <1>1, Invariance, PTL

-----------------------------------------------------------------------------
(* Refinement: every step of the request handlers is a step of             *)
(* SessionFamilies or leaves what it speaks about unchanged.               *)

AbsStep == [Families!Next]_(Families!absVars)

LEMMA UnseenStep ==
    ASSUME UNCHANGED <<table, access>>
    PROVE  AbsStep
BY DEF AbsStep, Families!absVars, RedeemablePairs, SpentIds, Live, Present, Issued

\* Rows that only go away close families.
LEMMA ClosingStep ==
    ASSUME IndInv, \A s \in Sids : Kept(s), access' = access
    PROVE  AbsStep
<1>1. \A s \in Sids : Live(s)' => Live(s) /\ table'[s].family = table[s].family
  BY DEF Kept, Live
<1>2. PICK D : D = RedeemablePairs \ RedeemablePairs'
  OBVIOUS
<1>3. RedeemablePairs' = RedeemablePairs \ D
  BY <1>1, <1>2 DEF RedeemablePairs
<1>4. SpentIds' = SpentIds \cup {p[1] : p \in D}
  <2>1. Issued \subseteq Sids /\ Issued' = Issued
    BY DEF IndInv, TypeOK, Claims, Issued
  <2>2. \A s \in Sids : s \in {p[1] : p \in D} <=> Live(s) /\ ~Live(s)'
    <3>1. ASSUME NEW p \in D
          PROVE  \E s \in Sids : p = <<s, table[s].family>> /\ Live(s)
      BY <1>2 DEF RedeemablePairs
    <3>2. ASSUME NEW s \in Sids
          PROVE  <<s, table[s].family>> \in RedeemablePairs' <=> Live(s)'
      BY <1>1 DEF RedeemablePairs
    <3>3. ASSUME NEW s \in Sids
          PROVE  <<s, table[s].family>> \in D <=> Live(s) /\ ~Live(s)'
      <4>1. <<s, table[s].family>> \in RedeemablePairs <=> Live(s)
        BY DEF RedeemablePairs
      <4> QED
        BY <1>2, <3>2, <4>1
    <3>4. ASSUME NEW s \in Sids, s \in {p[1] : p \in D}
          PROVE  Live(s) /\ ~Live(s)'
      <4>1. PICK p \in D : p[1] = s
        BY <3>4
      <4>2. p = <<s, table[s].family>>
        BY <3>1, <4>1
      <4> QED
        BY <3>3, <4>1, <4>2
    <3>5. ASSUME NEW s \in Sids, Live(s), ~Live(s)'
          PROVE  s \in {p[1] : p \in D}
      <4>1. <<s, table[s].family>> \in D
        BY <3>3, <3>5
      <4>2. <<s, table[s].family>>[1] = s
        OBVIOUS
      <4> QED
        BY <4>1, <4>2
    <3> QED
      BY <3>4, <3>5
  <2>3. \A s \in Sids : Live(s) => s \in Issued
    BY RowsAreIssued DEF Live
  <2>4. {p[1] : p \in D} \subseteq Sids
    BY <1>2 DEF RedeemablePairs
  <2> QED
    BY <1>1, <2>1, <2>2, <2>3, <2>4 DEF SpentIds
<1>5. CASE D = {}
  BY <1>3, <1>4, <1>5 DEF AbsStep, Families!absVars
<1>6. CASE D # {}
  <2>1. D \in SUBSET RedeemablePairs
    BY <1>2
  <2>2. Families!Close(D)
    BY <1>3, <1>4, <1>6 DEF Families!Close
  <2> QED
    BY <2>1, <2>2 DEF AbsStep, Families!Next
<1> QED
  BY <1>5, <1>6

\* The ids SessionFamilies knows are the issued ones.
LEMMA KnownIsIssued ==
    ASSUME IndInv
    PROVE  Families!Known = Issued
<1>1. \A s \in Sids : Live(s) => s \in Issued
  BY RowsAreIssued DEF Live
<1>2. \A s : s \in {p[1] : p \in RedeemablePairs} <=> s \in Sids /\ Live(s)
  <2>1. ASSUME NEW s, s \in {p[1] : p \in RedeemablePairs}
        PROVE  s \in Sids /\ Live(s)
    <3>1. PICK p \in RedeemablePairs : p[1] = s
      BY <2>1
    <3>2. PICK x \in Sids : Live(x) /\ p = <<x, table[x].family>>
      BY DEF RedeemablePairs
    <3> QED
      BY <3>1, <3>2
  <2>2. ASSUME NEW s \in Sids, Live(s)
        PROVE  s \in {p[1] : p \in RedeemablePairs}
    <3>1. <<s, table[s].family>> \in RedeemablePairs
      BY <2>2 DEF RedeemablePairs
    <3>2. <<s, table[s].family>>[1] = s
      OBVIOUS
    <3> QED
      BY <3>1, <3>2
  <2> QED
    BY <2>1, <2>2
<1>3. Issued \subseteq Sids
  BY DEF IndInv, TypeOK, Claims, Issued
<1> QED
  BY <1>1, <1>2, <1>3 DEF Families!Known, SpentIds

\* Minting an access token issues the reserved id.
LEMMA IssuedGrows ==
    ASSUME NEW r \in Requests, access' = access \cup {NewClaims(req[r])}
    PROVE  Issued' = Issued \cup {req[r].next}
<1>1. PICK c : c = NewClaims(req[r])
  OBVIOUS
<1>2. c.sid = req[r].next
  BY <1>1 DEF NewClaims
<1>3. Issued' = {a.sid : a \in access \cup {c}}
  BY <1>1 DEF Issued
<1> QED
  BY <1>2, <1>3 DEF Issued

LEMMA OpeningStep ==
    ASSUME IndInv, NEW r \in Requests, CreateAuthSession(r)
    PROVE  AbsStep
<1>1. PICK n \in Sids : n = req[r].next
  BY IssueFacts DEF CreateAuthSession
<1>2. req[r].pc = "create" /\ req[r].family = n /\ n \notin Issued /\ ~Present(n)
  BY <1>1, IssueFacts DEF CreateAuthSession, IndInv, SlotsInv, SlotInv
<1>3. PICK row \in Row : /\ row = NewRow(req[r], now)
                         /\ row.revokedAt = Null /\ row.family = n
  <2>1. req[r].family \in Sids /\ now \in Int
    BY <1>2, IssueFacts DEF IndInv, TypeOK
  <2> QED
    BY <1>2, <2>1, NewRowType DEF IndInv
<1>4. table'[n] = row /\ \A s \in Sids \ {n} : table'[s] = table[s]
  BY <1>1, <1>3 DEF CreateAuthSession, IndInv, TypeOK
<1>5. Issued' = Issued \cup {n}
  BY <1>1, IssuedGrows DEF CreateAuthSession
<1>6. Live(n)' /\ ~Live(n) /\ \A s \in Sids \ {n} : Live(s)' = Live(s)
  BY <1>2, <1>3, <1>4, RowAssumption DEF Live, Present
<1>7. RedeemablePairs' = RedeemablePairs \cup {<<n, n>>}
  BY <1>3, <1>4, <1>6 DEF RedeemablePairs
<1>8. SpentIds' = SpentIds
  <2>1. Issued \subseteq Sids
    BY DEF IndInv, TypeOK, Claims, Issued
  <2> QED
    BY <1>2, <1>5, <1>6, <2>1 DEF SpentIds
<1>9. n \notin Families!Known
  BY <1>2, KnownIsIssued
<1>10. \A p \in RedeemablePairs : p[2] # n
  <2>1. \A s \in Sids : Live(s) => table[s].family # n
    BY <1>2, RowsAreIssued DEF Live
  <2> QED
    BY <2>1 DEF RedeemablePairs
<1>11. Families!Open(n)
  BY <1>7, <1>8, <1>9, <1>10 DEF Families!Open
<1> QED
  BY <1>11 DEF AbsStep, Families!Next

LEMMA RotatingStep ==
    ASSUME IndInv, NEW r \in Requests, RotateCommit(r)
    PROVE  AbsStep
<1> USE DEF RotateCommit
<1>1. PICK n \in Sids : n = req[r].next
  BY IssueFacts DEF RetireAndInsert
<1>2. PICK o \in Sids : o = req[r].sid
  BY RotatingType DEF RetireAndInsert, Rotating
<1>3. /\ req[r].pc = "commit" /\ n \notin Issued /\ ~Present(n) /\ Live(o)
      /\ SlotClaims(req[r]) \in access /\ req[r] \in Request
      /\ req[r].family \in Sids
  BY <1>1, <1>2, IssueFacts, RotatingType
  DEF RetireAndInsert, IndInv, SlotsInv, SlotInv, Rotating
<1>4. PICK f \in Sids : f = req[r].family
  BY <1>3
<1>5. table[o] \in Row /\ n # o /\ table[o].family = f
  <2>1. table[o] \in Row /\ n # o
    BY <1>3, RowType DEF IndInv, Live
  <2>2. RowClaims(o) \in access /\ RowClaims(o).sid = SlotClaims(req[r]).sid
    <3>1. RowClaims(o) \in access
      BY <1>3 DEF IndInv, RowsInv, Live
    <3> QED
      BY <1>2, <3>1 DEF RowClaims, SlotClaims
  <2>3. RowClaims(o) = SlotClaims(req[r])
    BY <1>3, <2>2 DEF IndInv, IssuedInv
  <2> QED
    BY <1>4, <2>1, <2>3 DEF RowClaims, SlotClaims
<1>6. req[r].at \in Nat
  BY <1>3 DEF Request
<1>7. PICK row \in Row : /\ row = NewRow(req[r], req[r].at)
                         /\ row.revokedAt = Null /\ row.family = f
  BY <1>3, <1>4, <1>6, NewRowType DEF IndInv
<1>8. PICK old \in Row : /\ old = Retired(table[o], req[r])
                         /\ old.revokedAt # Null /\ old.family = f
  <2>1. req[r].at # Null
    BY <1>6 DEF Null
  <2>2. /\ Retired(table[o], req[r]) \in Row
        /\ Retired(table[o], req[r]).revokedAt = req[r].at
        /\ Retired(table[o], req[r]).family = table[o].family
    BY <1>1, <1>3, <1>5, RetiredRow
  <2> QED
    BY <1>5, <2>1, <2>2
<1>9. /\ table'[n] = row /\ table'[o] = old
      /\ \A s \in Sids \ {n, o} : table'[s] = table[s]
  BY <1>1, <1>2, <1>5, <1>7, <1>8 DEF RetireAndInsert, IndInv, TypeOK
<1>10. Issued' = Issued \cup {n}
  BY <1>1, IssuedGrows DEF RetireAndInsert
<1>11. /\ Live(n)' /\ ~Live(n) /\ Live(o) /\ ~Live(o)'
       /\ \A s \in Sids \ {n, o} : Live(s)' = Live(s)
  BY <1>3, <1>7, <1>8, <1>9, RowAssumption DEF Live, Present
<1>12. RedeemablePairs' = (RedeemablePairs \ {<<o, f>>}) \cup {<<n, f>>}
  BY <1>5, <1>7, <1>9, <1>11 DEF RedeemablePairs
<1>13. SpentIds' = SpentIds \cup {o}
  <2>1. Issued \subseteq Sids /\ o \in Issued
    BY <1>3, RowsAreIssued DEF IndInv, TypeOK, Claims, Issued, Live
  <2> QED
    BY <1>3, <1>10, <1>11, <2>1 DEF SpentIds
<1>14. n \notin Families!Known /\ <<o, f>> \in RedeemablePairs
  BY <1>3, <1>5, KnownIsIssued DEF RedeemablePairs
<1>15. Families!Rotate(o, n, f)
  BY <1>12, <1>13, <1>14 DEF Families!Rotate
<1> QED
  BY <1>15 DEF AbsStep, Families!Next

LEMMA BumpKeeps ==
    ASSUME IndInv, NEW r \in Requests, BumpCommit(r)
    PROVE  (\A s \in Sids : Kept(s)) /\ access' = access
<1>1. req[r].targets \in SUBSET Sids
  BY DEF IndInv, TypeOK, Request
<1> QED
  BY <1>1, RevokedKeeps, DeletedKeeps DEF BumpCommit

LEMMA StampKeeps ==
    ASSUME IndInv, NEW r \in Requests, StampApply(r)
    PROVE  \A s \in Sids : Kept(s)
<1>1. req[r].targets \in SUBSET Sids
  BY DEF IndInv, TypeOK, Request
<1> SUFFICES ASSUME NEW s \in Sids PROVE Kept(s)
  OBVIOUS
<1>2. CASE s \in req[r].targets /\ Live(s)
  <2>1. table[s] \in Row
    BY <1>2, RowType DEF IndInv, Live
  <2>2. table'[s] = [table[s] EXCEPT !.mfa = req[r].at]
    BY <1>2 DEF StampApply
  <2>3. ~RowLocked(s)
    BY <1>2 DEF StampApply, Unlocked
  <2> QED
    BY <1>2, <2>1, <2>2, <2>3 DEF Kept, Present, Live, Row
<1>3. CASE ~(s \in req[r].targets /\ Live(s))
  <2>1. table'[s] = table[s]
    BY <1>3 DEF StampApply
  <2> QED
    BY <2>1 DEF Kept, Present, Live
<1> QED
  BY <1>2, <1>3

LEMMA NextRefines == IndInv /\ [Next]_vars => AbsStep
<1> SUFFICES ASSUME IndInv, [Next]_vars PROVE AbsStep
  OBVIOUS
<1>1. ASSUME NEW r \in Requests, Start(r) PROVE AbsStep
  BY <1>1, UnseenStep DEF Start, Login, RefreshReuse, RefreshLoad, Logout,
     RevokeSession, BumpUser, StepUp
<1>2. ASSUME NEW r \in Requests, Progress(r) PROVE AbsStep
  <2>1. CASE \/ RefreshStale(r) \/ RotateLock(r) \/ RevokeSnapshot(r)
             \/ BumpSnapshot(r) \/ \E s \in Sids : RefreshLoadUser(r, s)
    BY <2>1, UnseenStep DEF RefreshStale, RotateLock, ValidateRotation, RevokeSnapshot,
       BumpSnapshot, RefreshLoadUser
  <2>2. CASE CreateAuthSession(r)
    BY <2>2, OpeningStep
  <2>3. CASE RotateCommit(r)
    BY <2>3, RotatingStep
  <2>4. CASE RevokeApply(r)
    <3>1. req[r].targets \in SUBSET Sids
      BY DEF IndInv, TypeOK, Request
    <3> QED
      BY <2>4, <3>1, RevokedKeeps, ClosingStep DEF RevokeApply
  <2>5. CASE BumpCommit(r)
    BY <2>5, BumpKeeps, ClosingStep
  <2>6. CASE StampApply(r)
    BY <2>6, StampKeeps, ClosingStep DEF StampApply
  <2> QED
    BY <1>2, <2>1, <2>2, <2>3, <2>4, <2>5, <2>6 DEF Progress
<1>3. ASSUME NEW r \in Requests, Abandon(r) PROVE AbsStep
  BY <1>3, UnseenStep DEF Abandon
<1>4. CASE Tick \/ UNCHANGED vars
  BY <1>4, UnseenStep DEF Tick, vars
<1>5. CASE CleanupAuthData
  <2>1. {s \in Sids : Purgeable(s)} \in SUBSET Sids
    OBVIOUS
  <2> QED
    BY <1>5, <2>1, DeletedKeeps, ClosingStep DEF CleanupAuthData
<1> QED
  BY <1>1, <1>2, <1>3, <1>4, <1>5 DEF Next

-----------------------------------------------------------------------------
(* A token is exchanged once: an exchange spends it, and by the refinement *)
(* a spent token stays spent, even after its row was purged.               *)

ExchangeInv ==
    \A s \in Sids : exchanged[s] <= 1 /\ (exchanged[s] # 0 => s \in SpentIds)

LEMMA SpentStays == IndInv /\ [Next]_vars => SpentIds \subseteq SpentIds'
BY NextRefines
DEF AbsStep, Families!Next, Families!absVars, Families!Open, Families!Rotate,
    Families!Close

\* An exchange takes a live row and leaves it revoked.
LEMMA ExchangeSpends ==
    ASSUME IndInv, NEW r \in Requests, RotateCommit(r)
    PROVE  /\ req[r].sid \in Sids
           /\ req[r].sid \notin SpentIds
           /\ req[r].sid \in SpentIds'
<1> USE DEF RotateCommit
<1>1. PICK o \in Sids : o = req[r].sid
  BY RotatingType DEF RetireAndInsert, Rotating
<1>2. Live(o) /\ req[r] \in Request /\ req[r].next \in Sids /\ req[r].next \notin Issued
  BY <1>1, IssueFacts DEF RetireAndInsert, IndInv, SlotsInv, SlotInv
<1>3. table[o] \in Row /\ o \in Issued
  BY <1>2, RowType, RowsAreIssued DEF IndInv, Live
<1>4. Retired(table[o], req[r]) \in Row
      /\ Retired(table[o], req[r]).revokedAt = req[r].at
  BY <1>2, <1>3, RetiredRow
<1>5. table'[o] = Retired(table[o], req[r])
  BY <1>1, <1>2, <1>3 DEF RetireAndInsert, IndInv, TypeOK
<1>6. req[r].at # Null
  BY <1>2 DEF Request, Null
<1>7. ~Live(o)'
  BY <1>4, <1>5, <1>6 DEF Live
<1>8. o \in Issued'
  BY <1>3, IssuedGrows DEF RetireAndInsert
<1> QED
  BY <1>1, <1>2, <1>7, <1>8 DEF SpentIds

LEMMA ExchangeStep == IndInv /\ ExchangeInv /\ [Next]_vars => ExchangeInv'
<1> SUFFICES ASSUME IndInv, ExchangeInv, [Next]_vars PROVE ExchangeInv'
  OBVIOUS
<1>1. SpentIds \subseteq SpentIds' /\ exchanged \in [Sids -> Nat]
  BY SpentStays DEF IndInv, TypeOK
<1>2. ASSUME NEW r \in Requests, RotateCommit(r) PROVE ExchangeInv'
  <2>1. PICK o \in Sids : /\ o = req[r].sid
                          /\ o \notin SpentIds /\ o \in SpentIds'
    BY <1>2, ExchangeSpends
  <2>2. exchanged' = [exchanged EXCEPT ![o] = @ + 1]
    BY <1>2, <2>1 DEF RotateCommit, RetireAndInsert
  <2>3. exchanged[o] = 0
    BY <2>1 DEF ExchangeInv
  <2>4. exchanged'[o] = 1 /\ \A s \in Sids \ {o} : exchanged'[s] = exchanged[s]
    BY <1>1, <2>2, <2>3
  <2> QED
    BY <1>1, <2>1, <2>4 DEF ExchangeInv
<1>3. CASE exchanged' = exchanged
  BY <1>1, <1>3 DEF ExchangeInv
<1>4. ASSUME NEW r \in Requests, Start(r) PROVE exchanged' = exchanged
  BY <1>4 DEF Start, Login, RefreshReuse, RefreshLoad, Logout, RevokeSession,
     BumpUser, StepUp
<1>5. ASSUME NEW r \in Requests, Progress(r), ~RotateCommit(r)
      PROVE  exchanged' = exchanged
  BY <1>5 DEF Progress, CreateAuthSession, RefreshStale, RefreshLoadUser, RotateLock,
     ValidateRotation, RevokeSnapshot, RevokeApply, BumpSnapshot, BumpCommit,
     StampApply
<1>6. ASSUME Tick \/ CleanupAuthData \/ UNCHANGED vars \/ \E r \in Requests : Abandon(r)
      PROVE  exchanged' = exchanged
  BY <1>6 DEF Tick, CleanupAuthData, vars, Abandon
<1> QED
  BY <1>2, <1>3, <1>4, <1>5, <1>6 DEF Next

\* RotateAuthSession exchanges a refresh token at most once in its life, for any
\* number of concurrent refreshes and also after its row was purged, and the
\* token it was exchanged for stays in its family and with its owner.
THEOREM LinearRotation == Spec => []RotationIsLinear
<1>1. Init => ExchangeInv
  BY DEF Init, ExchangeInv
<1>2. IndInv /\ ExchangeInv => RotationIsLinear
  <2> SUFFICES ASSUME IndInv, ExchangeInv, NEW s \in Sids
               PROVE  /\ exchanged[s] <= 1
                      /\ Present(s) /\ table[s].next # NoSid =>
                             \A a \in access : a.sid = table[s].next =>
                                 /\ a.family = table[s].family
                                 /\ a.owner = table[s].owner
    BY DEF RotationIsLinear
  <2>1. exchanged[s] <= 1
    BY DEF ExchangeInv
  <2>2. ASSUME Present(s), table[s].next # NoSid, NEW a \in access,
               a.sid = table[s].next
        PROVE  a.family = table[s].family /\ a.owner = table[s].owner
    BY <2>2 DEF IndInv, RowsInv, IssuedInv
  <2> QED
    BY <2>1, <2>2
<1> QED
  BY <1>1, <1>2, ExchangeStep, Invariance, PTL DEF Spec

-----------------------------------------------------------------------------
\* The request handlers of session.go and the statements of
\* auth_session_postgres.go implement SessionFamilies: one redeemable token
\* per exchange, and no spent token or closed family ever comes back.
THEOREM RefinesFamilies == Spec => ImplementsFamilies
<1>1. Init => Families!Init
  BY DEF Init, Families!Init, RedeemablePairs, SpentIds, Live, Present, Issued
<1>2. IndInv /\ [Next]_vars => [Families!Next]_(Families!absVars)
  BY NextRefines DEF AbsStep
<1> QED
  BY <1>1, <1>2, Invariance, PTL DEF Spec, ImplementsFamilies, Families!Spec
=============================================================================
