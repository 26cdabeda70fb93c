------------------------- MODULE SecondFactorProofs -------------------------
(***************************************************************************)
(* Proofs about SecondFactor for any number of secrets, batches of         *)
(* recovery codes, challenges, families and concurrent requests.           *)
(***************************************************************************)
EXTENDS SecondFactor, TLAPS

-----------------------------------------------------------------------------
(* The inductive invariant.                                                *)

\* What a slot may rely on at each program counter.
SlotInv(q) ==
    /\ q.ver <= ver
    /\ q.fam # None => ses[q.fam] # None
    /\ q.op \in {"stepUp", "confirm"} => q.fam # None
    /\ q.op = "verify" => q.chal # None
    /\ q.chal # None => chal[q.chal] # None
    /\ q.pc = "challenge" => q.op = "login" /\ q.chal = None
    /\ q.pc = "enrollment" => q.op = "verify"
    /\ q.pc = "factor" => q.op \in {"verify", "reset", "stepUp", "confirm"}
    /\ q.pc \in {"factor", "consume"} /\ q.op = "reset" => q.chal # None
    /\ q.pc = "consume" => q.op \in {"verify", "reset"}
    /\ q.pc = "confirm" => q.op = "confirm"
    /\ q.pc = "stamp" => q.op \in {"stepUp", "confirm"}
    /\ q.pc \in {"replace", "insert"} => q.op \in {"confirm", "regenerate"}
    /\ q.pc = "create" /\ q.chal # None => chal[q.chal].consumed

SlotsInv == \A r \in Requests : SlotInv(req[r])

\* A slot about to open a session with a challenge has spent it alone.
Buying(q) == q.pc = "create" /\ q.chal # None

ChallengeInv ==
    /\ \A f \in Families : ses[f] # None /\ ses[f].from # None =>
           chal[ses[f].from] # None /\ chal[ses[f].from].consumed
    /\ \A f \in Families, r \in Requests :
           ses[f] # None /\ Buying(req[r]) => ses[f].from # req[r].chal
    /\ \A r, x \in Requests :
           Buying(req[r]) /\ Buying(req[x]) /\ req[r].chal = req[x].chal => r = x
    /\ OneSessionPerChallenge

\* A code that can still be redeemed was not, and neither was one of a batch
\* that was not generated; a step that was accepted lies behind the guard.
FactorInv ==
    /\ \A x \in RecoveryCodes : x \in codes => uses[x] = 0 /\ x[1] \in shown
    /\ \A x \in RecoveryCodes : x[1] \notin shown => uses[x] = 0
    /\ mfa # None => \A t \in Times : mfa.uses[t] > 0 => t <= mfa.step
    /\ FactorAcceptedOnce

\* The session of a family is usable: not revoked, and of the current version.
Usable(f) == LiveFamily(f) /\ Authenticated(f)

InForce(x) == Confirmed /\ mfa.secret = x

\* A slot that goes on to stamp a usable session read the secret in force.
VouchInv(q) ==
    /\ q.op = "verify" /\ q.pc \in {"factor", "consume", "create"} /\ q.ver = ver
           => InForce(q.secret)
    /\ \/ q.op = "stepUp" /\ q.pc \in {"factor", "stamp"}
       \/ q.op = "confirm" /\ q.pc \in {"replace", "insert", "stamp"}
       => (Usable(q.fam) => InForce(q.secret))

StampInv ==
    ~Removing /\ ~cutShort =>
        /\ \A r \in Requests : VouchInv(req[r])
        /\ \A f \in Families :
               Usable(f) /\ ses[f].stamp # Null => InForce(ses[f].by)

VersionInv == \A f \in Families : ses[f] # None => ses[f].ver <= ver

IndInv == TypeOK /\ SlotsInv /\ ChallengeInv /\ FactorInv /\ VersionInv /\ StampInv

-----------------------------------------------------------------------------
LEMMA NewOfType == ASSUME NEW S, S # {} PROVE NewOf(S) \in S
BY DEF NewOf

LEMMA SlotType ==
    ASSUME NEW pc \in PCs, NEW op \in Ops
    PROVE  Slot(pc, op) \in Request
BY DEF Slot, Request

\* An idle slot fulfils every part of the invariant.
LEMMA IdleFits ==
    ASSUME TypeOK
    PROVE  /\ IdleSlot \in Request
           /\ IdleSlot.pc = "idle"
           /\ SlotInv(IdleSlot) /\ VouchInv(IdleSlot) /\ ~Buying(IdleSlot)
<1>1. IdleSlot \in Request
  BY SlotType DEF IdleSlot, PCs, Ops
<1> QED
  BY <1>1 DEF TypeOK, IdleSlot, Slot, SlotInv, VouchInv, Buying

LEMMA InitInv == Init => IndInv
<1> SUFFICES ASSUME Init PROVE IndInv
  OBVIOUS
<1>0. NewOf(Secrets) \in Secrets /\ NewOf(Batches) \in Batches
  BY BoundsAssumption, NewOfType
<1>1. PICK start \in Starts :
        LET x == NewOf(Secrets)
            b == IF start = "stocked" THEN {NewOf(Batches)} ELSE {}
        IN  /\ mfa = IF start = "none" THEN None
                     ELSE [secret |-> x, step |-> 0, confirmed |-> TRUE,
                           proved |-> TRUE, uses |-> [t \in Times |-> 0]]
            /\ shown = IF start = "none" THEN {} ELSE {x} \cup b
            /\ codes = b \X (1..BatchSize)
  BY DEF Init
<1>2. IdleSlot \in Request
  BY SlotType DEF IdleSlot, PCs, Ops
<1>3. mfa \in UserMFA \cup {None}
  BY <1>0, <1>1 DEF UserMFA
<1>4. shown \subseteq Secrets \cup Batches /\ codes \subseteq RecoveryCodes
  BY <1>0, <1>1 DEF RecoveryCodes
<1>5. TypeOK
  <2>1. cutShort \in BOOLEAN
    BY DEF Init
  <2>2. now \in 1..MaxTime /\ ver \in Nat
    BY BoundsAssumption DEF Init
  <2>3. /\ chal \in [Challenges -> MFAChallenge \cup {None}]
        /\ ses \in [Families -> Session \cup {None}]
        /\ req \in [Requests -> Request]
        /\ uses \in [RecoveryCodes -> Nat]
    BY <1>2 DEF Init
  <2> QED
    BY <1>3, <1>4, <2>1, <2>2, <2>3 DEF TypeOK
<1>6. SlotsInv /\ \A r \in Requests : VouchInv(req[r]) /\ ~Buying(req[r])
  BY <1>5, IdleFits DEF Init, SlotsInv
<1>7. ChallengeInv
  BY <1>6 DEF Init, ChallengeInv, OneSessionPerChallenge
<1>8. \A x \in codes : x[1] \in shown
  BY <1>1, BoundsAssumption
<1>9. mfa # None => \A t \in Times : mfa.uses[t] = 0
  BY <1>1
<1>10. FactorInv
  BY <1>8, <1>9 DEF Init, FactorInv, FactorAcceptedOnce
<1>11. VersionInv /\ StampInv
  BY <1>6 DEF Init, VersionInv, StampInv, Usable, LiveFamily
<1> QED
  BY <1>5, <1>6, <1>7, <1>10, <1>11 DEF IndInv

-----------------------------------------------------------------------------
(* A step that only moves one request to a slot the invariant allows.      *)

LEMMA SlotStep ==
    ASSUME IndInv, NEW r \in Requests, NEW q \in Request,
           Goto(r, q), SlotInv(q), ~Buying(q),
           ~Removing /\ ~cutShort => VouchInv(q),
           cutShort' \in BOOLEAN, cutShort => cutShort',
           At(r, "revokeAll") => cutShort',
           UNCHANGED <<mfa, codes, chal, ses, ver, now, shown, uses>>
    PROVE  IndInv'
<1>1. \A x \in Requests : req'[x] = IF x = r THEN q ELSE req[x]
  BY DEF Goto, IndInv, TypeOK
<1>2. TypeOK'
  BY DEF IndInv, TypeOK, Goto
<1>3. SlotsInv'
  BY <1>1 DEF IndInv, SlotsInv, SlotInv
<1>4. ChallengeInv'
  BY <1>1 DEF IndInv, ChallengeInv, Buying, OneSessionPerChallenge
<1>5. FactorInv' /\ VersionInv'
  BY DEF IndInv, FactorInv, FactorAcceptedOnce, VersionInv
<1>6. ASSUME ~Removing', ~cutShort'
      PROVE  ~Removing /\ ~cutShort
  BY <1>1, <1>6 DEF Removing, At
<1>7. ASSUME ~Removing', ~cutShort', NEW x \in Requests
      PROVE  VouchInv(req[x])'
  <2>1. VouchInv(req[x]) /\ VouchInv(q)
    BY <1>6, <1>7 DEF IndInv, StampInv
  <2> QED
    BY <1>1, <2>1 DEF VouchInv, Usable, LiveFamily, Authenticated, InForce, Confirmed
<1>8. ASSUME ~Removing', ~cutShort', NEW f \in Families
      PROVE  (Usable(f) /\ ses[f].stamp # Null => InForce(ses[f].by))'
  BY <1>6, <1>8 DEF IndInv, StampInv, Usable, LiveFamily, Authenticated, InForce, Confirmed
<1>9. StampInv'
  BY <1>7, <1>8 DEF StampInv
<1> QED
  BY <1>2, <1>3, <1>4, <1>5, <1>9 DEF IndInv

\* A request that ends, or dies before a revocation.
LEMMA FinishStep ==
    ASSUME IndInv, NEW r \in Requests, Finish(r), ~At(r, "revokeAll"),
           UNCHANGED <<mfa, codes, chal, ses, ver, now, shown, uses, cutShort>>
    PROVE  IndInv'
<1>1. TypeOK /\ cutShort' \in BOOLEAN
  BY DEF IndInv, TypeOK
<1> QED
  BY <1>1, IdleFits, SlotStep DEF Finish

\* A request that moves on with what it knows: the parts of the invariant that
\* depend on the program counter hold at the new one.
LEMMA JumpStep ==
    ASSUME IndInv, NEW r \in Requests, NEW pc \in PCs, Jump(r, pc), ~At(r, "revokeAll"),
           SlotInv([req[r] EXCEPT !.pc = pc]), ~Buying([req[r] EXCEPT !.pc = pc]),
           ~Removing /\ ~cutShort => VouchInv([req[r] EXCEPT !.pc = pc]),
           UNCHANGED <<mfa, codes, chal, ses, ver, now, shown, uses, cutShort>>
    PROVE  IndInv'
<1>1. cutShort' \in BOOLEAN /\ [req[r] EXCEPT !.pc = pc] \in Request
  BY DEF IndInv, TypeOK, Request
<1> QED
  BY <1>1, SlotStep DEF Jump

\* The same for a request that has just been taken up.
LEMMA StartStep ==
    ASSUME IndInv, NEW r \in Requests, NEW q \in Request, Free(r), Goto(r, q),
           SlotInv(q), ~Buying(q), VouchInv(q),
           UNCHANGED <<mfa, codes, chal, ses, ver, now, shown, uses, cutShort>>
    PROVE  IndInv'
<1>1. cutShort' \in BOOLEAN
  BY DEF IndInv, TypeOK
<1> QED
  BY <1>1, SlotStep DEF Free, At

LEMMA LoginInv ==
    ASSUME IndInv, NEW r \in Requests, Login(r)
    PROVE  IndInv'
<1> DEFINE q == [Slot("challenge", "login") EXCEPT !.ver = ver]
<1>1. ver \in Nat
  BY DEF IndInv, TypeOK
<1>2. q \in Request /\ SlotInv(q) /\ ~Buying(q) /\ VouchInv(q)
  BY <1>1, SlotType DEF Slot, Request, PCs, Ops, SlotInv, Buying, VouchInv
<1> QED
  BY <1>2, StartStep DEF Login

LEMMA LoginUnchallengedInv ==
    ASSUME IndInv, NEW r \in Requests, LoginUnchallenged(r)
    PROVE  IndInv'
<1> DEFINE q == [req[r] EXCEPT !.pc = "create"]
<1>1. SlotInv(req[r]) /\ req[r] \in Request
  BY DEF IndInv, SlotsInv, TypeOK
<1>2. SlotInv(q) /\ ~Buying(q) /\ VouchInv(q)
  BY <1>1 DEF LoginUnchallenged, At, Request, SlotInv, Buying, VouchInv
<1> QED
  BY <1>2, JumpStep DEF LoginUnchallenged, At, PCs

LEMMA ConfirmMFAEnrollmentInv ==
    ASSUME IndInv, NEW r \in Requests, NEW f \in Families, ConfirmMFAEnrollment(r, f)
    PROVE  IndInv'
<1> DEFINE q == [Slot("factor", "confirm") EXCEPT !.fam = f, !.secret = mfa.secret]
<1>1. ver \in Nat /\ mfa.secret \in Secrets
  BY DEF IndInv, TypeOK, UserMFA, ConfirmMFAEnrollment
<1>2. q \in Request
  BY <1>1 DEF Slot, Request, PCs, Ops
<1>3. q.pc = "factor" /\ q.op = "confirm" /\ q.ver = 0 /\ q.fam = f /\ q.chal = None
  BY DEF Slot
<1>4. SlotInv(q) /\ ~Buying(q) /\ VouchInv(q)
  BY <1>1, <1>3, DistinctAssumption
  DEF ConfirmMFAEnrollment, Authenticated, SlotInv, Buying, VouchInv
<1> QED
  BY <1>2, <1>4, StartStep DEF ConfirmMFAEnrollment

LEMMA ReplaceSnapshotInv ==
    ASSUME IndInv, NEW r \in Requests, ReplaceSnapshot(r)
    PROVE  IndInv'
<1> DEFINE q == [req[r] EXCEPT !.pc = "insert", !.targets = codes]
<1>1. SlotInv(req[r]) /\ req[r] \in Request /\ codes \subseteq RecoveryCodes /\ cutShort \in BOOLEAN
  BY DEF IndInv, SlotsInv, TypeOK
<1>2. q \in Request
  BY <1>1 DEF Request, PCs
<1>3. SlotInv(q) /\ ~Buying(q)
  BY <1>1 DEF ReplaceSnapshot, At, Request, SlotInv, Buying
<1>4. ~Removing /\ ~cutShort => VouchInv(q)
  BY <1>1 DEF IndInv, StampInv, VouchInv, ReplaceSnapshot, At, Request
<1> QED
  BY <1>1, <1>2, <1>3, <1>4, SlotStep DEF ReplaceSnapshot, At

LEMMA RefuseFactorInv ==
    ASSUME IndInv, NEW r \in Requests, RefuseFactor(r)
    PROVE  IndInv'
BY FinishStep DEF RefuseFactor, At

LEMMA VerifyMFALoginInv ==
    ASSUME IndInv, NEW r \in Requests, NEW c \in Challenges, VerifyMFALogin(r, c)
    PROVE  IndInv'
<1> DEFINE q == [Slot("enrollment", "verify") EXCEPT !.chal = c, !.ver = ver]
<1>1. ver \in Nat
  BY DEF IndInv, TypeOK
<1>2. q \in Request
  BY <1>1 DEF Slot, Request, PCs, Ops
<1>3. q.pc = "enrollment" /\ q.op = "verify" /\ q.ver = ver /\ q.fam = None /\ q.chal = c
  BY DEF Slot
<1>4. SlotInv(q) /\ ~Buying(q) /\ VouchInv(q)
  BY <1>1, <1>3, DistinctAssumption
  DEF VerifyMFALogin, OpenChallenge, SlotInv, Buying, VouchInv
<1> QED
  BY <1>2, <1>4, StartStep DEF VerifyMFALogin

LEMMA LoadEnrollmentInv ==
    ASSUME IndInv, NEW r \in Requests, LoadEnrollment(r)
    PROVE  IndInv'
<1> DEFINE q == [req[r] EXCEPT !.pc = "factor", !.secret = mfa.secret]
<1>1. CASE ~Confirmed
  BY <1>1, FinishStep DEF LoadEnrollment, At
<1>2. CASE Confirmed
  <2>1. SlotInv(req[r]) /\ req[r] \in Request /\ mfa.secret \in Secrets /\ cutShort \in BOOLEAN
    BY <1>2 DEF IndInv, SlotsInv, TypeOK, Confirmed, UserMFA
  <2>2. q \in Request
    BY <2>1 DEF Request, PCs
  <2>3. SlotInv(q) /\ ~Buying(q)
    BY <2>1 DEF LoadEnrollment, At, Request, SlotInv, Buying
  <2>4. VouchInv(q)
    BY <1>2, <2>1 DEF VouchInv, Request, InForce
  <2> QED
    BY <1>2, <2>1, <2>2, <2>3, <2>4, SlotStep DEF LoadEnrollment, At
<1> QED
  BY <1>1, <1>2

LEMMA StepUpMFAInv ==
    ASSUME IndInv, NEW r \in Requests, NEW f \in Families, StepUpMFA(r, f)
    PROVE  IndInv'
<1> DEFINE q == [Slot("factor", "stepUp") EXCEPT !.fam = f, !.secret = mfa.secret]
<1>1. ver \in Nat /\ mfa.secret \in Secrets
  BY DEF IndInv, TypeOK, UserMFA, StepUpMFA, Confirmed
<1>2. q \in Request
  BY <1>1 DEF Slot, Request, PCs, Ops
<1>3. /\ q.pc = "factor" /\ q.op = "stepUp" /\ q.ver = 0 /\ q.fam = f /\ q.chal = None
      /\ q.secret = mfa.secret
  BY DEF Slot
<1>4. SlotInv(q) /\ ~Buying(q) /\ VouchInv(q)
  BY <1>1, <1>3, DistinctAssumption
  DEF StepUpMFA, Authenticated, SlotInv, Buying, VouchInv, InForce
<1> QED
  BY <1>2, <1>4, StartStep DEF StepUpMFA

\* A slot that knows nothing but its operation.
LEMMA PlainFits ==
    ASSUME IndInv, NEW pc \in {"delete", "replace", "mint"},
           NEW op \in {"disable", "regenerate", "reset"},
           pc = "replace" => op = "regenerate"
    PROVE  /\ Slot(pc, op) \in Request
           /\ SlotInv(Slot(pc, op)) /\ ~Buying(Slot(pc, op)) /\ VouchInv(Slot(pc, op))
<1>1. ver \in Nat
  BY DEF IndInv, TypeOK
<1>2. Slot(pc, op) \in Request
  BY SlotType DEF PCs, Ops
<1>3. /\ Slot(pc, op).pc = pc /\ Slot(pc, op).op = op /\ Slot(pc, op).ver = 0
      /\ Slot(pc, op).fam = None /\ Slot(pc, op).chal = None
  BY DEF Slot
<1> QED
  BY <1>1, <1>2, <1>3 DEF SlotInv, Buying, VouchInv

LEMMA DisableMFAInv ==
    ASSUME IndInv, NEW r \in Requests, NEW f \in Families, DisableMFA(r, f)
    PROVE  IndInv'
BY PlainFits, StartStep DEF DisableMFA

LEMMA RegenerateInv ==
    ASSUME IndInv, NEW r \in Requests, NEW f \in Families, RegenerateMFARecoveryCodes(r, f)
    PROVE  IndInv'
BY PlainFits, StartStep DEF RegenerateMFARecoveryCodes

LEMMA RequestMFAResetInv ==
    ASSUME IndInv, NEW r \in Requests, NEW c \in Challenges, RequestMFAReset(r, c)
    PROVE  IndInv'
BY PlainFits, StartStep DEF RequestMFAReset

LEMMA ConfirmMFAResetInv ==
    ASSUME IndInv, NEW r \in Requests, NEW c \in Challenges, ConfirmMFAReset(r, c)
    PROVE  IndInv'
<1> DEFINE q == [Slot("factor", "reset") EXCEPT !.chal = c]
<1>1. ver \in Nat
  BY DEF IndInv, TypeOK
<1>2. q \in Request
  BY <1>1 DEF Slot, Request, PCs, Ops
<1>3. q.pc = "factor" /\ q.op = "reset" /\ q.ver = 0 /\ q.fam = None /\ q.chal = c
  BY DEF Slot
<1>4. SlotInv(q) /\ ~Buying(q) /\ VouchInv(q)
  BY <1>1, <1>3, DistinctAssumption
  DEF ConfirmMFAReset, OpenChallenge, SlotInv, Buying, VouchInv
<1> QED
  BY <1>2, <1>4, StartStep DEF ConfirmMFAReset

LEMMA DeleteSnapshotInv ==
    ASSUME IndInv, NEW r \in Requests, DeleteSnapshot(r)
    PROVE  IndInv'
<1> DEFINE q == [req[r] EXCEPT !.pc = "erase", !.targets = codes]
<1>1. SlotInv(req[r]) /\ req[r] \in Request /\ codes \subseteq RecoveryCodes /\ cutShort \in BOOLEAN
  BY DEF IndInv, SlotsInv, TypeOK
<1>2. q \in Request
  BY <1>1 DEF Request, PCs
<1>3. SlotInv(q) /\ ~Buying(q) /\ VouchInv(q)
  BY <1>1 DEF DeleteSnapshot, At, Request, SlotInv, Buying, VouchInv
<1> QED
  BY <1>1, <1>2, <1>3, SlotStep DEF DeleteSnapshot, At

LEMMA ReloadUserInv ==
    ASSUME IndInv, NEW r \in Requests, ReloadUser(r)
    PROVE  IndInv'
<1> DEFINE q == [Slot("create", "disable") EXCEPT !.ver = ver]
<1>1. ver \in Nat /\ cutShort \in BOOLEAN
  BY DEF IndInv, TypeOK
<1>2. q \in Request
  BY <1>1 DEF Slot, Request, PCs, Ops
<1>3. q.pc = "create" /\ q.op = "disable" /\ q.ver = ver /\ q.fam = None /\ q.chal = None
  BY DEF Slot
<1>4. SlotInv(q) /\ ~Buying(q) /\ VouchInv(q)
  BY <1>1, <1>3 DEF SlotInv, Buying, VouchInv
<1> QED
  BY <1>1, <1>2, <1>4, SlotStep DEF ReloadUser, At

LEMMA AbandonInv ==
    ASSUME IndInv, NEW r \in Requests, Abandon(r)
    PROVE  IndInv'
<1>1. TypeOK /\ cutShort \in BOOLEAN
  BY DEF IndInv, TypeOK
<1>2. cutShort' \in BOOLEAN /\ (cutShort => cutShort') /\ (At(r, "revokeAll") => cutShort')
  BY <1>1 DEF Abandon
<1> QED
  BY <1>1, <1>2, IdleFits, SlotStep DEF Abandon, Finish

-----------------------------------------------------------------------------
(* Steps that write a table.                                               *)

\* A session of whose challenge nobody else has a session or is to get one.
LEMMA CreateAuthSessionInv ==
    ASSUME IndInv, NEW r \in Requests, CreateAuthSession(r)
    PROVE  IndInv'
<1> DEFINE q == req[r]
           g == NewOf(UnusedFamilies)
           row == [ver |-> q.ver, live |-> TRUE,
                   stamp |-> IF q.op = "verify" THEN now ELSE Null,
                   by |-> q.secret, from |-> q.chal]
<1>1. g \in Families /\ ses[g] = None
  BY NewOfType DEF CreateAuthSession, UnusedFamilies
<1>2. /\ q \in Request /\ q.pc = "create" /\ now \in Nat /\ ver \in Nat
      /\ SlotInv(q)
  BY BoundsAssumption DEF IndInv, TypeOK, SlotsInv, CreateAuthSession, At
<1>3. /\ row \in Session /\ row # None
      /\ row.ver = q.ver /\ row.by = q.secret /\ row.from = q.chal /\ row.live
      /\ row.stamp = IF q.op = "verify" THEN now ELSE Null
  <2>1. row \in Session
    BY <1>2 DEF Request, Session, Null
  <2> QED
    BY <2>1, RowsAssumption
<1>4. \A f \in Families : ses'[f] = IF f = g THEN row ELSE ses[f]
  BY <1>1 DEF CreateAuthSession, IndInv, TypeOK
<1>5. TypeOK /\ IdleSlot \in Request /\ IdleSlot.pc = "idle"
      /\ SlotInv(IdleSlot) /\ VouchInv(IdleSlot) /\ ~Buying(IdleSlot)
  BY IdleFits DEF IndInv
<1>6. \A x \in Requests : req'[x] = IF x = r THEN IdleSlot ELSE req[x]
  BY <1>5 DEF CreateAuthSession, Finish, Goto, TypeOK
<1>7. TypeOK'
  BY <1>1, <1>3, <1>5 DEF CreateAuthSession, TypeOK, Finish, Goto
<1>8. SlotsInv'
  <2> SUFFICES ASSUME NEW x \in Requests PROVE SlotInv(req[x])'
    BY DEF SlotsInv
  <2>1. SlotInv(req[x]) /\ req[x] \in Request
    BY DEF IndInv, SlotsInv, TypeOK
  <2> QED
    BY <1>3, <1>4, <1>5, <1>6, <2>1 DEF SlotInv, CreateAuthSession, Request
<1>9. ChallengeInv'
  <2>1. Buying(q) \/ q.chal = None
    BY <1>2 DEF Buying
  <2>2. chal' = chal
    BY DEF CreateAuthSession
  <2>3. \A f \in Families : (ses[f] # None /\ ses[f].from # None =>
           chal[ses[f].from] # None /\ chal[ses[f].from].consumed)'
    BY <1>2, <1>3, <1>4, <2>2 DEF IndInv, ChallengeInv, SlotInv
  <2>4. \A x \in Requests : Buying(req[x])' => x # r /\ req'[x] = req[x] /\ Buying(req[x])
    BY <1>5, <1>6 DEF Buying
  <2>5. \A x \in Requests : Buying(req[x]) /\ x # r => req[x].chal # q.chal
    BY <2>1 DEF IndInv, ChallengeInv, Buying
  <2>6. \A f \in Families, x \in Requests :
           (ses[f] # None /\ Buying(req[x]) => ses[f].from # req[x].chal)'
    BY <1>3, <1>4, <2>4, <2>5 DEF IndInv, ChallengeInv
  <2>7. \A x, y \in Requests :
           (Buying(req[x]) /\ Buying(req[y]) /\ req[x].chal = req[y].chal => x = y)'
    BY <2>4 DEF IndInv, ChallengeInv
  <2>8. OneSessionPerChallenge'
    BY <1>1, <1>3, <1>4, <2>1 DEF IndInv, ChallengeInv, OneSessionPerChallenge
  <2> QED
    BY <2>3, <2>6, <2>7, <2>8 DEF ChallengeInv
<1>10. FactorInv' /\ VersionInv'
  BY <1>2, <1>3, <1>4
  DEF IndInv, FactorInv, FactorAcceptedOnce, VersionInv, CreateAuthSession, SlotInv
<1>11. StampInv'
  <2> SUFFICES ASSUME ~Removing', ~cutShort'
               PROVE  /\ \A x \in Requests : VouchInv(req[x])'
                      /\ \A f \in Families :
                           (Usable(f) /\ ses[f].stamp # Null => InForce(ses[f].by))'
    BY DEF StampInv
  <2>1. ~Removing /\ ~cutShort
    BY <1>2, <1>6 DEF Removing, At, CreateAuthSession
  <2>2. /\ \A x \in Requests : VouchInv(req[x])
        /\ \A f \in Families : Usable(f) /\ ses[f].stamp # Null => InForce(ses[f].by)
    BY <2>1 DEF IndInv, StampInv
  <2>3. ASSUME NEW x \in Requests PROVE VouchInv(req[x])'
    <3>1. VouchInv(req[x]) /\ SlotInv(req[x]) /\ req[x] \in Request
      BY <2>2 DEF IndInv, SlotsInv, TypeOK
    <3>2. req[x].fam # None => req[x].fam \in Families /\ ses'[req[x].fam] = ses[req[x].fam]
      BY <1>1, <1>4, <3>1 DEF SlotInv, Request
    <3>3. req[x].op \in {"stepUp", "confirm"} => req[x].fam # None
      BY <3>1 DEF SlotInv
    <3> QED
      BY <1>5, <1>6, <3>1, <3>2, <3>3
      DEF VouchInv, Usable, LiveFamily, Authenticated, InForce, Confirmed, CreateAuthSession
  <2>4. ASSUME NEW f \in Families, Usable(f)', ses'[f].stamp # Null
        PROVE  InForce(ses[f].by)'
    <3>1. CASE f = g
      <4>1. q.op = "verify" /\ q.ver = ver
        BY <1>1, <1>3, <1>4, <2>4, <3>1 DEF Usable, Authenticated, CreateAuthSession
      <4>2. InForce(q.secret)
        BY <1>2, <2>2, <4>1 DEF VouchInv
      <4> QED
        BY <1>1, <1>3, <1>4, <3>1, <4>2 DEF InForce, Confirmed, CreateAuthSession
    <3>2. CASE f # g
      BY <1>4, <2>2, <2>4, <3>2
      DEF Usable, LiveFamily, Authenticated, InForce, Confirmed, CreateAuthSession
    <3> QED
      BY <3>1, <3>2
  <2> QED
    BY <2>3, <2>4
<1> QED
  BY <1>7, <1>8, <1>9, <1>10, <1>11 DEF IndInv

\* CreateMFAChallenge takes a row nobody refers to, and the request ends.
LEMMA ChallengeStored ==
    ASSUME IndInv, NEW r \in Requests, NEW purpose \in {"login", "reset"}, NEW ttl \in Nat,
           CreateMFAChallenge(purpose, ttl), Finish(r), ~At(r, "revokeAll"),
           UNCHANGED <<mfa, codes, ses, ver, now, shown, uses, cutShort>>
    PROVE  IndInv'
<1> DEFINE c == NewOf(UnusedChallenges)
           row == [purpose |-> purpose, until |-> now + ttl, consumed |-> FALSE]
<1>1. c \in Challenges /\ chal[c] = None
  BY NewOfType DEF CreateMFAChallenge, UnusedChallenges
<1>2. row \in MFAChallenge /\ row # None
  <2>1. row \in MFAChallenge
    BY BoundsAssumption DEF IndInv, TypeOK, MFAChallenge
  <2> QED
    BY <2>1, RowsAssumption
<1>3. \A d \in Challenges : chal'[d] = IF d = c THEN row ELSE chal[d]
  BY <1>1 DEF CreateMFAChallenge, IndInv, TypeOK
<1>4. TypeOK /\ IdleSlot \in Request /\ IdleSlot.pc = "idle"
      /\ SlotInv(IdleSlot) /\ VouchInv(IdleSlot) /\ ~Buying(IdleSlot)
  BY IdleFits DEF IndInv
<1>5. \A x \in Requests : req'[x] = IF x = r THEN IdleSlot ELSE req[x]
  BY <1>4 DEF Finish, Goto, TypeOK
<1>6. TypeOK'
  BY <1>1, <1>2, <1>4 DEF CreateMFAChallenge, TypeOK, Finish, Goto
<1>7. SlotsInv'
  <2> SUFFICES ASSUME NEW x \in Requests PROVE SlotInv(req[x])'
    BY DEF SlotsInv
  <2>1. CASE x = r
    BY <1>5, <2>1 DEF IdleSlot, Slot, SlotInv, IndInv, TypeOK
  <2>2. CASE x # r
    <3>1. SlotInv(req[x]) /\ req[x] \in Request /\ req'[x] = req[x]
      BY <1>5, <2>2 DEF IndInv, SlotsInv, TypeOK
    <3>2. req[x].chal # None => req[x].chal \in Challenges /\ chal'[req[x].chal] = chal[req[x].chal]
      BY <1>1, <1>3, <3>1 DEF SlotInv, Request
    <3> QED
      BY <3>1, <3>2 DEF SlotInv
  <2> QED
    BY <2>1, <2>2
<1>8. ChallengeInv'
  <2>1. \A f \in Families : ses[f] # None /\ ses[f].from # None =>
           ses[f].from \in Challenges /\ chal'[ses[f].from] = chal[ses[f].from]
    BY <1>1, <1>3 DEF IndInv, ChallengeInv, TypeOK, Session
  <2>2. \A x \in Requests : Buying(req[x])' => req'[x] = req[x] /\ Buying(req[x])
    BY <1>4, <1>5 DEF Buying
  <2> QED
    BY <2>1, <2>2 DEF IndInv, ChallengeInv, OneSessionPerChallenge
<1>9. FactorInv' /\ VersionInv'
  BY DEF IndInv, FactorInv, FactorAcceptedOnce, VersionInv
<1>10. StampInv'
  <2> SUFFICES ASSUME ~Removing', ~cutShort'
               PROVE  /\ \A x \in Requests : VouchInv(req[x])'
                      /\ \A f \in Families :
                           (Usable(f) /\ ses[f].stamp # Null => InForce(ses[f].by))'
    BY DEF StampInv
  <2>1. ~Removing /\ ~cutShort
    BY <1>5 DEF Removing, At
  <2>2. /\ \A x \in Requests : VouchInv(req[x])
        /\ \A f \in Families : Usable(f) /\ ses[f].stamp # Null => InForce(ses[f].by)
    BY <2>1 DEF IndInv, StampInv
  <2> QED
    BY <1>4, <1>5, <2>2
    DEF VouchInv, Usable, LiveFamily, Authenticated, InForce, Confirmed
<1> QED
  BY <1>6, <1>7, <1>8, <1>9, <1>10 DEF IndInv

LEMMA LoginChallengeInv ==
    ASSUME IndInv, NEW r \in Requests, LoginChallenge(r)
    PROVE  IndInv'
BY ChallengeStored, BoundsAssumption DEF LoginChallenge, At

LEMMA MintResetChallengeInv ==
    ASSUME IndInv, NEW r \in Requests, MintResetChallenge(r)
    PROVE  IndInv'
BY ChallengeStored, BoundsAssumption DEF MintResetChallenge, At

\* A step of one request that changes the enrollment or the recovery codes and
\* no other table, given what it does to the factors and to the secret in force.
LEMMA EnrollmentStep ==
    ASSUME IndInv, NEW r \in Requests, NEW q \in Request,
           Goto(r, q), SlotInv(q), ~Buying(q), ~At(r, "revokeAll"),
           \/ q.pc = "revokeAll"
           \/ /\ \A x \in Secrets \cup {None} : InForce(x) => InForce(x)'
              /\ ~Removing /\ ~cutShort => VouchInv(q)',
           UNCHANGED <<chal, ses, ver, now, cutShort>>,
           mfa' \in UserMFA \cup {None}, codes' \subseteq RecoveryCodes,
           shown' \subseteq Secrets \cup Batches, uses' \in [RecoveryCodes -> Nat],
           FactorInv'
    PROVE  IndInv'
<1>1. \A x \in Requests : req'[x] = IF x = r THEN q ELSE req[x]
  BY DEF Goto, IndInv, TypeOK
<1>2. TypeOK'
  BY DEF IndInv, TypeOK, Goto
<1>3. SlotsInv'
  BY <1>1 DEF IndInv, SlotsInv, SlotInv
<1>4. ChallengeInv' /\ VersionInv'
  BY <1>1 DEF IndInv, ChallengeInv, Buying, OneSessionPerChallenge, VersionInv
<1>5. StampInv'
  <2> SUFFICES ASSUME ~Removing', ~cutShort'
               PROVE  /\ \A x \in Requests : VouchInv(req[x])'
                      /\ \A f \in Families :
                           (Usable(f) /\ ses[f].stamp # Null => InForce(ses[f].by))'
    BY DEF StampInv
  <2>1. ~Removing /\ ~cutShort /\ q.pc # "revokeAll"
    BY <1>1 DEF Removing, At
  <2>2. /\ \A x \in Requests : VouchInv(req[x])
        /\ \A f \in Families : Usable(f) /\ ses[f].stamp # Null => InForce(ses[f].by)
        /\ \A x \in Secrets \cup {None} : InForce(x) => InForce(x)'
        /\ VouchInv(q)'
    BY <2>1 DEF IndInv, StampInv
  <2>3. ASSUME NEW x \in Requests PROVE VouchInv(req[x])'
    <3>1. req[x].secret \in Secrets \cup {None} /\ VouchInv(req[x])
      BY <2>2 DEF IndInv, TypeOK, Request
    <3>2. InForce(req[x].secret) => Confirmed' /\ mfa'.secret = req[x].secret
      BY <2>2, <3>1 DEF InForce
    <3>3. CASE x = r
      BY <1>1, <2>2, <3>3 DEF VouchInv, Usable, LiveFamily, Authenticated, InForce, Confirmed
    <3>4. CASE x # r
      BY <1>1, <3>1, <3>2, <3>4 DEF VouchInv, Usable, LiveFamily, Authenticated, InForce
    <3> QED
      BY <3>3, <3>4
  <2>4. ASSUME NEW f \in Families, Usable(f)', ses'[f].stamp # Null
        PROVE  InForce(ses[f].by)'
    <3>1. Usable(f) /\ ses[f].stamp # Null
      BY <2>4 DEF Usable, LiveFamily, Authenticated
    <3>2. InForce(ses[f].by) /\ ses[f].by \in Secrets \cup {None}
      BY <2>2, <3>1 DEF IndInv, TypeOK, Session, Usable, LiveFamily
    <3>3. Confirmed' /\ mfa'.secret = ses[f].by
      BY <2>2, <3>2 DEF InForce
    <3> QED
      BY <3>3 DEF InForce
  <2> QED
    BY <2>3, <2>4
<1> QED
  BY <1>2, <1>3, <1>4, <1>5 DEF IndInv

LEMMA AfterFactorFits ==
    ASSUME NEW q \in Request, SlotInv(q), q.pc = "factor"
    PROVE  /\ AfterFactor(q) \in PCs
           /\ [q EXCEPT !.pc = AfterFactor(q)] \in Request
           /\ SlotInv([q EXCEPT !.pc = AfterFactor(q)])
           /\ ~Buying([q EXCEPT !.pc = AfterFactor(q)])
           /\ VouchInv(q) => VouchInv([q EXCEPT !.pc = AfterFactor(q)])
<1> DEFINE p == AfterFactor(q)
<1>1. /\ q.op \in {"verify", "reset"} => p = "consume"
      /\ q.op = "stepUp" => p = "stamp"
      /\ q.op = "confirm" => p = "confirm"
      /\ q.op \in {"verify", "reset", "stepUp", "confirm"}
  BY DEF AfterFactor, SlotInv
<1> HIDE DEF p
<1>2. [q EXCEPT !.pc = p] \in Request /\ p \in PCs
  BY <1>1 DEF Request, PCs
<1>3. SlotInv([q EXCEPT !.pc = p]) /\ ~Buying([q EXCEPT !.pc = p])
  BY <1>1 DEF Request, SlotInv, Buying
<1>4. VouchInv(q) => VouchInv([q EXCEPT !.pc = p])
  BY <1>1 DEF Request, VouchInv
<1> QED
  BY <1>2, <1>3, <1>4 DEF p

\* The guard of AdvanceMFATOTPStep makes every accepted step a new one.
LEMMA AcceptTOTPInv ==
    ASSUME IndInv, NEW r \in Requests, NEW x \in TotpCodes, AcceptTOTP(r, x)
    PROVE  IndInv'
<1>1. req[r] \in Request /\ SlotInv(req[r]) /\ req[r].pc = "factor"
  BY DEF IndInv, TypeOK, SlotsInv, AcceptTOTP, At
<1>2. PICK q \in Request : q = [req[r] EXCEPT !.pc = AfterFactor(req[r])]
  BY <1>1, AfterFactorFits
<1>3. SlotInv(q) /\ ~Buying(q) /\ (VouchInv(req[r]) => VouchInv(q))
  BY <1>1, <1>2, AfterFactorFits
<1>4. PICK t \in Times : x[2] = t
  BY DEF TotpCodes
<1>5. /\ mfa \in UserMFA /\ mfa # None /\ mfa.step < t
      /\ mfa' = [mfa EXCEPT !.step = t,
                            !.proved = @ \/ req[r].secret = mfa.secret,
                            !.uses[t] = @ + 1]
  BY <1>4 DEF IndInv, TypeOK, AcceptTOTP, StepAdvances
<1>6. /\ mfa.step \in Nat /\ t \in Nat /\ Times \subseteq Nat
      /\ mfa.uses \in [Times -> Nat]
  BY <1>5 DEF UserMFA, Times
<1>7. mfa.uses[t] = 0
  <2>1. mfa.uses[t] \in Nat
    BY <1>6
  <2>2. mfa.uses[t] > 0 => t <= mfa.step
    BY <1>5 DEF IndInv, FactorInv
  <2> QED
    BY <1>5, <1>6, <2>1, <2>2
<1>8. /\ mfa'.secret = mfa.secret /\ mfa'.confirmed = mfa.confirmed /\ mfa'.step = t
      /\ mfa'.uses = [mfa.uses EXCEPT ![t] = @ + 1]
  BY <1>5 DEF UserMFA
<1>9. mfa' \in UserMFA /\ mfa' # None
  <2>1. [mfa.uses EXCEPT ![t] = @ + 1] \in [Times -> Nat]
    BY <1>6
  <2>2. (mfa.proved \/ req[r].secret = mfa.secret) \in BOOLEAN
    OBVIOUS
  <2>3. mfa' \in UserMFA
    BY <1>5, <2>1, <2>2 DEF UserMFA
  <2> QED
    BY <2>3, RowsAssumption
<1>10. FactorInv'
  <2>1. \A s \in Times : mfa'.uses[s] = IF s = t THEN 1 ELSE mfa.uses[s]
    BY <1>6, <1>7, <1>8
  <2>2. \A s \in Times : mfa'.uses[s] > 0 => s <= mfa'.step
    <3> TAKE s \in Times
    <3>1. mfa.uses[s] \in Nat /\ s \in Nat
      BY <1>6
    <3>2. mfa.uses[s] > 0 => s <= mfa.step
      BY <1>5 DEF IndInv, FactorInv
    <3> QED
      BY <1>5, <1>6, <1>8, <2>1, <3>1, <3>2
  <2>3. \A s \in Times : mfa'.uses[s] <= 1
    BY <1>5, <2>1 DEF IndInv, FactorInv, FactorAcceptedOnce
  <2> QED
    BY <2>2, <2>3 DEF IndInv, FactorInv, FactorAcceptedOnce, AcceptTOTP
<1>11. \A y \in Secrets \cup {None} : InForce(y) => InForce(y)'
  BY <1>5, <1>8, <1>9 DEF InForce, Confirmed
<1>12. ~Removing /\ ~cutShort => VouchInv(q)'
  <2>1. ASSUME ~Removing, ~cutShort PROVE VouchInv(q)
    BY <1>3, <2>1 DEF IndInv, StampInv
  <2>2. q.secret \in Secrets \cup {None}
    BY DEF Request
  <2>3. InForce(q.secret) => InForce(q.secret)'
    BY <1>11, <2>2
  <2> QED
    BY <2>1, <2>3 DEF VouchInv, Usable, LiveFamily, Authenticated, AcceptTOTP
<1> QED
  BY <1>1, <1>2, <1>3, <1>9, <1>10, <1>11, <1>12, EnrollmentStep
  DEF AcceptTOTP, Jump, At, IndInv, TypeOK

LEMMA AcceptRecoveryCodeInv ==
    ASSUME IndInv, NEW r \in Requests, NEW x \in RecoveryCodes, AcceptRecoveryCode(r, x)
    PROVE  IndInv'
<1>1. req[r] \in Request /\ SlotInv(req[r]) /\ req[r].pc = "factor"
  BY DEF IndInv, TypeOK, SlotsInv, AcceptRecoveryCode, At
<1>2. PICK q \in Request : q = [req[r] EXCEPT !.pc = AfterFactor(req[r])]
  BY <1>1, AfterFactorFits
<1>3. SlotInv(q) /\ ~Buying(q) /\ (VouchInv(req[r]) => VouchInv(q))
  BY <1>1, <1>2, AfterFactorFits
<1>4. /\ \A y \in RecoveryCodes : uses[y] \in Nat /\ uses'[y] = IF y = x THEN uses[x] + 1 ELSE uses[y]
      /\ uses' \in [RecoveryCodes -> Nat] /\ codes' \subseteq RecoveryCodes
  BY DEF IndInv, TypeOK, AcceptRecoveryCode
<1>5. uses[x] = 0 /\ x[1] \in shown /\ codes' = codes \ {x}
  BY DEF IndInv, FactorInv, AcceptRecoveryCode
<1>6. FactorInv'
  BY <1>4, <1>5 DEF IndInv, FactorInv, FactorAcceptedOnce, AcceptRecoveryCode
<1>7. \A y \in Secrets \cup {None} : InForce(y) => InForce(y)'
  BY DEF InForce, Confirmed, AcceptRecoveryCode
<1>8. ~Removing /\ ~cutShort => VouchInv(q)'
  <2>1. ASSUME ~Removing, ~cutShort PROVE VouchInv(q)
    BY <1>3, <2>1 DEF IndInv, StampInv
  <2> QED
    BY <2>1 DEF VouchInv, Usable, LiveFamily, Authenticated, InForce, Confirmed, AcceptRecoveryCode
<1> QED
  BY <1>1, <1>2, <1>3, <1>4, <1>6, <1>7, <1>8, EnrollmentStep
  DEF AcceptRecoveryCode, Jump, At, IndInv, TypeOK

LEMMA ConfirmMFAInv ==
    ASSUME IndInv, NEW r \in Requests, ConfirmMFA(r)
    PROVE  IndInv'
<1>1. CASE ~(mfa # None /\ ~mfa.confirmed)
  BY <1>1, FinishStep DEF ConfirmMFA, At
<1>2. CASE mfa # None /\ ~mfa.confirmed
  <2>1. /\ req[r] \in Request /\ SlotInv(req[r]) /\ req[r].pc = "confirm"
        /\ mfa \in UserMFA
    BY <1>2 DEF IndInv, TypeOK, SlotsInv, ConfirmMFA, At
  <2>2. PICK q \in Request : q = [req[r] EXCEPT !.pc = "replace", !.secret = mfa.secret]
    BY <2>1 DEF Request, UserMFA, PCs
  <2>3. SlotInv(q) /\ ~Buying(q)
    BY <2>1, <2>2 DEF Request, SlotInv, Buying
  <2>4. /\ mfa' \in UserMFA /\ mfa' # None
        /\ mfa'.secret = mfa.secret /\ mfa'.confirmed
        /\ mfa'.step = mfa.step /\ mfa'.uses = mfa.uses
    BY <1>2, <2>1, RowsAssumption DEF ConfirmMFA, UserMFA
  <2>5. FactorInv'
    BY <1>2, <2>4 DEF IndInv, FactorInv, FactorAcceptedOnce, ConfirmMFA
  <2>6. \A y \in Secrets \cup {None} : InForce(y) => InForce(y)'
    BY <1>2 DEF InForce, Confirmed
  <2>7. VouchInv(q)'
    <3>1. q.op = "confirm" /\ q.secret = mfa.secret
      BY <2>1, <2>2 DEF Request, SlotInv
    <3> QED
      BY <2>4, <3>1 DEF VouchInv, InForce, Confirmed
  <2> QED
    BY <1>2, <2>1, <2>2, <2>3, <2>4, <2>5, <2>6, <2>7, EnrollmentStep
    DEF ConfirmMFA, IndInv, TypeOK, At
<1> QED
  BY <1>1, <1>2

\* The new batch is one whose codes nobody has used.
LEMMA ReplaceCommitInv ==
    ASSUME IndInv, NEW r \in Requests, ReplaceCommit(r)
    PROVE  IndInv'
<1> DEFINE b == NewOf(Batches \ shown)
<1>1. req[r] \in Request /\ SlotInv(req[r]) /\ req[r].pc = "insert"
  BY DEF IndInv, TypeOK, SlotsInv, ReplaceCommit, At
<1>2. b \in Batches /\ b \notin shown
  BY NewOfType DEF ReplaceCommit
<1>3. /\ codes' = (codes \ req[r].targets) \cup ({b} \X (1..BatchSize))
      /\ shown' = shown \cup {b}
      /\ UNCHANGED <<mfa, chal, ses, ver, now, uses, cutShort>>
  BY DEF ReplaceCommit
<1> HIDE DEF b
<1>4. PICK q \in Request :
        /\ Goto(r, q)
        /\ q = IF req[r].op = "confirm" THEN [req[r] EXCEPT !.pc = "stamp", !.targets = {}]
                                        ELSE IdleSlot
  <2>1. IdleSlot \in Request
    BY SlotType DEF IdleSlot, PCs, Ops
  <2>2. [req[r] EXCEPT !.pc = "stamp", !.targets = {}] \in Request
    BY <1>1 DEF Request, PCs
  <2> QED
    BY <2>1, <2>2 DEF ReplaceCommit, Finish
<1>5. SlotInv(q) /\ ~Buying(q) /\ q.pc # "revokeAll" /\ (VouchInv(req[r]) => VouchInv(q))
  <2>1. SlotInv(IdleSlot) /\ ~Buying(IdleSlot) /\ VouchInv(IdleSlot) /\ IdleSlot.pc = "idle"
    BY IdleFits DEF IndInv
  <2>2. CASE req[r].op = "confirm"
    BY <1>1, <1>4, <2>2 DEF SlotInv, Buying, VouchInv, Request
  <2> QED
    BY <1>4, <2>1, <2>2
<1>6. codes' \subseteq RecoveryCodes /\ shown' \subseteq Secrets \cup Batches
  BY <1>2, <1>3 DEF IndInv, TypeOK, RecoveryCodes
<1>7. FactorInv'
  <2>1. \A x \in RecoveryCodes : x \in {b} \X (1..BatchSize) => x[1] = b
    OBVIOUS
  <2>2. \A x \in RecoveryCodes : x \in codes' => uses'[x] = 0 /\ x[1] \in shown'
    BY <1>2, <1>3, <2>1 DEF IndInv, FactorInv
  <2> QED
    BY <1>3, <2>2 DEF IndInv, FactorInv, FactorAcceptedOnce
<1>8. \A y \in Secrets \cup {None} : InForce(y) => InForce(y)'
  BY <1>3 DEF InForce, Confirmed
<1>9. ~Removing /\ ~cutShort => VouchInv(q)'
  <2>1. ASSUME ~Removing, ~cutShort PROVE VouchInv(q)
    BY <1>5, <2>1 DEF IndInv, StampInv
  <2> QED
    BY <1>3, <2>1 DEF VouchInv, Usable, LiveFamily, Authenticated, InForce, Confirmed
<1> QED
  BY <1>1, <1>3, <1>4, <1>5, <1>6, <1>7, <1>8, <1>9, EnrollmentStep DEF IndInv, TypeOK, At

LEMMA DeleteCommitInv ==
    ASSUME IndInv, NEW r \in Requests, DeleteCommit(r)
    PROVE  IndInv'
<1>1. req[r] \in Request /\ SlotInv(req[r]) /\ req[r].pc = "erase"
  BY DEF IndInv, TypeOK, SlotsInv, DeleteCommit, At
<1>2. PICK q \in Request : q = [req[r] EXCEPT !.pc = "revokeAll", !.targets = {}]
  BY <1>1 DEF Request, PCs
<1>3. SlotInv(q) /\ ~Buying(q) /\ q.pc = "revokeAll"
  BY <1>1, <1>2 DEF Request, SlotInv, Buying
<1>4. FactorInv'
  BY DEF IndInv, FactorInv, FactorAcceptedOnce, DeleteCommit
<1>5. /\ mfa' \in UserMFA \cup {None} /\ codes' \subseteq RecoveryCodes
      /\ shown' \subseteq Secrets \cup Batches /\ uses' \in [RecoveryCodes -> Nat]
  BY DEF DeleteCommit, IndInv, TypeOK
<1>6. /\ Goto(r, q) /\ ~At(r, "revokeAll")
      /\ UNCHANGED <<chal, ses, ver, now, cutShort>>
  BY <1>1, <1>2 DEF DeleteCommit, At
<1> QED
  BY <1>3, <1>4, <1>5, <1>6, EnrollmentStep

\* A pending row may be replaced: nothing that was vouched for rests on it.
LEMMA StartMFAEnrollmentInv ==
    ASSUME IndInv, NEW f \in Families, StartMFAEnrollment(f)
    PROVE  IndInv'
<1> DEFINE s == NewOf(Secrets \ shown)
           row == [secret |-> s, step |-> 0, confirmed |-> FALSE, proved |-> FALSE,
                   uses |-> [t \in Times |-> 0]]
<1>1. s \in Secrets /\ s \notin shown
  BY NewOfType DEF StartMFAEnrollment, UpsertPendingMFA, PendingMFA
<1>2. /\ ~Confirmed /\ mfa' = row /\ shown' = shown \cup {s}
      /\ UNCHANGED <<codes, chal, ses, ver, req, now, uses, cutShort>>
  BY DEF StartMFAEnrollment, UpsertPendingMFA, PendingMFA
<1> HIDE DEF s
<1>3. row \in UserMFA /\ row # None /\ \A t \in Times : row.uses[t] = 0
  <2>1. row \in UserMFA
    BY <1>1 DEF UserMFA
  <2> QED
    BY <2>1, RowsAssumption
<1>4. TypeOK'
  <2>1. cutShort' \in BOOLEAN
    BY <1>2 DEF IndInv, TypeOK
  <2> QED
    BY <1>1, <1>2, <1>3, <2>1 DEF IndInv, TypeOK
<1>5. SlotsInv' /\ ChallengeInv' /\ VersionInv'
  BY <1>2 DEF IndInv, SlotsInv, SlotInv, ChallengeInv, Buying, OneSessionPerChallenge, VersionInv
<1>6. FactorInv'
  BY <1>2, <1>3 DEF IndInv, FactorInv, FactorAcceptedOnce
<1>7. StampInv'
  BY <1>2 DEF IndInv, StampInv, VouchInv, InForce, Usable, LiveFamily, Authenticated, Removing, At
<1> QED
  BY <1>4, <1>5, <1>6, <1>7 DEF IndInv

\* The row that lets the challenge be consumed was open, so no session and no
\* other request holds it as spent.
LEMMA ConsumeMFAChallengeInv ==
    ASSUME IndInv, NEW r \in Requests, ConsumeMFAChallenge(r)
    PROVE  IndInv'
<1> DEFINE c == req[r].chal
<1>1. req[r] \in Request /\ SlotInv(req[r]) /\ req[r].pc = "consume"
  BY DEF IndInv, TypeOK, SlotsInv, ConsumeMFAChallenge, At
<1>2. CASE ~Consumable(req[r])
  BY <1>1, <1>2, FinishStep DEF ConsumeMFAChallenge, At
<1>3. CASE Consumable(req[r])
  <2>1. c \in Challenges /\ chal[c] \in MFAChallenge /\ ~chal[c].consumed
    BY <1>1, <1>3 DEF Consumable, OpenChallenge, SlotInv, Request, IndInv, TypeOK
  <2>2. chal' = [chal EXCEPT ![c].consumed = TRUE]
        /\ UNCHANGED <<mfa, codes, ses, ver, now, shown, uses, cutShort>>
    BY <1>3 DEF ConsumeMFAChallenge
  <2>3. PICK row \in MFAChallenge : row = [chal[c] EXCEPT !.consumed = TRUE]
    BY <2>1 DEF MFAChallenge
  <2>4. row # None /\ row.consumed
    BY <2>1, <2>3, RowsAssumption DEF MFAChallenge
  <2>5. \A d \in Challenges : chal'[d] = IF d = c THEN row ELSE chal[d]
    BY <2>1, <2>2, <2>3 DEF IndInv, TypeOK
  <2>6. PICK q \in Request :
          /\ Goto(r, q)
          /\ q = IF req[r].op = "reset" THEN Slot("delete", "reset")
                                        ELSE [req[r] EXCEPT !.pc = "create"]
    <3>1. [req[r] EXCEPT !.pc = "create"] \in Request
      BY <1>1 DEF Request, PCs
    <3>2. Slot("delete", "reset") \in Request
      BY SlotType DEF PCs, Ops
    <3> QED
      BY <1>3, <3>1, <3>2 DEF ConsumeMFAChallenge, Jump
  <2>7. /\ q.pc \in {"create", "delete"} /\ q.ver <= ver
        /\ q.pc = "create" => /\ q.op = "verify" /\ req[r].op = "verify"
                              /\ q.chal = c /\ q.ver = req[r].ver
                              /\ q.fam = req[r].fam /\ q.secret = req[r].secret
        /\ q.pc = "delete" => q.op = "reset" /\ q.chal = None /\ q.fam = None
    <3>1. CASE req[r].op = "reset"
      BY <2>6, <3>1 DEF Slot, IndInv, TypeOK
    <3>2. CASE req[r].op # "reset"
      BY <1>1, <2>6, <3>2 DEF SlotInv, Request
    <3> QED
      BY <3>1, <3>2
  <2>8. \A x \in Requests : req'[x] = IF x = r THEN q ELSE req[x]
    BY <2>6 DEF Goto, IndInv, TypeOK
  <2>9. TypeOK'
    <3>1. cutShort' \in BOOLEAN /\ req' \in [Requests -> Request]
      BY <2>2, <2>6 DEF IndInv, TypeOK, Goto
    <3>2. chal' \in [Challenges -> MFAChallenge \cup {None}]
      BY <2>1, <2>2, <2>3 DEF IndInv, TypeOK
    <3> QED
      BY <2>2, <3>1, <3>2 DEF IndInv, TypeOK
  <2>10. SlotsInv'
    <3> SUFFICES ASSUME NEW x \in Requests PROVE SlotInv(req[x])'
      BY DEF SlotsInv
    <3>1. CASE x = r /\ q.pc = "create"
      <4>1. chal'[q.chal] # None /\ chal'[q.chal].consumed /\ q.chal # None
        BY <2>1, <2>4, <2>5, <2>7, <3>1, DistinctAssumption
      <4> QED
        BY <1>1, <2>2, <2>7, <2>8, <3>1, <4>1 DEF SlotInv
    <3>3. CASE x = r /\ q.pc = "delete"
      BY <2>2, <2>7, <2>8, <3>3 DEF SlotInv
    <3>2. CASE x # r
      <4>1. SlotInv(req[x]) /\ req[x] \in Request /\ req'[x] = req[x]
        BY <2>8, <3>2 DEF IndInv, SlotsInv, TypeOK
      <4>2. req[x].chal # None => req[x].chal \in Challenges
        BY <4>1 DEF Request
      <4> QED
        BY <2>2, <2>4, <2>5, <4>1, <4>2 DEF SlotInv
    <3> QED
      BY <2>7, <3>1, <3>2, <3>3
  <2>11. ChallengeInv'
    <3>1. \A f \in Families : ses[f] # None /\ ses[f].from # None =>
              /\ ses[f].from \in Challenges /\ ses[f].from # c
              /\ chal[ses[f].from] # None /\ chal[ses[f].from].consumed
      BY <2>1 DEF IndInv, ChallengeInv, TypeOK, Session
    <3>2. \A x \in Requests : Buying(req[x]) => req[x].chal # c
      BY <2>1 DEF IndInv, SlotsInv, SlotInv, Buying
    <3>3. \A x \in Requests : Buying(req[x])' =>
              IF x = r THEN req'[x].chal = c ELSE Buying(req[x]) /\ req'[x] = req[x]
      BY <2>7, <2>8 DEF Buying
    <3>4. \A f \in Families : ses[f] # None => ses[f].from # c
      BY <2>1, <3>1, DistinctAssumption
    <3>5. \A f \in Families : ses'[f] # None /\ ses'[f].from # None =>
              chal'[ses'[f].from] # None /\ chal'[ses'[f].from].consumed
      BY <2>2, <2>5, <3>1
    <3>6. \A f \in Families, x \in Requests :
              ses'[f] # None /\ Buying(req[x])' => ses'[f].from # req'[x].chal
      BY <2>2, <3>3, <3>4 DEF IndInv, ChallengeInv
    <3>7. \A x, y \in Requests :
              Buying(req[x])' /\ Buying(req[y])' /\ req'[x].chal = req'[y].chal => x = y
      BY <3>2, <3>3 DEF IndInv, ChallengeInv
    <3> QED
      BY <2>2, <3>5, <3>6, <3>7 DEF IndInv, ChallengeInv, OneSessionPerChallenge
  <2>12. FactorInv' /\ VersionInv'
    BY <2>2 DEF IndInv, FactorInv, FactorAcceptedOnce, VersionInv
  <2>13. StampInv'
    <3> SUFFICES ASSUME ~Removing', ~cutShort'
                 PROVE  /\ \A x \in Requests : VouchInv(req[x])'
                        /\ \A f \in Families :
                             (Usable(f) /\ ses[f].stamp # Null => InForce(ses[f].by))'
      BY DEF StampInv
    <3>1. ~Removing /\ ~cutShort
      BY <1>1, <2>2, <2>8 DEF Removing, At
    <3>2. /\ \A x \in Requests : VouchInv(req[x])
          /\ \A f \in Families : Usable(f) /\ ses[f].stamp # Null => InForce(ses[f].by)
      BY <3>1 DEF IndInv, StampInv
    <3>3. VouchInv(q)
      BY <1>1, <2>7, <3>2 DEF VouchInv
    <3> QED
      BY <2>2, <2>8, <3>2, <3>3
      DEF VouchInv, Usable, LiveFamily, Authenticated, InForce, Confirmed
  <2> QED
    BY <2>9, <2>10, <2>11, <2>12, <2>13 DEF IndInv
<1> QED
  BY <1>2, <1>3

\* The stamp is vouched for by the secret in force, or lands on a session that
\* is of no use any more.
LEMMA SetSessionMFAVerifiedInv ==
    ASSUME IndInv, NEW r \in Requests, SetSessionMFAVerified(r)
    PROVE  IndInv'
<1> DEFINE g == req[r].fam
<1>1. /\ req[r] \in Request /\ SlotInv(req[r]) /\ req[r].pc = "stamp"
      /\ req[r].op \in {"stepUp", "confirm"} /\ g \in Families
  BY DEF IndInv, TypeOK, SlotsInv, SlotInv, Request, SetSessionMFAVerified, At
<1>2. CASE ~LiveFamily(g)
  BY <1>1, <1>2, FinishStep DEF SetSessionMFAVerified, At
<1>3. CASE LiveFamily(g)
  <2>1. ses[g] \in Session /\ ses[g] # None
    BY <1>1, <1>3 DEF IndInv, TypeOK, LiveFamily
  <2>2. PICK row \in Session : row = [ses[g] EXCEPT !.stamp = now, !.by = req[r].secret]
    <3>1. now \in Int /\ req[r].secret \in Secrets \cup {None}
      BY <1>1 DEF Request, IndInv, TypeOK
    <3> QED
      BY <2>1, <3>1 DEF Session
  <2>3. /\ row # None /\ row.ver = ses[g].ver /\ row.live = ses[g].live
        /\ row.from = ses[g].from /\ row.stamp = now /\ row.by = req[r].secret
    BY <2>1, <2>2, RowsAssumption DEF Session
  <2>4. /\ ses' = [ses EXCEPT ![g] = row]
        /\ Finish(r) /\ UNCHANGED <<mfa, codes, chal, ver, now, shown, uses, cutShort>>
    BY <1>1, <1>3, <2>2 DEF SetSessionMFAVerified, IndInv, TypeOK
  <2>5. \A f \in Families : ses'[f] = IF f = g THEN row ELSE ses[f]
    BY <2>4 DEF IndInv, TypeOK
  <2>6. TypeOK /\ IdleSlot \in Request /\ IdleSlot.pc = "idle"
        /\ SlotInv(IdleSlot) /\ VouchInv(IdleSlot) /\ ~Buying(IdleSlot)
    BY IdleFits DEF IndInv
  <2>7. \A x \in Requests : req'[x] = IF x = r THEN IdleSlot ELSE req[x]
    BY <2>4, <2>6 DEF Finish, Goto, TypeOK
  <2>8. TypeOK'
    <3>1. cutShort' \in BOOLEAN /\ req' \in [Requests -> Request]
      BY <2>4, <2>6 DEF TypeOK, Finish, Goto
    <3>2. ses' \in [Families -> Session \cup {None}]
      BY <1>1, <2>4, <2>6 DEF TypeOK
    <3> QED
      BY <2>4, <2>6, <3>1, <3>2 DEF TypeOK
  <2>9. SlotsInv'
    <3> SUFFICES ASSUME NEW x \in Requests PROVE SlotInv(req[x])'
      BY DEF SlotsInv
    <3>1. CASE x = r
      BY <2>4, <2>6, <2>7, <3>1 DEF IdleSlot, Slot, SlotInv, TypeOK
    <3>2. CASE x # r
      <4>1. SlotInv(req[x]) /\ req[x] \in Request /\ req'[x] = req[x]
        BY <2>7, <3>2 DEF IndInv, SlotsInv, TypeOK
      <4>2. req[x].fam # None => ses'[req[x].fam] # None
        BY <2>3, <2>5, <4>1 DEF SlotInv, Request
      <4> QED
        BY <2>4, <4>1, <4>2 DEF SlotInv
    <3> QED
      BY <3>1, <3>2
  <2>10. \A f \in Families : /\ ses'[f] # None <=> ses[f] # None
                             /\ ses[f] # None => /\ ses'[f].from = ses[f].from
                                                 /\ ses'[f].ver = ses[f].ver
                                                 /\ ses'[f].live = ses[f].live
    BY <2>1, <2>3, <2>5
  <2>11. \A x \in Requests : Buying(req[x])' => req'[x] = req[x] /\ Buying(req[x])
    BY <2>6, <2>7 DEF Buying
  <2>12. ChallengeInv'
    <3>1. \A f \in Families : ses'[f] # None /\ ses'[f].from # None =>
              chal'[ses'[f].from] # None /\ chal'[ses'[f].from].consumed
      BY <2>4, <2>10 DEF IndInv, ChallengeInv
    <3>2. \A f \in Families, x \in Requests :
              ses'[f] # None /\ Buying(req[x])' => ses'[f].from # req'[x].chal
      BY <2>10, <2>11 DEF IndInv, ChallengeInv
    <3>3. \A x, y \in Requests :
              Buying(req[x])' /\ Buying(req[y])' /\ req'[x].chal = req'[y].chal => x = y
      BY <2>11 DEF IndInv, ChallengeInv
    <3>4. OneSessionPerChallenge'
      BY <2>10 DEF IndInv, ChallengeInv, OneSessionPerChallenge
    <3> QED
      BY <3>1, <3>2, <3>3, <3>4 DEF ChallengeInv
  <2>13. FactorInv' /\ VersionInv'
    BY <2>4, <2>10 DEF IndInv, FactorInv, FactorAcceptedOnce, VersionInv
  <2>14. StampInv'
    <3> SUFFICES ASSUME ~Removing', ~cutShort'
                 PROVE  /\ \A x \in Requests : VouchInv(req[x])'
                        /\ \A f \in Families :
                             (Usable(f) /\ ses[f].stamp # Null => InForce(ses[f].by))'
      BY DEF StampInv
    <3>1. ~Removing /\ ~cutShort
      BY <1>1, <2>4, <2>7 DEF Removing, At
    <3>2. /\ \A x \in Requests : VouchInv(req[x])
          /\ \A f \in Families : Usable(f) /\ ses[f].stamp # Null => InForce(ses[f].by)
      BY <3>1 DEF IndInv, StampInv
    <3>3. \A f \in Families : Usable(f)' <=> Usable(f)
      BY <2>4, <2>10 DEF Usable, LiveFamily, Authenticated
    <3>4. \A x : InForce(x)' <=> InForce(x)
      BY <2>4 DEF InForce, Confirmed
    <3>5. ASSUME NEW x \in Requests PROVE VouchInv(req[x])'
      <4>1. CASE x = r
        BY <2>6, <2>7, <4>1 DEF VouchInv
      <4>2. CASE x # r
        <5>1. req[x].op \in {"stepUp", "confirm"} => req[x].fam \in Families
          BY DEF IndInv, SlotsInv, SlotInv, TypeOK, Request
        <5>2. VouchInv(req[x]) /\ req'[x] = req[x] /\ ver' = ver
          BY <2>4, <2>7, <3>2, <4>2
        <5> QED
          BY <3>3, <3>4, <5>1, <5>2 DEF VouchInv
      <4> QED
        BY <4>1, <4>2
    <3>6. ASSUME NEW f \in Families, Usable(f)', ses'[f].stamp # Null
          PROVE  InForce(ses[f].by)'
      <4>1. CASE f = g
        <5>1. InForce(req[r].secret)
          BY <1>1, <3>2, <3>3, <3>6, <4>1 DEF VouchInv
        <5> QED
          BY <2>3, <2>4, <2>5, <4>1, <5>1 DEF InForce, Confirmed
      <4>2. CASE f # g
        BY <2>4, <2>5, <3>2, <3>3, <3>6, <4>2 DEF InForce, Confirmed
      <4> QED
        BY <4>1, <4>2
    <3> QED
      BY <3>5, <3>6
  <2> QED
    BY <2>8, <2>9, <2>12, <2>13, <2>14 DEF IndInv
<1> QED
  BY <1>2, <1>3

\* After a revocation no session is usable and no request holds the version.
LEMMA RevokeAllAuthSessionsInv ==
    ASSUME IndInv, NEW r \in Requests, RevokeAllAuthSessions(r)
    PROVE  IndInv'
<1>1. req[r] \in Request /\ SlotInv(req[r]) /\ req[r].pc = "revokeAll" /\ ver \in Nat
  BY DEF IndInv, TypeOK, SlotsInv, RevokeAllAuthSessions, At
<1>2. /\ ver' = ver + 1 /\ ses' = RevokedFamilies
      /\ UNCHANGED <<mfa, codes, chal, now, shown, uses, cutShort>>
  BY DEF RevokeAllAuthSessions, NextVersion
<1>3. PICK q \in Request :
        /\ Goto(r, q)
        /\ q = IF req[r].op = "disable" THEN [req[r] EXCEPT !.pc = "reload"] ELSE IdleSlot
  <2>1. [req[r] EXCEPT !.pc = "reload"] \in Request
    BY <1>1 DEF Request, PCs
  <2>2. IdleSlot \in Request
    BY IdleFits DEF IndInv
  <2> QED
    BY <2>1, <2>2 DEF RevokeAllAuthSessions, Jump, Finish
<1>4. SlotInv(q) /\ ~Buying(q)
  <2>1. SlotInv(IdleSlot) /\ ~Buying(IdleSlot)
    BY IdleFits DEF IndInv
  <2>2. CASE req[r].op = "disable"
    BY <1>1, <1>3, <2>2 DEF SlotInv, Buying, Request
  <2> QED
    BY <1>3, <2>1, <2>2
<1>5. \A x \in Requests : req'[x] = IF x = r THEN q ELSE req[x]
  BY <1>3 DEF Goto, IndInv, TypeOK
<1>6. \A f \in Families :
        /\ ses[f] = None => ses'[f] = None
        /\ ses[f] # None => /\ ses'[f] \in Session /\ ses'[f] # None
                            /\ ses'[f].from = ses[f].from /\ ses'[f].ver = ses[f].ver
                            /\ ~ses'[f].live
  <2> TAKE f \in Families
  <2>1. ses'[f] = IF ses[f] = None THEN None ELSE [ses[f] EXCEPT !.live = FALSE]
    BY <1>2 DEF RevokedFamilies
  <2>2. ses[f] # None => ses[f] \in Session
    BY DEF IndInv, TypeOK
  <2>3. ses[f] # None => [ses[f] EXCEPT !.live = FALSE] \in Session
    BY <2>2 DEF Session
  <2> QED
    BY <2>1, <2>2, <2>3, RowsAssumption DEF Session
<1>7. TypeOK'
  <2>1. cutShort' \in BOOLEAN /\ req' \in [Requests -> Request] /\ ver' \in Nat
    BY <1>1, <1>2, <1>3 DEF IndInv, TypeOK, Goto
  <2>2. ses' \in [Families -> Session \cup {None}]
    BY <1>2, <1>6 DEF RevokedFamilies
  <2> QED
    BY <1>2, <2>1, <2>2 DEF IndInv, TypeOK
<1>8. \A x \in Requests : SlotInv(req[x])' /\ req'[x].ver < ver'
  <2> TAKE x \in Requests
  <2>1. req'[x] \in Request /\ SlotInv(req'[x])
    BY <1>4, <1>5 DEF IndInv, SlotsInv, TypeOK
  <2>2. req'[x].ver \in Nat /\ req'[x].ver <= ver
    BY <2>1 DEF Request, SlotInv
  <2>3. req'[x].fam # None => ses'[req'[x].fam] # None
    BY <1>6, <2>1 DEF SlotInv, Request
  <2> QED
    BY <1>1, <1>2, <2>1, <2>2, <2>3 DEF SlotInv
<1>9. \A x \in Requests : Buying(req[x])' => req'[x] = req[x] /\ Buying(req[x])
  BY <1>4, <1>5 DEF Buying
<1>10. ChallengeInv'
  <2>1. \A f \in Families : ses'[f] # None /\ ses'[f].from # None =>
            chal'[ses'[f].from] # None /\ chal'[ses'[f].from].consumed
    BY <1>2, <1>6 DEF IndInv, ChallengeInv
  <2>2. \A f \in Families, x \in Requests :
            ses'[f] # None /\ Buying(req[x])' => ses'[f].from # req'[x].chal
    BY <1>6, <1>9 DEF IndInv, ChallengeInv
  <2>3. \A x, y \in Requests :
            Buying(req[x])' /\ Buying(req[y])' /\ req'[x].chal = req'[y].chal => x = y
    BY <1>9 DEF IndInv, ChallengeInv
  <2>4. OneSessionPerChallenge'
    BY <1>6 DEF IndInv, ChallengeInv, OneSessionPerChallenge
  <2> QED
    BY <2>1, <2>2, <2>3, <2>4 DEF ChallengeInv
<1>11. FactorInv' /\ VersionInv'
  <2>1. \A f \in Families : ses[f] # None => ses[f].ver \in Nat /\ ses[f].ver <= ver
    BY DEF IndInv, TypeOK, Session, VersionInv
  <2> QED
    BY <1>1, <1>2, <1>6, <2>1 DEF IndInv, FactorInv, FactorAcceptedOnce, VersionInv
<1>12. StampInv'
  <2>1. \A f \in Families : ~Usable(f)'
    BY <1>6 DEF Usable, LiveFamily
  <2>2. \A x \in Requests : req'[x].ver # ver' /\
            (req'[x].op \in {"stepUp", "confirm"} => req'[x].fam \in Families)
    BY <1>1, <1>2, <1>7, <1>8 DEF TypeOK, Request, SlotInv
  <2> QED
    BY <2>1, <2>2 DEF StampInv, VouchInv
<1> QED
  BY <1>7, <1>8, <1>10, <1>11, <1>12 DEF IndInv, SlotsInv

LEMMA TickInv == IndInv /\ (Tick \/ UNCHANGED vars) => IndInv'
<1> SUFFICES ASSUME IndInv, Tick \/ UNCHANGED vars PROVE IndInv'
  OBVIOUS
<1>1. UNCHANGED <<mfa, codes, chal, ses, ver, req, shown, uses, cutShort>>
      /\ now' \in 1..MaxTime
  BY BoundsAssumption DEF Tick, vars, IndInv, TypeOK
<1>2. TypeOK'
  <2>1. cutShort' \in BOOLEAN
    BY <1>1 DEF IndInv, TypeOK
  <2> QED
    BY <1>1, <2>1 DEF IndInv, TypeOK
<1>3. SlotsInv' /\ ChallengeInv' /\ VersionInv' /\ FactorInv'
  BY <1>1 DEF IndInv, SlotsInv, SlotInv, ChallengeInv, Buying, OneSessionPerChallenge,
              VersionInv, FactorInv, FactorAcceptedOnce
<1>4. StampInv'
  BY <1>1 DEF IndInv, StampInv, VouchInv, InForce, Confirmed, Usable, LiveFamily,
              Authenticated, Removing, At
<1> QED
  BY <1>2, <1>3, <1>4 DEF IndInv

-----------------------------------------------------------------------------
(* The steps together.                                                     *)

LEMMA StartInv ==
    ASSUME IndInv, NEW r \in Requests, Start(r)
    PROVE  IndInv'
<1>1. CASE Login(r)
  BY <1>1, LoginInv
<1>2. ASSUME NEW c \in Challenges,
             RequestMFAReset(r, c) \/ VerifyMFALogin(r, c) \/ ConfirmMFAReset(r, c)
      PROVE  IndInv'
  BY <1>2, RequestMFAResetInv, VerifyMFALoginInv, ConfirmMFAResetInv
<1>3. ASSUME NEW f \in Families,
             \/ DisableMFA(r, f) \/ RegenerateMFARecoveryCodes(r, f)
             \/ StepUpMFA(r, f) \/ ConfirmMFAEnrollment(r, f)
      PROVE  IndInv'
  BY <1>3, DisableMFAInv, RegenerateInv, StepUpMFAInv, ConfirmMFAEnrollmentInv
<1> QED
  BY <1>1, <1>2, <1>3 DEF Start

LEMMA ProgressInv ==
    ASSUME IndInv, NEW r \in Requests, Progress(r)
    PROVE  IndInv'
<1>1. CASE LoginChallenge(r) \/ LoginUnchallenged(r) \/ CreateAuthSession(r)
  BY <1>1, LoginChallengeInv, LoginUnchallengedInv, CreateAuthSessionInv
<1>2. CASE LoadEnrollment(r) \/ RefuseFactor(r)
  BY <1>2, LoadEnrollmentInv, RefuseFactorInv
<1>3. ASSUME NEW x \in TotpCodes, AcceptTOTP(r, x)
      PROVE  IndInv'
  BY <1>3, AcceptTOTPInv
<1>4. ASSUME NEW x \in RecoveryCodes, AcceptRecoveryCode(r, x)
      PROVE  IndInv'
  BY <1>4, AcceptRecoveryCodeInv
<1>5. CASE ConsumeMFAChallenge(r) \/ SetSessionMFAVerified(r)
  BY <1>5, ConsumeMFAChallengeInv, SetSessionMFAVerifiedInv
<1>6. CASE ConfirmMFA(r) \/ ReplaceSnapshot(r) \/ ReplaceCommit(r)
  BY <1>6, ConfirmMFAInv, ReplaceSnapshotInv, ReplaceCommitInv
<1>7. CASE MintResetChallenge(r) \/ DeleteSnapshot(r) \/ DeleteCommit(r)
  BY <1>7, MintResetChallengeInv, DeleteSnapshotInv, DeleteCommitInv
<1>8. CASE RevokeAllAuthSessions(r) \/ ReloadUser(r)
  BY <1>8, RevokeAllAuthSessionsInv, ReloadUserInv
<1> QED
  BY <1>1, <1>2, <1>3, <1>4, <1>5, <1>6, <1>7, <1>8 DEF Progress

LEMMA NextInv == IndInv /\ [Next]_vars => IndInv'
<1> SUFFICES ASSUME IndInv, [Next]_vars PROVE IndInv'
  OBVIOUS
<1>1. ASSUME NEW r \in Requests, Start(r) \/ Progress(r) \/ Abandon(r)
      PROVE  IndInv'
  BY <1>1, StartInv, ProgressInv, AbandonInv
<1>2. ASSUME NEW f \in Families, StartMFAEnrollment(f)
      PROVE  IndInv'
  BY <1>2, StartMFAEnrollmentInv
<1>3. CASE Tick \/ UNCHANGED vars
  BY <1>3, TickInv
<1> QED
  BY <1>1, <1>2, <1>3 DEF Next

\* The invariant holds in every reachable state, for every number of requests,
\* challenges, families, secrets and batches.
THEOREM Correct == Spec => []IndInv
BY InitInv, NextInv, PTL DEF Spec

\* The tables and the request slots of the second factor keep their types.
THEOREM TypeCorrect == Spec => []TypeOK
<1>1. IndInv => TypeOK
  BY DEF IndInv
<1> QED
  BY <1>1, Correct, PTL

\* VerifyMFALogin: one login challenge buys at most one session, however many
\* requests submit right codes for it at once, because ConsumeMFAChallenge
\* lets one of them pass and only that one goes on to CreateAuthSession.
THEOREM ChallengeBuysOneSession == Spec => []OneSessionPerChallenge
<1>1. IndInv => OneSessionPerChallenge
  BY DEF IndInv, ChallengeInv
<1> QED
  BY <1>1, Correct, PTL

\* verifySecondFactor: a recovery code is redeemed at most once ever, and a
\* TOTP step at most once within an enrollment, whichever endpoints race.
THEOREM NoFactorTwice == Spec => []FactorAcceptedOnce
<1>1. IndInv => FactorAcceptedOnce
  BY DEF IndInv, FactorInv
<1> QED
  BY <1>1, Correct, PTL

\* DisableMFA and ConfirmMFAReset: while no removal is under way or has died,
\* a usable session was stepped up with the enrollment that is in force, so a
\* stamp never outlives the enrollment that earned it.
THEOREM StampsDieWithTheFactor == Spec => []StampOfThisEnrollment
<1>1. IndInv => StampOfThisEnrollment
  BY DEF IndInv, StampInv, StampOfThisEnrollment, Usable, InForce
<1> QED
  BY <1>1, Correct, PTL

LEMMA KeptByStep ==
    ASSUME IndInv, [Next]_vars, Confirmed, mfa' # None
    PROVE  mfa'.secret = mfa.secret /\ mfa'.confirmed /\ mfa'.step >= mfa.step
<1>1. mfa \in UserMFA /\ mfa.confirmed /\ mfa.step \in Nat
  BY DEF IndInv, TypeOK, Confirmed, UserMFA, Times
<1>2. CASE UNCHANGED mfa
  BY <1>1, <1>2
<1>3. ASSUME NEW r \in Requests, NEW x \in TotpCodes, AcceptTOTP(r, x)
      PROVE  mfa'.secret = mfa.secret /\ mfa'.confirmed /\ mfa'.step >= mfa.step
  <2>1. PICK t \in Times : x[2] = t
    BY DEF TotpCodes
  <2>2. t \in Nat /\ mfa.step < t
    BY <1>3, <2>1 DEF AcceptTOTP, StepAdvances, Times
  <2>3. mfa'.secret = mfa.secret /\ mfa'.confirmed = mfa.confirmed /\ mfa'.step = t
    BY <1>1, <1>3, <2>1 DEF AcceptTOTP, UserMFA
  <2> QED
    BY <1>1, <2>2, <2>3
<1>4. ASSUME NEW r \in Requests, ConfirmMFA(r) \/ DeleteCommit(r)
      PROVE  UNCHANGED mfa
  BY <1>4 DEF ConfirmMFA, DeleteCommit, Confirmed
<1>5. ASSUME NEW r \in Requests, Start(r)
      PROVE  UNCHANGED mfa
  BY <1>5 DEF Start, Login, RequestMFAReset, VerifyMFALogin, ConfirmMFAReset, DisableMFA,
              RegenerateMFARecoveryCodes, StepUpMFA, ConfirmMFAEnrollment
<1>6. ASSUME NEW r \in Requests, Progress(r),
             ~ConfirmMFA(r), ~DeleteCommit(r), \A x \in TotpCodes : ~AcceptTOTP(r, x)
      PROVE  UNCHANGED mfa
  BY <1>6 DEF Progress, LoginChallenge, LoginUnchallenged, CreateAuthSession, LoadEnrollment,
              RefuseFactor, AcceptRecoveryCode, ConsumeMFAChallenge, SetSessionMFAVerified,
              ReplaceSnapshot, ReplaceCommit, MintResetChallenge, DeleteSnapshot,
              RevokeAllAuthSessions, ReloadUser
<1>7. ASSUME NEW f \in Families, StartMFAEnrollment(f)
      PROVE  FALSE
  BY <1>7 DEF StartMFAEnrollment, UpsertPendingMFA
<1>8. ASSUME NEW r \in Requests, Abandon(r)
      PROVE  UNCHANGED mfa
  BY <1>8 DEF Abandon
<1> QED
  BY <1>2, <1>3, <1>4, <1>5, <1>6, <1>7, <1>8 DEF Next, Tick, vars

\* StartMFAEnrollment, ConfirmMFA and AdvanceMFATOTPStep: while an enrollment
\* is confirmed its secret stays, it stays confirmed, and its replay guard
\* only moves forward; DeleteMFA is the only way out.
THEOREM EnrollmentKept == Spec => ConfirmedEnrollmentKept
<1>1. IndInv /\ [Next]_vars =>
        [Confirmed /\ mfa' # None =>
            /\ mfa'.secret = mfa.secret /\ mfa'.confirmed
            /\ mfa'.step >= mfa.step]_vars
  BY KeptByStep
<1> QED
  BY <1>1, Correct, PTL DEF Spec, ConfirmedEnrollmentKept
=============================================================================
