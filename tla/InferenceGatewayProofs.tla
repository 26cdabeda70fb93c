----------------------- MODULE InferenceGatewayProofs -----------------------
(***************************************************************************)
(* Proofs about InferenceGateway: the type invariant, SpendIsCovered,      *)
(* OneProviderPerSession, CachedAnswersLedgered and, in the second half,   *)
(* SerialAdmissionsWithinCap.                                              *)
(***************************************************************************)
EXTENDS InferenceGateway, FiniteSums, FiniteSetTheorems, SequenceTheorems, TLAPS

-----------------------------------------------------------------------------
(* The inductive invariant.                                                *)

\* What may lie ahead of an Invoke, by what has been done.
BeforeBudget == {<<"cache">>, <<"activate">>, <<"used">>, <<"reserved">>, <<"decide">>,
                 <<"failCall">>}
Calling == {<<"attempt">>, <<"finishAttempt">>}
ToPin == <<"pin", "finish", "put", "settle", "metrics">>
ToFinish == <<"finish", "put", "settle", "metrics">>
ToPut == <<"put", "settle", "metrics">>
ToSettle == <<"settle", "metrics">>
Failing == {<<"finishFailed", "settle">>, <<"finishFailed", "settle", "failSession">>,
            PinConflict, <<"failCall", "settle">>}
Failed == {<<"settle">>, <<"settle", "failSession">>}
Leaving == {<<>>, <<"metrics">>, <<"metricsTx">>, <<"failSession">>}

Holding == Calling \cup {ToPin, ToFinish, ToPut, ToSettle} \cup Failing \cup Failed
Plans == {<<"start">>} \cup BeforeBudget \cup Holding \cup Leaving

\* The reservation rv is active; the ledger row has what invocation i cost.
Holds(rv) == rv # None /\ rv.active = TRUE
Books(i, row) ==
    \/ i.lost
    \/ row # None /\ row.status \in {"succeeded", "failed"} /\ row.cost = i.total

\* A call pays or holds what it has spent, step by step.
SpendInv(i, row, rv) ==
    /\ row = None => i.todo = <<"start">>
    /\ i.todo \in BeforeBudget \cup {<<"start">>} => i.total = 0
    /\ i.todo \in Holding => Holds(rv)
    /\ i.todo \in {ToPut, ToSettle} \cup Failed => Books(i, row)
    /\ i.total > 0 => Holds(rv) \/ Books(i, row)
    /\ i.todo \in {ToPut, ToSettle} => row.status = "succeeded"

\* A call that is past PinSession works for the provider of its session, and so
\* does one that has answered.
PinInv(i, sessions) ==
    /\ i.todo \notin {<<>>, <<"start">>} => i.route # 0
    /\ i.todo = <<"start">> => i.answer = 0
    /\ i.session # None =>
        /\ sessions[i.session] # None
        /\ i.todo # <<>> => i.task = SessionTask
        /\ i.todo \in {ToFinish, ToPut, ToSettle} => sessions[i.session].pin = i.route
        /\ i.answer # 0 /\ SessionTask \notin CachedTasks
              => sessions[i.session].pin = i.answer

CallInv(i, row, rv, sessions) ==
    i.todo \in Plans /\ SpendInv(i, row, rv) /\ PinInv(i, sessions)

Past == {ToSettle} \cup Leaving

\* A call whose answer is cached is past every step that writes its row.
CacheInv ==
    \A k \in Tasks \X Providers :
        cache[k] # None => /\ call[cache[k].of] # None
                           /\ call[cache[k].of].status = "succeeded"
                           /\ run[cache[k].of].todo \in Past

InTransaction == {<<"activate">>, <<"used">>, <<"reserved">>, <<"decide">>, <<"metricsTx">>}

\* The first revision is committed, and transactions name rows that exist.
PolicyInv ==
    /\ policies # <<>> /\ policies[1].state = "committed"
    /\ \A x \in Clients : txn[x].own = 0 \/ txn[x].own \in 2..Len(policies)
    /\ \A c \in Calls :
          run[c].todo \in InTransaction => txn[c].want \in 1..Len(policies)
    /\ \A a \in Admins :
          adm[a].pc \in {"getTx", "patchTx"} => txn[a].want \in 1..Len(policies)

IndInv ==
    /\ TypeOK
    /\ \A c \in Calls : CallInv(run[c], call[c], resv[c], ses)
    /\ CacheInv
    /\ PolicyInv

-----------------------------------------------------------------------------
(* What lies ahead.                                                        *)

LEMMA PlanHead ==
    ASSUME NEW t \in Plans, t # <<>>
    PROVE  /\ Head(t) = "start" => t = <<"start">>
           /\ Head(t) = "cache" => t = <<"cache">>
           /\ Head(t) = "activate" => t = <<"activate">>
           /\ Head(t) = "used" => t = <<"used">>
           /\ Head(t) = "reserved" => t = <<"reserved">>
           /\ Head(t) = "decide" => t = <<"decide">>
           /\ Head(t) = "attempt" => t = <<"attempt">>
           /\ Head(t) = "finishAttempt" => t = <<"finishAttempt">>
           /\ Head(t) = "pin" => t = ToPin
           /\ Head(t) = "finish" => t = ToFinish
           /\ Head(t) = "put" => t = ToPut
           /\ Head(t) = "settle" => t \in Failed \cup {ToSettle}
           /\ Head(t) = "metrics" => t = <<"metrics">>
           /\ Head(t) = "metricsTx" => t = <<"metricsTx">>
           /\ Head(t) = "finishFailed" =>
                t \in {<<"finishFailed", "settle">>, <<"finishFailed", "settle", "failSession">>}
           /\ Head(t) = "failCall" => t \in {<<"failCall">>, <<"failCall", "settle">>}
           /\ Head(t) = "failSession" => t \in {<<"failSession">>, PinConflict}
  BY DEF Plans, Holding, Calling, Failing, Failed, Leaving, BeforeBudget, PinConflict,
         ToPin, ToFinish, ToPut, ToSettle

LEMMA PlanTail ==
    /\ Tail(ToPin) = ToFinish /\ Tail(ToFinish) = ToPut /\ Tail(ToPut) = ToSettle
    /\ Tail(ToSettle) = <<"metrics">>
    /\ Tail(<<"finishFailed", "settle">>) = <<"settle">>
    /\ Tail(<<"finishFailed", "settle", "failSession">>) = <<"settle", "failSession">>
    /\ Tail(<<"failCall">>) = <<>> /\ Tail(<<"failCall", "settle">>) = <<"settle">>
    /\ Tail(<<"settle">>) = <<>> /\ Tail(<<"settle", "failSession">>) = <<"failSession">>
    /\ Tail(<<"failSession">>) = <<>> /\ Tail(PinConflict) = <<"failCall", "settle">>
  BY DEF ToPin, ToFinish, ToPut, ToSettle, PinConflict

LEMMA PlansType == Plans \subseteq Seq(Steps)
  BY DEF Plans, Holding, Calling, Failing, Failed, Leaving, BeforeBudget, PinConflict,
         ToPin, ToFinish, ToPut, ToSettle, Steps

LEMMA PlanKinds ==
    /\ <<>> \notin Holding \cup BeforeBudget \cup {<<"start">>}
    /\ <<"start">> \notin Holding \cup BeforeBudget \cup Leaving
    /\ Holding \cap (BeforeBudget \cup Leaving) = {}
    /\ Leaving \cap BeforeBudget = {}
    /\ (Calling \cup Failing) \cap (Failed \cup {ToPin, ToFinish, ToPut, ToSettle}) = {}
    /\ Failed \cap {ToPin, ToFinish, ToPut, ToSettle} = {}
    /\ ToPin \notin {ToFinish, ToPut, ToSettle} /\ ToFinish \notin {ToPut, ToSettle}
    /\ ToPut # ToSettle
  BY DEF Plans, Holding, Calling, Failing, Failed, Leaving, BeforeBudget, PinConflict,
         ToPin, ToFinish, ToPut, ToSettle

-----------------------------------------------------------------------------
(* The sums of the budget.                                                 *)

\* CostOf and the sum of the reservations are sums of FiniteSums.
CallCosts == [c \in Calls |-> call[c].cost]
Amounts == [c \in Calls |-> resv[c].amount]

LEMMA CostIsSum ==
    ASSUME NEW S \in SUBSET Calls
    PROVE  CostOf(S) = SumOf(CallCosts, S)
<1> DEFINE Table(F) ==
        F = [s \in SUBSET S |-> IF s = {} THEN 0
                ELSE call[CHOOSE x \in s : TRUE].cost + F[s \ {CHOOSE x \in s : TRUE}]]
<1>1. CostOf(S) = (CHOOSE F : Table(F))[S]
  BY DEF CostOf, MapThenSumSet, MapThenFoldSet
<1>2. IsFiniteSet(S)
  BY NamesAssumption, FS_Subset
<1>3. ASSUME NEW s \in SUBSET S, s # {}
      PROVE  CallCosts[Pick(s)] = call[CHOOSE x \in s : TRUE].cost
  <2>1. (CHOOSE x \in s : TRUE) \in Calls
    BY <1>3
  <2> QED
    BY <2>1 DEF CallCosts, Pick
<1>4. ASSUME NEW F, NEW s \in SUBSET S
      PROVE  Entry(F, CallCosts, s) =
                IF s = {} THEN 0
                ELSE call[CHOOSE x \in s : TRUE].cost + F[s \ {CHOOSE x \in s : TRUE}]
  BY <1>3 DEF Entry, Pick
<1>5. ASSUME NEW F PROVE Table(F) <=> Tabulates(F, CallCosts, S)
  BY <1>4 DEF Tabulates
<1> HIDE DEF Table
<1>6. PICK F : Tabulates(F, CallCosts, S) /\ SumOf(CallCosts, S) = F[S]
  BY <1>2, SumTable
<1>7. Table(F)
  BY <1>5, <1>6
<1>8. PICK G : G = CHOOSE H : Table(H)
  OBVIOUS
<1>9. Table(G)
  BY <1>7, <1>8
<1>10. Tabulates(G, CallCosts, S)
  BY <1>5, <1>9
<1>11. F[S] = G[S]
  BY <1>2, <1>6, <1>10, TablesAgree
<1> QED
  BY <1>1, <1>6, <1>8, <1>11

AmountOf(S) == MapThenSumSet(LAMBDA c : resv[c].amount, S)

LEMMA AmountIsSum ==
    ASSUME NEW S \in SUBSET Calls
    PROVE  AmountOf(S) = SumOf(Amounts, S)
<1> DEFINE Table(F) ==
        F = [s \in SUBSET S |-> IF s = {} THEN 0
                ELSE resv[CHOOSE x \in s : TRUE].amount + F[s \ {CHOOSE x \in s : TRUE}]]
<1>1. AmountOf(S) = (CHOOSE F : Table(F))[S]
  BY DEF AmountOf, MapThenSumSet, MapThenFoldSet
<1>2. IsFiniteSet(S)
  BY NamesAssumption, FS_Subset
<1>3. ASSUME NEW s \in SUBSET S, s # {}
      PROVE  Amounts[Pick(s)] = resv[CHOOSE x \in s : TRUE].amount
  <2>1. (CHOOSE x \in s : TRUE) \in Calls
    BY <1>3
  <2> QED
    BY <2>1 DEF Amounts, Pick
<1>4. ASSUME NEW F, NEW s \in SUBSET S
      PROVE  Entry(F, Amounts, s) =
                IF s = {} THEN 0
                ELSE resv[CHOOSE x \in s : TRUE].amount + F[s \ {CHOOSE x \in s : TRUE}]
  BY <1>3 DEF Entry, Pick
<1>5. ASSUME NEW F PROVE Table(F) <=> Tabulates(F, Amounts, S)
  BY <1>4 DEF Tabulates
<1> HIDE DEF Table
<1>6. PICK F : Tabulates(F, Amounts, S) /\ SumOf(Amounts, S) = F[S]
  BY <1>2, SumTable
<1>7. Table(F)
  BY <1>5, <1>6
<1>8. PICK G : G = CHOOSE H : Table(H)
  OBVIOUS
<1>9. Table(G)
  BY <1>7, <1>8
<1>10. Tabulates(G, Amounts, S)
  BY <1>5, <1>9
<1>11. F[S] = G[S]
  BY <1>2, <1>6, <1>10, TablesAgree
<1> QED
  BY <1>1, <1>6, <1>8, <1>11

LEMMA FinishedCost ==
    ASSUME TypeOK, NEW S \in SUBSET {c \in Calls : Finished(c)}
    PROVE  /\ S \in SUBSET Calls /\ IsFiniteSet(S)
           /\ \A c \in S : CallCosts[c] \in Nat /\ CallCosts[c] = call[c].cost
           /\ CostOf(S) \in Nat
<1>1. S \in SUBSET Calls /\ IsFiniteSet(S)
  BY NamesAssumption, FS_Subset
<1>2. ASSUME NEW c \in S PROVE CallCosts[c] \in Nat /\ CallCosts[c] = call[c].cost
  <2>1. call[c] \in CallRow
    BY DEF TypeOK, Finished
  <2> QED
    BY <1>1, <2>1 DEF CallCosts, CallRow
<1>3. CostOf(S) \in Nat
  BY <1>1, <1>2, CostIsSum, SumNat
<1> QED
  BY <1>1, <1>2, <1>3

LEMMA CreatedCost ==
    ASSUME TypeOK, NEW a, NEW b
    PROVE  CreatedIn(a, b) \in SUBSET {c \in Calls : Finished(c)} /\ CostOf(CreatedIn(a, b)) \in Nat
<1>1. CreatedIn(a, b) \in SUBSET {c \in Calls : Finished(c)}
  BY DEF CreatedIn
<1> QED
  BY <1>1, FinishedCost

LEMMA ReservedNat ==
    ASSUME TypeOK
    PROVE  MapThenSumSet(LAMBDA d : resv[d].amount,
                         {d \in Calls : resv[d] # None /\ resv[d].active}) \in Nat
<1>1. PICK S : S = {d \in Calls : resv[d] # None /\ resv[d].active}
  OBVIOUS
<1>2. S \in SUBSET Calls /\ IsFiniteSet(S)
  BY <1>1, NamesAssumption, FS_Subset
<1>3. ASSUME NEW d \in S PROVE Amounts[d] \in Nat
  <2>1. resv[d] \in Reservation
    BY <1>1 DEF TypeOK
  <2> QED
    BY <1>2, <2>1 DEF Amounts, Reservation
<1>4. AmountOf(S) \in Nat
  BY <1>2, <1>3, AmountIsSum, SumNat
<1> QED
  BY <1>1, <1>4 DEF AmountOf

\* A baseline with any cost has a day with a cost: enforcement never begins on
\* a zero cap.
LEMMA BaselineCaps ==
    ASSUME TypeOK, NEW row \in Policy
    PROVE  /\ BaselineTotal(row) \in Nat /\ BaselineMaxDaily(row) \in Nat
           /\ BaselineTotal(row) # 0 => BaselineMaxDaily(row) # 0
<1>1. PICK first : first = row.started
  OBVIOUS
<1>2. PICK last : last = row.started + BaselineDays - 1
  OBVIOUS
<1>3. PICK C : C = CreatedIn(first, last)
  OBVIOUS
<1>4. BaselineTotal(row) = CostOf(C)
  BY <1>1, <1>2, <1>3 DEF BaselineTotal
<1>5. C \in SUBSET {c \in Calls : Finished(c)} /\ CostOf(C) \in Nat
  BY <1>3, CreatedCost
<1>6. PICK A : A = {c \in Calls : Finished(c)}
  OBVIOUS
<1>7. /\ CostOf(A) \in Nat /\ IsFiniteSet(A) /\ A \in SUBSET Calls
      /\ \A c \in A : CallCosts[c] \in Nat
  BY <1>6, FinishedCost
<1>8. PICK B : B = {0} \cup {CostOf(CreatedIn(d, d)) : d \in first..last}
  OBVIOUS
<1>9. BaselineMaxDaily(row) = Max(B)
  BY <1>1, <1>2, <1>8 DEF BaselineMaxDaily
<1>10. B \in SUBSET Nat /\ 0 \in B
  BY <1>8, CreatedCost
<1>11. ASSUME NEW d PROVE CostOf(CreatedIn(d, d)) <= CostOf(A)
  <2>1. PICK D : D = CreatedIn(d, d)
    OBVIOUS
  <2>2. D \in SUBSET A /\ D \in SUBSET Calls
    BY <1>6, <2>1 DEF CreatedIn
  <2>3. \A c \in D : CallCosts[c] \in Nat /\ CallCosts[c] <= CallCosts[c]
    BY <1>7, <2>2
  <2>4. SumOf(CallCosts, D) <= SumOf(CallCosts, A)
    BY <1>7, <2>2, <2>3, SumMonotone
  <2> QED
    BY <1>7, <2>1, <2>2, <2>4, CostIsSum
<1>12. \A b \in B : b <= CostOf(A)
  BY <1>7, <1>8, <1>11
<1>13. Max(B) \in B /\ \A b \in B : b <= Max(B)
  BY <1>7, <1>10, <1>12, MaxNat
<1>14. ASSUME CostOf(C) # 0 PROVE Max(B) # 0
  <2>1. IsFiniteSet(C) /\ C \in SUBSET Calls /\ \A c \in C : CallCosts[c] = call[c].cost
    BY <1>5, FinishedCost
  <2>2. PICK c \in C : CallCosts[c] # 0
    BY <1>14, <2>1, CostIsSum, SumZero
  <2>3. PICK d : d = call[c].day
    OBVIOUS
  <2>4. d \in first..last /\ c \in Calls /\ Finished(c)
    BY <1>3, <2>3 DEF CreatedIn
  <2>5. PICK D : D = CreatedIn(d, d)
    OBVIOUS
  <2>6. call[c] \in CallRow
    BY <2>4 DEF TypeOK, Finished
  <2>7. d \in Nat
    BY <2>3, <2>6, TimeAssumption DEF CallRow, Days
  <2>8. c \in D
    BY <2>3, <2>4, <2>5, <2>7 DEF CreatedIn
  <2>9. D \in SUBSET {x \in Calls : Finished(x)} /\ CostOf(D) \in Nat
    BY <2>5, CreatedCost
  <2>10. IsFiniteSet(D) /\ D \in SUBSET Calls /\ \A x \in D : CallCosts[x] \in Nat
    BY <2>9, FinishedCost
  <2>11. CallCosts[c] <= SumOf(CallCosts, D)
    BY <2>8, <2>10, SumPositive
  <2>12. CostOf(D) # 0
    BY <2>2, <2>8, <2>9, <2>10, <2>11, CostIsSum
  <2>13. CostOf(D) \in B
    BY <1>8, <2>4, <2>5
  <2> QED
    BY <1>10, <1>13, <2>9, <2>12, <2>13
<1> QED
  BY <1>4, <1>5, <1>9, <1>10, <1>13, <1>14

-----------------------------------------------------------------------------
(* The policy table.                                                       *)

Revisions == policies \in Seq(Policy) /\ policies # <<>> /\ policies[1].state = "committed"

LEMMA SuccessorType ==
    ASSUME TypeOK, NEW row \in Policy
    PROVE  /\ Successor(row) \in Policy
           /\ [Successor(row) EXCEPT !.state = "committed"] \in Policy
           /\ [Successor(row) EXCEPT !.state = "committed"].state = "committed"
<1>1. row.started \in Days /\ day \in Days
  BY DEF TypeOK, Policy
<1>2. PICK m : m = BaselineMaxDaily(row)
  OBVIOUS
<1>3. PICK t : t = BaselineTotal(row)
  OBVIOUS
<1>4. t \in Nat /\ m \in Nat /\ (t # 0 => m # 0)
  BY <1>2, <1>3, BaselineCaps
<1>5. CASE t = 0
  <2>1. Successor(row) = [mode |-> "baseline", started |-> day, daily |-> 0, monthly |-> 0,
                          state |-> "pending"]
    BY <1>3, <1>5 DEF Successor
  <2> QED
    BY <1>1, <2>1 DEF Policy, Modes
<1>6. CASE t # 0
  <2>1. Successor(row) = [mode |-> "enforce", started |-> row.started, daily |-> 2 * m,
                          monthly |-> 2 * t, state |-> "pending"]
    BY <1>2, <1>3, <1>6 DEF Successor, Enforcing
  <2>2. 2 * m \in Nat \ {0} /\ 2 * t \in Nat \ {0}
    BY <1>4, <1>6
  <2>3. PICK a, b : a = 2 * m /\ b = 2 * t
    OBVIOUS
  <2> QED
    BY <1>1, <2>1, <2>2, <2>3 DEF Policy, Modes
<1> QED
  BY <1>5, <1>6

LEMMA CommittedType ==
    ASSUME Revisions, NEW own, own = 0 \/ own \in 2..Len(policies)
    PROVE  /\ Committed(policies, own) \in Seq(Policy) /\ Voided(policies, own) \in Seq(Policy)
           /\ Len(Committed(policies, own)) = Len(policies)
           /\ Len(Voided(policies, own)) = Len(policies)
           /\ Committed(policies, own)[1] = policies[1]
           /\ Voided(policies, own)[1] = policies[1]
<1>1. CASE own = 0
  BY <1>1 DEF Committed, Voided, Revisions
<1>2. CASE own \in 2..Len(policies)
  <2>1. Len(policies) \in Nat /\ own # 0 /\ own # 1 /\ own \in 1..Len(policies) /\ 1 \in 1..Len(policies)
    BY <1>2 DEF Revisions
  <2>2. policies[own] \in Policy
    BY <2>1 DEF Revisions
  <2>3. /\ [policies[own] EXCEPT !.state = "committed"] \in Policy
        /\ [policies[own] EXCEPT !.state = "void"] \in Policy
    BY <2>2 DEF Policy, Modes
  <2>4. /\ Committed(policies, own) = [policies EXCEPT ![own] = [@ EXCEPT !.state = "committed"]]
        /\ Voided(policies, own) = [policies EXCEPT ![own] = [@ EXCEPT !.state = "void"]]
    BY <2>1 DEF Committed, Voided
  <2> QED
    BY <2>1, <2>3, <2>4 DEF Revisions
<1> QED
  BY <1>1, <1>2

LEMMA AppendType ==
    ASSUME Revisions, NEW row \in Policy
    PROVE  /\ Append(policies, row) \in Seq(Policy)
           /\ Append(policies, row)[1] = policies[1]
           /\ Len(Append(policies, row)) = Len(policies) + 1
           /\ Append(policies, row) # <<>>
           /\ Len(policies) \in Nat /\ 1 \in 1..Len(policies)
  BY DEF Revisions

LEMMA LatestExists ==
    ASSUME Revisions, NEW x \in Clients
    PROVE  Latest(x) \in 1..Len(policies)
<1>1. 1 \in Visible(x) /\ Visible(x) \in SUBSET (1..Len(policies))
  BY DEF Revisions, Visible
<1>2. Len(policies) \in Nat
  BY DEF Revisions
<1>3. Visible(x) \in SUBSET Nat /\ \A b \in Visible(x) : b <= Len(policies)
  BY <1>1, <1>2
<1>4. Max(Visible(x)) \in Visible(x)
  BY <1>1, <1>2, <1>3, MaxNat
<1> QED
  BY <1>1, <1>4 DEF Latest

LEMMA MaxCommitted ==
    ASSUME NEW rows \in Seq(Policy), rows # <<>>, rows[1].state = "committed"
    PROVE  Max({r \in DOMAIN rows : rows[r].state = "committed"}) \in Nat
<1>1. PICK B : B = {r \in DOMAIN rows : rows[r].state = "committed"}
  OBVIOUS
<1>2. 1 \in B /\ B \in SUBSET Nat /\ Len(rows) \in Nat /\ \A b \in B : b <= Len(rows)
  BY <1>1
<1>3. Max(B) \in B
  BY <1>2, MaxNat
<1> QED
  BY <1>1, <1>2, <1>3

-----------------------------------------------------------------------------
(* Routes and invocations.                                                 *)

LEMMA FirstRoute ==
    ASSUME NEW R \in SUBSET Providers, R # {}
    PROVE  Min(R) \in R /\ Min(R) \in Providers /\ Min(R) # 0
<1>1. R \in SUBSET Nat /\ 0 \notin R
  BY RoutesAssumption DEF Providers
<1>2. PICK n \in R : \A m \in R : n <= m
  BY <1>1, LeastNat
<1>3. Min(R) \in R
  BY <1>2 DEF Min
<1> QED
  BY <1>1, <1>3

LEMMA MaximumNat ==
    ASSUME NEW R \in SUBSET Providers
    PROVE  RouteMax * Cardinality(R) \in Nat
<1>1. IsFiniteSet(Providers)
  BY RoutesAssumption, FS_Interval DEF Providers
<1>2. Cardinality(R) \in Nat
  BY <1>1, FS_Subset, FS_CardinalityType
<1>3. RouteMax \in Nat
  BY MoneyAssumption
<1> QED
  BY <1>2, <1>3

LEMMA IdleType == Idle \in Invocation
<1>1. <<"start">> \in Seq(Steps)
  BY PlansType DEF Plans
<1> QED
  BY <1>1 DEF Idle, Invocation

\* What Returned and Doing keep.
LEMMA ReturnedType ==
    ASSUME NEW i \in Invocation
    PROVE  /\ Returned(i) \in Invocation
           /\ Returned(i).todo = <<>> /\ Returned(i).session = i.session
           /\ Returned(i).total = i.total /\ Returned(i).answer = i.answer
           /\ Returned(i).lost = i.lost
<1>1. <<>> \in Seq(Steps)
  OBVIOUS
<1> QED
  BY <1>1, IdleType DEF Returned, Invocation, Idle

LEMMA DoingType ==
    ASSUME NEW i \in Invocation, NEW t \in Plans
    PROVE  /\ Doing(i, t) \in Invocation
           /\ Doing(i, t).todo = t /\ Doing(i, t).session = i.session
           /\ Doing(i, t).total = i.total /\ Doing(i, t).answer = i.answer
           /\ Doing(i, t).lost = i.lost
           /\ t # <<>> => Doing(i, t).route = i.route /\ Doing(i, t).task = i.task
<1>1. t \in Seq(Steps)
  BY PlansType
<1>2. CASE t = <<>>
  BY <1>2, ReturnedType DEF Doing
<1>3. CASE t # <<>>
  BY <1>1, <1>3 DEF Doing, Invocation
<1> QED
  BY <1>2, <1>3

\* Everything of an invocation but torn.
Same(i, j) ==
    /\ j.todo = i.todo /\ j.task = i.task /\ j.session = i.session
    /\ j.route = i.route /\ j.total = i.total /\ j.answer = i.answer /\ j.lost = i.lost

LEMMA TearType ==
    ASSUME NEW runs \in [Calls -> Invocation], NEW x
    PROVE  /\ Tear(runs, x) \in [Calls -> Invocation]
           /\ \A c \in Calls : Same(runs[c], Tear(runs, x)[c])
<1>1. ASSUME NEW c \in Calls
      PROVE  Tear(runs, x)[c] \in Invocation /\ Same(runs[c], Tear(runs, x)[c])
  <2>1. runs[c] \in Invocation
    OBVIOUS
  <2>2. Tear(runs, x)[c] = runs[c] \/ Tear(runs, x)[c] = [runs[c] EXCEPT !.torn = TRUE]
    BY DEF Tear
  <2> QED
    BY <2>1, <2>2 DEF Same, Invocation
<1> QED
  BY <1>1 DEF Tear

-----------------------------------------------------------------------------
(* Steps.                                                                  *)

\* Sessions are created once and pinned once.
Grown(old, new) ==
    \A s \in Sessions :
        old[s] # None => new[s] # None /\ (old[s].pin # 0 => new[s].pin = old[s].pin)

LEMMA SameCall ==
    ASSUME NEW i \in Invocation, NEW j, NEW row, NEW rv, NEW old, NEW new,
           CallInv(i, row, rv, old), Same(i, j), Grown(old, new)
    PROVE  CallInv(j, row, rv, new)
<1>1. j.todo \in Plans
  BY DEF CallInv, Same
<1>2. SpendInv(j, row, rv)
  BY DEF CallInv, SpendInv, Books, Same
<1>3. PinInv(j, new)
  <2>1. j.todo \notin {<<>>, <<"start">>} => j.route # 0
    BY DEF CallInv, PinInv, Same
  <2>2. j.todo = <<"start">> => j.answer = 0
    BY DEF CallInv, PinInv, Same
  <2>3. ASSUME j.session # None
        PROVE  /\ new[j.session] # None
               /\ j.todo # <<>> => j.task = SessionTask
               /\ j.todo \in {ToFinish, ToPut, ToSettle} => new[j.session].pin = j.route
               /\ j.answer # 0 /\ SessionTask \notin CachedTasks
                     => new[j.session].pin = j.answer
    <3>1. j.session \in Sessions /\ j.session = i.session
      BY <2>3 DEF Same, Invocation
    <3>2. /\ old[i.session] # None
          /\ i.todo # <<>> => i.task = SessionTask
          /\ i.todo \in {ToFinish, ToPut, ToSettle} => old[i.session].pin = i.route
          /\ i.answer # 0 /\ SessionTask \notin CachedTasks => old[i.session].pin = i.answer
      BY <2>3, <3>1 DEF CallInv, PinInv
    <3>3. i.todo \in {ToFinish, ToPut, ToSettle} => i.route # 0
      BY PlanKinds DEF CallInv, PinInv, Holding
    <3>4. new[j.session] # None
      BY <3>1, <3>2 DEF Grown
    <3>5. old[j.session].pin # 0 => new[j.session].pin = old[j.session].pin
      BY <3>1, <3>2 DEF Grown
    <3> QED
      BY <3>1, <3>2, <3>3, <3>4, <3>5 DEF Same
  <2> QED
    BY <2>1, <2>2, <2>3 DEF PinInv
<1> QED
  BY <1>1, <1>2, <1>3 DEF CallInv

\* A step of client x that leaves the other calls' rows alone.
LEMMA OwnStep ==
    ASSUME IndInv, TypeOK', NEW x,
           \A d \in Calls \ {x} :
              Same(run[d], run'[d]) /\ call'[d] = call[d] /\ resv'[d] = resv[d],
           Grown(ses, ses'),
           x \in Calls => CallInv(run'[x], call'[x], resv'[x], ses'),
           x \in Calls /\ run[x].todo \in Past
              => run'[x].todo \in Past /\ call'[x] = call[x],
           cache' = cache,
           PolicyInv'
    PROVE  IndInv'
<1>1. ASSUME NEW d \in Calls PROVE CallInv(run'[d], call'[d], resv'[d], ses')
  <2>1. CASE d = x
    BY <2>1
  <2>2. CASE d # x
    <3>1. run[d] \in Invocation /\ CallInv(run[d], call[d], resv[d], ses)
      BY DEF IndInv, TypeOK
    <3>2. Same(run[d], run'[d]) /\ call'[d] = call[d] /\ resv'[d] = resv[d]
      BY <2>2
    <3>3. CallInv(run'[d], call[d], resv[d], ses')
      BY <3>1, <3>2, SameCall
    <3> QED
      BY <3>2, <3>3
  <2> QED
    BY <2>1, <2>2
<1>2. CacheInv'
  <2> SUFFICES ASSUME NEW k \in Tasks \X Providers, cache[k] # None
               PROVE  /\ call'[cache[k].of] # None
                      /\ call'[cache[k].of].status = "succeeded"
                      /\ run'[cache[k].of].todo \in Past
    BY DEF CacheInv
  <2>1. PICK d : d = cache[k].of
    OBVIOUS
  <2>2. d \in Calls
    BY <2>1 DEF IndInv, TypeOK, CacheEntry
  <2>3. call[d] # None /\ call[d].status = "succeeded" /\ run[d].todo \in Past
    BY <2>1 DEF IndInv, CacheInv
  <2>4. call'[d] = call[d] /\ run'[d].todo \in Past
    BY <2>2, <2>3 DEF Same
  <2> QED
    BY <2>1, <2>3, <2>4
<1> QED
  BY <1>1, <1>2 DEF IndInv

\* A step of client x, as the policy table sees it.
LEMMA PolicyStep ==
    ASSUME IndInv, NEW x, Revisions', Len(policies') >= Len(policies),
           \A y \in Clients \ {x} : txn'[y] = txn[y],
           \A d \in Calls \ {x} : run'[d].todo = run[d].todo,
           \A a \in Admins \ {x} : adm'[a].pc = adm[a].pc,
           x \in Clients => txn'[x].own = 0 \/ txn'[x].own \in 2..Len(policies'),
           x \in Calls /\ run'[x].todo \in InTransaction => txn'[x].want \in 1..Len(policies'),
           x \in Admins /\ adm'[x].pc \in {"getTx", "patchTx"}
              => txn'[x].want \in 1..Len(policies')
    PROVE  PolicyInv'
<1>1. Len(policies) \in Nat /\ Len(policies') \in Nat
  BY DEF IndInv, TypeOK, Revisions
<1>2. 1..Len(policies) \subseteq 1..Len(policies') /\ 2..Len(policies) \subseteq 2..Len(policies')
  BY <1>1
<1>3. \A y \in Clients : txn'[y].own = 0 \/ txn'[y].own \in 2..Len(policies')
  BY <1>2 DEF IndInv, PolicyInv
<1>4. \A d \in Calls : run'[d].todo \in InTransaction => txn'[d].want \in 1..Len(policies')
  BY <1>2 DEF IndInv, PolicyInv, Clients
<1>5. \A a \in Admins :
         adm'[a].pc \in {"getTx", "patchTx"} => txn'[a].want \in 1..Len(policies')
  BY <1>2 DEF IndInv, PolicyInv, Clients
<1> QED
  BY <1>3, <1>4, <1>5 DEF PolicyInv, Revisions

LEMMA Typed ==
    ASSUME IndInv, NEW c \in Calls
    PROVE  /\ run[c] \in Invocation /\ CallInv(run[c], call[c], resv[c], ses)
           /\ run[c].todo \in Plans /\ SpendInv(run[c], call[c], resv[c]) /\ PinInv(run[c], ses)
           /\ call[c] # None => call[c] \in CallRow
           /\ resv[c] # None => resv[c] \in Reservation
           /\ c \in Clients /\ c \notin Admins /\ c # None
           /\ txn[c] \in Transaction /\ (txn[c].own = 0 \/ txn[c].own \in 2..Len(policies))
           /\ Revisions /\ policies # <<>> /\ Len(policies) \in Nat \ {0}
           /\ \A s \in Sessions : ses[s] # None => ses[s] \in InferenceSession
<1>1. c \in Clients /\ c \notin Admins /\ c # None
  BY NamesAssumption DEF Clients
<1>2. Revisions
  BY DEF IndInv, TypeOK, PolicyInv, Revisions
<1>3. Len(policies) \in Nat \ {0} /\ policies # <<>>
  BY <1>2 DEF Revisions
<1>4. CallInv(run[c], call[c], resv[c], ses) /\ run[c] \in Invocation
  BY DEF IndInv, TypeOK
<1>5. run[c].todo \in Plans /\ SpendInv(run[c], call[c], resv[c]) /\ PinInv(run[c], ses)
  BY <1>4 DEF CallInv
<1>6. txn[c] \in Transaction /\ (txn[c].own = 0 \/ txn[c].own \in 2..Len(policies))
  BY <1>1 DEF IndInv, TypeOK, PolicyInv
<1> QED
  BY <1>1, <1>2, <1>3, <1>4, <1>5, <1>6 DEF IndInv, TypeOK

\* The first n conjuncts of TypeOK', for a step of Invoke.
TypeStep ==
    /\ call' \in [Calls -> CallRow \cup {None}]
    /\ resv' \in [Calls -> Reservation \cup {None}]
    /\ ses' \in [Sessions -> InferenceSession \cup {None}]
    /\ run' \in [Calls -> Invocation]
    /\ txn' \in [Clients -> Transaction]
    /\ adm' = adm /\ cache' = cache /\ day' = day /\ faults' \in 0..MaxFaults

\* A step of call c that makes it j.
LEMMA Move ==
    ASSUME IndInv, NEW c \in Calls, NEW j, run'[c] = j, TypeStep,
           \A d \in Calls \ {c} :
              Same(run[d], run'[d]) /\ call'[d] = call[d] /\ resv'[d] = resv[d],
           Grown(ses, ses'),
           CallInv(j, call'[c], resv'[c], ses'),
           run[c].todo \in Past => j.todo \in Past /\ call'[c] = call[c],
           Revisions', Len(policies') >= Len(policies),
           \A y \in Clients \ {c} : txn'[y] = txn[y],
           txn'[c].own = 0 \/ txn'[c].own \in 2..Len(policies'),
           j.todo \in InTransaction => txn'[c].want \in 1..Len(policies')
    PROVE  IndInv'
<1>1. TypeOK'
  BY DEF IndInv, TypeOK, TypeStep, Revisions
<1>2. c \notin Admins
  BY Typed
<1>3. \A d \in Calls \ {c} : run'[d].todo = run[d].todo
  BY DEF Same
<1>4. PolicyInv'
  BY <1>2, <1>3, PolicyStep DEF TypeStep
<1> QED
  BY <1>1, <1>4, OwnStep DEF TypeStep

LEMMA OneRun ==
    ASSUME IndInv, NEW c \in Calls, NEW j \in Invocation, run' = [run EXCEPT ![c] = j]
    PROVE  /\ run' \in [Calls -> Invocation] /\ run'[c] = j
           /\ \A d \in Calls \ {c} : Same(run[d], run'[d])
  BY DEF IndInv, TypeOK, Same

LEMMA NoGrowth == Grown(ses, ses)
  BY DEF Grown

\* A step that touches neither the policy table nor its transactions.
LEMMA Quiet ==
    ASSUME IndInv, NEW c \in Calls, NEW j \in Invocation, run' = [run EXCEPT ![c] = j],
           call' \in [Calls -> CallRow \cup {None}],
           resv' \in [Calls -> Reservation \cup {None}],
           ses' \in [Sessions -> InferenceSession \cup {None}],
           UNCHANGED <<policies, cache, adm, txn, day, faults>>,
           \A d \in Calls \ {c} : call'[d] = call[d] /\ resv'[d] = resv[d],
           Grown(ses, ses'),
           CallInv(j, call'[c], resv'[c], ses'),
           run[c].todo \in Past => j.todo \in Past /\ call'[c] = call[c],
           j.todo \notin InTransaction
    PROVE  IndInv'
<1>1. /\ run' \in [Calls -> Invocation] /\ run'[c] = j
      /\ \A d \in Calls \ {c} : Same(run[d], run'[d])
  BY OneRun
<1>2. TypeStep
  BY <1>1 DEF TypeStep, IndInv, TypeOK
<1>3. Revisions' /\ Len(policies') >= Len(policies)
  BY Typed DEF Revisions
<1>4. txn'[c].own = 0 \/ txn'[c].own \in 2..Len(policies')
  BY Typed
<1> QED
  BY <1>1, <1>2, <1>3, <1>4, Move

-----------------------------------------------------------------------------
(* Invoke, action by action.                                               *)

LEMMA StartStep ==
    ASSUME IndInv, NEW c \in Calls, NEW t \in Tasks, NEW s \in Sessions \cup {None}, Start(c, t, s)
    PROVE  IndInv'
<1>1. run[c].todo = <<"start">>
  BY Typed, PlanHead DEF Start, At
<1>2. PICK R : R = IF s # None /\ ses[s].pin # 0 THEN {ses[s].pin} ELSE Providers
  OBVIOUS
<1>3. R \in SUBSET Providers /\ R # {}
  <2>1. Providers # {}
    BY RoutesAssumption DEF Providers
  <2>2. CASE s # None
    <3>1. ses[s] \in InferenceSession
      BY <2>2, Typed DEF Start
    <3> QED
      BY <1>2, <2>1, <3>1 DEF InferenceSession
  <2>3. CASE s = None
    BY <1>2, <2>1, <2>3
  <2> QED
    BY <2>2, <2>3
<1>4. Min(R) \in Providers /\ Min(R) # 0
  BY <1>3, FirstRoute
<1>5. PICK j : j = [run[c] EXCEPT !.todo = <<"cache">>, !.task = t, !.session = s,
                                  !.routes = R, !.route = Min(R)]
  OBVIOUS
<1>6. <<"cache">> \in Seq(Steps) /\ <<"cache">> \in BeforeBudget
  BY PlansType DEF Plans, BeforeBudget
<1>7. /\ j \in Invocation /\ j.todo = <<"cache">> /\ j.task = t /\ j.session = s
      /\ j.route = Min(R) /\ j.total = run[c].total /\ j.answer = run[c].answer
  <2>1. run[c] \in Invocation
    BY Typed
  <2>2. PICK r : r = Min(R)
    OBVIOUS
  <2> QED
    BY <1>3, <1>4, <1>5, <1>6, <2>1, <2>2 DEF Invocation
<1>8. run' = [run EXCEPT ![c] = j]
  BY <1>2, <1>5 DEF Start
<1>9. PICK row : row = [status |-> "started", cost |-> 0, day |-> day]
  OBVIOUS
<1>10. row \in CallRow /\ row # None
  BY <1>9, RowsAssumption DEF CallRow, IndInv, TypeOK
<1>11. /\ call' = [call EXCEPT ![c] = row] /\ call'[c] = row
       /\ call' \in [Calls -> CallRow \cup {None}]
  BY <1>9, <1>10 DEF Start, IndInv, TypeOK
<1>12. UNCHANGED <<policies, resv, cache, ses, adm, txn, day, faults>>
  BY DEF Start
<1>13. run[c].total = 0 /\ run[c].answer = 0
  BY <1>1, Typed DEF SpendInv, PinInv
<1>14. SpendInv(j, row, resv[c])
  BY <1>6, <1>7, <1>10, <1>13, PlanKinds DEF SpendInv, Holding
<1>15. PinInv(j, ses)
  <2>1. <<"cache">> \notin {ToFinish, ToPut, ToSettle} /\ <<"cache">> # <<"start">>
    BY <1>6, PlanKinds DEF Holding
  <2>2. s # None => t = SessionTask /\ ses[s] # None
    BY DEF Start
  <2> QED
    BY <1>4, <1>7, <1>13, <2>1, <2>2 DEF PinInv
<1>16. CallInv(j, row, resv[c], ses)
  BY <1>6, <1>7, <1>14, <1>15 DEF CallInv, Plans
<1>17. run[c].todo \notin Past /\ j.todo \notin InTransaction
  BY <1>1, <1>7, PlanKinds DEF Past, Holding, InTransaction
<1>18. resv' \in [Calls -> Reservation \cup {None}] /\ ses' \in [Sessions -> InferenceSession \cup {None}]
  BY <1>12 DEF IndInv, TypeOK
<1> QED
  BY <1>7, <1>8, <1>11, <1>12, <1>16, <1>17, <1>18, NoGrowth, Quiet

\* What a step must do to keep the call with the provider of its session.
LEMMA PinKept ==
    ASSUME NEW i \in Invocation, NEW j, NEW old, NEW new, PinInv(i, old), Grown(old, new),
           i.todo \notin {<<>>, <<"start">>}, j.todo # <<"start">>,
           j.session = i.session, j.answer = i.answer,
           j.todo # <<>> => j.route # 0 /\ j.task = i.task,
           i.session # None /\ j.todo \in {ToFinish, ToPut, ToSettle}
              => new[i.session].pin = j.route
    PROVE  PinInv(j, new)
<1>1. ASSUME i.session # None
      PROVE  /\ new[i.session] # None /\ i.task = SessionTask
             /\ i.answer # 0 /\ SessionTask \notin CachedTasks => new[i.session].pin = i.answer
  <2>1. i.session \in Sessions
    BY <1>1 DEF Invocation
  <2>2. /\ old[i.session] # None /\ i.task = SessionTask
        /\ i.answer # 0 /\ SessionTask \notin CachedTasks => old[i.session].pin = i.answer
    BY <1>1 DEF PinInv
  <2> QED
    BY <2>1, <2>2 DEF Grown
<1> QED
  BY <1>1 DEF PinInv

LEMMA SameType ==
    ASSUME IndInv
    PROVE  /\ call \in [Calls -> CallRow \cup {None}]
           /\ resv \in [Calls -> Reservation \cup {None}]
           /\ ses \in [Sessions -> InferenceSession \cup {None}]
           /\ txn \in [Clients -> Transaction]
           /\ faults \in 0..MaxFaults /\ day \in Days
  BY DEF IndInv, TypeOK

\* The ledger row of a call that has begun.
LEMMA RowSet ==
    ASSUME IndInv, NEW c \in Calls, run[c].todo # <<"start">>, NEW row \in CallRow,
           call' = [call EXCEPT ![c] = row]
    PROVE  /\ call' \in [Calls -> CallRow \cup {None}] /\ call'[c] = row /\ row # None
           /\ \A d \in Calls \ {c} : call'[d] = call[d]
  BY RowsAssumption DEF IndInv, TypeOK

LEMMA RowThere ==
    ASSUME IndInv, NEW c \in Calls, run[c].todo # <<"start">>
    PROVE  call[c] \in CallRow /\ call[c] # None
  BY Typed DEF SpendInv

LEMMA CacheHitStep ==
    ASSUME IndInv, NEW c \in Calls, NEW p \in Providers, CacheHit(c, p)
    PROVE  IndInv'
<1>1. run[c].todo = <<"cache">>
  BY Typed, PlanHead DEF CacheHit, At
<1>2. <<"cache">> \in BeforeBudget /\ <<"cache">> # <<"start">> /\ <<"cache">> # <<>>
  BY PlanKinds DEF BeforeBudget
<1>3. run[c] \in Invocation /\ PinInv(run[c], ses) /\ run[c].total = 0
  BY <1>1, <1>2, Typed DEF SpendInv
<1>4. PICK i : i = [run[c] EXCEPT !.answer = p]
  OBVIOUS
<1>5. /\ i \in Invocation /\ i.session = run[c].session /\ i.total = run[c].total
      /\ i.answer = p
  BY <1>3, <1>4 DEF Invocation
<1>6. PICK j : j = Returned(i)
  OBVIOUS
<1>7. /\ j \in Invocation /\ j.todo = <<>> /\ j.session = run[c].session
      /\ j.total = 0 /\ j.answer = p
  BY <1>3, <1>5, <1>6, ReturnedType
<1>8. run' = [run EXCEPT ![c] = j]
  BY <1>4, <1>6 DEF CacheHit
<1>9. call[c] \in CallRow
  BY <1>1, <1>2, RowThere
<1>10. PICK row : row = [call[c] EXCEPT !.status = "cache_hit"]
  OBVIOUS
<1>11. row \in CallRow
  BY <1>9, <1>10 DEF CallRow
<1>12. call' = [call EXCEPT ![c] = row]
  BY <1>10 DEF CacheHit
<1>13. /\ call' \in [Calls -> CallRow \cup {None}] /\ call'[c] = row /\ row # None
       /\ \A d \in Calls \ {c} : call'[d] = call[d]
  BY <1>1, <1>2, <1>11, <1>12, RowSet
<1>14. SpendInv(j, row, resv[c])
  BY <1>7, <1>13, PlanKinds DEF SpendInv, Holding
<1>15. PinInv(j, ses)
  <2>1. run[c].session # None => run[c].task = SessionTask /\ ses[run[c].session] # None
    BY <1>1, <1>2, <1>3 DEF PinInv
  <2>2. run[c].task \in CachedTasks
    BY DEF CacheHit
  <2>3. <<>> \notin {ToFinish, ToPut, ToSettle} /\ <<>> # <<"start">>
    BY PlanKinds DEF Holding
  <2> QED
    BY <1>7, <2>1, <2>2, <2>3 DEF PinInv
<1>16. CallInv(j, row, resv[c], ses)
  BY <1>7, <1>14, <1>15 DEF CallInv, Plans, Leaving
<1>17. run[c].todo \notin Past /\ j.todo \notin InTransaction
  BY <1>1, <1>2, <1>7, PlanKinds DEF Past, Holding, InTransaction
<1>18. UNCHANGED <<policies, resv, cache, ses, adm, txn, day, faults>>
  BY DEF CacheHit
<1> QED
  BY <1>7, <1>8, <1>13, <1>16, <1>17, <1>18, SameType, NoGrowth, Quiet

\* A quiet step that only moves on to what lies ahead.
LEMMA MoveOn ==
    ASSUME IndInv, NEW c \in Calls, NEW j \in Invocation, run' = [run EXCEPT ![c] = j],
           UNCHANGED <<policies, call, resv, cache, ses, adm, txn, day, faults>>,
           SpendInv(j, call[c], resv[c]), PinInv(j, ses), j.todo \in Plans,
           run[c].todo \in Past => j.todo \in Past,
           j.todo \notin InTransaction
    PROVE  IndInv'
<1>1. CallInv(j, call'[c], resv'[c], ses')
  BY DEF CallInv
<1> QED
  BY <1>1, SameType, NoGrowth, Quiet

LEMMA AttemptStep ==
    ASSUME IndInv, NEW c \in Calls, NEW outcome \in {"ok", "retryable", "fatal"},
           NEW cost \in Costs, Attempt(c, outcome, cost)
    PROVE  IndInv'
<1>1. run[c].todo = <<"attempt">>
  BY Typed, PlanHead DEF Attempt, At
<1>2. /\ <<"attempt">> \in Holding \cap Calling /\ <<"finishAttempt">> \in Holding \cap Calling
      /\ {<<"attempt">>, <<"finishAttempt">>} \cap (Past \cup BeforeBudget \cup Failed \cup {<<"start">>}
              \cup {<<>>, ToPin, ToFinish, ToPut, ToSettle}) = {}
  BY PlanKinds DEF Holding, Calling, Past, Failed, Leaving
<1>3. run[c] \in Invocation /\ PinInv(run[c], ses) /\ SpendInv(run[c], call[c], resv[c])
  BY Typed
<1>4. cost \in Nat
  BY MoneyAssumption
<1>5. PICK j : j = [run[c] EXCEPT !.todo = <<"finishAttempt">>, !.outcome = outcome,
                                  !.total = run[c].total + cost]
  OBVIOUS
<1>6. <<"finishAttempt">> \in Seq(Steps)
  BY <1>2, PlansType DEF Plans
<1>7. /\ j \in Invocation /\ j.todo = <<"finishAttempt">> /\ j.session = run[c].session
      /\ j.route = run[c].route /\ j.task = run[c].task /\ j.answer = run[c].answer
  <2>1. run[c].total + cost \in Nat
    BY <1>3, <1>4 DEF Invocation
  <2> QED
    BY <1>3, <1>5, <1>6, <2>1 DEF Invocation
<1>8. SpendInv(j, call[c], resv[c])
  BY <1>1, <1>2, <1>3, <1>7 DEF SpendInv
<1>9. run[c].route # 0
  BY <1>1, <1>2, <1>3 DEF PinInv
<1>10. PinInv(j, ses)
  <2>1. j.todo \notin {ToFinish, ToPut, ToSettle} /\ j.todo # <<"start">>
    BY <1>2, <1>7
  <2>2. run[c].todo \notin {<<>>, <<"start">>}
    BY <1>1, <1>2
  <2> QED
    BY <1>3, <1>7, <1>9, <2>1, <2>2, NoGrowth, PinKept
<1>11. run' = [run EXCEPT ![c] = j]
  <2>1. run' = [run EXCEPT ![c] = [run[c] EXCEPT !.todo = <<"finishAttempt">>,
                                       !.outcome = outcome, !.total = run[c].total + cost]]
    BY DEF Attempt
  <2> QED
    BY <1>5, <2>1
<1>12. j.todo \in Plans /\ j.todo \notin InTransaction /\ run[c].todo \notin Past
  BY <1>1, <1>2, <1>7 DEF Plans, InTransaction, BeforeBudget, Leaving, Past
<1>13. UNCHANGED <<policies, call, resv, cache, ses, adm, txn, day, faults>>
  BY DEF Attempt
<1> QED
  BY <1>7, <1>8, <1>10, <1>11, <1>12, <1>13, MoveOn

LEMMA AfterAttempt ==
    ASSUME NEW c
    PROVE  /\ AfterSuccess(c) = IF run[c].session # None THEN ToPin ELSE ToFinish
           /\ AfterFailure(c) \in {<<"finishFailed", "settle">>,
                                   <<"finishFailed", "settle", "failSession">>}
<1>1. /\ <<"pin">> \o <<"finish", "put", "settle", "metrics">> = ToPin
      /\ <<>> \o <<"finish", "put", "settle", "metrics">> = ToFinish
  <2>1. PICK u : u = <<"pin">> \o <<"finish", "put", "settle", "metrics">>
    OBVIOUS
  <2>2. /\ <<"pin">> \in Seq(Steps) /\ Len(<<"pin">>) = 1
        /\ <<"finish", "put", "settle", "metrics">> \in Seq(Steps)
        /\ Len(<<"finish", "put", "settle", "metrics">>) = 4
    BY DEF Steps
  <2>3. u \in Seq(Steps) /\ Len(u) = 5
    BY <2>1, <2>2, ConcatProperties
  <2>4. u[1] = "pin" /\ u[2] = "finish" /\ u[3] = "put" /\ u[4] = "settle" /\ u[5] = "metrics"
    BY <2>1
  <2>5. u = ToPin
    BY <2>3, <2>4 DEF ToPin
  <2> QED
    BY <2>1, <2>2, <2>5, ConcatEmptySeq DEF ToFinish
<1>2. /\ <<"finishFailed", "settle">> \o <<"failSession">> = <<"finishFailed", "settle", "failSession">>
      /\ <<"finishFailed", "settle">> \o <<>> = <<"finishFailed", "settle">>
  <2>1. PICK u : u = <<"finishFailed", "settle">> \o <<"failSession">>
    OBVIOUS
  <2>2. /\ <<"failSession">> \in Seq(Steps) /\ Len(<<"failSession">>) = 1
        /\ <<"finishFailed", "settle">> \in Seq(Steps) /\ Len(<<"finishFailed", "settle">>) = 2
    BY DEF Steps
  <2>3. u \in Seq(Steps) /\ Len(u) = 3
    BY <2>1, <2>2, ConcatProperties
  <2>4. u[1] = "finishFailed" /\ u[2] = "settle" /\ u[3] = "failSession"
    BY <2>1
  <2>5. u = <<"finishFailed", "settle", "failSession">>
    BY <2>3, <2>4
  <2> QED
    BY <2>1, <2>2, <2>5, ConcatEmptySeq
<1>3. AfterSuccess(c) = IF run[c].session # None THEN ToPin ELSE ToFinish
  BY <1>1 DEF AfterSuccess
<1> QED
  BY <1>2, <1>3 DEF AfterFailure

LEMMA FinishAttemptStep ==
    ASSUME IndInv, NEW c \in Calls, FinishAttempt(c)
    PROVE  IndInv'
<1>1. run[c].todo = <<"finishAttempt">>
  BY Typed, PlanHead DEF FinishAttempt, At
<1>2. /\ <<"attempt">> \in Holding \cap Calling /\ <<"finishAttempt">> \in Holding \cap Calling
      /\ {<<"attempt">>, <<"finishAttempt">>} \cap (Past \cup BeforeBudget \cup Failed \cup {<<"start">>}
              \cup {<<>>, ToPin, ToFinish, ToPut, ToSettle}) = {}
  BY PlanKinds DEF Holding, Calling, Past, Failed, Leaving
<1>3. run[c] \in Invocation /\ PinInv(run[c], ses) /\ SpendInv(run[c], call[c], resv[c])
  BY Typed
<1>4. run[c].route # 0 /\ Holds(resv[c]) /\ call[c] # None
  BY <1>1, <1>2, <1>3 DEF PinInv, SpendInv
<1>5. UNCHANGED <<policies, call, resv, cache, ses, adm, txn, day, faults>>
  BY DEF FinishAttempt
<1>6. run[c].todo \notin Past \cup {<<>>, <<"start">>}
  BY <1>1, <1>2
<1>7. ASSUME NEW t \in {<<"attempt">>, ToPin} \cup Failing
      PROVE  /\ t \in Holding /\ t \in Plans
             /\ t \notin {<<>>, <<"start">>, ToFinish, ToPut, ToSettle}
             /\ t \notin BeforeBudget \cup Failed \cup InTransaction
  BY PlanKinds DEF Holding, Plans, Calling, InTransaction, BeforeBudget, Leaving
<1>8. ASSUME NEW t \in {ToPin, ToFinish} \cup Failing, Then(c, t),
             t = ToFinish => run[c].session = None
      PROVE  IndInv'
  <2>1. /\ t \in Holding /\ t \in Plans
        /\ t \notin {<<>>, <<"start">>, ToPut, ToSettle}
        /\ t \notin BeforeBudget \cup Failed \cup InTransaction
    BY <1>7, PlanKinds DEF Holding, Plans, InTransaction, BeforeBudget, Leaving
  <2>2. PICK j : j = Doing(run[c], t)
    OBVIOUS
  <2>3. /\ j \in Invocation /\ j.todo = t /\ j.session = run[c].session
        /\ j.total = run[c].total /\ j.answer = run[c].answer /\ j.lost = run[c].lost
        /\ j.route = run[c].route /\ j.task = run[c].task
    BY <1>3, <2>1, <2>2, DoingType
  <2>4. SpendInv(j, call[c], resv[c])
    BY <1>4, <2>1, <2>3 DEF SpendInv
  <2>5. PinInv(j, ses)
    BY <1>3, <1>4, <1>6, <1>7, <1>8, <2>1, <2>3, NoGrowth, PinKept
  <2>6. run' = [run EXCEPT ![c] = j]
    BY <1>8, <2>2 DEF Then
  <2> QED
    BY <1>5, <1>6, <2>1, <2>3, <2>4, <2>5, <2>6, MoveOn
<1>9. CASE run[c].outcome = "ok" /\ Then(c, AfterSuccess(c))
  <2>1. PICK t : t = AfterSuccess(c)
    OBVIOUS
  <2>2. t \in {ToPin, ToFinish} \cup Failing /\ (t = ToFinish => run[c].session = None)
    BY <2>1, AfterAttempt, PlanKinds
  <2>3. Then(c, t)
    BY <1>9, <2>1
  <2> QED
    BY <1>8, <2>2, <2>3
<1>10. CASE Then(c, AfterFailure(c))
  <2>1. PICK t : t = AfterFailure(c)
    OBVIOUS
  <2>2. t \in Failing
    BY <2>1, AfterAttempt DEF Failing
  <2>3. t # ToFinish
    BY <2>2, PlanKinds
  <2>4. Then(c, t)
    BY <1>10, <2>1
  <2> QED
    BY <1>8, <2>2, <2>3, <2>4
<1>11. CASE /\ RoutesLeft(c) # {}
            /\ run' = [run EXCEPT ![c].todo = <<"attempt">>, ![c].outcome = "none",
                                  ![c].route = Min(RoutesLeft(c))]
  <2>1. RoutesLeft(c) \in SUBSET Providers
    BY <1>3 DEF RoutesLeft, Invocation
  <2>2. PICK r : r = Min(RoutesLeft(c))
    OBVIOUS
  <2>3. r \in Providers /\ r # 0
    BY <1>11, <2>1, <2>2, FirstRoute
  <2>4. PICK j : j = [run[c] EXCEPT !.todo = <<"attempt">>, !.outcome = "none", !.route = r]
    OBVIOUS
  <2>5. <<"attempt">> \in Seq(Steps)
    BY <1>7, PlansType
  <2>6. /\ j \in Invocation /\ j.todo = <<"attempt">> /\ j.session = run[c].session
        /\ j.total = run[c].total /\ j.answer = run[c].answer /\ j.lost = run[c].lost
        /\ j.route = r /\ j.task = run[c].task
    BY <1>3, <2>3, <2>4, <2>5 DEF Invocation
  <2>7. SpendInv(j, call[c], resv[c])
    BY <1>2, <1>4, <2>6 DEF SpendInv
  <2>8. PinInv(j, ses)
    BY <1>3, <1>6, <1>7, <2>3, <2>6, NoGrowth, PinKept
  <2>9. run' = [run EXCEPT ![c] = j]
    BY <1>11, <2>2, <2>4
  <2> QED
    BY <1>5, <1>6, <1>7, <2>6, <2>7, <2>8, <2>9, MoveOn
<1> QED
  BY <1>9, <1>10, <1>11 DEF FinishAttempt

\* What Then does to a call that has begun.
LEMMA ThenRun ==
    ASSUME IndInv, NEW c \in Calls, run[c].todo \notin {<<>>, <<"start">>},
           NEW t \in Plans, t # <<"start">>, Then(c, t)
    PROVE  \E j \in Invocation :
              /\ run' = [run EXCEPT ![c] = j] /\ j.todo = t
              /\ j.session = run[c].session /\ j.total = run[c].total
              /\ j.answer = run[c].answer /\ j.lost = run[c].lost
              /\ t # <<>> => j.route = run[c].route /\ j.route # 0 /\ j.task = run[c].task
<1>1. run[c] \in Invocation /\ PinInv(run[c], ses)
  BY Typed
<1>2. PICK j : j = Doing(run[c], t)
  OBVIOUS
<1>3. /\ j \in Invocation /\ j.todo = t /\ j.session = run[c].session
      /\ j.total = run[c].total /\ j.answer = run[c].answer /\ j.lost = run[c].lost
      /\ t # <<>> => j.route = run[c].route /\ j.task = run[c].task
  BY <1>1, <1>2, DoingType
<1>4. run[c].route # 0
  BY <1>1 DEF PinInv
<1>5. run' = [run EXCEPT ![c] = j]
  BY <1>2 DEF Then
<1> QED
  BY <1>3, <1>4, <1>5

LEMMA PinSessionStep ==
    ASSUME IndInv, NEW c \in Calls, PinSession(c)
    PROVE  IndInv'
<1>1. run[c].todo = ToPin
  BY Typed, PlanHead DEF PinSession, At
<1>2. ToPin \in Holding /\ ToFinish \in Holding /\ PinConflict \in Failing /\ PinConflict \in Holding
  BY DEF Holding, Failing
<1>3. /\ {ToPin, ToFinish, PinConflict} \cap (Past \cup BeforeBudget \cup Failed \cup InTransaction
                \cup {<<>>, <<"start">>, ToPut, ToSettle}) = {}
      /\ PinConflict # ToFinish
  BY <1>2, PlanKinds DEF Past, InTransaction, BeforeBudget, Leaving
<1>4. run[c] \in Invocation /\ PinInv(run[c], ses) /\ SpendInv(run[c], call[c], resv[c])
  BY Typed
<1>5. Holds(resv[c]) /\ call[c] # None /\ run[c].route # 0
  BY <1>1, <1>2, <1>3, <1>4 DEF PinInv, SpendInv
<1>6. UNCHANGED <<policies, call, resv, cache, adm, txn, day, faults>>
  BY DEF PinSession
<1>7. Rest(c) = ToFinish
  BY <1>1, PlanTail DEF Rest
<1>8. CASE Pinnable(c)
  <2>1. Then(c, ToFinish)
    BY <1>7, <1>8 DEF PinSession
  <2>2. PICK j \in Invocation :
              /\ run' = [run EXCEPT ![c] = j] /\ j.todo = ToFinish
              /\ j.session = run[c].session /\ j.total = run[c].total
              /\ j.answer = run[c].answer /\ j.lost = run[c].lost
              /\ j.route = run[c].route /\ j.route # 0 /\ j.task = run[c].task
    BY <1>1, <1>2, <1>3, <2>1, ThenRun DEF Plans
  <2>3. PICK s : s = run[c].session
    OBVIOUS
  <2>4. PICK row : row = [pin |-> run[c].route, status |-> "pinned"]
    OBVIOUS
  <2>5. row \in InferenceSession /\ row # None /\ row.pin = run[c].route
    BY <1>4, <2>4, RowsAssumption DEF InferenceSession, Invocation
  <2>6. ses' = [ses EXCEPT ![s] = row] /\ ses[s].pin \in {0, run[c].route}
    BY <1>8, <2>3, <2>4 DEF PinSession, Pinnable
  <2>7. ses' \in [Sessions -> InferenceSession \cup {None}]
    BY <2>5, <2>6, SameType
  <2>8. Grown(ses, ses')
    BY <2>5, <2>6, SameType DEF Grown
  <2>9. s # None => s \in Sessions /\ ses'[s].pin = run[c].route
    BY <1>4, <2>3, <2>5, <2>6, SameType DEF Invocation
  <2>10. SpendInv(j, call[c], resv[c])
    BY <1>2, <1>3, <1>5, <2>2 DEF SpendInv
  <2>11. PinInv(j, ses')
    BY <1>1, <1>3, <1>4, <2>2, <2>3, <2>8, <2>9, PinKept
  <2>12. CallInv(j, call'[c], resv'[c], ses')
    BY <1>2, <1>6, <2>2, <2>10, <2>11 DEF CallInv, Plans
  <2> QED
    BY <1>1, <1>3, <1>6, <2>2, <2>7, <2>8, <2>12, SameType, Quiet
<1>9. CASE ~Pinnable(c)
  <2>1. Then(c, PinConflict) /\ UNCHANGED ses
    BY <1>9 DEF PinSession
  <2>2. PICK j \in Invocation :
              /\ run' = [run EXCEPT ![c] = j] /\ j.todo = PinConflict
              /\ j.session = run[c].session /\ j.total = run[c].total
              /\ j.answer = run[c].answer /\ j.lost = run[c].lost
              /\ j.route = run[c].route /\ j.route # 0 /\ j.task = run[c].task
    BY <1>1, <1>2, <1>3, <2>1, ThenRun DEF Plans
  <2>3. SpendInv(j, call[c], resv[c])
    BY <1>2, <1>3, <1>5, <2>2 DEF SpendInv
  <2>4. PinInv(j, ses)
    BY <1>1, <1>3, <1>4, <2>2, NoGrowth, PinKept
  <2>5. j.todo \in Plans /\ j.todo \notin InTransaction /\ run[c].todo \notin Past
    BY <1>1, <1>2, <1>3, <2>2 DEF Plans
  <2> QED
    BY <1>6, <2>1, <2>2, <2>3, <2>4, <2>5, MoveOn
<1> QED
  BY <1>8, <1>9

\* FinishCall, in either outcome.
LEMMA FinishStep ==
    ASSUME IndInv, NEW c \in Calls, NEW status \in {"succeeded", "failed"},
           NEW t \in Plans, t \notin InTransaction \cup BeforeBudget \cup {<<"start">>},
           run[c].todo \notin Past \cup {<<"start">>},
           t \in Holding => Holds(resv[c]),
           t \in {ToPut, ToSettle} => status = "succeeded",
           run[c].session # None /\ t \in {ToFinish, ToPut, ToSettle}
              => ses[run[c].session].pin = run[c].route,
           call' = [call EXCEPT ![c].status = status, ![c].cost = run[c].total],
           Then(c, t),
           UNCHANGED <<policies, resv, cache, ses, adm, txn, day, faults>>
    PROVE  IndInv'
<1>1. run[c] \in Invocation /\ PinInv(run[c], ses) /\ SpendInv(run[c], call[c], resv[c])
  BY Typed
<1>2. run[c].todo \notin {<<>>, <<"start">>}
  BY DEF Past, Leaving
<1>3. PICK j \in Invocation :
              /\ run' = [run EXCEPT ![c] = j] /\ j.todo = t
              /\ j.session = run[c].session /\ j.total = run[c].total
              /\ j.answer = run[c].answer /\ j.lost = run[c].lost
              /\ t # <<>> => j.route = run[c].route /\ j.route # 0 /\ j.task = run[c].task
  BY <1>2, ThenRun
<1>4. call[c] \in CallRow
  BY RowThere
<1>5. PICK row : row = [call[c] EXCEPT !.status = status, !.cost = run[c].total]
  OBVIOUS
<1>6. row \in CallRow /\ row.status = status /\ row.cost = run[c].total
  BY <1>1, <1>4, <1>5 DEF CallRow, Invocation
<1>7. call' = [call EXCEPT ![c] = row]
  BY <1>5, SameType
<1>8. /\ call' \in [Calls -> CallRow \cup {None}] /\ call'[c] = row /\ row # None
      /\ \A d \in Calls \ {c} : call'[d] = call[d]
  BY <1>6, <1>7, RowSet
<1>9. Books(j, row)
  BY <1>3, <1>6, <1>8 DEF Books
<1>10. SpendInv(j, row, resv[c])
  BY <1>3, <1>6, <1>8, <1>9 DEF SpendInv
<1>11. PinInv(j, ses)
  BY <1>1, <1>2, <1>3, PlanKinds, NoGrowth, PinKept DEF Holding
<1>12. CallInv(j, call'[c], resv'[c], ses')
  BY <1>3, <1>8, <1>10, <1>11 DEF CallInv
<1> QED
  BY <1>3, <1>8, <1>12, SameType, NoGrowth, Quiet

LEMMA FinishSucceededStep ==
    ASSUME IndInv, NEW c \in Calls, FinishSucceeded(c)
    PROVE  IndInv'
<1>1. run[c].todo = ToFinish
  BY Typed, PlanHead DEF FinishSucceeded, At
<1>2. ToFinish \in Holding /\ ToPut \in Plans
  BY DEF Holding, Plans
<1>3. /\ ToPut \notin InTransaction \cup BeforeBudget \cup {<<"start">>}
      /\ ToFinish \notin Past \cup {<<"start">>}
  BY PlanKinds DEF Holding, Past, InTransaction, BeforeBudget, Leaving
<1>4. Rest(c) = ToPut
  BY <1>1, PlanTail DEF Rest
<1>5. Holds(resv[c]) /\ (run[c].session # None => ses[run[c].session].pin = run[c].route)
  BY <1>1, <1>2, Typed DEF SpendInv, PinInv
<1> QED
  BY <1>1, <1>2, <1>3, <1>4, <1>5, FinishStep DEF FinishSucceeded

LEMMA FinishFailedStep ==
    ASSUME IndInv, NEW c \in Calls, FinishFailed(c)
    PROVE  IndInv'
<1>1. run[c].todo \in {<<"finishFailed", "settle">>, <<"finishFailed", "settle", "failSession">>,
                       <<"failCall">>, <<"failCall", "settle">>}
  BY Typed, PlanHead DEF FinishFailed, At
<1>2. PICK t : t = Rest(c)
  OBVIOUS
<1>3. /\ run[c].todo = <<"failCall">> => t = <<>>
      /\ run[c].todo # <<"failCall">> => t \in Failed
  BY <1>1, <1>2, PlanTail DEF Rest, Failed
<1>4. run[c].todo # <<"failCall">> => run[c].todo \in Holding
  BY <1>1 DEF Holding, Failing
<1>5. run[c].todo \notin Past \cup {<<"start">>}
  BY <1>1, <1>4, PlanKinds DEF Past, BeforeBudget, Failing, Holding
<1>6. t \in Plans /\ t \notin InTransaction \cup BeforeBudget \cup {<<"start">>, ToFinish, ToPut, ToSettle}
  BY <1>3, PlanKinds DEF Plans, Holding, Leaving, InTransaction, BeforeBudget
<1>7. t \in Holding => Holds(resv[c])
  BY <1>3, <1>4, Typed, PlanKinds DEF SpendInv
<1> QED
  BY <1>2, <1>5, <1>6, <1>7, FinishStep DEF FinishFailed

LEMMA FailSessionStep ==
    ASSUME IndInv, NEW c \in Calls, FailSession(c)
    PROVE  IndInv'
<1>1. run[c].todo \in {<<"failSession">>, PinConflict}
  BY Typed, PlanHead DEF FailSession, At
<1>2. PICK t : t = Rest(c)
  OBVIOUS
<1>3. /\ run[c].todo = <<"failSession">> => t = <<>>
      /\ run[c].todo = PinConflict => t = <<"failCall", "settle">>
  BY <1>1, <1>2, PlanTail DEF Rest
<1>4. /\ <<"failSession">> \in Leaving /\ <<>> \in Leaving /\ PinConflict \in Failing
      /\ <<"failCall", "settle">> \in Failing
      /\ Failing \subseteq Holding /\ Failing \cap Past = {} /\ Leaving \subseteq Past
      /\ Holding \subseteq Plans /\ Leaving \subseteq Plans
  BY PlanKinds DEF Holding, Plans, Past, Leaving, Failing
<1>5. t \in Plans /\ t \notin InTransaction \cup BeforeBudget \cup {<<"start">>, ToFinish, ToPut, ToSettle} \cup Failed
  BY <1>1, <1>3, <1>4, PlanKinds DEF Holding, InTransaction, BeforeBudget, Leaving, Failing, Failed
<1>6. run[c] \in Invocation /\ PinInv(run[c], ses) /\ SpendInv(run[c], call[c], resv[c])
  BY Typed
<1>7. run[c].todo \notin {<<>>, <<"start">>}
  BY <1>1, <1>4, PlanKinds
<1>8. PICK j \in Invocation :
              /\ run' = [run EXCEPT ![c] = j] /\ j.todo = t
              /\ j.session = run[c].session /\ j.total = run[c].total
              /\ j.answer = run[c].answer /\ j.lost = run[c].lost
              /\ t # <<>> => j.route = run[c].route /\ j.route # 0 /\ j.task = run[c].task
  BY <1>2, <1>5, <1>7, ThenRun DEF FailSession
<1>9. PICK s : s = run[c].session
  OBVIOUS
<1>10. UNCHANGED <<policies, call, resv, cache, adm, txn, day, faults>>
  BY DEF FailSession
<1>11. ses' \in [Sessions -> InferenceSession \cup {None}] /\ Grown(ses, ses')
  <2>1. ses \in [Sessions -> InferenceSession \cup {None}]
    BY SameType
  <2>2. CASE s = None
    <3>1. s \notin Sessions
      BY <2>2, NamesAssumption
    <3>2. ses' = ses
      BY <1>9, <2>1, <3>1 DEF FailSession
    <3> QED
      BY <2>1, <3>2, NoGrowth
  <2>3. CASE s # None
    <3>1. s \in Sessions /\ ses[s] \in InferenceSession
      BY <1>6, <1>9, <2>1, <2>3 DEF Invocation, PinInv
    <3>2. PICK row : row = [ses[s] EXCEPT !.status = IF @ \in {"open", "pinned"} THEN "failed" ELSE @]
      OBVIOUS
    <3>3. row \in InferenceSession /\ row # None /\ row.pin = ses[s].pin
      BY <3>1, <3>2, RowsAssumption DEF InferenceSession
    <3>4. ses' = [ses EXCEPT ![s] = row]
      BY <1>9, <3>2 DEF FailSession
    <3> QED
      BY <2>1, <3>1, <3>3, <3>4 DEF Grown
  <2> QED
    BY <2>2, <2>3
<1>12. SpendInv(j, call[c], resv[c])
  <2>1. t \in Holding => Holds(resv[c])
    BY <1>1, <1>3, <1>4, <1>6, PlanKinds DEF SpendInv
  <2>2. call[c] # None
    BY <1>6, <1>7 DEF SpendInv
  <2>3. run[c].total > 0 => Holds(resv[c]) \/ Books(run[c], call[c])
    BY <1>6 DEF SpendInv
  <2> QED
    BY <1>5, <1>8, <2>1, <2>2, <2>3 DEF SpendInv, Books
<1>13. PinInv(j, ses')
  BY <1>5, <1>6, <1>7, <1>8, <1>11, PinKept
<1>14. CallInv(j, call'[c], resv'[c], ses')
  BY <1>5, <1>8, <1>10, <1>12, <1>13 DEF CallInv
<1>15. run[c].todo \in Past => t \in Past
  BY <1>1, <1>3, <1>4
<1> QED
  BY <1>5, <1>8, <1>10, <1>11, <1>14, <1>15, SameType, Quiet

\* A step that rewrites the cache as well.
LEMMA PutCacheStep ==
    ASSUME IndInv, NEW c \in Calls, PutCache(c)
    PROVE  IndInv'
<1>1. run[c].todo = ToPut
  BY Typed, PlanHead DEF PutCache, At
<1>2. Rest(c) = ToSettle
  BY <1>1, PlanTail DEF Rest
<1>3. /\ ToPut \in Holding /\ ToSettle \in Holding /\ ToSettle \in Plans /\ ToSettle \in Past
      /\ {ToPut, ToSettle} \cap ({<<>>, <<"start">>} \cup BeforeBudget \cup Failed \cup InTransaction) = {}
  BY PlanKinds DEF Holding, Plans, Past, InTransaction, BeforeBudget, Leaving
<1>4. run[c] \in Invocation /\ PinInv(run[c], ses) /\ SpendInv(run[c], call[c], resv[c])
  BY Typed
<1>5. /\ Holds(resv[c]) /\ Books(run[c], call[c]) /\ call[c] # None
      /\ call[c].status = "succeeded" /\ run[c].route # 0
      /\ run[c].session # None => ses[run[c].session].pin = run[c].route
  BY <1>1, <1>3, <1>4 DEF SpendInv, PinInv
<1>6. PICK j \in Invocation :
              /\ run' = [run EXCEPT ![c] = j] /\ j.todo = ToSettle
              /\ j.session = run[c].session /\ j.total = run[c].total
              /\ j.answer = run[c].answer /\ j.lost = run[c].lost
              /\ j.route = run[c].route /\ j.route # 0 /\ j.task = run[c].task
  BY <1>1, <1>2, <1>3, ThenRun DEF PutCache
<1>7. UNCHANGED <<policies, call, resv, ses, adm, txn, day, faults>>
  BY DEF PutCache
<1>8. /\ run' \in [Calls -> Invocation] /\ run'[c] = j
      /\ \A d \in Calls \ {c} : run'[d] = run[d] /\ Same(run[d], run'[d])
  BY <1>6, OneRun DEF IndInv, TypeOK
<1>9. SpendInv(j, call[c], resv[c])
  BY <1>3, <1>5, <1>6 DEF SpendInv, Books
<1>10. PinInv(j, ses)
  BY <1>1, <1>3, <1>4, <1>5, <1>6, NoGrowth, PinKept
<1>11. CallInv(j, call[c], resv[c], ses)
  BY <1>3, <1>6, <1>9, <1>10 DEF CallInv
<1>12. \A d \in Calls : CallInv(run'[d], call'[d], resv'[d], ses')
  BY <1>7, <1>8, <1>11 DEF IndInv
<1>13. PICK e : e = [of |-> c, until |-> day + CacheDays]
  OBVIOUS
<1>14. e \in CacheEntry /\ e.of = c /\ e # None
  <2>1. day + CacheDays \in Nat
    BY TimeAssumption, SameType DEF Days
  <2> QED
    BY <1>13, <2>1, RowsAssumption DEF CacheEntry
<1>15. PICK k0 : k0 = <<run[c].task, run[c].route>>
  OBVIOUS
<1>16. cache' = cache \/ cache' = [cache EXCEPT ![k0] = e]
  BY <1>13, <1>15 DEF PutCache
<1>17. cache' \in [Tasks \X Providers -> CacheEntry \cup {None}]
  BY <1>14, <1>16 DEF IndInv, TypeOK
<1>18. ASSUME NEW k \in Tasks \X Providers
       PROVE  cache'[k] = cache[k] \/ cache'[k] = e
  BY <1>16 DEF IndInv, TypeOK
<1>19. CacheInv'
  <2> SUFFICES ASSUME NEW k \in Tasks \X Providers, cache'[k] # None
               PROVE  /\ call[cache'[k].of] # None
                      /\ call[cache'[k].of].status = "succeeded"
                      /\ run'[cache'[k].of].todo \in Past
    BY <1>7 DEF CacheInv
  <2>1. CASE cache'[k] = e
    BY <1>3, <1>5, <1>6, <1>8, <1>14, <2>1
  <2>2. CASE cache'[k] = cache[k]
    <3>1. PICK d : d = cache[k].of
      OBVIOUS
    <3>2. d \in Calls
      BY <2>2, <3>1 DEF IndInv, TypeOK, CacheEntry
    <3>3. call[d] # None /\ call[d].status = "succeeded" /\ run[d].todo \in Past
      BY <2>2, <3>1 DEF IndInv, CacheInv
    <3>4. run'[d].todo \in Past
      BY <1>3, <1>6, <1>8, <3>2, <3>3
    <3> QED
      BY <2>2, <3>1, <3>3, <3>4
  <2> QED
    BY <1>18, <2>1, <2>2
<1>20. TypeOK'
  BY <1>7, <1>8, <1>17 DEF IndInv, TypeOK
<1>21. PolicyInv'
  BY <1>3, <1>6, <1>7, <1>8 DEF IndInv, PolicyInv
<1> QED
  BY <1>12, <1>19, <1>20, <1>21 DEF IndInv

LEMMA SameSelf ==
    ASSUME NEW i
    PROVE  Same(i, i)
  BY DEF Same

\* A step that makes call c j and may tear the reads of others.
LEMMA TornRun ==
    ASSUME IndInv, NEW c \in Calls, NEW j \in Invocation, NEW x,
           run' = [run EXCEPT ![c] = j] \/ run' = Tear([run EXCEPT ![c] = j], x)
    PROVE  /\ run' \in [Calls -> Invocation]
           /\ Same(j, run'[c]) /\ run'[c].todo = j.todo
           /\ \A d \in Calls \ {c} : Same(run[d], run'[d])
<1>1. PICK runs : runs = [run EXCEPT ![c] = j]
  OBVIOUS
<1>2. /\ runs \in [Calls -> Invocation] /\ runs[c] = j
      /\ \A d \in Calls \ {c} : runs[d] = run[d]
  BY <1>1 DEF IndInv, TypeOK
<1>3. /\ Tear(runs, x) \in [Calls -> Invocation]
      /\ \A d \in Calls : Same(runs[d], Tear(runs, x)[d])
  BY <1>2, TearType
<1>4. /\ run' \in [Calls -> Invocation]
      /\ \A d \in Calls : Same(runs[d], run'[d])
  BY <1>1, <1>2, <1>3, SameSelf
<1> QED
  BY <1>2, <1>4 DEF Same

\* Move, for such a step.
LEMMA TornMove ==
    ASSUME IndInv, NEW c \in Calls, NEW j \in Invocation, NEW x,
           run' = [run EXCEPT ![c] = j] \/ run' = Tear([run EXCEPT ![c] = j], x),
           call' \in [Calls -> CallRow \cup {None}],
           resv' \in [Calls -> Reservation \cup {None}],
           \A d \in Calls \ {c} : call'[d] = call[d] /\ resv'[d] = resv[d],
           UNCHANGED <<cache, ses, adm, day>>, faults' \in 0..MaxFaults,
           CallInv(j, call'[c], resv'[c], ses),
           run[c].todo \in Past => j.todo \in Past /\ call'[c] = call[c],
           Revisions', Len(policies') >= Len(policies),
           NEW q \in Transaction, txn' = [txn EXCEPT ![c] = q],
           q.own = 0 \/ q.own \in 2..Len(policies'),
           j.todo \in InTransaction => q.want \in 1..Len(policies')
    PROVE  IndInv'
<1>1. /\ run' \in [Calls -> Invocation]
      /\ Same(j, run'[c]) /\ run'[c].todo = j.todo
      /\ \A d \in Calls \ {c} : Same(run[d], run'[d])
  BY TornRun
<1>2. CallInv(run'[c], call'[c], resv'[c], ses')
  BY <1>1, NoGrowth, SameCall
<1>3. c \in Clients
  BY Typed
<1>4. /\ txn' \in [Clients -> Transaction] /\ txn'[c] = q
      /\ \A y \in Clients \ {c} : txn'[y] = txn[y]
  BY <1>3, SameType
<1>5. TypeStep
  BY <1>1, <1>4, SameType DEF TypeStep
<1>6. PICK i : i = run'[c]
  OBVIOUS
<1> QED
  BY <1>1, <1>2, <1>4, <1>5, <1>6, NoGrowth, Move

LEMMA SettleBudgetStep ==
    ASSUME IndInv, NEW c \in Calls, SettleBudget(c)
    PROVE  IndInv'
<1>1. run[c].todo \in Failed \cup {ToSettle}
  BY Typed, PlanHead DEF SettleBudget, At
<1>2. PICK t : t = Rest(c)
  OBVIOUS
<1>3. /\ run[c].todo = ToSettle => t = <<"metrics">>
      /\ run[c].todo # ToSettle => t \in {<<>>, <<"failSession">>}
  BY <1>1, <1>2, PlanTail DEF Rest, Failed
<1>4. /\ Failed \cup {ToSettle} \subseteq Holding /\ t \in Leaving /\ t \in Plans
      /\ t \notin Holding \cup BeforeBudget \cup InTransaction \cup {<<"start">>}
      /\ t \notin Failed \cup {ToFinish, ToPut, ToSettle}
      /\ run[c].todo \notin {<<>>, <<"start">>}
  BY <1>1, <1>3, PlanKinds DEF Holding, Leaving, Plans, InTransaction
<1>5. run[c] \in Invocation /\ PinInv(run[c], ses) /\ SpendInv(run[c], call[c], resv[c])
  BY Typed
<1>6. /\ Holds(resv[c]) /\ Books(run[c], call[c]) /\ call[c] # None /\ run[c].route # 0
      /\ run[c].todo = ToSettle /\ run[c].session # None
            => ses[run[c].session].pin = run[c].route
      /\ run[c].session # None => run[c].task = SessionTask /\ ses[run[c].session] # None
  BY <1>1, <1>4, <1>5 DEF SpendInv, PinInv
<1>7. PICK a : a = IF t = <<"metrics">> THEN run[c].route ELSE run[c].answer
  OBVIOUS
<1>8. PICK i : i = [run[c] EXCEPT !.answer = a]
  OBVIOUS
<1>9. /\ i \in Invocation /\ i.session = run[c].session /\ i.total = run[c].total
      /\ i.answer = a /\ i.lost = run[c].lost /\ i.route = run[c].route /\ i.task = run[c].task
  BY <1>5, <1>7, <1>8 DEF Invocation
<1>10. PICK j : j = Doing(i, t)
  OBVIOUS
<1>11. /\ j \in Invocation /\ j.todo = t /\ j.session = run[c].session
       /\ j.total = run[c].total /\ j.answer = a /\ j.lost = run[c].lost
       /\ t # <<>> => j.route = run[c].route /\ j.task = run[c].task
  BY <1>4, <1>9, <1>10, DoingType
<1>12. run' = Tear([run EXCEPT ![c] = j], c)
  BY <1>2, <1>7, <1>8, <1>10 DEF SettleBudget
<1>13. PICK rv : rv = [resv[c] EXCEPT !.active = FALSE]
  OBVIOUS
<1>14. rv \in Reservation
  <2>1. resv[c] \in Reservation
    BY <1>6, Typed DEF Holds
  <2> QED
    BY <1>13, <2>1 DEF Reservation
<1>15. /\ resv' = [resv EXCEPT ![c] = rv] /\ resv'[c] = rv
       /\ resv' \in [Calls -> Reservation \cup {None}]
       /\ \A d \in Calls \ {c} : resv'[d] = resv[d]
  BY <1>13, <1>14, SameType DEF SettleBudget
<1>16. SpendInv(j, call[c], rv)
  <2>1. Books(j, call[c])
    BY <1>6, <1>11 DEF Books
  <2> QED
    BY <1>4, <1>6, <1>11, <2>1 DEF SpendInv
<1>17. PinInv(j, ses)
  <2>1. ASSUME run[c].session # None, a # 0, SessionTask \notin CachedTasks
        PROVE  ses[run[c].session].pin = a
    <3>1. CASE t = <<"metrics">>
      <4>1. run[c].todo = ToSettle
        BY <1>3, <3>1
      <4> QED
        BY <1>6, <1>7, <2>1, <3>1, <4>1
    <3>2. CASE t # <<"metrics">>
      BY <1>5, <1>7, <2>1, <3>2 DEF PinInv
    <3> QED
      BY <3>1, <3>2
  <2> QED
    BY <1>4, <1>6, <1>11, <2>1 DEF PinInv
<1>18. CallInv(j, call'[c], resv'[c], ses)
  BY <1>4, <1>11, <1>15, <1>16, <1>17 DEF CallInv, SettleBudget
<1>19. UNCHANGED <<policies, call, cache, ses, adm, txn, day, faults>>
  BY DEF SettleBudget
<1>20. Revisions' /\ Len(policies') >= Len(policies)
  BY <1>19, Typed DEF Revisions
<1>21. t \in Past
  BY <1>4 DEF Past
<1>22. txn[c] \in Transaction /\ (txn[c].own = 0 \/ txn[c].own \in 2..Len(policies))
  BY Typed
<1>23. txn' = [txn EXCEPT ![c] = txn[c]]
  BY <1>19, SameType
<1> QED
  BY <1>4, <1>11, <1>12, <1>15, <1>18, <1>19, <1>20, <1>21, <1>22, <1>23, SameType, TornMove

\* A call that has no reservation yet and moves on towards one.
LEMMA StillBefore ==
    ASSUME IndInv, NEW c \in Calls, run[c].todo \in BeforeBudget,
           NEW j, j.todo \in BeforeBudget, j.total = run[c].total,
           j.session = run[c].session, j.answer = run[c].answer, j.route = run[c].route,
           j.task = run[c].task
    PROVE  CallInv(j, call[c], resv[c], ses) /\ run[c].todo \notin Past
<1>1. run[c] \in Invocation /\ PinInv(run[c], ses) /\ SpendInv(run[c], call[c], resv[c])
  BY Typed
<1>2. /\ j.todo \notin Holding \cup {<<>>, <<"start">>} /\ run[c].todo \notin {<<>>, <<"start">>}
      /\ run[c].todo \notin Past
  BY PlanKinds DEF Past, Holding, Leaving
<1>3. run[c].total = 0 /\ call[c] # None /\ run[c].route # 0
  BY <1>1, <1>2 DEF SpendInv, PinInv
<1>4. SpendInv(j, call[c], resv[c])
  BY <1>2, <1>3 DEF SpendInv, Holding
<1>5. PinInv(j, ses)
  BY <1>1, <1>2, <1>3, NoGrowth, PinKept DEF Holding
<1>6. j.todo \in Plans
  BY DEF Plans
<1> QED
  BY <1>2, <1>4, <1>5, <1>6 DEF CallInv

LEMMA WantingType ==
    ASSUME IndInv, NEW x \in Clients
    PROVE  \E q \in Transaction :
              /\ Wanting(x) = [txn EXCEPT ![x] = q] /\ q.own = txn[x].own
              /\ q.want \in 1..Len(policies)
<1>1. PICK w : w = Latest(x)
  OBVIOUS
<1>2. Revisions
  BY DEF IndInv, TypeOK, PolicyInv, Revisions
<1>3. w \in 1..Len(policies)
  BY <1>1, <1>2, LatestExists
<1>4. PICK q : q = [txn[x] EXCEPT !.want = w]
  OBVIOUS
<1>5. txn[x] \in Transaction /\ Len(policies) \in Nat
  BY <1>2, SameType DEF Revisions
<1>6. q \in Transaction /\ q.own = txn[x].own /\ q.want = w
  BY <1>3, <1>4, <1>5 DEF Transaction
<1>7. Wanting(x) = [txn EXCEPT ![x] = q]
  BY <1>1, <1>4 DEF Wanting
<1> QED
  BY <1>3, <1>6, <1>7

LEMMA CacheMissStep ==
    ASSUME IndInv, NEW c \in Calls, CacheMiss(c)
    PROVE  IndInv'
<1>1. run[c].todo = <<"cache">>
  BY Typed, PlanHead DEF CacheMiss, At
<1>2. /\ {<<"cache">>, <<"activate">>, <<"failCall">>} \subseteq BeforeBudget
      /\ <<"failCall">> \notin InTransaction
      /\ {<<"cache">>, <<"activate">>, <<"failCall">>} \subseteq Plans
      /\ {<<"cache">>, <<"activate">>, <<"failCall">>} \cap {<<>>, <<"start">>} = {}
  BY PlanKinds DEF BeforeBudget, InTransaction, Plans
<1>3. UNCHANGED <<policies, call, resv, cache, ses, adm, day, faults>>
  BY DEF CacheMiss
<1>4. ASSUME NEW t \in {<<"activate">>, <<"failCall">>}, Then(c, t)
      PROVE  \E j \in Invocation : /\ run' = [run EXCEPT ![c] = j] /\ j.todo = t
                                   /\ CallInv(j, call[c], resv[c], ses)
  <2>1. PICK j \in Invocation :
              /\ run' = [run EXCEPT ![c] = j] /\ j.todo = t
              /\ j.session = run[c].session /\ j.total = run[c].total
              /\ j.answer = run[c].answer /\ j.lost = run[c].lost
              /\ t # <<>> => j.route = run[c].route /\ j.route # 0 /\ j.task = run[c].task
    BY <1>1, <1>2, <1>4, ThenRun
  <2>2. CallInv(j, call[c], resv[c], ses)
    BY <1>1, <1>2, <2>1, StillBefore
  <2> QED
    BY <2>1, <2>2
<1>5. run[c].todo \notin Past
  BY <1>1, <1>2, PlanKinds DEF Past, Holding
<1>6. CASE Then(c, <<"failCall">>) /\ UNCHANGED txn
  <2>1. PICK j \in Invocation : /\ run' = [run EXCEPT ![c] = j] /\ j.todo = <<"failCall">>
                                /\ CallInv(j, call[c], resv[c], ses)
    BY <1>4, <1>6
  <2>2. SpendInv(j, call[c], resv[c]) /\ PinInv(j, ses) /\ j.todo \in Plans
    BY <2>1 DEF CallInv
  <2> QED
    BY <1>2, <1>3, <1>5, <1>6, <2>1, <2>2, MoveOn
<1>7. CASE txn' = Wanting(c) /\ Then(c, <<"activate">>)
  <2>1. PICK j \in Invocation : /\ run' = [run EXCEPT ![c] = j] /\ j.todo = <<"activate">>
                                /\ CallInv(j, call[c], resv[c], ses)
    BY <1>4, <1>7
  <2>2. c \in Clients /\ (txn[c].own = 0 \/ txn[c].own \in 2..Len(policies)) /\ Revisions
    BY Typed
  <2>3. PICK q \in Transaction :
              /\ Wanting(c) = [txn EXCEPT ![c] = q] /\ q.own = txn[c].own
              /\ q.want \in 1..Len(policies)
    BY <2>2, WantingType
  <2>4. Revisions' /\ Len(policies') >= Len(policies)
    BY <1>3, <2>2 DEF Revisions
  <2> QED
    BY <1>3, <1>5, <1>7, <2>1, <2>2, <2>3, <2>4, SameType, TornMove
<1> QED
  BY <1>6, <1>7 DEF CacheMiss

LEMMA ReserveActivateStep ==
    ASSUME IndInv, NEW c \in Calls, ReserveActivate(c)
    PROVE  IndInv'
<1>1. run[c].todo = <<"activate">>
  BY Typed, PlanHead DEF ReserveActivate, At
<1>2. /\ {<<"activate">>, <<"used">>} \subseteq BeforeBudget
      /\ <<"activate">> \in InTransaction /\ <<"used">> \in Plans
      /\ {<<"activate">>, <<"used">>} \cap {<<>>, <<"start">>} = {}
  BY PlanKinds DEF BeforeBudget, InTransaction, Plans
<1>3. PICK j \in Invocation :
              /\ run' = [run EXCEPT ![c] = j] /\ j.todo = <<"used">>
              /\ j.session = run[c].session /\ j.total = run[c].total
              /\ j.answer = run[c].answer /\ j.lost = run[c].lost
              /\ j.route = run[c].route /\ j.task = run[c].task
  BY <1>1, <1>2, ThenRun DEF ReserveActivate
<1>4. CallInv(j, call[c], resv[c], ses) /\ run[c].todo \notin Past
  BY <1>1, <1>2, <1>3, StillBefore
<1>5. /\ c \in Clients /\ txn[c] \in Transaction /\ Revisions /\ Len(policies) \in Nat \ {0}
      /\ policies # <<>>
  BY Typed
<1>6. PICK w : w = txn[c].want
  OBVIOUS
<1>7. w \in 1..Len(policies) /\ w \in Nat
  BY <1>1, <1>2, <1>5, <1>6 DEF IndInv, PolicyInv
<1>8. PICK row : row = policies[w]
  OBVIOUS
<1>9. row \in Policy
  BY <1>7, <1>8 DEF IndInv, TypeOK
<1>10. UNCHANGED <<call, resv, cache, ses, adm, day, faults>>
  BY DEF ReserveActivate
<1>11. CASE Due(row)
  <2>1. PICK n : n = Len(policies) + 1
    OBVIOUS
  <2>2. PICK q : q = [want |-> n, held |-> {w}, own |-> n]
    OBVIOUS
  <2>3. n \in Nat
    BY <1>5, <2>1
  <2>4. q \in Transaction /\ q.own = n /\ q.want = n
    BY <1>7, <2>2, <2>3 DEF Transaction
  <2>5. txn' = [txn EXCEPT ![c] = q] /\ policies' = Append(policies, Successor(row))
    BY <1>6, <1>8, <1>11, <2>1, <2>2 DEF ReserveActivate
  <2>6. Successor(row) \in Policy
    BY <1>9, SuccessorType DEF IndInv
  <2>7. Revisions' /\ Len(policies') = Len(policies) + 1
    BY <1>5, <2>5, <2>6, AppendType DEF Revisions
  <2>8. q.own \in 2..Len(policies') /\ q.want \in 1..Len(policies') /\ Len(policies') >= Len(policies)
    BY <1>5, <2>1, <2>4, <2>7
  <2> QED
    BY <1>3, <1>4, <1>10, <2>4, <2>5, <2>7, <2>8, SameType, TornMove
<1>12. CASE ~Due(row)
  <2>1. PICK n : n = Latest(c)
    OBVIOUS
  <2>2. PICK q : q = [want |-> n, held |-> {w}, own |-> 0]
    OBVIOUS
  <2>3. n \in 1..Len(policies) /\ n \in Nat
    BY <1>5, <2>1, LatestExists
  <2>4. q \in Transaction /\ q.own = 0 /\ q.want = n
    BY <1>7, <2>2, <2>3 DEF Transaction
  <2>5. txn' = [txn EXCEPT ![c] = q] /\ policies' = policies
    BY <1>6, <1>8, <1>12, <2>1, <2>2 DEF ReserveActivate
  <2>6. Revisions' /\ Len(policies') >= Len(policies)
    BY <1>5, <2>5 DEF Revisions
  <2>7. q.own = 0 /\ q.want \in 1..Len(policies')
    BY <2>3, <2>4, <2>5
  <2> QED
    BY <1>3, <1>4, <1>10, <2>4, <2>5, <2>6, <2>7, SameType, TornMove
<1> QED
  BY <1>11, <1>12

LEMMA NoTransactionType == NoTransaction \in Transaction /\ NoTransaction.own = 0
  BY DEF NoTransaction, Transaction

LEMMA ReserveUsedStep ==
    ASSUME IndInv, NEW c \in Calls, ReserveUsed(c)
    PROVE  IndInv'
<1>1. run[c].todo = <<"used">>
  BY Typed, PlanHead DEF ReserveUsed, At
<1>2. /\ {<<"used">>, <<"reserved">>} \subseteq BeforeBudget
      /\ <<"used">> \in InTransaction /\ <<"reserved">> \in Plans
  BY DEF BeforeBudget, InTransaction, Plans
<1>3. run[c] \in Invocation /\ c \in Clients /\ txn[c] \in Transaction /\ Revisions
      /\ (txn[c].own = 0 \/ txn[c].own \in 2..Len(policies))
  BY Typed
<1>4. PICK d, m : d = CostOf(CreatedIn(day, day)) /\ m = CostOf(CreatedIn(0, day))
  OBVIOUS
<1>5. d \in Nat /\ m \in Nat
  BY <1>4, CreatedCost DEF IndInv
<1>5a. PICK b \in BOOLEAN : b = Superseded(c)
  BY DEF Superseded
<1>6. PICK j : j = [run[c] EXCEPT !.todo = <<"reserved">>, !.torn = b, !.daily = d, !.monthly = m]
  OBVIOUS
<1>7. <<"reserved">> \in Seq(Steps)
  BY <1>2, PlansType
<1>8. /\ j \in Invocation /\ j.todo = <<"reserved">> /\ j.session = run[c].session
      /\ j.total = run[c].total /\ j.answer = run[c].answer
      /\ j.route = run[c].route /\ j.task = run[c].task
  BY <1>3, <1>5, <1>5a, <1>6, <1>7 DEF Invocation
<1>9. run' = [run EXCEPT ![c] = j]
  BY <1>4, <1>5a, <1>6 DEF ReserveUsed, ReadUsed
<1>10. CallInv(j, call[c], resv[c], ses) /\ run[c].todo \notin Past
  BY <1>1, <1>2, <1>8, StillBefore
<1>11. PICK q : q = [txn[c] EXCEPT !.held = @ \cup {txn[c].want}]
  OBVIOUS
<1>12. q \in Transaction /\ q.own = txn[c].own /\ q.want = txn[c].want
  BY <1>3, <1>11 DEF Transaction
<1>13. txn' = [txn EXCEPT ![c] = q]
  BY <1>11 DEF ReserveUsed
<1>14. txn[c].want \in 1..Len(policies)
  BY <1>1, <1>2 DEF IndInv, PolicyInv
<1>15. UNCHANGED <<policies, call, resv, cache, ses, adm, day, faults>>
  BY DEF ReserveUsed
<1>16. Revisions' /\ Len(policies') >= Len(policies)
  BY <1>3, <1>15 DEF Revisions
<1> QED
  BY <1>3, <1>8, <1>9, <1>10, <1>12, <1>13, <1>14, <1>15, <1>16, SameType, TornMove

LEMMA ReserveReservedStep ==
    ASSUME IndInv, NEW c \in Calls, ReserveReserved(c)
    PROVE  IndInv'
<1>1. run[c].todo = <<"reserved">>
  BY Typed, PlanHead DEF ReserveReserved, At
<1>2. /\ {<<"reserved">>, <<"decide">>} \subseteq BeforeBudget
      /\ <<"reserved">> \in InTransaction /\ <<"decide">> \in Plans
  BY DEF BeforeBudget, InTransaction, Plans
<1>3. run[c] \in Invocation /\ c \in Clients /\ txn[c] \in Transaction /\ Revisions
      /\ (txn[c].own = 0 \/ txn[c].own \in 2..Len(policies))
  BY Typed
<1>4. PICK n : n = MapThenSumSet(LAMBDA d : resv[d].amount,
                                 {d \in Calls : resv[d] # None /\ resv[d].active})
  OBVIOUS
<1>5. n \in Nat
  BY <1>4, ReservedNat DEF IndInv
<1>6. PICK j : j = [run[c] EXCEPT !.todo = <<"decide">>, !.reserved = n]
  OBVIOUS
<1>7. <<"decide">> \in Seq(Steps)
  BY <1>2, PlansType
<1>8. /\ j \in Invocation /\ j.todo = <<"decide">> /\ j.session = run[c].session
      /\ j.total = run[c].total /\ j.answer = run[c].answer
      /\ j.route = run[c].route /\ j.task = run[c].task
  BY <1>3, <1>5, <1>6, <1>7 DEF Invocation
<1>9. run' = [run EXCEPT ![c] = j]
  <2>1. run' = [run EXCEPT ![c].todo = <<"decide">>, ![c].reserved = n]
    BY <1>4 DEF ReserveReserved
  <2> QED
    BY <1>6, <2>1 DEF IndInv, TypeOK
<1>10. CallInv(j, call[c], resv[c], ses) /\ run[c].todo \notin Past
  BY <1>1, <1>2, <1>8, StillBefore
<1>11. UNCHANGED <<policies, call, resv, cache, ses, adm, txn, day, faults>>
  BY DEF ReserveReserved
<1>12. txn' = [txn EXCEPT ![c] = txn[c]]
  BY <1>11, SameType
<1>13. txn[c].want \in 1..Len(policies)
  BY <1>1, <1>2 DEF IndInv, PolicyInv
<1>14. Revisions' /\ Len(policies') >= Len(policies)
  BY <1>3, <1>11 DEF Revisions
<1> QED
  BY <1>3, <1>8, <1>9, <1>10, <1>11, <1>12, <1>13, <1>14, SameType, TornMove

LEMMA ReserveDecideStep ==
    ASSUME IndInv, NEW c \in Calls, ReserveDecide(c)
    PROVE  IndInv'
<1>1. run[c].todo = <<"decide">>
  BY Typed, PlanHead DEF ReserveDecide, At
<1>2. /\ <<"decide">> \in BeforeBudget /\ <<"attempt">> \in Holding /\ <<"attempt">> \in Calling
      /\ <<"attempt">> \in Plans /\ <<>> \in Plans
      /\ <<"decide">> \notin Past \cup {<<>>, <<"start">>}
      /\ <<"attempt">> \notin InTransaction \cup BeforeBudget \cup {<<>>, <<"start">>}
      /\ <<"attempt">> \notin Failed \cup {ToFinish, ToPut, ToSettle}
      /\ <<>> \notin InTransaction \cup BeforeBudget \cup Holding \cup {<<"start">>}
  BY PlanKinds DEF BeforeBudget, InTransaction, Plans, Holding, Calling, Past, Leaving
<1>3. run[c] \in Invocation /\ c \in Clients /\ Revisions
      /\ (txn[c].own = 0 \/ txn[c].own \in 2..Len(policies))
      /\ PinInv(run[c], ses) /\ SpendInv(run[c], call[c], resv[c])
  BY Typed
<1>4. run[c].total = 0 /\ call[c] # None /\ call[c] \in CallRow /\ run[c].route # 0
  BY <1>1, <1>2, <1>3, Typed DEF SpendInv, PinInv
<1>5. UNCHANGED <<cache, ses, adm, day, faults>>
  BY DEF ReserveDecide
<1>6. policies' = Committed(policies, txn[c].own) /\ txn' = [txn EXCEPT ![c] = NoTransaction]
  BY DEF ReserveDecide
<1>7. Revisions' /\ Len(policies') >= Len(policies)
  <2>1. /\ policies' \in Seq(Policy) /\ Len(policies') = Len(policies) /\ policies'[1] = policies[1]
    BY <1>3, <1>6, CommittedType
  <2>2. Len(policies) \in Nat \ {0}
    BY Typed
  <2> QED
    BY <1>3, <2>1, <2>2 DEF Revisions
<1>8. CASE WouldExceed(c)
  <2>1. PICK j : j = Returned(run[c])
    OBVIOUS
  <2>2. /\ j \in Invocation /\ j.todo = <<>> /\ j.session = run[c].session
        /\ j.total = run[c].total /\ j.answer = run[c].answer /\ j.lost = run[c].lost
    BY <1>3, <2>1, ReturnedType
  <2>3. run' = [run EXCEPT ![c] = j] \/ run' = Tear([run EXCEPT ![c] = j], c)
    BY <1>8, <2>1 DEF ReserveDecide
  <2>4. PICK row : row = [call[c] EXCEPT !.status = "budget_rejected"]
    OBVIOUS
  <2>5. row \in CallRow
    BY <1>4, <2>4 DEF CallRow
  <2>6. call' = [call EXCEPT ![c] = row] /\ resv' = resv
    BY <1>8, <2>4 DEF ReserveDecide
  <2>7. /\ call' \in [Calls -> CallRow \cup {None}] /\ call'[c] = row /\ row # None
        /\ \A d \in Calls \ {c} : call'[d] = call[d]
    BY <1>1, <1>2, <2>5, <2>6, RowSet
  <2>8. SpendInv(j, row, resv[c])
    BY <1>2, <1>4, <2>2, <2>7 DEF SpendInv, Holding
  <2>9. PinInv(j, ses)
    BY <1>1, <1>2, <1>3, <2>2, NoGrowth, PinKept DEF Holding
  <2>10. CallInv(j, call'[c], resv'[c], ses)
    BY <1>2, <2>2, <2>6, <2>7, <2>8, <2>9 DEF CallInv
  <2>11. j.todo \notin InTransaction /\ run[c].todo \notin Past
    BY <1>1, <1>2, <2>2
  <2>12. PICK q \in Transaction : txn' = [txn EXCEPT ![c] = q] /\ q.own = 0
    BY <1>6, NoTransactionType
  <2>13. resv' \in [Calls -> Reservation \cup {None}] /\ faults' \in 0..MaxFaults
    BY <1>5, <2>6, SameType
  <2> QED
    BY <1>5, <1>7, <2>2, <2>3, <2>6, <2>7, <2>10, <2>11, <2>12, <2>13, TornMove
<1>9. CASE ~WouldExceed(c)
  <2>1. PICK j : j = [run[c] EXCEPT !.todo = <<"attempt">>, !.torn = FALSE,
                                    !.daily = 0, !.monthly = 0, !.reserved = 0]
    OBVIOUS
  <2>2. <<"attempt">> \in Seq(Steps)
    BY <1>2, PlansType
  <2>3. /\ j \in Invocation /\ j.todo = <<"attempt">> /\ j.session = run[c].session
        /\ j.total = run[c].total /\ j.answer = run[c].answer /\ j.lost = run[c].lost
        /\ j.route = run[c].route /\ j.task = run[c].task
    BY <1>3, <2>1, <2>2 DEF Invocation
  <2>4. run' = [run EXCEPT ![c] = j] \/ run' = Tear([run EXCEPT ![c] = j], c)
    BY <1>9, <2>1 DEF ReserveDecide
  <2>5. PICK n : n = MaximumCost(c)
    OBVIOUS
  <2>6. n \in Nat
    <3>1. run[c].routes \in SUBSET Providers
      BY <1>3 DEF Invocation
    <3> QED
      BY <2>5, <3>1, MaximumNat DEF MaximumCost
  <2>7. PICK rv : rv = [amount |-> n, active |-> TRUE]
    OBVIOUS
  <2>8. rv \in Reservation /\ rv # None /\ rv.active = TRUE
    <3>1. rv.active = TRUE
      BY <2>7
    <3>2. TRUE \in BOOLEAN
      OBVIOUS
    <3>3. rv \in Reservation
      BY <2>6, <2>7, <3>2 DEF Reservation
    <3>4. None \notin Reservation
      BY RowsAssumption
    <3> QED
      BY <3>1, <3>3, <3>4
  <2>9. resv' = [resv EXCEPT ![c] = rv] /\ call' = call
    BY <1>9, <2>5, <2>7 DEF ReserveDecide
  <2>10. /\ resv' \in [Calls -> Reservation \cup {None}] /\ resv'[c] = rv
         /\ \A d \in Calls \ {c} : resv'[d] = resv[d]
    BY <2>8, <2>9, SameType
  <2>11. Holds(rv)
    BY <2>8 DEF Holds
  <2>12. SpendInv(j, call[c], rv)
    BY <1>2, <1>4, <2>3, <2>11 DEF SpendInv
  <2>13. PinInv(j, ses)
    BY <1>1, <1>2, <1>3, <1>4, <2>3, NoGrowth, PinKept
  <2>14. CallInv(j, call'[c], resv'[c], ses)
    BY <1>2, <2>3, <2>9, <2>10, <2>12, <2>13 DEF CallInv
  <2>15. j.todo \notin InTransaction /\ run[c].todo \notin Past
    BY <1>1, <1>2, <2>3
  <2>16. PICK q \in Transaction : txn' = [txn EXCEPT ![c] = q] /\ q.own = 0
    BY <1>6, NoTransactionType
  <2>17. call' \in [Calls -> CallRow \cup {None}] /\ faults' \in 0..MaxFaults
    BY <1>5, <2>9, SameType
  <2> QED
    BY <1>5, <1>7, <2>3, <2>4, <2>9, <2>10, <2>14, <2>15, <2>16, <2>17, TornMove
<1> QED
  BY <1>8, <1>9

\* A call may end anywhere: what it has spent is covered already.
LEMMA Leave ==
    ASSUME IndInv, NEW c \in Calls, run[c].todo \notin {<<>>, <<"start">>},
           NEW j, j.todo \in Leaving, j.total = run[c].total, j.session = run[c].session,
           j.answer = run[c].answer, run[c].lost => j.lost,
           j.todo # <<>> => j.route = run[c].route /\ j.task = run[c].task
    PROVE  CallInv(j, call[c], resv[c], ses)
<1>1. run[c] \in Invocation /\ PinInv(run[c], ses) /\ SpendInv(run[c], call[c], resv[c])
  BY Typed
<1>2. /\ j.todo \notin Holding \cup BeforeBudget \cup {<<"start">>}
      /\ j.todo \notin Failed \cup {ToFinish, ToPut, ToSettle}
  BY PlanKinds DEF Holding
<1>3. call[c] # None /\ run[c].route # 0
  BY <1>1 DEF SpendInv, PinInv
<1>4. run[c].total > 0 => Holds(resv[c]) \/ Books(run[c], call[c])
  BY <1>1 DEF SpendInv
<1>5. j.total > 0 => Holds(resv[c]) \/ Books(j, call[c])
  BY <1>4 DEF Books
<1>6. SpendInv(j, call[c], resv[c])
  BY <1>2, <1>3, <1>5 DEF SpendInv
<1>7. PinInv(j, ses)
  BY <1>1, <1>2, <1>3, NoGrowth, PinKept
<1>8. j.todo \in Plans
  BY DEF Plans
<1> QED
  BY <1>6, <1>7, <1>8 DEF CallInv

LEMMA MetricsBeginStep ==
    ASSUME IndInv, NEW c \in Calls, MetricsBegin(c)
    PROVE  IndInv'
<1>1. run[c].todo = <<"metrics">>
  BY Typed, PlanHead DEF MetricsBegin, At
<1>2. /\ <<"metrics">> \notin {<<>>, <<"start">>}
      /\ <<"metricsTx">> \in Leaving /\ <<"metricsTx">> \in Past
      /\ <<"metricsTx">> \in Plans /\ <<"metricsTx">> \notin {<<>>, <<"start">>}
  BY DEF Leaving, Past, Plans
<1>3. PICK j \in Invocation :
              /\ run' = [run EXCEPT ![c] = j] /\ j.todo = <<"metricsTx">>
              /\ j.session = run[c].session /\ j.total = run[c].total
              /\ j.answer = run[c].answer /\ j.lost = run[c].lost
              /\ j.route = run[c].route /\ j.task = run[c].task
  BY <1>1, <1>2, ThenRun DEF MetricsBegin
<1>4. CallInv(j, call[c], resv[c], ses)
  BY <1>1, <1>2, <1>3, Leave
<1>5. UNCHANGED <<policies, call, resv, cache, ses, adm, day, faults>>
  BY DEF MetricsBegin
<1>6. c \in Clients /\ (txn[c].own = 0 \/ txn[c].own \in 2..Len(policies)) /\ Revisions
  BY Typed
<1>7. PICK q \in Transaction :
          /\ Wanting(c) = [txn EXCEPT ![c] = q] /\ q.own = txn[c].own
          /\ q.want \in 1..Len(policies)
  BY <1>6, WantingType
<1>8. txn' = [txn EXCEPT ![c] = q]
  BY <1>7 DEF MetricsBegin
<1>9. Revisions' /\ Len(policies') >= Len(policies)
  BY <1>5, <1>6 DEF Revisions
<1> QED
  BY <1>2, <1>3, <1>4, <1>5, <1>6, <1>7, <1>8, <1>9, SameType, TornMove

\* maybeActivateBudget in a transaction that does nothing else.
LEMMA ActivateType ==
    ASSUME IndInv, NEW x \in Clients, txn[x].want \in 1..Len(policies), ActivateAndCommit(x)
    PROVE  Revisions' /\ Len(policies') >= Len(policies)
<1>1. Revisions /\ Len(policies) \in Nat
  BY DEF IndInv, TypeOK, PolicyInv, Revisions
<1>2. PICK row : row = policies[txn[x].want]
  OBVIOUS
<1>3. row \in Policy
  BY <1>2 DEF IndInv, TypeOK
<1>4. CASE Due(row)
  <2>1. PICK next : next = [Successor(row) EXCEPT !.state = "committed"]
    OBVIOUS
  <2>2. next \in Policy
    BY <1>3, <2>1, SuccessorType DEF IndInv
  <2>3. policies' = Append(policies, next)
    BY <1>2, <1>4, <2>1 DEF ActivateAndCommit
  <2> QED
    BY <1>1, <2>2, <2>3, AppendType DEF Revisions
<1>5. CASE ~Due(row)
  BY <1>1, <1>2, <1>5 DEF ActivateAndCommit, Revisions
<1> QED
  BY <1>4, <1>5

LEMMA MetricsCommitStep ==
    ASSUME IndInv, NEW c \in Calls, MetricsCommit(c)
    PROVE  IndInv'
<1>1. run[c].todo = <<"metricsTx">>
  BY Typed, PlanHead DEF MetricsCommit, At
<1>2. /\ <<"metricsTx">> \in InTransaction /\ <<"metricsTx">> \notin {<<>>, <<"start">>}
      /\ <<>> \notin InTransaction /\ <<>> \in Leaving /\ <<>> \in Past
  BY DEF InTransaction, Leaving, Past
<1>3. run[c] \in Invocation /\ c \in Clients
  BY Typed
<1>4. txn[c].want \in 1..Len(policies)
  BY <1>1, <1>2 DEF IndInv, PolicyInv
<1>5. Revisions' /\ Len(policies') >= Len(policies)
  BY <1>3, <1>4, ActivateType DEF MetricsCommit
<1>6. PICK j : j = Returned(run[c])
  OBVIOUS
<1>7. /\ j \in Invocation /\ j.todo = <<>> /\ j.session = run[c].session
      /\ j.total = run[c].total /\ j.answer = run[c].answer /\ j.lost = run[c].lost
  BY <1>3, <1>6, ReturnedType
<1>8. CallInv(j, call[c], resv[c], ses)
  BY <1>1, <1>2, <1>7, Leave
<1>9. run' = [run EXCEPT ![c] = j] \/ run' = Tear([run EXCEPT ![c] = j], c)
  BY <1>6 DEF MetricsCommit
<1>10. UNCHANGED <<call, resv, cache, ses, adm, day, faults>>
  BY DEF MetricsCommit
<1>11. PICK q \in Transaction : txn' = [txn EXCEPT ![c] = q] /\ q.own = 0
  BY NoTransactionType DEF MetricsCommit
<1> QED
  BY <1>2, <1>5, <1>7, <1>8, <1>9, <1>10, <1>11, SameType, TornMove

-----------------------------------------------------------------------------
(* Failures.                                                               *)

\* A step that rolls back the transaction of call c.
LEMMA RollBack ==
    ASSUME IndInv, NEW c \in Calls, NEW j \in Invocation, run' = [run EXCEPT ![c] = j],
           CallInv(j, call[c], resv[c], ses),
           run[c].todo \in Past => j.todo \in Past,
           j.todo \notin InTransaction,
           faults < MaxFaults, faults' = faults + 1,
           policies' = Voided(policies, txn[c].own),
           txn' = [txn EXCEPT ![c] = NoTransaction],
           UNCHANGED <<call, resv, cache, ses, adm, day>>
    PROVE  IndInv'
<1>1. /\ Revisions /\ Len(policies) \in Nat \ {0}
      /\ (txn[c].own = 0 \/ txn[c].own \in 2..Len(policies))
  BY Typed
<1>2. /\ policies' \in Seq(Policy) /\ Len(policies') = Len(policies) /\ policies'[1] = policies[1]
  BY <1>1, CommittedType
<1>3. Revisions' /\ Len(policies') >= Len(policies)
  BY <1>1, <1>2 DEF Revisions
<1>4. faults' \in 0..MaxFaults
  BY SameType, TimeAssumption
<1>5. PICK q \in Transaction : txn' = [txn EXCEPT ![c] = q] /\ q.own = 0
  BY NoTransactionType
<1> QED
  BY <1>3, <1>4, <1>5, SameType, TornMove

LEMMA CrashStep ==
    ASSUME IndInv, NEW c \in Calls, Crash(c)
    PROVE  IndInv'
<1>1. run[c].todo \notin {<<>>, <<"start">>}
  BY DEF Crash, At
<1>2. run[c] \in Invocation
  BY Typed
<1>3. PICK i : i = [run[c] EXCEPT !.dead = TRUE]
  OBVIOUS
<1>4. /\ i \in Invocation /\ i.session = run[c].session /\ i.total = run[c].total
      /\ i.answer = run[c].answer /\ i.lost = run[c].lost
  <2>1. TRUE \in BOOLEAN
    OBVIOUS
  <2> QED
    BY <1>2, <1>3, <2>1 DEF Invocation
<1>5. PICK j : j = Returned(i)
  OBVIOUS
<1>6. /\ j \in Invocation /\ j.todo = <<>> /\ j.session = run[c].session
      /\ j.total = run[c].total /\ j.answer = run[c].answer /\ j.lost = run[c].lost
  BY <1>4, <1>5, ReturnedType
<1>7. <<>> \notin InTransaction /\ <<>> \in Leaving /\ <<>> \in Past
  BY DEF InTransaction, Leaving, Past
<1>8. CallInv(j, call[c], resv[c], ses)
  BY <1>1, <1>6, <1>7, Leave
<1>9. run' = [run EXCEPT ![c] = j]
  BY <1>3, <1>5 DEF Crash
<1> QED
  BY <1>6, <1>7, <1>8, <1>9, RollBack DEF Crash

Loses == {"finishAttempt", "finish", "finishFailed", "failCall"}

\* Where an error leads: towards settlement, whoever holds a reservation.
LEMMA OnErrorPlan ==
    ASSUME IndInv, NEW c \in Calls, NEW step \in Fallible, At(c, step)
    PROVE  LET t == OnError(c, step)
           IN  \/ t = <<>>
               \/ run[c].todo \in BeforeBudget /\ t = <<"failCall">>
               \/ run[c].todo \in Holding \ Past /\ t \in Failing
               \/ run[c].todo \in Holding \ Past /\ t = <<"settle">> /\ step \in Loses
               \/ run[c].todo = ToPut /\ t = ToSettle
<1> DEFINE t == OnError(c, step)
<1>1. run[c].todo \in Plans /\ run[c].todo # <<>> /\ Head(run[c].todo) = step
  BY Typed DEF At
<1>2. step \in {"activate", "used", "reserved", "decide", "attempt", "finishAttempt", "pin",
                "finish", "put", "settle", "metrics", "metricsTx", "finishFailed", "failCall",
                "failSession"}
  BY DEF Fallible, Steps
<1>3. CASE step \in {"activate", "used", "reserved", "decide"}
  <2>1. t = <<"failCall">>
    BY <1>3 DEF OnError
  <2>2. run[c].todo \in BeforeBudget
    BY <1>1, <1>3, PlanHead DEF BeforeBudget
  <2> QED
    BY <2>1, <2>2
<1>4. CASE step \in {"attempt", "pin"}
  <2>1. t \in Failing
    BY <1>4 DEF OnError, Failing
  <2>2. run[c].todo \in {<<"attempt">>, ToPin}
    BY <1>1, <1>4, PlanHead
  <2>3. {<<"attempt">>, ToPin} \subseteq Holding /\ {<<"attempt">>, ToPin} \cap Past = {}
    BY PlanKinds DEF Holding, Calling, Past
  <2> QED
    BY <2>1, <2>2, <2>3
<1>5. CASE step \in {"finishAttempt", "finish", "finishFailed"}
  <2>1. t = <<"settle">> /\ step \in Loses
    BY <1>5 DEF OnError, Loses
  <2>2. run[c].todo \in {<<"finishAttempt">>, ToFinish} \cup Failing
    BY <1>1, <1>5, PlanHead DEF Failing
  <2>3. run[c].todo \in Holding \ Past
    BY <2>2, PlanKinds DEF Holding, Calling, Past
  <2> QED
    BY <2>1, <2>3
<1>6. CASE step = "put"
  <2>1. run[c].todo = ToPut
    BY <1>1, <1>6, PlanHead
  <2>2. t = ToSettle
    BY <1>6, <2>1, PlanTail DEF OnError, Rest
  <2> QED
    BY <2>1, <2>2
<1>7. CASE step = "failCall"
  <2>1. t = Tail(run[c].todo) /\ step \in Loses
    BY <1>7 DEF OnError, Rest, Loses
  <2>2. run[c].todo \in {<<"failCall">>, <<"failCall", "settle">>}
    BY <1>1, <1>7, PlanHead
  <2>3. <<"failCall", "settle">> \in Holding \ Past
    BY PlanKinds DEF Holding, Failing, Past
  <2> QED
    BY <2>1, <2>2, <2>3, PlanTail
<1>8. CASE step = "failSession"
  <2>1. t = Tail(run[c].todo)
    BY <1>8 DEF OnError, Rest
  <2>2. run[c].todo \in {<<"failSession">>, PinConflict}
    BY <1>1, <1>8, PlanHead
  <2>3. PinConflict \in Holding \ Past /\ <<"failCall", "settle">> \in Failing
    BY PlanKinds DEF Holding, Failing, Past
  <2> QED
    BY <2>1, <2>2, <2>3, PlanTail
<1>9. CASE step \in {"settle", "metrics", "metricsTx"}
  <2>1. t = <<>>
    BY <1>9 DEF OnError
  <2> QED
    BY <2>1
<1> QED
  BY <1>2, <1>3, <1>4, <1>5, <1>6, <1>7, <1>8, <1>9

LEMMA StatementFailsStep ==
    ASSUME IndInv, NEW c \in Calls, StatementFails(c)
    PROVE  IndInv'
<1>1. PICK step \in Fallible :
        /\ At(c, step)
        /\ faults < MaxFaults
        /\ faults' = faults + 1
        /\ policies' = Voided(policies, txn[c].own)
        /\ txn' = [txn EXCEPT ![c] = NoTransaction]
        /\ LET mine == [run[c] EXCEPT !.dead = @ \/ step = "settle",
                  !.lost = @ \/ step \in {"finishAttempt", "finish", "finishFailed",
                                         "failCall"}]
           IN run' = [run EXCEPT ![c] = Doing(mine, OnError(c, step))]
        /\ UNCHANGED <<call, resv, cache, ses, adm, day>>
  BY DEF StatementFails
<1>2. run[c] \in Invocation /\ PinInv(run[c], ses) /\ SpendInv(run[c], call[c], resv[c])
  BY Typed
<1>3. PICK dead : dead = (run[c].dead \/ step = "settle")
  OBVIOUS
<1>4. PICK lost : lost = (run[c].lost \/ step \in Loses)
  OBVIOUS
<1>5. PICK i : i = [run[c] EXCEPT !.dead = dead, !.lost = lost]
  OBVIOUS
<1>6. dead \in BOOLEAN /\ lost \in BOOLEAN
  <2>1. run[c].dead \in BOOLEAN /\ run[c].lost \in BOOLEAN
    BY <1>2 DEF Invocation
  <2>2. dead \in BOOLEAN
    BY <1>3, <2>1
  <2>3. lost \in BOOLEAN
    BY <1>4, <2>1
  <2> QED
    BY <2>2, <2>3
<1>7. /\ i \in Invocation /\ i.todo = run[c].todo /\ i.session = run[c].session
      /\ i.total = run[c].total /\ i.answer = run[c].answer /\ i.lost = lost
      /\ i.route = run[c].route /\ i.task = run[c].task
  BY <1>2, <1>5, <1>6 DEF Invocation
<1>8. PICK t : t = OnError(c, step)
  OBVIOUS
<1>9. run[c].todo \notin {<<>>, <<"start">>}
  BY <1>1 DEF At, Fallible
<1>10. PICK j : j = Doing(i, t)
  OBVIOUS
<1>11. run' = [run EXCEPT ![c] = j]
  BY <1>1, <1>3, <1>4, <1>5, <1>8, <1>10 DEF Loses
<1>12. ASSUME t \in Plans
       PROVE  /\ j \in Invocation /\ j.todo = t /\ j.session = run[c].session
              /\ j.total = run[c].total /\ j.answer = run[c].answer /\ j.lost = lost
              /\ t # <<>> => j.route = run[c].route /\ j.task = run[c].task
  BY <1>7, <1>10, <1>12, DoingType
<1>13. \/ t = <<>>
       \/ run[c].todo \in BeforeBudget /\ t = <<"failCall">>
       \/ run[c].todo \in Holding \ Past /\ t \in Failing
       \/ run[c].todo \in Holding \ Past /\ t = <<"settle">> /\ step \in Loses
       \/ run[c].todo = ToPut /\ t = ToSettle
  BY <1>1, <1>8, OnErrorPlan
<1>14. /\ <<>> \in Plans /\ <<"failCall">> \in Plans /\ Failing \subseteq Plans
       /\ <<"settle">> \in Plans /\ ToSettle \in Plans
       /\ <<"failCall">> \in BeforeBudget /\ Failing \subseteq Holding /\ <<"settle">> \in Failed
       /\ <<"settle">> \in Holding /\ ToSettle \in Holding /\ ToPut \in Holding
  BY DEF Plans, Holding, BeforeBudget, Failed, Leaving
<1>15. t \in Plans
  BY <1>13, <1>14
<1>16. t \notin InTransaction /\ t # <<"start">>
  <2>1. InTransaction \subseteq BeforeBudget \cup Leaving
    BY DEF InTransaction, BeforeBudget, Leaving
  <2>2. <<>> \notin InTransaction /\ <<"failCall">> \notin InTransaction
    BY DEF InTransaction
  <2> QED
    BY <1>13, <1>14, <2>1, <2>2, PlanKinds
<1>17. run[c].todo \in Past => t \in Past
  <2>1. <<>> \in Past /\ ToPut \notin Past /\ BeforeBudget \cap Past = {}
    BY PlanKinds DEF Past, Leaving, Holding
  <2> QED
    BY <1>13, <2>1
<1>18. call[c] # None /\ run[c].route # 0
  BY <1>2, <1>9 DEF SpendInv, PinInv
<1>19. CallInv(j, call[c], resv[c], ses)
  <2>1. CASE t = <<>>
    <3>1. <<>> \in Leaving
      BY DEF Leaving
    <3> QED
      BY <1>4, <1>9, <1>12, <1>15, <2>1, <3>1, Leave
  <2>2. CASE run[c].todo \in BeforeBudget /\ t = <<"failCall">>
    BY <1>12, <1>14, <1>15, <2>2, StillBefore
  <2>3. CASE run[c].todo \in Holding \ Past /\ t \in Failing
    <3>1. Holds(resv[c])
      BY <1>2, <2>3 DEF SpendInv
    <3>2. t \notin BeforeBudget \cup Failed \cup {<<"start">>, <<>>, ToFinish, ToPut, ToSettle}
      BY <1>14, <2>3, PlanKinds
    <3>3. SpendInv(j, call[c], resv[c])
      BY <1>12, <1>15, <1>18, <3>1, <3>2 DEF SpendInv
    <3>4. PinInv(j, ses)
      BY <1>2, <1>9, <1>12, <1>15, <1>18, <3>2, NoGrowth, PinKept
    <3> QED
      BY <1>12, <1>15, <3>3, <3>4 DEF CallInv
  <2>4. CASE run[c].todo \in Holding \ Past /\ t = <<"settle">> /\ step \in Loses
    <3>1. Holds(resv[c])
      BY <1>2, <2>4 DEF SpendInv
    <3>2. t \notin BeforeBudget \cup {<<"start">>, <<>>, ToFinish, ToPut, ToSettle}
      BY <1>14, <2>4, PlanKinds
    <3>3. j.lost
      BY <1>4, <1>12, <1>15, <2>4
    <3>4. SpendInv(j, call[c], resv[c])
      BY <1>12, <1>15, <1>18, <3>1, <3>2, <3>3 DEF SpendInv, Books
    <3>5. PinInv(j, ses)
      BY <1>2, <1>9, <1>12, <1>15, <1>18, <3>2, NoGrowth, PinKept
    <3> QED
      BY <1>12, <1>15, <3>4, <3>5 DEF CallInv
  <2>5. CASE run[c].todo = ToPut /\ t = ToSettle
    <3>1. /\ Holds(resv[c]) /\ Books(run[c], call[c]) /\ call[c].status = "succeeded"
          /\ run[c].session # None => ses[run[c].session].pin = run[c].route
      BY <1>2, <1>14, <2>5 DEF SpendInv, PinInv
    <3>2. t \notin BeforeBudget \cup {<<"start">>, <<>>}
      BY <1>14, <2>5, PlanKinds
    <3>3. Books(j, call[c])
      BY <1>4, <1>12, <1>15, <3>1 DEF Books
    <3>4. SpendInv(j, call[c], resv[c])
      BY <1>12, <1>15, <1>18, <2>5, <3>1, <3>2, <3>3 DEF SpendInv
    <3>5. PinInv(j, ses)
      BY <1>2, <1>9, <1>12, <1>15, <1>18, <3>1, <3>2, NoGrowth, PinKept
    <3> QED
      BY <1>12, <1>15, <3>4, <3>5 DEF CallInv
  <2> QED
    BY <1>13, <2>1, <2>2, <2>3, <2>4, <2>5
<1>20. /\ faults < MaxFaults /\ faults' = faults + 1
       /\ policies' = Voided(policies, txn[c].own)
       /\ txn' = [txn EXCEPT ![c] = NoTransaction]
       /\ UNCHANGED <<call, resv, cache, ses, adm, day>>
  BY <1>1
<1>21. j \in Invocation /\ j.todo = t
  BY <1>12, <1>15
<1> QED
  BY <1>11, <1>16, <1>17, <1>19, <1>20, <1>21, RollBack

-----------------------------------------------------------------------------
(* Operators, sessions, the clock.                                         *)

\* A step of operator a.
LEMMA OperatorMove ==
    ASSUME IndInv, NEW a \in Admins,
           run' = run \/ run' = Tear(run, a),
           UNCHANGED <<call, resv, cache, ses, day, faults>>,
           NEW r, adm' = [adm EXCEPT ![a] = r],
           r \in [pc : {"get", "getTx", "patch", "patchTx", "done"}, expected : Nat],
           Revisions', Len(policies') >= Len(policies),
           NEW q \in Transaction, txn' = [txn EXCEPT ![a] = q],
           q.own = 0 \/ q.own \in 2..Len(policies'),
           r.pc \in {"getTx", "patchTx"} => q.want \in 1..Len(policies')
    PROVE  IndInv'
<1>1. a \in Clients /\ a \notin Calls
  BY NamesAssumption DEF Clients
<1>2. run \in [Calls -> Invocation]
  BY DEF IndInv, TypeOK
<1>3. run' \in [Calls -> Invocation] /\ \A d \in Calls : Same(run[d], run'[d])
  BY <1>2, TearType, SameSelf
<1>4. /\ txn' \in [Clients -> Transaction] /\ txn'[a] = q
      /\ \A y \in Clients \ {a} : txn'[y] = txn[y]
  BY <1>1, SameType
<1>5. /\ adm' \in [Admins -> [pc : {"get", "getTx", "patch", "patchTx", "done"}, expected : Nat]]
      /\ adm'[a] = r /\ \A b \in Admins \ {a} : adm'[b].pc = adm[b].pc
  BY DEF IndInv, TypeOK
<1>6. TypeOK'
  BY <1>3, <1>4, <1>5 DEF IndInv, TypeOK, Revisions
<1>7. \A d \in Calls \ {a} : run'[d].todo = run[d].todo
  BY <1>3 DEF Same
<1>8. PolicyInv'
  BY <1>1, <1>4, <1>5, <1>7, PolicyStep
<1> QED
  BY <1>1, <1>3, <1>6, <1>8, NoGrowth, OwnStep

LEMMA OperatorTyped ==
    ASSUME IndInv, NEW a \in Admins
    PROVE  /\ a \in Clients /\ Revisions /\ txn[a] \in Transaction
           /\ (txn[a].own = 0 \/ txn[a].own \in 2..Len(policies))
           /\ adm[a] \in [pc : {"get", "getTx", "patch", "patchTx", "done"}, expected : Nat]
           /\ adm[a].pc \in {"getTx", "patchTx"} => txn[a].want \in 1..Len(policies)
<1>1. a \in Clients
  BY DEF Clients
<1> QED
  BY <1>1 DEF IndInv, TypeOK, PolicyInv, Revisions

\* An operator's request asks for the policy row.
LEMMA BeginStep ==
    ASSUME IndInv, NEW a \in Admins, BudgetBegin(a) \/ UpdateBegin(a)
    PROVE  IndInv'
<1>1. PICK pc \in {"getTx", "patchTx"} : adm' = [adm EXCEPT ![a].pc = pc]
  BY DEF BudgetBegin, UpdateBegin
<1>2. txn' = Wanting(a) /\ UNCHANGED <<policies, call, resv, cache, ses, run, day, faults>>
  BY DEF BudgetBegin, UpdateBegin
<1>3. /\ a \in Clients /\ Revisions /\ (txn[a].own = 0 \/ txn[a].own \in 2..Len(policies))
      /\ adm[a] \in [pc : {"get", "getTx", "patch", "patchTx", "done"}, expected : Nat]
  BY OperatorTyped
<1>4. PICK q \in Transaction :
          /\ Wanting(a) = [txn EXCEPT ![a] = q] /\ q.own = txn[a].own
          /\ q.want \in 1..Len(policies)
  BY <1>3, WantingType
<1>5. PICK r : r = [adm[a] EXCEPT !.pc = pc]
  OBVIOUS
<1>6. r \in [pc : {"get", "getTx", "patch", "patchTx", "done"}, expected : Nat]
  BY <1>3, <1>5
<1>7. adm' = [adm EXCEPT ![a] = r]
  BY <1>1, <1>5
<1>8. Revisions' /\ Len(policies') >= Len(policies)
  BY <1>2, <1>3 DEF Revisions
<1> QED
  BY <1>2, <1>3, <1>4, <1>6, <1>7, <1>8, OperatorMove

LEMMA BudgetCommitStep ==
    ASSUME IndInv, NEW a \in Admins, BudgetCommit(a)
    PROVE  IndInv'
<1>1. a \in Clients /\ txn[a].want \in 1..Len(policies)
  BY OperatorTyped DEF BudgetCommit
<1>2. Revisions' /\ Len(policies') >= Len(policies)
  BY <1>1, ActivateType DEF BudgetCommit
<1>3. PICK n : n = Max({r \in DOMAIN policies' : policies'[r].state = "committed"})
  OBVIOUS
<1>4. n \in Nat
  <2>1. PICK rows : rows = policies'
    OBVIOUS
  <2>2. rows \in Seq(Policy) /\ rows # <<>> /\ rows[1].state = "committed"
    BY <1>2, <2>1 DEF Revisions
  <2> QED
    BY <1>3, <2>1, <2>2, MaxCommitted
<1>5. PICK r : r = [pc |-> "patch", expected |-> n]
  OBVIOUS
<1>6. /\ r \in [pc : {"get", "getTx", "patch", "patchTx", "done"}, expected : Nat]
      /\ r.pc = "patch"
  BY <1>4, <1>5
<1>7. adm' = [adm EXCEPT ![a] = r]
  BY <1>3, <1>5 DEF BudgetCommit
<1>8. PICK q \in Transaction : txn' = [txn EXCEPT ![a] = q] /\ q.own = 0
  BY NoTransactionType DEF BudgetCommit
<1>9. (run' = run \/ run' = Tear(run, a)) /\ UNCHANGED <<call, resv, cache, ses, day, faults>>
  BY DEF BudgetCommit
<1> QED
  BY <1>2, <1>6, <1>7, <1>8, <1>9, OperatorMove

LEMMA UpdateCommitStep ==
    ASSUME IndInv, NEW a \in Admins, NEW mode \in PatchModes, NEW cap \in Caps,
           UpdateCommit(a, mode, cap)
    PROVE  IndInv'
<1>1. /\ a \in Clients /\ Revisions /\ txn[a].want \in 1..Len(policies)
      /\ adm[a] \in [pc : {"get", "getTx", "patch", "patchTx", "done"}, expected : Nat]
  BY OperatorTyped DEF UpdateCommit
<1>2. policies[txn[a].want] \in Policy
  BY <1>1 DEF Revisions
<1>3. PICK row : row = [mode |-> mode, started |-> policies[txn[a].want].started,
                        daily |-> cap, monthly |-> cap, state |-> "committed"]
  OBVIOUS
<1>4. row \in Policy
  <2>1. cap \in Nat \ {0} /\ mode \in Modes
    BY MoneyAssumption, NamesAssumption DEF Modes
  <2>2. policies[txn[a].want].started \in Days
    BY <1>2 DEF Policy
  <2>3. CASE mode = "enforce"
    BY <1>3, <2>1, <2>2, <2>3 DEF Policy
  <2>4. CASE mode # "enforce"
    <3>1. mode \in Modes \ {"enforce"} /\ cap \in Nat
      BY <2>1, <2>4
    <3> QED
      BY <1>3, <2>2, <3>1 DEF Policy
  <2> QED
    BY <2>3, <2>4
<1>5. policies' = policies \/ policies' = Append(policies, row)
  BY <1>3 DEF UpdateCommit
<1>6. Revisions' /\ Len(policies') >= Len(policies)
  BY <1>1, <1>4, <1>5, AppendType DEF Revisions
<1>7. PICK r : r = [adm[a] EXCEPT !.pc = "done"]
  OBVIOUS
<1>8. /\ r \in [pc : {"get", "getTx", "patch", "patchTx", "done"}, expected : Nat]
      /\ r.pc = "done"
  BY <1>1, <1>7
<1>9. adm' = [adm EXCEPT ![a] = r]
  BY <1>7 DEF UpdateCommit
<1>10. PICK q \in Transaction : txn' = [txn EXCEPT ![a] = q] /\ q.own = 0
  BY NoTransactionType DEF UpdateCommit
<1>11. (run' = run \/ run' = Tear(run, a)) /\ UNCHANGED <<call, resv, cache, ses, day, faults>>
  BY DEF UpdateCommit
<1> QED
  BY <1>6, <1>8, <1>9, <1>10, <1>11, OperatorMove

LEMMA CreateSessionStep ==
    ASSUME IndInv, NEW s \in Sessions, CreateSession(s)
    PROVE  IndInv'
<1>1. PICK row : row = [pin |-> 0, status |-> "open"]
  OBVIOUS
<1>2. row \in InferenceSession /\ row # None
  BY <1>1, RowsAssumption DEF InferenceSession
<1>3. ses' = [ses EXCEPT ![s] = row] /\ ses[s] = None
  BY <1>1 DEF CreateSession
<1>4. ses' \in [Sessions -> InferenceSession \cup {None}] /\ Grown(ses, ses')
  BY <1>2, <1>3, SameType DEF Grown
<1>5. UNCHANGED <<policies, call, resv, cache, run, adm, txn, day, faults>>
  BY DEF CreateSession
<1>6. TypeOK' /\ PolicyInv'
  BY <1>4, <1>5 DEF IndInv, TypeOK, PolicyInv
<1>7. None \notin Calls
  BY NamesAssumption
<1> QED
  BY <1>4, <1>5, <1>6, <1>7, SameSelf, OwnStep

LEMMA NextDayStep ==
    ASSUME IndInv, NextDay
    PROVE  IndInv'
<1>1. UNCHANGED <<policies, call, resv, cache, ses, run, adm, txn, faults>>
  BY DEF NextDay
<1>2. day' \in Days
  BY SameType, TimeAssumption DEF NextDay, Days
<1>3. TypeOK' /\ PolicyInv'
  BY <1>1, <1>2 DEF IndInv, TypeOK, PolicyInv
<1> QED
  BY <1>1, <1>3 DEF IndInv, CacheInv

LEMMA StutterStep ==
    ASSUME IndInv, UNCHANGED vars
    PROVE  IndInv'
<1>1. UNCHANGED <<policies, call, resv, cache, ses, run, adm, txn, day, faults>>
  BY DEF vars
<1> QED
  BY <1>1 DEF IndInv, TypeOK, CacheInv, PolicyInv

-----------------------------------------------------------------------------
(* The theorems.                                                           *)

LEMMA InitInv ==
    ASSUME Init
    PROVE  IndInv
<1>1. PICK cap : cap = IF InitialMode = "enforce" THEN InitialCap ELSE 0
  OBVIOUS
<1>2. PICK row : row = [mode |-> InitialMode, started |-> 0, state |-> "committed",
                        daily |-> cap, monthly |-> cap]
  OBVIOUS
<1>3. 0 \in Days /\ 0 \in 0..MaxFaults
  BY TimeAssumption DEF Days
<1>4. row \in Policy /\ row.state = "committed"
  <2>1. CASE InitialMode = "enforce"
    <3>1. cap \in Nat \ {0}
      BY <1>1, <2>1, MoneyAssumption
    <3> QED
      BY <1>2, <1>3, <2>1, <3>1 DEF Policy
  <2>2. CASE InitialMode # "enforce"
    <3>1. cap \in Nat /\ InitialMode \in Modes \ {"enforce"}
      BY <1>1, <2>2, NamesAssumption DEF Modes
    <3> QED
      BY <1>2, <1>3, <3>1 DEF Policy
  <2> QED
    BY <2>1, <2>2
<1>5. policies = <<row>>
  BY <1>1, <1>2 DEF Init
<1>6. /\ policies \in Seq(Policy) /\ policies # <<>> /\ policies[1].state = "committed"
  BY <1>4, <1>5
<1>7. run = [c \in Calls |-> Idle] /\ run \in [Calls -> Invocation]
  BY IdleType DEF Init
<1>8. txn = [x \in Clients |-> NoTransaction] /\ txn \in [Clients -> Transaction]
  BY NoTransactionType DEF Init
<1>9. adm \in [Admins -> [pc : {"get", "getTx", "patch", "patchTx", "done"}, expected : Nat]]
  BY DEF Init
<1>10. TypeOK
  BY <1>3, <1>6, <1>7, <1>8, <1>9 DEF Init, TypeOK
<1>11. /\ Idle.todo = <<"start">> /\ Idle.total = 0 /\ Idle.answer = 0
       /\ Idle.session = None
  BY DEF Idle
<1>12. /\ <<"start">> \in Plans /\ <<"start">> \notin Holding \cup InTransaction
       /\ <<"start">> \notin Failed \cup {ToFinish, ToPut, ToSettle}
  BY PlanKinds DEF Plans, Holding, InTransaction
<1>13. ASSUME NEW c \in Calls PROVE CallInv(run[c], call[c], resv[c], ses)
  <2>1. run[c] = Idle
    BY <1>7
  <2>2. SpendInv(Idle, call[c], resv[c])
    BY <1>11, <1>12 DEF SpendInv
  <2>3. PinInv(Idle, ses)
    BY <1>11, <1>12 DEF PinInv
  <2> QED
    BY <1>11, <1>12, <2>1, <2>2, <2>3 DEF CallInv
<1>14. CacheInv
  BY DEF Init, CacheInv
<1>15. PolicyInv
  <2>1. \A x \in Clients : txn[x].own = 0
    BY <1>8, NoTransactionType
  <2>2. \A c \in Calls : run[c].todo \notin InTransaction
    BY <1>7, <1>11, <1>12
  <2>3. \A a \in Admins : adm[a].pc = "get"
    BY DEF Init
  <2> QED
    BY <1>6, <2>1, <2>2, <2>3 DEF PolicyInv
<1> QED
  BY <1>10, <1>13, <1>14, <1>15 DEF IndInv

LEMMA NextInv ==
    ASSUME IndInv, [Next]_vars
    PROVE  IndInv'
<1>1. ASSUME NEW c \in Calls, NEW t \in Tasks, NEW s \in Sessions \cup {None}, Start(c, t, s)
      PROVE  IndInv'
  BY <1>1, StartStep
<1>2. ASSUME NEW c \in Calls, Invoke(c) PROVE IndInv'
  <2>1. CASE \E p \in Providers : CacheHit(c, p)
    BY <2>1, CacheHitStep
  <2>2. CASE \E outcome \in {"ok", "retryable", "fatal"}, cost \in Costs : Attempt(c, outcome, cost)
    BY <2>2, AttemptStep
  <2>3. CASE CacheMiss(c)
    BY <2>3, CacheMissStep
  <2>4. CASE ReserveActivate(c) \/ ReserveUsed(c) \/ ReserveReserved(c) \/ ReserveDecide(c)
    BY <2>4, ReserveActivateStep, ReserveUsedStep, ReserveReservedStep, ReserveDecideStep
  <2>5. CASE FinishAttempt(c) \/ PinSession(c) \/ FinishSucceeded(c) \/ PutCache(c)
    BY <2>5, FinishAttemptStep, PinSessionStep, FinishSucceededStep, PutCacheStep
  <2>6. CASE FinishFailed(c) \/ SettleBudget(c) \/ FailSession(c)
    BY <2>6, FinishFailedStep, SettleBudgetStep, FailSessionStep
  <2>7. CASE MetricsBegin(c) \/ MetricsCommit(c)
    BY <2>7, MetricsBeginStep, MetricsCommitStep
  <2> QED
    BY <1>2, <2>1, <2>2, <2>3, <2>4, <2>5, <2>6, <2>7 DEF Invoke
<1>3. ASSUME NEW c \in Calls, StatementFails(c) \/ Crash(c) PROVE IndInv'
  BY <1>3, StatementFailsStep, CrashStep
<1>4. ASSUME NEW a \in Admins, Operator(a) PROVE IndInv'
  BY <1>4, BeginStep, BudgetCommitStep, UpdateCommitStep DEF Operator
<1>5. ASSUME NEW s \in Sessions, CreateSession(s) PROVE IndInv'
  BY <1>5, CreateSessionStep
<1>6. CASE NextDay
  BY <1>6, NextDayStep
<1>7. CASE UNCHANGED vars
  BY <1>7, StutterStep
<1> QED
  BY <1>1, <1>2, <1>3, <1>4, <1>5, <1>6, <1>7 DEF Next

\* The inductive invariant holds in every behaviour: what lies ahead of an
\* Invoke says whether its reservation is held, its row finished, its session
\* pinned.
THEOREM Correct == Spec => []IndInv
<1>1. Init => IndInv
  BY InitInv
<1>2. IndInv /\ [Next]_vars => IndInv'
  BY NextInv
<1> QED
  BY <1>1, <1>2, PTL DEF Spec

\* The type invariant.  Its hard part is the policy table: the caps that
\* maybeActivateBudget derives from the ledger are never zero, because a
\* baseline with any cost has a day with a cost.
THEOREM TypeCorrect == Spec => []TypeOK
<1>1. IndInv => TypeOK
  BY DEF IndInv
<1> QED
  BY <1>1, Correct, PTL

\* Whatever a provider charged is reserved or in the ledger, unless a ledger
\* statement failed: for any number of calls, operators, faults and prices.
THEOREM SpendCovered == Spec => []SpendIsCovered
<1>1. ASSUME IndInv PROVE SpendIsCovered
  <2> SUFFICES ASSUME NEW c \in Calls, run[c].total > 0 \/ At(c, "attempt")
               PROVE  Active(c) \/ (Finished(c) /\ call[c].cost = run[c].total) \/ run[c].lost
    BY DEF SpendIsCovered
  <2>1. SpendInv(run[c], call[c], resv[c]) /\ run[c].todo \in Plans
    BY <1>1, Typed
  <2>2. At(c, "attempt") => run[c].todo \in Holding
    BY <2>1, PlanHead DEF At, Holding, Calling
  <2>3. Holds(resv[c]) \/ Books(run[c], call[c])
    BY <2>1, <2>2 DEF SpendInv
  <2>4. CASE Holds(resv[c])
    BY <2>4 DEF Holds, Active
  <2>5. CASE Books(run[c], call[c])
    BY <2>5 DEF Books, Finished
  <2> QED
    BY <2>3, <2>4, <2>5
<1> QED
  BY <1>1, Correct, PTL

\* Within a session of an uncached task every answer is from one provider, for
\* any number of overlapping calls.
THEOREM SessionsStayPinned == Spec => []OneProviderPerSession
<1>1. ASSUME IndInv PROVE OneProviderPerSession
  <2> SUFFICES ASSUME NEW c \in Calls, NEW d \in Calls,
                      run[c].session # None, run[c].session = run[d].session,
                      run[c].answer # 0, run[d].answer # 0, SessionTask \notin CachedTasks
               PROVE  run[c].answer = run[d].answer
    BY DEF OneProviderPerSession
  <2>1. PinInv(run[c], ses) /\ PinInv(run[d], ses)
    BY <1>1, Typed
  <2>2. ses[run[c].session].pin = run[c].answer /\ ses[run[d].session].pin = run[d].answer
    BY <2>1 DEF PinInv
  <2> QED
    BY <2>2
<1> QED
  BY <1>1, Correct, PTL

\* A cached answer belongs to a call the ledger has as succeeded, and no later
\* step of that call rewrites its row.
THEOREM CacheIsLedgered == Spec => []CachedAnswersLedgered
<1>1. ASSUME IndInv PROVE CachedAnswersLedgered
  <2>1. DOMAIN cache = Tasks \X Providers
    BY <1>1 DEF IndInv, TypeOK
  <2> QED
    BY <1>1, <2>1 DEF CachedAnswersLedgered, IndInv, CacheInv
<1> QED
  BY <1>1, Correct, PTL

-----------------------------------------------------------------------------
(* Admissions: the invariant of ReserveBudget.                             *)

\* The revision is committed, and the newest such.
Stands(r) == r \in DOMAIN policies /\ policies[r].state = "committed"
IsNewest(r) == Stands(r) /\ \A q \in DOMAIN policies : Stands(q) => q <= r

\* Row locks exclude each other, and a revision that a transaction inserted is
\* its own and pending.
LockInv ==
    /\ \A x, y \in Clients : x # y => txn[x].held \cap txn[y].held = {}
    /\ \A x \in Clients : txn[x].own # 0 =>
          txn[x].own \in DOMAIN policies /\ policies[txn[x].own].state = "pending"
    /\ \A x, y \in Clients : x # y /\ txn[x].own # 0 => txn[x].own # txn[y].own

\* A call between the reads of budgetStatus and its decision, not disturbed.
Reading(c) == run[c].todo \in {<<"reserved">>, <<"decide">>} /\ ~run[c].torn

\* It keeps the newest revision locked, the calls that are settled have not
\* cost more than it has read, and no more is reserved than it has read.
Settled(first) == {d \in CreatedIn(first, day) : ~Active(d)}
NewestInv == \A c \in Calls : Reading(c) => \E r \in txn[c].held : IsNewest(r)
UsedInv ==
    \A c \in Calls : Reading(c) =>
        /\ CostOf(Settled(day)) <= run[c].daily
        /\ CostOf(Settled(0)) <= run[c].monthly
ReservedInv ==
    \A c \in Calls : Reading(c) /\ run[c].todo = <<"decide">> =>
        AmountOf({d \in Calls : Active(d)}) <= run[c].reserved
DayInv == \A c \in Calls : call[c] # None => call[c].day <= day

AdmitInv == LockInv /\ NewestInv /\ UsedInv /\ ReservedInv /\ DayInv

-----------------------------------------------------------------------------
(* Sums of the next state.                                                 *)

\* The sums are sums of FiniteSums in the next state, too.
LEMMA SumsNext ==
    ASSUME NEW S \in SUBSET Calls
    PROVE  CostOf(S)' = SumOf(CallCosts', S) /\ AmountOf(S)' = SumOf(Amounts', S)
<1>1. \A T \in SUBSET Calls : CostOf(T) = SumOf(CallCosts, T) /\ AmountOf(T) = SumOf(Amounts, T)
  BY CostIsSum, AmountIsSum
<1>2. (\A T \in SUBSET Calls : CostOf(T) = SumOf(CallCosts, T) /\ AmountOf(T) = SumOf(Amounts, T))'
  BY <1>1, PTL
<1> QED
  BY <1>2

\* What the calls of T cost next is at most what those of S cost, if T has at
\* most one more and that has cost nothing.
LEMMA CostsLess ==
    ASSUME TypeOK, TypeOK', NEW S \in SUBSET Calls, NEW T \in SUBSET Calls, NEW x,
           \A d \in S : Finished(d), \A d \in T : Finished(d)',
           \A d \in T \ {x} : d \in S /\ call'[d].cost = call[d].cost,
           x \in T => call'[x].cost = 0 \/ (x \in S /\ call'[x].cost = call[x].cost)
    PROVE  CostOf(T)' <= CostOf(S)
<1>1. \A d \in S : CallCosts[d] \in Nat /\ CallCosts[d] = call[d].cost
  BY FinishedCost
<1>2. \A d \in T : CallCosts'[d] \in Nat /\ CallCosts'[d] = call'[d].cost
  <2> SUFFICES ASSUME NEW d \in T PROVE CallCosts'[d] \in Nat /\ CallCosts'[d] = call'[d].cost
    OBVIOUS
  <2>1. call'[d] \in CallRow
    BY DEF TypeOK, Finished
  <2> QED
    BY <2>1 DEF CallCosts, CallRow
<1>3. IsFiniteSet(S) /\ IsFiniteSet(T)
  BY NamesAssumption, FS_Subset
<1>4. CostOf(S) = SumOf(CallCosts, S) /\ CostOf(T)' = SumOf(CallCosts', T)
  BY CostIsSum, SumsNext
<1>5. PICK w, v : w = CallCosts' /\ v = CallCosts
  OBVIOUS
<1>6. CASE x \notin T \/ (x \in S /\ call'[x].cost = call[x].cost)
  <2>1. T \in SUBSET S /\ \A d \in T : w[d] \in Nat /\ w[d] <= v[d]
    BY <1>1, <1>2, <1>5, <1>6
  <2>2. \A d \in S : v[d] \in Nat
    BY <1>1, <1>5
  <2>3. SumOf(w, T) <= SumOf(v, S)
    BY <1>3, <2>1, <2>2, SumMonotone
  <2> QED
    BY <1>4, <1>5, <2>3
<1>7. CASE x \in T /\ call'[x].cost = 0
  <2>1. PICK R : R = T \ {x}
    OBVIOUS
  <2>2. R \in SUBSET S /\ \A d \in R : w[d] \in Nat /\ w[d] <= v[d]
    BY <1>1, <1>2, <1>5, <2>1
  <2>3. SumOf(w, R) <= SumOf(v, S)
    BY <1>1, <1>3, <1>5, <2>2, SumMonotone
  <2>4. SumOf(w, T) = w[x] + SumOf(w, R)
    BY <1>2, <1>3, <1>5, <1>7, <2>1, SumRemove
  <2>5. IsFiniteSet(R)
    BY <1>3, <2>1, FS_Subset
  <2>6. SumOf(w, R) \in Nat
    BY <2>2, <2>5, SumNat
  <2> QED
    BY <1>2, <1>4, <1>5, <1>7, <2>3, <2>4, <2>6
<1> QED
  BY <1>6, <1>7

-----------------------------------------------------------------------------
(* Steps that read nothing of the budget.                                  *)

\* Nobody is between the reads and the decision, or everybody who was is torn.
LEMMA SilentStep ==
    ASSUME LockInv', DayInv', \A d \in Calls : ~Reading(d)'
    PROVE  AdmitInv'
  BY DEF AdmitInv, NewestInv, UsedInv, ReservedInv

\* Who has read keeps what it has read and locked, and the settled calls have
\* not cost more.
LEMMA SettledLess ==
    ASSUME TypeOK, TypeOK', NEW x, NEW first \in Nat,
           resv' = resv, day' = day,
           \A d \in Calls \ {x} : call'[d] = call[d],
           x \in Calls /\ Finished(x)' /\ ~Active(x) => call'[x] = call[x] \/ call'[x].cost = 0
    PROVE  /\ CostOf(Settled(first))' <= CostOf(Settled(first))
           /\ CostOf(Settled(day))' <= CostOf(Settled(day))
<1>1. ASSUME NEW a
      PROVE  CostOf({d \in CreatedIn(a, day) : ~Active(d)})'
                <= CostOf({d \in CreatedIn(a, day) : ~Active(d)})
  <2>1. PICK S : S = {d \in CreatedIn(a, day) : ~Active(d)}
    OBVIOUS
  <2>2. PICK T : T = {d \in CreatedIn(a, day)' : ~Active(d)}
    OBVIOUS
  <2>3. T = {d \in CreatedIn(a, day) : ~Active(d)}'
    BY <2>2 DEF Active
  <2>4. S \in SUBSET Calls /\ T \in SUBSET Calls
    BY <2>1, <2>2 DEF CreatedIn
  <2>5. (\A d \in S : Finished(d)) /\ (\A d \in T : Finished(d)')
    BY <2>1, <2>2 DEF CreatedIn
  <2>6. \A d \in T \ {x} : d \in S /\ call'[d].cost = call[d].cost
    BY <2>1, <2>2, <2>4 DEF CreatedIn, Finished
  <2>7. x \in T => call'[x].cost = 0 \/ (x \in S /\ call'[x].cost = call[x].cost)
    BY <2>1, <2>2, <2>4, <2>5 DEF CreatedIn, Finished
  <2>8. CostOf(T)' <= CostOf(S)
    BY <2>4, <2>5, <2>6, <2>7, CostsLess
  <2>9. CostOf(T)' = CostOf({d \in CreatedIn(a, day) : ~Active(d)})'
    BY <2>3 DEF CostOf
  <2> QED
    BY <2>1, <2>8, <2>9
<1>2. PICK t : t = day
  OBVIOUS
<1>3. CostOf(Settled(t))' <= CostOf(Settled(t)) /\ CostOf(Settled(first))' <= CostOf(Settled(first))
  BY <1>1 DEF Settled
<1>4. Settled(day) = Settled(t) /\ Settled(day)' = Settled(t)'
  BY <1>2 DEF Settled
<1> QED
  BY <1>3, <1>4 DEF CostOf

LEMMA SettledNat ==
    ASSUME TypeOK, NEW first \in Nat
    PROVE  CostOf(Settled(first)) \in Nat /\ CostOf(Settled(day)) \in Nat
<1>1. Settled(first) \in SUBSET {c \in Calls : Finished(c)} /\ Settled(day) \in SUBSET {c \in Calls : Finished(c)}
  BY DEF Settled, CreatedIn
<1> QED
  BY <1>1, FinishedCost

LEMMA SettledNatNext ==
    TypeOK' => CostOf(Settled(0))' \in Nat /\ CostOf(Settled(day))' \in Nat
<1>1. TypeOK => CostOf(Settled(0)) \in Nat /\ CostOf(Settled(day)) \in Nat
  BY SettledNat
<1>2. (TypeOK => CostOf(Settled(0)) \in Nat /\ CostOf(Settled(day)) \in Nat)'
  BY <1>1, PTL
<1> QED
  BY <1>2

LEMMA SameAmounts ==
    ASSUME resv' = resv
    PROVE  AmountOf({d \in Calls : Active(d)})' = AmountOf({d \in Calls : Active(d)})
<1>1. PICK S \in SUBSET Calls : S = {d \in Calls : Active(d)}
  OBVIOUS
<1>2. S = {d \in Calls : Active(d)}'
  BY <1>1 DEF Active
<1>3. AmountOf(S)' = SumOf(Amounts', S) /\ AmountOf(S) = SumOf(Amounts, S)
  BY SumsNext, AmountIsSum
<1>4. Amounts' = Amounts
  BY DEF Amounts
<1> QED
  BY <1>1, <1>2, <1>3, <1>4 DEF AmountOf

LEMMA CalmStep ==
    ASSUME IndInv, TypeOK', AdmitInv, LockInv', DayInv', NEW x,
           \A d \in Calls : Reading(d)' => run'[d] = run[d] /\ txn'[d].held = txn[d].held,
           \A r : IsNewest(r) => IsNewest(r)',
           resv' = resv, day' = day,
           \A d \in Calls \ {x} : call'[d] = call[d],
           x \in Calls /\ Finished(x)' /\ ~Active(x) => call'[x] = call[x] \/ call'[x].cost = 0
    PROVE  AdmitInv'
<1>1. ASSUME NEW d \in Calls, Reading(d)'
      PROVE  /\ Reading(d) /\ run'[d] = run[d] /\ txn'[d].held = txn[d].held
             /\ run[d] \in Invocation
  BY <1>1 DEF Reading, IndInv, TypeOK
<1>2. NewestInv'
  BY <1>1 DEF NewestInv, AdmitInv
<1>3. UsedInv'
  <2>1. /\ CostOf(Settled(0))' <= CostOf(Settled(0))
        /\ CostOf(Settled(day))' <= CostOf(Settled(day))
    BY SettledLess DEF IndInv
  <2>2. /\ CostOf(Settled(0)) \in Nat /\ CostOf(Settled(day)) \in Nat
        /\ CostOf(Settled(0))' \in Nat /\ CostOf(Settled(day))' \in Nat
    BY SettledNat, SettledNatNext DEF IndInv
  <2> SUFFICES ASSUME NEW d \in Calls, Reading(d)'
               PROVE  CostOf(Settled(day))' <= run'[d].daily /\ CostOf(Settled(0))' <= run'[d].monthly
    BY DEF UsedInv
  <2>3. run'[d] = run[d] /\ run[d].daily \in Nat /\ run[d].monthly \in Nat
    BY <1>1 DEF Invocation
  <2>4. CostOf(Settled(day)) <= run[d].daily /\ CostOf(Settled(0)) <= run[d].monthly
    BY <1>1 DEF AdmitInv, UsedInv
  <2> QED
    BY <2>1, <2>2, <2>3, <2>4
<1>4. ReservedInv'
  <2>1. AmountOf({d \in Calls : Active(d)})' = AmountOf({d \in Calls : Active(d)})
    BY SameAmounts
  <2> QED
    BY <1>1, <2>1 DEF ReservedInv, AdmitInv
<1> QED
  BY <1>2, <1>3, <1>4 DEF AdmitInv

-----------------------------------------------------------------------------
(* The policy table and its locks.                                         *)

LEMMA LocksKept ==
    ASSUME LockInv, policies' = policies, \A x \in Clients : txn'[x].held = txn[x].held /\ txn'[x].own = txn[x].own
    PROVE  LockInv' /\ \A r : IsNewest(r) => IsNewest(r)'
  BY DEF LockInv, IsNewest, Stands

LEMMA AppendRows ==
    ASSUME NEW s \in Seq(Policy), NEW row
    PROVE  /\ DOMAIN Append(s, row) = 1..(Len(s) + 1) /\ Append(s, row)[Len(s) + 1] = row
           /\ \A r \in 1..Len(s) : Append(s, row)[r] = s[r]
  OBVIOUS

\* What becomes of the transaction of x, those of others keep their revisions.
LEMMA OthersPending ==
    ASSUME IndInv, LockInv, NEW x \in Clients, NEW y \in Clients \ {x}, txn[y].own # 0, NEW rows,
           \/ rows = policies
           \/ rows = Committed(policies, txn[x].own)
           \/ rows = Voided(policies, txn[x].own)
           \/ \E row : rows = Append(policies, row)
    PROVE  txn[y].own \in DOMAIN rows /\ rows[txn[y].own].state = "pending"
<1>1. policies \in Seq(Policy) /\ Len(policies) \in Nat /\ DOMAIN policies = 1..Len(policies)
  BY DEF IndInv, TypeOK
<1>2. /\ txn[y].own \in DOMAIN policies /\ policies[txn[y].own].state = "pending"
      /\ txn[y].own # txn[x].own
  BY DEF LockInv
<1>3. CASE rows = policies
  BY <1>2, <1>3
<1>4. CASE rows = Committed(policies, txn[x].own)
  BY <1>2, <1>4 DEF Committed
<1>5. CASE rows = Voided(policies, txn[x].own)
  BY <1>2, <1>5 DEF Voided
<1>6. CASE \E row : rows = Append(policies, row)
  <2>1. PICK row : rows = Append(policies, row)
    BY <1>6
  <2>2. DOMAIN rows = 1..(Len(policies) + 1)
    BY <1>1, <2>1, AppendRows
  <2>3. rows[txn[y].own] = policies[txn[y].own]
    <3>1. PICK r \in 1..Len(policies) : r = txn[y].own
      BY <1>1, <1>2
    <3>2. Append(policies, row)[r] = policies[r]
      BY <1>1, AppendRows
    <3> QED
      BY <2>1, <3>1, <3>2
  <2>4. txn[y].own \in 1..(Len(policies) + 1)
    BY <1>1, <1>2
  <2> QED
    BY <1>1, <1>2, <2>2, <2>3, <2>4
<1> QED
  BY <1>3, <1>4, <1>5, <1>6

\* A transaction ends; its revision may be committed or given up, or it
\* committed a new one at once.
LEMMA Release ==
    ASSUME IndInv, LockInv, NEW x \in Clients, txn' = [txn EXCEPT ![x] = NoTransaction],
           \/ policies' = policies
           \/ policies' = Committed(policies, txn[x].own)
           \/ policies' = Voided(policies, txn[x].own)
           \/ \E row : policies' = Append(policies, row)
    PROVE  LockInv'
<1>1. /\ txn'[x].held = {} /\ txn'[x].own = 0
      /\ \A y \in Clients \ {x} : txn'[y] = txn[y]
  BY DEF IndInv, TypeOK, NoTransaction
<1>2. policies \in Seq(Policy) /\ Len(policies) \in Nat /\ DOMAIN policies = 1..Len(policies)
  BY DEF IndInv, TypeOK
<1>3. ASSUME NEW y \in Clients \ {x}, txn[y].own # 0
      PROVE  txn[y].own \in DOMAIN policies' /\ policies'[txn[y].own].state = "pending"
  BY <1>3, OthersPending
<1>4. \A y, z \in Clients : y # z => txn'[y].held \cap txn'[z].held = {}
  BY <1>1 DEF LockInv
<1>5. \A y \in Clients : txn'[y].own # 0 =>
          txn'[y].own \in DOMAIN policies' /\ policies'[txn'[y].own].state = "pending"
  BY <1>1, <1>3
<1>6. \A y, z \in Clients : y # z /\ txn'[y].own # 0 => txn'[y].own # txn'[z].own
  BY <1>1 DEF LockInv
<1> QED
  BY <1>4, <1>5, <1>6 DEF LockInv

\* Giving up a pending revision leaves the newest one the newest.
LEMMA VoidedNewest ==
    ASSUME IndInv, LockInv, NEW x \in Clients, policies' = Voided(policies, txn[x].own)
    PROVE  \A r : IsNewest(r) => IsNewest(r)'
<1>1. CASE txn[x].own = 0
  BY <1>1 DEF Voided, IsNewest, Stands
<1>2. CASE txn[x].own # 0
  <2>1. txn[x].own \in DOMAIN policies /\ policies[txn[x].own].state = "pending"
    BY <1>2 DEF LockInv
  <2>2. policies' = [policies EXCEPT ![txn[x].own] = [policies[txn[x].own] EXCEPT !.state = "void"]]
    BY <1>2 DEF Voided
  <2>3. DOMAIN policies' = DOMAIN policies
    BY <2>2
  <2>4. [policies[txn[x].own] EXCEPT !.state = "void"].state = "void"
    <3>1. policies[txn[x].own] \in Policy
      BY <2>1 DEF IndInv, TypeOK
    <3> QED
      BY <3>1 DEF Policy
  <2>5. \A r \in DOMAIN policies :
          policies'[r].state = "committed" <=> policies[r].state = "committed"
    BY <2>1, <2>2, <2>4
  <2> QED
    BY <2>3, <2>5 DEF IsNewest, Stands
<1> QED
  BY <1>1, <1>2

\* So does a new one that is pending.
LEMMA PendingNewest ==
    ASSUME IndInv, NEW row, row.state = "pending", policies' = Append(policies, row)
    PROVE  \A r : IsNewest(r) => IsNewest(r)'
<1>1. policies \in Seq(Policy) /\ Len(policies) \in Nat /\ DOMAIN policies = 1..Len(policies)
  BY DEF IndInv, TypeOK
<1>2. /\ DOMAIN policies' = 1..(Len(policies) + 1) /\ policies'[Len(policies) + 1] = row
      /\ \A r \in 1..Len(policies) : policies'[r] = policies[r]
  BY <1>1, AppendRows
<1> QED
  BY <1>1, <1>2 DEF IsNewest, Stands

\* A transaction gets the lock it has asked for, and may insert a revision.
LEMMA Acquire ==
    ASSUME IndInv, LockInv, NEW x \in Clients, NEW q, txn' = [txn EXCEPT ![x] = q],
           LockFree(x), q.held \subseteq txn[x].held \cup {txn[x].want},
           \/ policies' = policies /\ q.own \in {0, txn[x].own}
           \/ /\ q.own = Len(policies) + 1
              /\ \E row : row.state = "pending" /\ policies' = Append(policies, row)
    PROVE  LockInv'
<1>1. txn'[x] = q /\ \A y \in Clients \ {x} : txn'[y] = txn[y]
  BY DEF IndInv, TypeOK
<1>2. policies \in Seq(Policy) /\ Len(policies) \in Nat /\ DOMAIN policies = 1..Len(policies)
  BY DEF IndInv, TypeOK
<1>3. \A y, z \in Clients : y # z => txn'[y].held \cap txn'[z].held = {}
  BY <1>1 DEF LockInv, LockFree
<1>4. ASSUME NEW y \in Clients \ {x}, txn[y].own # 0
      PROVE  /\ txn[y].own \in DOMAIN policies' /\ policies'[txn[y].own].state = "pending"
             /\ txn[y].own # q.own
  <2>1. \/ policies' = policies \/ \E row : policies' = Append(policies, row)
    OBVIOUS
  <2>2. txn[y].own \in DOMAIN policies /\ txn[y].own # txn[x].own
    BY <1>4 DEF LockInv
  <2>3. txn[y].own # q.own
    BY <1>2, <1>4, <2>2
  <2>4. txn[y].own \in DOMAIN policies' /\ policies'[txn[y].own].state = "pending"
    BY <1>4, <2>1, OthersPending
  <2> QED
    BY <2>3, <2>4
<1>5. q.own # 0 => q.own \in DOMAIN policies' /\ policies'[q.own].state = "pending"
  <2>1. CASE policies' = policies /\ q.own \in {0, txn[x].own}
    BY <2>1 DEF LockInv
  <2>2. CASE /\ q.own = Len(policies) + 1
             /\ \E row : row.state = "pending" /\ policies' = Append(policies, row)
    <3>1. PICK row : row.state = "pending" /\ policies' = Append(policies, row)
      BY <2>2
    <3>2. DOMAIN policies' = 1..(Len(policies) + 1)
      BY <1>2, <3>1, AppendRows
    <3>3. policies'[Len(policies) + 1] = row
      BY <1>2, <3>1, AppendRows
    <3>4. q.own \in DOMAIN policies'
      <4>1. PICK n \in Nat : n = Len(policies)
        BY <1>2
      <4>2. n + 1 \in 1..(n + 1)
        OBVIOUS
      <4>3. q.own = n + 1 /\ DOMAIN policies' = 1..(n + 1)
        BY <2>2, <3>2, <4>1
      <4> QED
        BY <4>2, <4>3
    <3>5. policies'[q.own] = row
      BY <2>2, <3>3
    <3> QED
      BY <3>1, <3>4, <3>5
  <2> QED
    BY <2>1, <2>2
<1>6. \A y \in Clients : txn'[y].own # 0 =>
          txn'[y].own \in DOMAIN policies' /\ policies'[txn'[y].own].state = "pending"
  BY <1>1, <1>4, <1>5
<1>7. \A y, z \in Clients : y # z /\ txn'[y].own # 0 => txn'[y].own # txn'[z].own
  BY <1>1, <1>4 DEF LockInv
<1> QED
  BY <1>3, <1>6, <1>7 DEF LockInv

LEMMA DayKept ==
    ASSUME DayInv, day' = day, \A d \in Calls : call'[d] # None =>
              \/ call[d] # None /\ call'[d].day = call[d].day
              \/ call'[d].day = day
    PROVE  day \in Nat => DayInv'
  BY DEF DayInv

-----------------------------------------------------------------------------
(* Who reads.                                                              *)

LEMMA OneMoves ==
    ASSUME IndInv, NEW c \in Calls, NEW j, run' = [run EXCEPT ![c] = j],
           j.todo \notin {<<"reserved">>, <<"decide">>}
    PROVE  \A d \in Calls : Reading(d)' => run'[d] = run[d] /\ d # c
  BY DEF IndInv, TypeOK, Reading

LEMMA TornHeads ==
    /\ Head(<<"reserved">> \o <<"start">>) = "reserved"
    /\ Head(<<"decide">> \o <<"start">>) = "decide"
<1>1. {<<"reserved">>, <<"decide">>, <<"start">>} \subseteq Seq(Steps)
  BY DEF Steps
<1> QED
  BY <1>1, ConcatProperties

LEMMA TearSilences ==
    ASSUME NEW runs \in [Calls -> Invocation], NEW x, run' = Tear(runs, x),
           x \in Calls => runs[x].todo \notin {<<"reserved">>, <<"decide">>}
    PROVE  \A d \in Calls : ~Reading(d)'
<1> SUFFICES ASSUME NEW d \in Calls, Reading(d)' PROVE FALSE
  OBVIOUS
<1>1. run'[d].todo = runs[d].todo
  BY TearType DEF Same
<1>2. runs[d].todo \in {<<"reserved">>, <<"decide">>} /\ d # x
  BY <1>1 DEF Reading
<1>3. run'[d] = [runs[d] EXCEPT !.torn = TRUE]
  BY <1>2, TornHeads DEF Tear
<1>4. runs[d] \in Invocation
  OBVIOUS
<1>5. run'[d].torn = TRUE
  BY <1>3, <1>4 DEF Invocation
<1> QED
  BY <1>5 DEF Reading

-----------------------------------------------------------------------------
(* One lemma per action.                                                   *)

\* Call c moves on to a step that does not read the budget, and writes at most
\* its ledger row.
LEMMA PlainAdmit ==
    ASSUME IndInv, TypeOK', AdmitInv, NEW c \in Calls, NEW j, run' = [run EXCEPT ![c] = j],
           j.todo \notin {<<"reserved">>, <<"decide">>},
           UNCHANGED <<policies, resv, day>>,
           \A y \in Clients : txn'[y].held = txn[y].held /\ txn'[y].own = txn[y].own,
           \A d \in Calls \ {c} : call'[d] = call[d],
           call'[c] = call[c] \/ call'[c].day = day \/ (call[c] # None /\ call'[c].day = call[c].day),
           Finished(c)' /\ ~Active(c) => call'[c] = call[c] \/ call'[c].cost = 0
    PROVE  AdmitInv'
<1>1. LockInv' /\ \A r : IsNewest(r) => IsNewest(r)'
  BY LocksKept DEF AdmitInv
<1>2. day \in Nat
  BY TimeAssumption DEF IndInv, TypeOK, Days
<1>3. DayInv'
  BY <1>2, DayKept DEF AdmitInv
<1>4. \A d \in Calls : Reading(d)' => run'[d] = run[d] /\ txn'[d].held = txn[d].held
  BY OneMoves DEF Clients
<1> QED
  BY <1>1, <1>3, <1>4, CalmStep

LEMMA DoingTodo ==
    ASSUME NEW i \in Invocation, NEW t
    PROVE  Doing(i, t).todo = t
  BY ReturnedType DEF Doing, Invocation

LEMMA ThenAdmit ==
    ASSUME IndInv, TypeOK', AdmitInv, NEW c \in Calls, NEW t, Then(c, t),
           t \notin {<<"reserved">>, <<"decide">>},
           UNCHANGED <<policies, resv, day>>,
           \A y \in Clients : txn'[y].held = txn[y].held /\ txn'[y].own = txn[y].own,
           \A d \in Calls \ {c} : call'[d] = call[d],
           call'[c] = call[c] \/ call'[c].day = day \/ (call[c] # None /\ call'[c].day = call[c].day),
           Finished(c)' /\ ~Active(c) => call'[c] = call[c] \/ call'[c].cost = 0
    PROVE  AdmitInv'
<1>1. PICK j : j = Doing(run[c], t)
  OBVIOUS
<1>2. run' = [run EXCEPT ![c] = j]
  BY <1>1 DEF Then
<1>3. j.todo = t
  BY <1>1, Typed, DoingTodo
<1> QED
  BY <1>2, <1>3, PlainAdmit

LEMMA StartAdmit ==
    ASSUME IndInv, TypeOK', AdmitInv, NEW c \in Calls, NEW t \in Tasks,
           NEW s \in Sessions \cup {None}, Start(c, t, s)
    PROVE  AdmitInv'
<1>1. PICK j : run' = [run EXCEPT ![c] = j] /\ j.todo = <<"cache">>
  <2>1. PICK routes : run' = [run EXCEPT ![c] = [@ EXCEPT !.todo = <<"cache">>, !.task = t,
                                              !.session = s, !.routes = routes,
                                              !.route = Min(routes)]]
    BY DEF Start
  <2>2. run[c] \in Invocation
    BY Typed
  <2>3. PICK j : j = [run[c] EXCEPT !.todo = <<"cache">>, !.task = t, !.session = s,
                                    !.routes = routes, !.route = Min(routes)]
    OBVIOUS
  <2>4. j.todo = <<"cache">>
    BY <2>2, <2>3 DEF Invocation
  <2> QED
    BY <2>1, <2>3, <2>4
<1>2. PICK row : row = [status |-> "started", cost |-> 0, day |-> day]
  OBVIOUS
<1>3. call' = [call EXCEPT ![c] = row] /\ UNCHANGED <<policies, resv, txn, day>>
  BY <1>2 DEF Start
<1>4. call'[c] = row /\ \A d \in Calls \ {c} : call'[d] = call[d]
  BY <1>3 DEF IndInv, TypeOK
<1>5. row.status = "started" /\ row.day = day
  BY <1>2
<1>6. ~Finished(c)' /\ call'[c].day = day
  BY <1>4, <1>5 DEF Finished
<1>7. <<"cache">> \notin {<<"reserved">>, <<"decide">>}
  OBVIOUS
<1> QED
  BY <1>1, <1>3, <1>4, <1>6, <1>7, PlainAdmit

LEMMA CacheHitAdmit ==
    ASSUME IndInv, TypeOK', AdmitInv, NEW c \in Calls, NEW p \in Providers, CacheHit(c, p)
    PROVE  AdmitInv'
<1>1. PICK i : i = [run[c] EXCEPT !.answer = p]
  OBVIOUS
<1>2. PICK j : j = Returned(i)
  OBVIOUS
<1>3. i \in Invocation /\ run[c] \in Invocation
  BY <1>1, Typed DEF Invocation
<1>4. j.todo = <<>>
  BY <1>2, <1>3, ReturnedType
<1>5. run' = [run EXCEPT ![c] = j] /\ UNCHANGED <<policies, resv, txn, day>>
  BY <1>1, <1>2 DEF CacheHit
<1>6. run[c].todo = <<"cache">>
  BY Typed, PlanHead DEF CacheHit, At
<1>7. call[c] \in CallRow /\ call[c] # None
  BY <1>6, RowThere
<1>8. call' = [call EXCEPT ![c] = [call[c] EXCEPT !.status = "cache_hit"]]
  BY DEF CacheHit
<1>9. call'[c] = [call[c] EXCEPT !.status = "cache_hit"] /\ \A d \in Calls \ {c} : call'[d] = call[d]
  BY <1>8 DEF IndInv, TypeOK
<1>10. call'[c].day = call[c].day /\ call'[c].status = "cache_hit"
  BY <1>7, <1>9 DEF CallRow
<1>11. ~Finished(c)'
  BY <1>10 DEF Finished
<1>12. <<>> \notin {<<"reserved">>, <<"decide">>}
  OBVIOUS
<1> QED
  BY <1>4, <1>5, <1>7, <1>9, <1>10, <1>11, <1>12, PlainAdmit

LEMMA WantingKeeps ==
    ASSUME IndInv, NEW x \in Clients, txn' = Wanting(x)
    PROVE  \A y \in Clients : txn'[y].held = txn[y].held /\ txn'[y].own = txn[y].own
<1>1. txn[x] \in Transaction /\ txn \in [Clients -> Transaction]
  BY DEF IndInv, TypeOK
<1>2. txn' = [txn EXCEPT ![x] = [txn[x] EXCEPT !.want = Latest(x)]]
  BY DEF Wanting
<1>3. PICK q : q = [txn[x] EXCEPT !.want = Latest(x)]
  OBVIOUS
<1>4. q.held = txn[x].held /\ q.own = txn[x].own
  BY <1>1, <1>3 DEF Transaction
<1> QED
  BY <1>1, <1>2, <1>3, <1>4

LEMMA CacheMissAdmit ==
    ASSUME IndInv, TypeOK', AdmitInv, NEW c \in Calls, CacheMiss(c)
    PROVE  AdmitInv'
<1>1. UNCHANGED <<policies, call, resv, day>>
  BY DEF CacheMiss
<1>2. \A y \in Clients : txn'[y].held = txn[y].held /\ txn'[y].own = txn[y].own
  BY WantingKeeps, Typed DEF CacheMiss
<1>3. PICK t : t \in {<<"activate">>, <<"failCall">>} /\ Then(c, t)
  BY DEF CacheMiss
<1>4. t \notin {<<"reserved">>, <<"decide">>}
  BY <1>3
<1> QED
  BY <1>1, <1>2, <1>3, <1>4, ThenAdmit

LEMMA MetricsBeginAdmit ==
    ASSUME IndInv, TypeOK', AdmitInv, NEW c \in Calls, MetricsBegin(c)
    PROVE  AdmitInv'
<1>1. UNCHANGED <<policies, call, resv, day>> /\ Then(c, <<"metricsTx">>)
  BY DEF MetricsBegin
<1>2. \A y \in Clients : txn'[y].held = txn[y].held /\ txn'[y].own = txn[y].own
  BY WantingKeeps, Typed DEF MetricsBegin
<1>3. <<"metricsTx">> \notin {<<"reserved">>, <<"decide">>}
  OBVIOUS
<1> QED
  BY <1>1, <1>2, <1>3, ThenAdmit

LEMMA AttemptAdmit ==
    ASSUME IndInv, TypeOK', AdmitInv, NEW c \in Calls, NEW outcome, NEW cost,
           Attempt(c, outcome, cost)
    PROVE  AdmitInv'
<1>1. PICK j : j = [run[c] EXCEPT !.todo = <<"finishAttempt">>, !.outcome = outcome,
                                  !.total = run[c].total + cost]
  OBVIOUS
<1>2. run[c] \in Invocation
  BY Typed
<1>3. j.todo = <<"finishAttempt">>
  BY <1>1, <1>2 DEF Invocation
<1>4. run' = [run EXCEPT ![c] = j] /\ UNCHANGED <<policies, call, resv, txn, day>>
  BY <1>1 DEF Attempt
<1>5. j.todo \notin {<<"reserved">>, <<"decide">>}
  BY <1>3
<1> QED
  BY <1>4, <1>5, PlainAdmit

\* What follows a step of the list is no read of the budget.
LEMMA RestElsewhere ==
    ASSUME NEW t \in Plans, t # <<>>, Head(t) \notin {"start", "cache", "activate", "used", "reserved"}
    PROVE  Tail(t) \notin {<<"reserved">>, <<"decide">>}
<1>1. t \in {<<"decide">>, <<"failCall">>} \cup Holding \cup Leaving
  BY DEF Plans, BeforeBudget
<1>2. CASE t \in {ToPin, ToFinish, ToPut, ToSettle} \cup Failing \cup Failed
  <2>1. Tail(t) \in {ToFinish, ToPut, ToSettle, <<"metrics">>, <<"settle">>, <<>>,
                    <<"settle", "failSession">>, <<"failSession">>, <<"failCall", "settle">>}
    BY <1>2, PlanTail DEF Failing, Failed
  <2>2. {<<"reserved">>, <<"decide">>} \cap
          {ToFinish, ToPut, ToSettle, <<"metrics">>, <<"settle">>, <<>>,
           <<"settle", "failSession">>, <<"failSession">>, <<"failCall", "settle">>} = {}
    BY DEF ToFinish, ToPut, ToSettle
  <2>3. PICK u : u = Tail(t)
    OBVIOUS
  <2> QED
    BY <2>1, <2>2, <2>3
<1>3. CASE t \in {<<"decide">>, <<"failCall">>} \cup Calling \cup Leaving
  <2>1. PICK a : t = <<a>>
    BY <1>3 DEF Calling, Leaving
  <2>2. Tail(t) = <<>>
    BY <2>1
  <2> QED
    BY <2>2
<1> QED
  BY <1>1, <1>2, <1>3 DEF Holding

LEMMA FinishAttemptAdmit ==
    ASSUME IndInv, TypeOK', AdmitInv, NEW c \in Calls, FinishAttempt(c)
    PROVE  AdmitInv'
<1>1. UNCHANGED <<policies, call, resv, txn, day>>
  BY DEF FinishAttempt
<1>2. CASE Then(c, AfterSuccess(c)) \/ Then(c, AfterFailure(c))
  <2>1. PICK t : t \in {AfterSuccess(c), AfterFailure(c)} /\ Then(c, t)
    BY <1>2
  <2>2. t \notin {<<"reserved">>, <<"decide">>}
    BY <2>1, AfterAttempt DEF ToPin, ToFinish
  <2> QED
    BY <1>1, <2>1, <2>2, ThenAdmit
<1>3. CASE run' = [run EXCEPT ![c].todo = <<"attempt">>, ![c].outcome = "none",
                              ![c].route = Min(RoutesLeft(c))]
  <2>1. PICK j : j = [run[c] EXCEPT !.todo = <<"attempt">>, !.outcome = "none",
                                    !.route = Min(RoutesLeft(c))]
    OBVIOUS
  <2>2. run[c] \in Invocation
    BY Typed
  <2>3. j.todo = <<"attempt">>
    BY <2>1, <2>2 DEF Invocation
  <2>4. run' = [run EXCEPT ![c] = j]
    BY <1>3, <2>1, <2>2 DEF IndInv, TypeOK
  <2>5. j.todo \notin {<<"reserved">>, <<"decide">>}
    BY <2>3
  <2> QED
    BY <1>1, <2>4, <2>5, PlainAdmit
<1> QED
  BY <1>2, <1>3 DEF FinishAttempt

LEMMA PinSessionAdmit ==
    ASSUME IndInv, TypeOK', AdmitInv, NEW c \in Calls, PinSession(c)
    PROVE  AdmitInv'
<1>1. UNCHANGED <<policies, call, resv, txn, day>>
  BY DEF PinSession
<1>2. PICK t : t \in {Rest(c), PinConflict} /\ Then(c, t)
  BY DEF PinSession
<1>3. run[c].todo \in Plans /\ run[c].todo # <<>> /\ Head(run[c].todo) = "pin"
  BY Typed DEF PinSession, At
<1>4. Rest(c) \notin {<<"reserved">>, <<"decide">>}
  BY <1>3, RestElsewhere DEF Rest
<1>5. t \notin {<<"reserved">>, <<"decide">>}
  BY <1>2, <1>4 DEF PinConflict
<1> QED
  BY <1>1, <1>2, <1>5, ThenAdmit

LEMMA PutCacheAdmit ==
    ASSUME IndInv, TypeOK', AdmitInv, NEW c \in Calls, PutCache(c)
    PROVE  AdmitInv'
<1>1. UNCHANGED <<policies, call, resv, txn, day>> /\ Then(c, Rest(c))
  BY DEF PutCache
<1>2. run[c].todo \in Plans /\ run[c].todo # <<>> /\ Head(run[c].todo) = "put"
  BY Typed DEF PutCache, At
<1>3. Rest(c) \notin {<<"reserved">>, <<"decide">>}
  BY <1>2, RestElsewhere DEF Rest
<1> QED
  BY <1>1, <1>3, ThenAdmit

LEMMA FailSessionAdmit ==
    ASSUME IndInv, TypeOK', AdmitInv, NEW c \in Calls, FailSession(c)
    PROVE  AdmitInv'
<1>1. UNCHANGED <<policies, call, resv, txn, day>> /\ Then(c, Rest(c))
  BY DEF FailSession
<1>2. run[c].todo \in Plans /\ run[c].todo # <<>> /\ Head(run[c].todo) = "failSession"
  BY Typed DEF FailSession, At
<1>3. Rest(c) \notin {<<"reserved">>, <<"decide">>}
  BY <1>2, RestElsewhere DEF Rest
<1> QED
  BY <1>1, <1>3, ThenAdmit

\* A call that finishes without an active reservation has cost nothing.
LEMMA FinishAdmit ==
    ASSUME IndInv, TypeOK', AdmitInv, NEW c \in Calls, FinishSucceeded(c) \/ FinishFailed(c)
    PROVE  AdmitInv'
<1>1. UNCHANGED <<policies, resv, txn, day>> /\ Then(c, Rest(c))
  BY DEF FinishSucceeded, FinishFailed
<1>2. /\ run[c].todo \in Plans /\ run[c].todo # <<>>
      /\ Head(run[c].todo) \in {"finish", "finishFailed", "failCall"}
  BY Typed DEF FinishSucceeded, FinishFailed, At
<1>3. Rest(c) \notin {<<"reserved">>, <<"decide">>}
  BY <1>2, RestElsewhere DEF Rest
<1>4. run[c].todo \in Holding \cup {<<"failCall">>} /\ run[c].todo # <<"start">>
  BY <1>2, PlanHead DEF Holding, Failing, ToFinish
<1>5. call[c] \in CallRow /\ call[c] # None
  BY <1>4, RowThere
<1>6. PICK status : call' = [call EXCEPT ![c].status = status, ![c].cost = run[c].total]
  BY DEF FinishSucceeded, FinishFailed
<1>7. PICK row : row = [call[c] EXCEPT !.status = status, !.cost = run[c].total]
  OBVIOUS
<1>8. row.day = call[c].day /\ row.cost = run[c].total
  BY <1>5, <1>7 DEF CallRow
<1>9. call' = [call EXCEPT ![c] = row]
  BY <1>6, <1>7 DEF IndInv, TypeOK
<1>10. call'[c] = row /\ \A d \in Calls \ {c} : call'[d] = call[d]
  BY <1>9 DEF IndInv, TypeOK
<1>11. ~Active(c) => call'[c].cost = 0
  <2>1. SpendInv(run[c], call[c], resv[c])
    BY Typed
  <2>2. run[c].todo \in Holding => Active(c)
    BY <2>1 DEF SpendInv, Holds, Active
  <2>3. run[c].todo = <<"failCall">> => run[c].total = 0
    BY <2>1 DEF SpendInv, BeforeBudget
  <2> QED
    BY <1>4, <1>8, <1>10, <2>2, <2>3
<1> QED
  BY <1>1, <1>3, <1>5, <1>8, <1>10, <1>11, ThenAdmit

-----------------------------------------------------------------------------
(* The transactions on the policy table.                                   *)

\* A revision that is inserted is pending at first.
LEMMA SuccessorPending ==
    ASSUME NEW row
    PROVE  Successor(row).state = "pending"
  BY DEF Successor, Enforcing

LEMMA ReserveActivateAdmit ==
    ASSUME IndInv, TypeOK', AdmitInv, NEW c \in Calls, ReserveActivate(c)
    PROVE  AdmitInv'
<1>1. PICK row : row = policies[txn[c].want]
  OBVIOUS
<1>2. PICK own : own = IF Due(row) THEN Len(policies) + 1 ELSE 0
  OBVIOUS
<1>3. PICK q : q = [want |-> IF Due(row) THEN own ELSE Latest(c), held |-> {txn[c].want}, own |-> own]
  OBVIOUS
<1>4. txn' = [txn EXCEPT ![c] = q] /\ q.held = {txn[c].want} /\ q.own = own
  BY <1>1, <1>2, <1>3 DEF ReserveActivate
<1>5. policies' = IF Due(row) THEN Append(policies, Successor(row)) ELSE policies
  BY <1>1 DEF ReserveActivate
<1>6. LockFree(c) /\ Then(c, <<"used">>) /\ UNCHANGED <<call, resv, day>>
  BY DEF ReserveActivate
<1>7. c \in Clients
  BY Typed
<1>8. /\ q.held \subseteq txn[c].held \cup {txn[c].want}
      /\ \/ policies' = policies /\ q.own \in {0, txn[c].own}
         \/ /\ q.own = Len(policies) + 1
            /\ \E r : r.state = "pending" /\ policies' = Append(policies, r)
  BY <1>2, <1>4, <1>5, SuccessorPending
<1>9. LockInv'
  BY <1>4, <1>6, <1>7, <1>8, Acquire DEF AdmitInv
<1>10. \A r : IsNewest(r) => IsNewest(r)'
  <2>1. CASE policies' = policies
    BY <2>1 DEF IsNewest, Stands
  <2>2. CASE policies' = Append(policies, Successor(row))
    BY <2>2, SuccessorPending, PendingNewest
  <2> QED
    BY <1>5, <2>1, <2>2
<1>11. DayInv'
  <2>1. day \in Nat
    BY TimeAssumption DEF IndInv, TypeOK, Days
  <2> QED
    BY <1>6, <2>1, DayKept DEF AdmitInv
<1>12. PICK j : j = Doing(run[c], <<"used">>)
  OBVIOUS
<1>13. run' = [run EXCEPT ![c] = j] /\ j.todo = <<"used">>
  BY <1>6, <1>12, Typed, DoingTodo DEF Then
<1>14. j.todo \notin {<<"reserved">>, <<"decide">>}
  BY <1>13
<1>15. \A d \in Calls : Reading(d)' => run'[d] = run[d] /\ d # c
  BY <1>13, <1>14, OneMoves
<1>16. \A d \in Calls : Reading(d)' => run'[d] = run[d] /\ txn'[d].held = txn[d].held
  BY <1>4, <1>15 DEF IndInv, TypeOK, Clients
<1> QED
  BY <1>6, <1>9, <1>10, <1>11, <1>16, CalmStep

\* An open transaction rolls back.
LEMMA RollBackAdmit ==
    ASSUME IndInv, TypeOK', AdmitInv, NEW c \in Calls, NEW j, run' = [run EXCEPT ![c] = j],
           j.todo \notin {<<"reserved">>, <<"decide">>},
           policies' = Voided(policies, txn[c].own),
           txn' = [txn EXCEPT ![c] = NoTransaction],
           UNCHANGED <<call, resv, day>>
    PROVE  AdmitInv'
<1>1. c \in Clients /\ day \in Nat
  BY Typed, TimeAssumption DEF IndInv, TypeOK, Days
<1>2. LockInv'
  BY <1>1, Release DEF AdmitInv
<1>3. \A r : IsNewest(r) => IsNewest(r)'
  BY <1>1, VoidedNewest DEF AdmitInv
<1>4. DayInv'
  BY <1>1, DayKept DEF AdmitInv
<1>5. \A d \in Calls : Reading(d)' => run'[d] = run[d] /\ d # c
  BY OneMoves
<1>6. \A d \in Calls : Reading(d)' => run'[d] = run[d] /\ txn'[d].held = txn[d].held
  BY <1>5 DEF IndInv, TypeOK, Clients
<1> QED
  BY <1>2, <1>3, <1>4, <1>6, CalmStep

LEMMA CrashAdmit ==
    ASSUME IndInv, TypeOK', AdmitInv, NEW c \in Calls, Crash(c)
    PROVE  AdmitInv'
<1>1. PICK i : i = [run[c] EXCEPT !.dead = TRUE]
  OBVIOUS
<1>2. i \in Invocation
  <2>1. run[c] \in Invocation /\ TRUE \in BOOLEAN
    BY Typed
  <2> QED
    BY <1>1, <2>1 DEF Invocation
<1>3. PICK j : j = Returned(i)
  OBVIOUS
<1>4. j.todo = <<>>
  BY <1>2, <1>3, ReturnedType
<1>5. /\ run' = [run EXCEPT ![c] = j] /\ policies' = Voided(policies, txn[c].own)
      /\ txn' = [txn EXCEPT ![c] = NoTransaction] /\ UNCHANGED <<call, resv, day>>
  BY <1>1, <1>3 DEF Crash
<1>6. j.todo \notin {<<"reserved">>, <<"decide">>}
  BY <1>4
<1> QED
  BY <1>5, <1>6, RollBackAdmit

LEMMA StatementFailsAdmit ==
    ASSUME IndInv, TypeOK', AdmitInv, NEW c \in Calls, StatementFails(c)
    PROVE  AdmitInv'
<1>1. PICK step \in Fallible :
        /\ At(c, step)
        /\ policies' = Voided(policies, txn[c].own)
        /\ txn' = [txn EXCEPT ![c] = NoTransaction]
        /\ run' = [run EXCEPT ![c] =
              Doing([run[c] EXCEPT !.dead = @ \/ step = "settle",
                        !.lost = @ \/ step \in {"finishAttempt", "finish", "finishFailed", "failCall"}],
                    OnError(c, step))]
        /\ UNCHANGED <<call, resv, day>>
  BY DEF StatementFails
<1>2. PICK t : t = OnError(c, step)
  OBVIOUS
<1>3. t \in {<<>>, <<"failCall">>, <<"settle">>, ToSettle} \cup Failing
  BY <1>1, <1>2, OnErrorPlan
<1>4. t \notin {<<"reserved">>, <<"decide">>}
  BY <1>3 DEF Failing, PinConflict, ToSettle
<1>5. run[c] \in Invocation
  BY Typed
<1>6. PICK i : i = [run[c] EXCEPT !.dead = @ \/ step = "settle",
                        !.lost = @ \/ step \in {"finishAttempt", "finish", "finishFailed", "failCall"}]
  OBVIOUS
<1>7. i \in Invocation
  BY <1>5, <1>6 DEF Invocation
<1>8. PICK j : j = Doing(i, t)
  OBVIOUS
<1>9. j.todo = t
  BY <1>7, <1>8, DoingTodo
<1>10. run' = [run EXCEPT ![c] = j]
  BY <1>1, <1>2, <1>6, <1>8
<1>11. j.todo \notin {<<"reserved">>, <<"decide">>}
  BY <1>4, <1>9
<1> QED
  BY <1>1, <1>10, <1>11, RollBackAdmit

\* A settlement tears the reads of everybody.
LEMMA SettleBudgetAdmit ==
    ASSUME IndInv, TypeOK', AdmitInv, NEW c \in Calls, SettleBudget(c)
    PROVE  AdmitInv'
<1>1. run[c].todo \in Plans /\ run[c].todo # <<>> /\ Head(run[c].todo) = "settle"
  BY Typed DEF SettleBudget, At
<1>2. PICK t : t = Rest(c)
  OBVIOUS
<1>3. t \notin {<<"reserved">>, <<"decide">>} /\ t \in Plans
  <2>1. t \notin {<<"reserved">>, <<"decide">>}
    BY <1>1, <1>2, RestElsewhere DEF Rest
  <2>2. run[c].todo \in Failed \cup {ToSettle}
    BY <1>1, PlanHead
  <2>3. t \in {<<"metrics">>, <<>>, <<"failSession">>}
    BY <1>2, <2>2, PlanTail DEF Rest, Failed
  <2> QED
    BY <2>1, <2>3 DEF Plans, Leaving
<1>4. run[c] \in Invocation
  BY Typed
<1>5. PICK a : a = IF t = <<"metrics">> THEN run[c].route ELSE run[c].answer
  OBVIOUS
<1>6. PICK i : i = [run[c] EXCEPT !.answer = a]
  OBVIOUS
<1>7. i \in Invocation
  BY <1>4, <1>5, <1>6 DEF Invocation
<1>8. PICK j : j = Doing(i, t)
  OBVIOUS
<1>9. j \in Invocation /\ j.todo = t
  BY <1>3, <1>7, <1>8, DoingType
<1>10. PICK runs : runs = [run EXCEPT ![c] = j]
  OBVIOUS
<1>11. runs \in [Calls -> Invocation] /\ runs[c] = j
  BY <1>9, <1>10 DEF IndInv, TypeOK
<1>12. run' = Tear(runs, c)
  BY <1>2, <1>5, <1>6, <1>8, <1>10 DEF SettleBudget
<1>13. \A d \in Calls : ~Reading(d)'
  BY <1>3, <1>9, <1>11, <1>12, TearSilences
<1>14. UNCHANGED <<policies, call, txn, day>>
  BY DEF SettleBudget
<1>15. LockInv' /\ DayInv'
  BY <1>14 DEF AdmitInv, LockInv, DayInv
<1> QED
  BY <1>13, <1>15, SilentStep

\* A transaction of call c or of an operator ends.  If it made a revision, the
\* reads of everybody are torn.
LEMMA CommitAdmit ==
    ASSUME IndInv, TypeOK', AdmitInv, NEW x \in Clients,
           NEW runs \in [Calls -> Invocation],
           \A d \in Calls \ {x} : runs[d] = run[d],
           x \in Calls => runs[x].todo \notin {<<"reserved">>, <<"decide">>},
           txn' = [txn EXCEPT ![x] = NoTransaction],
           UNCHANGED <<call, resv, day>>,
           \/ policies' = policies /\ run' = runs
           \/ (\E row : policies' = Append(policies, row)) /\ run' = Tear(runs, x)
    PROVE  AdmitInv'
<1>1. LockInv'
  BY Release DEF AdmitInv
<1>2. DayInv'
  BY DEF AdmitInv, DayInv
<1>3. CASE policies' = policies /\ run' = runs
  <2>1. \A r : IsNewest(r) => IsNewest(r)'
    BY <1>3 DEF IsNewest, Stands
  <2>2. \A d \in Calls : Reading(d)' => run'[d] = run[d] /\ d # x
    BY <1>3 DEF Reading
  <2>3. \A d \in Calls : Reading(d)' => run'[d] = run[d] /\ txn'[d].held = txn[d].held
    BY <2>2 DEF IndInv, TypeOK, Clients
  <2> QED
    BY <1>1, <1>2, <2>1, <2>3, CalmStep
<1>4. CASE run' = Tear(runs, x)
  <2>1. \A d \in Calls : ~Reading(d)'
    BY <1>4, TearSilences
  <2> QED
    BY <1>1, <1>2, <2>1, SilentStep
<1> QED
  BY <1>3, <1>4

LEMMA MetricsCommitAdmit ==
    ASSUME IndInv, TypeOK', AdmitInv, NEW c \in Calls, MetricsCommit(c)
    PROVE  AdmitInv'
<1>1. PICK j : j = Returned(run[c])
  OBVIOUS
<1>2. j \in Invocation /\ j.todo = <<>> /\ c \in Clients
  BY <1>1, Typed, ReturnedType
<1>3. PICK runs : runs = [run EXCEPT ![c] = j]
  OBVIOUS
<1>4. runs \in [Calls -> Invocation] /\ runs[c] = j /\ \A d \in Calls \ {c} : runs[d] = run[d]
  BY <1>2, <1>3 DEF IndInv, TypeOK
<1>5. runs[c].todo \notin {<<"reserved">>, <<"decide">>}
  BY <1>2, <1>4
<1>6. \/ policies' = policies /\ run' = runs
      \/ (\E row : policies' = Append(policies, row)) /\ run' = Tear(runs, c)
  BY <1>1, <1>3 DEF MetricsCommit, ActivateAndCommit
<1>7. txn' = [txn EXCEPT ![c] = NoTransaction] /\ UNCHANGED <<call, resv, day>>
  BY DEF MetricsCommit
<1> QED
  BY <1>2, <1>4, <1>5, <1>6, <1>7, CommitAdmit

LEMMA OperatorAdmit ==
    ASSUME IndInv, TypeOK', AdmitInv, NEW a \in Admins, Operator(a)
    PROVE  AdmitInv'
<1>1. a \in Clients /\ a \notin Calls
  BY NamesAssumption DEF Clients
<1>2. CASE BudgetBegin(a) \/ UpdateBegin(a)
  <2>1. txn' = Wanting(a) /\ UNCHANGED <<policies, call, resv, run, day>>
    BY <1>2 DEF BudgetBegin, UpdateBegin
  <2>2. \A y \in Clients : txn'[y].held = txn[y].held /\ txn'[y].own = txn[y].own
    BY <1>1, <2>1, WantingKeeps
  <2>3. LockInv' /\ \A r : IsNewest(r) => IsNewest(r)'
    BY <2>1, <2>2, LocksKept DEF AdmitInv
  <2>4. DayInv'
    BY <2>1 DEF AdmitInv, DayInv
  <2>5. \A d \in Calls : Reading(d)' => run'[d] = run[d] /\ txn'[d].held = txn[d].held
    BY <2>1, <2>2 DEF Clients
  <2> QED
    BY <1>1, <2>1, <2>3, <2>4, <2>5, CalmStep
<1>3. CASE BudgetCommit(a) \/ \E mode \in PatchModes, cap \in Caps : UpdateCommit(a, mode, cap)
  <2>1. txn' = [txn EXCEPT ![a] = NoTransaction] /\ UNCHANGED <<call, resv, day>>
    BY <1>3 DEF BudgetCommit, UpdateCommit
  <2>2. \/ policies' = policies /\ run' = run
        \/ (\E row : policies' = Append(policies, row)) /\ run' = Tear(run, a)
    BY <1>3 DEF BudgetCommit, UpdateCommit, ActivateAndCommit
  <2>3. run \in [Calls -> Invocation]
    BY DEF IndInv, TypeOK
  <2> QED
    BY <1>1, <2>1, <2>2, <2>3, CommitAdmit
<1> QED
  BY <1>2, <1>3 DEF Operator

LEMMA StillAdmit ==
    ASSUME IndInv, TypeOK', AdmitInv, UNCHANGED <<policies, call, resv, run, txn, day>>
    PROVE  AdmitInv'
<1>1. LockInv' /\ DayInv'
  BY DEF AdmitInv, LockInv, DayInv
<1>2. \A r : IsNewest(r) => IsNewest(r)'
  BY DEF IsNewest, Stands
<1> QED
  BY <1>1, <1>2, CalmStep

\* A new day begins with nothing spent; the month goes on.
LEMMA NextDayAdmit ==
    ASSUME IndInv, TypeOK', AdmitInv, NextDay
    PROVE  AdmitInv'
<1>1. day' = day + 1 /\ UNCHANGED <<policies, call, resv, run, txn>>
  BY DEF NextDay
<1>2. day \in Nat /\ day' \in Nat
  BY <1>1, TimeAssumption DEF IndInv, TypeOK, Days
<1>3. ASSUME NEW d \in Calls, Finished(d)
      PROVE  call[d].day \in Nat /\ call[d].day <= day /\ call'[d] = call[d]
  <2>1. call[d] \in CallRow
    BY <1>3 DEF Finished, IndInv, TypeOK
  <2>2. call[d].day \in Nat
    BY <2>1, TimeAssumption DEF CallRow, Days
  <2> QED
    BY <1>1, <1>3, <2>2 DEF AdmitInv, DayInv, Finished
<1>4. \A d \in Calls : Finished(d)' = Finished(d) /\ Active(d)' = Active(d)
  BY <1>1 DEF Finished, Active
<1>5. Settled(0)' = Settled(0)
  <2>1. CreatedIn(0, day)' = CreatedIn(0, day)
    BY <1>1, <1>2, <1>3, <1>4 DEF CreatedIn
  <2> QED
    BY <1>4, <2>1 DEF Settled, CreatedIn
<1>6. Settled(day)' = {}
  <2>1. CreatedIn(day, day)' = {}
    BY <1>1, <1>2, <1>3, <1>4 DEF CreatedIn
  <2> QED
    BY <2>1 DEF Settled
<1>7. CostOf(Settled(0))' = CostOf(Settled(0)) /\ CostOf(Settled(day))' = 0
  <2>1. PICK S \in SUBSET Calls : S = Settled(0)
    BY DEF Settled, CreatedIn
  <2>2. CostOf(S)' = SumOf(CallCosts', S) /\ CostOf(S) = SumOf(CallCosts, S)
    BY SumsNext, CostIsSum
  <2>3. CallCosts' = CallCosts
    BY <1>1 DEF CallCosts
  <2>4. CostOf(S)' = CostOf(Settled(0))'
    BY <1>5, <2>1 DEF CostOf
  <2>5. CostOf({})' = SumOf(CallCosts', {})
    BY SumsNext
  <2>6. CostOf({})' = 0
    BY <2>5, SumEmpty
  <2>7. CostOf({})' = CostOf(Settled(day))'
    BY <1>6 DEF CostOf
  <2> QED
    BY <2>1, <2>2, <2>3, <2>4, <2>6, <2>7
<1>8. \A d \in Calls : Reading(d)' = Reading(d) /\ run'[d] = run[d] /\ run[d] \in Invocation
  BY <1>1 DEF Reading, IndInv, TypeOK
<1>9. LockInv'
  BY <1>1 DEF AdmitInv, LockInv
<1>10. NewestInv'
  <2>1. \A r : IsNewest(r) => IsNewest(r)'
    BY <1>1 DEF IsNewest, Stands
  <2> QED
    BY <1>1, <1>8, <2>1 DEF AdmitInv, NewestInv
<1>11. UsedInv'
  <2> SUFFICES ASSUME NEW c \in Calls, Reading(c)'
               PROVE  CostOf(Settled(day))' <= run'[c].daily /\ CostOf(Settled(0))' <= run'[c].monthly
    BY DEF UsedInv
  <2>1. Reading(c) /\ run'[c] = run[c] /\ run[c] \in Invocation
    BY <1>8
  <2>2. run[c].daily \in Nat
    BY <2>1 DEF Invocation
  <2>3. CostOf(Settled(0)) <= run[c].monthly
    BY <2>1 DEF AdmitInv, UsedInv
  <2> QED
    BY <1>7, <2>1, <2>2, <2>3
<1>12. ReservedInv'
  <2>1. AmountOf({d \in Calls : Active(d)})' = AmountOf({d \in Calls : Active(d)})
    BY <1>1, SameAmounts
  <2> QED
    BY <1>8, <2>1 DEF AdmitInv, ReservedInv
<1>13. DayInv'
  <2>1. ASSUME NEW d \in Calls, call[d] # None PROVE call[d].day <= day'
    <3>1. call[d] \in CallRow
      BY <2>1 DEF IndInv, TypeOK
    <3>2. call[d].day \in Nat
      BY <3>1, TimeAssumption DEF CallRow, Days
    <3>3. call[d].day <= day
      BY <2>1 DEF AdmitInv, DayInv
    <3> QED
      BY <1>1, <1>2, <3>2, <3>3
  <2> QED
    BY <1>1, <2>1 DEF DayInv
<1> QED
  BY <1>9, <1>10, <1>11, <1>12, <1>13 DEF AdmitInv

-----------------------------------------------------------------------------
(* The reads of budgetStatus and the decision.                             *)

\* With the ledger and the reservations as they are, their sums are the same.
LEMMA SameSums ==
    ASSUME UNCHANGED <<call, resv, day>>
    PROVE  /\ CostOf(Settled(0))' = CostOf(Settled(0))
           /\ CostOf(Settled(day))' = CostOf(Settled(day))
           /\ AmountOf({d \in Calls : Active(d)})' = AmountOf({d \in Calls : Active(d)})
<1>1. Settled(0)' = Settled(0) /\ Settled(day)' = Settled(day)
  BY DEF Settled, CreatedIn, Finished, Active
<1>2. PICK S \in SUBSET Calls : S = Settled(0)
  BY DEF Settled, CreatedIn
<1>3. PICK T \in SUBSET Calls : T = Settled(day)
  BY DEF Settled, CreatedIn
<1>4. /\ CostOf(S)' = SumOf(CallCosts', S) /\ CostOf(S) = SumOf(CallCosts, S)
      /\ CostOf(T)' = SumOf(CallCosts', T) /\ CostOf(T) = SumOf(CallCosts, T)
  BY SumsNext, CostIsSum
<1>5. CallCosts' = CallCosts
  BY DEF CallCosts
<1>6. CostOf(S)' = CostOf(Settled(0))' /\ CostOf(T)' = CostOf(Settled(day))'
  BY <1>1, <1>2, <1>3 DEF CostOf
<1> QED
  BY <1>2, <1>3, <1>4, <1>5, <1>6, SameAmounts

\* A step of call c that reads and writes no row.
LEMMA ReadAdmit ==
    ASSUME IndInv, AdmitInv, LockInv', NEW c \in Calls,
           \A d \in Calls \ {c} : run'[d] = run[d] /\ txn'[d].held = txn[d].held,
           UNCHANGED <<policies, call, resv, day>>,
           Reading(c)' => /\ \E r \in txn'[c].held : IsNewest(r)
                          /\ CostOf(Settled(day)) <= run'[c].daily
                          /\ CostOf(Settled(0)) <= run'[c].monthly,
           Reading(c)' /\ run'[c].todo = <<"decide">> =>
               AmountOf({d \in Calls : Active(d)}) <= run'[c].reserved
    PROVE  AdmitInv'
<1>1. \A d \in Calls \ {c} : Reading(d)' => Reading(d) /\ run'[d] = run[d] /\ txn'[d].held = txn[d].held
  BY DEF Reading
<1>2. \A r : IsNewest(r)' = IsNewest(r)
  BY DEF IsNewest, Stands
<1>3. /\ CostOf(Settled(0))' = CostOf(Settled(0))
      /\ CostOf(Settled(day))' = CostOf(Settled(day))
      /\ AmountOf({d \in Calls : Active(d)})' = AmountOf({d \in Calls : Active(d)})
  BY SameSums
<1>4. NewestInv'
  BY <1>1, <1>2 DEF NewestInv, AdmitInv
<1>5. UsedInv'
  BY <1>1, <1>3 DEF UsedInv, AdmitInv
<1>6. ReservedInv'
  BY <1>1, <1>3 DEF ReservedInv, AdmitInv
<1>7. DayInv'
  BY DEF AdmitInv, DayInv
<1> QED
  BY <1>4, <1>5, <1>6, <1>7 DEF AdmitInv

\* Settled calls are among the finished ones.
LEMMA SettledFinished ==
    ASSUME TypeOK, NEW a
    PROVE  CostOf({d \in CreatedIn(a, day) : ~Active(d)}) <= CostOf(CreatedIn(a, day))
<1>1. PICK T : T = CreatedIn(a, day)
  OBVIOUS
<1>2. PICK S : S = {d \in CreatedIn(a, day) : ~Active(d)}
  OBVIOUS
<1>3. T \in SUBSET {d \in Calls : Finished(d)} /\ S \in SUBSET T
  BY <1>1, <1>2, CreatedCost
<1>4. T \in SUBSET Calls /\ IsFiniteSet(T) /\ \A d \in T : CallCosts[d] \in Nat
  BY <1>3, FinishedCost
<1>5. \A d \in S : CallCosts[d] \in Nat /\ CallCosts[d] <= CallCosts[d]
  BY <1>3, <1>4
<1>6. PICK w : w = CallCosts
  OBVIOUS
<1>7. SumOf(w, S) <= SumOf(w, T)
  BY <1>3, <1>4, <1>5, <1>6, SumMonotone
<1>8. S \in SUBSET Calls
  BY <1>3, <1>4
<1>9. CostOf(S) = SumOf(w, S) /\ CostOf(T) = SumOf(w, T)
  BY <1>4, <1>6, <1>8, CostIsSum
<1> QED
  BY <1>1, <1>2, <1>7, <1>9

LEMMA NewestIsNewest ==
    ASSUME IndInv
    PROVE  IsNewest(Newest)
<1>1. PICK B : B = {r \in DOMAIN policies : policies[r].state = "committed"}
  OBVIOUS
<1>2. policies \in Seq(Policy) /\ policies # <<>> /\ policies[1].state = "committed"
  BY DEF IndInv, TypeOK, PolicyInv
<1>3. 1 \in B /\ B \in SUBSET Nat /\ Len(policies) \in Nat /\ \A b \in B : b <= Len(policies)
  BY <1>1, <1>2
<1>4. Max(B) \in B /\ \A b \in B : b <= Max(B)
  BY <1>3, MaxNat
<1>5. Newest = Max(B)
  BY <1>1 DEF Newest
<1> QED
  BY <1>1, <1>4, <1>5 DEF IsNewest, Stands

LEMMA ReserveUsedAdmit ==
    ASSUME IndInv, TypeOK', AdmitInv, NEW c \in Calls, ReserveUsed(c)
    PROVE  AdmitInv'
<1>1. run[c] \in Invocation /\ c \in Clients /\ txn[c] \in Transaction
  BY Typed
<1>2. PICK d, m : d = CostOf(CreatedIn(day, day)) /\ m = CostOf(CreatedIn(0, day))
  OBVIOUS
<1>3. PICK b \in BOOLEAN : b = Superseded(c)
  BY DEF Superseded
<1>4. PICK j : j = [run[c] EXCEPT !.todo = <<"reserved">>, !.torn = b, !.daily = d, !.monthly = m]
  OBVIOUS
<1>5. j.todo = <<"reserved">> /\ j.torn = b /\ j.daily = d /\ j.monthly = m
  BY <1>1, <1>4 DEF Invocation
<1>6. run' = [run EXCEPT ![c] = j]
  BY <1>2, <1>3, <1>4 DEF ReserveUsed, ReadUsed
<1>7. PICK q : q = [txn[c] EXCEPT !.held = @ \cup {txn[c].want}]
  OBVIOUS
<1>8. q.own = txn[c].own /\ q.held = txn[c].held \cup {txn[c].want}
  BY <1>1, <1>7 DEF Transaction
<1>9. txn' = [txn EXCEPT ![c] = q] /\ LockFree(c) /\ UNCHANGED <<policies, call, resv, day>>
  BY <1>7 DEF ReserveUsed
<1>10. LockInv'
  BY <1>1, <1>8, <1>9, Acquire DEF AdmitInv
<1>11. \A e \in Calls \ {c} : run'[e] = run[e] /\ txn'[e].held = txn[e].held
  BY <1>6, <1>9 DEF IndInv, TypeOK, Clients
<1>12. run'[c] = j /\ txn'[c] = q
  BY <1>1, <1>6, <1>9 DEF IndInv, TypeOK
<1>13. ASSUME Reading(c)'
       PROVE  /\ \E r \in txn'[c].held : IsNewest(r)
              /\ CostOf(Settled(day)) <= run'[c].daily
              /\ CostOf(Settled(0)) <= run'[c].monthly
  <2>1. ~Superseded(c)
    BY <1>3, <1>5, <1>12, <1>13 DEF Reading
  <2>2. Newest \in txn'[c].held /\ IsNewest(Newest)
    BY <1>8, <1>12, <2>1, NewestIsNewest DEF Superseded
  <2>3. CostOf(Settled(day)) <= d /\ CostOf(Settled(0)) <= m
    BY <1>2, SettledFinished DEF Settled, IndInv
  <2> QED
    BY <1>5, <1>12, <2>2, <2>3
<1>14. run'[c].todo # <<"decide">>
  BY <1>5, <1>12
<1> QED
  BY <1>9, <1>10, <1>11, <1>13, <1>14, ReadAdmit

LEMMA ReserveReservedAdmit ==
    ASSUME IndInv, TypeOK', AdmitInv, NEW c \in Calls, ReserveReserved(c)
    PROVE  AdmitInv'
<1>1. run[c].todo = <<"reserved">>
  BY Typed, PlanHead DEF ReserveReserved, At
<1>2. run[c] \in Invocation
  BY Typed
<1>3. PICK n : n = AmountOf({d \in Calls : Active(d)})
  OBVIOUS
<1>4. n = MapThenSumSet(LAMBDA d : resv[d].amount,
                        {d \in Calls : resv[d] # None /\ resv[d].active})
  BY <1>3 DEF AmountOf, Active
<1>5. PICK j : j = [run[c] EXCEPT !.todo = <<"decide">>, !.reserved = n]
  OBVIOUS
<1>6. /\ j.todo = <<"decide">> /\ j.torn = run[c].torn /\ j.daily = run[c].daily
      /\ j.monthly = run[c].monthly /\ j.reserved = n
  BY <1>2, <1>5 DEF Invocation
<1>7. run' = [run EXCEPT ![c] = j]
  <2>1. run' = [run EXCEPT ![c].todo = <<"decide">>, ![c].reserved = n]
    BY <1>4 DEF ReserveReserved
  <2> QED
    BY <1>5, <2>1 DEF IndInv, TypeOK
<1>8. UNCHANGED <<policies, call, resv, txn, day>>
  BY DEF ReserveReserved
<1>9. LockInv'
  BY <1>8 DEF AdmitInv, LockInv
<1>10. run'[c] = j /\ \A d \in Calls \ {c} : run'[d] = run[d] /\ txn'[d].held = txn[d].held
  BY <1>7, <1>8 DEF IndInv, TypeOK
<1>11. Reading(c)' => Reading(c)
  BY <1>1, <1>6, <1>10 DEF Reading
<1>12. Reading(c)' => /\ \E r \in txn'[c].held : IsNewest(r)
                      /\ CostOf(Settled(day)) <= run'[c].daily
                      /\ CostOf(Settled(0)) <= run'[c].monthly
  BY <1>6, <1>8, <1>10, <1>11 DEF AdmitInv, NewestInv, UsedInv
<1>13. n \in Nat
  BY <1>4, ReservedNat DEF IndInv
<1>14. AmountOf({d \in Calls : Active(d)}) <= run'[c].reserved
  BY <1>3, <1>6, <1>10, <1>13
<1> QED
  BY <1>8, <1>9, <1>10, <1>12, <1>14, ReadAdmit

\* Two calls that both hold the newest revision are one.
LEMMA OneReader ==
    ASSUME IndInv, AdmitInv, NEW c \in Calls, NEW d \in Calls, Reading(c), Reading(d)
    PROVE  c = d
<1>1. PICK r \in txn[c].held : IsNewest(r)
  BY DEF AdmitInv, NewestInv
<1>2. PICK q \in txn[d].held : IsNewest(q)
  BY DEF AdmitInv, NewestInv
<1>3. policies \in Seq(Policy)
  BY DEF IndInv, TypeOK
<1>4. r \in DOMAIN policies /\ q \in DOMAIN policies /\ r <= q /\ q <= r
  BY <1>1, <1>2 DEF IsNewest, Stands
<1>5. r \in Nat /\ q \in Nat
  BY <1>3, <1>4
<1>6. r = q
  BY <1>4, <1>5
<1>7. c \in Clients /\ d \in Clients
  BY DEF Clients
<1> QED
  BY <1>1, <1>2, <1>6, <1>7 DEF AdmitInv, LockInv

LEMMA ReserveDecideAdmit ==
    ASSUME IndInv, TypeOK', AdmitInv, NEW c \in Calls, ReserveDecide(c)
    PROVE  AdmitInv'
<1>1. run[c].todo = <<"decide">> /\ <<"decide">> # <<"start">>
  BY Typed, PlanHead DEF ReserveDecide, At
<1>2. run[c] \in Invocation /\ c \in Clients
  BY Typed
<1>3. PICK j : j = IF WouldExceed(c) THEN Returned(run[c])
                   ELSE [run[c] EXCEPT !.todo = <<"attempt">>, !.torn = FALSE,
                                       !.daily = 0, !.monthly = 0, !.reserved = 0]
  OBVIOUS
<1>4. j \in Invocation /\ j.todo \in {<<>>, <<"attempt">>}
  <2>1. CASE WouldExceed(c)
    BY <1>2, <1>3, <2>1, ReturnedType
  <2>2. CASE ~WouldExceed(c)
    <3>1. <<"attempt">> \in Seq(Steps) /\ FALSE \in BOOLEAN
      BY DEF Steps
    <3>2. j = [run[c] EXCEPT !.todo = <<"attempt">>, !.torn = FALSE,
                             !.daily = 0, !.monthly = 0, !.reserved = 0]
      BY <1>3, <2>2
    <3> QED
      BY <1>2, <3>1, <3>2 DEF Invocation
  <2> QED
    BY <2>1, <2>2
<1>5. PICK runs : runs = [run EXCEPT ![c] = j]
  OBVIOUS
<1>6. runs \in [Calls -> Invocation] /\ runs[c] = j /\ \A d \in Calls \ {c} : runs[d] = run[d]
  BY <1>4, <1>5 DEF IndInv, TypeOK
<1>7. runs[c].todo \notin {<<"reserved">>, <<"decide">>}
  BY <1>4, <1>6
<1>8. run' = IF Disturbs(c) THEN Tear(runs, c) ELSE runs
  BY <1>3, <1>5 DEF ReserveDecide
<1>9. /\ policies' = Committed(policies, txn[c].own)
      /\ txn' = [txn EXCEPT ![c] = NoTransaction] /\ day' = day
  BY DEF ReserveDecide
<1>10. LockInv'
  BY <1>2, <1>9, Release DEF AdmitInv
<1>11. /\ \A d \in Calls \ {c} : call'[d] = call[d]
       /\ call'[c] = call[c] \/ (call'[c].day = call[c].day /\ ~Finished(c)')
       /\ call[c] # None
  <2>1. call[c] \in CallRow /\ call[c] # None
    BY <1>1, RowThere
  <2>2. CASE WouldExceed(c)
    <3>1. PICK row : row = [call[c] EXCEPT !.status = "budget_rejected"]
      OBVIOUS
    <3>2. row.day = call[c].day /\ row.status = "budget_rejected"
      BY <2>1, <3>1 DEF CallRow
    <3>3. call' = [call EXCEPT ![c] = row]
      BY <2>2, <3>1 DEF ReserveDecide
    <3>4. call'[c] = row /\ \A d \in Calls \ {c} : call'[d] = call[d]
      BY <3>3 DEF IndInv, TypeOK
    <3> QED
      BY <2>1, <3>2, <3>4 DEF Finished
  <2>3. CASE ~WouldExceed(c)
    BY <2>1, <2>3 DEF ReserveDecide
  <2> QED
    BY <2>2, <2>3
<1>12. DayInv'
  <2>1. day \in Nat
    BY TimeAssumption DEF IndInv, TypeOK, Days
  <2>2. \A d \in Calls : call'[d] # None => call[d] # None /\ call'[d].day = call[d].day
    BY <1>11
  <2> QED
    BY <1>9, <2>1, <2>2, DayKept DEF AdmitInv
<1>13. CASE Disturbs(c)
  <2>1. \A d \in Calls : ~Reading(d)'
    BY <1>6, <1>7, <1>8, <1>13, TearSilences
  <2> QED
    BY <1>10, <1>12, <2>1, SilentStep
<1>14. CASE ~Disturbs(c)
  <2>1. run' = runs /\ policies' = policies
    BY <1>8, <1>9, <1>14 DEF Disturbs, Committed
  <2>2. \A d \in Calls : Reading(d)' => run'[d] = run[d] /\ d # c
    BY <1>6, <1>7, <2>1 DEF Reading
  <2>3. CASE WouldExceed(c)
    <3>1. resv' = resv
      BY <2>3 DEF ReserveDecide
    <3>2. \A r : IsNewest(r) => IsNewest(r)'
      BY <2>1 DEF IsNewest, Stands
    <3>3. \A d \in Calls : Reading(d)' => run'[d] = run[d] /\ txn'[d].held = txn[d].held
      BY <1>9, <2>2 DEF IndInv, TypeOK, Clients
    <3>4. Finished(c)' => call'[c] = call[c]
      BY <1>11
    <3> QED
      BY <1>9, <1>10, <1>11, <1>12, <3>1, <3>2, <3>3, <3>4, CalmStep
  <2>4. CASE ~WouldExceed(c)
    <3>1. Reading(c)
      BY <1>1, <1>14, <2>4 DEF Disturbs, Reading
    <3>2. ASSUME NEW d \in Calls, Reading(d)' PROVE FALSE
      <4>1. Reading(d) /\ d # c
        BY <2>2, <3>2 DEF Reading
      <4> QED
        BY <3>1, <4>1, OneReader
    <3> QED
      BY <1>10, <1>12, <3>2, SilentStep
  <2> QED
    BY <2>3, <2>4
<1> QED
  BY <1>13, <1>14

-----------------------------------------------------------------------------
(* The theorem.                                                            *)

LEMMA InitAdmit ==
    ASSUME Init
    PROVE  AdmitInv
<1>1. \A x \in Clients : txn[x].held = {} /\ txn[x].own = 0
  BY DEF Init, NoTransaction
<1>2. \A c \in Calls : ~Reading(c)
  BY DEF Init, Idle, Reading
<1>3. LockInv
  BY <1>1 DEF LockInv
<1>4. DayInv
  BY DEF Init, DayInv
<1> QED
  BY <1>2, <1>3, <1>4 DEF AdmitInv, NewestInv, UsedInv, ReservedInv

LEMMA NextAdmit ==
    ASSUME IndInv, TypeOK', AdmitInv, [Next]_vars
    PROVE  AdmitInv'
<1>1. ASSUME NEW c \in Calls, NEW t \in Tasks, NEW s \in Sessions \cup {None}, Start(c, t, s)
      PROVE  AdmitInv'
  BY <1>1, StartAdmit
<1>2. ASSUME NEW c \in Calls, Invoke(c) PROVE AdmitInv'
  <2>1. CASE \E p \in Providers : CacheHit(c, p)
    BY <2>1, CacheHitAdmit
  <2>2. CASE \E outcome \in {"ok", "retryable", "fatal"}, cost \in Costs : Attempt(c, outcome, cost)
    BY <2>2, AttemptAdmit
  <2>3. CASE CacheMiss(c)
    BY <2>3, CacheMissAdmit
  <2>4. CASE ReserveActivate(c) \/ ReserveUsed(c) \/ ReserveReserved(c) \/ ReserveDecide(c)
    BY <2>4, ReserveActivateAdmit, ReserveUsedAdmit, ReserveReservedAdmit, ReserveDecideAdmit
  <2>5. CASE FinishAttempt(c) \/ PinSession(c) \/ FinishSucceeded(c) \/ PutCache(c)
    BY <2>5, FinishAttemptAdmit, PinSessionAdmit, FinishAdmit, PutCacheAdmit
  <2>6. CASE FinishFailed(c) \/ SettleBudget(c) \/ FailSession(c)
    BY <2>6, FinishAdmit, SettleBudgetAdmit, FailSessionAdmit
  <2>7. CASE MetricsBegin(c) \/ MetricsCommit(c)
    BY <2>7, MetricsBeginAdmit, MetricsCommitAdmit
  <2> QED
    BY <1>2, <2>1, <2>2, <2>3, <2>4, <2>5, <2>6, <2>7 DEF Invoke
<1>3. ASSUME NEW c \in Calls, StatementFails(c) \/ Crash(c) PROVE AdmitInv'
  BY <1>3, StatementFailsAdmit, CrashAdmit
<1>4. ASSUME NEW a \in Admins, Operator(a) PROVE AdmitInv'
  BY <1>4, OperatorAdmit
<1>5. CASE (\E s \in Sessions : CreateSession(s)) \/ UNCHANGED vars
  <2>1. UNCHANGED <<policies, call, resv, run, txn, day>>
    BY <1>5 DEF CreateSession, vars
  <2> QED
    BY <2>1, StillAdmit
<1>6. CASE NextDay
  BY <1>6, NextDayAdmit
<1> QED
  BY <1>1, <1>2, <1>3, <1>4, <1>5, <1>6 DEF Next

\* A call that has read the budget undisturbed keeps the newest revision locked,
\* and what it has read is still an upper bound when it decides.
THEOREM AdmitCorrect == Spec => [](IndInv /\ AdmitInv)
<1>1. Init => AdmitInv
  BY InitAdmit
<1>2. IndInv /\ IndInv' /\ AdmitInv /\ [Next]_vars => AdmitInv'
  BY NextAdmit DEF IndInv
<1> QED
  BY <1>1, <1>2, Correct, PTL DEF Spec

\* Only ReserveDecide inserts a reservation.
LEMMA OnlyDecideAdmits ==
    ASSUME IndInv, [Next]_vars, NEW c \in Calls, Admits(c)
    PROVE  ReserveDecide(c) /\ ~WouldExceed(c)
<1>1. ASSUME resv' = resv PROVE FALSE
  BY <1>1 DEF Admits
<1>2. ASSUME NEW d \in Calls, SettleBudget(d) PROVE FALSE
  <2>1. run[d].todo \in Failed \cup {ToSettle}
    BY <1>2, Typed, PlanHead DEF SettleBudget, At
  <2>2. resv[d] # None
    BY <2>1, Typed DEF SpendInv, Holding, Holds
  <2>3. resv'[c] = resv[c] \/ c = d
    BY <1>2 DEF SettleBudget, IndInv, TypeOK
  <2> QED
    BY <2>2, <2>3 DEF Admits
<1>3. ASSUME NEW d \in Calls, ReserveDecide(d) PROVE d = c /\ ~WouldExceed(d)
  BY <1>1, <1>3 DEF ReserveDecide, Admits, IndInv, TypeOK
<1>4. ASSUME NEW d \in Calls, Invoke(d) PROVE ReserveDecide(d) \/ SettleBudget(d)
  BY <1>1, <1>4 DEF Invoke, CacheHit, CacheMiss, ReserveActivate, ReserveUsed, ReserveReserved,
         Attempt, FinishAttempt, PinSession, FinishSucceeded, PutCache, FinishFailed,
         FailSession, MetricsBegin, MetricsCommit
<1>5. \E d \in Calls : Invoke(d)
  BY <1>1 DEF Next, Start, StatementFails, Crash, Operator, BudgetBegin, BudgetCommit,
         UpdateBegin, UpdateCommit, CreateSession, NextDay, vars
<1> QED
  BY <1>2, <1>3, <1>4, <1>5

\* What an admission adds to the exposure.
LEMMA AdmissionAdds ==
    ASSUME IndInv, TypeOK', NEW c \in Calls, ReserveDecide(c), ~WouldExceed(c), resv[c] = None
    PROVE  /\ AmountOf({d \in Calls : Active(d)})'
                  = MaximumCost(c) + AmountOf({d \in Calls : Active(d)})
           /\ CostOf(Settled(0))' <= CostOf(Settled(0))
           /\ CostOf(Settled(day))' <= CostOf(Settled(day))
<1>1. PICK n : n = MaximumCost(c)
  OBVIOUS
<1>2. PICK rv : rv = [amount |-> n, active |-> TRUE]
  OBVIOUS
<1>3. resv' = [resv EXCEPT ![c] = rv] /\ call' = call /\ day' = day
  BY <1>1, <1>2 DEF ReserveDecide
<1>4. resv'[c] = rv /\ \A d \in Calls \ {c} : resv'[d] = resv[d]
  BY <1>3 DEF IndInv, TypeOK
<1>5. rv.amount = n /\ rv.active = TRUE
  BY <1>2
<1>6. rv # None
  <2>1. resv'[c] \in Reservation \cup {None} /\ None \notin Reservation
    BY RowsAssumption DEF TypeOK
  <2>2. n \in Nat
    <3>1. run[c].routes \in SUBSET Providers
      BY Typed DEF Invocation
    <3> QED
      BY <1>1, <3>1, MaximumNat DEF MaximumCost
  <2>3. TRUE \in BOOLEAN
    OBVIOUS
  <2>4. rv \in Reservation
    BY <1>2, <2>2, <2>3 DEF Reservation
  <2> QED
    BY <2>1, <2>4
<1>7. ~Active(c) /\ Active(c)' /\ \A d \in Calls \ {c} : Active(d)' <=> Active(d)
  BY <1>4, <1>5, <1>6 DEF Active
<1>8. AmountOf({d \in Calls : Active(d)})' = n + AmountOf({d \in Calls : Active(d)})
  <2>1. PICK S : S = {d \in Calls : Active(d)}
    OBVIOUS
  <2>2. PICK T : T = S \cup {c}
    OBVIOUS
  <2>3. T = {d \in Calls : Active(d)}'
    BY <1>7, <2>1, <2>2
  <2>4. S \in SUBSET Calls /\ T \in SUBSET Calls /\ c \in T /\ T \ {c} = S
    BY <1>7, <2>1, <2>2
  <2>5. IsFiniteSet(S) /\ IsFiniteSet(T)
    BY <2>4, NamesAssumption, FS_Subset
  <2>6. AmountOf(T)' = SumOf(Amounts', T) /\ AmountOf(S) = SumOf(Amounts, S)
    BY <2>4, SumsNext, AmountIsSum
  <2>7. PICK w, v : w = Amounts' /\ v = Amounts
    OBVIOUS
  <2>8. w[c] = n /\ \A d \in S : w[d] = v[d]
    <3>1. w[c] = resv'[c].amount
      BY <2>7 DEF Amounts
    <3>2. ASSUME NEW d \in S PROVE w[d] = v[d]
      <4>1. d \in Calls \ {c}
        BY <1>7, <2>1
      <4> QED
        BY <1>4, <2>7, <4>1 DEF Amounts
    <3> QED
      BY <1>4, <1>5, <3>1, <3>2
  <2>9. \A d \in T : w[d] \in Nat
    <3> SUFFICES ASSUME NEW d \in T PROVE w[d] \in Nat
      OBVIOUS
    <3>1. d \in Calls /\ Active(d)'
      BY <2>3
    <3>2. resv'[d] \in Reservation
      BY <3>1 DEF TypeOK, Active
    <3>3. w[d] = resv'[d].amount
      BY <2>7, <3>1 DEF Amounts
    <3> QED
      BY <3>2, <3>3 DEF Reservation
  <2>10. SumOf(w, T) = w[c] + SumOf(w, S)
    BY <2>4, <2>5, <2>9, SumRemove
  <2>11. SumOf(w, S) = SumOf(v, S)
    BY <2>5, <2>8, SumSame
  <2>12. AmountOf(T)' = AmountOf({d \in Calls : Active(d)})'
    BY <2>3 DEF AmountOf
  <2> QED
    BY <2>1, <2>6, <2>7, <2>8, <2>10, <2>11, <2>12
<1>9. ASSUME NEW a
      PROVE  CostOf({d \in CreatedIn(a, day) : ~Active(d)})'
                <= CostOf({d \in CreatedIn(a, day) : ~Active(d)})
  <2>1. PICK S : S = {d \in CreatedIn(a, day) : ~Active(d)}
    OBVIOUS
  <2>2. PICK T : T = {d \in CreatedIn(a, day) : ~Active(d)}'
    OBVIOUS
  <2>3. S \in SUBSET Calls /\ T \in SUBSET Calls
    BY <2>1, <2>2 DEF CreatedIn
  <2>4. (\A d \in S : Finished(d)) /\ (\A d \in T : Finished(d)')
    BY <2>1, <2>2 DEF CreatedIn
  <2>5. c \notin T
    BY <1>7, <2>2
  <2>6. \A d \in T \ {c} : d \in S /\ call'[d].cost = call[d].cost
    BY <1>3, <1>7, <2>1, <2>2, <2>3 DEF CreatedIn, Finished
  <2>7. CostOf(T)' <= CostOf(S)
    BY <2>3, <2>4, <2>5, <2>6, CostsLess DEF IndInv
  <2>8. CostOf(T)' = CostOf({d \in CreatedIn(a, day) : ~Active(d)})'
    BY <2>2 DEF CostOf
  <2> QED
    BY <2>1, <2>7, <2>8
<1>10. PICK t : t = day
  OBVIOUS
<1>11. CostOf(Settled(t))' <= CostOf(Settled(t)) /\ CostOf(Settled(0))' <= CostOf(Settled(0))
  BY <1>9 DEF Settled
<1>12. Settled(day) = Settled(t) /\ Settled(day)' = Settled(t)'
  BY <1>3, <1>10 DEF Settled
<1>13. CostOf(Settled(day))' <= CostOf(Settled(day))
  BY <1>11, <1>12 DEF CostOf
<1> QED
  BY <1>1, <1>8, <1>11, <1>13

\* ReserveBudget never admits a call past the caps of the newest revision, if
\* no settlement and no new revision fell between its reads: for any number of
\* calls, operators and revisions, with crashes and rolled back transactions.
THEOREM AdmissionsWithinCap == Spec => SerialAdmissionsWithinCap
<1>1. ASSUME IndInv, IndInv', AdmitInv, [Next]_vars, NEW c \in Calls, Admits(c), ~run[c].torn
      PROVE  StaysWithin(policies[txn[c].want])
  <2>1. ReserveDecide(c) /\ ~WouldExceed(c) /\ resv[c] = None
    BY <1>1, OnlyDecideAdmits DEF Admits
  <2>2. run[c].todo = <<"decide">> /\ run[c] \in Invocation
    BY <1>1, <2>1, Typed, PlanHead DEF ReserveDecide, At
  <2>3. Reading(c)
    BY <1>1, <2>2 DEF Reading
  <2>4. PICK n, m, a, d : /\ n = MaximumCost(c) /\ m = AmountOf({e \in Calls : Active(e)})
                          /\ a = CostOf(Settled(0)) /\ d = CostOf(Settled(day))
    OBVIOUS
  <2>5. m <= run[c].reserved /\ a <= run[c].monthly /\ d <= run[c].daily
    BY <1>1, <2>2, <2>3, <2>4 DEF AdmitInv, UsedInv, ReservedInv
  <2>6. run[c].reserved \in Nat /\ run[c].monthly \in Nat /\ run[c].daily \in Nat
    BY <2>2 DEF Invocation
  <2>7. n \in Nat
    <3>1. run[c].routes \in SUBSET Providers
      BY <2>2 DEF Invocation
    <3> QED
      BY <2>4, <3>1, MaximumNat DEF MaximumCost
  <2>8. m \in Nat /\ a \in Nat /\ d \in Nat
    <3>1. m \in Nat
      BY <1>1, <2>4, ReservedNat DEF AmountOf, Active, IndInv
    <3> QED
      BY <1>1, <2>4, <3>1, SettledNat DEF IndInv
  <2>9. PICK x, y, z : /\ x = AmountOf({e \in Calls : Active(e)})'
                       /\ y = CostOf(Settled(0))' /\ z = CostOf(Settled(day))'
    OBVIOUS
  <2>10. x = n + m /\ y <= a /\ z <= d
    BY <1>1, <2>1, <2>4, <2>9, AdmissionAdds DEF IndInv
  <2>11. y \in Nat /\ z \in Nat
    BY <1>1, <2>9, SettledNatNext DEF IndInv
  <2>12. Exposure(0)' = x + y /\ Exposure(day)' = x + z
    BY <2>9 DEF Exposure, AmountOf, Settled
  <2>13. PICK row : row = policies[txn[c].want]
    OBVIOUS
  <2>14. row \in Policy
    <3>1. txn[c].want \in 1..Len(policies)
      BY <1>1, <2>2 DEF IndInv, PolicyInv, InTransaction
    <3> QED
      BY <1>1, <2>13, <3>1 DEF IndInv, TypeOK
  <2>15. row.daily \in Nat /\ row.monthly \in Nat
    BY <2>14 DEF Policy
  <2>16. row.mode = "enforce" =>
           /\ row.daily # 0 => run[c].daily + (run[c].reserved + n) <= row.daily
           /\ row.monthly # 0 => run[c].monthly + (run[c].reserved + n) <= row.monthly
    BY <2>1, <2>4, <2>6, <2>7, <2>13, <2>15 DEF WouldExceed
  <2>17. x + y <= run[c].monthly + (run[c].reserved + n)
    BY <2>5, <2>6, <2>7, <2>8, <2>10, <2>11
  <2>18. x + z <= run[c].daily + (run[c].reserved + n)
    BY <2>5, <2>6, <2>7, <2>8, <2>10, <2>11
  <2>19. x \in Nat
    BY <2>7, <2>8, <2>10
  <2>20. row.mode = "enforce" =>
           /\ row.daily # 0 => x + z <= row.daily
           /\ row.monthly # 0 => x + y <= row.monthly
    BY <2>6, <2>7, <2>11, <2>15, <2>16, <2>17, <2>18, <2>19
  <2> QED
    BY <2>12, <2>13, <2>20 DEF StaysWithin
<1>2. IndInv /\ IndInv' /\ AdmitInv /\ [Next]_vars =>
        [\A c \in Calls : Admits(c) /\ ~run[c].torn => StaysWithin(policies[txn[c].want])]_vars
  BY <1>1
<1> QED
  BY <1>2, AdmitCorrect, PTL DEF Spec, SerialAdmissionsWithinCap
=============================================================================
