-------------------------- MODULE InferenceGateway --------------------------
(***************************************************************************)
(* The inference gateway: one Invoke per call, the call ledger, the budget *)
(* policy with its reservations, provider failover, session pinning and    *)
(* the answer cache.                                                       *)
(*                                                                         *)
(* Source: internal/usecase/inference/inference.go and                     *)
(* internal/repo/persistent/inference_postgres.go.                         *)
(*                                                                         *)
(* A call is a process that works through todo, the statements still ahead *)
(* of it; one action is one statement, or a transaction that nobody can    *)
(* observe half done.  ReserveBudget is split at every statement whose     *)
(* snapshot matters: READ COMMITTED gives each one its own.                *)
(*                                                                         *)
(* Money is counted in units, time in days of the budget time zone, and    *)
(* all days fall in one month.  Every route has the same price.            *)
(***************************************************************************)
EXTENDS Integers, FiniteSets, FiniteSetsExt, Sequences

CONSTANTS Calls,          \* call ids
          Admins,         \* operators who read and override the budget
          Sessions,       \* inference sessions, all of task SessionTask
          Tasks, SessionTask,
          CachedTasks,    \* cache_ttl_seconds > 0, neither enrichment nor judge
          None,           \* NULL, no such row
          NumRoutes,      \* enabled routes of a task; maxProviderAttempts is 2
          RouteMax,       \* maximumRouteCost
          Costs,          \* what an attempt may turn out to cost
          PatchModes, Caps,   \* modes and caps an operator may set
          BaselineDays, CacheDays,
          InitialMode,    \* mode of the policy in force at the start
          InitialCap,
          MaxDay,         \* bound on the clock
          MaxFaults       \* bound on failing statements and dying processes

ASSUME RoutesAssumption == NumRoutes \in 1..2
ASSUME MoneyAssumption ==
    /\ RouteMax \in Costs
    /\ Costs \subseteq Nat
    /\ Caps \subseteq Nat \ {0}
    /\ InitialCap \in Nat \ {0}
ASSUME TimeAssumption == {BaselineDays, CacheDays, MaxDay, MaxFaults} \subseteq Nat
ASSUME NamesAssumption ==
    /\ SessionTask \in Tasks /\ CachedTasks \subseteq Tasks
    /\ InitialMode \in {"baseline", "enforce", "disabled"}
    /\ PatchModes \subseteq {"baseline", "enforce", "disabled"}
    /\ Calls \cap Admins = {}
    /\ None \notin Calls \cup Admins \cup Sessions \cup Tasks
    /\ IsFiniteSet(Calls)

VARIABLES policies,   \* inference_budget_policies, indexed by revision
          call,       \* inference_calls
          resv,       \* inference_budget_reservations
          cache,      \* inference_cache, one key per task and provider
          ses,        \* inference_sessions
          run,        \* the running Invokes
          adm,        \* the operators' requests
          txn,        \* open transactions on the policy table
          day, faults

vars == <<policies, call, resv, cache, ses, run, adm, txn, day, faults>>

Providers == 1..NumRoutes
Clients == Calls \cup Admins
Days == 0..MaxDay
Modes == {"baseline", "enforce", "disabled"}

\* A cap of 0 is NULL: the CHECK constraint excludes a stored zero.
\* Enforcement never runs on a zero cap.
Policy ==
    [mode : Modes \ {"enforce"}, started : Days, daily : Nat, monthly : Nat,
     state : {"pending", "committed", "void"}]
    \cup
    [mode : {"enforce"}, started : Days, daily : Nat \ {0}, monthly : Nat \ {0},
     state : {"pending", "committed", "void"}]
CallRow == [status : {"started", "cache_hit", "succeeded", "failed", "budget_rejected"},
            cost : Nat, day : Days]
Reservation == [amount : Nat, active : BOOLEAN]
CacheEntry == [of : Calls, until : Nat]
InferenceSession == [pin : Providers \cup {0}, status : {"open", "pinned", "failed"}]
ASSUME RowsAssumption ==
    None \notin CallRow \cup Reservation \cup CacheEntry \cup InferenceSession

Steps == {"start", "cache", "activate", "used", "reserved", "decide", "attempt",
          "finishAttempt", "pin", "finish", "put", "settle", "metrics",
          "metricsTx", "finishFailed", "failCall", "failSession"}

\* answer is history: the provider whose answer the caller received.  lost is
\* history: a ledger statement of this call returned an error.  dead: the
\* process died, or the settlement itself failed.  torn is history: see Tear.
Invocation == [todo : Seq(Steps), task : Tasks \cup {None},
               session : Sessions \cup {None}, routes : SUBSET Providers,
               route : Providers \cup {0}, outcome : {"none", "ok", "retryable", "fatal"},
               total : Nat, daily : Nat, monthly : Nat, reserved : Nat,
               answer : Providers \cup {0}, lost : BOOLEAN, dead : BOOLEAN,
               torn : BOOLEAN]

\* want: the row FOR UPDATE waits for, 0 if none; own: the revision inserted.
Transaction == [want : Nat, held : SUBSET Nat, own : Nat]
NoTransaction == [want |-> 0, held |-> {}, own |-> 0]

Idle == [todo |-> <<"start">>, task |-> None, session |-> None, routes |-> {},
         route |-> 0, outcome |-> "none", total |-> 0, daily |-> 0, monthly |-> 0,
         reserved |-> 0, answer |-> 0, lost |-> FALSE, dead |-> FALSE, torn |-> FALSE]

-----------------------------------------------------------------------------
At(c, step) == run[c].todo # <<>> /\ Head(run[c].todo) = step
Rest(c) == Tail(run[c].todo)

\* An Invoke that returns forgets its locals.
Returned(i) == [Idle EXCEPT !.todo = <<>>, !.session = i.session, !.total = i.total,
                            !.answer = i.answer, !.lost = i.lost, !.dead = i.dead]
Doing(i, todo) == IF todo = <<>> THEN Returned(i) ELSE [i EXCEPT !.todo = todo]
Then(c, todo) == run' = [run EXCEPT ![c] = Doing(@, todo)]
RoutesLeft(c) == {p \in run[c].routes : p > run[c].route}

\* What a statement of client x sees of the append-only policy table.
Visible(x) == {r \in DOMAIN policies :
                  policies[r].state = "committed" \/ txn[x].own = r}
Latest(x) == Max(Visible(x))

Finished(c) == call[c] # None /\ call[c].status \in {"succeeded", "failed"}
CostOf(S) == MapThenSumSet(LAMBDA c : call[c].cost, S)
CreatedIn(first, last) == {c \in Calls : Finished(c) /\ call[c].day \in first..last}

\* ORDER BY revision DESC LIMIT 1 FOR UPDATE: the row is chosen by the
\* statement's snapshot, and a waiter returns that row even when a newer
\* revision has been committed meanwhile.
LockFree(x) == \A y \in Clients \ {x} : txn[x].want \notin txn[y].held
Wanting(x) == [txn EXCEPT ![x].want = Latest(x)]

-----------------------------------------------------------------------------
(* The budget policy.                                                      *)

Due(row) == row.mode = "baseline" /\ day >= row.started + BaselineDays

BaselineTotal(row) == CostOf(CreatedIn(row.started, row.started + BaselineDays - 1))
BaselineMaxDaily(row) ==
    Max({0} \cup {CostOf(CreatedIn(d, d)) :
                    d \in row.started..(row.started + BaselineDays - 1)})

\* The automatic activation: caps of twice the baseline.
Enforcing(row) ==
    [mode |-> "enforce", started |-> row.started, daily |-> 2 * BaselineMaxDaily(row),
     monthly |-> 2 * BaselineTotal(row), state |-> "pending"]

\* maybeActivateBudget and extendZeroBaseline: the revision that follows a
\* baseline that has ended.
Successor(row) ==
    IF BaselineTotal(row) = 0
    THEN [mode |-> "baseline", started |-> day, daily |-> 0, monthly |-> 0,
          state |-> "pending"]
    ELSE Enforcing(row)

Committed(rows, own) == IF own = 0 THEN rows ELSE [rows EXCEPT ![own].state = "committed"]
Voided(rows, own) == IF own = 0 THEN rows ELSE [rows EXCEPT ![own].state = "void"]

\* A settlement, a new revision, or an admission under a superseded revision
\* that commits after the first read of another call's ReserveBudget and before
\* its decision tears what that call decides on.  (One that commits after both
\* reads counts too.)
Tear(runs, x) ==
    [c \in Calls |-> IF c # x /\ Head(runs[c].todo \o <<"start">>) \in {"reserved", "decide"}
                     THEN [runs[c] EXCEPT !.torn = TRUE] ELSE runs[c]]

\* Budget: activate if due and commit; nothing is locked for the reads.
ActivateAndCommit(x) ==
    LET row == policies[txn[x].want]
    IN policies' = IF Due(row)
                   THEN Append(policies, [Successor(row) EXCEPT !.state = "committed"])
                   ELSE policies

-----------------------------------------------------------------------------
(* Invoke.                                                                 *)

\* ResolveRoutes and CreateCall.  The status of the session is not looked at.
Start(c, t, s) ==
    /\ At(c, "start")
    /\ s # None => t = SessionTask /\ ses[s] # None
    /\ LET pinned == s # None /\ ses[s].pin # 0
           routes == IF pinned THEN {ses[s].pin} ELSE Providers
       IN run' = [run EXCEPT ![c] = [@ EXCEPT !.todo = <<"cache">>, !.task = t,
                                              !.session = s, !.routes = routes,
                                              !.route = Min(routes)]]
    /\ call' = [call EXCEPT ![c] = [status |-> "started", cost |-> 0, day |-> day]]
    /\ UNCHANGED <<policies, resv, cache, ses, adm, txn, day, faults>>

\* cachedResult: an entry that fails to decrypt, and a lookup that errs, count
\* as a miss, so any route's entry may be the one that answers.
CacheHit(c, p) ==
    /\ At(c, "cache")
    /\ p \in run[c].routes /\ run[c].task \in CachedTasks
    /\ cache[<<run[c].task, p>>] # None /\ cache[<<run[c].task, p>>].until > day
    /\ call' = [call EXCEPT ![c].status = "cache_hit"]
    /\ run' = [run EXCEPT ![c] = Returned([@ EXCEPT !.answer = p])]
    /\ UNCHANGED <<policies, resv, cache, ses, adm, txn, day, faults>>

CacheMiss(c) ==
    /\ At(c, "cache")
    /\ \/ /\ txn' = Wanting(c)         \* ReserveBudget asks for the policy row
          /\ Then(c, <<"activate">>)
       \/ /\ Then(c, <<"failCall">>)   \* renderMessages failed
          /\ UNCHANGED txn
    /\ UNCHANGED <<policies, call, resv, cache, ses, adm, day, faults>>

\* ReserveBudget: the row lock is granted, maybeActivateBudget acts on that row,
\* and budgetStatus asks for the latest row anew.
ReserveActivate(c) ==
    /\ At(c, "activate")
    /\ LockFree(c)
    /\ LET row == policies[txn[c].want]
           own == IF Due(row) THEN Len(policies) + 1 ELSE 0
       IN /\ policies' = IF Due(row) THEN Append(policies, Successor(row)) ELSE policies
          /\ txn' = [txn EXCEPT ![c] =
                [want |-> IF Due(row) THEN own ELSE Latest(c),
                 held |-> {txn[c].want}, own |-> own]]
    /\ Then(c, <<"used">>)
    /\ UNCHANGED <<call, resv, cache, ses, adm, day, faults>>

\* The newest revision is none of the rows that the transaction asked for: the
\* lock of budgetStatus came when its row was superseded already, and the calls
\* that reserve under the newest row are not kept out.
Newest == Max({r \in DOMAIN policies : policies[r].state = "committed"})
Superseded(c) == Newest \notin txn[c].held \cup {txn[c].want}

ReadUsed(c) ==
    run' = [run EXCEPT ![c] = [@ EXCEPT !.todo = <<"reserved">>, !.torn = Superseded(c),
               !.daily = CostOf(CreatedIn(day, day)),
               !.monthly = CostOf(CreatedIn(0, day))]]

\* ReserveUsed, were budgetStatus read without its row lock.
ReserveUsedUnlocked(c) ==
    /\ At(c, "used")
    /\ ReadUsed(c)
    /\ UNCHANGED <<policies, call, resv, cache, ses, adm, txn, day, faults>>

\* budgetStatus: the lock is granted and the cost of the finished calls read.
ReserveUsed(c) ==
    /\ At(c, "used")
    /\ LockFree(c)
    /\ txn' = [txn EXCEPT ![c].held = @ \cup {txn[c].want}]
    /\ ReadUsed(c)
    /\ UNCHANGED <<policies, call, resv, cache, ses, adm, day, faults>>

\* budgetStatus: the next statement reads the active reservations.
ReserveReserved(c) ==
    /\ At(c, "reserved")
    /\ run' = [run EXCEPT ![c].todo = <<"decide">>,
                  ![c].reserved = MapThenSumSet(LAMBDA d : resv[d].amount,
                                     {d \in Calls : resv[d] # None /\ resv[d].active})]
    /\ UNCHANGED <<policies, call, resv, cache, ses, adm, txn, day, faults>>

MaximumCost(c) == RouteMax * Cardinality(run[c].routes)

\* budgetWouldExceed
WouldExceed(c) ==
    LET row == policies[txn[c].want]
        more == run[c].reserved + MaximumCost(c)
    IN /\ row.mode = "enforce"
       /\ \/ row.daily # 0 /\ run[c].daily + more > row.daily
          \/ row.monthly # 0 /\ run[c].monthly + more > row.monthly

\* What this commit may take from under the reads of other reservers.
Disturbs(c) == txn[c].own # 0 \/ (run[c].torn /\ ~WouldExceed(c))

\* The rest of ReserveBudget: reject the call or insert the reservation, commit.
ReserveDecide(c) ==
    /\ At(c, "decide")
    /\ IF WouldExceed(c)
       THEN /\ call' = [call EXCEPT ![c].status = "budget_rejected"]
            /\ UNCHANGED resv
       ELSE /\ resv' = [resv EXCEPT ![c] = [amount |-> MaximumCost(c), active |-> TRUE]]
            /\ UNCHANGED call
    /\ policies' = Committed(policies, txn[c].own)
    /\ txn' = [txn EXCEPT ![c] = NoTransaction]
    /\ LET next == [run EXCEPT ![c] =
                       IF WouldExceed(c) THEN Returned(@)
                       ELSE [@ EXCEPT !.todo = <<"attempt">>, !.torn = FALSE,
                                      !.daily = 0, !.monthly = 0, !.reserved = 0]]
       IN run' = IF Disturbs(c) THEN Tear(next, c) ELSE next
    /\ UNCHANGED <<cache, ses, adm, day, faults>>

\* CreateAttempt; then the provider answers, or fails, or its answer does not
\* fit the schema.  Either way the attempt has a cost; one that fails without
\* reporting usage is charged the output ceiling.
Attempt(c, outcome, cost) ==
    /\ At(c, "attempt")
    /\ run' = [run EXCEPT ![c] = [@ EXCEPT !.todo = <<"finishAttempt">>,
                                           !.outcome = outcome,
                                           !.total = run[c].total + cost]]
    /\ UNCHANGED <<policies, call, resv, cache, ses, adm, txn, day, faults>>

\* AfterSuccess in other orders: settled or cached before FinishCall.
AfterSuccessSettled(c) == <<"settle", "finish", "put", "metrics">>
AfterSuccessCached(c) == <<"put", "finish", "settle", "metrics">>

\* What follows the attempt that decides the call.
AfterSuccess(c) ==
    (IF run[c].session # None THEN <<"pin">> ELSE <<>>)
        \o <<"finish", "put", "settle", "metrics">>
AfterFailure(c) ==
    <<"finishFailed", "settle">>
        \o (IF run[c].session # None /\ Cardinality(run[c].routes) = 1
            THEN <<"failSession">> ELSE <<>>)

FinishAttempt(c) ==
    /\ At(c, "finishAttempt")
    /\ \/ /\ run[c].outcome = "ok"
          /\ Then(c, AfterSuccess(c))
       \/ /\ run[c].outcome = "retryable" /\ RoutesLeft(c) # {}
          /\ run' = [run EXCEPT ![c].todo = <<"attempt">>, ![c].outcome = "none",
                                ![c].route = Min(RoutesLeft(c))]
       \/ /\ run[c].outcome = "fatal" \/ (run[c].outcome = "retryable" /\ RoutesLeft(c) = {})
          /\ Then(c, AfterFailure(c))
    /\ UNCHANGED <<policies, call, resv, cache, ses, adm, txn, day, faults>>

Pinnable(c) == ses[run[c].session].pin \in {0, run[c].route}
PinConflict == <<"failSession", "failCall", "settle">>

\* PinSession without its WHERE on the pin.
PinSessionAnyway(c) ==
    /\ At(c, "pin")
    /\ ses' = [ses EXCEPT ![run[c].session] = [pin |-> run[c].route, status |-> "pinned"]]
    /\ Then(c, Rest(c))
    /\ UNCHANGED <<policies, call, resv, cache, adm, txn, day, faults>>

\* PinSession: a guarded UPDATE, blind to the status.  No row: the caller gives
\* up what the provider answered.
PinSession(c) ==
    /\ At(c, "pin")
    /\ IF Pinnable(c)
       THEN /\ ses' = [ses EXCEPT ![run[c].session] =
                          [pin |-> run[c].route, status |-> "pinned"]]
            /\ Then(c, Rest(c))
       ELSE Then(c, PinConflict) /\ UNCHANGED ses
    /\ UNCHANGED <<policies, call, resv, cache, adm, txn, day, faults>>

\* FinishCall of the success path; the caller will get the answer.
FinishSucceeded(c) ==
    /\ At(c, "finish")
    /\ call' = [call EXCEPT ![c].status = "succeeded", ![c].cost = run[c].total]
    /\ Then(c, Rest(c))
    /\ UNCHANGED <<policies, resv, cache, ses, adm, txn, day, faults>>

PutCache(c) ==
    /\ At(c, "put")
    /\ cache' = IF run[c].task \in CachedTasks
                THEN [cache EXCEPT ![<<run[c].task, run[c].route>>] =
                         [of |-> c, until |-> day + CacheDays]]
                ELSE cache
    /\ Then(c, Rest(c))
    /\ UNCHANGED <<policies, call, resv, ses, adm, txn, day, faults>>

\* FinishCall after the last provider failed, and failCall.
FinishFailed(c) ==
    /\ At(c, "finishFailed") \/ At(c, "failCall")
    /\ call' = [call EXCEPT ![c].status = "failed", ![c].cost = run[c].total]
    /\ Then(c, Rest(c))
    /\ UNCHANGED <<policies, resv, cache, ses, adm, txn, day, faults>>

SettleBudget(c) ==
    /\ At(c, "settle")
    /\ resv' = [resv EXCEPT ![c].active = FALSE]
    /\ run' = LET answered == Rest(c) = <<"metrics">>
                  mine == [run[c] EXCEPT !.answer = IF answered THEN run[c].route ELSE @]
              IN Tear([run EXCEPT ![c] = Doing(mine, Rest(c))], c)
    /\ UNCHANGED <<policies, call, cache, ses, adm, txn, day, faults>>

FailSession(c) ==
    /\ At(c, "failSession")
    /\ ses' = [ses EXCEPT ![run[c].session].status =
                  IF @ \in {"open", "pinned"} THEN "failed" ELSE @]
    /\ Then(c, Rest(c))
    /\ UNCHANGED <<policies, call, resv, cache, adm, txn, day, faults>>

\* refreshBudgetMetrics: Budget, which may activate the policy.
MetricsBegin(c) ==
    /\ At(c, "metrics")
    /\ txn' = Wanting(c)
    /\ Then(c, <<"metricsTx">>)
    /\ UNCHANGED <<policies, call, resv, cache, ses, adm, day, faults>>

MetricsCommit(c) ==
    /\ At(c, "metricsTx")
    /\ LockFree(c)
    /\ ActivateAndCommit(c)
    /\ txn' = [txn EXCEPT ![c] = NoTransaction]
    /\ LET next == [run EXCEPT ![c] = Returned(@)]
       IN run' = IF Due(policies[txn[c].want]) THEN Tear(next, c) ELSE next
    /\ UNCHANGED <<call, resv, cache, ses, adm, day, faults>>

-----------------------------------------------------------------------------
(* Failures.                                                               *)

\* OnError, if an error path forgot the reservation.
OnErrorUnsettled(c, step) ==
    IF step \in {"settle", "metrics", "metricsTx"} THEN <<>> ELSE <<"failCall">>

\* What Invoke still does when the statement of a step returns an error.
OnError(c, step) ==
    CASE step \in {"activate", "used", "reserved", "decide"}
            -> <<"failCall">>
      [] step = "attempt" -> <<"failCall", "settle">>
      [] step = "pin" -> PinConflict
      [] step \in {"finishAttempt", "finish", "finishFailed"} -> <<"settle">>
      [] step \in {"put", "failCall", "failSession"} -> Rest(c)
      [] step \in {"settle", "metrics", "metricsTx"} -> <<>>

Fallible == Steps \ {"start", "cache"}

\* A statement fails; an open transaction rolls back.  When FinishAttempt or
\* FinishCall fails the reservation is settled although the ledger does not
\* have the cost.
StatementFails(c) ==
    \E step \in Fallible :
        /\ At(c, step)
        /\ faults < MaxFaults
        /\ faults' = faults + 1
        /\ policies' = Voided(policies, txn[c].own)
        /\ txn' = [txn EXCEPT ![c] = NoTransaction]
        /\ LET mine == [run[c] EXCEPT !.dead = @ \/ step = "settle",
                  !.lost = @ \/ step \in {"finishAttempt", "finish", "finishFailed",
                                         "failCall"}]
           IN run' = [run EXCEPT ![c] = Doing(mine, OnError(c, step))]
        /\ UNCHANGED <<call, resv, cache, ses, adm, day>>

\* The process dies: its transaction rolls back, and nobody settles its
\* reservation.
Crash(c) ==
    /\ run[c].todo # <<>> /\ ~At(c, "start")
    /\ faults < MaxFaults
    /\ faults' = faults + 1
    /\ policies' = Voided(policies, txn[c].own)
    /\ txn' = [txn EXCEPT ![c] = NoTransaction]
    /\ run' = [run EXCEPT ![c] = Returned([@ EXCEPT !.dead = TRUE])]
    /\ UNCHANGED <<call, resv, cache, ses, adm, day>>

-----------------------------------------------------------------------------
(* Operators, sessions, the clock.                                         *)

\* GET budget: Budget, whose revision becomes the ETag.
BudgetBegin(a) ==
    /\ adm[a].pc = "get"
    /\ txn' = Wanting(a)
    /\ adm' = [adm EXCEPT ![a].pc = "getTx"]
    /\ UNCHANGED <<policies, call, resv, cache, ses, run, day, faults>>

BudgetCommit(a) ==
    /\ adm[a].pc = "getTx"
    /\ LockFree(a)
    /\ ActivateAndCommit(a)
    /\ LET rows == {r \in DOMAIN policies' : policies'[r].state = "committed"}
       IN adm' = [adm EXCEPT ![a] = [pc |-> "patch", expected |-> Max(rows)]]
    /\ txn' = [txn EXCEPT ![a] = NoTransaction]
    /\ run' = IF Due(policies[txn[a].want]) THEN Tear(run, a) ELSE run
    /\ UNCHANGED <<call, resv, cache, ses, day, faults>>

\* PATCH budget with If-Match: UpdateBudget.
UpdateBegin(a) ==
    /\ adm[a].pc = "patch"
    /\ txn' = Wanting(a)
    /\ adm' = [adm EXCEPT ![a].pc = "patchTx"]
    /\ UNCHANGED <<policies, call, resv, cache, ses, run, day, faults>>

UpdateCommit(a, mode, cap) ==
    /\ adm[a].pc = "patchTx"
    /\ LockFree(a)
    /\ IF txn[a].want = adm[a].expected
       THEN /\ policies' = Append(policies,
                  [mode |-> mode, started |-> policies[txn[a].want].started,
                   daily |-> cap, monthly |-> cap, state |-> "committed"])
            /\ run' = Tear(run, a)
       ELSE UNCHANGED <<policies, run>>   \* ErrPreconditionFailed
    /\ adm' = [adm EXCEPT ![a].pc = "done"]
    /\ txn' = [txn EXCEPT ![a] = NoTransaction]
    /\ UNCHANGED <<call, resv, cache, ses, day, faults>>

CreateSession(s) ==
    /\ ses[s] = None
    /\ ses' = [ses EXCEPT ![s] = [pin |-> 0, status |-> "open"]]
    /\ UNCHANGED <<policies, call, resv, cache, run, adm, txn, day, faults>>

NextDay ==
    /\ day < MaxDay
    /\ day' = day + 1
    /\ UNCHANGED <<policies, call, resv, cache, ses, run, adm, txn, faults>>

-----------------------------------------------------------------------------
Init ==
    /\ policies = <<[mode |-> InitialMode, started |-> 0, state |-> "committed",
                     daily |-> IF InitialMode = "enforce" THEN InitialCap ELSE 0,
                     monthly |-> IF InitialMode = "enforce" THEN InitialCap ELSE 0]>>
    /\ call = [c \in Calls |-> None]
    /\ resv = [c \in Calls |-> None]
    /\ cache = [k \in Tasks \X Providers |-> None]
    /\ ses = [s \in Sessions |-> None]
    /\ run = [c \in Calls |-> Idle]
    /\ adm = [a \in Admins |-> [pc |-> "get", expected |-> 0]]
    /\ txn = [x \in Clients |-> NoTransaction]
    /\ day = 0
    /\ faults = 0

\* The steps of Invoke once it has begun.
Invoke(c) ==
    \/ \E p \in Providers : CacheHit(c, p)
    \/ CacheMiss(c)
    \/ ReserveActivate(c) \/ ReserveUsed(c) \/ ReserveReserved(c) \/ ReserveDecide(c)
    \/ \E outcome \in {"ok", "retryable", "fatal"}, cost \in Costs :
          Attempt(c, outcome, cost)
    \/ FinishAttempt(c) \/ PinSession(c) \/ FinishSucceeded(c) \/ PutCache(c)
    \/ FinishFailed(c) \/ SettleBudget(c) \/ FailSession(c)
    \/ MetricsBegin(c) \/ MetricsCommit(c)

Operator(a) ==
    \/ BudgetBegin(a) \/ BudgetCommit(a) \/ UpdateBegin(a)
    \/ \E mode \in PatchModes, cap \in Caps : UpdateCommit(a, mode, cap)

Next ==
    \/ \E c \in Calls, t \in Tasks, s \in Sessions \cup {None} : Start(c, t, s)
    \/ \E c \in Calls : Invoke(c) \/ StatementFails(c) \/ Crash(c)
    \/ \E a \in Admins : Operator(a)
    \/ \E s \in Sessions : CreateSession(s)
    \/ NextDay

Spec == Init /\ [][Next]_vars

\* A request that has begun runs to its end: providers are called with a
\* timeout and statements return.
FairSpec ==
    Spec /\ \A c \in Calls : WF_vars(Invoke(c))
         /\ \A a \in Admins : WF_vars(Operator(a))

-----------------------------------------------------------------------------
(* What is checked.                                                        *)

TypeOK ==
    /\ policies \in Seq(Policy)
    /\ call \in [Calls -> CallRow \cup {None}]
    /\ resv \in [Calls -> Reservation \cup {None}]
    /\ cache \in [Tasks \X Providers -> CacheEntry \cup {None}]
    /\ ses \in [Sessions -> InferenceSession \cup {None}]
    /\ run \in [Calls -> Invocation]
    /\ adm \in [Admins -> [pc : {"get", "getTx", "patch", "patchTx", "done"}, expected : Nat]]
    /\ txn \in [Clients -> Transaction]
    /\ day \in Days /\ faults \in 0..MaxFaults

Active(c) == resv[c] # None /\ resv[c].active

\* Whatever a provider has charged for a call is held by the call's active
\* reservation or stands in its finished ledger row, from the moment the
\* provider is called and through failovers, pin conflicts and crashes; the one
\* exception is a ledger statement that itself returned an error.  (Order of
\* ReserveBudget, FinishCall and SettleBudget in Invoke.)
SpendIsCovered ==
    \A c \in Calls :
        (run[c].total > 0 \/ At(c, "attempt")) =>
            \/ Active(c)
            \/ Finished(c) /\ call[c].cost = run[c].total
            \/ run[c].lost

\* The answers callers received within one session of a task that is not cached
\* all come from one provider, whichever calls of the session overlap, fail
\* over or fail the session in between.  (PinSession)
OneProviderPerSession ==
    \A c, d \in Calls :
        /\ run[c].session # None /\ run[c].session = run[d].session
        /\ run[c].answer # 0 /\ run[d].answer # 0
        /\ SessionTask \notin CachedTasks
        => run[c].answer = run[d].answer

\* A cached answer belongs to a call the ledger has as succeeded, so a later
\* hit refers to a generation that was paid for.  (Invoke: PutCache after
\* FinishCall)
CachedAnswersLedgered ==
    \A k \in DOMAIN cache :
        cache[k] # None => call[cache[k].of].status = "succeeded"

\* What is committed against the cap: active reservations, and the cost of the
\* settled calls created in the window.
Exposure(first) ==
    MapThenSumSet(LAMBDA c : resv[c].amount, {c \in Calls : Active(c)})
        + CostOf({c \in CreatedIn(first, day) : ~Active(c)})

StaysWithin(row) ==
    row.mode = "enforce" =>
        /\ row.daily # 0 => Exposure(day)' <= row.daily
        /\ row.monthly # 0 => Exposure(0)' <= row.monthly

Admits(c) == resv[c] = None /\ resv'[c] # None

\* A call that reserves under the newest revision, with no settlement and no new
\* revision from its first read to its decision, is admitted only if its reservation, the
\* other active ones and the cost of the settled calls stay within the caps of
\* the policy it read: reservers exclude each other on the policy row, save for
\* one whose row was superseded, twice, while it waited.  (ReserveBudget,
\* budgetStatus)
SerialAdmissionsWithinCap ==
    [][\A c \in Calls : Admits(c) /\ ~run[c].torn
          => StaysWithin(policies[txn[c].want])]_vars

\* The same without the exception: "Panggilan paralel tidak dapat bersama-sama
\* melewati sisa cap" (docs/inference-operations.md:40).
ParallelCallsWithinCap ==
    [][\A c \in Calls : Admits(c) => StaysWithin(policies[txn[c].want])]_vars

\* A call that has begun comes to its end, and its reservation with it unless the
\* process died or the settlement failed: nobody waits forever for the policy row
\* before a reservation or after it, and no return of Invoke forgets to settle,
\* after a failover, a pin another call took, or a statement that failed.
\* (Invoke, ReserveBudget, Budget)
CallsEndSettled ==
    \A c \in Calls :
        call[c] # None ~> (run[c].todo = <<>> /\ (Active(c) => run[c].dead))
=============================================================================
