-------------------------- MODULE OneSignalErasure --------------------------
(***************************************************************************)
(* The durable erasure of a deleted account at the push provider: the      *)
(* outbox row written with the account deletion, the leases under which    *)
(* the workers of all API instances process it, the provider calls, their  *)
(* evidence-and-advance transaction, and the retention cleanup.            *)
(*                                                                         *)
(* Source: internal/usecase/onesignalerasure/onesignalerasure.go,          *)
(* internal/repo/persistent/onesignal_erasure_postgres.go,                 *)
(* internal/repo/webapi/onesignal_erasure.go, DeleteAccount.               *)
(*                                                                         *)
(* Every timestamp is kept relative to the clock: the present is 0 and a   *)
(* tick moves all of them one unit into the past, so that time is not      *)
(* bounded and liveness can be checked.  Timestamps that are only compared *)
(* with the present stop moving once they are older than every comparison. *)
(***************************************************************************)
EXTENDS Integers, FiniteSets

CONSTANTS Erasures,           \* accounts, each with at most one outbox row
          Workers,            \* the erasure loops of the API instances
          Tokens,             \* lease tokens (uuids)
          NoToken, NoRow,     \* NULL, no such row
          Unreadable,         \* rows whose ciphertext no longer decrypts or matches its HMAC
          BatchSize, Lease, VerificationDelay, Retention,
          RetryBackoffBase, RetryBackoffMax,
          MaxRetryExponent,   \* maxRetryExponent (5 in the code)
          RetryAfters,        \* Retry-After values the provider may send
          HTTPTimeout,        \* ONESIGNAL_HTTP_TIMEOUT
          MaxPass,            \* bound: how long a pass may last
          MaxCrashes          \* bound: how many passes die in the middle

ASSUME DurationAssumption ==
    /\ BatchSize \in Nat \ {0}
    /\ {Lease, VerificationDelay, Retention} \subseteq Nat \ {0}
    /\ {RetryBackoffBase, RetryBackoffMax} \subseteq Nat \ {0}
    /\ MaxRetryExponent \in Nat
    /\ RetryAfters \subseteq Nat
    /\ {HTTPTimeout, MaxPass, MaxCrashes} \subseteq Nat

\* validateOneSignalErasureWorker
ASSUME LeaseAssumption == HTTPTimeout < Lease

ASSUME NullAssumption == NoToken \notin Tokens

VARIABLES row,        \* onesignal_user_erasures
          deleted,    \* accounts whose deletion committed
          provider,   \* what the provider still holds of the account
          worker,     \* one pass of Dispatch per worker
          quiet,      \* history: time left of a recorded Retry-After
          crashes

vars == <<row, deleted, provider, worker, quiet, crashes>>

Statuses == {"pending", "verifying", "verified"}
Snapshot == [status : Statuses, attempts : 0..MaxRetryExponent]
ASSUME SnapshotAssumption == NoRow \notin Snapshot

\* attempts counts up to the exponent cap, the last value retryDelay tells
\* apart; until and verifiedAt are 0 while they are NULL.
Row == [status : Statuses, attempts : 0..MaxRetryExponent, next : Int,
        token : Tokens \cup {NoToken}, until : Int, cipher : BOOLEAN,
        verifiedAt : Int]
ASSUME RowAssumption == NoRow \notin Row

Answers == [kind : {"not_found", "accepted", "failed"}, retryAfter : Nat]
NoAnswer == [kind |-> "failed", retryAfter |-> 0]

Worker == [pc : {"idle", "pass", "call", "record"},
           token : Tokens \cup {NoToken}, at : Int,
           seen : [Erasures -> Snapshot \cup {NoRow}],
           cur : Erasures \cup {NoRow}, age : Nat, answer : Answers]

-----------------------------------------------------------------------------
Minimum(a, b) == IF a < b THEN a ELSE b
Maximum(a, b) == IF a < b THEN b ELSE a

Present(e) == row[e] # NoRow

\* The WHERE of ClaimDueOneSignalErasures, after a faulty variant that never
\* takes over an expired lease.
DueUnleased(e) ==
    /\ Present(e)
    /\ row[e].status # "verified"
    /\ row[e].next <= 0
    /\ row[e].token = NoToken
Due(e) ==
    /\ Present(e)
    /\ row[e].status # "verified"
    /\ row[e].next <= 0
    /\ row[e].token = NoToken \/ row[e].until <= 0

\* Rows that a transaction of RecordOneSignalErasureAttempt may be holding.
MayBeLocked == {worker[w].cur : w \in {x \in Workers : worker[x].pc = "record"}}

\* retryDelay(attempt_count + 1)
RetryDelay(attempts) ==
    Minimum(RetryBackoffBase * 2^Minimum(attempts, MaxRetryExponent), RetryBackoffMax)

Todo(w) == {e \in Erasures : worker[w].seen[e] # NoRow}

\* uuid.NewString(): a token that no row and no pass remembers.
UsedTokens == {worker[w].token : w \in Workers}
              \cup {row[e].token : e \in {x \in Erasures : Present(x)}}
NewToken == CHOOSE t \in Tokens : t \notin UsedTokens

IdleWorker == [pc |-> "idle", token |-> NoToken, at |-> 0,
               seen |-> [e \in Erasures |-> NoRow], cur |-> NoRow,
               age |-> 0, answer |-> NoAnswer]

NewRow == [status |-> "pending", attempts |-> 0, next |-> 0, token |-> NoToken,
           until |-> 0, cipher |-> TRUE, verifiedAt |-> 0]

Init ==
    /\ row = [e \in Erasures |-> NoRow]
    /\ deleted = {}
    /\ provider = [e \in Erasures |-> "present"]
    /\ worker = [w \in Workers |-> IdleWorker]
    /\ quiet = [e \in Erasures |-> 0]
    /\ crashes = 0

-----------------------------------------------------------------------------
\* Prepare, then the transaction that anonymizes the user and inserts the
\* outbox row.
DeleteAccount(e) ==
    /\ e \notin deleted
    /\ deleted' = deleted \cup {e}
    /\ row' = [row EXCEPT ![e] = NewRow]
    /\ UNCHANGED <<provider, worker, quiet, crashes>>

\* ClaimDueOneSignalErasures: the oldest due rows, up to the batch size,
\* without those that SKIP LOCKED passes over.
Claimable(S, skipped) ==
    LET due == {e \in Erasures : Due(e)} \ skipped
    IN  /\ S \subseteq due
        /\ Cardinality(S) = Minimum(BatchSize, Cardinality(due))
        /\ \A e \in S, d \in due \ S : row[e].next <= row[d].next

Leased(S, t) ==
    [e \in Erasures |->
        IF e \in S THEN [row[e] EXCEPT !.token = t, !.until = Lease] ELSE row[e]]

\* What a pass keeps of its batch: the rows as RETURNING reported them.
PassOf(S, t) ==
    [pc |-> "pass", token |-> t, at |-> 0,
     seen |-> [e \in Erasures |->
                 IF e \in S THEN [status |-> row[e].status, attempts |-> row[e].attempts]
                 ELSE NoRow],
     cur |-> NoRow, age |-> 0, answer |-> NoAnswer]

Claim(w) ==
    /\ worker[w].pc = "idle"
    /\ ~(Tokens \subseteq UsedTokens)
    /\ \E S \in SUBSET Erasures \ {{}}, skipped \in SUBSET MayBeLocked :
        /\ Claimable(S, skipped)
        /\ row' = Leased(S, NewToken)
        /\ worker' = [worker EXCEPT ![w] = PassOf(S, NewToken)]
    /\ UNCHANGED <<deleted, provider, quiet, crashes>>

\* CleanupVerifiedOneSignalErasures for a pass that began at the time at.
Cleaned(at) ==
    [e \in Erasures |->
        IF /\ Present(e)
           /\ row[e].status = "verified"
           /\ row[e].verifiedAt < at - Retention
        THEN NoRow ELSE row[e]]

\* A pass that claims nothing only cleans up.
EmptyPass(w) ==
    /\ worker[w].pc = "idle"
    /\ \A e \in Erasures : Due(e) => e \in MayBeLocked
    /\ row' = Cleaned(0)
    /\ UNCHANGED <<deleted, provider, worker, quiet, crashes>>

\* The end of Dispatch, after the last item of the batch.
FinishPass(w) ==
    /\ worker[w].pc = "pass"
    /\ Todo(w) = {}
    /\ row' = Cleaned(worker[w].at)
    /\ worker' = [worker EXCEPT ![w] = IdleWorker]
    /\ UNCHANGED <<deleted, provider, quiet, crashes>>

\* process, up to the provider call; RETURNING promises no order.
Calling(q, e) == [q EXCEPT !.pc = "call", !.cur = e, !.age = 0]
Call(w) ==
    /\ worker[w].pc = "pass"
    /\ \E e \in Todo(w) \ Unreadable :
        worker' = [worker EXCEPT ![w] = Calling(worker[w], e)]
    /\ UNCHANGED <<row, deleted, provider, quiet, crashes>>

\* process, when the ciphertext does not open: recordFailure, no call.
Skipping(q, e) == [q EXCEPT !.pc = "record", !.cur = e, !.answer = NoAnswer]
Undecipherable(w) ==
    /\ worker[w].pc = "pass"
    /\ \E e \in Todo(w) \cap Unreadable :
        worker' = [worker EXCEPT ![w] = Skipping(worker[w], e)]
    /\ UNCHANGED <<row, deleted, provider, quiet, crashes>>

\* DeleteUser and ViewUser as the provider answers them.
Recording(q, kind, retry) ==
    [q EXCEPT !.pc = "record", !.age = 0,
              !.answer = [kind |-> kind, retryAfter |-> retry]]
Answered(w, kind, retry) ==
    worker' = [worker EXCEPT ![w] = Recording(worker[w], kind, retry)]

Deleting(e) == provider' = [provider EXCEPT ![e] = "deleting"]

\* The operation is chosen by the status the claim returned.
AnswerDelete(w) ==
    LET e == worker[w].cur
    IN  /\ worker[w].pc = "call"
        /\ worker[w].seen[e].status # "verifying"
        /\ \/ provider[e] = "gone" /\ Answered(w, "not_found", 0) /\ UNCHANGED provider
           \/ provider[e] # "gone" /\ Answered(w, "accepted", 0) /\ Deleting(e)
        /\ UNCHANGED <<row, deleted, quiet, crashes>>

AnswerView(w) ==
    LET e == worker[w].cur
    IN  /\ worker[w].pc = "call"
        /\ worker[w].seen[e].status = "verifying"
        /\ Answered(w, IF provider[e] = "gone" THEN "not_found" ELSE "accepted", 0)
        /\ UNCHANGED <<row, deleted, provider, quiet, crashes>>

\* A refusal (4xx, 429 with Retry-After, 5xx), or a transport error; the
\* request of a timed out delete may have reached the provider.
AnswerFailure(w) ==
    LET e == worker[w].cur
    IN  /\ worker[w].pc = "call"
        /\ \/ \E retry \in RetryAfters :
                Answered(w, "failed", retry) /\ UNCHANGED provider
           \/ /\ worker[w].seen[e].status # "verifying"
              /\ provider[e] = "present"
              /\ Answered(w, "failed", 0) /\ Deleting(e)
        /\ UNCHANGED <<row, deleted, quiet, crashes>>

-----------------------------------------------------------------------------
\* recordAccepted, recordVerified and recordFailure: the status, the time of
\* the next attempt and whether the identifier is dropped, from the answer and
\* from what the claim returned.  at is the beginning of the pass.  Faulty
\* variants first: a failure leaves the status machine, and a profile that is
\* still there counts as verified.
NextStatusFailed(seen, kind) ==
    CASE kind = "not_found" -> "verified"
      [] kind = "accepted" -> "verifying"
      [] kind = "failed"   -> "failed"
NextStatusAcceptedIsDone(seen, kind) ==
    CASE kind = "not_found" -> "verified"
      [] kind = "accepted" ->
            IF seen.status = "verifying" THEN "verified" ELSE "verifying"
      [] kind = "failed"   -> IF seen.status = "verifying" THEN "verifying" ELSE "pending"
NextStatus(seen, kind) ==
    CASE kind = "not_found" -> "verified"
      [] kind = "accepted" -> "verifying"
      [] kind = "failed"   -> IF seen.status = "verifying" THEN "verifying" ELSE "pending"

NextAttempt(seen, answer, at) ==
    CASE answer.kind = "not_found" -> at
      [] answer.kind = "accepted"  -> at + VerificationDelay
      [] answer.kind = "failed"    ->
            at + Maximum(RetryDelay(seen.attempts),
                         Minimum(answer.retryAfter, RetryBackoffMax))

\* advanceOneSignalErasure
Advanced(w) ==
    LET q == worker[w]
        seen == q.seen[q.cur]
        status == NextStatus(seen, q.answer.kind)
    IN  [status |-> status,
         attempts |-> Minimum(row[q.cur].attempts + 1, MaxRetryExponent),
         next |-> NextAttempt(seen, q.answer, q.at),
         token |-> NoToken, until |-> 0,
         cipher |-> IF status = "verified" THEN FALSE ELSE row[q.cur].cipher,
         verifiedAt |-> IF status = "verified" THEN q.at ELSE 0]

\* The lease fence: WHERE id = $1 AND lease_token = $2.  Faulty variants: some
\* lease suffices, and no lease is asked for.
HoldsAnyLease(w) == Present(worker[w].cur) /\ row[worker[w].cur].token # NoToken
HoldsNothing(w) == Present(worker[w].cur)
HoldsLease(w) ==
    Present(worker[w].cur) /\ row[worker[w].cur].token = worker[w].token

Processed(q) ==
    [q EXCEPT !.pc = "pass", !.cur = NoRow, !.answer = NoAnswer,
              !.seen = [q.seen EXCEPT ![q.cur] = NoRow]]
NextItem(w) == worker' = [worker EXCEPT ![w] = Processed(worker[w])]

Record(w) ==
    /\ worker[w].pc = "record"
    /\ HoldsLease(w)
    /\ row' = [row EXCEPT ![worker[w].cur] = Advanced(w)]
    /\ quiet' = [quiet EXCEPT ![worker[w].cur] =
                    Minimum(worker[w].answer.retryAfter, RetryBackoffMax)]
    /\ NextItem(w)
    /\ UNCHANGED <<deleted, provider, crashes>>

\* ErrOneSignalErasureLeaseLost: the evidence is rolled back with the rest.
LeaseLost(w) ==
    /\ worker[w].pc = "record"
    /\ ~HoldsLease(w)
    /\ NextItem(w)
    /\ UNCHANGED <<row, deleted, provider, quiet, crashes>>

\* The process dies or its database connection fails: only the leases remain.
Crash(w) ==
    /\ worker[w].pc # "idle"
    /\ crashes < MaxCrashes
    /\ crashes' = crashes + 1
    /\ worker' = [worker EXCEPT ![w] = IdleWorker]
    /\ UNCHANGED <<row, deleted, provider, quiet>>

\* The provider completes an accepted deletion.
ProviderErases(e) ==
    /\ provider[e] = "deleting"
    /\ provider' = [provider EXCEPT ![e] = "gone"]
    /\ UNCHANGED <<row, deleted, worker, quiet, crashes>>

-----------------------------------------------------------------------------
\* One unit of time passes.
Earlier(t, floor) == IF t > -floor THEN t - 1 ELSE t

Aged(r) ==
    IF r = NoRow THEN NoRow
    ELSE [r EXCEPT !.next = Earlier(r.next, MaxPass),
                   !.until = IF r.token = NoToken THEN r.until ELSE Earlier(r.until, 0),
                   !.verifiedAt = IF r.status # "verified" THEN r.verifiedAt
                                  ELSE Earlier(r.verifiedAt, MaxPass + Retention + 1)]

Older(q) ==
    IF q.pc = "idle" THEN q
    ELSE [q EXCEPT !.at = q.at - 1,
                   !.age = IF q.pc = "call" THEN q.age + 1 ELSE q.age]

Tick ==
    /\ \A w \in Workers : worker[w].pc # "idle" => worker[w].at > -MaxPass
    /\ row' = [e \in Erasures |-> Aged(row[e])]
    /\ worker' = [w \in Workers |-> Older(worker[w])]
    /\ quiet' = [e \in Erasures |-> Maximum(quiet[e] - 1, 0)]
    /\ UNCHANGED <<deleted, provider, crashes>>

\* Processes that are not paused: only provider calls take time, and none
\* longer than the HTTP client's timeout.
Timely ==
    \A w \in Workers :
        \/ worker[w].pc = "idle"
        \/ worker[w].pc = "call" /\ worker[w].age < HTTPTimeout

Step(w) ==
    \/ Claim(w) \/ EmptyPass(w) \/ FinishPass(w)
    \/ Call(w) \/ Undecipherable(w)
    \/ AnswerDelete(w) \/ AnswerView(w) \/ AnswerFailure(w)
    \/ Record(w) \/ LeaseLost(w)

Others ==
    \/ \E e \in Erasures : DeleteAccount(e) \/ ProviderErases(e)
    \/ \E w \in Workers : Step(w) \/ Crash(w)

Next == Others \/ Tick

Spec == Init /\ [][Next]_vars

TimelyTick == Timely /\ Tick

\* The supervisor starts pass after pass and a pass runs to its end, the
\* provider completes what it accepted, the clock runs.
Fairness ==
    /\ \A w \in Workers : WF_vars(Step(w))
    /\ \A e \in Erasures : WF_vars(ProviderErases(e))
    /\ WF_vars(TimelyTick)

FairSpec == Spec /\ Fairness

-----------------------------------------------------------------------------
\* The outbox, the provider and the passes hold values of their types; a row's
\* status stays one the CHECK constraint of the table allows.
TypeOK ==
    /\ row \in [Erasures -> Row \cup {NoRow}]
    /\ deleted \subseteq Erasures
    /\ provider \in [Erasures -> {"present", "deleting", "gone"}]
    /\ worker \in [Workers -> Worker]
    /\ quiet \in [Erasures -> Nat]
    /\ crashes \in 0..MaxCrashes

\* The obligation that DeleteAccount commits is never lost: while the provider
\* still holds a deleted account there is an unfinished outbox row with its
\* identifier, whatever late workers, crashes and the retention cleanup do.
ErasureNeverForgotten ==
    \A e \in deleted :
        provider[e] # "gone" =>
            Present(e) /\ row[e].status # "verified" /\ row[e].cipher

\* onesignal_user_erasures_verified_check never fires: the identifier is gone
\* exactly from the verified rows (recordVerified and recordFailure of a worker
\* that lost its lease must not mix).
IdentifierClearedWhenVerified ==
    \A e \in Erasures :
        Present(e) => (row[e].status = "verified" <=> ~row[e].cipher)

Rank(r) ==
    IF r = NoRow THEN 3
    ELSE IF r.status = "verified" THEN 2
    ELSE IF r.status = "verifying" THEN 1 ELSE 0

\* An answer that arrives after the lease was taken over never moves a row
\* backwards: pending, verifying, verified, removed.
StatusOnlyAdvances ==
    [][\A e \in deleted : Rank(row[e]) <= Rank(row'[e])]_vars

ProviderRecovers == <>[][~ \E w \in Workers : AnswerFailure(w)]_vars

\* The clock no longer overtakes a pass.
PausesEnd == <>[][Tick => Timely]_vars

\* Once the provider stops failing and processes are no longer paused, every
\* readable erasure is completed and stays so, although passes have died or
\* outlived their lease, and rows lost theirs in the middle of a batch (accounts
\* are finitely many, so deletions come to an end).
DeletedAccountsAreErased ==
    ProviderRecovers /\ PausesEnd =>
        <>[](\A e \in deleted \ Unreadable :
                 provider[e] = "gone" /\ Rank(row[e]) >= 2)

\* Retry-After is honoured (429 in docs/onesignal-erasure.md): no call begins
\* while a recorded Retry-After, capped at the maximal backoff, is running.
RetryAfterHonoured ==
    [][\A w \in Workers :
          (worker[w].pc = "pass" /\ worker'[w].pc = "call")
              => quiet[worker'[w].cur] = 0]_vars
=============================================================================
