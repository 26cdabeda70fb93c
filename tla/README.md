# Formal models of surau-backend

TLA+ models of the concurrent protocols of the Surau backend, TLC runs that
check them on small instances, and TLAPS proofs of their main invariants for
every value of the constants. Paths below are relative to the repository.

## 1. The system

Surau is one Go service (several instances may run) over one PostgreSQL
database, with REST and gRPC handlers, supervised background loops, a handful
of external providers (OneSignal, Cloudflare Email, LLM providers), command
line importers, a collaboration server in TypeScript and an edge cache. Nothing
is shared in memory between requests that matters for correctness: all
coordination goes through SQL at READ COMMITTED, with row locks, guarded
UPDATEs (`WHERE ... IS NULL`, `RowsAffected() != 1`), leases and version
columns. That is where the hard behaviour is: a handler reads, decides, calls
somebody, and writes, and between any two of these steps another handler, a
crash or a timeout may come.

| Part | State | Operations | Interacts with | What is hard | What makes it correct |
|---|---|---|---|---|---|
| refresh-token sessions (`usecase/user/session.go`, `repo/persistent/auth_session_postgres.go`) | `auth_sessions`, `users.token_version` | login, refresh, logout, revoke one, revoke all, password/email change, reset, delete, cleanup | second factor, accounts | rotation racing rotation, revocation and version bumps; stale reads; row and user locks | one live row per family, tokens exchanged once, nothing survives a bump |
| second factor (`usecase/user/mfa.go`, `mfa_postgres.go`) | `user_mfa`, recovery codes, `mfa_challenges`, the step-up stamp | enroll, confirm, verify login, step up, regenerate, disable, reset | sessions | codes checked against rows read earlier; several statements per operation without a transaction | one session per challenge, a factor is accepted once, a stamp belongs to the enrollment in force |
| push-provider erasure (`usecase/onesignalerasure`, `onesignal_erasure_postgres.go`, `webapi/onesignal_erasure.go`) | `onesignal_user_erasures` | enqueue with the deletion, claim, call, record, clean up | account deletion, OneSignal, loop supervisor | leases that expire during a batch, late answers, timeouts that took effect, crashes | the obligation is never lost, status only advances, erasure eventually completes |
| accounts, credential tokens, lockout (`usecase/user/user.go`, `lockout.go`, `user_postgres.go`) | `users`, token tables, lockout counters | register, verify, reset, change, roles, failed logins | sessions, email | check-then-act across rows | verified addresses were proven, a change kills older links, deletions are final, an administrator remains |
| inference gateway (`usecase/inference`, `inference_postgres.go`) | policies, reservations, calls, cache, session pins | reserve, call with failover, finish, settle | LLM providers | crash between reserve and settle, policy revision changing under a waiter | spending is reserved or in the ledger, admissions stay within the cap, calls end and settle, one provider per session |
| email (`usecase/email`, `email_postgres.go`) | messages, campaigns, recipients, suppressions, poll cursors | enqueue, claim, send, poll events, resend | Cloudflare, accounts | visibility timeout without a fence, answers lost after the provider accepted, a poll with a limit, campaigns left in sending | a message is sent once unless a claim is outlived or an acceptance goes unrecorded, scheduled messages and campaign runs end, a delivery report is acted on before the poll window leaves it and repeated ones change nothing |
| notifications (`usecase/notification`, `notification_postgres.go`) | deliveries with leases | schedule, claim, send, expire | OneSignal | as in erasure, with deadlines and quiet hours | one logical delivery per day |
| editorial and production (`usecase/editorial`) | drafts, projects, publication state | save, review, publish | licence gate, collaboration server | optimistic locking by `updated_at`, gates evaluated on several tables | nothing is published unlicensed or incomplete, no lost update |
| citable units and backfills (`usecase/unitregistry`, `internal/backfill`) | unit catalog, cursors | plan, apply, resume | importers | identity kept over re-imports, resuming | ids are never reused |
| personal data (`usecase/personal`) | bookmarks, progress, khatam | sync with idempotency keys | - | retries, out-of-order devices | last writer by client time, replays are no-ops |
| readers, retrieval, importers, evaluation, infrastructure | content | read, load | - | little: read-only or single process | - |

`PROJECT.json` lists every component with its sources and the hazards with
their lines.

## 2. Modules

| Module | Models |
|---|---|
| `SessionFamilies` | abstract specification: families of refresh tokens of which at most one is redeemable, spent tokens stay spent, closed families stay closed |
| `AuthSessions` | the session tables and the handlers, refines `SessionFamilies` |
| `AuthSessionsProofs` | TLAPS proofs about `AuthSessions` |
| `OneSignalErasure` | the erasure outbox, workers, provider and clock |
| `OneSignalErasureProofs` | TLAPS proofs about `OneSignalErasure` |
| `SecondFactor` | TOTP enrollment, recovery codes, challenges and step-up of one account |
| `SecondFactorProofs` | TLAPS proofs about `SecondFactor` |
| `InferenceGateway` | calls, ledger, budget policy and reservations, failover, session pins, answer cache |
| `FiniteSums` | sums over finite sets: lemmas for the budget |
| `InferenceGatewayProofs` | TLAPS proofs about `InferenceGateway` |
| `EmailOutbox` | transactional messages to one address: sending, queue, dispatcher, resend, delivery reports, suppression |
| `EmailOutboxProofs` | TLAPS proofs about `EmailOutbox` |
| `EmailPoll` | the poll for delivery failures: window, limit, cursor |
| `EmailCampaigns` | one marketing campaign from draft to sent, retried or cancelled |
| `EmailCampaignsProofs` | TLAPS proofs about `EmailCampaigns` |
| `Accounts` | accounts, the three kinds of mailed tokens, password and address changes, roles, deletion |
| `AccountsProofs` | TLAPS proofs about `Accounts` |
| `MC...` | instances of the module of that name for TLC |

The modules are about different tables of one database. Where two parts meet,
one module models the meeting in detail and the other keeps what it needs of
it: `AuthSessions` has the session side of password change, address change,
reset and deletion, `Accounts` their account and token side; `OneSignalErasure`
starts with the deletion that `Accounts` describes; `EmailPoll` says which
reports a poll asks for, `EmailOutbox`, where a report may come in at any time,
what it does to a message; `EmailOutbox` and `EmailCampaigns` share the suppression list, which each of them lets change at
any time.

### How requests are modelled

In `AuthSessions` and `SecondFactor` a concurrent request is a slot of `req`
with a program counter. An action is one SQL statement, or one step of a
transaction, with the Go code around it, and whatever the handler read stays in
its slot, so it can be stale when it is used. READ COMMITTED is modelled where
it matters: an UPDATE or DELETE of several rows chooses its rows from a
snapshot in one action and, when none of them is locked any more, re-evaluates
its condition on their current versions in another; rows inserted in between
are not seen. `FOR UPDATE` locks last from `RotateLock` to `RotateCommit`; the
uncommitted `token_version` bump locks the `users` row. The bumps update no
key column and let the foreign-key check of an insert into `auth_sessions`
pass; only `ChangeEmailWithToken` takes the row `FOR UPDATE` and keeps it out
(`KeyLocked`). `Abandon` is a handler that dies or is rolled back.

### AuthSessions

`user` holds `token_version` and `deleted_at`, `table` is `auth_sessions`,
`access` remembers the claims of all access tokens. `Login` /
`CreateAuthSession` are the two database steps of a login; `RefreshLoad`,
`RefreshReuse`, `RefreshStale`, `RefreshLoadUser`, `RotateLock` and
`RotateCommit` those of `RefreshSession`; `Logout`, `RevokeSession` and every
refused refresh end in `RevokeSnapshot` / `RevokeApply`
(`RevokeAuthSessionFamily`); `BumpUser`, `BumpSnapshot` and `BumpCommit` stand
for `RevokeAllAuthSessions`, `ChangePassword`, `ChangeEmailWithToken`,
`ResetPasswordWithToken` and `DeleteAccount`, which share their shape; `StepUp`
/ `StampApply` are the step-up; `CleanupAuthData` the maintenance job.
`RotateLock` waits for the row lock and then is `ValidateRotation`, the checks
under it. `cut`, `ended`, `stepped` and `exchanged`, the number of times a token
was exchanged, are history variables for the properties. Tokens are
opaque ids: hashing, user agents, audit records and emails are left out.

### OneSignalErasure

`row` is the outbox, `worker[w]` one pass of `Dispatch` in an API instance
(`seen` is what the claim returned, `at` the time taken at its beginning),
`provider` what OneSignal holds. A pass is `Claim`, then for each row `Call`,
an answer, and `Record` or `LeaseLost`, and finally `FinishPass`, which cleans
up. The provider may fail, ask for a pause, or carry out a delete whose answer
is lost. Timestamps are relative to the present, so that time is unbounded and
the state space finite. `attempt_count` is capped at the exponent cap, the last
value that `retryDelay` distinguishes. The key that opens the identifier may be
missing (`Unreadable`). The supervisor's pause between passes is any delay, as
`Claim` may happen at any time.

### SecondFactor

`mfa` is the `user_mfa` row, `codes` the unused recovery codes, `chal` the
challenges, `ses` the sessions by family, `now` the TOTP period. A TOTP code is
a pair of a secret and a period, and `AcceptTOTP` is `verifyTOTP` with
`AdvanceMFATOTPStep`: the match is against the secret in the slot, the guard on
the current row. Accounts share no state here, so one is enough. The family row
stands for its current row; its rotation is the subject of `AuthSessions`, and
what a rotation does to the stamp is in section 3. `Starts` says whether the
account begins without a factor or with one confirmed earlier, with or without
recovery codes. Rate limits, role policy and failing
emails are left out.

### InferenceGateway

A call is a process that works through `run[c].todo`, the statements `Invoke`
still has to make; success, failover, a pin conflict and every error return
(`OnError`) replace that list. `ReserveBudget` is one transaction but four
actions: `ReserveActivate` (`maybeActivateBudget` on the locked row),
`ReserveUsed` and `ReserveReserved` (the two sums of `budgetStatus`, each with
its own snapshot) and `ReserveDecide`. `policies` is the append-only table, in
which `ORDER BY revision DESC LIMIT 1 FOR UPDATE` picks its row before it waits
(`txn[x].want`). Operators read the budget and patch it with `If-Match`. Money
is in units, time in days of one month, all routes cost the same, and prompts,
schemas, encryption and prices are left out. `torn`, `lost`, `dead` and `answer`
are history; a reserver is `torn` when a settlement or a new revision falls
between its reads, or when it locked its rows too late to exclude the reservers
of the newest revision (`Superseded`).

### EmailOutbox

`msg` is `email_messages` for one address and `suppressed` its suppression.
`SendNow` is the synchronous send, `Enqueue` / `EnqueueSchedule` the queued one,
`Claim`, `Check`, `Send`, `Record`, `BounceEvent`, `BounceSuppress` the
dispatcher, `ResendLoad`, `ResendCheck`, `ResendSchedule` the administrator's
resend, and `Ingest`, `Mark`, `Suppress` a poll or a webhook request that works
on one report. Instead of a clock, a `scheduled_at` in the future may elapse at
any moment, also under a sender that has claimed the message. An error of the
provider may hide an acceptance (`SendAnswerLost`: a timeout or an unreadable
body, `cloudflare_email.go:96`). The provider may report on a message it accepted
any number of times, and every report has a dedupe key of its own, as the code's
keys hold the datetime and the cause, or the webhook's id or hash; a report may
come in any number of times, also twice at once. `excuse` counts the reasons for
which the code sends a message again: an outlived claim, a lost answer, an
acceptance that died unrecorded, a resend.

### EmailPoll

`poll[p]` is one run of `PollCloudflareEmailEvents`: `ReadCursor` computes the
start of the window, `Ask` gets the earliest reports of it up to the limit,
`Record`, `MarkTargets` and `Suppress` work on them one by one, and `Advance`
moves the cursor to the time at which the poll began, whatever the limit left
out (`cut`) and whatever another poll has written meanwhile. Every instant has at
most one report, with a recipient of its own. The provider is assumed to list a
report within the lookback (`DelayAssumption`), which is what the overlap of the
windows is for; if it is later than that, or cut off by the limit, it is lost.
The truncation of the window to seconds is within the overlap and left out.

### EmailCampaigns

A slot is a request or a dispatcher run, `rec` the recipients of the current
snapshot, `gen` the number of snapshots: a new one has new row ids, so a run
that listed the old one updates nothing. `Load` reads the campaign, `Claim` is
the guarded claim, `Prepare` the audience snapshot, `List`, `Check`, `Send`,
`Log` and `Record` the delivery loop, and `WriteStatus` the unconditional
`UpdateEmailCampaign` with which every request ends. As in `EmailOutbox` the
answer to an accepted mail may be lost, and `Bounce` may come before the
acceptance is recorded. `overrun` is history: an edit or a schedule that had read
a draft has landed on a campaign that was claimed, sent or cancelled since. From
then on nothing is claimed about it, and the counters of accepted mails are no
longer kept.

### Accounts

`user` is `users`, `token` the three token tables, and a slot a request at
statement granularity with the lock it holds: `RevokeSnapshot` / `RevokeMark` /
`StoreToken` replace the tokens of a kind, `MailToken` and `MailFails` are the
mail, `PresentToken`, `LockUser`, `UseToken`, `UpdateUser` and `Commit` the use
of a link, and `StartChange`, `StartRole` and `CountAdmins` password change,
deletion and role change. A deleted account's placeholder address is `None`.
`gen`, `epoch`, `late`, `proven` and `adminRace` are history; `adminRace` says
that an administrator deleted the own account or that a demotion was counted
while the demotion of another administrator was about to commit. Expiry, cooldown
and rate limits only refuse requests.

## 3. Runs

Runs that must pass:

| Run | Configuration | Shows |
|---|---|---|
| `sessions` | 1 user, 3 tokens, 2 requests, 1 tick, 1 bump; all operations but step-up | `TypeOK`, `OneLiveRowPerFamily`, `RotationIsLinear`, `BumpCutsOff`, refinement `ImplementsFamilies` |
| `sessions_waits` | 2 tokens, 2 requests; login, refresh, logout, logout-all, step-up | `LockWaitsEnd`: locks are released and every wait ends |
| `erasure` | 2 accounts (one undecipherable), 2 workers, calls of up to 1 unit, lease 2, pauses that make a pass last 3, 1 crash | `TypeOK`, `ErasureNeverForgotten`, `IdentifierClearedWhenVerified`, `StatusOnlyAdvances`, `DeletedAccountsAreErased`; no deadlock |
| `second_factor` | 2 secrets (one confirmed before), 1 batch of recovery codes, 2 challenges, 2 families, 2 requests, 2 periods | `TypeOK`, `OneSessionPerChallenge`, `FactorAcceptedOnce`, `StampOfThisEnrollment`, `ConfirmedEnrollmentKept` |
| `inference` | 2 calls, 2 providers, 1 session, 2 tasks (one cached), the day the baseline ends, 1 fault | `TypeOK`, `SpendIsCovered`, `OneProviderPerSession`, `CachedAnswersLedgered` |
| `inference_budget` | 2 calls of 1 session, 2 providers, 1 operator, cap 6 with reservations of 4 and calls of 2, 1 fault | `SerialAdmissionsWithinCap`, `CallsEndSettled` |
| `email_outbox` | 1 message, 2 slots, 2 ingestions, 2 reports, a ladder of 2 retries, 1 outlived claim or resend, 1 fault | `TypeOK`, `AcceptedOnce`, `ScheduledMessagesEnd`, `SentStaysSent` |
| `email_poll` | 2 polls, 4 instants, 2 reports listed up to 1 late, lookback 1, limit 1 | `TypeOK`, `NothingPassedOver` |
| `campaigns` | 2 addresses, batches of 1, 2 slots, 2 snapshots, 1 bounce, 1 fault or lost answer | `TypeOK`, `CampaignMailedOnce`, `SentMeansDone`, `RunsEnd` |
| `accounts` | 2 accounts (1 administrator), 2 addresses, 2 tokens, 2 requests, 2 changes | `TypeOK`, `VerifiedByMail`, `AdminRemains`, `OldLinksDead`, `DeletedStaysDeleted` |

Runs that show the code doing what a comment or document denies:

| Run | Property | What happens |
|---|---|---|
| `logout_race` | `AcknowledgedRevocationHolds` | logout takes its snapshot while a rotation of the same family is open, waits for the retired row, and never sees the successor: the device stays logged in after an acknowledged logout |
| `budget_race` | `ParallelCallsWithinCap` | a call finishes and settles between the two reads of another call's `budgetStatus`; neither sum contains it and the cap is exceeded |

The models also state three properties that the code breaks and that no run
checks; each is found by TLC within seconds when it replaces the property of
the configuration named:

- `StepUpSurvivesRotation` (`AuthSessions`; `MCAuthLogoutRace.cfg` with
  `Ops <- StepUpOps` and `MaxTime = 1`): a step-up between the read and the
  commit of a refresh stamps the row being retired, and the successor carries
  the old stamp, against `session.go:101`.
- `RetryAfterHonoured` (`OneSignalErasure`; `MCOneSignalErasure.cfg`): the retry
  time counts from the beginning of the batch, so a late `429` is retried too
  early, against `docs/onesignal-erasure.md:70`.
- `ConfirmedSecretWasProved` (`SecondFactor`; `MCSecondFactor.cfg` with
  `Starts <- WithoutFactor` and no `VIEW`): an
  enrollment started again between the check of the code and `ConfirmMFA` makes
  it activate a secret no code of which was checked, against `mfa.go:149`.

Some exceptions are written into properties that hold otherwise, and the hazard
behind an exception is then not caught by the property. `AdminRemains` excepts
overlapping demotions of two administrators, which count the administrators
without locking them (`user_postgres.go:446`), and the deletion of the own
account; what it checks is the guard against an actor who is an administrator no
longer. `CampaignMailedOnce`, `SentMeansDone` and `RunsEnd` except stale writes
(`email.go:597`, `email.go:632`), after which a campaign can be sent twice.
`NothingPassedOver` excepts what the limit cut off a poll (`email.go:913`), and
what the provider reported before the first window; a process that dies does not
excuse anything. `OldLinksDead` excepts links stored while a change was under way.
`ConfirmedEnrollmentKept` is about a secret once confirmed; which secret a
confirmation activates is `ConfirmedSecretWasProved` above.
`SerialAdmissionsWithinCap` excepts reservers that are `torn`. One way to be torn
came out of its proof. `budgetStatus` asks for the latest row a second time
(`inference_postgres.go:1058`), and a waiter keeps the row its snapshot chose:
if the policy is overridden while a reserver waits for its first row and again
while it waits for the second, it ends with a lock on a row that is no longer
the newest, reserves at the same time as a call that locked the newest one, and
both are admitted where there is room for one. This is another way past
`docs/inference-operations.md:40`.

### Bounds

Two requests reach every race of the session and second-factor protocols, all
of which are between a reader that acts late and one writer; a third token is
what it takes to rotate a family twice, or to rotate while another family is
opened. One tick lets a token of lifetime 1 expire. One version bump separates
before from after; the proofs cover any number. `second_factor` starts with
a factor, so that it is removed and replaced within two secrets; the account is
without one in between. Its `VIEW` leaves out what no step and no property of
the run reads again. In `erasure` a pass may
last longer than the lease, which is what makes two workers hold the same row,
and more tokens than workers and rows that remember one exist, so a fresh
lease token is never missing. Two calls suffice for every race of the gateway
(one reserves while the other settles, pins, caches or activates); in `inference_budget` a cap of 6
with reservations of 4 admits the second call only when the first has settled.
There is one operator: a waiter whose row is superseded at both of its locks
(section 3), and a `PATCH` whose `If-Match` fails, need two. `AdmissionsWithinCap`
is proved for any number. In `campaigns` two snapshots are needed to
send a campaign that was scheduled, and to replace the recipients under a run;
batches of one make the delivery loop go round. The messages of `EmailOutbox`
share nothing but the suppression, so one is enough for what is claimed; a
batch only lengthens the time between claim and send, which is arbitrary anyway.
Two reports are a first one and a later one about the same message, two
ingestions let one report come in twice at once. In `email_poll` a lookback of 1
and four instants let a report be listed late, leave the window of a later poll,
and meet two overlapping polls; a limit of 1 cuts off the other report.
In `accounts` two addresses let one change hands, and two tokens let a link
meet its replacement or one of another kind. Only `erasure`
checks deadlock: elsewhere clients may stop calling and ids
run out. Every
bound is a constant that appears in a guard (`MaxTime`, `MaxVersion`,
`MaxPass`, `MaxCrashes`, the sets of ids).

### Fairness

- `LockWaitsEnd`: strong fairness of the steps of a started handler. A waiter
  of a PostgreSQL row lock is queued, so others may get the lock first but not
  forever. No fairness of clients, clock or cleanup. The claim leaves out the
  email change: its `FOR UPDATE` on `users` and the wait for a session row
  form a cycle with a rotation, which only PostgreSQL's deadlock detector ends.
- `DeletedAccountsAreErased`: weak fairness of each worker's steps (the
  supervisor of `internal/app/loop.go` starts pass after pass, also after an
  error or a panic), of the provider completing an accepted deletion, and of
  the clock while no process is paused (`TimelyTick`). Claimed for
  readable rows, and only if the provider eventually stops failing and processes
  eventually are not paused in a call beyond the HTTP timeout, or between two
  statements (`PausesEnd`).
- `CallsEndSettled` and `RunsEnd`: weak fairness of the steps of a call or
  request that has begun; providers are called with a timeout and statements
  return. A crash is not excluded by this: it ends the request.
- `ScheduledMessagesEnd`: moreover the dispatcher keeps running
  (`internal/app/loop.go`) and time passes. Nothing is assumed of the poll and of
  the webhook.

## 4. Proofs

The theorems hold for all values of the constants that satisfy the named
assumptions (`SidsAssumption`, `BoundsAssumption`, `LeaseAssumption`, ...),
which TLC evaluates in the runs. The assumptions say that NULL is not a value or
a row, that durations, prices and bounds are natural numbers, that the lease is
longer than a call, that caps are positive (the CHECK constraint), and, where
something is counted or summed, that the set of slots or calls is finite. Every
inductive invariant was checked with TLC on the instance of its run before it
was proved. In each module `IndInv` is the conjunction described below; a lemma
per action shows that the action keeps it.

`AuthSessionsProofs` proves `TypeCorrect`, `OneLiveRow`, `LinearRotation`,
`BumpsCutOff` and `RefinesFamilies` from one inductive invariant `IndInv`:

- `RowsInv`: a row agrees with the claims issued for its id, at most one row of
  a family is live, a row with a successor is revoked and the successor was
  issued into the same family, and no two rows share a successor;
- `IssuedInv`: an id is issued once, into a family whose first id was issued;
- `VersionInv`: the version in issued claims is at most the user's, and smaller
  for ids in `cut`;
- `SlotsInv`: what a slot remembers is still true in the sense in which its
  next step needs it: a reserved id was not issued and is reserved once, the
  version in a slot is at most the user's (smaller if the id is in `cut`), and
  a slot in `commit` holds the only lock on a row that is still live and
  unreplaced.

`OneLiveRowPerFamily` is not inductive alone: that the rotation's insert keeps
it needs the locked row to be the live one still, which `SlotsInv` carries from
`RotateLock` to `RotateCommit`, and that a login opens a family nobody else
writes to, which follows from `IssuedInv` and the reserved ids.
`RefinesFamilies` shows that a commit maps to `Open` or `Rotate`, every
revocation, deletion or cleanup to `Close` or a stutter, and all other steps to
stutters. `LinearRotation` rests on it: an exchange spends its token, a spent
token stays spent even after its row was purged, and a token is exchanged only
while it is not spent (`ExchangeInv`).

`OneSignalErasureProofs` proves `ErasureTypes`, `ObligationSurvives`,
`IdentifierCheck` and `NoRegression` from `IndInv`, made of `PassInv` (the
current row is in the batch), `LeaseInv` (while a row still carries the token of
a pass, its status is the one that the pass saw, and not verified), `AnswerInv` (a `not_found` answer means that the provider has nothing),
`OutboxInv` (rows exist only for deleted accounts) and the two invariants. The
fence argument is `LeaseInv`: a recording worker either holds the token, and
then the row is as it was claimed, or it changes nothing.

`SecondFactorProofs` proves `TypeCorrect`, `ChallengeBuysOneSession`,
`NoFactorTwice`, `StampsDieWithTheFactor` and the action property
`EnrollmentKept`. `SlotsInv` says what a slot may rely on at each program
counter. `ChallengeInv` adds to `OneSessionPerChallenge` that a slot about to
open a session has consumed its challenge, alone, and that no session has come
from it yet. `FactorInv` says that an unused code has not been accepted and that
accepted steps lie behind the replay guard. `StampInv` says, while no removal is
under way or was cut short, that a slot which will stamp a usable session has
read the secret in force: after a removal either the version is bumped, and the
slot's session is not usable, or the secret is the one it read. `VersionInv`
bounds the versions of sessions by the account's.

`AccountsProofs` proves `TypeCorrect`, `AddressProved`, `LastAdminStays` and the
action properties `DeletionIsFinal` and `OldLinksAreDead`. `SlotsInv` gives each
request its shape and its locks: a locked row is not deleted (`LockInv`), a
marked token is unused so far (`MarkInv`), the tokens a transaction has to kill
are among those it found or marked (`KillInv`), and no two requests hold one row
(`Apart`). `TokenInv` says that an unused link is of the current password or
address, or late, and that the link of an unverified account was mailed to its
address. `AdminInv` says, as long as the history is clean, that at most one
request is about to demote an administrator, and has counted another one who
stays.

`EmailOutboxProofs` proves `TypeCorrect`, `SentOnce` and the action property
`RepeatedReportsHarmless`. `AcceptedOnce` counts acceptances, which no step can
bound without counting what is still to come: `CountInv` says that acceptances
so far, slots that hold a ticket to send, and a row that by itself leads to an
attempt are together at most one plus the excuses. `RowInv`, `SlotsInv`,
`SyncInv` (a row sent synchronously is in nobody else's hands) and `ReportInv` (the
provider reports on messages it accepted) support it. `RepeatedReportsHarmless` goes through the actions: the senders that
could write the row hold it, so it would not be at rest, and an ingestion comes to
write it only by inserting an event that was not there.

`EmailCampaignsProofs` proves `TypeCorrect`, `MailedOnce` and `DoneWhenSent`.
`GenInv` bounds the snapshots, counting requests that may still make one, which
is what types `gen`. The rest, `MailInv`, is claimed while no stale write has
overrun the campaign: one slot holds it at a time (`HoldInv`), nobody was mailed
before the first delivery (`UnsentInv`), a slot that is through leaves no pending
recipient (`ThroughInv`), and a recipient still pending or failed, listed or not,
has not been mailed without an excuse unless a slot is about to record it
(`BatchInv`, `RecipientInv`).

`InferenceGatewayProofs` proves `TypeCorrect`, `SpendCovered`,
`SessionsStayPinned`, `CacheIsLedgered` and the action property
`AdmissionsWithinCap`. `IndInv` ties every list that can lie ahead of an Invoke
(`Plans`) to the ledger, the reservation and the session: who still has to settle
holds an active reservation, who is past FinishCall has its cost in its row
(`SpendInv`), who is past PinSession works for the provider of its session
(`PinInv`), a call with a cached answer writes its row no more (`CacheInv`), and
transactions name rows that exist (`PolicyInv`). In the type invariant the hard
part is that the caps which `maybeActivateBudget` derives from the ledger are not
zero (`BaselineCaps`): a baseline with any cost has a day with a cost.
`AdmissionsWithinCap` needs a second invariant, `AdmitInv`: row locks exclude
each other and inserted revisions are pending (`LockInv`); a call between the
reads of `budgetStatus` and its decision that is not torn keeps the newest
revision locked (`NewestInv`), the settled calls have not cost more than it read
(`UsedInv`), and no more is reserved than it read (`ReservedInv`). So two such
calls are one (`OneReader`), and what it read still bounds the exposure when it
decides. `FiniteSums` proves what is needed of `MapThenSumSet`, which is a
recursive function over subsets: it exists, does not depend on the order, and is
monotone, by taking a counterexample of least cardinality. An earlier version of
the model marked only the reads torn by a settlement or revision; `NewestInv` was
then not inductive, and the failed step was the behaviour described in section 3.

Only model-checked: the liveness properties, which are out of the prover's reach
(`LockWaitsEnd`, `DeletedAccountsAreErased`, `CallsEndSettled`,
`ScheduledMessagesEnd`, `RunsEnd`), and the module `EmailPoll`. The refuted
properties are of course not theorems. Every other safety property that a passing
run checks is proved.

## 5. Not modelled

Rate limits, audit logs, emails sent by handlers, hashing and encryption are
left out of the modelled components: they neither guard nor change the state
that the properties speak of. Also left out: the login lockout (it only refuses logins),
the registry of inference models, and the email templates. The database itself (isolation, locks, the
deadlock detector) and the providers are modelled from how the code uses them.
The other components of section 1 are not modelled yet or, if they only read or
run alone, will not be; `PROJECT.json` gives the reason for each.

## 6. Plan

1. Proofs beyond the properties of the runs: the safety half of the liveness
   arguments (who waits for a lock, its holder can move; a message that is
   scheduled is claimed by somebody or due), and exact forms of the exceptions
   of section 3.
2. Editorial publication: optimistic locking, licence and completeness gate.
3. Personal data sync and push notifications.
