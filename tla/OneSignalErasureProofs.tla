----------------------- MODULE OneSignalErasureProofs -----------------------
(***************************************************************************)
(* Safety of the erasure outbox for every number of accounts, workers,     *)
(* tokens and every choice of the durations.                               *)
(***************************************************************************)
EXTENDS OneSignalErasure, FiniteSetTheorems, TLAPS

\* What a pass remembers: idle workers remember nothing, a call is about a row
\* of the batch, and batches hold rows of deleted accounts only.
PassInv ==
    \A w \in Workers :
        /\ worker[w].pc = "idle" => worker[w].token = NoToken
        /\ worker[w].pc # "idle" => worker[w].token \in Tokens
        /\ worker[w].pc \in {"call", "record"} =>
              worker[w].cur \in Erasures /\ worker[w].seen[worker[w].cur] # NoRow

\* While a worker holds the lease of a row, the status it read is current.
LeaseInv ==
    \A w \in Workers, e \in Erasures :
        /\ Present(e)
        /\ worker[w].seen[e] # NoRow
        /\ worker[w].token \in Tokens
        /\ row[e].token = worker[w].token
        => /\ worker[w].seen[e].status = row[e].status
           /\ row[e].status # "verified"

\* A recorded "not found" is a fact, and stays one.
AnswerInv ==
    \A w \in Workers :
        worker[w].pc = "record" /\ worker[w].answer.kind = "not_found"
            => provider[worker[w].cur] = "gone"

\* Only deleted accounts have an outbox row.
OutboxInv == \A e \in Erasures : Present(e) => e \in deleted

IndInv ==
    /\ TypeOK
    /\ PassInv
    /\ LeaseInv
    /\ AnswerInv
    /\ OutboxInv
    /\ ErasureNeverForgotten
    /\ IdentifierClearedWhenVerified

-----------------------------------------------------------------------------
\* A power of two is the number of subsets of an interval, hence a natural.
LEMMA PowerOfTwo == ASSUME NEW n \in Nat PROVE 2^n \in Nat
<1>1. IsFiniteSet(1..n) /\ Cardinality(1..n) = n
  BY FS_Interval, SMT
<1>2. IsFiniteSet(SUBSET (1..n)) /\ Cardinality(SUBSET (1..n)) = 2^Cardinality(1..n)
  BY <1>1, FS_SUBSET
<1>3. Cardinality(SUBSET (1..n)) \in Nat
  BY <1>2, FS_CardinalityType
<1> QED
  BY <1>1, <1>2, <1>3

LEMMA RetryDelayType ==
    ASSUME NEW n \in 0..MaxRetryExponent
    PROVE  RetryDelay(n) \in Nat
<1> DEFINE k == Minimum(n, MaxRetryExponent)
<1>1. k \in Nat
  BY DurationAssumption DEF Minimum
<1>2. PICK p \in Nat : p = 2^k
  BY <1>1, PowerOfTwo
<1>3. RetryDelay(n) = Minimum(RetryBackoffBase * p, RetryBackoffMax)
  BY <1>2 DEF RetryDelay
<1> HIDE DEF k
<1>4. RetryBackoffBase * p \in Nat
  BY <1>2, DurationAssumption
<1> QED
  BY <1>3, <1>4, DurationAssumption DEF Minimum

LEMMA NextAttemptType ==
    ASSUME NEW seen \in Snapshot, NEW answer \in Answers, NEW at \in Int
    PROVE  NextAttempt(seen, answer, at) \in Int
<1>1. RetryDelay(seen.attempts) \in Nat
  BY RetryDelayType DEF Snapshot
<1>2. answer.retryAfter \in Nat /\ answer.kind \in {"not_found", "accepted", "failed"}
  BY DEF Answers
<1> QED
  BY <1>1, <1>2, DurationAssumption DEF NextAttempt, Maximum, Minimum

LEMMA NextStatusType ==
    ASSUME NEW seen \in Snapshot, NEW answer \in Answers
    PROVE  NextStatus(seen, answer.kind) \in Statuses
BY DEF NextStatus, Answers, Snapshot, Statuses

LEMMA FreshToken ==
    ASSUME ~(Tokens \subseteq UsedTokens)
    PROVE  NewToken \in Tokens /\ NewToken \notin UsedTokens
BY DEF NewToken

LEMMA IdleWorkerType == IdleWorker \in Worker
BY DEF IdleWorker, Worker, Answers, NoAnswer

LEMMA PassOfType ==
    ASSUME TypeOK, NEW S \in SUBSET Erasures, NEW t \in Tokens,
           \A e \in S : Present(e)
    PROVE  PassOf(S, t) \in Worker
<1>1. \A e \in S : row[e] \in Row
  BY DEF TypeOK, Present
<1>2. \A e \in S : [status |-> row[e].status, attempts |-> row[e].attempts] \in Snapshot
  BY <1>1 DEF Row, Snapshot
<1> DEFINE seen == [e \in Erasures |->
                 IF e \in S THEN [status |-> row[e].status, attempts |-> row[e].attempts]
                 ELSE NoRow]
<1>3. seen \in [Erasures -> Snapshot \cup {NoRow}]
  BY <1>2
<1>4. PassOf(S, t) =
        [pc |-> "pass", token |-> t, at |-> 0, seen |-> seen,
         cur |-> NoRow, age |-> 0, answer |-> NoAnswer]
  BY DEF PassOf
<1> HIDE DEF seen
<1> QED
  BY <1>3, <1>4 DEF Worker, Answers, NoAnswer

\* The steps of a pass, on its record.
LEMMA CallingFacts ==
    ASSUME NEW q \in Worker, NEW e \in Erasures
    PROVE  /\ Calling(q, e) \in Worker
           /\ Calling(q, e).pc = "call"
           /\ Calling(q, e).cur = e
           /\ Calling(q, e).seen = q.seen
           /\ Calling(q, e).token = q.token
BY DEF Calling, Worker

LEMMA SkippingFacts ==
    ASSUME NEW q \in Worker, NEW e \in Erasures
    PROVE  /\ Skipping(q, e) \in Worker
           /\ Skipping(q, e).pc = "record"
           /\ Skipping(q, e).cur = e
           /\ Skipping(q, e).answer.kind = "failed"
           /\ Skipping(q, e).seen = q.seen
           /\ Skipping(q, e).token = q.token
BY DEF Skipping, Worker, Answers, NoAnswer

LEMMA RecordingFacts ==
    ASSUME NEW q \in Worker, NEW retry \in Nat,
           NEW kind \in {"not_found", "accepted", "failed"}
    PROVE  /\ Recording(q, kind, retry) \in Worker
           /\ Recording(q, kind, retry).pc = "record"
           /\ Recording(q, kind, retry).answer.kind = kind
           /\ Recording(q, kind, retry).cur = q.cur
           /\ Recording(q, kind, retry).seen = q.seen
           /\ Recording(q, kind, retry).token = q.token
BY DEF Recording, Worker, Answers

LEMMA ProcessedFacts ==
    ASSUME NEW q \in Worker
    PROVE  /\ Processed(q) \in Worker
           /\ Processed(q).pc = "pass"
           /\ Processed(q).token = q.token
           /\ \A e \in Erasures : Processed(q).seen[e] # NoRow => Processed(q).seen[e] = q.seen[e]
<1> DEFINE seen == [q.seen EXCEPT ![q.cur] = NoRow]
<1>1. /\ seen \in [Erasures -> Snapshot \cup {NoRow}]
      /\ \A e \in Erasures : seen[e] # NoRow => seen[e] = q.seen[e]
  BY DEF Worker
<1>2. Processed(q) = [q EXCEPT !.pc = "pass", !.cur = NoRow, !.answer = NoAnswer, !.seen = seen]
  BY DEF Processed
<1>3. NoAnswer \in Answers
  BY DEF NoAnswer, Answers
<1> HIDE DEF seen
<1> QED
  BY <1>1, <1>2, <1>3 DEF Worker

LEMMA OlderFacts ==
    ASSUME NEW q \in Worker
    PROVE  /\ Older(q) \in Worker
           /\ Older(q).pc = q.pc
           /\ Older(q).cur = q.cur
           /\ Older(q).answer = q.answer
           /\ Older(q).seen = q.seen
           /\ Older(q).token = q.token
<1>1. CASE q.pc = "idle"
  BY <1>1 DEF Older
<1>2. CASE q.pc # "idle"
  <2> DEFINE age == IF q.pc = "call" THEN q.age + 1 ELSE q.age
  <2>1. age \in Nat /\ q.at - 1 \in Int
    BY DEF Worker
  <2>2. Older(q) = [q EXCEPT !.at = q.at - 1, !.age = age]
    BY <1>2 DEF Older
  <2> HIDE DEF age
  <2> QED
    BY <2>1, <2>2 DEF Worker
<1> QED
  BY <1>1, <1>2

LEMMA AgedFacts ==
    ASSUME NEW r \in Row
    PROVE  /\ Aged(r) \in Row
           /\ Aged(r).status = r.status
           /\ Aged(r).token = r.token
           /\ Aged(r).cipher = r.cipher
<1> DEFINE next == Earlier(r.next, MaxPass)
           until == IF r.token = NoToken THEN r.until ELSE Earlier(r.until, 0)
           verifiedAt == IF r.status # "verified" THEN r.verifiedAt
                         ELSE Earlier(r.verifiedAt, MaxPass + Retention + 1)
<1>1. next \in Int /\ until \in Int /\ verifiedAt \in Int
  BY DurationAssumption DEF Row, Earlier
<1>2. Aged(r) = [r EXCEPT !.next = next, !.until = until, !.verifiedAt = verifiedAt]
  BY RowAssumption DEF Aged
<1> HIDE DEF next, until, verifiedAt
<1> QED
  BY <1>1, <1>2 DEF Row

LEMMA LeasedFacts ==
    ASSUME TypeOK, NEW S \in SUBSET Erasures, NEW t \in Tokens,
           \A e \in S : Present(e)
    PROVE  /\ Leased(S, t) \in [Erasures -> Row \cup {NoRow}]
           /\ \A e \in Erasures \ S : Leased(S, t)[e] = row[e]
           /\ \A e \in S : /\ Leased(S, t)[e] \in Row
                            /\ Leased(S, t)[e].status = row[e].status
                            /\ Leased(S, t)[e].cipher = row[e].cipher
                            /\ Leased(S, t)[e].token = t
<1>1. \A e \in S : row[e] \in Row
  BY DEF TypeOK, Present
<1>2. \A r \in Row : /\ [r EXCEPT !.token = t, !.until = Lease] \in Row
                     /\ [r EXCEPT !.token = t, !.until = Lease].status = r.status
                     /\ [r EXCEPT !.token = t, !.until = Lease].cipher = r.cipher
                     /\ [r EXCEPT !.token = t, !.until = Lease].token = t
  <2>1. Lease \in Int
    BY DurationAssumption
  <2> QED
    BY <2>1 DEF Row
<1>3. \A e \in Erasures :
        Leased(S, t)[e] =
          IF e \in S THEN [row[e] EXCEPT !.token = t, !.until = Lease] ELSE row[e]
  BY DEF Leased
<1>4. Leased(S, t) \in [Erasures -> Row \cup {NoRow}]
  BY <1>1, <1>2 DEF Leased, TypeOK
<1> QED
  BY <1>1, <1>2, <1>3, <1>4

LEMMA CleanedFacts ==
    ASSUME TypeOK, NEW at
    PROVE  /\ Cleaned(at) \in [Erasures -> Row \cup {NoRow}]
           /\ \A e \in Erasures :
                \/ Cleaned(at)[e] = row[e]
                \/ /\ Present(e)
                   /\ row[e].status = "verified"
                   /\ Cleaned(at)[e] = NoRow
BY DEF Cleaned, TypeOK

LEMMA AdvancedFacts ==
    ASSUME IndInv, NEW w \in Workers, worker[w].pc = "record", HoldsLease(w)
    PROVE  LET e == worker[w].cur
               status == NextStatus(worker[w].seen[e], worker[w].answer.kind)
           IN  /\ e \in Erasures
               /\ row[e] \in Row
               /\ worker[w].seen[e].status = row[e].status
               /\ worker[w].seen[e].status # "verified"
               /\ Advanced(w) \in Row
               /\ Advanced(w).status = status
               /\ Advanced(w).token = NoToken
               /\ Advanced(w).cipher = (status # "verified")
<1> DEFINE q == worker[w]
           e == q.cur
           seen == q.seen[e]
           status == NextStatus(seen, q.answer.kind)
           next == NextAttempt(seen, q.answer, q.at)
           attempts == Minimum(row[e].attempts + 1, MaxRetryExponent)
           cipher == IF status = "verified" THEN FALSE ELSE row[e].cipher
           verifiedAt == IF status = "verified" THEN q.at ELSE 0
<1>1. q \in Worker /\ e \in Erasures /\ seen # NoRow
  BY DEF IndInv, TypeOK, PassInv
<1>2. seen \in Snapshot /\ q.answer \in Answers /\ q.at \in Int
  BY <1>1 DEF Worker
<1>3. row[e] \in Row /\ Present(e) /\ row[e].token = q.token
  BY <1>1 DEF HoldsLease, Present, IndInv, TypeOK
<1>4. q.token \in Tokens
  BY DEF IndInv, PassInv
<1>5. seen.status = row[e].status /\ row[e].status # "verified"
  BY <1>1, <1>3, <1>4 DEF IndInv, LeaseInv
<1>6. row[e].cipher = TRUE
  BY <1>1, <1>3, <1>5 DEF IndInv, IdentifierClearedWhenVerified, Row
<1>7. status \in Statuses
  BY <1>2, NextStatusType
<1>8. next \in Int
  BY <1>2, NextAttemptType
<1>9. attempts \in 0..MaxRetryExponent
  BY <1>3, DurationAssumption DEF Row, Minimum
<1>10. cipher \in BOOLEAN /\ cipher = (status # "verified")
  BY <1>6
<1>11. verifiedAt \in Int
  BY <1>2
<1>12. Advanced(w) =
         [status |-> status, attempts |-> attempts, next |-> next,
          token |-> NoToken, until |-> 0, cipher |-> cipher, verifiedAt |-> verifiedAt]
  BY DEF Advanced
<1>13. /\ Advanced(w) \in Row
       /\ Advanced(w).status = status
       /\ Advanced(w).token = NoToken
       /\ Advanced(w).cipher = cipher
  <2> HIDE DEF q, e, seen, status, next, attempts, cipher, verifiedAt
  <2> QED
    BY <1>7, <1>8, <1>9, <1>10, <1>11, <1>12 DEF Row
<1> QED
  BY <1>1, <1>3, <1>5, <1>10, <1>13

-----------------------------------------------------------------------------
\* A step that changes only one pass and, towards "gone", the provider.
LEMMA PassStep ==
    ASSUME IndInv, NEW w \in Workers, NEW q \in Worker,
           worker' = [worker EXCEPT ![w] = q],
           UNCHANGED <<row, deleted, quiet>>,
           crashes' \in 0..MaxCrashes,
           provider' \in [Erasures -> {"present", "deleting", "gone"}],
           \A e \in Erasures : provider[e] = "gone" => provider'[e] = "gone",
           q.pc = "idle" => q.token = NoToken,
           q.pc # "idle" => q.token \in Tokens,
           q.pc \in {"call", "record"} => q.cur \in Erasures /\ q.seen[q.cur] # NoRow,
           q.pc = "record" /\ q.answer.kind = "not_found" => provider'[q.cur] = "gone",
           \A e \in Erasures :
               q.seen[e] # NoRow =>
                   q.seen[e] = worker[w].seen[e] /\ q.token = worker[w].token
    PROVE  IndInv'
<1>1. /\ worker'[w] = q
      /\ \A x \in Workers \ {w} : worker'[x] = worker[x]
      /\ worker' \in [Workers -> Worker]
  BY DEF IndInv, TypeOK
<1>2. TypeOK'
  BY <1>1 DEF IndInv, TypeOK
<1>3. PassInv'
  BY <1>1 DEF IndInv, PassInv
<1>4. LeaseInv'
  <2> SUFFICES ASSUME NEW x \in Workers, NEW e \in Erasures,
                      Present(e), worker'[x].seen[e] # NoRow,
                      worker'[x].token \in Tokens, row[e].token = worker'[x].token
               PROVE  /\ worker'[x].seen[e].status = row[e].status
                      /\ row[e].status # "verified"
    BY DEF LeaseInv, Present
  <2>1. worker'[x].seen[e] = worker[x].seen[e] /\ worker'[x].token = worker[x].token
    BY <1>1
  <2> QED
    BY <2>1 DEF IndInv, LeaseInv
<1>5. AnswerInv'
  <2> SUFFICES ASSUME NEW x \in Workers, worker'[x].pc = "record",
                      worker'[x].answer.kind = "not_found"
               PROVE  provider'[worker'[x].cur] = "gone"
    BY DEF AnswerInv
  <2>1. CASE x = w
    BY <1>1, <2>1
  <2>2. CASE x # w
    <3>1. worker'[x] = worker[x]
      BY <1>1, <2>2
    <3>2. worker[x].cur \in Erasures /\ provider[worker[x].cur] = "gone"
      BY <3>1 DEF IndInv, AnswerInv, PassInv
    <3> QED
      BY <3>1, <3>2
  <2> QED
    BY <2>1, <2>2
<1>6. OutboxInv' /\ IdentifierClearedWhenVerified'
  BY DEF IndInv, OutboxInv, IdentifierClearedWhenVerified, Present
<1>7. ErasureNeverForgotten'
  BY DEF IndInv, TypeOK, ErasureNeverForgotten, Present
<1> QED
  BY <1>2, <1>3, <1>4, <1>5, <1>6, <1>7 DEF IndInv

\* A step that removes verified rows and may end one pass.
LEMMA CleanupStep ==
    ASSUME IndInv, NEW at, row' = Cleaned(at),
           worker' \in [Workers -> Worker],
           \A w \in Workers : worker'[w] = worker[w] \/ worker'[w] = IdleWorker,
           UNCHANGED <<deleted, provider, quiet, crashes>>
    PROVE  IndInv'
<1>1. /\ row' \in [Erasures -> Row \cup {NoRow}]
      /\ \A e \in Erasures :
            \/ row'[e] = row[e]
            \/ Present(e) /\ row[e].status = "verified" /\ row'[e] = NoRow
  BY CleanedFacts DEF IndInv
<1>2. /\ IdleWorker.pc = "idle" /\ IdleWorker.token = NoToken
      /\ \A e \in Erasures : IdleWorker.seen[e] = NoRow
  BY DEF IdleWorker
<1>3. TypeOK'
  BY <1>1 DEF IndInv, TypeOK
<1>4. PassInv'
  BY <1>2 DEF IndInv, PassInv
<1>5. LeaseInv'
  BY <1>1, <1>2 DEF IndInv, LeaseInv, Present
<1>6. AnswerInv'
  BY <1>2 DEF IndInv, AnswerInv
<1>7. OutboxInv'
  BY <1>1 DEF IndInv, OutboxInv, Present
<1>8. IdentifierClearedWhenVerified'
  BY <1>1 DEF IndInv, IdentifierClearedWhenVerified, Present
<1>9. ErasureNeverForgotten'
  BY <1>1 DEF IndInv, TypeOK, ErasureNeverForgotten, Present
<1> QED
  BY <1>3, <1>4, <1>5, <1>6, <1>7, <1>8, <1>9 DEF IndInv

LEMMA InitInv == Init => IndInv
<1> SUFFICES ASSUME Init PROVE IndInv
  OBVIOUS
<1>1. /\ IdleWorker.pc = "idle" /\ IdleWorker.token = NoToken
      /\ \A e \in Erasures : IdleWorker.seen[e] = NoRow
  BY DEF IdleWorker
<1>2. \A w \in Workers : worker[w] = IdleWorker
  BY DEF Init
<1>3. TypeOK
  BY IdleWorkerType, DurationAssumption DEF Init, TypeOK
<1>4. PassInv /\ LeaseInv /\ AnswerInv
  BY <1>1, <1>2 DEF PassInv, LeaseInv, AnswerInv
<1>5. OutboxInv /\ ErasureNeverForgotten /\ IdentifierClearedWhenVerified
  BY DEF Init, OutboxInv, ErasureNeverForgotten, IdentifierClearedWhenVerified, Present
<1> QED
  BY <1>3, <1>4, <1>5 DEF IndInv

LEMMA DeleteAccountInv ==
    ASSUME IndInv, NEW e \in Erasures, DeleteAccount(e)
    PROVE  IndInv'
<1>1. ~Present(e)
  BY DEF DeleteAccount, IndInv, OutboxInv
<1>2. NewRow \in Row /\ NewRow.status = "pending" /\ NewRow.cipher = TRUE
      /\ NewRow.token = NoToken
  BY DurationAssumption DEF NewRow, Row, Statuses
<1>3. row'[e] = NewRow /\ \A x \in Erasures \ {e} : row'[x] = row[x]
  BY DEF DeleteAccount, IndInv, TypeOK
<1>4. NewRow # NoRow
  BY <1>2, RowAssumption
<1>5. deleted' = deleted \cup {e} /\ UNCHANGED <<provider, worker, quiet, crashes>>
  BY DEF DeleteAccount
<1>6. TypeOK'
  BY <1>2, <1>5 DEF DeleteAccount, IndInv, TypeOK
<1>7. PassInv' /\ AnswerInv'
  BY <1>5 DEF IndInv, PassInv, AnswerInv
<1>8. LeaseInv'
  BY <1>2, <1>3, <1>5, NullAssumption DEF IndInv, LeaseInv, Present
<1>9. OutboxInv'
  BY <1>3, <1>5 DEF IndInv, OutboxInv, Present
<1>10. IdentifierClearedWhenVerified'
  BY <1>2, <1>3 DEF IndInv, IdentifierClearedWhenVerified, Present
<1>11. ErasureNeverForgotten'
  BY <1>2, <1>3, <1>4, <1>5 DEF IndInv, TypeOK, ErasureNeverForgotten, Present
<1> QED
  BY <1>6, <1>7, <1>8, <1>9, <1>10, <1>11 DEF IndInv

LEMMA ClaimInv ==
    ASSUME IndInv, NEW w \in Workers, Claim(w)
    PROVE  IndInv'
<1> DEFINE t == NewToken
<1>1. PICK S \in SUBSET Erasures, skipped \in SUBSET MayBeLocked :
        /\ Claimable(S, skipped)
        /\ row' = Leased(S, t)
        /\ worker' = [worker EXCEPT ![w] = PassOf(S, t)]
  BY DEF Claim
<1>2. t \in Tokens /\ t \notin UsedTokens
  BY FreshToken DEF Claim
<1>3. \A e \in S : Present(e) /\ row[e].status # "verified"
  BY <1>1 DEF Claimable, Due
<1>4. UNCHANGED <<deleted, provider, quiet, crashes>>
  BY DEF Claim
<1> HIDE DEF t
<1>5. PassOf(S, t) \in Worker
  BY <1>2, <1>3, PassOfType DEF IndInv
<1>6. /\ PassOf(S, t).pc = "pass" /\ PassOf(S, t).token = t
      /\ \A e \in Erasures :
            PassOf(S, t).seen[e] # NoRow =>
                e \in S /\ PassOf(S, t).seen[e].status = row[e].status
  BY DEF PassOf
<1>7. /\ worker'[w] = PassOf(S, t)
      /\ \A x \in Workers \ {w} : worker'[x] = worker[x]
      /\ worker' \in [Workers -> Worker]
  BY <1>1, <1>5 DEF IndInv, TypeOK
<1>8. /\ row' \in [Erasures -> Row \cup {NoRow}]
      /\ \A e \in Erasures \ S : row'[e] = row[e]
      /\ \A e \in S : /\ row'[e] \in Row
                       /\ row'[e].status = row[e].status
                       /\ row'[e].cipher = row[e].cipher
                       /\ row'[e].token = t
  <2>1. TypeOK
    BY DEF IndInv
  <2> QED
    BY <1>1, <1>2, <1>3, <2>1, LeasedFacts
<1>9. \A x \in Workers : worker[x].token # t
  BY <1>2 DEF UsedTokens
<1>10. \A e \in S : row'[e] # NoRow
  BY <1>8, RowAssumption
<1>11. TypeOK'
  BY <1>4, <1>7, <1>8 DEF IndInv, TypeOK
<1>12. PassInv'
  BY <1>2, <1>6, <1>7 DEF IndInv, PassInv
<1>13. LeaseInv'
  <2> SUFFICES ASSUME NEW x \in Workers, NEW e \in Erasures,
                      row'[e] # NoRow, worker'[x].seen[e] # NoRow,
                      worker'[x].token \in Tokens, row'[e].token = worker'[x].token
               PROVE  /\ worker'[x].seen[e].status = row'[e].status
                      /\ row'[e].status # "verified"
    BY DEF LeaseInv, Present
  <2>1. CASE x = w
    BY <1>3, <1>6, <1>7, <1>8, <2>1
  <2>2. CASE x # w
    <3>1. worker'[x] = worker[x] /\ e \notin S
      BY <1>7, <1>8, <1>9, <2>2
    <3> QED
      BY <1>8, <3>1 DEF IndInv, LeaseInv, Present
  <2> QED
    BY <2>1, <2>2
<1>14. AnswerInv'
  BY <1>4, <1>6, <1>7 DEF IndInv, AnswerInv
<1>15. OutboxInv'
  BY <1>3, <1>4, <1>8 DEF IndInv, OutboxInv, Present
<1>16. IdentifierClearedWhenVerified'
  BY <1>3, <1>8 DEF IndInv, IdentifierClearedWhenVerified, Present
<1>17. ErasureNeverForgotten'
  BY <1>3, <1>4, <1>8, <1>10 DEF IndInv, TypeOK, ErasureNeverForgotten, Present
<1> QED
  BY <1>11, <1>12, <1>13, <1>14, <1>15, <1>16, <1>17 DEF IndInv

LEMMA CallInv ==
    ASSUME IndInv, NEW w \in Workers, Call(w) \/ Undecipherable(w)
    PROVE  IndInv'
<1>1. worker[w] \in Worker /\ worker[w].pc = "pass"
  BY DEF Call, Undecipherable, IndInv, TypeOK
<1>2. worker[w].token \in Tokens
  BY <1>1 DEF IndInv, PassInv
<1>3. UNCHANGED <<row, deleted, provider, quiet, crashes>>
  BY DEF Call, Undecipherable
<1>4. /\ crashes' \in 0..MaxCrashes
      /\ provider' \in [Erasures -> {"present", "deleting", "gone"}]
      /\ \A e \in Erasures : provider[e] = "gone" => provider'[e] = "gone"
  BY <1>3 DEF IndInv, TypeOK
<1>5. CASE Call(w)
  <2>1. PICK e \in Todo(w) : worker' = [worker EXCEPT ![w] = Calling(worker[w], e)]
    BY <1>5 DEF Call
  <2>2. e \in Erasures /\ worker[w].seen[e] # NoRow
    BY DEF Todo
  <2> DEFINE q == Calling(worker[w], e)
  <2>3. /\ q \in Worker /\ q.pc = "call" /\ q.cur = e
        /\ q.seen = worker[w].seen /\ q.token = worker[w].token
    BY <1>1, <2>2, CallingFacts
  <2> HIDE DEF q
  <2>4. worker' = [worker EXCEPT ![w] = q]
    BY <2>1 DEF q
  <2> QED
    BY <1>2, <1>3, <1>4, <2>2, <2>3, <2>4, PassStep
<1>6. CASE Undecipherable(w)
  <2>1. PICK e \in Todo(w) : worker' = [worker EXCEPT ![w] = Skipping(worker[w], e)]
    BY <1>6 DEF Undecipherable
  <2>2. e \in Erasures /\ worker[w].seen[e] # NoRow
    BY DEF Todo
  <2> DEFINE q == Skipping(worker[w], e)
  <2>3. /\ q \in Worker /\ q.pc = "record" /\ q.cur = e /\ q.answer.kind = "failed"
        /\ q.seen = worker[w].seen /\ q.token = worker[w].token
    BY <1>1, <2>2, SkippingFacts
  <2> HIDE DEF q
  <2>4. worker' = [worker EXCEPT ![w] = q]
    BY <2>1 DEF q
  <2> QED
    BY <1>2, <1>3, <1>4, <2>2, <2>3, <2>4, PassStep
<1> QED
  BY <1>5, <1>6

\* The provider answers: towards "gone" only, and "not found" only when gone.
LEMMA AnswerInvariance ==
    ASSUME IndInv, NEW w \in Workers, NEW retry \in Nat,
           NEW kind \in {"not_found", "accepted", "failed"},
           worker[w].pc = "call", Answered(w, kind, retry),
           kind = "not_found" => provider[worker[w].cur] = "gone",
           \/ UNCHANGED provider
           \/ provider[worker[w].cur] # "gone" /\ Deleting(worker[w].cur),
           UNCHANGED <<row, deleted, quiet, crashes>>
    PROVE  IndInv'
<1> DEFINE e == worker[w].cur
           q == Recording(worker[w], kind, retry)
<1>1. worker[w] \in Worker
  BY DEF IndInv, TypeOK
<1>2. worker[w].token \in Tokens /\ e \in Erasures /\ worker[w].seen[e] # NoRow
  BY DEF IndInv, PassInv
<1>3. /\ q \in Worker /\ q.pc = "record" /\ q.answer.kind = kind
      /\ q.cur = e /\ q.seen = worker[w].seen /\ q.token = worker[w].token
  BY <1>1, RecordingFacts
<1>4. worker' = [worker EXCEPT ![w] = q]
  BY DEF Answered
<1>5. /\ provider' \in [Erasures -> {"present", "deleting", "gone"}]
      /\ \A x \in Erasures : provider[x] = "gone" => provider'[x] = "gone"
  BY <1>2 DEF IndInv, TypeOK, Deleting
<1>6. crashes' \in 0..MaxCrashes
  BY DEF IndInv, TypeOK
<1> HIDE DEF q, e
<1>7. q.pc = "record" /\ q.answer.kind = "not_found" => provider'[q.cur] = "gone"
  BY <1>2, <1>3, <1>5 DEF e
<1> QED
  BY <1>2, <1>3, <1>4, <1>5, <1>6, <1>7, PassStep

LEMMA AnswersInv ==
    ASSUME IndInv, NEW w \in Workers,
           AnswerDelete(w) \/ AnswerView(w) \/ AnswerFailure(w)
    PROVE  IndInv'
<1>1. CASE AnswerDelete(w)
  BY <1>1, AnswerInvariance DEF AnswerDelete
<1>2. CASE AnswerView(w)
  <2> DEFINE kind == IF provider[worker[w].cur] = "gone" THEN "not_found" ELSE "accepted"
  <2>1. /\ worker[w].pc = "call" /\ Answered(w, kind, 0)
        /\ UNCHANGED <<row, deleted, provider, quiet, crashes>>
    BY <1>2 DEF AnswerView
  <2>2. /\ kind \in {"not_found", "accepted", "failed"}
        /\ kind = "not_found" => provider[worker[w].cur] = "gone"
    OBVIOUS
  <2> HIDE DEF kind
  <2> QED
    BY <2>1, <2>2, AnswerInvariance
<1>3. CASE AnswerFailure(w)
  <2>1. CASE \E retry \in RetryAfters : Answered(w, "failed", retry) /\ UNCHANGED provider
    <3>1. PICK retry \in RetryAfters : Answered(w, "failed", retry) /\ UNCHANGED provider
      BY <2>1
    <3>2. retry \in Nat
      BY DurationAssumption
    <3>3. worker[w].pc = "call" /\ UNCHANGED <<row, deleted, quiet, crashes>>
      BY <1>3 DEF AnswerFailure
    <3> QED
      BY <3>1, <3>2, <3>3, AnswerInvariance
  <2>2. CASE /\ provider[worker[w].cur] = "present"
             /\ Answered(w, "failed", 0) /\ Deleting(worker[w].cur)
    <3>1. worker[w].pc = "call" /\ UNCHANGED <<row, deleted, quiet, crashes>>
      BY <1>3 DEF AnswerFailure
    <3> QED
      BY <2>2, <3>1, AnswerInvariance
  <2> QED
    BY <1>3, <2>1, <2>2 DEF AnswerFailure
<1> QED
  BY <1>1, <1>2, <1>3

LEMMA LeaseLostInv ==
    ASSUME IndInv, NEW w \in Workers, LeaseLost(w)
    PROVE  IndInv'
<1> DEFINE q == Processed(worker[w])
<1>1. worker[w] \in Worker /\ worker[w].token \in Tokens
  BY DEF LeaseLost, IndInv, TypeOK, PassInv
<1>2. /\ q \in Worker /\ q.pc = "pass" /\ q.token = worker[w].token
      /\ \A e \in Erasures : q.seen[e] # NoRow => q.seen[e] = worker[w].seen[e]
  BY <1>1, ProcessedFacts
<1>3. worker' = [worker EXCEPT ![w] = q] /\ UNCHANGED <<row, deleted, provider, quiet, crashes>>
  BY DEF LeaseLost, NextItem
<1>4. /\ crashes' \in 0..MaxCrashes
      /\ provider' \in [Erasures -> {"present", "deleting", "gone"}]
      /\ \A e \in Erasures : provider[e] = "gone" => provider'[e] = "gone"
  BY <1>3 DEF IndInv, TypeOK
<1> HIDE DEF q
<1> QED
  BY <1>1, <1>2, <1>3, <1>4, PassStep

LEMMA CrashInv ==
    ASSUME IndInv, NEW w \in Workers, Crash(w)
    PROVE  IndInv'
<1>1. /\ IdleWorker \in Worker /\ IdleWorker.pc = "idle" /\ IdleWorker.token = NoToken
      /\ \A e \in Erasures : IdleWorker.seen[e] = NoRow
  BY IdleWorkerType DEF IdleWorker
<1>2. /\ worker' = [worker EXCEPT ![w] = IdleWorker]
      /\ UNCHANGED <<row, deleted, provider, quiet>>
      /\ crashes' \in 0..MaxCrashes
  BY DurationAssumption DEF Crash, IndInv, TypeOK
<1>3. /\ provider' \in [Erasures -> {"present", "deleting", "gone"}]
      /\ \A e \in Erasures : provider[e] = "gone" => provider'[e] = "gone"
  BY <1>2 DEF IndInv, TypeOK
<1> QED
  BY <1>1, <1>2, <1>3, PassStep

LEMMA CleanupInv ==
    ASSUME IndInv, NEW w \in Workers, EmptyPass(w) \/ FinishPass(w)
    PROVE  IndInv'
<1>1. PICK at : row' = Cleaned(at)
  BY DEF EmptyPass, FinishPass
<1>2. UNCHANGED <<deleted, provider, quiet, crashes>>
  BY DEF EmptyPass, FinishPass
<1>3. /\ worker' \in [Workers -> Worker]
      /\ \A x \in Workers : worker'[x] = worker[x] \/ worker'[x] = IdleWorker
  BY IdleWorkerType DEF EmptyPass, FinishPass, IndInv, TypeOK
<1> QED
  BY <1>1, <1>2, <1>3, CleanupStep

LEMMA ProviderErasesInv ==
    ASSUME IndInv, NEW e \in Erasures, ProviderErases(e)
    PROVE  IndInv'
<1>1. /\ provider' \in [Erasures -> {"present", "deleting", "gone"}]
      /\ \A x \in Erasures : provider[x] = "gone" => provider'[x] = "gone"
      /\ UNCHANGED <<row, deleted, worker, quiet, crashes>>
  BY DEF ProviderErases, IndInv, TypeOK
<1>2. TypeOK'
  BY <1>1 DEF IndInv, TypeOK
<1>3. PassInv' /\ LeaseInv' /\ OutboxInv' /\ IdentifierClearedWhenVerified'
  BY <1>1 DEF IndInv, PassInv, LeaseInv, OutboxInv, IdentifierClearedWhenVerified, Present
<1>4. AnswerInv'
  BY <1>1 DEF IndInv, PassInv, AnswerInv
<1>5. ErasureNeverForgotten'
  BY <1>1 DEF IndInv, TypeOK, ErasureNeverForgotten, Present
<1> QED
  BY <1>2, <1>3, <1>4, <1>5 DEF IndInv

LEMMA TickInv ==
    ASSUME IndInv, Tick
    PROVE  IndInv'
<1>1. UNCHANGED <<deleted, provider, crashes>>
  BY DEF Tick
<1>2. \A w \in Workers : worker[w] \in Worker /\ worker'[w] = Older(worker[w])
  BY DEF Tick, IndInv, TypeOK
<1>3. \A w \in Workers :
        /\ worker'[w] \in Worker
        /\ worker'[w].pc = worker[w].pc
        /\ worker'[w].cur = worker[w].cur
        /\ worker'[w].answer = worker[w].answer
        /\ worker'[w].seen = worker[w].seen
        /\ worker'[w].token = worker[w].token
  BY <1>2, OlderFacts
<1>4. \A e \in Erasures : row[e] \in Row \cup {NoRow} /\ row'[e] = Aged(row[e])
  BY DEF Tick, IndInv, TypeOK
<1>5. Aged(NoRow) = NoRow
  BY DEF Aged
<1>6. \A e \in Erasures :
        /\ row'[e] \in Row \cup {NoRow}
        /\ row'[e] = NoRow <=> row[e] = NoRow
        /\ row[e] # NoRow => /\ row'[e].status = row[e].status
                             /\ row'[e].token = row[e].token
                             /\ row'[e].cipher = row[e].cipher
  BY <1>4, <1>5, AgedFacts, RowAssumption
<1>7. quiet' \in [Erasures -> Nat]
  BY DEF Tick, IndInv, TypeOK, Maximum
<1>8. /\ worker' = [w \in Workers |-> worker'[w]]
      /\ row' = [e \in Erasures |-> row'[e]]
  BY DEF Tick
<1>9. worker' \in [Workers -> Worker] /\ row' \in [Erasures -> Row \cup {NoRow}]
  BY <1>3, <1>6, <1>8
<1>10. TypeOK'
  BY <1>1, <1>7, <1>9 DEF IndInv, TypeOK
<1>11. PassInv'
  BY <1>3 DEF IndInv, PassInv
<1>12. LeaseInv'
  BY <1>3, <1>6 DEF IndInv, LeaseInv, Present
<1>13. AnswerInv'
  BY <1>1, <1>3 DEF IndInv, AnswerInv
<1>14. OutboxInv'
  BY <1>1, <1>6 DEF IndInv, OutboxInv, Present
<1>15. IdentifierClearedWhenVerified'
  BY <1>6 DEF IndInv, IdentifierClearedWhenVerified, Present
<1>16. ErasureNeverForgotten'
  BY <1>1, <1>6 DEF IndInv, TypeOK, ErasureNeverForgotten, Present
<1> QED
  BY <1>10, <1>11, <1>12, <1>13, <1>14, <1>15, <1>16 DEF IndInv

LEMMA RecordInv ==
    ASSUME IndInv, NEW w \in Workers, Record(w)
    PROVE  IndInv'
<1> DEFINE e == worker[w].cur
           q == Processed(worker[w])
           status == NextStatus(worker[w].seen[e], worker[w].answer.kind)
<1>1. worker[w].pc = "record" /\ HoldsLease(w)
  BY DEF Record
<1>2. /\ e \in Erasures /\ row[e] \in Row
      /\ worker[w].seen[e].status = row[e].status
      /\ worker[w].seen[e].status # "verified"
      /\ Advanced(w) \in Row
      /\ Advanced(w).status = status
      /\ Advanced(w).token = NoToken
      /\ Advanced(w).cipher = (status # "verified")
  BY <1>1, AdvancedFacts
<1>3. worker[w] \in Worker /\ worker[w].token \in Tokens
  BY <1>1 DEF IndInv, TypeOK, PassInv
<1>4. /\ q \in Worker /\ q.pc = "pass" /\ q.token = worker[w].token
      /\ \A x \in Erasures : q.seen[x] # NoRow => q.seen[x] = worker[w].seen[x]
  BY <1>3, ProcessedFacts
<1>5. worker' = [worker EXCEPT ![w] = q] /\ UNCHANGED <<deleted, provider, crashes>>
  BY DEF Record, NextItem
<1>6. row' = [row EXCEPT ![e] = Advanced(w)]
  BY DEF Record
<1>7. worker[w].answer.kind \in {"not_found", "accepted", "failed"}
      /\ worker[w].answer.retryAfter \in Nat
  BY <1>3 DEF Worker, Answers
<1>8. status = "verified" => provider[e] = "gone"
  BY <1>1, <1>2, <1>7 DEF NextStatus, IndInv, AnswerInv
<1>9. quiet' \in [Erasures -> Nat]
  BY <1>2, <1>7, DurationAssumption DEF Record, IndInv, TypeOK, Minimum
<1>10. e \in deleted
  BY <1>1, <1>2 DEF HoldsLease, IndInv, OutboxInv
<1> HIDE DEF e, q, status
<1>11. row'[e] = Advanced(w) /\ \A x \in Erasures \ {e} : row'[x] = row[x]
  BY <1>2, <1>6 DEF IndInv, TypeOK
<1>12. /\ worker'[w] = q
       /\ \A x \in Workers \ {w} : worker'[x] = worker[x]
       /\ worker' \in [Workers -> Worker]
  BY <1>4, <1>5 DEF IndInv, TypeOK
<1>13. Advanced(w) # NoRow
  BY <1>2, RowAssumption
<1>14. TypeOK'
  BY <1>2, <1>5, <1>6, <1>9, <1>12 DEF IndInv, TypeOK
<1>15. PassInv'
  BY <1>3, <1>4, <1>12 DEF IndInv, PassInv
<1>16. LeaseInv'
  <2> SUFFICES ASSUME NEW x \in Workers, NEW y \in Erasures,
                      row'[y] # NoRow, worker'[x].seen[y] # NoRow,
                      worker'[x].token \in Tokens, row'[y].token = worker'[x].token
               PROVE  /\ worker'[x].seen[y].status = row'[y].status
                      /\ row'[y].status # "verified"
    BY DEF LeaseInv, Present
  <2>1. y # e /\ row'[y] = row[y]
    BY <1>2, <1>11, NullAssumption
  <2>2. worker'[x].seen[y] = worker[x].seen[y] /\ worker'[x].token = worker[x].token
    BY <1>4, <1>12
  <2> QED
    BY <2>1, <2>2 DEF IndInv, LeaseInv, Present
<1>17. AnswerInv'
  BY <1>4, <1>5, <1>12 DEF IndInv, AnswerInv
<1>18. OutboxInv'
  BY <1>5, <1>10, <1>11 DEF IndInv, OutboxInv, Present
<1>19. IdentifierClearedWhenVerified'
  BY <1>2, <1>11 DEF IndInv, IdentifierClearedWhenVerified, Present
<1>20. ErasureNeverForgotten'
  BY <1>2, <1>5, <1>8, <1>11, <1>13 DEF IndInv, TypeOK, ErasureNeverForgotten, Present
<1> QED
  BY <1>14, <1>15, <1>16, <1>17, <1>18, <1>19, <1>20 DEF IndInv

LEMMA StutterInv == ASSUME IndInv, UNCHANGED vars PROVE IndInv'
BY DEF vars, IndInv, TypeOK, PassInv, LeaseInv, AnswerInv, OutboxInv,
       ErasureNeverForgotten, IdentifierClearedWhenVerified, Present

LEMMA NextInv == IndInv /\ [Next]_vars => IndInv'
<1> SUFFICES ASSUME IndInv, [Next]_vars PROVE IndInv'
  OBVIOUS
<1>1. CASE UNCHANGED vars
  BY <1>1, StutterInv
<1>2. ASSUME NEW e \in Erasures, DeleteAccount(e) \/ ProviderErases(e) PROVE IndInv'
  BY <1>2, DeleteAccountInv, ProviderErasesInv
<1>3. ASSUME NEW w \in Workers, Step(w) PROVE IndInv'
  BY <1>3, ClaimInv, CleanupInv, CallInv, AnswersInv, RecordInv, LeaseLostInv DEF Step
<1>4. ASSUME NEW w \in Workers, Crash(w) PROVE IndInv'
  BY <1>4, CrashInv
<1>5. CASE Tick
  BY <1>5, TickInv
<1> QED
  BY <1>1, <1>2, <1>3, <1>4, <1>5 DEF Next, Others

-----------------------------------------------------------------------------
\* The inductive invariant holds in every behaviour.
THEOREM Invariance == Spec => []IndInv
<1>1. Init => IndInv
  BY InitInv
<1>2. IndInv /\ [Next]_vars => IndInv'
  BY NextInv
<1> QED
  BY <1>1, <1>2, PTL DEF Spec

\* The tables and the passes keep their types: no status outside the CHECK of
\* the table, no call without a row of the batch.
THEOREM ErasureTypes == Spec => []TypeOK
<1>1. IndInv => TypeOK
  BY DEF IndInv
<1> QED
  BY <1>1, Invariance, PTL

\* The obligation committed by DeleteAccount survives crashes, lost leases,
\* late answers and the retention cleanup.
THEOREM ObligationSurvives == Spec => []ErasureNeverForgotten
<1>1. IndInv => ErasureNeverForgotten
  BY DEF IndInv
<1> QED
  BY <1>1, Invariance, PTL

\* The CHECK constraint that ties the identifier to the status never fires.
THEOREM IdentifierCheck == Spec => []IdentifierClearedWhenVerified
<1>1. IndInv => IdentifierClearedWhenVerified
  BY DEF IndInv
<1> QED
  BY <1>1, Invariance, PTL

\* No step moves a row backwards: recording is fenced by the lease token, and
\* under a current lease the status that the claim returned is still the row's.
THEOREM NoRegression == Spec => StatusOnlyAdvances
<1> DEFINE Advances == \A e \in deleted : Rank(row[e]) <= Rank(row'[e])
<1>1. ASSUME IndInv, [Next]_vars PROVE Advances \/ UNCHANGED vars
  <2> SUFFICES ASSUME NEW e \in deleted PROVE Rank(row[e]) <= Rank(row'[e])
    OBVIOUS
  <2>1. e \in Erasures
    BY <1>1 DEF IndInv, TypeOK
  <2>2. CASE row'[e] = row[e]
    BY <2>2 DEF Rank
  <2>3. ASSUME NEW at, row' = Cleaned(at) PROVE Rank(row[e]) <= Rank(row'[e])
    <3>1. \/ row'[e] = row[e]
          \/ row[e] # NoRow /\ row[e].status = "verified" /\ row'[e] = NoRow
      BY <1>1, <2>1, <2>3, CleanedFacts DEF IndInv, Present
    <3> QED
      BY <2>2, <3>1 DEF Rank
  <2>4. ASSUME NEW w \in Workers, Claim(w) PROVE Rank(row[e]) <= Rank(row'[e])
    <3> DEFINE t == NewToken
    <3>1. PICK S \in SUBSET Erasures, skipped \in SUBSET MayBeLocked :
            Claimable(S, skipped) /\ row' = Leased(S, t)
      BY <2>4 DEF Claim
    <3>2. t \in Tokens /\ \A x \in S : Present(x)
      BY <2>4, <3>1, FreshToken DEF Claim, Claimable, Due
    <3> HIDE DEF t
    <3>3. \/ row'[e] = row[e]
          \/ /\ row[e] # NoRow
             /\ row'[e] \in Row
             /\ row'[e].status = row[e].status
      BY <1>1, <2>1, <3>1, <3>2, LeasedFacts DEF IndInv, Present
    <3> QED
      BY <3>3, RowAssumption DEF Rank
  <2>5. ASSUME NEW w \in Workers, Record(w) PROVE Rank(row[e]) <= Rank(row'[e])
    <3> DEFINE c == worker[w].cur
               status == NextStatus(worker[w].seen[c], worker[w].answer.kind)
    <3>1. worker[w].pc = "record" /\ HoldsLease(w) /\ row' = [row EXCEPT ![c] = Advanced(w)]
      BY <2>5 DEF Record
    <3>2. /\ c \in Erasures /\ row[c] \in Row
          /\ worker[w].seen[c].status = row[c].status
          /\ worker[w].seen[c].status # "verified"
          /\ Advanced(w) \in Row
          /\ Advanced(w).status = status
      BY <1>1, <3>1, AdvancedFacts
    <3>3. worker[w].answer.kind \in {"not_found", "accepted", "failed"}
      BY <1>1 DEF IndInv, TypeOK, Worker, Answers
    <3>4. status = "verified" \/ status = "verifying"
          \/ (status = "pending" /\ row[c].status # "verifying")
      BY <3>2, <3>3 DEF NextStatus
    <3>5. row'[e] = row[e] \/ (e = c /\ row'[e] = Advanced(w))
      BY <1>1, <2>1, <3>1 DEF IndInv, TypeOK
    <3> HIDE DEF c, status
    <3>6. row[c].status \in Statuses
      BY <3>2 DEF Row
    <3> QED
      BY <3>2, <3>4, <3>5, <3>6, RowAssumption DEF Rank, Statuses
  <2>6. CASE Tick
    <3>1. row[e] \in Row \cup {NoRow} /\ row'[e] = Aged(row[e])
      BY <1>1, <2>1, <2>6 DEF Tick, IndInv, TypeOK
    <3>2. CASE row[e] = NoRow
      BY <3>1, <3>2 DEF Aged, Rank
    <3>3. CASE row[e] # NoRow
      <4>1. row'[e] \in Row /\ row'[e].status = row[e].status
        BY <3>1, <3>3, AgedFacts
      <4> QED
        BY <3>3, <4>1, RowAssumption DEF Rank
    <3> QED
      BY <3>2, <3>3
  <2>7. ASSUME NEW d \in Erasures, DeleteAccount(d) PROVE Rank(row[e]) <= Rank(row'[e])
    <3>1. row'[e] = row[e]
      BY <1>1, <2>1, <2>7 DEF DeleteAccount, IndInv, TypeOK
    <3> QED
      BY <2>2, <3>1
  <2>8. ASSUME NEW w \in Workers, Step(w) PROVE Rank(row[e]) <= Rank(row'[e])
    <3>1. CASE Claim(w)
      BY <2>4, <3>1
    <3>2. CASE EmptyPass(w) \/ FinishPass(w)
      BY <2>3, <3>2 DEF EmptyPass, FinishPass
    <3>3. CASE Record(w)
      BY <2>5, <3>3
    <3>4. CASE Call(w) \/ Undecipherable(w) \/ LeaseLost(w)
               \/ AnswerDelete(w) \/ AnswerView(w) \/ AnswerFailure(w)
      <4>1. row' = row
        BY <3>4 DEF Call, Undecipherable, LeaseLost, AnswerDelete, AnswerView, AnswerFailure
      <4> QED
        BY <2>2, <4>1
    <3> QED
      BY <2>8, <3>1, <3>2, <3>3, <3>4 DEF Step
  <2>9. ASSUME NEW w \in Workers, Crash(w) PROVE Rank(row[e]) <= Rank(row'[e])
    BY <2>2, <2>9 DEF Crash
  <2>10. ASSUME NEW d \in Erasures, ProviderErases(d) PROVE Rank(row[e]) <= Rank(row'[e])
    BY <2>2, <2>10 DEF ProviderErases
  <2>11. CASE UNCHANGED vars
    BY <2>2, <2>11 DEF vars
  <2> QED
    BY <1>1, <2>6, <2>7, <2>8, <2>9, <2>10, <2>11 DEF Next, Others
<1>2. IndInv /\ [Next]_vars => [Advances]_vars
  BY <1>1
<1> QED
  BY <1>2, Invariance, PTL DEF Spec, StatusOnlyAdvances
=============================================================================
