-------------------------- MODULE EmailOutboxProofs --------------------------
(***************************************************************************)
(* Proofs about EmailOutbox for every set of messages, every finite number *)
(* of concurrent requests and dispatcher runs, every batch size and retry  *)
(* ladder, and every number of faults and excuses.                         *)
(***************************************************************************)
EXTENDS EmailOutbox, FiniteSetTheorems, TLAPS

-----------------------------------------------------------------------------
(* The inductive invariant.                                                *)

\* The slot is concerned with the message.
Holds(s, m) == s.job # None /\ s.job.m = m
Batched(s, m) == \E j \in s.batch : j.m = m
Has(s, m) == Holds(s, m) \/ Batched(s, m)

\* The slot may yet get the provider to accept the message, or give it back to
\* the queue without having done so.
Ticket(s, m) ==
    \/ Batched(s, m)
    \/ /\ Holds(s, m)
       /\ s.pc \in {"schedule", "send"} \/ (s.pc = "record" /\ s.outcome # "ok")

\* The slot stands for a claim of the message: it has to send it, or has sent
\* it and is to record that.
Covers(s, m) ==
    \/ Ticket(s, m)
    \/ Holds(s, m) /\ s.pc = "record" /\ s.outcome = "ok" /\ ~s.sync

Holders(m) == {w \in Slots : Ticket(slot[w], m)}

\* The row by itself leads to an attempt: it is not there yet, due, or will be
\* due with nobody at work on it.
Open(m) ==
    \/ msg[m] = None
    \/ /\ msg[m].status = "queued"
       /\ \/ msg[m].sched = "due"
          \/ msg[m].sched = "later" /\ \A w \in Slots : ~Covers(slot[w], m)
Pending(m) == IF Open(m) THEN 1 ELSE 0

\* Acceptances so far and attempts to come are paid for.
Paid(m) == accepted[m] + Cardinality(Holders(m)) + Pending(m) <= 1 + excuse[m]
CountInv == \A m \in Messages : Paid(m)

RowInv ==
    \A m \in Messages :
        /\ msg[m] # None /\ msg[m].status = "queued" => msg[m].attempts <= MaxRetries
        /\ msg[m] = None => accepted[m] = 0

\* What was reported was accepted.
ReportInv == \A e \in 1..Len(reported) : accepted[reported[e]] > 0

\* The shape of a slot: a message is at most once in its hands.
Shape(s) ==
    /\ s.pc = "idle" => s.batch = {}
    /\ s.pc \in {"idle", "check"} <=> s.job = None
    /\ s.pc = "check" => ~s.sync
    /\ \A j, k \in s.batch : j.m = k.m => j = k
    /\ \A j \in s.batch : ~Holds(s, j.m)

SlotsInv ==
    \A w \in Slots : /\ Shape(slot[w])
                     /\ \A m \in Messages : Has(slot[w], m) => msg[m] # None

\* A row that a request writes and sends at once is nobody else's.
Quiet(m) == /\ msg[m] # None /\ msg[m].status = "queued" /\ msg[m].sched = "none"
            /\ accepted[m] = 0
Sending(s) == s.sync /\ s.pc = "send"
Alone(w) == \A m \in Messages : Holds(slot[w], m) =>
                Quiet(m) /\ \A x \in Slots \ {w} : ~Has(slot[x], m)
SyncInv == \A w \in Slots : Sending(slot[w]) => Alone(w)

FeedInv == \A f \in Feeds : feed[f].pc # "idle" => feed[f].e \in 1..Len(reported)

IndInv == TypeOK /\ RowInv /\ ReportInv /\ SlotsInv /\ SyncInv /\ FeedInv /\ CountInv

-----------------------------------------------------------------------------
(* Counting.                                                               *)

T(s, m) == IF Ticket(s, m) THEN 1 ELSE 0

LEMMA HoldersFinite ==
    ASSUME NEW m
    PROVE  IsFiniteSet(Holders(m)) /\ Cardinality(Holders(m)) \in Nat
<1>1. Holders(m) \subseteq Slots
  BY DEF Holders
<1> QED
  BY <1>1, FS_Subset, FS_CardinalityType, NamesAssumption

\* One slot changes.
LEMMA HoldersCount ==
    ASSUME TypeOK, NEW m, NEW w \in Slots, NEW s, slot' = [slot EXCEPT ![w] = s]
    PROVE  Cardinality(Holders(m)') = Cardinality(Holders(m)) + T(s, m) - T(slot[w], m)
<1>1. \A x \in Slots : slot'[x] = IF x = w THEN s ELSE slot[x]
  BY DEF TypeOK
<1>2. IsFiniteSet(Holders(m)) /\ Cardinality(Holders(m)) \in Nat
  BY HoldersFinite
<1>3. /\ w \in Holders(m) <=> Ticket(slot[w], m)
      /\ w \in Holders(m)' <=> Ticket(s, m)
      /\ \A x \in Slots \ {w} : x \in Holders(m)' <=> x \in Holders(m)
      /\ Holders(m) \subseteq Slots /\ Holders(m)' \subseteq Slots
  <2>1. Holders(m)' = {x \in Slots : Ticket(slot'[x], m)}
    BY DEF Holders, Ticket, Holds, Batched
  <2> QED
    BY <1>1, <2>1 DEF Holders
<1>4. CASE Ticket(s, m) <=> Ticket(slot[w], m)
  <2>1. Holders(m)' = Holders(m)
    BY <1>3, <1>4
  <2> QED
    BY <1>2, <1>4, <2>1 DEF T
<1>5. CASE Ticket(s, m) /\ ~Ticket(slot[w], m)
  <2>1. Holders(m)' = Holders(m) \cup {w} /\ w \notin Holders(m)
    BY <1>3, <1>5
  <2>2. Cardinality(Holders(m)') = Cardinality(Holders(m)) + 1
    BY <1>2, <2>1, FS_AddElement
  <2> QED
    BY <1>2, <1>5, <2>2 DEF T
<1>6. CASE ~Ticket(s, m) /\ Ticket(slot[w], m)
  <2>1. Holders(m)' = Holders(m) \ {w} /\ w \in Holders(m)
    BY <1>3, <1>6
  <2>2. Cardinality(Holders(m)') = Cardinality(Holders(m)) - 1
    BY <1>2, <2>1, FS_RemoveElement
  <2> QED
    BY <1>2, <1>6, <2>2 DEF T
<1> QED
  BY <1>4, <1>5, <1>6

\* What a message has cost and will cost does not grow beyond its excuses.
LEMMA PaidStep ==
    ASSUME IndInv, NEW m \in Messages, NEW w \in Slots, NEW s, slot' = [slot EXCEPT ![w] = s],
           NEW a \in Nat, NEW e \in Nat,
           accepted'[m] = accepted[m] + a, excuse'[m] = excuse[m] + e,
           a + T(s, m) + Pending(m)' <= T(slot[w], m) + Pending(m) + e
    PROVE  Paid(m)'
<1>1. Cardinality(Holders(m)') = Cardinality(Holders(m)) + T(s, m) - T(slot[w], m)
  BY HoldersCount DEF IndInv
<1>2. /\ Cardinality(Holders(m)) \in Nat /\ accepted[m] \in Nat /\ excuse[m] \in Nat
      /\ T(s, m) \in Nat /\ T(slot[w], m) \in Nat /\ Pending(m) \in Nat /\ Pending(m)' \in Nat
  BY HoldersFinite DEF IndInv, TypeOK, T, Pending
<1>3. Paid(m)
  BY DEF IndInv, CountInv
<1>4. accepted'[m] + Cardinality(Holders(m)') + Pending(m)' <= 1 + excuse'[m]
  BY <1>1, <1>2, <1>3 DEF Paid
<1> QED
  BY <1>4 DEF Paid

\* The row stays, and so does whoever works on it.
LEMMA PendingKept ==
    ASSUME IndInv, NEW m \in Messages, NEW w \in Slots, NEW s, slot' = [slot EXCEPT ![w] = s],
           msg'[m] = msg[m], Covers(slot[w], m) => Covers(s, m)
    PROVE  Pending(m)' <= Pending(m)
<1>1. \A x \in Slots : slot'[x] = IF x = w THEN s ELSE slot[x]
  BY DEF IndInv, TypeOK
<1>2. \A x \in Slots : Covers(slot[x], m) => Covers(slot'[x], m)
  BY <1>1
<1>3. Open(m)' => Open(m)
  <2>1. Open(m)' <=> \/ msg'[m] = None
                     \/ /\ msg'[m].status = "queued"
                        /\ \/ msg'[m].sched = "due"
                           \/ msg'[m].sched = "later" /\ \A x \in Slots : ~Covers(slot'[x], m)
    BY DEF Open, Covers, Ticket, Holds, Batched
  <2> QED
    BY <1>2, <2>1 DEF Open
<1> QED
  BY <1>3 DEF Pending

\* No step by itself leads to more than one attempt; an ended row to none.
LEMMA PendingBound ==
    ASSUME NEW m \in Messages
    PROVE  /\ Pending(m) \in {0, 1} /\ Pending(m)' \in {0, 1}
           /\ msg'[m] # None /\ msg'[m].status # "queued" => Pending(m)' = 0
           /\ msg'[m] # None /\ msg'[m].sched = "none" => Pending(m)' = 0
           /\ msg[m] = None => Pending(m) = 1
           /\ msg[m] # None /\ msg[m].status = "queued" /\ msg[m].sched = "due" => Pending(m) = 1
BY DEF Pending, Open

-----------------------------------------------------------------------------
(* The parts of a step that are alike.                                     *)

\* Rows that requests send at once are left alone by everybody else: the actor
\* of the step, if a slot, is the only one who may have had such a row.
LEMMA SyncStep ==
    ASSUME IndInv, NEW actor,
           \A x \in Slots : Sending(slot'[x]) => slot'[x] = slot[x] /\ x # actor,
           \A m \in Messages : Quiet(m) /\ ~(actor \in Slots /\ Has(slot[actor], m)) =>
               msg'[m] = msg[m] /\ accepted'[m] = accepted[m],
           \A m \in Messages, x \in Slots : Quiet(m) /\ Has(slot'[x], m) => Has(slot[x], m)
    PROVE  SyncInv'
<1> SUFFICES ASSUME NEW x \in Slots, Sending(slot'[x]), NEW m \in Messages, Holds(slot'[x], m)
             PROVE  Quiet(m)' /\ \A y \in Slots \ {x} : ~Has(slot'[y], m)
  BY DEF SyncInv, Alone, Sending, Holds, Has, Batched
<1>1. slot'[x] = slot[x] /\ x # actor
  OBVIOUS
<1>2. Quiet(m) /\ \A y \in Slots \ {x} : ~Has(slot[y], m)
  BY <1>1 DEF IndInv, SyncInv, Alone
<1>3. msg'[m] = msg[m] /\ accepted'[m] = accepted[m]
  BY <1>1, <1>2
<1> QED
  BY <1>2, <1>3 DEF Quiet

Rows == [Messages -> Message \cup {None}]
Sources == (Nat \X {"report"}) \cup (Messages \X {"sync"})

\* A slot works on what it has: rows it does not have stay, and it takes up
\* nothing new.
LEMMA WorkStep ==
    ASSUME IndInv, NEW w \in Slots, NEW s \in Slot, slot' = [slot EXCEPT ![w] = s],
           Shape(s), ~Sending(s), \A n \in Messages : Has(s, n) => Has(slot[w], n),
           msg' \in Rows,
           \A n \in Messages : msg'[n] # msg[n] =>
               /\ Has(slot[w], n) /\ msg'[n] # None
               /\ msg'[n].status = "queued" => msg'[n].attempts <= MaxRetries,
           accepted' \in [Messages -> Nat], excuse' \in [Messages -> Nat],
           \A n \in Messages : accepted'[n] # accepted[n] =>
               Has(slot[w], n) /\ accepted'[n] > accepted[n],
           \A n \in Messages : Paid(n)',
           suppressed' \in BOOLEAN, events' \subseteq Sources, faults' \in 0..MaxFaults,
           UNCHANGED <<reported, feed>>
    PROVE  IndInv'
<1>1. /\ \A x \in Slots : slot'[x] = IF x = w THEN s ELSE slot[x]
      /\ slot' \in [Slots -> Slot]
  BY DEF IndInv, TypeOK
<1>2. TypeOK'
  BY <1>1 DEF IndInv, TypeOK, Rows, Sources
<1>3. \A n \in Messages : Has(slot[w], n) => msg[n] # None
  BY DEF IndInv, SlotsInv
<1>4. RowInv'
  <2> SUFFICES ASSUME NEW n \in Messages
               PROVE  /\ msg'[n] # None /\ msg'[n].status = "queued"
                            => msg'[n].attempts <= MaxRetries
                      /\ msg'[n] = None => accepted'[n] = 0
    BY DEF RowInv
  <2>1. accepted[n] \in Nat /\ accepted'[n] \in Nat
    BY DEF IndInv, TypeOK
  <2> QED
    BY <1>3, <2>1 DEF IndInv, RowInv
<1>5. SlotsInv'
  <2> SUFFICES ASSUME NEW x \in Slots
               PROVE  /\ Shape(slot'[x])
                      /\ \A m \in Messages : Has(slot'[x], m) => msg'[m] # None
    BY DEF SlotsInv, Shape, Has, Holds, Batched
  <2>1. Shape(slot[x]) /\ \A m \in Messages : Has(slot[x], m) => msg[m] # None
    BY DEF IndInv, SlotsInv
  <2> QED
    BY <1>1, <1>3, <2>1
<1>6. SyncInv'
  BY <1>1, SyncStep
<1>7. FeedInv' /\ CountInv'
  BY DEF IndInv, FeedInv, CountInv
<1>8. ReportInv'
  <2> SUFFICES ASSUME NEW e \in 1..Len(reported) PROVE accepted'[reported[e]] > 0
    BY DEF ReportInv
  <2>1. PICK n \in Messages : n = reported[e]
    BY DEF IndInv, TypeOK
  <2>2. accepted[n] > 0 /\ accepted[n] \in Nat /\ accepted'[n] \in Nat
    BY <2>1 DEF IndInv, ReportInv, TypeOK
  <2> QED
    BY <2>1, <2>2
<1> QED
  BY <1>2, <1>4, <1>5, <1>6, <1>7, <1>8 DEF IndInv

\* A message the slot goes on with as before, or drops with its ticket.
LEMMA PaidKept ==
    ASSUME IndInv, NEW w \in Slots, NEW s, slot' = [slot EXCEPT ![w] = s], NEW n \in Messages,
           msg'[n] = msg[n], accepted'[n] = accepted[n], excuse'[n] = excuse[n],
           Ticket(s, n) => Ticket(slot[w], n),
           Covers(slot[w], n) => Covers(s, n) \/ (Ticket(slot[w], n) /\ ~Ticket(s, n))
    PROVE  Paid(n)'
<1>1. /\ Pending(n) \in {0, 1} /\ Pending(n)' \in {0, 1}
      /\ accepted'[n] = accepted[n] + 0 /\ excuse'[n] = excuse[n] + 0
  BY PendingBound DEF IndInv, TypeOK
<1>2. CASE Ticket(slot[w], n) /\ ~Ticket(s, n)
  <2>1. T(s, n) = 0 /\ T(slot[w], n) = 1
    BY <1>2 DEF T
  <2>2. 0 + T(s, n) + Pending(n)' <= T(slot[w], n) + Pending(n) + 0
    BY <1>1, <2>1
  <2> QED
    BY <1>1, <2>2, PaidStep
<1>3. CASE ~(Ticket(slot[w], n) /\ ~Ticket(s, n))
  <2>1. Pending(n)' <= Pending(n)
    BY <1>3, PendingKept
  <2>2. T(s, n) = T(slot[w], n) /\ T(s, n) \in {0, 1}
    BY <1>3 DEF T
  <2>3. 0 + T(s, n) + Pending(n)' <= T(slot[w], n) + Pending(n) + 0
    BY <1>1, <2>1, <2>2
  <2> QED
    BY <1>1, <2>3, PaidStep
<1> QED
  BY <1>2, <1>3

\* The row of a message the slot had a ticket for is written; or it is closed.
LEMMA PaidWrite ==
    ASSUME IndInv, NEW w \in Slots, NEW s, slot' = [slot EXCEPT ![w] = s], NEW n \in Messages,
           msg'[n] # None, accepted'[n] = accepted[n], excuse'[n] = excuse[n],
           ~Ticket(s, n), Ticket(slot[w], n) \/ msg'[n].status # "queued"
    PROVE  Paid(n)'
<1>1. /\ Pending(n) \in {0, 1} /\ Pending(n)' \in {0, 1}
      /\ accepted'[n] = accepted[n] + 0 /\ excuse'[n] = excuse[n] + 0
      /\ msg'[n].status # "queued" => Pending(n)' = 0
  BY PendingBound DEF IndInv, TypeOK
<1>2. T(s, n) = 0 /\ T(slot[w], n) \in {0, 1} /\ (T(slot[w], n) = 1 \/ Pending(n)' = 0)
  BY <1>1 DEF T
<1>3. 0 + T(s, n) + Pending(n)' <= T(slot[w], n) + Pending(n) + 0
  BY <1>1, <1>2
<1> QED
  BY <1>1, <1>3, PaidStep

LEMMA IdleFits ==
    /\ IdleSlot \in Slot /\ Shape(IdleSlot) /\ ~Sending(IdleSlot)
    /\ \A m : ~Has(IdleSlot, m) /\ ~Ticket(IdleSlot, m) /\ ~Covers(IdleSlot, m)
<1>1. IdleSlot \in Slot
  BY DEF IdleSlot, Slot
<1>2. /\ IdleSlot.pc = "idle" /\ IdleSlot.job = None /\ IdleSlot.batch = {} /\ ~IdleSlot.sync
  BY DEF IdleSlot
<1> QED
  BY <1>1, <1>2 DEF Shape, Sending, Has, Holds, Batched, Ticket, Covers

\* The rest of a batch.
LEMMA NextFits ==
    ASSUME IndInv, NEW w \in Slots
    PROVE  /\ NextJob(w) \in Slot /\ Shape(NextJob(w)) /\ ~Sending(NextJob(w))
           /\ \A m : /\ Has(NextJob(w), m) <=> Batched(slot[w], m)
                     /\ Ticket(NextJob(w), m) <=> Batched(slot[w], m)
                     /\ Covers(NextJob(w), m) <=> Batched(slot[w], m)
<1>1. slot[w] \in Slot /\ Shape(slot[w])
  BY DEF IndInv, TypeOK, SlotsInv
<1>2. CASE slot[w].batch = {}
  BY <1>2, IdleFits DEF NextJob, Batched
<1>3. CASE slot[w].batch # {}
  <2>1. NextJob(w) = [IdleSlot EXCEPT !.pc = "check", !.batch = slot[w].batch]
    BY <1>3 DEF NextJob
  <2>2. NextJob(w) \in Slot
    BY <1>1, <2>1, IdleFits DEF Slot
  <2>3. /\ NextJob(w).pc = "check" /\ NextJob(w).job = None /\ NextJob(w).batch = slot[w].batch
        /\ ~NextJob(w).sync
    BY <2>1 DEF IdleSlot
  <2> QED
    BY <1>1, <2>2, <2>3 DEF Shape, Sending, Has, Holds, Batched, Ticket, Covers
<1> QED
  BY <1>2, <1>3

-----------------------------------------------------------------------------
(* The steps of a slot at work.                                            *)

LEMMA SetRow ==
    ASSUME IndInv, NEW m \in Messages, msg[m] # None,
           NEW status \in {"queued", "sent", "failed", "skipped"},
           NEW attempts \in 0..MaxRetries + 1, NEW sched \in {"none", "later", "due"},
           Set(m, status, attempts, sched)
    PROVE  /\ msg' \in Rows /\ msg'[m] # None
           /\ msg'[m].status = status /\ msg'[m].attempts = attempts /\ msg'[m].sched = sched
           /\ \A n \in Messages : n # m => msg'[n] = msg[n]
<1>1. PICK row : row = [msg[m] EXCEPT !.status = status, !.attempts = attempts, !.sched = sched]
  OBVIOUS
<1>2. msg[m] \in Message
  BY DEF IndInv, TypeOK
<1>3. row \in Message
  BY <1>1, <1>2 DEF Message
<1>4. row.status = status /\ row.attempts = attempts /\ row.sched = sched /\ row # None
  BY <1>1, <1>2, <1>3, RowsAssumption DEF Message
<1>5. msg' = [msg EXCEPT ![m] = row]
  BY <1>1 DEF Set, IndInv, TypeOK
<1> QED
  BY <1>3, <1>4, <1>5 DEF IndInv, TypeOK, Rows

\* The message at hand.
LEMMA AtHand ==
    ASSUME IndInv, NEW w \in Slots, slot[w].pc \notin {"idle", "check"}
    PROVE  /\ slot[w].job # None /\ slot[w].job \in Job
           /\ slot[w].job.m \in Messages /\ slot[w].job.attempts \in 0..MaxRetries
           /\ msg[slot[w].job.m] # None /\ Has(slot[w], slot[w].job.m)
           /\ ~Batched(slot[w], slot[w].job.m)
<1>1. slot[w] \in Slot /\ Shape(slot[w])
  BY DEF IndInv, TypeOK, SlotsInv
<1>2. slot[w].job # None /\ slot[w].job \in Job
  BY <1>1 DEF Shape, Slot
<1>3. slot[w].job.m \in Messages /\ slot[w].job.attempts \in 0..MaxRetries
  BY <1>2 DEF Job
<1>4. Has(slot[w], slot[w].job.m) /\ ~Batched(slot[w], slot[w].job.m)
  BY <1>1, <1>2 DEF Has, Holds, Batched, Shape
<1> QED
  BY <1>2, <1>3, <1>4 DEF IndInv, SlotsInv

\* The slot goes on with the message it has.
Going(w, pc, outcome) == [slot[w] EXCEPT !.pc = pc, !.outcome = outcome]

LEMMA GoOn ==
    ASSUME IndInv, NEW w \in Slots, slot[w].pc \notin {"idle", "check"},
           NEW pc \in {"record", "event", "suppress", "resendSchedule"},
           NEW outcome \in {"none", "ok", "bounce", "error"}
    PROVE  /\ Going(w, pc, outcome) \in Slot
           /\ Shape(Going(w, pc, outcome)) /\ ~Sending(Going(w, pc, outcome))
           /\ Going(w, pc, outcome).pc = pc /\ Going(w, pc, outcome).outcome = outcome
           /\ Going(w, pc, outcome).sync = slot[w].sync
           /\ \A m : /\ Holds(Going(w, pc, outcome), m) <=> Holds(slot[w], m)
                     /\ Batched(Going(w, pc, outcome), m) <=> Batched(slot[w], m)
<1> DEFINE s == Going(w, pc, outcome)
<1>1. slot[w] \in Slot /\ Shape(slot[w])
  BY DEF IndInv, TypeOK, SlotsInv
<1>2. s \in Slot
  BY <1>1 DEF Slot, Going
<1>3. /\ s.pc = pc /\ s.outcome = outcome /\ s.sync = slot[w].sync
      /\ s.job = slot[w].job /\ s.batch = slot[w].batch
  BY <1>1 DEF Slot, Going
<1> QED
  BY <1>1, <1>2, <1>3 DEF Shape, Sending, Holds, Batched

LEMMA SendInv ==
    ASSUME IndInv, NEW w \in Slots, NEW outcome \in {"ok", "bounce", "error"}, Send(w, outcome)
    PROVE  IndInv'
<1>1. PICK m \in Messages : m = slot[w].job.m
  BY AtHand DEF Send, At
<1>2. /\ slot[w].pc = "send" /\ slot[w].job # None /\ msg[m] # None
      /\ Has(slot[w], m) /\ Holds(slot[w], m) /\ ~Batched(slot[w], m)
  BY <1>1, AtHand DEF Send, At, Holds
<1>3. PICK s : s = Going(w, "record", outcome)
  OBVIOUS
<1>4. slot' = [slot EXCEPT ![w] = s] /\ UNCHANGED <<msg, suppressed, events, reported, feed, excuse, faults>>
  BY <1>3 DEF Send, Goto, Going
<1>5. /\ s \in Slot /\ Shape(s) /\ ~Sending(s)
      /\ s.pc = "record" /\ s.outcome = outcome /\ s.sync = slot[w].sync
      /\ \A n : /\ Holds(s, n) <=> Holds(slot[w], n)
                /\ Batched(s, n) <=> Batched(slot[w], n)
  BY <1>2, <1>3, GoOn
<1>6. PICK a \in {0, 1} : a = IF outcome = "ok" THEN 1 ELSE 0
  OBVIOUS
<1>7. accepted' = [accepted EXCEPT ![m] = @ + a]
  BY <1>1, <1>6 DEF Send
<1>8. /\ accepted' \in [Messages -> Nat] /\ accepted'[m] = accepted[m] + a
      /\ \A n \in Messages : n # m => accepted'[n] = accepted[n]
      /\ accepted[m] \in Nat
  BY <1>7 DEF IndInv, TypeOK
<1>9. \A n : Ticket(slot[w], n) <=> Has(slot[w], n)
  BY <1>2 DEF Ticket, Has
<1>10. ASSUME NEW n \in Messages, n # m \/ outcome # "ok" PROVE Paid(n)'
  <2>1. accepted'[n] = accepted[n]
    BY <1>6, <1>8, <1>10
  <2>2. Ticket(s, n) <=> Ticket(slot[w], n)
    BY <1>1, <1>2, <1>5, <1>10 DEF Ticket, Holds
  <2> QED
    BY <1>2, <1>4, <2>1, <2>2, PaidKept DEF Covers
<1>11. ASSUME outcome = "ok" PROVE Paid(m)'
  <2>1. ~Ticket(s, m) /\ Ticket(slot[w], m)
    BY <1>2, <1>5, <1>9, <1>11 DEF Ticket
  <2>2. Pending(m)' <= Pending(m)
    <3>1. CASE slot[w].sync
      <4>1. msg[m].sched = "none"
        BY <1>2, <3>1 DEF IndInv, SyncInv, Sending, Alone, Quiet
      <4> QED
        BY <1>2, <1>4, <4>1, PendingBound
    <3>2. CASE ~slot[w].sync
      <4>1. Covers(s, m)
        BY <1>2, <1>5, <1>11, <3>2 DEF Covers
      <4> QED
        BY <1>4, <4>1, PendingKept
    <3> QED
      BY <3>1, <3>2
  <2>3. T(s, m) = 0 /\ T(slot[w], m) = 1 /\ a = 1 /\ Pending(m) \in {0, 1} /\ Pending(m)' \in {0, 1}
    BY <1>6, <1>11, <2>1, PendingBound DEF T
  <2>4. 1 + T(s, m) + Pending(m)' <= T(slot[w], m) + Pending(m) + 0
    BY <2>2, <2>3
  <2>5. excuse'[m] = excuse[m] + 0 /\ accepted'[m] = accepted[m] + 1
    BY <1>4, <1>8, <2>3 DEF IndInv, TypeOK
  <2> QED
    BY <1>4, <2>4, <2>5, PaidStep
<1>12. \A n \in Messages : Paid(n)'
  BY <1>10, <1>11
<1>13. \A n \in Messages : Has(s, n) => Has(slot[w], n)
  BY <1>5 DEF Has
<1>14. \A n \in Messages : accepted'[n] # accepted[n] => Has(slot[w], n) /\ accepted'[n] > accepted[n]
  BY <1>2, <1>8
<1>15. /\ msg' \in Rows /\ excuse' \in [Messages -> Nat] /\ suppressed' \in BOOLEAN
       /\ events' \subseteq Sources /\ faults' \in 0..MaxFaults /\ msg' = msg
  BY <1>4 DEF IndInv, TypeOK, Rows, Sources
<1> QED
  BY <1>4, <1>5, <1>8, <1>12, <1>13, <1>14, <1>15, WorkStep

\* An answer that is lost is an acceptance and its excuse at once, and the
\* ticket is kept.
LEMMA SendAnswerLostInv ==
    ASSUME IndInv, NEW w \in Slots, SendAnswerLost(w)
    PROVE  IndInv'
<1>1. PICK m \in Messages : m = slot[w].job.m
  BY AtHand DEF SendAnswerLost, At
<1>2. /\ slot[w].pc = "send" /\ slot[w].job # None /\ msg[m] # None
      /\ Has(slot[w], m) /\ Holds(slot[w], m) /\ ~Batched(slot[w], m)
  BY <1>1, AtHand DEF SendAnswerLost, At, Holds
<1>3. PICK s : s = Going(w, "record", "error")
  OBVIOUS
<1>4. slot' = [slot EXCEPT ![w] = s] /\ UNCHANGED <<msg, suppressed, events, reported, feed>>
  BY <1>3 DEF SendAnswerLost, Goto, Going
<1>5. /\ s \in Slot /\ Shape(s) /\ ~Sending(s)
      /\ s.pc = "record" /\ s.outcome = "error"
      /\ \A n : /\ Holds(s, n) <=> Holds(slot[w], n)
                /\ Batched(s, n) <=> Batched(slot[w], n)
  BY <1>2, <1>3, GoOn
<1>6. /\ accepted' \in [Messages -> Nat] /\ excuse' \in [Messages -> Nat]
      /\ accepted'[m] = accepted[m] + 1 /\ excuse'[m] = excuse[m] + 1
      /\ \A n \in Messages : n # m => accepted'[n] = accepted[n] /\ excuse'[n] = excuse[n]
      /\ accepted[m] \in Nat
  <2>1. /\ accepted \in [Messages -> Nat] /\ excuse \in [Messages -> Nat]
        /\ accepted[m] \in Nat /\ excuse[m] \in Nat
    BY DEF IndInv, TypeOK
  <2>2. /\ accepted' = [accepted EXCEPT ![m] = accepted[m] + 1]
        /\ excuse' = [excuse EXCEPT ![m] = excuse[m] + 1]
    BY <1>1 DEF SendAnswerLost
  <2> QED
    BY ONLY <2>1, <2>2, m \in Messages
<1>7. \A n : (Ticket(s, n) <=> Ticket(slot[w], n)) /\ (Covers(slot[w], n) => Covers(s, n))
  BY <1>2, <1>5 DEF Ticket, Covers
<1>8. \A n \in Messages : n # m => Paid(n)'
  BY <1>4, <1>6, <1>7, PaidKept
<1>9. Paid(m)'
  <2>1. Pending(m)' <= Pending(m) /\ Pending(m) \in {0, 1} /\ Pending(m)' \in {0, 1}
    BY <1>4, <1>7, PendingKept, PendingBound
  <2>2. T(s, m) = T(slot[w], m) /\ T(s, m) \in {0, 1}
    BY <1>7 DEF T
  <2>3. 1 + T(s, m) + Pending(m)' <= T(slot[w], m) + Pending(m) + 1
    BY <2>1, <2>2
  <2> QED
    BY <1>4, <1>6, <2>3, PaidStep
<1>10. \A n \in Messages : Paid(n)'
  BY <1>8, <1>9
<1>11. \A n \in Messages : Has(s, n) => Has(slot[w], n)
  BY <1>5 DEF Has
<1>12. \A n \in Messages : accepted'[n] # accepted[n] => Has(slot[w], n) /\ accepted'[n] > accepted[n]
  BY <1>2, <1>6
<1>13. /\ msg' \in Rows /\ suppressed' \in BOOLEAN /\ events' \subseteq Sources /\ msg' = msg
  BY <1>4 DEF IndInv, TypeOK, Rows, Sources
<1>14. faults' \in 0..MaxFaults
  BY BoundsAssumption DEF SendAnswerLost, IndInv, TypeOK
<1> QED
  BY <1>4, <1>5, <1>6, <1>10, <1>11, <1>12, <1>13, <1>14, WorkStep

\* What becomes of a message in the hands of a slot that does not write it.
Goes(s, q, n) ==
    /\ Has(q, n) => Has(s, n)
    /\ Ticket(q, n) => Ticket(s, n)
    /\ Covers(s, n) => Covers(q, n) \/ (Ticket(s, n) /\ ~Ticket(q, n))

\* The slot moves on and writes no row.
LEMMA MoveStep ==
    ASSUME IndInv, NEW w \in Slots, NEW s \in Slot, slot' = [slot EXCEPT ![w] = s],
           Shape(s), ~Sending(s), \A n \in Messages : Goes(slot[w], s, n),
           suppressed' \in BOOLEAN, events' \subseteq Sources, faults' \in 0..MaxFaults,
           UNCHANGED <<msg, accepted, excuse, reported, feed>>
    PROVE  IndInv'
<1>1. \A n \in Messages : Paid(n)'
  BY PaidKept DEF Goes
<1>2. /\ msg' \in Rows /\ accepted' \in [Messages -> Nat] /\ excuse' \in [Messages -> Nat]
      /\ msg' = msg /\ accepted' = accepted
  BY DEF IndInv, TypeOK, Rows
<1>3. \A n \in Messages : Has(s, n) => Has(slot[w], n)
  BY DEF Goes
<1> QED
  BY <1>1, <1>2, <1>3, WorkStep

\* The slot writes the row of one message and is done with it.
LEMMA WriteStep ==
    ASSUME IndInv, NEW w \in Slots, NEW s \in Slot, slot' = [slot EXCEPT ![w] = s],
           Shape(s), ~Sending(s), NEW m \in Messages, Has(slot[w], m),
           NEW status \in {"queued", "sent", "failed", "skipped"},
           NEW attempts \in 0..MaxRetries + 1, NEW sched \in {"none", "later", "due"},
           Set(m, status, attempts, sched), status = "queued" => attempts <= MaxRetries,
           ~Ticket(s, m), Ticket(slot[w], m) \/ status # "queued",
           \A n \in Messages : Has(s, n) => Has(slot[w], n),
           \A n \in Messages \ {m} : Goes(slot[w], s, n),
           UNCHANGED <<suppressed, events, reported, feed, accepted, excuse, faults>>
    PROVE  IndInv'
<1>1. msg[m] # None
  BY DEF IndInv, SlotsInv
<1>2. /\ msg' \in Rows /\ msg'[m] # None
      /\ msg'[m].status = status /\ msg'[m].attempts = attempts /\ msg'[m].sched = sched
      /\ \A n \in Messages : n # m => msg'[n] = msg[n]
  BY <1>1, SetRow
<1>3. Paid(m)'
  BY <1>2, PaidWrite
<1>4. \A n \in Messages : n # m => Paid(n)'
  BY <1>2, PaidKept DEF Goes
<1>5. /\ accepted' \in [Messages -> Nat] /\ excuse' \in [Messages -> Nat] /\ accepted' = accepted
      /\ suppressed' \in BOOLEAN /\ events' \subseteq Sources /\ faults' \in 0..MaxFaults
  BY DEF IndInv, TypeOK, Sources
<1>6. \A n \in Messages : msg'[n] # msg[n] =>
         /\ Has(slot[w], n) /\ msg'[n] # None
         /\ msg'[n].status = "queued" => msg'[n].attempts <= MaxRetries
  BY <1>2
<1>7. \A n \in Messages : Paid(n)'
  BY <1>3, <1>4
<1> QED
  BY <1>2, <1>5, <1>6, <1>7, WorkStep

\* The status after the call: the job is over, and if the row is queued again
\* the slot still had its ticket.
LEMMA RecordInv ==
    ASSUME IndInv, NEW w \in Slots, Record(w)
    PROVE  IndInv'
<1>1. PICK m \in Messages : m = slot[w].job.m
  BY AtHand DEF Record, At
<1>2. /\ slot[w].pc = "record" /\ slot[w].job # None /\ msg[m] # None
      /\ Has(slot[w], m) /\ Holds(slot[w], m) /\ ~Batched(slot[w], m)
      /\ slot[w].job.attempts \in 0..MaxRetries
  BY <1>1, AtHand DEF Record, At, Holds
<1>3. PICK attempts \in 0..MaxRetries + 1 : attempts = slot[w].job.attempts + 1
  BY <1>2, BoundsAssumption
<1>4. UNCHANGED <<suppressed, events, reported, feed, accepted, excuse, faults>>
  BY DEF Record
<1>5. /\ NextJob(w) \in Slot /\ Shape(NextJob(w)) /\ ~Sending(NextJob(w)) /\ ~Ticket(NextJob(w), m)
      /\ \A n \in Messages : Has(NextJob(w), n) => Has(slot[w], n)
      /\ \A n \in Messages \ {m} : Goes(slot[w], NextJob(w), n)
  <2>1. \A n \in Messages \ {m} : ~Holds(slot[w], n)
    BY <1>1 DEF Holds
  <2> QED
    BY <1>2, <2>1, NextFits DEF Goes, Has, Ticket, Covers
<1>6. CASE slot[w].outcome = "ok" /\ Set(m, "sent", attempts, "none") /\ Goto(w, NextJob(w))
  BY <1>2, <1>4, <1>5, <1>6, WriteStep DEF Goto
<1>7. CASE slot[w].outcome = "error" /\ Goto(w, NextJob(w))
           /\ IF HasRetry(attempts) THEN Set(m, "queued", attempts, "later")
                                    ELSE Set(m, "failed", attempts, "none")
  <2>1. Ticket(slot[w], m)
    BY <1>2, <1>7 DEF Ticket
  <2>2. CASE HasRetry(attempts)
    <3>1. attempts <= MaxRetries
      BY <2>2, BoundsAssumption DEF HasRetry
    <3> QED
      BY <1>2, <1>4, <1>5, <1>7, <2>1, <2>2, <3>1, WriteStep DEF Goto
  <2>3. CASE ~HasRetry(attempts)
    BY <1>2, <1>4, <1>5, <1>7, <2>1, <2>3, WriteStep DEF Goto
  <2> QED
    BY <2>2, <2>3
<1>8. CASE slot[w].outcome = "bounce" /\ Set(m, "failed", attempts, "none")
           /\ Goto(w, [slot[w] EXCEPT !.pc = "event"])
  <2>1. PICK s : s = Going(w, "event", "bounce")
    OBVIOUS
  <2>2. slot' = [slot EXCEPT ![w] = s]
    BY <1>8, <2>1 DEF Goto, Going, IndInv, TypeOK, Slot
  <2>3. /\ s \in Slot /\ Shape(s) /\ ~Sending(s)
        /\ s.pc = "event" /\ s.outcome = "bounce" /\ s.sync = slot[w].sync
        /\ \A n : /\ Holds(s, n) <=> Holds(slot[w], n)
                  /\ Batched(s, n) <=> Batched(slot[w], n)
    BY <1>2, <2>1, GoOn
  <2>4. /\ ~Ticket(s, m) /\ \A n \in Messages : Has(s, n) => Has(slot[w], n)
        /\ \A n \in Messages \ {m} : Goes(slot[w], s, n)
    <3>1. \A n \in Messages \ {m} : ~Holds(slot[w], n)
      BY <1>1 DEF Holds
    <3> QED
      BY <1>2, <2>3, <3>1 DEF Goes, Has, Ticket, Covers
  <2> QED
    BY <1>2, <1>4, <1>8, <2>2, <2>3, <2>4, WriteStep
<1> QED
  BY <1>1, <1>3, <1>6, <1>7, <1>8 DEF Record

\* From one step to the next with the same message, which is no longer to be
\* sent: after a bounce, or before a resend.
LEMMA FollowUp ==
    ASSUME IndInv, NEW w \in Slots, NEW pc \in {"event", "suppress", "resendSchedule"},
           \/ slot[w].pc = "record" /\ slot[w].outcome = "bounce"
           \/ slot[w].pc \in {"event", "resendCheck"},
           slot' = [slot EXCEPT ![w] = [slot[w] EXCEPT !.pc = pc]],
           suppressed' \in BOOLEAN, events' \subseteq Sources, faults' \in 0..MaxFaults,
           UNCHANGED <<msg, accepted, excuse, reported, feed>>
    PROVE  IndInv'
<1>1. slot[w] \in Slot
  BY DEF IndInv, TypeOK
<1>2. PICK outcome \in {"none", "ok", "bounce", "error"} : outcome = slot[w].outcome
  BY <1>1 DEF Slot
<1>3. PICK s : s = Going(w, pc, outcome)
  OBVIOUS
<1>4. slot' = [slot EXCEPT ![w] = s]
  BY <1>1, <1>2, <1>3 DEF Going, Slot
<1>5. /\ s \in Slot /\ Shape(s) /\ ~Sending(s) /\ s.pc = pc
      /\ \A n : /\ Holds(s, n) <=> Holds(slot[w], n)
                /\ Batched(s, n) <=> Batched(slot[w], n)
  BY <1>3, GoOn
<1>6. \A n \in Messages : Goes(slot[w], s, n)
  BY <1>5 DEF Goes, Has, Ticket, Covers
<1> QED
  BY <1>4, <1>5, <1>6, MoveStep

LEMMA BounceEventInv ==
    ASSUME IndInv, NEW w \in Slots, BounceEvent(w)
    PROVE  IndInv'
<1>1. slot[w].pc = "event" /\ slot[w].job.m \in Messages
  BY AtHand DEF BounceEvent, At
<1>2. /\ events' \subseteq Sources /\ suppressed' \in BOOLEAN /\ faults' \in 0..MaxFaults
  BY <1>1 DEF BounceEvent, IndInv, TypeOK, Sources
<1> QED
  BY <1>1, <1>2, FollowUp DEF BounceEvent, Goto

LEMMA BounceSuppressInv ==
    ASSUME IndInv, NEW w \in Slots, BounceSuppress(w)
    PROVE  IndInv'
<1>1. slot[w].pc = "suppress"
  BY DEF BounceSuppress, At
<1>2. \A n \in Messages : Goes(slot[w], NextJob(w), n)
  BY <1>1, NextFits DEF Goes, Has, Ticket, Covers
<1>3. /\ events' \subseteq Sources /\ suppressed' \in BOOLEAN /\ faults' \in 0..MaxFaults
  BY DEF BounceSuppress, IndInv, TypeOK, Sources
<1> QED
  BY <1>2, <1>3, NextFits, MoveStep DEF BounceSuppress, Goto

LEMMA UpdateIgnoredInv ==
    ASSUME IndInv, NEW w \in Slots, UpdateIgnored(w)
    PROVE  IndInv'
<1>1. slot[w].pc = "record" /\ slot[w].outcome = "bounce"
  BY DEF UpdateIgnored, At
<1>2. /\ events' \subseteq Sources /\ suppressed' \in BOOLEAN /\ faults' \in 0..MaxFaults
  BY BoundsAssumption DEF UpdateIgnored, IndInv, TypeOK, Sources
<1> QED
  BY <1>1, <1>2, FollowUp DEF UpdateIgnored, Goto

LEMMA ResendCheckInv ==
    ASSUME IndInv, NEW w \in Slots, ResendCheck(w)
    PROVE  IndInv'
<1>1. slot[w].pc = "resendCheck"
  BY DEF ResendCheck, At
<1>2. /\ events' \subseteq Sources /\ suppressed' \in BOOLEAN /\ faults' \in 0..MaxFaults
  BY DEF ResendCheck, IndInv, TypeOK, Sources
<1>3. CASE suppressed
  <2>1. \A n \in Messages : Goes(slot[w], IdleSlot, n)
    BY <1>1, IdleFits DEF Goes, Has, Ticket, Covers
  <2> QED
    BY <1>2, <1>3, <2>1, IdleFits, MoveStep DEF ResendCheck, Goto
<1>4. CASE ~suppressed
  BY <1>1, <1>2, <1>4, FollowUp DEF ResendCheck, Goto
<1> QED
  BY <1>3, <1>4

LEMMA EnqueueScheduleInv ==
    ASSUME IndInv, NEW w \in Slots, EnqueueSchedule(w)
    PROVE  IndInv'
<1>1. PICK m \in Messages : m = slot[w].job.m
  BY AtHand DEF EnqueueSchedule, At
<1>2. slot[w].pc = "schedule" /\ Has(slot[w], m) /\ Holds(slot[w], m)
  BY <1>1, AtHand DEF EnqueueSchedule, At, Holds
<1>3. Ticket(slot[w], m) /\ \A n \in Messages \ {m} : Goes(slot[w], IdleSlot, n)
  BY <1>1, <1>2, IdleFits DEF Goes, Ticket, Covers, Holds
<1>4. 0 \in 0..MaxRetries + 1 /\ 0 <= MaxRetries
  BY BoundsAssumption
<1> QED
  BY <1>1, <1>2, <1>3, <1>4, IdleFits, WriteStep DEF EnqueueSchedule, Goto

\* A resend is paid for by its excuse.
LEMMA ResendScheduleInv ==
    ASSUME IndInv, NEW w \in Slots, ResendSchedule(w)
    PROVE  IndInv'
<1>1. PICK m \in Messages : m = slot[w].job.m
  BY AtHand DEF ResendSchedule, At
<1>2. slot[w].pc = "resendSchedule" /\ Has(slot[w], m) /\ Holds(slot[w], m) /\ msg[m] # None
  BY <1>1, AtHand DEF ResendSchedule, At, Holds
<1>3. \A n \in Messages : Goes(slot[w], IdleSlot, n)
  BY <1>2, IdleFits DEF Goes, Ticket, Covers
<1>4. 0 \in 0..MaxRetries + 1 /\ 0 <= MaxRetries
  BY BoundsAssumption
<1>5. /\ msg' \in Rows /\ msg'[m] # None /\ msg'[m].status = "queued" /\ msg'[m].attempts = 0
      /\ \A n \in Messages : n # m => msg'[n] = msg[n]
  BY <1>1, <1>2, <1>4, SetRow DEF ResendSchedule
<1>6. /\ excuse' \in [Messages -> Nat] /\ excuse'[m] = excuse[m] + 1
      /\ \A n \in Messages : n # m => excuse'[n] = excuse[n]
  BY <1>1 DEF ResendSchedule, IndInv, TypeOK
<1>7. slot' = [slot EXCEPT ![w] = IdleSlot] /\ UNCHANGED <<suppressed, events, reported, feed, accepted, faults>>
  BY DEF ResendSchedule, Goto
<1>8. Paid(m)'
  <2>1. /\ T(IdleSlot, m) = 0 /\ T(slot[w], m) \in {0, 1} /\ Pending(m) \in {0, 1}
        /\ Pending(m)' \in {0, 1}
    BY IdleFits, PendingBound DEF T
  <2>2. 0 + T(IdleSlot, m) + Pending(m)' <= T(slot[w], m) + Pending(m) + 1
    BY <2>1
  <2>3. accepted'[m] = accepted[m] + 0
    BY <1>7 DEF IndInv, TypeOK
  <2> QED
    BY <1>6, <1>7, <2>2, <2>3, PaidStep
<1>9. \A n \in Messages : n # m => Paid(n)'
  BY <1>3, <1>5, <1>6, <1>7, PaidKept DEF Goes
<1>10. \A n \in Messages : Paid(n)'
  BY <1>8, <1>9
<1>11. /\ accepted' \in [Messages -> Nat] /\ accepted' = accepted
       /\ suppressed' \in BOOLEAN /\ events' \subseteq Sources /\ faults' \in 0..MaxFaults
  BY <1>7 DEF IndInv, TypeOK, Sources
<1>12. \A n \in Messages : msg'[n] # msg[n] =>
         /\ Has(slot[w], n) /\ msg'[n] # None
         /\ msg'[n].status = "queued" => msg'[n].attempts <= MaxRetries
  BY <1>2, <1>4, <1>5
<1> QED
  BY <1>5, <1>6, <1>7, <1>10, <1>11, <1>12, IdleFits, WorkStep

\* A suppressed message is skipped, another one is the next to be sent.
LEMMA CheckInv ==
    ASSUME IndInv, NEW w \in Slots, Check(w)
    PROVE  IndInv'
<1>1. /\ slot[w] \in Slot /\ Shape(slot[w]) /\ slot[w].pc = "check" /\ slot[w].job = None
      /\ ~slot[w].sync
  BY DEF IndInv, TypeOK, SlotsInv, Check, At, Shape
<1>2. UNCHANGED <<suppressed, events, reported, feed, accepted, excuse, faults>>
  BY DEF Check
<1>3. PICK j \in slot[w].batch :
        LET rest == [slot[w] EXCEPT !.batch = @ \ {j}]
        IN IF suppressed /\ ~msg[j.m].critical
           THEN /\ Set(j.m, "skipped", j.attempts, "none")
                /\ Goto(w, IF rest.batch = {} THEN IdleSlot ELSE rest)
           ELSE /\ Goto(w, [rest EXCEPT !.pc = "send", !.job = j])
                /\ UNCHANGED msg
  BY DEF Check
<1>4. j \in Job /\ j # None
  BY <1>1, RowsAssumption DEF Slot
<1>5. PICK m \in Messages : m = j.m
  BY <1>4 DEF Job
<1>6. j.attempts \in 0..MaxRetries /\ j.attempts \in 0..MaxRetries + 1
  BY <1>4, BoundsAssumption DEF Job
<1>7. PICK rest \in Slot : rest = [slot[w] EXCEPT !.batch = @ \ {j}]
  BY <1>1 DEF Slot
<1>8. /\ rest.pc = "check" /\ rest.job = None /\ ~rest.sync /\ rest.batch = slot[w].batch \ {j}
  BY <1>1, <1>7 DEF Slot
<1>9. /\ \A n : Has(slot[w], n) <=> Batched(slot[w], n)
      /\ \A n : Ticket(slot[w], n) <=> Batched(slot[w], n)
      /\ \A n : Covers(slot[w], n) <=> Batched(slot[w], n)
      /\ \A n : Batched(slot[w], n) <=> Batched(rest, n) \/ n = m
      /\ ~Batched(rest, m)
  BY <1>1, <1>5, <1>8 DEF Has, Holds, Ticket, Covers, Batched, Shape
<1>10. CASE suppressed /\ ~msg[j.m].critical
  <2>1. PICK s \in Slot : s = IF rest.batch = {} THEN IdleSlot ELSE rest
    BY IdleFits
  <2>2. slot' = [slot EXCEPT ![w] = s] /\ Set(m, "skipped", j.attempts, "none")
    BY <1>3, <1>5, <1>7, <1>10, <2>1 DEF Goto
  <2>3. /\ Shape(s) /\ ~Sending(s)
        /\ \A n : Has(s, n) <=> Batched(rest, n)
        /\ \A n : Ticket(s, n) <=> Batched(rest, n)
        /\ \A n : Covers(s, n) <=> Batched(rest, n)
    <3>1. CASE rest.batch = {}
      BY <2>1, <3>1, IdleFits DEF Batched
    <3>2. CASE rest.batch # {}
      BY <1>1, <1>8, <2>1, <3>2 DEF Shape, Sending, Has, Holds, Ticket, Covers, Batched
    <3> QED
      BY <3>1, <3>2
  <2>4. /\ \A n \in Messages : Has(s, n) => Has(slot[w], n)
        /\ \A n \in Messages \ {m} : Goes(slot[w], s, n)
        /\ ~Ticket(s, m) /\ Has(slot[w], m)
    BY <1>9, <2>3 DEF Goes
  <2> QED
    BY <1>2, <1>6, <2>2, <2>3, <2>4, WriteStep
<1>11. CASE ~(suppressed /\ ~msg[j.m].critical)
  <2>1. PICK s \in Slot : s = [rest EXCEPT !.pc = "send", !.job = j]
    BY <1>4, <1>7 DEF Slot
  <2>2. slot' = [slot EXCEPT ![w] = s] /\ UNCHANGED msg
    BY <1>3, <1>7, <1>11, <2>1 DEF Goto
  <2>3. s.pc = "send" /\ s.job = j /\ ~s.sync /\ s.batch = rest.batch
    BY <1>7, <1>8, <2>1 DEF Slot
  <2>4. Shape(s) /\ ~Sending(s)
    BY <1>1, <1>4, <1>8, <2>3 DEF Shape, Sending, Holds
  <2>5. \A n \in Messages : Goes(slot[w], s, n)
    <3>1. \A n : Holds(s, n) <=> n = m
      BY <1>4, <1>5, <2>3 DEF Holds
    <3>2. \A n : Batched(s, n) <=> Batched(rest, n)
      BY <2>3 DEF Batched
    <3> QED
      BY <1>9, <2>3, <3>1, <3>2 DEF Goes, Has, Ticket, Covers
  <2>6. suppressed' \in BOOLEAN /\ events' \subseteq Sources /\ faults' \in 0..MaxFaults
    BY <1>2 DEF IndInv, TypeOK, Sources
  <2> QED
    BY <1>2, <2>2, <2>4, <2>5, <2>6, MoveStep
<1> QED
  BY <1>10, <1>11

\* The slot stops where it is.  Tickets go back to the rows; an acceptance that
\* was to be recorded is excused.
LEMMA SlotFailsInv ==
    ASSUME IndInv, NEW w \in Slots, SlotFails(w)
    PROVE  IndInv'
<1> DEFINE resent == At(w, "record") /\ slot[w].outcome = "ok" /\ ~slot[w].sync
<1>1. slot' = [slot EXCEPT ![w] = IdleSlot] /\ UNCHANGED <<msg, suppressed, events, reported, feed, accepted>>
  BY DEF SlotFails, Goto
<1>2. /\ excuse' \in [Messages -> Nat]
      /\ \A n \in Messages : excuse'[n] = excuse[n] + (IF resent /\ n = slot[w].job.m THEN 1 ELSE 0)
  <2>1. excuse' = [n \in Messages |-> excuse[n] + (IF resent /\ n = slot[w].job.m THEN 1 ELSE 0)]
    BY DEF SlotFails
  <2> QED
    BY <2>1 DEF IndInv, TypeOK
<1>3. faults' \in 0..MaxFaults
  BY BoundsAssumption DEF SlotFails, IndInv, TypeOK
<1>4. ASSUME NEW n \in Messages PROVE Paid(n)'
  <2>1. excuse[n] \in Nat /\ accepted[n] \in Nat /\ Pending(n) \in {0, 1} /\ Pending(n)' \in {0, 1}
    BY PendingBound DEF IndInv, TypeOK
  <2>2. CASE resent /\ n = slot[w].job.m
    <3>1. T(IdleSlot, n) = 0 /\ T(slot[w], n) \in {0, 1}
      BY IdleFits DEF T
    <3>2. 0 + T(IdleSlot, n) + Pending(n)' <= T(slot[w], n) + Pending(n) + 1
      BY <2>1, <3>1
    <3>3. excuse'[n] = excuse[n] + 1 /\ accepted'[n] = accepted[n] + 0
      BY <1>1, <1>2, <2>1, <2>2
    <3> QED
      BY <1>1, <3>2, <3>3, PaidStep
  <2>3. CASE ~(resent /\ n = slot[w].job.m)
    <3>1. excuse'[n] = excuse[n]
      BY <1>2, <2>1, <2>3
    <3>2. Covers(slot[w], n) => Ticket(slot[w], n)
      BY <2>3 DEF Covers, Holds, At
    <3> QED
      BY <1>1, <3>1, <3>2, IdleFits, PaidKept
  <2> QED
    BY <2>2, <2>3
<1>5. /\ msg' \in Rows /\ accepted' \in [Messages -> Nat] /\ msg' = msg /\ accepted' = accepted
      /\ suppressed' \in BOOLEAN /\ events' \subseteq Sources
  BY <1>1 DEF IndInv, TypeOK, Rows, Sources
<1> QED
  BY <1>1, <1>2, <1>3, <1>4, <1>5, IdleFits, WorkStep

-----------------------------------------------------------------------------
(* The steps that take up a message.                                       *)

\* An idle slot takes up messages that no request is sending at once.
LEMMA StartStep ==
    ASSUME IndInv, NEW w \in Slots, slot[w].pc = "idle",
           NEW s \in Slot, slot' = [slot EXCEPT ![w] = s], Shape(s), msg' \in Rows,
           \A n \in Messages : Has(s, n) => msg'[n] # None /\ ~Quiet(n),
           \A n \in Messages : msg'[n] # msg[n] =>
               /\ ~Quiet(n) /\ msg'[n] # None
               /\ msg'[n].status = "queued" => msg'[n].attempts <= MaxRetries,
           Sending(s) => \A n \in Messages : Holds(s, n) => msg[n] = None /\ Quiet(n)',
           \A n \in Messages : Paid(n)',
           UNCHANGED <<suppressed, events, reported, feed, accepted, excuse, faults>>
    PROVE  IndInv'
<1>1. /\ \A x \in Slots : slot'[x] = IF x = w THEN s ELSE slot[x]
      /\ slot' \in [Slots -> Slot]
  BY DEF IndInv, TypeOK
<1>2. TypeOK'
  <2>1. suppressed' \in BOOLEAN
    BY DEF IndInv, TypeOK
  <2> QED
    BY <1>1, <2>1 DEF IndInv, TypeOK, Rows
<1>3. RowInv' /\ ReportInv' /\ FeedInv' /\ CountInv'
  BY DEF IndInv, RowInv, ReportInv, FeedInv, CountInv
<1>4. SlotsInv'
  <2> SUFFICES ASSUME NEW x \in Slots
               PROVE  /\ Shape(slot'[x])
                      /\ \A m \in Messages : Has(slot'[x], m) => msg'[m] # None
    BY DEF SlotsInv, Shape, Has, Holds, Batched
  <2>1. Shape(slot[x]) /\ \A m \in Messages : Has(slot[x], m) => msg[m] # None
    BY DEF IndInv, SlotsInv
  <2> QED
    BY <1>1, <2>1
<1>5. SyncInv'
  <2> SUFFICES ASSUME NEW x \in Slots, Sending(slot'[x]), NEW m \in Messages, Holds(slot'[x], m)
               PROVE  Quiet(m)' /\ \A y \in Slots \ {x} : ~Has(slot'[y], m)
    BY DEF SyncInv, Alone, Sending, Holds, Has, Batched
  <2>1. CASE x = w
    <3>1. msg[m] = None /\ Quiet(m)'
      BY <1>1, <2>1
    <3> QED
      BY <1>1, <2>1, <3>1 DEF IndInv, SlotsInv
  <2>2. CASE x # w
    <3>1. Quiet(m) /\ \A y \in Slots \ {x} : ~Has(slot[y], m)
      BY <1>1, <2>2 DEF IndInv, SyncInv, Alone
    <3>2. Quiet(m)'
      BY <3>1 DEF Quiet
    <3> QED
      BY <1>1, <3>1, <3>2
  <2> QED
    BY <2>1, <2>2
<1> QED
  BY <1>2, <1>3, <1>4, <1>5 DEF IndInv

\* An idle slot has nothing.
LEMMA IdleHasNone ==
    ASSUME IndInv, NEW w \in Slots, slot[w].pc = "idle"
    PROVE  \A m : ~Has(slot[w], m) /\ ~Ticket(slot[w], m) /\ ~Covers(slot[w], m)
BY DEF IndInv, SlotsInv, Shape, Has, Holds, Batched, Ticket, Covers

\* A slot with one message at hand.
Solo(s, pc, sync, m) ==
    /\ s \in Slot /\ s.pc = pc /\ s.sync = sync /\ s.batch = {}
    /\ s.job # None /\ s.job.m = m

LEMMA SoloFits ==
    ASSUME NEW pc \in {"send", "schedule", "resendCheck"}, NEW sync \in BOOLEAN,
           NEW m \in Messages, NEW s, Solo(s, pc, sync, m)
    PROVE  /\ s \in Slot /\ Shape(s)
           /\ Sending(s) <=> sync /\ pc = "send"
           /\ \A n : /\ Holds(s, n) <=> n = m
                     /\ Has(s, n) <=> n = m
                     /\ Ticket(s, n) <=> n = m /\ pc # "resendCheck"
<1>1. s.pc = pc /\ s.sync = sync /\ s.batch = {} /\ s.job # None /\ s.job.m = m /\ s \in Slot
  BY DEF Solo
<1>2. \A n : (Holds(s, n) <=> n = m) /\ ~Batched(s, n)
  BY <1>1 DEF Holds, Batched
<1>3. Shape(s) /\ (Sending(s) <=> sync /\ pc = "send")
  BY <1>1 DEF Shape, Sending
<1>4. \A n : (Has(s, n) <=> n = m) /\ (Ticket(s, n) <=> n = m /\ pc # "resendCheck")
  BY <1>1, <1>2 DEF Has, Ticket
<1> QED
  BY <1>1, <1>2, <1>3, <1>4

LEMMA JobFits ==
    ASSUME NEW m \in Messages
    PROVE  \E j \in Job : j = [m |-> m, attempts |-> 0] /\ j # None /\ j.m = m
<1>1. [m |-> m, attempts |-> 0] \in Job
  BY BoundsAssumption DEF Job
<1> QED
  BY <1>1, RowsAssumption

\* A row of its own for a message that is sent at once or queued.
LEMMA NewRow ==
    ASSUME IndInv, NEW m \in Messages, msg[m] = None, NEW critical \in BOOLEAN,
           NEW status \in {"queued", "skipped"},
           msg' = [msg EXCEPT ![m] = NewMessage(status, critical)]
    PROVE  /\ msg' \in Rows /\ msg'[m] # None /\ msg'[m].status = status
           /\ msg'[m].attempts = 0 /\ msg'[m].sched = "none"
           /\ \A n \in Messages : n # m => msg'[n] = msg[n]
<1>1. PICK row : row = NewMessage(status, critical)
  OBVIOUS
<1>2. row \in Message
  BY <1>1, BoundsAssumption DEF NewMessage, Message
<1>3. row # None /\ row.status = status /\ row.attempts = 0 /\ row.sched = "none"
  BY <1>1, <1>2, RowsAssumption DEF NewMessage
<1> QED
  BY <1>1, <1>2, <1>3 DEF IndInv, TypeOK, Rows

LEMMA CreateInv ==
    ASSUME IndInv, NEW w \in Slots, NEW m \in Messages, NEW critical \in BOOLEAN,
           NEW sync \in BOOLEAN, NEW pc \in {"send", "schedule"},
           slot[w].pc = "idle", msg[m] = None,
           msg' = [msg EXCEPT ![m] = NewMessage("queued", critical)],
           NEW s, Solo(s, pc, sync, m), slot' = [slot EXCEPT ![w] = s],
           UNCHANGED <<suppressed, events, reported, feed, accepted, excuse, faults>>
    PROVE  IndInv'
<1>1. /\ s \in Slot /\ Shape(s)
      /\ \A n : /\ Holds(s, n) <=> n = m
                /\ Has(s, n) <=> n = m
                /\ Ticket(s, n) <=> n = m
  BY SoloFits
<1>2. /\ msg' \in Rows /\ msg'[m] # None /\ msg'[m].status = "queued"
      /\ msg'[m].attempts = 0 /\ msg'[m].sched = "none"
      /\ \A n \in Messages : n # m => msg'[n] = msg[n]
  BY NewRow
<1>3. \A n : ~Has(slot[w], n) /\ ~Ticket(slot[w], n) /\ ~Covers(slot[w], n)
  BY IdleHasNone
<1>4. \A n \in Messages : n # m => Paid(n)'
  BY <1>1, <1>2, <1>3, PaidKept
<1>5. Paid(m)'
  <2>1. T(s, m) = 1 /\ T(slot[w], m) = 0 /\ Pending(m) = 1 /\ Pending(m)' = 0
    BY <1>1, <1>2, <1>3, PendingBound DEF T
  <2>2. 0 + T(s, m) + Pending(m)' <= T(slot[w], m) + Pending(m) + 0
    BY <2>1
  <2>3. accepted'[m] = accepted[m] + 0 /\ excuse'[m] = excuse[m] + 0
    BY DEF IndInv, TypeOK
  <2> QED
    BY <2>2, <2>3, PaidStep
<1>6. ~Quiet(m) /\ Quiet(m)'
  BY <1>2 DEF Quiet, IndInv, RowInv
<1>7. 0 <= MaxRetries
  BY BoundsAssumption
<1>8. \A n \in Messages : Paid(n)'
  BY <1>4, <1>5
<1>9. \A n \in Messages : Has(s, n) => msg'[n] # None /\ ~Quiet(n)
  BY <1>1, <1>2, <1>6
<1>10. \A n \in Messages : msg'[n] # msg[n] =>
         /\ ~Quiet(n) /\ msg'[n] # None
         /\ msg'[n].status = "queued" => msg'[n].attempts <= MaxRetries
  BY <1>2, <1>6, <1>7
<1>11. \A n \in Messages : Holds(s, n) => msg[n] = None /\ Quiet(n)'
  <2> SUFFICES ASSUME NEW n \in Messages, Holds(s, n) PROVE msg[n] = None /\ Quiet(n)'
    OBVIOUS
  <2>1. n = m
    BY <1>1
  <2> QED
    BY <1>6, <2>1
<1> QED
  BY <1>1, <1>2, <1>8, <1>9, <1>10, <1>11, StartStep

LEMMA SendNowInv ==
    ASSUME IndInv, NEW w \in Slots, NEW m \in Messages, NEW critical \in BOOLEAN,
           SendNow(w, m, critical)
    PROVE  IndInv'
<1>1. PICK j \in Job : j = [m |-> m, attempts |-> 0] /\ j # None /\ j.m = m
  BY JobFits
<1>2. PICK s \in Slot : s = [IdleSlot EXCEPT !.pc = "send", !.sync = TRUE, !.job = j]
  BY IdleFits DEF Slot
<1>3. Solo(s, "send", TRUE, m)
  BY <1>1, <1>2 DEF Solo, IdleSlot
<1> QED
  BY <1>1, <1>2, <1>3, CreateInv DEF SendNow, At, Goto

LEMMA EnqueueInv ==
    ASSUME IndInv, NEW w \in Slots, NEW m \in Messages, NEW critical \in BOOLEAN,
           Enqueue(w, m, critical)
    PROVE  IndInv'
<1>1. PICK j \in Job : j = [m |-> m, attempts |-> 0] /\ j # None /\ j.m = m
  BY JobFits
<1>2. PICK s \in Slot : s = [IdleSlot EXCEPT !.pc = "schedule", !.job = j]
  BY IdleFits DEF Slot
<1>3. Solo(s, "schedule", FALSE, m)
  BY <1>1, <1>2 DEF Solo, IdleSlot
<1> QED
  BY <1>1, <1>2, <1>3, CreateInv DEF Enqueue, At, Goto

\* A resend takes up a failed message and has no ticket for it yet.
LEMMA ResendLoadInv ==
    ASSUME IndInv, NEW w \in Slots, NEW m \in Messages, ResendLoad(w, m)
    PROVE  IndInv'
<1>1. PICK j \in Job : j = [m |-> m, attempts |-> 0] /\ j # None /\ j.m = m
  BY JobFits
<1>2. PICK s \in Slot : s = [IdleSlot EXCEPT !.pc = "resendCheck", !.job = j]
  BY IdleFits DEF Slot
<1>3. Solo(s, "resendCheck", FALSE, m)
  BY <1>1, <1>2 DEF Solo, IdleSlot
<1>4. /\ Shape(s) /\ ~Sending(s)
      /\ \A n : /\ Has(s, n) <=> n = m
                /\ ~Ticket(s, n)
  BY <1>3, SoloFits
<1>5. /\ slot' = [slot EXCEPT ![w] = s] /\ slot[w].pc = "idle" /\ msg' = msg
      /\ msg[m] # None /\ msg[m].status = "failed"
      /\ UNCHANGED <<suppressed, events, reported, feed, accepted, excuse, faults>>
  BY <1>1, <1>2 DEF ResendLoad, At, Goto
<1>6. \A n \in Messages : Paid(n)'
  BY <1>4, <1>5, IdleHasNone, PaidKept
<1>7. msg' \in Rows /\ ~Quiet(m)
  BY <1>5 DEF IndInv, TypeOK, Rows, Quiet
<1> QED
  BY <1>4, <1>5, <1>6, <1>7, StartStep

\* A claim takes over the attempt a due row stands for.
LEMMA ClaimInv ==
    ASSUME IndInv, NEW w \in Slots, NEW S \in SUBSET Messages, Claim(w, S)
    PROVE  IndInv'
<1>1. /\ slot[w].pc = "idle" /\ S \subseteq DueMessages
      /\ msg' = [m \in Messages |-> IF m \in S THEN [msg[m] EXCEPT !.sched = "later"] ELSE msg[m]]
      /\ UNCHANGED <<suppressed, events, reported, feed, accepted, excuse, faults>>
  BY DEF Claim, At
<1>2. \A m \in S : /\ msg[m] # None /\ msg[m].status = "queued" /\ msg[m].sched = "due"
                   /\ msg[m] \in Message /\ msg[m].attempts \in 0..MaxRetries
  <2>1. \A m \in S : /\ msg[m] # None /\ msg[m].status = "queued" /\ msg[m].sched = "due"
                     /\ msg[m] \in Message
    BY <1>1 DEF DueMessages, IndInv, TypeOK
  <2>2. \A m \in S : msg[m].attempts \in 0..MaxRetries + 1 /\ msg[m].attempts <= MaxRetries
    BY <2>1 DEF IndInv, RowInv, Message
  <2> QED
    BY <2>1, <2>2, BoundsAssumption
<1>3. \A m \in S : /\ msg'[m] \in Message /\ msg'[m] # None /\ msg'[m].sched = "later"
                   /\ msg'[m].status = "queued" /\ msg'[m].attempts <= MaxRetries
  <2> SUFFICES ASSUME NEW m \in S
               PROVE  /\ msg'[m] \in Message /\ msg'[m] # None /\ msg'[m].sched = "later"
                      /\ msg'[m].status = "queued" /\ msg'[m].attempts <= MaxRetries
    OBVIOUS
  <2>1. msg'[m] = [msg[m] EXCEPT !.sched = "later"] /\ msg[m] \in Message
    BY <1>1, <1>2
  <2>2. msg'[m] \in Message
    BY <2>1 DEF Message
  <2>3. /\ msg'[m].sched = "later" /\ msg'[m].status = msg[m].status
        /\ msg'[m].attempts = msg[m].attempts
    BY <2>1 DEF Message
  <2> QED
    BY <1>2, <2>2, <2>3, RowsAssumption, BoundsAssumption
<1>4. \A m \in Messages \ S : msg'[m] = msg[m]
  BY <1>1
<1>5. msg' \in Rows
  <2>1. \A m \in Messages : msg'[m] \in Message \cup {None}
    BY <1>3, <1>4 DEF IndInv, TypeOK
  <2> QED
    BY <1>1, <2>1 DEF Rows
<1>6. PICK jobs \in SUBSET Job : jobs = {[m |-> m, attempts |-> msg[m].attempts] : m \in S}
  <2>1. \A m \in S : [m |-> m, attempts |-> msg[m].attempts] \in Job
    BY <1>2 DEF Job
  <2> QED
    BY <2>1
<1>7. PICK s \in Slot : s = [IdleSlot EXCEPT !.pc = "check", !.batch = jobs]
  BY IdleFits DEF Slot
<1>8. slot' = [slot EXCEPT ![w] = s]
  BY <1>6, <1>7 DEF Claim, Claiming, Goto
<1>9. s.pc = "check" /\ s.job = None /\ ~s.sync /\ s.batch = jobs
  BY <1>7 DEF IdleSlot
<1>10. /\ \A j, k \in jobs : j.m = k.m => j = k
       /\ \A n : Batched(s, n) <=> n \in S
  <2>1. \A j \in jobs : j.m \in S /\ j = [m |-> j.m, attempts |-> msg[j.m].attempts]
    <3> SUFFICES ASSUME NEW j \in jobs
                 PROVE  j.m \in S /\ j = [m |-> j.m, attempts |-> msg[j.m].attempts]
      OBVIOUS
    <3>1. PICK m \in S : j = [m |-> m, attempts |-> msg[m].attempts]
      BY <1>6
    <3>2. j.m = m
      BY <3>1
    <3> QED
      BY <3>1, <3>2
  <2>2. ASSUME NEW n \in S PROVE \E j \in jobs : j.m = n
    <3>1. PICK j \in jobs : j = [m |-> n, attempts |-> msg[n].attempts]
      BY <1>6
    <3>2. j.m = n
      BY <3>1
    <3> QED
      BY <3>2
  <2>3. ASSUME NEW j \in jobs, NEW k \in jobs, j.m = k.m PROVE j = k
    <3>1. PICK n : n = j.m /\ n = k.m
      BY <2>3
    <3>2. j = [m |-> n, attempts |-> msg[n].attempts] /\ k = [m |-> n, attempts |-> msg[n].attempts]
      BY <2>1, <3>1
    <3> QED
      BY <3>2
  <2> QED
    BY <1>9, <2>1, <2>2, <2>3 DEF Batched
<1>11. Shape(s) /\ ~Sending(s)
  BY <1>9, <1>10 DEF Shape, Sending, Holds
<1>12. \A n : /\ Has(s, n) <=> n \in S
              /\ Ticket(s, n) <=> n \in S
  BY <1>9, <1>10 DEF Has, Holds, Ticket
<1>13. \A n : ~Ticket(slot[w], n) /\ ~Covers(slot[w], n)
  BY <1>1, IdleHasNone
<1>14. ASSUME NEW n \in Messages PROVE Paid(n)'
  <2>1. CASE n \notin S
    BY <1>1, <1>4, <1>8, <1>12, <1>13, <2>1, PaidKept
  <2>2. CASE n \in S
    <3>1. Pending(n)' = 0
      <4>1. Covers(slot'[w], n)
        BY <1>8, <1>12, <2>2 DEF IndInv, TypeOK, Covers
      <4>2. ~Open(n)'
        BY <1>3, <2>2, <4>1 DEF Open, Covers, Ticket, Holds, Batched
      <4> QED
        BY <4>2 DEF Pending
    <3>2. T(s, n) = 1 /\ T(slot[w], n) = 0 /\ Pending(n) = 1
      BY <1>2, <1>12, <1>13, <2>2, PendingBound DEF T
    <3>3. 0 + T(s, n) + Pending(n)' <= T(slot[w], n) + Pending(n) + 0
      BY <3>1, <3>2
    <3>4. accepted'[n] = accepted[n] + 0 /\ excuse'[n] = excuse[n] + 0
      BY <1>1 DEF IndInv, TypeOK
    <3> QED
      BY <1>8, <3>3, <3>4, PaidStep
  <2> QED
    BY <2>1, <2>2
<1>15. \A n \in S : ~Quiet(n)
  BY <1>2 DEF Quiet
<1>16. \A n \in Messages : Has(s, n) => msg'[n] # None /\ ~Quiet(n)
  BY <1>3, <1>12, <1>15
<1>17. \A n \in Messages : msg'[n] # msg[n] =>
         /\ ~Quiet(n) /\ msg'[n] # None
         /\ msg'[n].status = "queued" => msg'[n].attempts <= MaxRetries
  BY <1>3, <1>4, <1>15
<1> QED
  BY <1>1, <1>5, <1>8, <1>11, <1>14, <1>16, <1>17, StartStep

-----------------------------------------------------------------------------
(* The steps of the feeds, the clock and the administrators.               *)

\* No slot takes part.
LEMMA StillStep ==
    ASSUME IndInv, slot' = slot, accepted' = accepted, msg' \in Rows,
           \A n \in Messages : msg'[n] # msg[n] =>
               /\ ~Quiet(n) /\ msg'[n] # None
               /\ msg'[n].status = "queued" => msg'[n].attempts <= MaxRetries,
           excuse' \in [Messages -> Nat],
           \A n \in Messages : excuse[n] + Pending(n)' <= excuse'[n] + Pending(n),
           suppressed' \in BOOLEAN, events' \subseteq Sources, faults' \in 0..MaxFaults,
           reported' \in Seq(Messages),
           \A e \in 1..Len(reported') : accepted[reported'[e]] > 0,
           feed' \in [Feeds -> Feed],
           \A f \in Feeds : feed'[f].pc # "idle" => feed'[f].e \in 1..Len(reported')
    PROVE  IndInv'
<1>1. TypeOK'
  BY DEF IndInv, TypeOK, Rows, Sources
<1>2. RowInv' /\ ReportInv' /\ FeedInv'
  BY DEF IndInv, RowInv, ReportInv, FeedInv
<1>3. SlotsInv'
  BY DEF IndInv, SlotsInv, Shape, Has, Holds, Batched
<1>4. SyncInv'
  <2>1. None \notin Slots
    BY NamesAssumption
  <2>2. \A m \in Messages : Quiet(m) => msg'[m] = msg[m] /\ accepted'[m] = accepted[m]
    OBVIOUS
  <2> QED
    BY <2>1, <2>2, SyncStep
<1>5. ASSUME NEW n \in Messages PROVE Paid(n)'
  <2>1. Holders(n)' = Holders(n)
    BY DEF Holders, Ticket, Holds, Batched
  <2>2. /\ Cardinality(Holders(n)) \in Nat /\ accepted[n] \in Nat /\ excuse[n] \in Nat
        /\ excuse'[n] \in Nat /\ Pending(n) \in Nat /\ Pending(n)' \in Nat
    BY HoldersFinite DEF IndInv, TypeOK, Pending
  <2>3. accepted[n] + Cardinality(Holders(n)) + Pending(n) <= 1 + excuse[n]
    BY DEF IndInv, CountInv, Paid
  <2>4. excuse[n] + Pending(n)' <= excuse'[n] + Pending(n)
    OBVIOUS
  <2>5. accepted[n] + Cardinality(Holders(n)) + Pending(n)' <= 1 + excuse'[n]
    BY ONLY <2>2, <2>3, <2>4
  <2>6. accepted'[n] = accepted[n]
    OBVIOUS
  <2> QED
    BY <2>1, <2>5, <2>6 DEF Paid
<1> QED
  BY <1>1, <1>2, <1>3, <1>4, <1>5 DEF IndInv, CountInv

\* A row that stays leads to what it led to.
LEMMA PendingStill ==
    ASSUME IndInv, slot' = slot, NEW n \in Messages, msg'[n] = msg[n], excuse'[n] = excuse[n]
    PROVE  excuse[n] + Pending(n)' <= excuse'[n] + Pending(n)
<1>1. Open(n)' <=> Open(n)
  BY DEF Open, Covers, Ticket, Holds, Batched
<1>2. Pending(n)' = Pending(n) /\ Pending(n) \in {0, 1} /\ excuse[n] \in Nat
  BY <1>1 DEF Pending, IndInv, TypeOK
<1> QED
  BY <1>2

\* Nothing but suppressions, events, feeds or reports.
LEMMA FeedStep ==
    ASSUME IndInv, UNCHANGED <<slot, accepted, msg, excuse>>,
           suppressed' \in BOOLEAN, events' \subseteq Sources, faults' \in 0..MaxFaults,
           reported' \in Seq(Messages),
           \A e \in 1..Len(reported') : accepted[reported'[e]] > 0,
           feed' \in [Feeds -> Feed],
           \A f \in Feeds : feed'[f].pc # "idle" => feed'[f].e \in 1..Len(reported')
    PROVE  IndInv'
<1>1. \A n \in Messages : excuse[n] + Pending(n)' <= excuse'[n] + Pending(n)
  BY PendingStill
<1>2. msg' \in Rows /\ excuse' \in [Messages -> Nat] /\ msg' = msg
  BY DEF IndInv, TypeOK, Rows
<1> QED
  BY <1>1, <1>2, StillStep

LEMMA IdleFeedFits == IdleFeed \in Feed /\ IdleFeed.pc = "idle"
BY DEF IdleFeed, Feed

\* The parts of the state that a step leaves alone.
LEMMA Kept ==
    ASSUME IndInv
    PROVE  /\ suppressed \in BOOLEAN /\ events \subseteq Sources /\ faults \in 0..MaxFaults
           /\ reported \in Seq(Messages)
           /\ \A e \in 1..Len(reported) : accepted[reported[e]] > 0
           /\ feed \in [Feeds -> Feed]
           /\ \A f \in Feeds : feed[f].pc # "idle" => feed[f].e \in 1..Len(reported)
           /\ excuse \in [Messages -> Nat]
<1>1. suppressed \in BOOLEAN
  BY DEF IndInv, TypeOK
<1> QED
  BY <1>1 DEF IndInv, TypeOK, Sources, ReportInv, FeedInv

LEMMA SetSuppressionInv ==
    ASSUME IndInv, NEW on \in BOOLEAN, SetSuppression(on)
    PROVE  IndInv'
<1>1. suppressed' \in BOOLEAN /\ UNCHANGED <<msg, events, reported, slot, feed, accepted, excuse, faults>>
  BY DEF SetSuppression
<1> QED
  BY <1>1, Kept, FeedStep

LEMMA SuppressInv ==
    ASSUME IndInv, NEW f \in Feeds, Suppress(f)
    PROVE  IndInv'
<1>1. /\ suppressed' \in BOOLEAN /\ UNCHANGED <<msg, events, reported, slot, accepted, excuse, faults>>
      /\ feed' = [feed EXCEPT ![f] = IdleFeed]
  BY DEF Suppress
<1>2. /\ feed' \in [Feeds -> Feed]
      /\ \A g \in Feeds : feed'[g].pc # "idle" => feed'[g].e \in 1..Len(reported)
  BY <1>1, Kept, IdleFeedFits
<1> QED
  BY <1>1, <1>2, Kept, FeedStep

LEMMA FeedFailsInv ==
    ASSUME IndInv, NEW f \in Feeds, FeedFails(f)
    PROVE  IndInv'
<1>1. /\ UNCHANGED <<msg, suppressed, events, reported, slot, accepted, excuse>>
      /\ feed' = [feed EXCEPT ![f] = IdleFeed] /\ faults' \in 0..MaxFaults
  BY Kept, BoundsAssumption DEF FeedFails
<1>2. /\ feed' \in [Feeds -> Feed]
      /\ \A g \in Feeds : feed'[g].pc # "idle" => feed'[g].e \in 1..Len(reported)
  BY <1>1, Kept, IdleFeedFits
<1>3. suppressed' \in BOOLEAN
  BY <1>1, Kept
<1> QED
  BY <1>1, <1>2, <1>3, Kept, FeedStep

LEMMA ProviderBouncesInv ==
    ASSUME IndInv, NEW m \in Messages, ProviderBounces(m)
    PROVE  IndInv'
<1>1. /\ UNCHANGED <<msg, suppressed, events, slot, feed, accepted, excuse, faults>>
      /\ reported' = Append(reported, m) /\ accepted[m] > 0
  BY DEF ProviderBounces
<1>2. suppressed' \in BOOLEAN
  BY <1>1, Kept
<1>3. /\ reported' \in Seq(Messages) /\ Len(reported') = Len(reported) + 1
      /\ Len(reported) \in Nat
      /\ \A e \in 1..Len(reported') :
            reported'[e] = IF e = Len(reported) + 1 THEN m ELSE reported[e]
  BY <1>1, Kept
<1>4. \A e \in 1..Len(reported') : accepted[reported'[e]] > 0
  BY <1>1, <1>3, Kept
<1>5. \A g \in Feeds : feed'[g].pc # "idle" => feed'[g].e \in 1..Len(reported')
  <2>1. 1..Len(reported) \subseteq 1..Len(reported')
    BY <1>3
  <2> QED
    BY <1>1, <2>1, Kept
<1> QED
  BY <1>1, <1>2, <1>3, <1>4, <1>5, Kept, FeedStep

LEMMA IngestInv ==
    ASSUME IndInv, NEW f \in Feeds, NEW e \in 1..MaxReports, Ingest(f, e)
    PROVE  IndInv'
<1>1. /\ UNCHANGED <<msg, suppressed, reported, slot, accepted, excuse, faults>>
      /\ e \in 1..Len(reported) /\ e \in Nat /\ events' = events \cup {<<e, "report">>}
  BY BoundsAssumption DEF Ingest
<1>2. PICK pc \in {"mark", "suppress"} : feed' = [feed EXCEPT ![f] = [pc |-> pc, e |-> e]]
  BY DEF Ingest, AfterRecord
<1>3. [pc |-> pc, e |-> e] \in Feed
  BY <1>1 DEF Feed
<1>4. /\ feed' \in [Feeds -> Feed]
      /\ \A g \in Feeds : feed'[g].pc # "idle" => feed'[g].e \in 1..Len(reported)
  BY <1>1, <1>2, <1>3, Kept
<1>5. events' \subseteq Sources /\ suppressed' \in BOOLEAN
  BY <1>1, Kept DEF Sources
<1> QED
  BY <1>1, <1>4, <1>5, Kept, FeedStep

\* A reported message was accepted, so it is not one that is being sent at once.
LEMMA MarkInv ==
    ASSUME IndInv, NEW f \in Feeds, Mark(f)
    PROVE  IndInv'
<1>1. /\ UNCHANGED <<suppressed, events, reported, slot, accepted, excuse, faults>>
      /\ feed[f].pc = "mark" /\ feed' = [feed EXCEPT ![f].pc = "suppress"]
  BY DEF Mark
<1>2. PICK m \in Messages : m = reported[feed[f].e] /\ accepted[m] > 0
  BY <1>1, Kept
<1>3. msg[m] # None /\ ~Quiet(m)
  BY <1>2 DEF IndInv, RowInv, TypeOK, Quiet
<1>4. 1 \in 0..MaxRetries + 1
  BY BoundsAssumption
<1>5. /\ msg' \in Rows /\ msg'[m] # None /\ msg'[m].status = "failed"
      /\ \A n \in Messages : n # m => msg'[n] = msg[n]
  BY <1>2, <1>3, <1>4, SetRow DEF Mark
<1>6. /\ feed' \in [Feeds -> Feed]
      /\ \A g \in Feeds : feed'[g].pc # "idle" => feed'[g].e \in 1..Len(reported)
  <2>1. PICK r \in Feed : r = [feed[f] EXCEPT !.pc = "suppress"]
    BY Kept DEF Feed
  <2>2. r.e = feed[f].e /\ feed[f].e \in 1..Len(reported)
    BY <1>1, <2>1, Kept DEF Feed
  <2>3. feed' = [feed EXCEPT ![f] = r]
    BY <1>1, <2>1, Kept
  <2> QED
    BY <1>2, <2>2, <2>3, Kept
<1>7. ASSUME NEW n \in Messages PROVE excuse[n] + Pending(n)' <= excuse'[n] + Pending(n)
  <2>1. CASE n = m
    BY <1>1, <1>5, <2>1, PendingBound, Kept
  <2>2. CASE n # m
    BY <1>1, <1>5, <2>2, PendingStill
  <2> QED
    BY <2>1, <2>2
<1>8. suppressed' \in BOOLEAN /\ excuse' \in [Messages -> Nat]
  BY <1>1, Kept
<1> QED
  BY <1>1, <1>3, <1>5, <1>6, <1>7, <1>8, Kept, StillStep

LEMMA SendSkippedInv ==
    ASSUME IndInv, NEW m \in Messages, SendSkipped(m)
    PROVE  IndInv'
<1>1. /\ UNCHANGED <<suppressed, events, reported, slot, feed, accepted, excuse, faults>>
      /\ msg[m] = None
  BY DEF SendSkipped
<1>2. /\ msg' \in Rows /\ msg'[m] # None /\ msg'[m].status = "skipped"
      /\ \A n \in Messages : n # m => msg'[n] = msg[n]
  BY NewRow DEF SendSkipped
<1>3. ASSUME NEW n \in Messages PROVE excuse[n] + Pending(n)' <= excuse'[n] + Pending(n)
  <2>1. CASE n = m
    BY <1>1, <1>2, <2>1, PendingBound, Kept
  <2>2. CASE n # m
    BY <1>1, <1>2, <2>2, PendingStill
  <2> QED
    BY <2>1, <2>2
<1>4. ~Quiet(m)
  BY <1>1 DEF Quiet
<1>5. suppressed' \in BOOLEAN /\ excuse' \in [Messages -> Nat]
  BY <1>1, Kept
<1> QED
  BY <1>1, <1>2, <1>3, <1>4, <1>5, Kept, StillStep

\* A timeout with somebody at work on the message is excused; with nobody the
\* row stood for an attempt anyway.
LEMMA ElapseInv ==
    ASSUME IndInv, NEW m \in Messages, Elapse(m)
    PROVE  IndInv'
<1>1. /\ UNCHANGED <<suppressed, events, reported, slot, feed, accepted, faults>>
      /\ msg[m] # None /\ msg[m].status = "queued" /\ msg[m].sched = "later"
      /\ msg' = [msg EXCEPT ![m].sched = "due"]
  BY DEF Elapse
<1>2. msg[m] \in Message
  BY <1>1 DEF IndInv, TypeOK
<1>3. PICK row \in Message : row = [msg[m] EXCEPT !.sched = "due"]
  BY <1>2 DEF Message
<1>4. row.attempts = msg[m].attempts /\ row # None
  BY <1>2, <1>3, RowsAssumption DEF Message
<1>5. /\ msg' \in Rows /\ msg'[m] # None /\ msg'[m].attempts <= MaxRetries
      /\ \A n \in Messages : n # m => msg'[n] = msg[n]
  BY <1>1, <1>3, <1>4 DEF IndInv, TypeOK, RowInv, Rows
<1>6. /\ excuse' \in [Messages -> Nat] /\ \A n \in Messages : n # m => excuse'[n] = excuse[n]
      /\ excuse'[m] = excuse[m] + (IF InFlight(m) THEN 1 ELSE 0)
  BY Kept DEF Elapse
<1>7. ~InFlight(m) => Pending(m) = 1
  <2> SUFFICES ASSUME ~InFlight(m) PROVE Open(m)
    BY DEF Pending
  <2>1. ASSUME NEW w \in Slots PROVE ~Has(slot[w], m)
    <3>1. m \notin {j.m : j \in slot[w].batch \cup ({slot[w].job} \ {None})}
      BY DEF InFlight
    <3> QED
      BY <3>1 DEF Has, Holds, Batched
  <2> QED
    BY <1>1, <2>1 DEF Open, Covers, Ticket, Has
<1>8. ASSUME NEW n \in Messages PROVE excuse[n] + Pending(n)' <= excuse'[n] + Pending(n)
  <2>1. CASE n = m
    <3>1. excuse[m] \in Nat /\ Pending(m) \in {0, 1} /\ Pending(m)' \in {0, 1}
      BY Kept, PendingBound
    <3>2. excuse'[m] = excuse[m] + 1 \/ (excuse'[m] = excuse[m] /\ Pending(m) = 1)
      BY <1>6, <1>7, <3>1
    <3> QED
      BY <2>1, <3>1, <3>2
  <2>2. CASE n # m
    BY <1>1, <1>5, <1>6, <2>2, PendingStill
  <2> QED
    BY <2>1, <2>2
<1>9. ~Quiet(m) /\ suppressed' \in BOOLEAN
  BY <1>1, Kept DEF Quiet
<1> QED
  BY <1>1, <1>5, <1>6, <1>8, <1>9, Kept, StillStep

-----------------------------------------------------------------------------
(* The theorems.                                                           *)

LEMMA InitInv == Init => IndInv
<1> SUFFICES ASSUME Init PROVE IndInv
  OBVIOUS
<1>1. \A w \in Slots : slot[w] = IdleSlot
  BY DEF Init
<1>2. TypeOK
  <2>1. slot \in [Slots -> Slot] /\ feed \in [Feeds -> Feed] /\ suppressed \in BOOLEAN
    BY IdleFits, IdleFeedFits DEF Init
  <2>2. msg \in [Messages -> Message \cup {None}] /\ faults \in 0..MaxFaults
    BY BoundsAssumption DEF Init
  <2> QED
    BY <2>1, <2>2 DEF Init, TypeOK
<1>3. RowInv
  BY DEF Init, RowInv
<1>4. SlotsInv /\ SyncInv
  BY <1>1, IdleFits DEF SlotsInv, SyncInv
<1>5. ReportInv /\ FeedInv
  BY IdleFeedFits DEF Init, ReportInv, FeedInv
<1>6. CountInv
  <2> SUFFICES ASSUME NEW m \in Messages PROVE Paid(m)
    BY DEF CountInv
  <2>1. Holders(m) = {}
    BY <1>1, IdleFits DEF Holders
  <2>2. Cardinality(Holders(m)) = 0
    BY <2>1, FS_EmptySet
  <2>3. Pending(m) \in {0, 1}
    BY DEF Pending
  <2> QED
    BY <2>2, <2>3 DEF Init, Paid
<1> QED
  BY <1>2, <1>3, <1>4, <1>5, <1>6 DEF IndInv

LEMMA NextInv == IndInv /\ [Next]_vars => IndInv'
<1> SUFFICES ASSUME IndInv, [Next]_vars PROVE IndInv'
  OBVIOUS
<1>1. ASSUME NEW w \in Slots, Work(w) PROVE IndInv'
  BY <1>1, EnqueueScheduleInv, CheckInv, RecordInv, BounceEventInv, BounceSuppressInv, SendInv,
     SendAnswerLostInv, ResendCheckInv, ResendScheduleInv DEF Work
<1>2. CASE Dispatch
  BY <1>2, ClaimInv DEF Dispatch
<1>3. CASE UNCHANGED vars
  <2>1. UNCHANGED <<msg, suppressed, events, reported, slot, feed, accepted, excuse, faults>>
    BY <1>3 DEF vars
  <2>2. suppressed' \in BOOLEAN
    BY <2>1, Kept
  <2> QED
    BY <2>1, <2>2, Kept, FeedStep
<1> QED
  BY <1>1, <1>2, <1>3, SendSkippedInv, ElapseInv, ProviderBouncesInv, ResendLoadInv, SendNowInv,
     EnqueueInv, IngestInv, SlotFailsInv, UpdateIgnoredInv, MarkInv, SuppressInv, FeedFailsInv,
     SetSuppressionInv DEF Next

THEOREM Correct == Spec => []IndInv
BY InitInv, NextInv, PTL DEF Spec

\* Rows, slots and feeds keep their types; in particular the attempts of a
\* message never exceed the retry ladder (transactionalRetryDelayAfterAttempts).
THEOREM TypeCorrect == Spec => []TypeOK
<1>1. IndInv => TypeOK
  BY DEF IndInv
<1> QED
  BY <1>1, Correct, PTL

\* However many dispatchers and requests run, the provider accepts a message
\* once, and once more only for an outlived claim, an acceptance whose answer was
\* lost or that was not recorded, or a resend (ClaimDueTransactionalEmailMessages,
\* retryTransactionalMessage).
THEOREM SentOnce == Spec => []AcceptedOnce
<1>1. IndInv => AcceptedOnce
  <2> SUFFICES ASSUME IndInv, NEW m \in Messages PROVE accepted[m] <= 1 + excuse[m]
    BY DEF AcceptedOnce
  <2>1. /\ accepted[m] \in Nat /\ excuse[m] \in Nat /\ Cardinality(Holders(m)) \in Nat
        /\ Pending(m) \in Nat /\ Paid(m)
    BY HoldersFinite DEF IndInv, TypeOK, CountInv, Pending
  <2> QED
    BY <2>1 DEF Paid
<1> QED
  BY <1>1, Correct, PTL

LEMMA FlightHas ==
    ASSUME NEW m
    PROVE  InFlight(m) <=> \E w \in Slots : Has(slot[w], m)
<1>1. ASSUME NEW w \in Slots
      PROVE  m \in {j.m : j \in slot[w].batch \cup ({slot[w].job} \ {None})} <=> Has(slot[w], m)
  BY DEF Has, Holds, Batched
<1> QED
  BY <1>1 DEF InFlight

\* The ingestion is about to mark the message failed.
Marking(f, m) == feed[f].pc = "mark" /\ reported[feed[f].e] = m

\* A step leaves a message that no slot has to itself.
Untouched(m) ==
    /\ msg'[m] = msg[m]
    /\ \A x \in Slots : ~Has(slot'[x], m)
    /\ \A f \in Feeds : Marking(f, m)' => Marking(f, m)

LEMMA TurnTo ==
    ASSUME IndInv, NEW m \in Messages, \A x \in Slots : ~Has(slot[x], m), NEW w \in Slots, NEW s,
           slot' = [slot EXCEPT ![w] = s], ~Has(s, m), msg'[m] = msg[m],
           feed' = feed, reported' = reported
    PROVE  Untouched(m)
BY DEF Untouched, Marking, IndInv, TypeOK

LEMMA SetOther ==
    ASSUME IndInv, NEW m \in Messages, NEW n, n # m, NEW status, NEW attempts, NEW sched,
           Set(n, status, attempts, sched)
    PROVE  msg'[m] = msg[m]
BY DEF Set, IndInv, TypeOK

LEMMA WorkLeaves ==
    ASSUME IndInv, NEW m \in Messages, \A x \in Slots : ~Has(slot[x], m), NEW w \in Slots,
           Work(w) \/ SlotFails(w) \/ UpdateIgnored(w)
    PROVE  Untouched(m)
<1>1. /\ slot[w] \in Slot /\ ~Has(slot[w], m) /\ ~Has(IdleSlot, m) /\ ~Has(NextJob(w), m)
  BY IdleFits, NextFits DEF IndInv, TypeOK, Has
<1>2. slot[w].pc \notin {"idle", "check"} => slot[w].job.m # m
  BY <1>1, AtHand DEF Has, Holds
<1>3. \A pc, outcome : /\ ~Has([slot[w] EXCEPT !.pc = pc], m)
                       /\ ~Has([slot[w] EXCEPT !.pc = pc, !.outcome = outcome], m)
  <2> SUFFICES ASSUME NEW pc, NEW outcome
               PROVE  /\ ~Has([slot[w] EXCEPT !.pc = pc], m)
                      /\ ~Has([slot[w] EXCEPT !.pc = pc, !.outcome = outcome], m)
    OBVIOUS
  <2>1. /\ [slot[w] EXCEPT !.pc = pc].job = slot[w].job
        /\ [slot[w] EXCEPT !.pc = pc].batch = slot[w].batch
        /\ [slot[w] EXCEPT !.pc = pc, !.outcome = outcome].job = slot[w].job
        /\ [slot[w] EXCEPT !.pc = pc, !.outcome = outcome].batch = slot[w].batch
    BY <1>1 DEF Slot
  <2> QED
    BY <1>1, <2>1 DEF Has, Holds, Batched
<1>4. CASE EnqueueSchedule(w)
  BY <1>1, <1>2, <1>4, SetOther, TurnTo DEF EnqueueSchedule, At, Goto
<1>5. CASE ResendSchedule(w)
  BY <1>1, <1>2, <1>5, SetOther, TurnTo DEF ResendSchedule, At, Goto
<1>6. CASE Record(w)
  <2>1. msg'[m] = msg[m] /\ feed' = feed /\ reported' = reported
    BY <1>2, <1>6, SetOther DEF Record, At
  <2>2. Goto(w, NextJob(w)) \/ Goto(w, [slot[w] EXCEPT !.pc = "event"])
    BY <1>6 DEF Record
  <2> QED
    BY <1>1, <1>3, <2>1, <2>2, TurnTo DEF Goto
<1>7. CASE BounceEvent(w) \/ UpdateIgnored(w)
  BY <1>1, <1>3, <1>7, TurnTo DEF BounceEvent, UpdateIgnored, Goto
<1>8. CASE BounceSuppress(w) \/ SlotFails(w)
  BY <1>1, <1>8, TurnTo DEF BounceSuppress, SlotFails, Goto
<1>9. CASE ResendCheck(w)
  BY <1>1, <1>3, <1>9, TurnTo DEF ResendCheck, Goto
<1>10. ASSUME NEW outcome \in {"ok", "bounce", "error"}, Send(w, outcome) PROVE Untouched(m)
  BY <1>1, <1>3, <1>10, TurnTo DEF Send, Goto
<1>11. CASE SendAnswerLost(w)
  BY <1>1, <1>3, <1>11, TurnTo DEF SendAnswerLost, Goto
<1>12. CASE Check(w)
  <2>1. slot[w].job = None
    BY <1>12 DEF Check, At, IndInv, SlotsInv, Shape
  <2>2. PICK j \in slot[w].batch :
        LET rest == [slot[w] EXCEPT !.batch = @ \ {j}]
        IN IF suppressed /\ ~msg[j.m].critical
           THEN /\ Set(j.m, "skipped", j.attempts, "none")
                /\ Goto(w, IF rest.batch = {} THEN IdleSlot ELSE rest)
           ELSE /\ Goto(w, [rest EXCEPT !.pc = "send", !.job = j])
                /\ UNCHANGED msg
    BY <1>12 DEF Check
  <2>3. j \in Job /\ j.m # m
    BY <1>1, <2>2 DEF Has, Batched, Slot
  <2>4. msg'[m] = msg[m] /\ feed' = feed /\ reported' = reported
    BY <1>12, <2>2, <2>3, SetOther DEF Check
  <2>5. PICK rest \in Slot : rest = [slot[w] EXCEPT !.batch = @ \ {j}]
    BY <1>1 DEF Slot
  <2>6. PICK next \in Slot : next = [rest EXCEPT !.pc = "send", !.job = j]
    BY <2>3, <2>5 DEF Slot
  <2>7. ~Has(rest, m) /\ ~Has(next, m)
    <3>1. /\ rest.job = None /\ rest.batch = slot[w].batch \ {j}
          /\ next.job = j /\ next.batch = slot[w].batch \ {j}
      BY <1>1, <2>1, <2>5, <2>6 DEF Slot
    <3> QED
      BY <1>1, <2>3, <3>1 DEF Has, Holds, Batched
  <2>8. \E s \in {IdleSlot, rest, next} : slot' = [slot EXCEPT ![w] = s]
    BY <2>2, <2>5, <2>6 DEF Goto
  <2> QED
    BY <1>1, <2>4, <2>7, <2>8, TurnTo
<1> QED
  BY <1>4, <1>5, <1>6, <1>7, <1>8, <1>9, <1>10, <1>11, <1>12 DEF Work

\* A report about the message comes in for the first time.
News(m) == \E e \in 1..Len(reported) :
              reported[e] = m /\ <<e, "report">> \in events' \ events

\* A sent message is not taken up, and no report that comes in again is taken for
\* new.
LEMMA AtRestStep ==
    ASSUME IndInv, NEW m \in Messages, AtRest(m), [Next]_vars
    PROVE  AtRest(m)' \/ News(m)
<1>1. /\ msg[m] # None /\ msg[m].status = "sent"
      /\ \A x \in Slots : ~Has(slot[x], m)
      /\ \A f \in Feeds : ~Marking(f, m)
  BY FlightHas DEF AtRest, Marking
<1>2. ASSUME Untouched(m) PROVE AtRest(m)'
  <2>1. ~InFlight(m)'
    <3>1. ASSUME NEW x \in Slots
          PROVE  m \notin {j.m : j \in slot'[x].batch \cup ({slot'[x].job} \ {None})}
      BY <1>2 DEF Untouched, Has, Holds, Batched
    <3> QED
      BY <3>1 DEF InFlight
  <2> QED
    BY <1>1, <1>2, <2>1 DEF AtRest, Untouched, Marking
<1>3. ASSUME NEW w \in Slots, Work(w) \/ SlotFails(w) \/ UpdateIgnored(w) PROVE AtRest(m)'
  BY <1>1, <1>2, <1>3, WorkLeaves
<1>4. ASSUME NEW w \in Slots, NEW n \in Messages, NEW pc, NEW sync, NEW s \in Slot,
             n # m, Solo(s, pc, sync, n), slot' = [slot EXCEPT ![w] = s], msg'[m] = msg[m],
             reported' = reported, feed' = feed
      PROVE  AtRest(m)'
  <2>1. ~Has(s, m)
    BY <1>4 DEF Solo, Has, Holds, Batched
  <2> QED
    BY <1>1, <1>2, <1>4, <2>1, TurnTo
<1>5. ASSUME NEW w \in Slots, NEW n \in Messages, NEW critical \in BOOLEAN,
             SendNow(w, n, critical) \/ Enqueue(w, n, critical) \/ ResendLoad(w, n)
      PROVE  AtRest(m)'
  <2>1. n # m /\ msg'[m] = msg[m] /\ reported' = reported /\ feed' = feed
    BY <1>1, <1>5 DEF SendNow, Enqueue, ResendLoad, IndInv, TypeOK
  <2>2. PICK j \in Job : j = [m |-> n, attempts |-> 0] /\ j # None /\ j.m = n
    BY JobFits
  <2>3. PICK s \in Slot : s = [IdleSlot EXCEPT !.pc = "send", !.sync = TRUE, !.job = j]
    BY IdleFits DEF Slot
  <2>4. PICK q \in Slot : q = [IdleSlot EXCEPT !.pc = "schedule", !.job = j]
    BY IdleFits DEF Slot
  <2>5. PICK r \in Slot : r = [IdleSlot EXCEPT !.pc = "resendCheck", !.job = j]
    BY IdleFits DEF Slot
  <2>6. /\ Solo(s, "send", TRUE, n) /\ Solo(q, "schedule", FALSE, n)
        /\ Solo(r, "resendCheck", FALSE, n)
    BY <2>2, <2>3, <2>4, <2>5 DEF Solo, IdleSlot
  <2>7. \E p \in {s, q, r} : slot' = [slot EXCEPT ![w] = p]
    BY <1>5, <2>2, <2>3, <2>4, <2>5 DEF SendNow, Enqueue, ResendLoad, Goto
  <2> QED
    BY <1>4, <2>1, <2>6, <2>7
<1>6. ASSUME NEW w \in Slots, NEW S \in SUBSET Messages, Claim(w, S) PROVE AtRest(m)'
  <2>1. m \notin S /\ msg'[m] = msg[m] /\ reported' = reported /\ feed' = feed
    BY <1>1, <1>6 DEF Claim, DueMessages
  <2>2. PICK jobs : jobs = {[m |-> n, attempts |-> msg[n].attempts] : n \in S}
    OBVIOUS
  <2>3. PICK s : s = [IdleSlot EXCEPT !.pc = "check", !.batch = jobs]
    OBVIOUS
  <2>4. s.job = None /\ s.batch = jobs
    BY <2>3 DEF IdleSlot
  <2>5. \A j \in jobs : j.m # m
    BY <2>1, <2>2
  <2>6. ~Has(s, m)
    BY <2>4, <2>5 DEF Has, Holds, Batched
  <2>7. slot' = [slot EXCEPT ![w] = s]
    BY <1>6, <2>2, <2>3 DEF Claim, Claiming, Goto
  <2> QED
    BY <1>1, <1>2, <2>1, <2>6, <2>7, TurnTo
<1>7. ASSUME NEW f \in Feeds, NEW e \in 1..MaxReports, Ingest(f, e) PROVE AtRest(m)' \/ News(m)
  <2>1. /\ msg' = msg /\ slot' = slot /\ reported' = reported
        /\ events' = events \cup {<<e, "report">>} /\ e \in 1..Len(reported)
    BY <1>7 DEF Ingest
  <2>2. PICK pc \in AfterRecord(<<e, "report">> \notin events) :
          feed' = [feed EXCEPT ![f] = [pc |-> pc, e |-> e]]
    BY <1>7 DEF Ingest
  <2>3. CASE pc = "mark" /\ reported[e] = m
    <3>1. <<e, "report">> \notin events
      BY <2>2, <2>3 DEF AfterRecord
    <3> QED
      BY <2>1, <2>3, <3>1 DEF News
  <2>4. CASE ~(pc = "mark" /\ reported[e] = m)
    <3>1. /\ feed'[f].pc = pc /\ feed'[f].e = e
          /\ \A g \in Feeds \ {f} : feed'[g] = feed[g]
      BY <2>2, Kept
    <3>2. \A g \in Feeds : ~Marking(g, m)'
      BY <1>1, <2>1, <2>4, <3>1 DEF Marking
    <3> QED
      BY <1>1, <1>2, <2>1, <3>2 DEF Untouched
  <2> QED
    BY <2>3, <2>4
<1>8. ASSUME NEW f \in Feeds, Mark(f) \/ Suppress(f) \/ FeedFails(f) PROVE AtRest(m)'
  <2>1. slot' = slot /\ reported' = reported
    BY <1>8 DEF Mark, Suppress, FeedFails
  <2>2. msg'[m] = msg[m]
    BY <1>1, <1>8, SetOther DEF Mark, Suppress, FeedFails, Marking
  <2>3. \A g \in Feeds : feed'[g] = feed[g] \/ feed'[g].pc # "mark"
    <3>1. [feed[f] EXCEPT !.pc = "suppress"].pc = "suppress"
      BY Kept DEF Feed
    <3>2. feed' = [feed EXCEPT ![f] = IdleFeed]
          \/ feed' = [feed EXCEPT ![f] = [feed[f] EXCEPT !.pc = "suppress"]]
      BY <1>8, Kept DEF Mark, Suppress, FeedFails
    <3> QED
      BY <3>1, <3>2, Kept, IdleFeedFits
  <2> QED
    BY <1>1, <1>2, <2>1, <2>2, <2>3 DEF Untouched, Marking
<1>9. ASSUME NEW n \in Messages, SendSkipped(n) \/ Elapse(n) PROVE AtRest(m)'
  BY <1>1, <1>2, <1>9 DEF Untouched, Marking, SendSkipped, Elapse, IndInv, TypeOK
<1>10. ASSUME NEW n \in Messages, ProviderBounces(n) PROVE AtRest(m)'
  <2>1. msg' = msg /\ slot' = slot /\ feed' = feed /\ reported' = Append(reported, n)
    BY <1>10 DEF ProviderBounces
  <2>2. \A e \in 1..Len(reported) : reported'[e] = reported[e]
    BY <2>1, Kept
  <2>3. \A f \in Feeds : feed[f].pc = "mark" => reported'[feed'[f].e] = reported[feed[f].e]
    BY <2>1, <2>2, Kept
  <2> QED
    BY <1>1, <1>2, <2>1, <2>3 DEF Untouched, Marking
<1>11. ASSUME NEW on \in BOOLEAN, SetSuppression(on) PROVE AtRest(m)'
  BY <1>1, <1>2, <1>11 DEF Untouched, Marking, SetSuppression
<1>12. CASE UNCHANGED vars
  BY <1>1, <1>2, <1>12 DEF Untouched, Marking, vars
<1> QED
  BY <1>3, <1>5, <1>6, <1>7, <1>8, <1>9, <1>10, <1>11, <1>12 DEF Next, Dispatch

\* A report that comes in again, through the poll's overlapping windows or a
\* redelivered webhook, never marks a message failed that nobody is at work on,
\* however many reports there are and however many ingestions run at once; only
\* a report's first arrival does (recordDeliveryEvent, markDeliveryTargetsFailed).
THEOREM RepeatedReportsHarmless == Spec => SentStaysSent
<1>1. IndInv /\ [Next]_vars =>
        [\A m \in Messages :
            AtRest(m) => \/ AtRest(m)'
                         \/ \E e \in 1..Len(reported) :
                               /\ reported[e] = m
                               /\ <<e, "report">> \in events' \ events]_vars
  <2> SUFFICES ASSUME IndInv, [Next]_vars, NEW m \in Messages, AtRest(m)
               PROVE  AtRest(m)' \/ News(m)
    BY DEF News
  <2> QED
    BY AtRestStep
<1> QED
  BY <1>1, Correct, PTL DEF Spec, SentStaysSent
=============================================================================
