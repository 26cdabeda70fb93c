---------------------------- MODULE EmailOutbox ----------------------------
(***************************************************************************)
(* Transactional email to one address: sending in the request or through   *)
(* the queue, the dispatcher with its retry ladder, resending, suppression *)
(* and the ingestion of the provider's delivery reports.                   *)
(*                                                                         *)
(* Source: internal/usecase/email/email.go and                             *)
(* internal/repo/persistent/email_postgres.go.                             *)
(*                                                                         *)
(* A slot is a request or a dispatcher run and one action one statement or *)
(* one provider call.  There is no clock: a scheduled_at that lies ahead   *)
(* is "later" until it elapses, which may happen at any moment, also while *)
(* the sender that claimed the message is still at work.  Two addresses    *)
(* share no state; the message bodies and templates do not matter here.    *)
(***************************************************************************)
EXTENDS Integers, Sequences, FiniteSets

CONSTANTS Messages,     \* email_messages ids
          Slots,        \* requests and dispatcher runs
          None,         \* NULL, no such row
          Feeds,        \* ingestions of provider reports: webhook requests and polls
          Limit,        \* batch size of the dispatcher
          MaxRetries,   \* length of transactionalRetryDelays (5 in the code)
          MaxExcuses,   \* bound on outlived claims and resends of a message
          MaxReports,   \* bound on the provider's reports
          MaxFaults     \* bound on failing statements, lost answers, dead processes

ASSUME BoundsAssumption ==
    /\ Limit \in Nat \ {0} /\ MaxRetries \in Nat \ {0}
    /\ MaxExcuses \in Nat /\ MaxReports \in Nat /\ MaxFaults \in Nat
ASSUME NamesAssumption == None \notin Messages \cup Slots /\ IsFiniteSet(Slots)

VARIABLES msg,          \* email_messages
          suppressed,   \* the address has a suppression of scope all
          events,       \* email_delivery_events, by their dedupe keys
          reported,     \* the provider's reports: the message each one is about
          slot,         \* requests and dispatcher runs
          feed,         \* ingestions of reports
          accepted,     \* history: how often the provider accepted a message
          excuse,       \* history: reasons to send a message once more
          faults

vars == <<msg, suppressed, events, reported, slot, feed, accepted, excuse, faults>>

Message == [status : {"queued", "sent", "failed", "skipped"}, attempts : 0..MaxRetries + 1,
            sched : {"none", "later", "due"}, critical : BOOLEAN]

\* job: the message at hand with the attempts read with it; batch: the other
\* claimed ones.
Job == [m : Messages, attempts : 0..MaxRetries]
Slot == [pc : {"idle", "schedule", "check", "send", "record", "event", "suppress",
               "resendCheck", "resendSchedule"},
         sync : BOOLEAN, job : Job \cup {None}, batch : SUBSET Job,
         outcome : {"none", "ok", "bounce", "error"}]
ASSUME RowsAssumption == None \notin Message \cup Job
IdleSlot == [pc |-> "idle", sync |-> FALSE, job |-> None, batch |-> {}, outcome |-> "none"]
\* e: the report at hand.
Feed == [pc : {"idle", "mark", "suppress"}, e : Nat]
IdleFeed == [pc |-> "idle", e |-> 0]

Terminal == {"sent", "failed", "skipped"}

-----------------------------------------------------------------------------
At(w, pc) == slot[w].pc = pc
Goto(w, new) == slot' = [slot EXCEPT ![w] = new]

\* A message a slot has claimed or is sending.
InFlight(m) ==
    \E w \in Slots : m \in {j.m : j \in slot[w].batch \cup ({slot[w].job} \ {None})}

NewMessage(status, critical) ==
    [status |-> status, attempts |-> 0, sched |-> "none", critical |-> critical]

\* UpdateEmailMessageStatus and ScheduleEmailMessageRetry: whatever the row
\* holds by now, it is overwritten.
Set(m, status, attempts, sched) ==
    msg' = [msg EXCEPT ![m] = [@ EXCEPT !.status = status, !.attempts = attempts,
                                        !.sched = sched]]

\* The slot turns to the rest of its batch.
NextJob(w) == IF slot[w].batch = {} THEN IdleSlot
              ELSE [IdleSlot EXCEPT !.pc = "check", !.batch = slot[w].batch]

-----------------------------------------------------------------------------
(* SendTransactional.                                                      *)

\* The event is switched off, or the address suppressed: only a log row.
SendSkipped(m) ==
    /\ msg[m] = None
    /\ msg' = [msg EXCEPT ![m] = NewMessage("skipped", FALSE)]
    /\ UNCHANGED <<suppressed, events, reported, slot, feed, accepted, excuse, faults>>

\* sendAndLog up to the provider call.
SendNow(w, m, critical) ==
    /\ At(w, "idle") /\ msg[m] = None
    /\ critical \/ ~suppressed
    /\ msg' = [msg EXCEPT ![m] = NewMessage("queued", critical)]
    /\ Goto(w, [IdleSlot EXCEPT !.pc = "send", !.sync = TRUE,
                                !.job = [m |-> m, attempts |-> 0]])
    /\ UNCHANGED <<suppressed, events, reported, feed, accepted, excuse, faults>>

\* enqueueTransactional: insert the row, then schedule it.
Enqueue(w, m, critical) ==
    /\ At(w, "idle") /\ msg[m] = None
    /\ msg' = [msg EXCEPT ![m] = NewMessage("queued", critical)]
    /\ Goto(w, [IdleSlot EXCEPT !.pc = "schedule", !.job = [m |-> m, attempts |-> 0]])
    /\ UNCHANGED <<suppressed, events, reported, feed, accepted, excuse, faults>>

EnqueueSchedule(w) ==
    /\ At(w, "schedule")
    /\ Set(slot[w].job.m, "queued", 0, "due")
    /\ Goto(w, IdleSlot)
    /\ UNCHANGED <<suppressed, events, reported, feed, accepted, excuse, faults>>

-----------------------------------------------------------------------------
(* DispatchDueTransactionalEmails.                                         *)

DueMessages == {m \in Messages : msg[m] # None /\ msg[m].status = "queued"
                                               /\ msg[m].sched = "due"}

Claiming(w, S) ==
    Goto(w, [IdleSlot EXCEPT !.pc = "check",
                             !.batch = {[m |-> m, attempts |-> msg[m].attempts] : m \in S}])

\* A claim that leaves scheduled_at alone.
ClaimInvisible(w, S) ==
    /\ At(w, "idle")
    /\ S \subseteq DueMessages /\ S # {} /\ Cardinality(S) <= Limit
    /\ Claiming(w, S)
    /\ UNCHANGED <<msg, suppressed, events, reported, feed, accepted, excuse, faults>>

\* A claim that clears scheduled_at.
ClaimUnscheduled(w, S) ==
    /\ At(w, "idle")
    /\ S \subseteq DueMessages /\ S # {} /\ Cardinality(S) <= Limit
    /\ msg' = [m \in Messages |-> IF m \in S THEN [msg[m] EXCEPT !.sched = "none"]
                                             ELSE msg[m]]
    /\ Claiming(w, S)
    /\ UNCHANGED <<suppressed, events, reported, feed, accepted, excuse, faults>>

\* ClaimDueTransactionalEmailMessages: scheduled_at moves past the visibility
\* timeout.
Claim(w, S) ==
    /\ At(w, "idle")
    /\ S \subseteq DueMessages /\ S # {} /\ Cardinality(S) <= Limit
    /\ msg' = [m \in Messages |-> IF m \in S THEN [msg[m] EXCEPT !.sched = "later"]
                                             ELSE msg[m]]
    /\ Claiming(w, S)
    /\ UNCHANGED <<suppressed, events, reported, feed, accepted, excuse, faults>>

\* retryTransactionalMessage: a suppressed address is skipped unless the
\* message is critical.
Check(w) ==
    /\ At(w, "check")
    /\ \E j \in slot[w].batch :
          LET rest == [slot[w] EXCEPT !.batch = @ \ {j}]
          IN IF suppressed /\ ~msg[j.m].critical
             THEN /\ Set(j.m, "skipped", j.attempts, "none")
                  /\ Goto(w, IF rest.batch = {} THEN IdleSlot ELSE rest)
             ELSE /\ Goto(w, [rest EXCEPT !.pc = "send", !.job = j])
                  /\ UNCHANGED msg
    /\ UNCHANGED <<suppressed, events, reported, feed, accepted, excuse, faults>>

\* The provider takes the message, rejects it for good, or does not take it.
Send(w, outcome) ==
    /\ At(w, "send")
    /\ Goto(w, [slot[w] EXCEPT !.pc = "record", !.outcome = outcome])
    /\ accepted' = [accepted EXCEPT ![slot[w].job.m] = @ + (IF outcome = "ok" THEN 1 ELSE 0)]
    /\ UNCHANGED <<msg, suppressed, events, reported, feed, excuse, faults>>

\* The provider takes the message, and the answer times out or cannot be read:
\* the client returns an error like any other, and the message is sent again with
\* nothing by which the provider could know it.
SendAnswerLost(w) ==
    /\ At(w, "send") /\ faults < MaxFaults
    /\ faults' = faults + 1
    /\ Goto(w, [slot[w] EXCEPT !.pc = "record", !.outcome = "error"])
    /\ accepted' = [accepted EXCEPT ![slot[w].job.m] = @ + 1]
    /\ excuse' = [excuse EXCEPT ![slot[w].job.m] = @ + 1]
    /\ UNCHANGED <<msg, suppressed, events, reported, feed>>

\* transactionalRetryDelayAfterAttempts
\* (HasRetryTooLong: the ladder read one rung past its end.)
HasRetryTooLong(attempts) == attempts \in 1..MaxRetries + 1
HasRetry(attempts) == attempts \in 1..MaxRetries

\* The status after the provider call.
Record(w) ==
    /\ At(w, "record")
    /\ LET m == slot[w].job.m
           attempts == slot[w].job.attempts + 1
       IN \/ /\ slot[w].outcome = "ok"
             /\ Set(m, "sent", attempts, "none")
             /\ Goto(w, NextJob(w))
          \/ /\ slot[w].outcome = "bounce"
             /\ Set(m, "failed", attempts, "none")
             /\ Goto(w, [slot[w] EXCEPT !.pc = "event"])
          \/ /\ slot[w].outcome = "error"
             /\ IF HasRetry(attempts) THEN Set(m, "queued", attempts, "later")
                                      ELSE Set(m, "failed", attempts, "none")
             /\ Goto(w, NextJob(w))
    /\ UNCHANGED <<suppressed, events, reported, feed, accepted, excuse, faults>>

\* handleSyncPermanentBounces: the event, then the suppression.
BounceEvent(w) ==
    /\ At(w, "event")
    /\ events' = events \cup {<<slot[w].job.m, "sync">>}
    /\ Goto(w, [slot[w] EXCEPT !.pc = "suppress"])
    /\ UNCHANGED <<msg, suppressed, reported, feed, accepted, excuse, faults>>

BounceSuppress(w) ==
    /\ At(w, "suppress")
    /\ suppressed' = TRUE
    /\ Goto(w, NextJob(w))
    /\ UNCHANGED <<msg, events, reported, feed, accepted, excuse, faults>>

\* A claim's visibility timeout, or a retry delay, runs out.
Elapse(m) ==
    /\ msg[m] # None /\ msg[m].status = "queued" /\ msg[m].sched = "later"
    /\ InFlight(m) => excuse[m] < MaxExcuses
    /\ msg' = [msg EXCEPT ![m].sched = "due"]
    /\ excuse' = [excuse EXCEPT ![m] = @ + (IF InFlight(m) THEN 1 ELSE 0)]
    /\ UNCHANGED <<suppressed, events, reported, slot, feed, accepted, faults>>

-----------------------------------------------------------------------------
(* ResendMessage: three statements, the last one unconditional.            *)

ResendLoad(w, m) ==
    /\ At(w, "idle")
    /\ msg[m] # None /\ msg[m].status = "failed"
    /\ excuse[m] < MaxExcuses
    /\ Goto(w, [IdleSlot EXCEPT !.pc = "resendCheck", !.job = [m |-> m, attempts |-> 0]])
    /\ UNCHANGED <<msg, suppressed, events, reported, feed, accepted, excuse, faults>>

ResendCheck(w) ==
    /\ At(w, "resendCheck")
    /\ Goto(w, IF suppressed THEN IdleSlot ELSE [slot[w] EXCEPT !.pc = "resendSchedule"])
    /\ UNCHANGED <<msg, suppressed, events, reported, feed, accepted, excuse, faults>>

ResendSchedule(w) ==
    /\ At(w, "resendSchedule")
    /\ Set(slot[w].job.m, "queued", 0, "due")
    /\ excuse' = [excuse EXCEPT ![slot[w].job.m] = @ + 1]
    /\ Goto(w, IdleSlot)
    /\ UNCHANGED <<suppressed, events, reported, feed, accepted, faults>>

-----------------------------------------------------------------------------
(* Reports: PollCloudflareEmailEvents, IngestCloudflareBounceWebhook.       *)

\* The provider reports that a message it accepted was not delivered, or was
\* complained about, as often as that happens.  Every report has a dedupe key of
\* its own: its datetime and cause in the poll, the event's id or the payload's
\* hash in the webhook, so a bounce that comes in both ways is two reports.
ProviderBounces(m) ==
    /\ accepted[m] > 0 /\ Len(reported) < MaxReports
    /\ reported' = Append(reported, m)
    /\ UNCHANGED <<msg, suppressed, events, slot, feed, accepted, excuse, faults>>

\* recordDeliveryEvent: what follows depends on whether the row is new.  An
\* event without a message id of ours marks nothing.  (AfterRecordAgain takes a
\* duplicate for new.)
AfterRecordAgain(inserted) == {"mark", "suppress"}
AfterRecord(inserted) == IF inserted THEN {"mark", "suppress"} ELSE {"suppress"}

\* A report may come in any number of times, and twice at once; which ones a
\* poll asks for is left to EmailPoll.
Ingest(f, e) ==
    /\ feed[f].pc = "idle" /\ e \in 1..Len(reported)
    /\ events' = events \cup {<<e, "report">>}
    /\ \E pc \in AfterRecord(<<e, "report">> \notin events) :
          feed' = [feed EXCEPT ![f] = [pc |-> pc, e |-> e]]
    /\ UNCHANGED <<msg, suppressed, reported, slot, accepted, excuse, faults>>

\* markDeliveryTargetsFailed
Mark(f) ==
    /\ feed[f].pc = "mark"
    /\ Set(reported[feed[f].e], "failed", 1, "none")
    /\ feed' = [feed EXCEPT ![f].pc = "suppress"]
    /\ UNCHANGED <<suppressed, events, reported, slot, accepted, excuse, faults>>

\* upsertAutomatedSuppression, for a duplicate too.
Suppress(f) ==
    /\ feed[f].pc = "suppress"
    /\ suppressed' = TRUE
    /\ feed' = [feed EXCEPT ![f] = IdleFeed]
    /\ UNCHANGED <<msg, events, reported, slot, accepted, excuse, faults>>

\* The suppressions administrators manage.
SetSuppression(on) ==
    /\ suppressed' = on
    /\ UNCHANGED <<msg, events, reported, slot, feed, accepted, excuse, faults>>

-----------------------------------------------------------------------------
(* Failures.                                                               *)

\* A statement returns an error, or the process dies: the slot stops where it
\* is, and the rest of its batch waits for the visibility timeout.  A message
\* the provider accepted and the dispatcher could not record is sent again.
SlotFails(w) ==
    /\ ~At(w, "idle") /\ faults < MaxFaults
    /\ faults' = faults + 1
    /\ LET resent == At(w, "record") /\ slot[w].outcome = "ok" /\ ~slot[w].sync
       IN excuse' = [m \in Messages |-> excuse[m] +
                        (IF resent /\ m = slot[w].job.m THEN 1 ELSE 0)]
    /\ Goto(w, IdleSlot)
    /\ UNCHANGED <<msg, suppressed, events, reported, feed, accepted>>

\* sendAndLog ignores an error of the update that follows a bounce.
UpdateIgnored(w) ==
    /\ At(w, "record") /\ slot[w].sync /\ slot[w].outcome = "bounce"
    /\ faults < MaxFaults
    /\ faults' = faults + 1
    /\ Goto(w, [slot[w] EXCEPT !.pc = "event"])
    /\ UNCHANGED <<msg, suppressed, events, reported, feed, accepted, excuse>>

FeedFails(f) ==
    /\ feed[f].pc # "idle" /\ faults < MaxFaults
    /\ faults' = faults + 1
    /\ feed' = [feed EXCEPT ![f] = IdleFeed]
    /\ UNCHANGED <<msg, suppressed, events, reported, slot, accepted, excuse>>

-----------------------------------------------------------------------------
Init ==
    /\ msg = [m \in Messages |-> None]
    /\ suppressed = FALSE
    /\ events = {} /\ reported = <<>>
    /\ slot = [w \in Slots |-> IdleSlot]
    /\ feed = [f \in Feeds |-> IdleFeed]
    /\ accepted = [m \in Messages |-> 0]
    /\ excuse = [m \in Messages |-> 0]
    /\ faults = 0

Work(w) ==
    \/ EnqueueSchedule(w) \/ Check(w) \/ Record(w) \/ BounceEvent(w) \/ BounceSuppress(w)
    \/ \E outcome \in {"ok", "bounce", "error"} : Send(w, outcome)
    \/ SendAnswerLost(w) \/ ResendCheck(w) \/ ResendSchedule(w)

Dispatch == \E w \in Slots, S \in SUBSET Messages : Claim(w, S)

Next ==
    \/ \E m \in Messages :
          \/ SendSkipped(m) \/ Elapse(m)
          \/ \E w \in Slots : \/ ResendLoad(w, m)
                              \/ \E critical \in BOOLEAN : \/ SendNow(w, m, critical)
                                                           \/ Enqueue(w, m, critical)
    \/ Dispatch
    \/ \E m \in Messages : ProviderBounces(m)
    \/ \E f \in Feeds, e \in 1..MaxReports : Ingest(f, e)
    \/ \E w \in Slots : Work(w) \/ SlotFails(w) \/ UpdateIgnored(w)
    \/ \E f \in Feeds : Mark(f) \/ Suppress(f) \/ FeedFails(f)
    \/ \E on \in BOOLEAN : SetSuppression(on)

Spec == Init /\ [][Next]_vars

\* Requests finish, the dispatcher loop keeps running, and time passes.
FairSpec ==
    /\ Spec
    /\ \A w \in Slots : WF_vars(Work(w))
    /\ WF_vars(Dispatch)
    /\ \A m \in Messages : WF_vars(Elapse(m))
    /\ \A f \in Feeds : WF_vars(Mark(f) \/ Suppress(f))

-----------------------------------------------------------------------------
(* What is checked.                                                        *)

TypeOK ==
    /\ msg \in [Messages -> Message \cup {None}]
    /\ suppressed \in BOOLEAN
    /\ events \subseteq (Nat \X {"report"}) \cup (Messages \X {"sync"})
    /\ reported \in Seq(Messages)
    /\ slot \in [Slots -> Slot]
    /\ feed \in [Feeds -> Feed]
    /\ accepted \in [Messages -> Nat]
    /\ excuse \in [Messages -> Nat]
    /\ faults \in 0..MaxFaults

\* The provider accepts a message once, and once more only for each claim that
\* outlived its visibility timeout, each acceptance whose answer was lost or that
\* a dispatcher died with before recording it, and each resend an administrator
\* asked for: concurrent dispatchers, retries, late statuses and bounce reports
\* never send a message again by themselves.  (ClaimDueTransactionalEmailMessages,
\* retryTransactionalMessage)
AcceptedOnce == \A m \in Messages : accepted[m] <= 1 + excuse[m]

\* A scheduled message is sent, failed or skipped in the end, whatever the
\* provider answers and whoever overwrites the row meanwhile: the retry ladder
\* ends and no claim is lost.  (transactionalRetryDelayAfterAttempts,
\* DispatchDueTransactionalEmails)
ScheduledMessagesEnd ==
    \A m \in Messages :
        (msg[m] # None /\ msg[m].status = "queued" /\ msg[m].sched # "none")
            ~> (msg[m] # None /\ msg[m].status \in Terminal)

\* A message that was sent, and that no sender and no ingestion is about to write.
AtRest(m) ==
    /\ msg[m] # None /\ msg[m].status = "sent" /\ ~InFlight(m)
    /\ \A f \in Feeds : ~(feed[f].pc = "mark" /\ reported[feed[f].e] = m)

\* A message at rest stays there until a report about it comes in for the first
\* time: reports that come in again, through overlapping poll windows or
\* redelivered webhooks, do not mark a message failed that was sent again since.
\* "Uses lookback overlap and delivery-event dedupe, so duplicate provider rows
\* are safe" (docs/admin-email-api.md:1010).  (recordDeliveryEvent,
\* markDeliveryTargetsFailed)
SentStaysSent ==
    [][\A m \in Messages :
          AtRest(m) => \/ AtRest(m)'
                       \/ \E e \in 1..Len(reported) :
                             /\ reported[e] = m
                             /\ <<e, "report">> \in events' \ events]_vars
=============================================================================
