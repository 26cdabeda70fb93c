----------------------------- MODULE EmailPoll -----------------------------
(***************************************************************************)
(* The poll of the provider's delivery failures: its window, its limit and *)
(* its cursor.                                                             *)
(*                                                                         *)
(* Source: PollCloudflareEmailEvents in internal/usecase/email/email.go,   *)
(* the query in internal/repo/webapi/cloudflare_email_events.go and the    *)
(* cursor in internal/repo/persistent/email_postgres.go.                   *)
(*                                                                         *)
(* Time is counted in instants, a report is named by its datetime and each *)
(* has a recipient of its own.  The provider lists a report some time      *)
(* after its datetime.  One action is one statement or one provider call.  *)
(* What an ingested report does to the message is in EmailOutbox.          *)
(***************************************************************************)
EXTENDS Integers, FiniteSets, FiniteSetsExt

CONSTANTS Polls,        \* polls that run at the same time, one per process
          None,         \* no cursor row
          Lookback,     \* pollingLookback
          PollLimit,    \* pollingLimit
          Delay,        \* how late the provider lists a report
          MaxTime,      \* bound on the clock
          MaxReports    \* bound on the provider's reports

\* The provider lists a report before the lookback is over: what the overlap of
\* the windows is for.
ASSUME DelayAssumption == Lookback \in Nat \ {0} /\ Delay \in 0..Lookback
ASSUME BoundsAssumption ==
    /\ PollLimit \in Nat \ {0} /\ MaxTime \in Nat /\ MaxReports \in Nat
    /\ None \notin Int

VARIABLES now,
          reported,     \* the provider's reports
          invalid,      \* the reports without a usable recipient
          listed,       \* the reports its query returns
          cursor,       \* last_polled_at, or None
          events,       \* email_delivery_events, by their dedupe keys
          suppressed,   \* reports whose recipient was suppressed for it
          poll,         \* the polls
          origin,       \* history: where the windows begin that no cursor bounded
          cut           \* history: reports the limit cut off a completed poll

vars == <<now, reported, invalid, listed, cursor, events, suppressed, poll, origin, cut>>

Instants == 0..MaxTime

\* at: the poll's now; fresh: it found no cursor; batch: the reports still to be
\* ingested; over: those of the window beyond the limit.
Poll == [pc : {"idle", "cursor", "ask", "record", "mark", "suppress", "advance"},
         at : Instants, start : Int, fresh : BOOLEAN,
         batch : SUBSET Instants, over : SUBSET Instants]
IdlePoll == [pc |-> "idle", at |-> 0, start |-> 0, fresh |-> FALSE, batch |-> {}, over |-> {}]

At(p, pc) == poll[p].pc = pc
Goto(p, new) == poll' = [poll EXCEPT ![p] = new]

-----------------------------------------------------------------------------
(* The provider.                                                           *)

Report(usable) ==
    /\ now \notin reported /\ Cardinality(reported) < MaxReports
    /\ reported' = reported \cup {now}
    /\ invalid' = IF usable THEN invalid ELSE invalid \cup {now}
    /\ UNCHANGED <<now, listed, cursor, events, suppressed, poll, origin, cut>>

List(e) ==
    /\ e \in reported \ listed
    /\ listed' = listed \cup {e}
    /\ UNCHANGED <<now, reported, invalid, cursor, events, suppressed, poll, origin, cut>>

Tick ==
    /\ now < MaxTime
    /\ \A e \in reported \ listed : now < e + Delay
    /\ now' = now + 1
    /\ UNCHANGED <<reported, invalid, listed, cursor, events, suppressed, poll, origin, cut>>

-----------------------------------------------------------------------------
(* PollCloudflareEmailEvents.                                              *)

Begin(p) ==
    /\ At(p, "idle")
    /\ Goto(p, [IdlePoll EXCEPT !.pc = "cursor", !.at = now])
    /\ UNCHANGED <<now, reported, invalid, listed, cursor, events, suppressed, origin, cut>>

\* The start of the window.  (StartAtCursor: without the overlap.)
StartAtCursor(at) ==
    IF cursor # None /\ cursor < at THEN cursor ELSE at - Lookback
Start(at) ==
    IF cursor # None /\ cursor - Lookback < at THEN cursor - Lookback ELSE at - Lookback

ReadCursor(p) ==
    /\ At(p, "cursor")
    /\ Goto(p, [poll[p] EXCEPT !.pc = "ask", !.start = Start(poll[p].at),
                               !.fresh = cursor = None])
    /\ UNCHANGED <<now, reported, invalid, listed, cursor, events, suppressed, origin, cut>>

\* orderBy datetime_ASC, limit
Earliest(S) == {e \in S : Cardinality({d \in S : d < e}) < PollLimit}

\* The provider answers with the first PollLimit reports of the window.
Ask(p) ==
    /\ At(p, "ask")
    /\ LET inside == {e \in listed : poll[p].start <= e /\ e <= poll[p].at}
           batch == Earliest(inside)
       IN Goto(p, [poll[p] EXCEPT !.pc = IF batch = {} THEN "advance" ELSE "record",
                                  !.batch = batch, !.over = inside \ batch])
    /\ UNCHANGED <<now, reported, invalid, listed, cursor, events, suppressed, origin, cut>>

\* The poll turns to the rest of its batch.
GoneOn(p) ==
    LET rest == poll[p].batch \ {Min(poll[p].batch)}
    IN [poll[p] EXCEPT !.pc = IF rest = {} THEN "advance" ELSE "record", !.batch = rest]

\* What follows recordDeliveryEvent: a new report that names a message of ours
\* marks it, and the recipient is suppressed for a duplicate too.
\* (AfterRecordSkipping: a duplicate is done with.)
AfterRecordSkipping(p, inserted) ==
    IF inserted THEN {[poll[p] EXCEPT !.pc = pc] : pc \in {"mark", "suppress"}} ELSE {GoneOn(p)}
AfterRecord(p, inserted) ==
    {[poll[p] EXCEPT !.pc = pc] : pc \in IF inserted THEN {"mark", "suppress"} ELSE {"suppress"}}

\* cloudflarePolledDeliveryEvent.  (UsableAlways: without its check.)
UsableAlways(e) == TRUE
Usable(e) == e \notin invalid

\* A row that is of no use is passed over; any other goes to recordDeliveryEvent.
Record(p) ==
    /\ At(p, "record")
    /\ LET e == Min(poll[p].batch)
       IN \/ /\ ~Usable(e)
             /\ Goto(p, GoneOn(p))
             /\ UNCHANGED events
          \/ /\ Usable(e)
             /\ events' = events \cup {e}
             /\ \E next \in AfterRecord(p, e \notin events) : Goto(p, next)
    /\ UNCHANGED <<now, reported, invalid, listed, cursor, suppressed, origin, cut>>

\* markDeliveryTargetsFailed: EmailOutbox!Mark.
MarkTargets(p) ==
    /\ At(p, "mark")
    /\ Goto(p, [poll[p] EXCEPT !.pc = "suppress"])
    /\ UNCHANGED <<now, reported, invalid, listed, cursor, events, suppressed, origin, cut>>

\* upsertAutomatedSuppression
Suppress(p) ==
    /\ At(p, "suppress")
    /\ suppressed' = suppressed \cup {Min(poll[p].batch)}
    /\ Goto(p, GoneOn(p))
    /\ UNCHANGED <<now, reported, invalid, listed, cursor, events, origin, cut>>

\* UpsertEmailProviderPollCursor: the poll's now, whatever the row holds by then
\* and whether or not the limit cut the answer short.
Advance(p) ==
    /\ At(p, "advance")
    /\ cursor' = poll[p].at
    /\ origin' = IF poll[p].fresh THEN Max({origin, poll[p].start}) ELSE origin
    /\ cut' = cut \cup poll[p].over
    /\ Goto(p, IdlePoll)
    /\ UNCHANGED <<now, reported, invalid, listed, events, suppressed>>

\* An error of the provider or of a statement, or a crash: the poll stops where
\* it is and leaves the cursor.  (FailsMovingOn: it moves it all the same.)
FailsMovingOn(p) ==
    /\ ~At(p, "idle")
    /\ cursor' = poll[p].at
    /\ Goto(p, IdlePoll)
    /\ UNCHANGED <<now, reported, invalid, listed, events, suppressed, origin, cut>>
Fails(p) ==
    /\ ~At(p, "idle")
    /\ Goto(p, IdlePoll)
    /\ UNCHANGED <<now, reported, invalid, listed, cursor, events, suppressed, origin, cut>>

-----------------------------------------------------------------------------
Init ==
    /\ now = 0 /\ reported = {} /\ invalid = {} /\ listed = {}
    /\ cursor = None /\ events = {} /\ suppressed = {}
    /\ poll = [p \in Polls |-> IdlePoll]
    /\ origin = -Lookback /\ cut = {}

Next ==
    \/ \E usable \in BOOLEAN : Report(usable)
    \/ \E e \in Instants : List(e)
    \/ Tick
    \/ \E p \in Polls : \/ Begin(p) \/ ReadCursor(p) \/ Ask(p) \/ Record(p) \/ MarkTargets(p)
                        \/ Suppress(p) \/ Advance(p) \/ Fails(p)

Spec == Init /\ [][Next]_vars

-----------------------------------------------------------------------------
(* What is checked.                                                        *)

TypeOK ==
    /\ now \in Instants
    /\ reported \subseteq Instants /\ invalid \subseteq reported /\ listed \subseteq reported
    /\ cursor \in Instants \cup {None}
    /\ events \subseteq reported \ invalid /\ suppressed \subseteq events
    /\ poll \in [Polls -> Poll]
    /\ origin \in Int /\ cut \subseteq reported

\* The reports the next window no longer reaches.
Passed(e) == cursor # None /\ e < cursor - Lookback

\* A report leaves the window only after its recipient was suppressed for it,
\* although the provider lists it late, polls overlap, and a poll may die between
\* recording the report and suppressing its recipient, so that the next one finds
\* a duplicate.  The exceptions are what the limit cut off and what came before
\* the first window.  (PollCloudflareEmailEvents)
NothingPassedOver ==
    \A e \in reported \ (invalid \cup cut) :
        e >= origin /\ Passed(e) => e \in suppressed
=============================================================================
