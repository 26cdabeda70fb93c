--------------------------- MODULE EmailCampaigns ---------------------------
(***************************************************************************)
(* One marketing campaign: editing, scheduling, sending, retrying failed   *)
(* recipients and cancelling, by administrators and by the dispatcher, and *)
(* the bounces that come back.                                             *)
(*                                                                         *)
(* Source: internal/usecase/email/email.go and                             *)
(* internal/repo/persistent/email_postgres.go.                             *)
(*                                                                         *)
(* A slot is a request or a dispatcher run and one action one statement,   *)
(* one transaction or one provider call.  Except for the two claims, every *)
(* request reads the campaign first and then overwrites its status with    *)
(* UpdateEmailCampaign, whatever it has become.  Campaigns share no state. *)
(***************************************************************************)
EXTENDS Integers, FiniteSets

CONSTANTS Addresses, Slots, None,
          Movable,      \* addresses whose owner or an administrator acts meanwhile
          BatchSize,    \* recipients listed at a time (defaultBatchSize)
          MaxGen,       \* bound on the recipient snapshots taken
          MaxExcuses,   \* bound on the bounces: none once an address has so many excuses
          MaxFaults     \* bound on failing statements and dying processes

ASSUME BoundsAssumption ==
    BatchSize \in Nat \ {0} /\ MaxGen \in Nat /\ MaxExcuses \in Nat /\ MaxFaults \in Nat
ASSUME NamesAssumption ==
    None \notin Addresses \cup Slots /\ Movable \subseteq Addresses /\ IsFiniteSet(Slots)

VARIABLES status,       \* email_campaigns.status
          rec,          \* email_campaign_recipients of the current snapshot
          gen,          \* snapshots taken: a new one has new row ids
          suppressed,   \* addresses with a suppression or without consent
          slot,
          accepted,     \* history: how often the provider accepted a mail
          excuse,       \* history: reasons to mail an address once more
          overrun,      \* history: a write from a stale read has landed
          faults

vars == <<status, rec, gen, suppressed, slot, accepted, excuse, overrun, faults>>

Statuses == {"draft", "scheduled", "sending", "sent", "cancelled"}

\* prev: the status read first; batch: the recipients listed, of snapshot gen;
\* since: recipients updated since the retry began.
Slot == [op : {"none", "send", "retry", "schedule", "edit", "cancel"},
         pc : {"idle", "claim", "prepare", "list", "check", "send", "log", "record",
               "write"},
         prev : Statuses, write : Statuses, batch : SUBSET Addresses, gen : Nat,
         cur : Addresses \cup {None}, outcome : {"sent", "failed", "skipped"},
         since : SUBSET Addresses]

IdleSlot == [op |-> "none", pc |-> "idle", prev |-> "draft", write |-> "draft", batch |-> {},
             gen |-> 0, cur |-> None, outcome |-> "failed", since |-> {}]

At(w, pc) == slot[w].pc = pc
Put(w, s) == slot' = [slot EXCEPT ![w] = s]

\* The history of accepted mails is kept until a stale write has landed.
NoCount == [a \in Addresses |-> 0]
More(count, a) == IF overrun THEN count ELSE [count EXCEPT ![a] = @ + 1]
Stale(landed) ==
    /\ overrun' = (overrun \/ landed)
    /\ accepted' = IF overrun' THEN NoCount ELSE accepted
    /\ excuse' = IF overrun' THEN NoCount ELSE excuse

\* The snapshots that requests under way may still take are counted in.
MaySnapshot == gen + Cardinality({w \in Slots : At(w, "claim") \/ At(w, "prepare")}) < MaxGen

-----------------------------------------------------------------------------
(* Requests, up to their first write.                                      *)

Started(op, pc, write) ==
    [IdleSlot EXCEPT !.op = op, !.pc = pc, !.write = write,
                     !.prev = IF op = "send" THEN status ELSE @]

\* The delivery is over; the status is written next.
Finish(w) == [IdleSlot EXCEPT !.op = slot[w].op, !.pc = "write", !.write = "sent"]

\* The status a request must find: SendCampaignNow, RetryFailedCampaign,
\* ScheduleCampaign, UpdateCampaign, CancelCampaign.
Load(w, op) ==
    /\ At(w, "idle")
    /\ \/ op = "send" /\ status \in {"draft", "scheduled"} /\ MaySnapshot
          /\ Put(w, Started(op, "claim", "sent"))
       \/ op = "retry" /\ status = "sent" /\ Put(w, Started(op, "claim", "sent"))
       \/ op = "schedule" /\ status = "draft" /\ MaySnapshot
          /\ Put(w, Started(op, "prepare", "scheduled"))
       \/ op = "edit" /\ status = "draft" /\ Put(w, Started(op, "write", "draft"))
       \/ op = "cancel" /\ status \notin {"sent", "cancelled"}
          /\ Put(w, Started(op, "write", "cancelled"))
    /\ UNCHANGED <<status, rec, gen, suppressed, accepted, excuse, overrun, faults>>

\* The WHERE of ClaimEmailCampaignForSending and of ClaimEmailCampaignForRetry.
\* (ClaimableAsRead trusts the status read before.)
ClaimableAsRead(op) == TRUE
Claimable(op) == IF op = "send" THEN status \in {"draft", "scheduled"} ELSE status = "sent"

Claim(w) ==
    /\ At(w, "claim")
    /\ \/ /\ Claimable(slot[w].op)
          /\ status' = "sending"
          /\ Put(w, [slot[w] EXCEPT !.pc = IF slot[w].op = "send" THEN "prepare" ELSE "list"])
       \/ /\ ~Claimable(slot[w].op)
          /\ Put(w, IdleSlot)
          /\ UNCHANGED status
    /\ UNCHANGED <<rec, gen, suppressed, accepted, excuse, overrun, faults>>

\* prepareCampaignRecipients: the audience replaces the recipients.
Prepare(w) ==
    /\ At(w, "prepare")
    /\ rec' = [a \in Addresses |-> IF a \in suppressed THEN "none" ELSE "pending"]
    /\ gen' = gen + 1
    /\ Stale(slot[w].op = "schedule" /\ status \notin {"draft", "scheduled"})
    /\ Put(w, [slot[w] EXCEPT !.pc = IF slot[w].op = "send" THEN "list" ELSE "write",
                              !.prev = "draft"])
    /\ UNCHANGED <<status, suppressed, faults>>

\* UpdateEmailCampaign, the last statement of every request.  A sender that
\* gives its claim back knows that nobody was mailed, even if the campaign was
\* cancelled meanwhile.
WriteStatus(w) ==
    /\ At(w, "write")
    /\ status' = slot[w].write
    /\ Stale(/\ slot[w].write \in {"draft", "scheduled"}
             /\ status \notin {"draft", "scheduled"}
             /\ slot[w].op # "send")
    /\ Put(w, IdleSlot)
    /\ UNCHANGED <<rec, gen, suppressed, faults>>

-----------------------------------------------------------------------------
(* deliverCampaign and deliverCampaignRetry.                               *)

\* A retry lists what failed before it began.  (ListedWithoutCutoff lists what
\* failed during it as well.)
ListedWithoutCutoff(w) == {a \in Addresses :
    rec[a] = IF slot[w].op = "send" THEN "pending" ELSE "failed"}
Listed(w) == {a \in Addresses :
    IF slot[w].op = "send" THEN rec[a] = "pending"
    ELSE rec[a] = "failed" /\ a \notin slot[w].since}

\* A first batch is all there is.
AfterBatchOnce == "write"
\* After a batch comes another.
AfterBatch == "list"

List(w) ==
    /\ At(w, "list")
    /\ LET S == Listed(w)
       IN \/ /\ S = {}
             /\ Put(w, Finish(w))
          \/ \E batch \in SUBSET S :
                /\ Cardinality(batch) = IF Cardinality(S) < BatchSize THEN Cardinality(S)
                                                                     ELSE BatchSize
                /\ batch # {}
                /\ Put(w, [slot[w] EXCEPT !.pc = "check", !.batch = batch, !.gen = gen])
    /\ UNCHANGED <<status, rec, gen, suppressed, accepted, excuse, overrun, faults>>

\* deliverCampaignRecipient: no published template or one that does not render,
\* a suppressed address, or the provider is called.
Check(w) ==
    /\ At(w, "check")
    /\ \E a \in slot[w].batch, rendered \in BOOLEAN :
          LET s == [slot[w] EXCEPT !.batch = @ \ {a}, !.cur = a]
          IN Put(w, IF ~rendered THEN [s EXCEPT !.pc = "record", !.outcome = "failed"]
                    ELSE IF a \in suppressed THEN [s EXCEPT !.pc = "record", !.outcome = "skipped"]
                    ELSE [s EXCEPT !.pc = "send"])
    /\ UNCHANGED <<status, rec, gen, suppressed, accepted, excuse, overrun, faults>>

\* The provider answers: it has taken the mail or not.  A permanent bounce
\* suppresses.
Send(w) ==
    /\ At(w, "send")
    /\ \/ /\ accepted' = More(accepted, slot[w].cur)
          /\ Put(w, [slot[w] EXCEPT !.pc = "log"])
          /\ UNCHANGED suppressed
       \/ /\ Put(w, [slot[w] EXCEPT !.pc = "record", !.outcome = "failed"])
          /\ suppressed' \in {suppressed, suppressed \cup {slot[w].cur}}
          /\ UNCHANGED accepted
    /\ UNCHANGED <<status, rec, gen, excuse, overrun, faults>>

\* The provider takes the mail but its answer is lost, by a timeout or a body
\* that cannot be read: to the caller that is a failed send.
SendAnswerLost(w) ==
    /\ At(w, "send") /\ faults < MaxFaults
    /\ faults' = faults + 1
    /\ accepted' = More(accepted, slot[w].cur)
    /\ excuse' = More(excuse, slot[w].cur)
    /\ Put(w, [slot[w] EXCEPT !.pc = "record", !.outcome = "failed"])
    /\ UNCHANGED <<status, rec, gen, suppressed, overrun>>

\* sendAndLog's last update; when it fails the recipient counts as failed.
Log(w) ==
    /\ At(w, "log")
    /\ \/ /\ Put(w, [slot[w] EXCEPT !.pc = "record", !.outcome = "sent"])
          /\ UNCHANGED <<excuse, faults>>
       \/ /\ faults < MaxFaults
          /\ faults' = faults + 1
          /\ excuse' = More(excuse, slot[w].cur)
          /\ Put(w, [slot[w] EXCEPT !.pc = "record", !.outcome = "failed"])
    /\ UNCHANGED <<status, rec, gen, suppressed, accepted, overrun>>

\* The next recipient of the batch.
Following(s) == [s EXCEPT !.pc = IF s.batch = {} THEN AfterBatch ELSE "check",
                          !.cur = None, !.outcome = "failed"]

\* An error of the delivery leaves a sending campaign as it is, and a retried
\* one is sent again.
Broken(w) == IF slot[w].op = "retry" THEN Finish(w) ELSE IdleSlot

\* updated_at of a recipient moves past the cutoff of a retry under way.
Touched(w, a) == IF slot[w].op = "retry" /\ slot[w].pc # "claim"
                 THEN [slot[w] EXCEPT !.since = @ \cup {a}] ELSE slot[w]

\* UpdateEmailCampaignRecipientStatus by row id: it fails, or finds no row when
\* the snapshot was replaced; for a failed recipient that is ignored.
Record(w) ==
    /\ At(w, "record")
    /\ \/ /\ slot[w].gen = gen
          /\ rec' = [rec EXCEPT ![slot[w].cur] = slot[w].outcome]
          /\ slot' = [x \in Slots |->
                 IF x = w THEN Following(Touched(w, slot[w].cur))
                 ELSE Touched(x, slot[w].cur)]
          /\ UNCHANGED <<excuse, faults>>
       \/ /\ \/ slot[w].gen # gen /\ UNCHANGED <<excuse, faults>>
             \/ /\ faults < MaxFaults
                /\ faults' = faults + 1
                /\ excuse' = IF slot[w].outcome = "sent" THEN More(excuse, slot[w].cur)
                                                        ELSE excuse
          /\ Put(w, IF slot[w].outcome = "failed"
                    THEN Following(slot[w])
                    ELSE Broken(w))
          /\ UNCHANGED rec
    /\ UNCHANGED <<status, gen, suppressed, accepted, overrun>>

-----------------------------------------------------------------------------
(* The surroundings.                                                       *)

\* markDeliveryTargetsFailed for a mail the provider could not deliver, which
\* may come before the acceptance is recorded.
Bounce(a) ==
    /\ rec[a] # "none" /\ (rec[a] = "sent" \/ accepted[a] > 0)
    /\ excuse[a] < MaxExcuses
    /\ rec' = [rec EXCEPT ![a] = "failed"]
    /\ excuse' = More(excuse, a)
    /\ slot' = [w \in Slots |-> Touched(w, a)]
    /\ UNCHANGED <<status, gen, suppressed, accepted, overrun, faults>>

\* Unsubscribe, the suppressions of bounces, and those administrators delete.
SetSuppression(a, on) ==
    /\ suppressed' = IF on THEN suppressed \cup {a} ELSE suppressed \ {a}
    /\ UNCHANGED <<status, rec, gen, slot, accepted, excuse, overrun, faults>>

\* restoreCampaignStatus; a campaign has no failed status.
RestoredFailed(w) == "failed"
Restored(w) == slot[w].prev

\* A statement fails.  A failed preparation puts the status back.
StatementFails(w) ==
    /\ slot[w].pc \in {"prepare", "list", "write", "claim"} /\ faults < MaxFaults
    /\ faults' = faults + 1
    /\ Put(w, IF At(w, "prepare") /\ slot[w].op = "send"
              THEN [slot[w] EXCEPT !.pc = "write", !.write = Restored(w)]
              ELSE IF At(w, "list") THEN Broken(w) ELSE IdleSlot)
    /\ UNCHANGED <<status, rec, gen, suppressed, accepted, excuse, overrun>>

Crash(w) ==
    /\ ~At(w, "idle") /\ faults < MaxFaults
    /\ faults' = faults + 1
    /\ Put(w, IdleSlot)
    /\ UNCHANGED <<status, rec, gen, suppressed, accepted, excuse, overrun>>

-----------------------------------------------------------------------------
Init ==
    /\ status = "draft"
    /\ rec = [a \in Addresses |-> "none"]
    /\ gen = 0
    /\ suppressed = {}
    /\ slot = [w \in Slots |-> IdleSlot]
    /\ accepted = NoCount
    /\ excuse = NoCount
    /\ overrun = FALSE
    /\ faults = 0

Work(w) == \/ Claim(w) \/ Prepare(w) \/ WriteStatus(w) \/ List(w) \/ Check(w)
           \/ Send(w) \/ SendAnswerLost(w) \/ Log(w) \/ Record(w)

Next ==
    \/ \E w \in Slots :
          \/ Work(w) \/ StatementFails(w) \/ Crash(w)
          \/ \E op \in {"send", "retry", "schedule", "edit", "cancel"} : Load(w, op)
    \/ \E a \in Movable : Bounce(a) \/ \E on \in BOOLEAN : SetSuppression(a, on)

Spec == Init /\ [][Next]_vars

\* A request that has begun goes on until it is done: provider calls have a
\* timeout and statements return.
FairSpec == Spec /\ \A w \in Slots : WF_vars(Work(w))

-----------------------------------------------------------------------------
(* What is checked.                                                        *)

TypeOK ==
    /\ status \in Statuses
    /\ rec \in [Addresses -> {"none", "pending", "sent", "failed", "skipped"}]
    /\ gen \in 0..MaxGen
    /\ suppressed \subseteq Addresses
    /\ slot \in [Slots -> Slot]
    /\ accepted \in [Addresses -> Nat]
    /\ excuse \in [Addresses -> Nat]
    /\ overrun \in BOOLEAN
    /\ faults \in 0..MaxFaults

\* "send one provider email per recipient" (docs/admin-email-api.md): the
\* provider accepts one mail for an address, and one more only for a mail that
\* bounced, whose answer was lost, or whose acceptance could not be recorded,
\* unless an edit or a schedule that had read a draft was written over a campaign
\* claimed, sent or cancelled since: two of them overlapping do not count.
\* (ClaimEmailCampaignForSending, ClaimEmailCampaignForRetry)
CampaignMailedOnce ==
    overrun \/ \A a \in Addresses : accepted[a] <= 1 + excuse[a]

\* A campaign is marked sent when its recipients are through: none is pending,
\* although lists are cut into batches and recipient updates fail, unless a
\* stale write has interfered.  (deliverCampaign)
SentMeansDone ==
    status = "sent" /\ ~overrun => \A a \in Addresses : rec[a] # "pending"

\* A run of the dispatcher or of a retry ends, however often the provider
\* fails: a retry never comes back to a recipient it has tried.  A stale
\* schedule may refill the recipients under a run.  (deliverCampaignRetry)
RunsEnd ==
    \A w \in Slots :
        slot[w].op \in {"send", "retry"} ~> (slot[w].op \notin {"send", "retry"} \/ overrun)
=============================================================================
