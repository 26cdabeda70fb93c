------------------------ MODULE EmailCampaignsProofs ------------------------
(***************************************************************************)
(* Proofs about EmailCampaigns for every set of addresses and of           *)
(* concurrent requests and dispatcher runs, every batch size and every     *)
(* number of faults.                                                       *)
(***************************************************************************)
EXTENDS EmailCampaigns, FiniteSetTheorems, TLAPS

-----------------------------------------------------------------------------
(* The inductive invariant.                                                *)

\* The shape of a slot.
SlotInv(s) ==
    /\ s.pc = "claim" => s.op \in {"send", "retry"}
    /\ s.pc = "prepare" => s.op \in {"send", "schedule"}
    /\ s.pc \in {"list", "check", "send", "log", "record"} => s.op \in {"send", "retry"}
    /\ s.pc \in {"send", "log", "record"} => s.cur \in Addresses /\ s.cur \notin s.batch
    /\ s.op = "send" /\ s.pc \in {"claim", "prepare"} => s.prev \in {"draft", "scheduled"}
    /\ s.op = "send" /\ s.pc = "write" => s.write \in {"sent", "draft", "scheduled"}
    /\ s.op = "retry" => s.write = "sent"
    /\ s.op = "schedule" => s.write = "scheduled"
    /\ s.op = "edit" => s.write = "draft"
    /\ s.op = "cancel" => s.write = "cancelled"
    /\ s.op = "none" => s.pc = "idle"

\* The requests that may still replace the recipients.
Snapshotting ==
    {w \in Slots : slot[w].op \in {"send", "schedule"} /\ slot[w].pc \in {"claim", "prepare"}}
GenInv == gen + Cardinality(Snapshotting) <= MaxGen

\* A slot has claimed the campaign and not given it back.
Holding(s) == s.op \in {"send", "retry"} /\ s.pc \notin {"idle", "claim"}

\* It has claimed a campaign nobody was mailed for,
Unsent(s) == s.op = "send" /\ (s.pc = "prepare" \/ (s.pc = "write" /\ s.write # "sent"))

\* it is through with the pending recipients,
Through(s) == Holding(s) /\ (s.op = "retry" \/ (s.pc = "write" /\ s.write = "sent"))

\* or the provider accepted a mail that is not recorded yet.
Carrying(s) == s.pc = "log" \/ (s.pc = "record" /\ s.outcome = "sent")

Settled(a) == accepted[a] <= excuse[a]

HoldInv ==
    /\ \A w \in Slots : Holding(slot[w]) => status \in {"sending", "cancelled"}
    /\ \A w, x \in Slots : Holding(slot[w]) /\ Holding(slot[x]) => w = x

UnsentInv ==
    status \in {"draft", "scheduled"} \/ (\E w \in Slots : Unsent(slot[w]))
        => \A a \in Addresses : accepted[a] = 0

ThroughInv ==
    status = "sent" \/ (\E w \in Slots : Through(slot[w]))
        => \A a \in Addresses : rec[a] # "pending"

\* What a slot listed or tries next has not been mailed without an excuse.
BatchInv ==
    \A w \in Slots : slot[w].pc \in {"check", "send", "log", "record"} =>
        /\ slot[w].gen = gen
        /\ \A a \in slot[w].batch : Settled(a)
        /\ slot[w].pc # "check" /\ ~Carrying(slot[w]) => Settled(slot[w].cur)

RecipientInv ==
    status = "sent" \/ (\E w \in Slots : Holding(slot[w])) =>
        \A a \in Addresses : rec[a] \in {"pending", "failed"} =>
            \/ Settled(a)
            \/ \E w \in Slots : Carrying(slot[w]) /\ slot[w].cur = a

MailInv ==
    /\ HoldInv /\ UnsentInv /\ ThroughInv /\ BatchInv /\ RecipientInv
    /\ \A a \in Addresses : accepted[a] <= 1 + excuse[a]

IndInv ==
    /\ TypeOK /\ GenInv
    /\ \A w \in Slots : SlotInv(slot[w])
    /\ ~overrun => MailInv

-----------------------------------------------------------------------------
(* The parts of a step that are alike.                                     *)

\* Two slots differ at most in the recipients updated since a retry began and
\* in the status read first.
Like(s, t) ==
    /\ s.op = t.op /\ s.pc = t.pc /\ s.write = t.write /\ s.batch = t.batch
    /\ s.gen = t.gen /\ s.cur = t.cur /\ s.outcome = t.outcome

Replacing(s) == s.op \in {"send", "schedule"} /\ s.pc \in {"claim", "prepare"}

LEMMA IdleFits ==
    IdleSlot \in Slot /\ SlotInv(IdleSlot) /\ ~Holding(IdleSlot) /\ ~Replacing(IdleSlot)
<1>1. IdleSlot \in Slot
  BY DEF IdleSlot, Slot, Statuses
<1> QED
  BY <1>1 DEF IdleSlot, SlotInv, Holding, Replacing

\* No new request that replaces the recipients: the bound on snapshots holds on.
LEMMA GenKept ==
    ASSUME TypeOK, GenInv, gen' = gen,
           \A x \in Slots : Replacing(slot[x])' => Replacing(slot[x])
    PROVE  GenInv'
<1>1. Snapshotting' \subseteq Snapshotting /\ Snapshotting \subseteq Slots
  BY DEF Snapshotting, Replacing
<1>2. IsFiniteSet(Snapshotting)
  BY <1>1, NamesAssumption, FS_Subset
<1>3. /\ Cardinality(Snapshotting') <= Cardinality(Snapshotting)
      /\ Cardinality(Snapshotting') \in Nat /\ Cardinality(Snapshotting) \in Nat
  BY <1>1, <1>2, FS_Subset, FS_CardinalityType
<1> QED
  BY <1>3, BoundsAssumption DEF GenInv, TypeOK

\* One slot is put: its type, its shape and the bound.
LEMMA PutStep ==
    ASSUME IndInv, NEW w \in Slots, NEW s \in Slot, Put(w, s), SlotInv(s), gen' = gen,
           Replacing(s) => Replacing(slot[w])
    PROVE  /\ \A x \in Slots : slot'[x] = IF x = w THEN s ELSE slot[x]
           /\ slot' \in [Slots -> Slot]
           /\ \A x \in Slots : SlotInv(slot[x])'
           /\ GenInv'
<1>1. /\ \A x \in Slots : slot'[x] = IF x = w THEN s ELSE slot[x]
      /\ slot' \in [Slots -> Slot]
  BY DEF IndInv, TypeOK, Put
<1>2. \A x \in Slots : SlotInv(slot[x])'
  BY <1>1 DEF IndInv, SlotInv
<1>3. \A x \in Slots : Replacing(slot[x])' => Replacing(slot[x])
  BY <1>1 DEF Replacing
<1> QED
  BY <1>1, <1>2, <1>3, GenKept DEF IndInv

\* The slot that holds the campaign is the only one, and knows the recipients.
LEMMA HolderAlone ==
    ASSUME IndInv, MailInv, NEW w \in Slots, Holding(slot[w])
    PROVE  /\ status \in {"sending", "cancelled"}
           /\ \A x \in Slots \ {w} :
                 /\ ~Holding(slot[x]) /\ ~Unsent(slot[x]) /\ ~Through(slot[x])
                 /\ ~Carrying(slot[x]) /\ slot[x].pc \notin {"check", "send", "log", "record"}
           /\ \A a \in Addresses : rec[a] \in {"pending", "failed"} =>
                 Settled(a) \/ (Carrying(slot[w]) /\ slot[w].cur = a)
<1>1. /\ status \in {"sending", "cancelled"}
      /\ \A x \in Slots \ {w} : ~Holding(slot[x])
  BY DEF MailInv, HoldInv
<1>2. \A x \in Slots \ {w} :
         /\ ~Unsent(slot[x]) /\ ~Through(slot[x])
         /\ ~Carrying(slot[x]) /\ slot[x].pc \notin {"check", "send", "log", "record"}
  BY <1>1 DEF IndInv, SlotInv, Holding, Unsent, Through, Carrying
<1>3. \A a \in Addresses : rec[a] \in {"pending", "failed"} =>
         Settled(a) \/ (Carrying(slot[w]) /\ slot[w].cur = a)
  BY <1>2 DEF MailInv, RecipientInv
<1> QED
  BY <1>1, <1>2, <1>3

\* A step of the slot that holds the campaign: what the invariant says of this
\* slot is all it says.
LEMMA HolderStep ==
    ASSUME IndInv, MailInv, NEW w \in Slots, Holding(slot[w]),
           \A x \in Slots \ {w} : Like(slot[x]', slot[x]),
           UNCHANGED <<status, gen>>,
           ~Unsent(slot[w])' \/ (Unsent(slot[w]) /\ accepted' = accepted),
           Through(slot[w])' => \A a \in Addresses : rec'[a] # "pending",
           slot'[w].pc \in {"check", "send", "log", "record"} =>
               /\ slot'[w].gen = gen'
               /\ \A a \in slot'[w].batch : Settled(a)'
               /\ slot'[w].pc # "check" /\ ~Carrying(slot[w])' => accepted'[slot'[w].cur] <= excuse'[slot'[w].cur],
           Holding(slot[w])' =>
               \A a \in Addresses : rec'[a] \in {"pending", "failed"} =>
                   Settled(a)' \/ (Carrying(slot[w])' /\ slot'[w].cur = a),
           \A a \in Addresses : accepted'[a] <= 1 + excuse'[a]
    PROVE  MailInv'
<1>1. /\ status' \in {"sending", "cancelled"}
      /\ \A x \in Slots \ {w} :
            /\ ~Holding(slot[x])' /\ ~Unsent(slot[x])' /\ ~Through(slot[x])'
            /\ ~Carrying(slot[x])' /\ slot'[x].pc \notin {"check", "send", "log", "record"}
  BY HolderAlone DEF Like, Holding, Unsent, Through, Carrying
<1>2. HoldInv'
  BY <1>1 DEF HoldInv
<1>3. UnsentInv'
  <2>1. ASSUME Unsent(slot[w])' PROVE \A a \in Addresses : accepted'[a] = 0
    BY <2>1 DEF MailInv, UnsentInv
  <2> QED
    BY <1>1, <2>1 DEF UnsentInv
<1>4. ThroughInv'
  BY <1>1 DEF ThroughInv
<1>5. BatchInv'
  BY <1>1 DEF BatchInv, Settled
<1>6. RecipientInv'
  BY <1>1 DEF RecipientInv
<1> QED
  BY <1>2, <1>3, <1>4, <1>5, <1>6 DEF MailInv

\* A step of a slot that does not hold the campaign, and does not claim it.
LEMMA BystanderStep ==
    ASSUME IndInv, MailInv, NEW w \in Slots, ~Holding(slot[w]), ~Holding(slot[w])',
           SlotInv(slot[w])',
           \A x \in Slots \ {w} : slot'[x] = slot[x],
           UNCHANGED <<status, rec, gen, accepted, excuse>>
    PROVE  MailInv'
<1>1. /\ ~Unsent(slot[w])' /\ ~Through(slot[w])' /\ ~Carrying(slot[w])'
      /\ ~Carrying(slot[w]) /\ slot'[w].pc \notin {"check", "send", "log", "record"}
  BY DEF IndInv, SlotInv, Holding, Unsent, Through, Carrying
<1>2. HoldInv'
  BY DEF MailInv, HoldInv
<1>3. UnsentInv'
  BY <1>1 DEF MailInv, UnsentInv
<1>4. ThroughInv'
  BY <1>1 DEF MailInv, ThroughInv
<1>5. BatchInv'
  BY <1>1 DEF MailInv, BatchInv, Settled, Carrying
<1>6. RecipientInv'
  BY <1>1 DEF MailInv, RecipientInv, Settled
<1> QED
  BY <1>2, <1>3, <1>4, <1>5, <1>6 DEF MailInv

-----------------------------------------------------------------------------
(* One lemma per action.                                                   *)

LEMMA InitInv == Init => IndInv
<1> SUFFICES ASSUME Init PROVE IndInv
  OBVIOUS
<1>1. \A w \in Slots : slot[w] = IdleSlot
  BY DEF Init
<1>2. TypeOK
  <2>1. overrun \in BOOLEAN
    BY DEF Init
  <2> QED
    BY <2>1, IdleFits, BoundsAssumption DEF Init, TypeOK, NoCount, Statuses
<1>3. GenInv
  <2>1. Snapshotting = {}
    BY <1>1, IdleFits DEF Snapshotting, Replacing
  <2> QED
    BY <2>1, FS_EmptySet, BoundsAssumption DEF GenInv, Init
<1>4. \A w \in Slots : SlotInv(slot[w])
  BY <1>1, IdleFits
<1>5. MailInv
  <2>1. \A w \in Slots : slot[w].pc = "idle" /\ ~Holding(slot[w])
    BY <1>1, IdleFits DEF IdleSlot
  <2> QED
    BY <2>1 DEF MailInv, HoldInv, UnsentInv, ThroughInv, BatchInv, RecipientInv,
                Unsent, Through, Carrying, Init, NoCount
<1> QED
  BY <1>2, <1>3, <1>4, <1>5 DEF IndInv

LEMMA LoadInv ==
    ASSUME IndInv, NEW w \in Slots,
           NEW op \in {"send", "retry", "schedule", "edit", "cancel"}, Load(w, op)
    PROVE  IndInv'
<1>0. /\ slot[w].pc = "idle"
      /\ UNCHANGED <<status, rec, gen, suppressed, accepted, excuse, overrun, faults>>
  BY DEF Load, At
<1>1. PICK s \in Slot :
        /\ Put(w, s) /\ s.op = op
        /\ \/ s.pc = "claim" /\ op = "send" /\ s.prev \in {"draft", "scheduled"}
              /\ MaySnapshot
           \/ s.pc = "claim" /\ op = "retry" /\ s.write = "sent"
           \/ s.pc = "prepare" /\ op = "schedule" /\ s.write = "scheduled" /\ MaySnapshot
           \/ s.pc = "write" /\ op = "edit" /\ s.write = "draft"
           \/ s.pc = "write" /\ op = "cancel" /\ s.write = "cancelled"
  <2>1. status \in Statuses
    BY DEF IndInv, TypeOK
  <2>2. /\ Started("send", "claim", "sent") \in Slot
        /\ Started("retry", "claim", "sent") \in Slot
        /\ Started("schedule", "prepare", "scheduled") \in Slot
        /\ Started("edit", "write", "draft") \in Slot
        /\ Started("cancel", "write", "cancelled") \in Slot
    BY <2>1 DEF Started, IdleSlot, Slot, Statuses
  <2>3. CASE op = "send" /\ status \in {"draft", "scheduled"} /\ MaySnapshot
             /\ Put(w, Started(op, "claim", "sent"))
    BY <2>2, <2>3 DEF Started, IdleSlot
  <2>4. CASE op = "retry" /\ Put(w, Started(op, "claim", "sent"))
    BY <2>2, <2>4 DEF Started, IdleSlot
  <2>5. CASE op = "schedule" /\ MaySnapshot /\ Put(w, Started(op, "prepare", "scheduled"))
    BY <2>2, <2>5 DEF Started, IdleSlot
  <2>6. CASE op = "edit" /\ Put(w, Started(op, "write", "draft"))
    BY <2>2, <2>6 DEF Started, IdleSlot
  <2>7. CASE op = "cancel" /\ Put(w, Started(op, "write", "cancelled"))
    BY <2>2, <2>7 DEF Started, IdleSlot
  <2> QED
    BY <2>3, <2>4, <2>5, <2>6, <2>7 DEF Load
<1>2. SlotInv(s) /\ ~Holding(s) /\ ~Holding(slot[w])
  BY <1>0, <1>1 DEF SlotInv, Holding
<1>3. /\ \A x \in Slots : slot'[x] = IF x = w THEN s ELSE slot[x]
      /\ slot' \in [Slots -> Slot]
      /\ \A x \in Slots : SlotInv(slot[x])'
  BY <1>1, <1>2 DEF IndInv, TypeOK, Put, SlotInv
<1>4. GenInv'
  <2>1. CASE ~Replacing(s)
    BY <1>0, <1>1, <1>2, <2>1, PutStep
  <2>2. CASE Replacing(s)
    <3>1. MaySnapshot
      BY <1>1, <2>2 DEF Replacing
    <3> DEFINE under == {x \in Slots : At(x, "claim") \/ At(x, "prepare")}
    <3>2. /\ Snapshotting \subseteq under /\ under \subseteq Slots /\ w \notin Snapshotting
          /\ Snapshotting' = Snapshotting \cup {w}
      BY <1>0, <1>3, <2>2 DEF Snapshotting, Replacing, At
    <3>3. IsFiniteSet(under)
      BY <3>2, NamesAssumption, FS_Subset
    <3>4. /\ IsFiniteSet(Snapshotting) /\ Cardinality(Snapshotting) <= Cardinality(under)
          /\ Cardinality(Snapshotting) \in Nat /\ Cardinality(under) \in Nat
      BY <3>2, <3>3, FS_Subset, FS_CardinalityType
    <3>5. Cardinality(Snapshotting') = Cardinality(Snapshotting) + 1
      BY <3>2, <3>4, FS_AddElement
    <3>6. gen \in Nat /\ gen' = gen /\ gen + Cardinality(under) < MaxGen
      BY <1>0, <3>1 DEF MaySnapshot, IndInv, TypeOK
    <3> QED
      BY <3>4, <3>5, <3>6, BoundsAssumption DEF GenInv
  <2> QED
    BY <2>1, <2>2
<1>5. TypeOK'
  <2>1. overrun' \in BOOLEAN
    BY <1>0 DEF IndInv, TypeOK
  <2> QED
    BY <1>0, <1>3, <2>1 DEF IndInv, TypeOK
<1>6. ~overrun' => MailInv'
  <2>1. ASSUME ~overrun' PROVE MailInv
    BY <1>0, <2>1 DEF IndInv
  <2>2. ~Holding(slot[w])'
    BY <1>2, <1>3 DEF Holding
  <2> QED
    BY <1>0, <1>2, <1>3, <2>1, <2>2, BystanderStep
<1> QED
  BY <1>3, <1>4, <1>5, <1>6 DEF IndInv

LEMMA ClaimInv ==
    ASSUME IndInv, NEW w \in Slots, Claim(w)
    PROVE  IndInv'
<1>0. /\ slot[w].pc = "claim" /\ slot[w] \in Slot /\ SlotInv(slot[w])
      /\ UNCHANGED <<rec, gen, suppressed, accepted, excuse, overrun, faults>>
  BY DEF Claim, At, IndInv, TypeOK
<1>1. CASE ~Claimable(slot[w].op) /\ Put(w, IdleSlot) /\ UNCHANGED status
  <2>1. /\ \A x \in Slots : slot'[x] = IF x = w THEN IdleSlot ELSE slot[x]
        /\ slot' \in [Slots -> Slot]
        /\ \A x \in Slots : SlotInv(slot[x])'
        /\ GenInv'
    BY <1>0, <1>1, IdleFits, PutStep
  <2>2. TypeOK'
    <3>1. overrun' \in BOOLEAN
      BY <1>0 DEF IndInv, TypeOK
    <3> QED
      BY <1>0, <1>1, <2>1, <3>1 DEF IndInv, TypeOK
  <2>3. ~overrun' => MailInv'
    <3>1. ASSUME ~overrun' PROVE MailInv
      BY <1>0, <3>1 DEF IndInv
    <3>2. ~Holding(slot[w]) /\ ~Holding(slot[w])'
      BY <1>0, <2>1, IdleFits DEF Holding
    <3> QED
      BY <1>0, <1>1, <2>1, <3>1, <3>2, BystanderStep
  <2> QED
    BY <2>1, <2>2, <2>3 DEF IndInv
<1>2. CASE /\ Claimable(slot[w].op) /\ status' = "sending"
           /\ Put(w, [slot[w] EXCEPT !.pc = IF slot[w].op = "send" THEN "prepare" ELSE "list"])
  <2>1. PICK s \in Slot :
          s = [slot[w] EXCEPT !.pc = IF slot[w].op = "send" THEN "prepare" ELSE "list"]
    BY <1>0 DEF Slot
  <2>2. /\ s.op = slot[w].op /\ s.prev = slot[w].prev /\ s.write = slot[w].write
        /\ s.pc = IF s.op = "send" THEN "prepare" ELSE "list"
        /\ s.op \in {"send", "retry"}
    BY <1>0, <2>1 DEF Slot, SlotInv
  <2>3. SlotInv(s) /\ (Replacing(s) => Replacing(slot[w]))
    BY <1>0, <2>2 DEF SlotInv, Replacing
  <2>4. /\ \A x \in Slots : slot'[x] = IF x = w THEN s ELSE slot[x]
        /\ slot' \in [Slots -> Slot]
        /\ \A x \in Slots : SlotInv(slot[x])'
        /\ GenInv'
    BY <1>0, <1>2, <2>1, <2>3, PutStep
  <2>5. TypeOK'
    <3>1. overrun' \in BOOLEAN
      BY <1>0 DEF IndInv, TypeOK
    <3> QED
      BY <1>0, <1>2, <2>4, <3>1 DEF IndInv, TypeOK, Statuses
  <2>6. ASSUME ~overrun' PROVE MailInv'
    <3>1. MailInv /\ status \in {"draft", "scheduled", "sent"}
          /\ (s.op = "send" => status \in {"draft", "scheduled"})
          /\ (s.op = "retry" => status = "sent")
      BY <1>0, <1>2, <2>2, <2>6 DEF IndInv, Claimable
    <3>2. \A x \in Slots : ~Holding(slot[x])
      BY <3>1 DEF MailInv, HoldInv
    <3>3. \A x \in Slots : /\ Holding(slot[x])' => x = w
                           /\ ~Carrying(slot[x]) /\ ~Carrying(slot[x])'
                           /\ slot'[x].pc \notin {"check", "send", "log", "record"}
                           /\ Unsent(slot[x])' => x = w /\ s.op = "send"
                           /\ Through(slot[x])' => x = w /\ s.op = "retry"
      BY <2>2, <2>4, <3>2 DEF IndInv, SlotInv, Holding, Carrying, Unsent, Through
    <3>4. HoldInv'
      BY <1>2, <3>3 DEF HoldInv
    <3>5. UnsentInv'
      BY <1>0, <1>2, <3>1, <3>3 DEF MailInv, UnsentInv
    <3>6. ThroughInv'
      BY <1>0, <1>2, <3>1, <3>3 DEF MailInv, ThroughInv
    <3>7. BatchInv'
      BY <3>3 DEF BatchInv
    <3>8. RecipientInv'
      <4>1. CASE status = "sent"
        BY <1>0, <3>1, <3>3, <4>1 DEF MailInv, RecipientInv, Settled
      <4>2. CASE status \in {"draft", "scheduled"}
        <5>1. \A a \in Addresses : accepted'[a] = 0 /\ excuse'[a] \in Nat
          BY <1>0, <3>1, <4>2 DEF MailInv, UnsentInv, IndInv, TypeOK
        <5> QED
          BY <5>1 DEF RecipientInv, Settled
      <4> QED
        BY <3>1, <4>1, <4>2
    <3> QED
      BY <1>0, <3>1, <3>4, <3>5, <3>6, <3>7, <3>8 DEF MailInv
  <2> QED
    BY <2>4, <2>5, <2>6 DEF IndInv
<1> QED
  BY <1>1, <1>2 DEF Claim

\* The history counters keep their type when a stale write lands.
LEMMA StaleType ==
    ASSUME TypeOK, NEW landed \in BOOLEAN, Stale(landed)
    PROVE  /\ overrun' \in BOOLEAN
           /\ accepted' \in [Addresses -> Nat] /\ excuse' \in [Addresses -> Nat]
           /\ ~overrun' => ~overrun /\ ~landed /\ UNCHANGED <<accepted, excuse>>
<1>1. overrun' \in BOOLEAN
  BY DEF Stale
<1>2. NoCount \in [Addresses -> Nat]
  BY DEF NoCount
<1> QED
  BY <1>1, <1>2 DEF Stale, TypeOK

\* Before the audience replaces the recipients nobody was mailed.
LEMMA PrepareInv ==
    ASSUME IndInv, NEW w \in Slots, Prepare(w)
    PROVE  IndInv'
<1>0. /\ slot[w].pc = "prepare" /\ slot[w] \in Slot /\ SlotInv(slot[w])
      /\ slot[w].op \in {"send", "schedule"}
      /\ rec' = [a \in Addresses |-> IF a \in suppressed THEN "none" ELSE "pending"]
      /\ gen' = gen + 1 /\ UNCHANGED <<status, suppressed, faults>>
  BY DEF Prepare, At, IndInv, TypeOK, SlotInv
<1>1. PICK s \in Slot :
        s = [slot[w] EXCEPT !.pc = IF slot[w].op = "send" THEN "list" ELSE "write",
                            !.prev = "draft"]
  BY <1>0 DEF Slot, Statuses
<1>2. /\ s.op = slot[w].op /\ s.write = slot[w].write
      /\ s.pc = IF slot[w].op = "send" THEN "list" ELSE "write"
  BY <1>0, <1>1 DEF Slot
<1>3. SlotInv(s) /\ ~Replacing(s)
  BY <1>0, <1>2 DEF SlotInv, Replacing
<1>4. /\ \A x \in Slots : slot'[x] = IF x = w THEN s ELSE slot[x]
      /\ slot' \in [Slots -> Slot]
  BY <1>1 DEF Prepare, Put, IndInv, TypeOK
<1>5. \A x \in Slots : SlotInv(slot[x])'
  BY <1>3, <1>4 DEF IndInv, SlotInv
<1>6. gen' \in 0..MaxGen /\ GenInv'
  <2>1. w \in Snapshotting /\ Snapshotting' = Snapshotting \ {w} /\ Snapshotting \subseteq Slots
    BY <1>0, <1>3, <1>4 DEF Snapshotting, Replacing
  <2>2. IsFiniteSet(Snapshotting)
    BY <2>1, NamesAssumption, FS_Subset
  <2>3. /\ IsFiniteSet(Snapshotting')
        /\ Cardinality(Snapshotting') = Cardinality(Snapshotting) - 1
    BY <2>1, <2>2, FS_RemoveElement
  <2>4. Cardinality(Snapshotting) \in Nat /\ Cardinality(Snapshotting') \in Nat
    BY <2>2, <2>3, FS_CardinalityType
  <2> QED
    BY <1>0, <2>3, <2>4, BoundsAssumption DEF GenInv, IndInv, TypeOK
<1>7. PICK landed \in BOOLEAN : Stale(landed) /\ landed = (slot[w].op = "schedule" /\ status \notin {"draft", "scheduled"})
  BY DEF Prepare
<1>8. /\ overrun' \in BOOLEAN
      /\ accepted' \in [Addresses -> Nat] /\ excuse' \in [Addresses -> Nat]
      /\ ~overrun' => ~overrun /\ ~landed /\ UNCHANGED <<accepted, excuse>>
  BY <1>7, StaleType DEF IndInv
<1>9. TypeOK'
  BY <1>0, <1>4, <1>6, <1>8 DEF IndInv, TypeOK
<1>10. ASSUME ~overrun' PROVE MailInv'
  <2>1. MailInv /\ UNCHANGED <<accepted, excuse>>
    BY <1>8, <1>10 DEF IndInv
  <2>2. /\ slot[w].op = "send" => Holding(slot[w]) /\ Unsent(slot[w])
        /\ slot[w].op = "schedule" => status \in {"draft", "scheduled"}
    BY <1>0, <1>7, <1>8, <1>10 DEF Holding, Unsent
  <2>3. /\ \A a \in Addresses : accepted'[a] = 0 /\ excuse'[a] \in Nat
        /\ status \in {"sending", "cancelled", "draft", "scheduled"}
    BY <1>0, <1>8, <2>1, <2>2 DEF MailInv, UnsentInv, HoldInv
  <2>4. \A x \in Slots : /\ ~Carrying(slot[x])'
                         /\ slot'[x].pc \notin {"check", "send", "log", "record"}
                         /\ ~Through(slot[x])'
                         /\ Holding(slot[x])' => x = w /\ slot[w].op = "send"
    <3>1. CASE slot[w].op = "send"
      BY <1>2, <1>4, <2>1, <2>2, <3>1, HolderAlone DEF Holding, Carrying, Through
    <3>2. CASE slot[w].op = "schedule"
      <4>1. \A x \in Slots : ~Holding(slot[x])
        BY <2>1, <2>2, <3>2 DEF MailInv, HoldInv
      <4> QED
        BY <1>2, <1>4, <3>2, <4>1 DEF IndInv, SlotInv, Holding, Carrying, Through
    <3> QED
      BY <1>0, <3>1, <3>2
  <2>5. HoldInv'
    BY <1>0, <2>1, <2>2, <2>4 DEF HoldInv, MailInv
  <2>6. UnsentInv' /\ RecipientInv' /\ \A a \in Addresses : accepted'[a] <= 1 + excuse'[a]
    BY <2>3 DEF UnsentInv, RecipientInv, Settled
  <2>7. ThroughInv' /\ BatchInv'
    BY <1>0, <2>3, <2>4 DEF ThroughInv, BatchInv
  <2> QED
    BY <2>5, <2>6, <2>7 DEF MailInv
<1> QED
  BY <1>5, <1>6, <1>9, <1>10 DEF IndInv

\* A write of a status: the holder gives the campaign back, and any other one
\* is a cancellation, an edit of a draft, or has overrun the campaign.
LEMMA WriteStatusInv ==
    ASSUME IndInv, NEW w \in Slots, WriteStatus(w)
    PROVE  IndInv'
<1>0. /\ slot[w].pc = "write" /\ slot[w] \in Slot /\ SlotInv(slot[w])
      /\ status' = slot[w].write /\ Put(w, IdleSlot)
      /\ UNCHANGED <<rec, gen, suppressed, faults>>
  BY DEF WriteStatus, At, IndInv, TypeOK
<1>1. /\ \A x \in Slots : slot'[x] = IF x = w THEN IdleSlot ELSE slot[x]
      /\ slot' \in [Slots -> Slot]
      /\ \A x \in Slots : SlotInv(slot[x])'
      /\ GenInv'
  BY <1>0, IdleFits, PutStep
<1>2. PICK landed \in BOOLEAN :
        /\ Stale(landed)
        /\ landed = (/\ slot[w].write \in {"draft", "scheduled"}
                     /\ status \notin {"draft", "scheduled"}
                     /\ slot[w].op # "send")
  BY DEF WriteStatus
<1>3. /\ overrun' \in BOOLEAN
      /\ accepted' \in [Addresses -> Nat] /\ excuse' \in [Addresses -> Nat]
      /\ ~overrun' => ~overrun /\ ~landed /\ UNCHANGED <<accepted, excuse>>
  BY <1>2, StaleType DEF IndInv
<1>4. TypeOK'
  BY <1>0, <1>1, <1>3 DEF IndInv, TypeOK, Slot
<1>5. ASSUME ~overrun' PROVE MailInv'
  <2>1. MailInv /\ UNCHANGED <<accepted, excuse>>
    BY <1>3, <1>5 DEF IndInv
  <2>2. \A x \in Slots : /\ Holding(slot[x])' => x # w /\ Holding(slot[x]) /\ slot'[x] = slot[x]
                         /\ Unsent(slot[x])' => x # w /\ Unsent(slot[x])
                         /\ Through(slot[x])' => x # w /\ Through(slot[x])
                         /\ Carrying(slot[x])' => Holding(slot[x])'
                         /\ Carrying(slot[x]) => Carrying(slot[x])' /\ slot'[x] = slot[x]
                         /\ slot'[x].pc \in {"check", "send", "log", "record"}
                              => x # w /\ slot'[x] = slot[x]
    BY <1>0, <1>1, IdleFits DEF IndInv, SlotInv, Holding, Unsent, Through, Carrying, IdleSlot
  <2>3. CASE Holding(slot[w])
    <3>1. \A x \in Slots : ~Holding(slot[x])'
      BY <2>1, <2>2, <2>3 DEF MailInv, HoldInv
    <3>2. \A x \in Slots : /\ ~Unsent(slot[x])' /\ ~Through(slot[x])' /\ ~Carrying(slot[x])'
                           /\ slot'[x].pc \notin {"check", "send", "log", "record"}
      BY <1>1, <3>1 DEF Holding, Unsent, Through, Carrying, SlotInv
    <3>3. /\ status' = "sent" => Through(slot[w])
          /\ status' # "sent" => Unsent(slot[w]) /\ status' \in {"draft", "scheduled"}
      BY <1>0, <2>3 DEF Through, Unsent, Holding, SlotInv
    <3>4. HoldInv' /\ BatchInv'
      BY <3>1, <3>2 DEF HoldInv, BatchInv
    <3>5. UnsentInv'
      BY <2>1, <3>2, <3>3 DEF MailInv, UnsentInv
    <3>6. ThroughInv'
      BY <1>0, <2>1, <3>2, <3>3 DEF MailInv, ThroughInv
    <3>7. RecipientInv'
      <4>1. \A a \in Addresses : rec[a] \in {"pending", "failed"} => Settled(a)
        BY <1>0, <2>1, <2>3, HolderAlone DEF Carrying
      <4> QED
        BY <1>0, <2>1, <4>1 DEF RecipientInv, Settled
    <3> QED
      BY <2>1, <3>4, <3>5, <3>6, <3>7 DEF MailInv
  <2>4. CASE ~Holding(slot[w])
    <3>1. \/ status' = "cancelled"
          \/ status' \in {"draft", "scheduled"} /\ status \in {"draft", "scheduled"}
      BY <1>0, <1>2, <1>3, <1>5, <2>4 DEF Holding, SlotInv, Slot
    <3>2. HoldInv'
      BY <2>1, <2>2, <3>1 DEF MailInv, HoldInv
    <3>3. UnsentInv'
      BY <2>1, <2>2, <3>1 DEF MailInv, UnsentInv
    <3>4. ThroughInv'
      BY <1>0, <2>1, <2>2, <3>1 DEF MailInv, ThroughInv
    <3>5. BatchInv'
      BY <1>0, <2>1, <2>2 DEF MailInv, BatchInv, Settled, Carrying
    <3>6. RecipientInv'
      BY <1>0, <2>1, <2>2, <3>1 DEF MailInv, RecipientInv, Settled
    <3> QED
      BY <2>1, <3>2, <3>3, <3>4, <3>5, <3>6 DEF MailInv
  <2> QED
    BY <2>3, <2>4
<1> QED
  BY <1>1, <1>4, <1>5 DEF IndInv

\* A step of one slot that leaves the status, the snapshot and the history of
\* stale writes alone, given what it does to the mails.
LEMMA SlotStep ==
    ASSUME IndInv, NEW w \in Slots, NEW s \in Slot, Put(w, s), SlotInv(s),
           ~Replacing(s), UNCHANGED <<status, gen, overrun>>,
           rec' \in [Addresses -> {"none", "pending", "sent", "failed", "skipped"}],
           suppressed' \subseteq Addresses, faults' \in 0..MaxFaults,
           accepted' \in [Addresses -> Nat], excuse' \in [Addresses -> Nat],
           ~overrun /\ MailInv
             /\ (\A x \in Slots : slot'[x] = IF x = w THEN s ELSE slot[x]) => MailInv'
    PROVE  IndInv'
<1>1. /\ \A x \in Slots : slot'[x] = IF x = w THEN s ELSE slot[x]
      /\ slot' \in [Slots -> Slot]
      /\ \A x \in Slots : SlotInv(slot[x])'
      /\ GenInv'
  BY PutStep
<1>2. TypeOK'
  <2>1. overrun' \in BOOLEAN
    BY DEF IndInv, TypeOK
  <2> QED
    BY <1>1, <2>1 DEF IndInv, TypeOK
<1> QED
  BY <1>1, <1>2 DEF IndInv

\* The run ends, or the status is written next.
LEMMA FinishFits ==
    ASSUME NEW w \in Slots, slot[w] \in Slot, slot[w].op \in {"send", "retry"}
    PROVE  /\ Finish(w) \in Slot /\ SlotInv(Finish(w)) /\ ~Replacing(Finish(w))
           /\ Finish(w).op = slot[w].op /\ Finish(w).pc = "write" /\ Finish(w).write = "sent"
<1>1. Finish(w) \in Slot
  BY DEF Finish, IdleSlot, Slot, Statuses
<1>2. Finish(w).op = slot[w].op /\ Finish(w).pc = "write" /\ Finish(w).write = "sent"
  BY DEF Finish, IdleSlot
<1> QED
  BY <1>1, <1>2 DEF SlotInv, Replacing

LEMMA ListInv ==
    ASSUME IndInv, NEW w \in Slots, List(w)
    PROVE  IndInv'
<1>0. /\ slot[w].pc = "list" /\ slot[w] \in Slot /\ SlotInv(slot[w])
      /\ slot[w].op \in {"send", "retry"} /\ Holding(slot[w])
      /\ UNCHANGED <<status, rec, gen, suppressed, accepted, excuse, overrun, faults>>
  BY DEF List, At, IndInv, TypeOK, SlotInv, Holding
<1>1. /\ rec \in [Addresses -> {"none", "pending", "sent", "failed", "skipped"}]
      /\ suppressed \subseteq Addresses /\ faults \in 0..MaxFaults /\ gen \in Nat
      /\ accepted \in [Addresses -> Nat] /\ excuse \in [Addresses -> Nat]
  BY DEF IndInv, TypeOK
<1>2. CASE Listed(w) = {} /\ Put(w, Finish(w))
  <2>1. PICK s \in Slot : s = Finish(w)
    BY <1>0, FinishFits
  <2>2. /\ SlotInv(s) /\ ~Replacing(s)
        /\ s.op = slot[w].op /\ s.pc = "write" /\ s.write = "sent"
    BY <1>0, <2>1, FinishFits
  <2>3. ASSUME ~overrun, MailInv, \A x \in Slots : slot'[x] = IF x = w THEN s ELSE slot[x]
        PROVE  MailInv'
    <3>1. \A a \in Addresses : rec'[a] # "pending"
      <4>1. CASE slot[w].op = "send"
        BY <1>0, <1>2, <4>1 DEF Listed
      <4>2. CASE slot[w].op = "retry"
        BY <1>0, <2>3, <4>2 DEF MailInv, ThroughInv, Through
      <4> QED
        BY <1>0, <4>1, <4>2
    <3>2. \A a \in Addresses : rec'[a] \in {"pending", "failed"} => Settled(a)'
      BY <1>0, <2>3, HolderAlone DEF Carrying, Settled
    <3>3. ~Unsent(slot[w])' /\ slot'[w].pc = "write"
      BY <2>2, <2>3 DEF Unsent
    <3>4. \A x \in Slots \ {w} : Like(slot[x]', slot[x])
      BY <2>3 DEF Like
    <3>5. \A a \in Addresses : accepted'[a] <= 1 + excuse'[a]
      BY <1>0, <2>3 DEF MailInv
    <3> QED
      BY <1>0, <2>3, <3>1, <3>2, <3>3, <3>4, <3>5, HolderStep
  <2> QED
    BY <1>0, <1>1, <1>2, <2>1, <2>2, <2>3, SlotStep
<1>3. ASSUME NEW batch \in SUBSET Listed(w),
             Put(w, [slot[w] EXCEPT !.pc = "check", !.batch = batch, !.gen = gen])
      PROVE  IndInv'
  <2>1. PICK s \in Slot : s = [slot[w] EXCEPT !.pc = "check", !.batch = batch, !.gen = gen]
    BY <1>0, <1>1, <1>3 DEF Slot, Listed
  <2>2. s.op = slot[w].op /\ s.pc = "check" /\ s.batch = batch /\ s.gen = gen
        /\ s.write = slot[w].write
    BY <1>0, <2>1 DEF Slot
  <2>3. SlotInv(s) /\ ~Replacing(s)
    BY <1>0, <2>2 DEF SlotInv, Replacing
  <2>4. ASSUME ~overrun, MailInv, \A x \in Slots : slot'[x] = IF x = w THEN s ELSE slot[x]
        PROVE  MailInv'
    <3>1. \A a \in Addresses : rec'[a] \in {"pending", "failed"} => Settled(a)'
      BY <1>0, <2>4, HolderAlone DEF Carrying, Settled
    <3>2. \A a \in batch : Settled(a)'
      BY <1>0, <3>1 DEF Listed
    <3>3. /\ ~Unsent(slot[w])' /\ slot'[w].pc = "check" /\ slot'[w].gen = gen'
          /\ slot'[w].batch = batch
          /\ Through(slot[w])' => Through(slot[w])
      BY <1>0, <2>2, <2>4 DEF Unsent, Through, Holding
    <3>4. \A x \in Slots \ {w} : Like(slot[x]', slot[x])
      BY <2>4 DEF Like
    <3>5. \A a \in Addresses : accepted'[a] <= 1 + excuse'[a]
      BY <1>0, <2>4 DEF MailInv
    <3>6. Through(slot[w])' => \A a \in Addresses : rec'[a] # "pending"
      BY <1>0, <2>4, <3>3 DEF MailInv, ThroughInv
    <3> QED
      BY <1>0, <2>4, <3>1, <3>2, <3>3, <3>4, <3>5, <3>6, HolderStep
  <2> QED
    BY <1>0, <1>1, <1>3, <2>1, <2>2, <2>3, <2>4, SlotStep
<1> QED
  BY <1>2, <1>3 DEF List

LEMMA CheckInv ==
    ASSUME IndInv, NEW w \in Slots, Check(w)
    PROVE  IndInv'
<1>0. /\ slot[w].pc = "check" /\ slot[w] \in Slot /\ SlotInv(slot[w])
      /\ slot[w].op \in {"send", "retry"} /\ Holding(slot[w])
      /\ UNCHANGED <<status, rec, gen, suppressed, accepted, excuse, overrun, faults>>
  BY DEF Check, At, IndInv, TypeOK, SlotInv, Holding
<1>1. /\ rec \in [Addresses -> {"none", "pending", "sent", "failed", "skipped"}]
      /\ suppressed \subseteq Addresses /\ faults \in 0..MaxFaults
      /\ accepted \in [Addresses -> Nat] /\ excuse \in [Addresses -> Nat]
  BY DEF IndInv, TypeOK
<1>2. PICK a \in slot[w].batch, s \in Slot :
        /\ Put(w, s)
        /\ s.op = slot[w].op /\ s.write = slot[w].write /\ s.gen = slot[w].gen
        /\ s.batch = slot[w].batch \ {a} /\ s.cur = a
        /\ s.pc = "send" \/ (s.pc = "record" /\ s.outcome # "sent")
  <2>1. PICK a \in slot[w].batch, rendered \in BOOLEAN :
          LET s == [slot[w] EXCEPT !.batch = @ \ {a}, !.cur = a]
          IN Put(w, IF ~rendered THEN [s EXCEPT !.pc = "record", !.outcome = "failed"]
                    ELSE IF a \in suppressed THEN [s EXCEPT !.pc = "record", !.outcome = "skipped"]
                    ELSE [s EXCEPT !.pc = "send"])
    BY DEF Check
  <2> DEFINE t == [slot[w] EXCEPT !.batch = @ \ {a}, !.cur = a]
  <2>2. t \in Slot /\ a \in Addresses
    BY <1>0 DEF Slot
  <2>3. /\ t.op = slot[w].op /\ t.write = slot[w].write /\ t.gen = slot[w].gen
        /\ t.batch = slot[w].batch \ {a} /\ t.cur = a
    BY <1>0 DEF Slot
  <2>4. \E s \in Slot : /\ Put(w, s) /\ s.op = t.op /\ s.write = t.write /\ s.gen = t.gen
                        /\ s.batch = t.batch /\ s.cur = t.cur
                        /\ s.pc = "send" \/ (s.pc = "record" /\ s.outcome # "sent")
    <3> HIDE DEF t
    <3>1. /\ [t EXCEPT !.pc = "record", !.outcome = "failed"] \in Slot
          /\ [t EXCEPT !.pc = "record", !.outcome = "skipped"] \in Slot
          /\ [t EXCEPT !.pc = "send"] \in Slot
      BY <2>2 DEF Slot
    <3>2. \/ Put(w, [t EXCEPT !.pc = "record", !.outcome = "failed"])
          \/ Put(w, [t EXCEPT !.pc = "record", !.outcome = "skipped"])
          \/ Put(w, [t EXCEPT !.pc = "send"])
      BY <2>1 DEF t
    <3>3. CASE Put(w, [t EXCEPT !.pc = "record", !.outcome = "failed"])
      <4> USE <3>1
      <4> WITNESS [t EXCEPT !.pc = "record", !.outcome = "failed"] \in Slot
      <4> QED
        BY <2>2, <3>3 DEF Slot
    <3>4. CASE Put(w, [t EXCEPT !.pc = "record", !.outcome = "skipped"])
      <4> USE <3>1
      <4> WITNESS [t EXCEPT !.pc = "record", !.outcome = "skipped"] \in Slot
      <4> QED
        BY <2>2, <3>4 DEF Slot
    <3>5. CASE Put(w, [t EXCEPT !.pc = "send"])
      <4> USE <3>1
      <4> WITNESS [t EXCEPT !.pc = "send"] \in Slot
      <4> QED
        BY <2>2, <3>5 DEF Slot
    <3> QED
      BY <3>2, <3>3, <3>4, <3>5
  <2> QED
    BY <2>3, <2>4
<1>3. SlotInv(s) /\ ~Replacing(s) /\ a \in Addresses
  BY <1>0, <1>2 DEF SlotInv, Replacing, Slot
<1>4. ASSUME ~overrun, MailInv, \A x \in Slots : slot'[x] = IF x = w THEN s ELSE slot[x]
      PROVE  MailInv'
  <2>1. slot[w].gen = gen /\ \A b \in slot[w].batch : Settled(b)
    BY <1>0, <1>4 DEF MailInv, BatchInv
  <2>2. \A b \in slot[w].batch : Settled(b)'
    BY <1>0, <2>1 DEF Settled
  <2>3. \A b \in Addresses : rec'[b] \in {"pending", "failed"} => Settled(b)'
    BY <1>0, <1>4, HolderAlone DEF Carrying, Settled
  <2>4. /\ ~Unsent(slot[w])' /\ ~Carrying(slot[w])' /\ slot'[w] = s
        /\ Through(slot[w])' => Through(slot[w])
    BY <1>0, <1>2, <1>4 DEF Unsent, Through, Holding, Carrying
  <2>5. \A x \in Slots \ {w} : Like(slot[x]', slot[x])
    BY <1>4 DEF Like
  <2>6. \A b \in Addresses : accepted'[b] <= 1 + excuse'[b]
    BY <1>0, <1>4 DEF MailInv
  <2>7. Through(slot[w])' => \A b \in Addresses : rec'[b] # "pending"
    BY <1>0, <1>4, <2>4 DEF MailInv, ThroughInv
  <2>8. /\ slot'[w].gen = gen' /\ \A b \in slot'[w].batch : Settled(b)'
        /\ accepted'[slot'[w].cur] <= excuse'[slot'[w].cur]
    BY <1>0, <1>2, <2>1, <2>2, <2>4 DEF Settled
  <2> QED
    BY <1>0, <1>4, <2>3, <2>4, <2>5, <2>6, <2>7, <2>8, HolderStep
<1> QED
  BY <1>0, <1>1, <1>2, <1>3, <1>4, SlotStep

LEMMA MoreCounts ==
    ASSUME NEW count \in [Addresses -> Nat], NEW a \in Addresses
    PROVE  /\ More(count, a) \in [Addresses -> Nat]
           /\ ~overrun => \A b \in Addresses :
                 More(count, a)[b] = IF b = a THEN count[a] + 1 ELSE count[b]
BY DEF More

LEMMA SendInv ==
    ASSUME IndInv, NEW w \in Slots, Send(w)
    PROVE  IndInv'
<1> DEFINE a == slot[w].cur
<1>0. /\ slot[w].pc = "send" /\ slot[w] \in Slot /\ SlotInv(slot[w])
      /\ slot[w].op \in {"send", "retry"} /\ Holding(slot[w])
      /\ a \in Addresses /\ a \notin slot[w].batch /\ slot[w].batch \subseteq Addresses
      /\ UNCHANGED <<status, rec, gen, excuse, overrun, faults>>
  BY DEF Send, At, IndInv, TypeOK, SlotInv, Holding, Slot
<1>1. /\ rec \in [Addresses -> {"none", "pending", "sent", "failed", "skipped"}]
      /\ suppressed \subseteq Addresses /\ faults \in 0..MaxFaults
      /\ accepted \in [Addresses -> Nat] /\ excuse \in [Addresses -> Nat]
  BY DEF IndInv, TypeOK
<1>2. ASSUME MailInv
      PROVE  /\ slot[w].gen = gen /\ \A b \in slot[w].batch : Settled(b)
             /\ Settled(a)
             /\ \A b \in Addresses : rec[b] \in {"pending", "failed"} => Settled(b)
             /\ \A b \in Addresses : accepted[b] <= 1 + excuse[b]
             /\ Through(slot[w]) => \A b \in Addresses : rec[b] # "pending"
  <2>1. ~Carrying(slot[w])
    BY <1>0 DEF Carrying
  <2> QED
    BY <1>0, <1>2, <2>1, HolderAlone DEF MailInv, BatchInv, ThroughInv
<1>3. CASE /\ accepted' = More(accepted, a) /\ Put(w, [slot[w] EXCEPT !.pc = "log"])
           /\ UNCHANGED suppressed
  <2>1. PICK s \in Slot : s = [slot[w] EXCEPT !.pc = "log"]
    BY <1>0 DEF Slot
  <2>2. /\ s.op = slot[w].op /\ s.pc = "log" /\ s.write = slot[w].write
        /\ s.gen = slot[w].gen /\ s.batch = slot[w].batch /\ s.cur = a
    BY <1>0, <2>1 DEF Slot
  <2>3. SlotInv(s) /\ ~Replacing(s)
    BY <1>0, <2>2 DEF SlotInv, Replacing
  <2>4. /\ accepted' \in [Addresses -> Nat]
        /\ ~overrun => \A b \in Addresses :
              accepted'[b] = IF b = a THEN accepted[a] + 1 ELSE accepted[b]
    BY <1>0, <1>1, <1>3, MoreCounts
  <2>5. ASSUME ~overrun, MailInv, \A x \in Slots : slot'[x] = IF x = w THEN s ELSE slot[x]
        PROVE  MailInv'
    <3>1. /\ ~Unsent(slot[w])' /\ Carrying(slot[w])' /\ slot'[w] = s
          /\ Through(slot[w])' => Through(slot[w])
      BY <1>0, <2>2, <2>5 DEF Unsent, Through, Holding, Carrying
    <3>2. \A b \in Addresses : b # a => (Settled(b)' <=> Settled(b))
      BY <1>0, <2>4, <2>5 DEF Settled
    <3>3. \A b \in Addresses : accepted'[b] <= 1 + excuse'[b]
      BY <1>0, <1>1, <1>2, <2>4, <2>5 DEF Settled
    <3>4. \A x \in Slots \ {w} : Like(slot[x]', slot[x])
      BY <2>5 DEF Like
    <3>5. \A b \in Addresses : rec'[b] \in {"pending", "failed"} => Settled(b)' \/ b = a
      BY <1>0, <1>2, <2>5, <3>2
    <3>6. slot'[w].gen = gen' /\ \A b \in slot'[w].batch : Settled(b)'
      BY <1>0, <1>2, <2>2, <2>5, <3>1, <3>2
    <3>7. Through(slot[w])' => \A b \in Addresses : rec'[b] # "pending"
      BY <1>0, <1>2, <2>5, <3>1
    <3> QED
      BY <1>0, <2>2, <2>5, <3>1, <3>3, <3>4, <3>5, <3>6, <3>7, HolderStep
  <2> QED
    BY <1>0, <1>1, <1>3, <2>1, <2>3, <2>4, <2>5, SlotStep
<1>4. CASE /\ Put(w, [slot[w] EXCEPT !.pc = "record", !.outcome = "failed"])
           /\ suppressed' \in {suppressed, suppressed \cup {a}} /\ UNCHANGED accepted
  <2>1. PICK s \in Slot : s = [slot[w] EXCEPT !.pc = "record", !.outcome = "failed"]
    BY <1>0 DEF Slot
  <2>2. /\ s.op = slot[w].op /\ s.pc = "record" /\ s.write = slot[w].write
        /\ s.gen = slot[w].gen /\ s.batch = slot[w].batch /\ s.cur = a /\ s.outcome = "failed"
    BY <1>0, <2>1 DEF Slot
  <2>3. SlotInv(s) /\ ~Replacing(s)
    BY <1>0, <2>2 DEF SlotInv, Replacing
  <2>4. ASSUME ~overrun, MailInv, \A x \in Slots : slot'[x] = IF x = w THEN s ELSE slot[x]
        PROVE  MailInv'
    <3>1. /\ ~Unsent(slot[w])' /\ slot'[w] = s
          /\ Through(slot[w])' => Through(slot[w])
      BY <1>0, <2>2, <2>4 DEF Unsent, Through, Holding
    <3>2. \A b : Settled(b)' <=> Settled(b)
      BY <1>0, <1>4 DEF Settled
    <3>3. \A x \in Slots \ {w} : Like(slot[x]', slot[x])
      BY <2>4 DEF Like
    <3>4. /\ \A b \in Addresses : rec'[b] \in {"pending", "failed"} => Settled(b)'
          /\ \A b \in Addresses : accepted'[b] <= 1 + excuse'[b]
          /\ Through(slot[w])' => \A b \in Addresses : rec'[b] # "pending"
          /\ slot'[w].gen = gen' /\ \A b \in slot'[w].batch : Settled(b)'
      BY <1>0, <1>2, <1>4, <2>2, <2>4, <3>1, <3>2
    <3>5. accepted'[slot'[w].cur] <= excuse'[slot'[w].cur]
      BY <1>0, <1>2, <1>4, <2>2, <2>4, <3>1 DEF Settled
    <3> QED
      BY <1>0, <2>4, <3>1, <3>3, <3>4, <3>5, HolderStep
  <2>5. suppressed' \subseteq Addresses
    BY <1>0, <1>1, <1>4
  <2> QED
    BY <1>0, <1>1, <1>4, <2>1, <2>3, <2>4, <2>5, SlotStep
<1> QED
  BY <1>3, <1>4 DEF Send

\* An answer that is lost is an acceptance and its excuse at once.
LEMMA SendAnswerLostInv ==
    ASSUME IndInv, NEW w \in Slots, SendAnswerLost(w)
    PROVE  IndInv'
<1> DEFINE a == slot[w].cur
<1>0. /\ slot[w].pc = "send" /\ slot[w] \in Slot /\ SlotInv(slot[w])
      /\ slot[w].op \in {"send", "retry"} /\ Holding(slot[w]) /\ ~Carrying(slot[w])
      /\ a \in Addresses /\ slot[w].batch \subseteq Addresses
      /\ UNCHANGED <<status, rec, gen, suppressed, overrun>>
  BY DEF SendAnswerLost, At, IndInv, TypeOK, SlotInv, Holding, Carrying, Slot
<1>1. /\ rec \in [Addresses -> {"none", "pending", "sent", "failed", "skipped"}]
      /\ suppressed \subseteq Addresses /\ faults' \in 0..MaxFaults
      /\ accepted \in [Addresses -> Nat] /\ excuse \in [Addresses -> Nat]
  BY BoundsAssumption DEF SendAnswerLost, IndInv, TypeOK
<1>2. ASSUME MailInv
      PROVE  /\ slot[w].gen = gen /\ \A b \in slot[w].batch : Settled(b)
             /\ Settled(a)
             /\ \A b \in Addresses : rec[b] \in {"pending", "failed"} => Settled(b)
             /\ \A b \in Addresses : accepted[b] <= 1 + excuse[b]
             /\ Through(slot[w]) => \A b \in Addresses : rec[b] # "pending"
  BY <1>0, <1>2, HolderAlone DEF MailInv, BatchInv, ThroughInv
<1>3. PICK s \in Slot : s = [slot[w] EXCEPT !.pc = "record", !.outcome = "failed"]
  BY <1>0 DEF Slot
<1>4. /\ s.op = slot[w].op /\ s.pc = "record" /\ s.write = slot[w].write
      /\ s.gen = slot[w].gen /\ s.batch = slot[w].batch /\ s.cur = a /\ s.outcome = "failed"
  BY <1>0, <1>3 DEF Slot
<1>5. SlotInv(s) /\ ~Replacing(s)
  BY <1>0, <1>4 DEF SlotInv, Replacing
<1>6. accepted' = More(accepted, a) /\ excuse' = More(excuse, a) /\ Put(w, s)
  BY <1>3 DEF SendAnswerLost
<1>7. /\ accepted' \in [Addresses -> Nat] /\ excuse' \in [Addresses -> Nat]
      /\ ~overrun => \A b \in Addresses :
            /\ accepted'[b] = IF b = a THEN accepted[a] + 1 ELSE accepted[b]
            /\ excuse'[b] = IF b = a THEN excuse[a] + 1 ELSE excuse[b]
  BY <1>0, <1>1, <1>6, MoreCounts
<1>8. ASSUME ~overrun, MailInv, \A x \in Slots : slot'[x] = IF x = w THEN s ELSE slot[x]
      PROVE  MailInv'
  <2>1. /\ ~Unsent(slot[w])' /\ slot'[w] = s
        /\ Through(slot[w])' => Through(slot[w])
    BY <1>0, <1>4, <1>8 DEF Unsent, Through, Holding
  <2>2. \A b \in Addresses : accepted'[b] - excuse'[b] = accepted[b] - excuse[b]
    BY <1>0, <1>1, <1>7, <1>8
  <2>3. \A b \in Addresses : /\ accepted[b] \in Nat /\ excuse[b] \in Nat
                             /\ accepted'[b] \in Nat /\ excuse'[b] \in Nat
    BY <1>1, <1>7
  <2>4. \A b \in Addresses : /\ Settled(b)' <=> Settled(b)
                             /\ accepted'[b] <= 1 + excuse'[b]
    BY <1>2, <1>8, <2>2, <2>3 DEF Settled
  <2>5. \A x \in Slots \ {w} : Like(slot[x]', slot[x])
    BY <1>8 DEF Like
  <2>6. /\ \A b \in Addresses : rec'[b] \in {"pending", "failed"} => Settled(b)'
        /\ Through(slot[w])' => \A b \in Addresses : rec'[b] # "pending"
        /\ slot'[w].gen = gen' /\ \A b \in slot'[w].batch : Settled(b)'
    BY <1>0, <1>2, <1>4, <1>8, <2>1, <2>4
  <2>7. accepted'[slot'[w].cur] <= excuse'[slot'[w].cur]
    BY <1>0, <1>2, <1>4, <1>8, <2>1, <2>4 DEF Settled
  <2> QED
    BY <1>0, <1>8, <2>1, <2>4, <2>5, <2>6, <2>7, HolderStep
<1> QED
  BY <1>0, <1>1, <1>3, <1>5, <1>6, <1>7, <1>8, SlotStep

LEMMA LogInv ==
    ASSUME IndInv, NEW w \in Slots, Log(w)
    PROVE  IndInv'
<1> DEFINE a == slot[w].cur
<1>0. /\ slot[w].pc = "log" /\ slot[w] \in Slot /\ SlotInv(slot[w])
      /\ slot[w].op \in {"send", "retry"} /\ Holding(slot[w])
      /\ a \in Addresses /\ a \notin slot[w].batch /\ slot[w].batch \subseteq Addresses
      /\ UNCHANGED <<status, rec, gen, suppressed, accepted, overrun>>
  BY DEF Log, At, IndInv, TypeOK, SlotInv, Holding, Slot
<1>1. /\ rec \in [Addresses -> {"none", "pending", "sent", "failed", "skipped"}]
      /\ suppressed \subseteq Addresses /\ faults \in 0..MaxFaults
      /\ accepted \in [Addresses -> Nat] /\ excuse \in [Addresses -> Nat]
  BY DEF IndInv, TypeOK
<1>2. ASSUME MailInv
      PROVE  /\ slot[w].gen = gen /\ \A b \in slot[w].batch : Settled(b)
             /\ \A b \in Addresses : rec[b] \in {"pending", "failed"} => Settled(b) \/ b = a
             /\ \A b \in Addresses : accepted[b] <= 1 + excuse[b]
             /\ Through(slot[w]) => \A b \in Addresses : rec[b] # "pending"
  BY <1>0, <1>2, HolderAlone DEF MailInv, BatchInv, ThroughInv
<1>3. PICK out \in {"sent", "failed"} :
        /\ Put(w, [slot[w] EXCEPT !.pc = "record", !.outcome = out])
        /\ \/ out = "sent" /\ UNCHANGED <<excuse, faults>>
           \/ /\ out = "failed" /\ faults < MaxFaults /\ faults' = faults + 1
              /\ excuse' = More(excuse, a)
  BY DEF Log
<1>4. PICK s \in Slot : s = [slot[w] EXCEPT !.pc = "record", !.outcome = out]
  BY <1>0 DEF Slot
<1>5. /\ s.op = slot[w].op /\ s.pc = "record" /\ s.write = slot[w].write
      /\ s.gen = slot[w].gen /\ s.batch = slot[w].batch /\ s.cur = a /\ s.outcome = out
  BY <1>0, <1>4 DEF Slot
<1>6. SlotInv(s) /\ ~Replacing(s)
  BY <1>0, <1>5 DEF SlotInv, Replacing
<1>7. /\ excuse' \in [Addresses -> Nat]
      /\ ~overrun => \A b \in Addresses :
           excuse'[b] = IF b = a /\ out = "failed" THEN excuse[a] + 1 ELSE excuse[b]
  BY <1>0, <1>1, <1>3, MoreCounts
<1>8. faults' \in 0..MaxFaults
  BY <1>1, <1>3, BoundsAssumption
<1>9. ASSUME ~overrun, MailInv, \A x \in Slots : slot'[x] = IF x = w THEN s ELSE slot[x]
      PROVE  MailInv'
  <2>1. /\ ~Unsent(slot[w])' /\ (Carrying(slot[w])' <=> out = "sent") /\ slot'[w] = s
        /\ Through(slot[w])' => Through(slot[w])
    BY <1>0, <1>5, <1>9 DEF Unsent, Through, Holding, Carrying
  <2>2. \A b \in Addresses : Settled(b) => Settled(b)'
    BY <1>0, <1>1, <1>7, <1>9 DEF Settled
  <2>3. out = "failed" => accepted'[a] <= excuse'[a]
    BY <1>0, <1>1, <1>2, <1>7, <1>9
  <2>4. \A b \in Addresses : accepted'[b] <= 1 + excuse'[b]
    BY <1>0, <1>1, <1>2, <1>7, <1>9
  <2>5. \A x \in Slots \ {w} : Like(slot[x]', slot[x])
    BY <1>9 DEF Like
  <2>6. \A b \in Addresses : rec'[b] \in {"pending", "failed"} =>
            Settled(b)' \/ (Carrying(slot[w])' /\ slot'[w].cur = b)
    BY <1>0, <1>2, <1>3, <1>5, <1>9, <2>1, <2>2, <2>3 DEF Settled
  <2>7. slot'[w].gen = gen' /\ \A b \in slot'[w].batch : Settled(b)'
    BY <1>0, <1>2, <1>5, <1>9, <2>1, <2>2
  <2>8. Through(slot[w])' => \A b \in Addresses : rec'[b] # "pending"
    BY <1>0, <1>2, <1>9, <2>1
  <2>9. ~Carrying(slot[w])' => accepted'[slot'[w].cur] <= excuse'[slot'[w].cur]
    BY <1>3, <1>5, <2>1, <2>3
  <2> QED
    BY <1>0, <1>9, <2>1, <2>4, <2>5, <2>6, <2>7, <2>8, <2>9, HolderStep
<1> QED
  BY <1>0, <1>1, <1>3, <1>4, <1>6, <1>7, <1>8, <1>9, SlotStep

LEMMA FollowingFits ==
    ASSUME NEW t \in Slot, t.pc = "record", SlotInv(t)
    PROVE  /\ Following(t) \in Slot /\ SlotInv(Following(t)) /\ ~Replacing(Following(t))
           /\ Following(t).op = t.op /\ Following(t).gen = t.gen /\ Following(t).batch = t.batch
           /\ Following(t).pc \in {"list", "check"}
<1> DEFINE p == IF t.batch = {} THEN "list" ELSE "check"
<1>1. Following(t) = [t EXCEPT !.pc = p, !.cur = None, !.outcome = "failed"]
      /\ p \in {"list", "check"}
  BY DEF Following, AfterBatch
<1> HIDE DEF p
<1>2. Following(t) \in Slot
  BY <1>1 DEF Slot
<1>3. /\ Following(t).op = t.op /\ Following(t).gen = t.gen /\ Following(t).batch = t.batch
      /\ Following(t).write = t.write /\ Following(t).pc = p
  BY <1>1 DEF Slot
<1> QED
  BY <1>1, <1>2, <1>3 DEF SlotInv, Replacing

LEMMA BrokenFits ==
    ASSUME NEW w \in Slots, slot[w] \in Slot, slot[w].op \in {"send", "retry"}
    PROVE  /\ Broken(w) \in Slot /\ SlotInv(Broken(w)) /\ ~Replacing(Broken(w))
           /\ slot[w].op = "send" => ~Holding(Broken(w))
           /\ slot[w].op = "retry" => /\ Broken(w).op = "retry" /\ Broken(w).pc = "write"
                                      /\ Broken(w).write = "sent"
BY FinishFits, IdleFits DEF Broken

LEMMA TouchedLike ==
    ASSUME NEW x \in Slots, slot[x] \in Slot, NEW a \in Addresses
    PROVE  /\ Touched(x, a) \in Slot
           /\ Like(Touched(x, a), slot[x]) /\ Touched(x, a).prev = slot[x].prev
<1>1. /\ slot[x].since \cup {a} \in SUBSET Addresses
      /\ [slot[x] EXCEPT !.since = @ \cup {a}] \in Slot
  BY DEF Slot
<1> QED
  BY <1>1 DEF Touched, Like, Slot

\* A recipient status is written by row id.
LEMMA RecordedInv ==
    ASSUME IndInv, NEW w \in Slots, Record(w), slot[w].gen = gen,
           rec' = [rec EXCEPT ![slot[w].cur] = slot[w].outcome],
           slot' = [x \in Slots |->
               IF x = w THEN Following(Touched(w, slot[w].cur)) ELSE Touched(x, slot[w].cur)],
           UNCHANGED <<excuse, faults>>
    PROVE  IndInv'
<1>0. PICK a \in Addresses :
        /\ a = slot[w].cur
        /\ slot[w].pc = "record" /\ slot[w] \in Slot /\ SlotInv(slot[w])
        /\ slot[w].op \in {"send", "retry"} /\ Holding(slot[w])
        /\ a \notin slot[w].batch /\ slot[w].batch \subseteq Addresses
        /\ UNCHANGED <<status, gen, suppressed, accepted, overrun>>
  BY DEF Record, At, IndInv, TypeOK, SlotInv, Holding, Slot
<1>1. \A x \in Slots : /\ Touched(x, a) \in Slot /\ Like(Touched(x, a), slot[x])
                       /\ Touched(x, a).prev = slot[x].prev
                       /\ SlotInv(Touched(x, a))
  <2> TAKE x \in Slots
  <2>1. slot[x] \in Slot /\ SlotInv(slot[x])
    BY DEF IndInv, TypeOK
  <2>2. /\ Touched(x, a) \in Slot /\ Like(Touched(x, a), slot[x])
        /\ Touched(x, a).prev = slot[x].prev
    BY <2>1, TouchedLike
  <2> QED
    BY <2>1, <2>2 DEF Like, SlotInv
<1>2. PICK s \in Slot :
        /\ s = Following(Touched(w, a)) /\ SlotInv(s) /\ ~Replacing(s)
        /\ s.op = slot[w].op /\ s.gen = slot[w].gen /\ s.batch = slot[w].batch
        /\ s.pc \in {"list", "check"}
  BY <1>0, <1>1, FollowingFits DEF Like
<1>3. \A x \in Slots : slot'[x] = IF x = w THEN s ELSE Touched(x, a)
  BY <1>0, <1>2
<1>4. slot' \in [Slots -> Slot] /\ \A x \in Slots : SlotInv(slot[x])'
  <2>1. slot' \in [Slots -> Slot]
    BY <1>0, <1>1, <1>2
  <2> QED
    BY <1>1, <1>2, <1>3, <2>1 DEF SlotInv
<1>5. GenInv'
  <2>1. \A x \in Slots : Replacing(slot[x])' => Replacing(slot[x])
    BY <1>1, <1>2, <1>3 DEF Replacing, Like
  <2> QED
    BY <1>0, <2>1, GenKept DEF IndInv
<1>6. TypeOK'
  <2>1. overrun' \in BOOLEAN
    BY <1>0 DEF IndInv, TypeOK
  <2>2. rec' \in [Addresses -> {"none", "pending", "sent", "failed", "skipped"}]
    BY <1>0 DEF IndInv, TypeOK, Slot
  <2> QED
    BY <1>0, <1>4, <2>1, <2>2 DEF IndInv, TypeOK
<1>7. ASSUME ~overrun' PROVE MailInv'
  <2>1. MailInv
    BY <1>0, <1>7 DEF IndInv
  <2>2. /\ \A b \in slot[w].batch : Settled(b)
        /\ slot[w].outcome # "sent" => Settled(a)
        /\ \A b \in Addresses : rec[b] \in {"pending", "failed"} => Settled(b) \/ b = a
        /\ \A b \in Addresses : accepted[b] <= 1 + excuse[b]
        /\ Through(slot[w]) => \A b \in Addresses : rec[b] # "pending"
    BY <1>0, <2>1, HolderAlone DEF MailInv, BatchInv, ThroughInv, Carrying
  <2>3. \A b : Settled(b)' <=> Settled(b)
    BY <1>0 DEF Settled
  <2>4. \A b \in Addresses : rec'[b] = IF b = a THEN slot[w].outcome ELSE rec[b]
    BY <1>0 DEF IndInv, TypeOK
  <2>5. slot[w].outcome \in {"sent", "failed", "skipped"}
    BY <1>0 DEF Slot
  <2>6. /\ ~Unsent(slot[w])' /\ slot'[w] = s
        /\ Through(slot[w])' => Through(slot[w])
    BY <1>0, <1>2, <1>3 DEF Unsent, Through, Holding
  <2>7. \A x \in Slots \ {w} : Like(slot[x]', slot[x])
    BY <1>1, <1>3
  <2>8. /\ \A b \in Addresses : rec'[b] \in {"pending", "failed"} => Settled(b)'
        /\ \A b \in Addresses : accepted'[b] <= 1 + excuse'[b]
        /\ Through(slot[w])' => \A b \in Addresses : rec'[b] # "pending"
    BY <1>0, <2>2, <2>3, <2>4, <2>5, <2>6
  <2>9. slot'[w].gen = gen' /\ \A b \in slot'[w].batch : Settled(b)'
    BY <1>0, <1>2, <2>2, <2>3, <2>6
  <2> QED
    BY <1>0, <1>2, <2>1, <2>6, <2>7, <2>8, <2>9, HolderStep
<1> QED
  BY <1>4, <1>5, <1>6, <1>7 DEF IndInv

\* It is not: the row is another one by now, or the statement fails.
LEMMA NotRecordedInv ==
    ASSUME IndInv, NEW w \in Slots, Record(w),
           \/ slot[w].gen # gen /\ UNCHANGED <<excuse, faults>>
           \/ /\ faults < MaxFaults
              /\ faults' = faults + 1
              /\ excuse' = IF slot[w].outcome = "sent" THEN More(excuse, slot[w].cur)
                                                      ELSE excuse,
           Put(w, IF slot[w].outcome = "failed" THEN Following(slot[w]) ELSE Broken(w)),
           UNCHANGED rec
    PROVE  IndInv'
<1>0. PICK a \in Addresses :
        /\ a = slot[w].cur
        /\ slot[w].pc = "record" /\ slot[w] \in Slot /\ SlotInv(slot[w])
        /\ slot[w].op \in {"send", "retry"} /\ Holding(slot[w])
        /\ a \notin slot[w].batch /\ slot[w].batch \subseteq Addresses
        /\ UNCHANGED <<status, gen, suppressed, accepted, overrun>>
  BY DEF Record, At, IndInv, TypeOK, SlotInv, Holding, Slot
<1>1. /\ rec \in [Addresses -> {"none", "pending", "sent", "failed", "skipped"}]
      /\ suppressed \subseteq Addresses /\ faults \in 0..MaxFaults
      /\ accepted \in [Addresses -> Nat] /\ excuse \in [Addresses -> Nat]
  BY DEF IndInv, TypeOK
<1>2. PICK s \in Slot :
        /\ Put(w, s) /\ SlotInv(s) /\ ~Replacing(s)
        /\ \/ /\ slot[w].outcome = "failed" /\ s.op = slot[w].op /\ s.gen = slot[w].gen
              /\ s.batch = slot[w].batch /\ s.pc \in {"list", "check"}
           \/ slot[w].op = "send" /\ ~Holding(s)
           \/ slot[w].op = "retry" /\ s.op = "retry" /\ s.pc = "write" /\ s.write = "sent"
  BY <1>0, FollowingFits, BrokenFits
<1>3. excuse' \in [Addresses -> Nat] /\ faults' \in 0..MaxFaults
  <2>1. More(excuse, a) \in [Addresses -> Nat]
    BY <1>1, MoreCounts
  <2> QED
    BY <1>0, <1>1, <2>1, BoundsAssumption
<1>4. ASSUME ~overrun, MailInv, \A x \in Slots : slot'[x] = IF x = w THEN s ELSE slot[x]
      PROVE  MailInv'
  <2>1. /\ slot[w].gen = gen
        /\ \A b \in slot[w].batch : Settled(b)
        /\ slot[w].outcome # "sent" => Settled(a)
        /\ \A b \in Addresses : rec[b] \in {"pending", "failed"} => Settled(b) \/ b = a
        /\ \A b \in Addresses : accepted[b] <= 1 + excuse[b]
        /\ Through(slot[w]) => \A b \in Addresses : rec[b] # "pending"
    BY <1>0, <1>4, HolderAlone DEF MailInv, BatchInv, ThroughInv, Carrying
  <2>2. excuse' = IF slot[w].outcome = "sent" THEN More(excuse, a) ELSE excuse
    BY <1>0, <2>1
  <2>3. \A b \in Addresses :
          excuse'[b] = IF b = a /\ slot[w].outcome = "sent" THEN excuse[a] + 1 ELSE excuse[b]
    BY <1>0, <1>1, <1>4, <2>2, MoreCounts
  <2>4. Settled(a)' /\ \A b \in Addresses : Settled(b) => Settled(b)'
    BY <1>0, <1>1, <2>1, <2>3 DEF Settled
  <2>5. /\ ~Unsent(slot[w])' /\ slot'[w] = s
        /\ Through(slot[w])' => Through(slot[w])
    BY <1>0, <1>2, <1>4 DEF Unsent, Through, Holding
  <2>6. \A x \in Slots \ {w} : Like(slot[x]', slot[x])
    BY <1>4 DEF Like
  <2>7. /\ \A b \in Addresses : rec'[b] \in {"pending", "failed"} => Settled(b)'
        /\ Through(slot[w])' => \A b \in Addresses : rec'[b] # "pending"
    BY <1>0, <2>1, <2>4, <2>5
  <2>8. \A b \in Addresses : accepted'[b] <= 1 + excuse'[b]
    BY <1>0, <1>1, <2>1, <2>3
  <2>9. /\ s.pc \notin {"send", "log", "record"}
        /\ s.pc = "check" => s.gen = gen' /\ \A b \in s.batch : Settled(b)'
    BY <1>0, <1>2, <2>1, <2>4 DEF Holding, SlotInv
  <2> QED
    BY <1>0, <1>4, <2>5, <2>6, <2>7, <2>8, <2>9, HolderStep
<1> QED
  BY <1>0, <1>1, <1>2, <1>3, <1>4, SlotStep

LEMMA RecordInv ==
    ASSUME IndInv, NEW w \in Slots, Record(w)
    PROVE  IndInv'
<1>1. CASE /\ slot[w].gen = gen
           /\ rec' = [rec EXCEPT ![slot[w].cur] = slot[w].outcome]
           /\ slot' = [x \in Slots |->
                  IF x = w THEN Following(Touched(w, slot[w].cur))
                  ELSE Touched(x, slot[w].cur)]
           /\ UNCHANGED <<excuse, faults>>
  BY <1>1, RecordedInv
<1>2. CASE /\ \/ slot[w].gen # gen /\ UNCHANGED <<excuse, faults>>
              \/ /\ faults < MaxFaults
                 /\ faults' = faults + 1
                 /\ excuse' = IF slot[w].outcome = "sent" THEN More(excuse, slot[w].cur)
                                                         ELSE excuse
           /\ Put(w, IF slot[w].outcome = "failed" THEN Following(slot[w]) ELSE Broken(w))
           /\ UNCHANGED rec
  BY <1>2, NotRecordedInv
<1> QED
  BY <1>1, <1>2 DEF Record

\* Only faults and one slot change, and the slot is idle afterwards.
LEMMA GiveUpInv ==
    ASSUME IndInv, NEW w \in Slots, Put(w, IdleSlot), faults < MaxFaults, faults' = faults + 1,
           UNCHANGED <<status, rec, gen, suppressed, accepted, excuse, overrun>>
    PROVE  IndInv'
<1>1. /\ rec \in [Addresses -> {"none", "pending", "sent", "failed", "skipped"}]
      /\ suppressed \subseteq Addresses /\ faults' \in 0..MaxFaults
      /\ accepted \in [Addresses -> Nat] /\ excuse \in [Addresses -> Nat]
  BY BoundsAssumption DEF IndInv, TypeOK
<1>2. ASSUME ~overrun, MailInv,
             \A x \in Slots : slot'[x] = IF x = w THEN IdleSlot ELSE slot[x]
      PROVE  MailInv'
  <2>1. /\ ~Holding(slot[w])' /\ SlotInv(slot[w])' /\ slot'[w].pc = "idle"
        /\ ~Unsent(slot[w])' /\ ~Through(slot[w])'
    BY <1>2, IdleFits DEF Holding, SlotInv, IdleSlot, Unsent, Through
  <2>2. CASE ~Holding(slot[w])
    BY <1>2, <2>1, <2>2, BystanderStep
  <2>3. CASE Holding(slot[w])
    <3>1. \A x \in Slots \ {w} : Like(slot[x]', slot[x])
      BY <1>2 DEF Like
    <3>2. \A a \in Addresses : accepted'[a] <= 1 + excuse'[a]
      BY <1>2 DEF MailInv
    <3> QED
      BY <1>2, <2>1, <2>3, <3>1, <3>2, HolderStep
  <2> QED
    BY <2>2, <2>3
<1> QED
  BY <1>1, <1>2, IdleFits, SlotStep

LEMMA CrashInv ==
    ASSUME IndInv, NEW w \in Slots, Crash(w)
    PROVE  IndInv'
BY GiveUpInv DEF Crash

LEMMA StatementFailsInv ==
    ASSUME IndInv, NEW w \in Slots, StatementFails(w)
    PROVE  IndInv'
<1>0. /\ slot[w].pc \in {"prepare", "list", "write", "claim"}
      /\ slot[w] \in Slot /\ SlotInv(slot[w])
      /\ faults < MaxFaults /\ faults' = faults + 1
      /\ UNCHANGED <<status, rec, gen, suppressed, accepted, excuse, overrun>>
  BY DEF StatementFails, IndInv, TypeOK
<1>1. /\ rec \in [Addresses -> {"none", "pending", "sent", "failed", "skipped"}]
      /\ suppressed \subseteq Addresses /\ faults' \in 0..MaxFaults
      /\ accepted \in [Addresses -> Nat] /\ excuse \in [Addresses -> Nat]
  BY <1>0, BoundsAssumption DEF IndInv, TypeOK
<1>2. CASE slot[w].pc = "prepare" /\ slot[w].op = "send"
  <2>1. PICK s \in Slot : s = [slot[w] EXCEPT !.pc = "write", !.write = slot[w].prev]
    BY <1>0 DEF Slot
  <2>2. /\ s.op = "send" /\ s.pc = "write" /\ s.write \in {"draft", "scheduled"}
        /\ Put(w, s)
    BY <1>0, <1>2, <2>1 DEF Slot, SlotInv, StatementFails, At, Restored
  <2>3. SlotInv(s) /\ ~Replacing(s)
    BY <2>2 DEF SlotInv, Replacing
  <2>4. ASSUME ~overrun, MailInv, \A x \in Slots : slot'[x] = IF x = w THEN s ELSE slot[x]
        PROVE  MailInv'
    <3>1. /\ Holding(slot[w]) /\ Unsent(slot[w]) /\ ~Carrying(slot[w])
          /\ slot'[w].pc = "write" /\ ~Through(slot[w])'
      BY <1>2, <2>2, <2>4 DEF Holding, Unsent, Carrying, Through
    <3>2. \A x \in Slots \ {w} : Like(slot[x]', slot[x])
      BY <2>4 DEF Like
    <3>3. \A a \in Addresses : rec'[a] \in {"pending", "failed"} => Settled(a)'
      BY <1>0, <2>4, <3>1, HolderAlone DEF Settled
    <3>4. \A a \in Addresses : accepted'[a] <= 1 + excuse'[a]
      BY <1>0, <2>4 DEF MailInv
    <3> QED
      BY <1>0, <2>4, <3>1, <3>2, <3>3, <3>4, HolderStep
  <2> QED
    BY <1>0, <1>1, <2>2, <2>3, <2>4, SlotStep
<1>3. CASE slot[w].pc = "list"
  <2>0. slot[w].op \in {"send", "retry"} /\ Holding(slot[w])
    BY <1>0, <1>3 DEF SlotInv, Holding
  <2>1. PICK s \in Slot :
          /\ Put(w, s) /\ SlotInv(s) /\ ~Replacing(s)
          /\ slot[w].op = "send" => ~Holding(s)
          /\ slot[w].op = "retry" => s.op = "retry" /\ s.pc = "write" /\ s.write = "sent"
    BY <1>0, <1>3, <2>0, BrokenFits DEF StatementFails, At
  <2>2. ASSUME ~overrun, MailInv, \A x \in Slots : slot'[x] = IF x = w THEN s ELSE slot[x]
        PROVE  MailInv'
    <3>1. /\ ~Unsent(slot[w])' /\ slot'[w] = s /\ ~Carrying(slot[w])
          /\ slot'[w].pc \notin {"check", "send", "log", "record"}
          /\ Through(slot[w])' => Through(slot[w])
      BY <1>3, <2>0, <2>1, <2>2 DEF Unsent, Carrying, Through, Holding, SlotInv
    <3>2. \A x \in Slots \ {w} : Like(slot[x]', slot[x])
      BY <2>2 DEF Like
    <3>3. \A a \in Addresses : rec'[a] \in {"pending", "failed"} => Settled(a)'
      BY <1>0, <2>0, <2>2, <3>1, HolderAlone DEF Settled
    <3>4. /\ \A a \in Addresses : accepted'[a] <= 1 + excuse'[a]
          /\ Through(slot[w])' => \A a \in Addresses : rec'[a] # "pending"
      BY <1>0, <2>2, <3>1 DEF MailInv, ThroughInv
    <3> QED
      BY <1>0, <2>0, <2>2, <3>1, <3>2, <3>3, <3>4, HolderStep
  <2> QED
    BY <1>0, <1>1, <2>1, <2>2, SlotStep
<1>4. CASE ~(slot[w].pc = "prepare" /\ slot[w].op = "send") /\ slot[w].pc # "list"
  <2>1. Put(w, IdleSlot)
    BY <1>4 DEF StatementFails, At
  <2> QED
    BY <1>0, <2>1, GiveUpInv
<1> QED
  BY <1>2, <1>3, <1>4

\* A bounce makes a mailed recipient a failed one, and is the reason for one
\* more mail.
LEMMA BounceInv ==
    ASSUME IndInv, NEW a \in Movable, Bounce(a)
    PROVE  IndInv'
<1>0. /\ a \in Addresses
      /\ rec' = [rec EXCEPT ![a] = "failed"] /\ excuse' = More(excuse, a)
      /\ slot' = [w \in Slots |-> Touched(w, a)]
      /\ UNCHANGED <<status, gen, suppressed, accepted, overrun, faults>>
  BY NamesAssumption DEF Bounce
<1>1. \A x \in Slots : /\ slot'[x] \in Slot /\ Like(slot'[x], slot[x])
                       /\ slot'[x].prev = slot[x].prev
  BY <1>0, TouchedLike DEF IndInv, TypeOK
<1>2. slot' \in [Slots -> Slot] /\ \A x \in Slots : SlotInv(slot[x])'
  <2>1. slot' \in [Slots -> Slot]
    BY <1>0, <1>1
  <2>2. ASSUME NEW x \in Slots PROVE SlotInv(slot[x])'
    <3>1. SlotInv(slot[x])
      BY DEF IndInv
    <3> QED
      BY <1>1, <3>1 DEF Like, SlotInv
  <2> QED
    BY <2>1, <2>2
<1>3. GenInv'
  <2>1. \A x \in Slots : Replacing(slot[x])' => Replacing(slot[x])
    BY <1>1 DEF Replacing, Like
  <2> QED
    BY <1>0, <2>1, GenKept DEF IndInv
<1>4. /\ accepted \in [Addresses -> Nat] /\ excuse \in [Addresses -> Nat]
      /\ excuse' \in [Addresses -> Nat]
      /\ ~overrun => \A b \in Addresses :
            excuse'[b] = IF b = a THEN excuse[a] + 1 ELSE excuse[b]
  BY <1>0, MoreCounts DEF IndInv, TypeOK
<1>5. TypeOK'
  <2>1. overrun' \in BOOLEAN
    BY <1>0 DEF IndInv, TypeOK
  <2>2. rec' \in [Addresses -> {"none", "pending", "sent", "failed", "skipped"}]
    BY <1>0 DEF IndInv, TypeOK
  <2> QED
    BY <1>0, <1>2, <1>4, <2>1, <2>2 DEF IndInv, TypeOK
<1>6. ASSUME ~overrun' PROVE MailInv'
  <2>1. MailInv /\ ~overrun
    BY <1>0, <1>6 DEF IndInv
  <2>2. \A b \in Addresses : (Settled(b) => Settled(b)') /\ accepted[b] <= 1 + excuse[b]
    BY <1>0, <1>4, <2>1 DEF Settled, MailInv
  <2>3. Settled(a)' /\ \A b \in Addresses : accepted'[b] <= 1 + excuse'[b]
    BY <1>0, <1>4, <2>1, <2>2 DEF Settled
  <2>4. \A b \in Addresses : rec'[b] = IF b = a THEN "failed" ELSE rec[b]
    BY <1>0 DEF IndInv, TypeOK
  <2>5. \A x \in Slots : /\ Holding(slot[x])' <=> Holding(slot[x])
                         /\ Unsent(slot[x])' <=> Unsent(slot[x])
                         /\ Through(slot[x])' <=> Through(slot[x])
                         /\ Carrying(slot[x])' <=> Carrying(slot[x])
                         /\ slot'[x].cur = slot[x].cur /\ slot'[x].pc = slot[x].pc
                         /\ slot'[x].batch = slot[x].batch /\ slot'[x].gen = slot[x].gen
                         /\ slot[x].batch \subseteq Addresses
    BY <1>1 DEF Like, Holding, Unsent, Through, Carrying, Slot
  <2>6. HoldInv'
    BY <1>0, <2>1, <2>5 DEF MailInv, HoldInv
  <2>7. UnsentInv'
    BY <1>0, <2>1, <2>5 DEF MailInv, UnsentInv
  <2>8. ThroughInv'
    BY <1>0, <2>1, <2>4, <2>5 DEF MailInv, ThroughInv
  <2>9. BatchInv'
    <3> SUFFICES ASSUME NEW x \in Slots, slot[x].pc \in {"check", "send", "log", "record"}
                 PROVE  /\ slot'[x].gen = gen'
                        /\ \A b \in slot'[x].batch : Settled(b)'
                        /\ slot'[x].pc # "check" /\ ~Carrying(slot[x])' => Settled(slot[x].cur)'
      BY <2>5 DEF BatchInv
    <3>1. /\ slot[x].gen = gen /\ \A b \in slot[x].batch : Settled(b)
          /\ slot[x].pc # "check" /\ ~Carrying(slot[x]) => Settled(slot[x].cur)
          /\ slot[x].pc # "check" => slot[x].cur \in Addresses
      BY <2>1 DEF MailInv, BatchInv, IndInv, SlotInv
    <3>2. slot[x].pc # "check" /\ ~Carrying(slot[x]) =>
             accepted'[slot[x].cur] <= excuse'[slot[x].cur]
      BY <2>2, <3>1 DEF Settled
    <3> QED
      BY <1>0, <2>2, <2>5, <3>1, <3>2 DEF Settled
  <2>10. RecipientInv'
    BY <1>0, <2>1, <2>2, <2>3, <2>4, <2>5 DEF MailInv, RecipientInv
  <2> QED
    BY <2>3, <2>6, <2>7, <2>8, <2>9, <2>10 DEF MailInv
<1> QED
  BY <1>2, <1>3, <1>5, <1>6 DEF IndInv

LEMMA QuietInv ==
    ASSUME IndInv, suppressed' \subseteq Addresses,
           UNCHANGED <<status, rec, gen, slot, accepted, excuse, overrun, faults>>
    PROVE  IndInv'
<1>1. TypeOK'
  <2>1. overrun' \in BOOLEAN
    BY DEF IndInv, TypeOK
  <2> QED
    BY <2>1 DEF IndInv, TypeOK
<1>2. GenInv' /\ \A w \in Slots : SlotInv(slot[w])'
  BY DEF IndInv, GenInv, Snapshotting, SlotInv
<1>3. ~overrun' => MailInv'
  BY DEF IndInv, MailInv, HoldInv, UnsentInv, ThroughInv, BatchInv, RecipientInv, Settled,
         Holding, Unsent, Through, Carrying
<1> QED
  BY <1>1, <1>2, <1>3 DEF IndInv

-----------------------------------------------------------------------------
(* The steps together.                                                     *)

LEMMA NextInv == IndInv /\ [Next]_vars => IndInv'
<1> SUFFICES ASSUME IndInv, [Next]_vars PROVE IndInv'
  OBVIOUS
<1>1. ASSUME NEW w \in Slots, Work(w)
      PROVE  IndInv'
  BY <1>1, ClaimInv, PrepareInv, WriteStatusInv, ListInv, CheckInv, SendInv, SendAnswerLostInv,
     LogInv, RecordInv
  DEF Work
<1>2. ASSUME NEW w \in Slots, StatementFails(w) \/ Crash(w)
      PROVE  IndInv'
  BY <1>2, StatementFailsInv, CrashInv
<1>3. ASSUME NEW w \in Slots,
             NEW op \in {"send", "retry", "schedule", "edit", "cancel"}, Load(w, op)
      PROVE  IndInv'
  BY <1>3, LoadInv
<1>4. ASSUME NEW a \in Movable, Bounce(a)
      PROVE  IndInv'
  BY <1>4, BounceInv
<1>5. ASSUME NEW a \in Movable, NEW on \in BOOLEAN, SetSuppression(a, on)
      PROVE  IndInv'
  <2>1. suppressed' \subseteq Addresses
    BY <1>5, NamesAssumption DEF SetSuppression, IndInv, TypeOK
  <2> QED
    BY <1>5, <2>1, QuietInv DEF SetSuppression
<1>6. CASE UNCHANGED vars
  <2>1. suppressed' \subseteq Addresses
    BY <1>6 DEF vars, IndInv, TypeOK
  <2> QED
    BY <1>6, <2>1, QuietInv DEF vars
<1> QED
  BY <1>1, <1>2, <1>3, <1>4, <1>5, <1>6 DEF Next

\* The invariant holds in every reachable state, for every set of addresses,
\* every number of concurrent runs, every batch size and every bound.
THEOREM Correct == Spec => []IndInv
BY InitInv, NextInv, PTL DEF Spec

\* The rows of the campaign and the slots keep their types, and a request that
\* may replace the recipients never takes more snapshots than the bound.
THEOREM TypeCorrect == Spec => []TypeOK
<1>1. IndInv => TypeOK
  BY DEF IndInv
<1> QED
  BY <1>1, Correct, PTL

\* ClaimEmailCampaignForSending, ClaimEmailCampaignForRetry and the recipient
\* statuses together make the provider accept one mail per address, and one
\* more only for each bounce, each answer that was lost and each acceptance that
\* could not be recorded, as long as no edit or schedule that had read a draft is
\* written over a campaign claimed, sent or cancelled since.
THEOREM MailedOnce == Spec => []CampaignMailedOnce
<1>1. IndInv => CampaignMailedOnce
  BY DEF IndInv, MailInv, CampaignMailedOnce
<1> QED
  BY <1>1, Correct, PTL

\* deliverCampaign and deliverCampaignRetry: a campaign becomes sent only when
\* no recipient is pending, however its lists are cut into batches.
THEOREM DoneWhenSent == Spec => []SentMeansDone
<1>1. IndInv => SentMeansDone
  BY DEF IndInv, MailInv, ThroughInv, SentMeansDone
<1> QED
  BY <1>1, Correct, PTL
=============================================================================
