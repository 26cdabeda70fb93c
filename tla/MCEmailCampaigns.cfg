SPECIFICATION FairSpec
CONSTANTS
    a1 = a1
    a2 = a2
    w1 = w1
    w2 = w2
    None = None
    Addresses <- TwoAddresses
    Movable = {a2}
    Slots <- TwoSlots
    BatchSize = 1
    MaxGen = 2
    MaxExcuses = 1
    MaxFaults = 1
INVARIANTS TypeOK CampaignMailedOnce SentMeansDone
PROPERTY RunsEnd
CHECK_DEADLOCK FALSE
