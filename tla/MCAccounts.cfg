SPECIFICATION Spec
CONSTANTS
    u1 = u1
    u2 = u2
    e1 = e1
    e2 = e2
    t1 = t1
    t2 = t2
    t3 = t3
    w1 = w1
    w2 = w2
    None = None
    Users <- TwoUsers
    Emails <- TwoEmails
    Tokens <- TwoTokens
    Slots <- TwoSlots
    Admins <- OneAdmin
    MaxChanges = 2
SYMMETRY Symmetry
INVARIANTS TypeOK VerifiedByMail AdminRemains
PROPERTIES OldLinksDead DeletedStaysDeleted
CHECK_DEADLOCK FALSE
