SPECIFICATION Spec
CONSTANTS
    r1 = r1
    r2 = r2
    m1 = m1
    m2 = m2
    d1 = d1
    d2 = d2
    Recipient = {r1, r2}
    Mailbox = {m1, m2}
    Doc = {d1, d2}
    Home <- MCHome
    Matches <- MCMatches
    MaxClick = 2
    Environments = {{"net", "db"}, {"expire"}, {"move"}}
    None = None
INVARIANTS TypeOK SealedAsAsked TrackableWhileFresh
CHECK_DEADLOCK FALSE
