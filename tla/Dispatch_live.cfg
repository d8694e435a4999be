SPECIFICATION FairSpec
CONSTANTS
    j1 = j1
    j2 = j2
    n1 = n1
    n2 = n2
    m1 = m1
    m2 = m2
    None = None
    Job = {j1, j2}
    Node = {n1}
    Mailbox = {m1, m2}
    MailboxOf <- OwnMailbox
    Environments = {{}}
    BatchSize = 1
    Page = 2
    MaxDrainBatches = 1
    MaxFrames = 1
PROPERTY QueuedIsClaimed
