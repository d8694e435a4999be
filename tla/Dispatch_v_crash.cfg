SPECIFICATION Spec
CONSTANTS
    j1 = j1
    j2 = j2
    n1 = n1
    n2 = n2
    m1 = m1
    m2 = m2
    None = None
    Job = {j1}
    Node = {n1, n2}
    Mailbox = {m1}
    MailboxOf <- OneMailbox
    Environments = {{"crash"}}
    BatchSize = 2
    Page = 1
    MaxDrainBatches = 1
    MaxFrames = 2
INVARIANT NoDispatchLost
