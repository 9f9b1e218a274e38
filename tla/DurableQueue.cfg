SPECIFICATION FairSpec
CONSTANTS
    c1 = c1
    c2 = c2
    Consumer = {c1, c2}
    worker_id <- MCSharedWorker
    ClaimId <- MCClaimId
    LeaseTerm = 1
    MaxMessages = 2
    MaxWait = 1
    None = None
INVARIANTS LiveLeaseIsExclusive PositionOnlyWithAck
PROPERTIES OldestRedelivered OnlyNewestClaimAcks ImplementsMessageQueue
