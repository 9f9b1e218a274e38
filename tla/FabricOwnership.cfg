SPECIFICATION FairSpec
CONSTANTS
    Key = key
    Resource = {key}
    MaxEpoch = 2
    east = east
    west = west
    w1 = w1
    w2 = w2
    d1 = d1
    d2 = d2
    Sites <- AllSites
    Workers <- AllWorkers
    SiteOf <- SiteOfWorker
    Dispatches <- AllDispatches
    WorkersOf <- WorkersOfDispatch
    Contexts = {"x"}
    Failovers = {f1}
    Ttl = 2
    MaxFaults = 2
    MaxAdmin = 1
INVARIANTS
    OneHolderPerGeneration
    GrantIsDurable
    EndedStaysEnded
    StaleOwnerStops
PROPERTIES UnreadySiteLosesOwnership
CHECK_DEADLOCK FALSE
