SPECIFICATION FairSpec
CONSTANTS
    m1 = m1
    w1 = w1
    w2 = w2
    Workers <- TwoWorkers
    Messages <- OneMessage
    NoMessage = NoMessage
    Transactions <- AllTransactions
    NoAddress = ""
    Contracts <- ConfigContracts
    Category <- ConfigCategory
    Events <- ConfigEvents
    RetryLimits = {0, 2}
    MaxDeliveries = 2
    Failures = TRUE
INVARIANTS
    TypeOK
    AmountsAreOnChain
    OnlyRelevantStored
    StoredOnReturn
PROPERTIES
    RedeliveryIsHarmless
    ImplementsStore
    EveryDeliveryEnds
