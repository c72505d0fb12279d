SPECIFICATION Spec
CONSTANTS
    m1 = m1
    w1 = w1
    w2 = w2
    Workers <- OneWorker
    Messages <- OneMessage
    NoMessage = NoMessage
    Transactions <- RouterTransactions
    NoAddress = ""
    Contracts <- ConfigContracts
    Category <- ConfigCategory
    Events <- ConfigEvents
    RetryLimits = {1}
    MaxDeliveries = 1
    Failures = FALSE
INVARIANT
    OnlyConfiguredSupplies
