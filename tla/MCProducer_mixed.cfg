SPECIFICATION Spec
CONSTANTS
    full = full
    partial = partial
    logs = logs
    filter = filter
    None = None
    NoTask = NoTask
    Tasks <- MixedTasks
    Mode <- MixedMode
    StartBlock <- MixedStart
    EndBlock <- MixedEnd
    LogCount <- MixedLogCount
    LatestBlock = 1
    BlockSize <- FullChain
    NPartitions = 2
    MaxPerPartition = 1
    MessagesPerBatch = 2
    BatchCapacity = 2
    Faults <- ErrorsOnly
    MaxRestarts = 0
INVARIANTS
    CounterMatchesTopic
    OvershootBounded
    FirstRoundInOrder
    SuccessCoversRange
PROPERTIES
    ImplementsFeed
