SPECIFICATION Spec
CONSTANTS
    full = full
    partial = partial
    logs = logs
    filter = filter
    None = None
    NoTask = NoTask
    Tasks <- SingleTasks
    Mode <- SingleMode
    StartBlock <- SingleStart
    EndBlock <- SingleEnd
    LogCount <- SingleLogCount
    LatestBlock = 1
    BlockSize <- LateChain
    NPartitions = 2
    MaxPerPartition = 1
    MessagesPerBatch = 2
    BatchCapacity = 1
    Faults <- FaultKinds
    MaxRestarts = 1
INVARIANTS
    TypeOK
    NothingSkipped
    SuccessCoversRange
    RowBeforeMessages
    RowsGetMessages
    CounterMatchesTopic
    NoDuplicatesWithoutRestart
PROPERTIES
    ImplementsFeed
