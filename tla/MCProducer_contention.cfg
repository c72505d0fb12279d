SPECIFICATION Spec
CONSTANTS
    full = full
    partial = partial
    logs = logs
    filter = filter
    None = None
    NoTask = NoTask
    Tasks <- RivalTasks
    Mode <- RivalMode
    StartBlock <- RivalStart
    EndBlock <- RivalEnd
    LogCount <- RivalLogCount
    LatestBlock = 1
    BlockSize <- RivalChain
    NPartitions = 1
    MaxPerPartition = 1
    MessagesPerBatch = 2
    BatchCapacity = 2
    Faults <- FaultKinds
    MaxRestarts = 1
INVARIANTS
    ContentionSparesOne
    FailuresExplained
