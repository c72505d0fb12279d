SPECIFICATION FairSpec
CONSTANTS
    full = full
    partial = partial
    logs = logs
    filter = filter
    None = None
    NoTask = NoTask
    Tasks <- MixedTasks
    Mode <- MixedMode
    StartBlock <- MixedStart
    EndBlock <- MixedEnd
    LogCount <- MixedLogCount
    LatestBlock = 1
    BlockSize <- Chain
    NPartitions = 1
    MaxPerPartition = 1
    MessagesPerBatch = 2
    BatchCapacity = 2
    Faults <- NoFaults
    MaxRestarts = 0
PROPERTIES
    StallEnds
