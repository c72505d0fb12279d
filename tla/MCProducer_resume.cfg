SPECIFICATION Spec
CONSTANTS
    full = full
    partial = partial
    logs = logs
    filter = filter
    None = None
    NoTask = NoTask
    Tasks <- SingleTasks
    Mode <- SingleMode
    StartBlock <- SingleNoStart
    EndBlock <- SingleEnd
    LogCount <- SingleLogCount
    LatestBlock = 1
    BlockSize <- LateChain
    NPartitions = 1
    MaxPerPartition = 1
    MessagesPerBatch = 2
    BatchCapacity = 2
    Faults <- CrashOnly
    MaxRestarts = 1
INVARIANTS
    RestartResumes
