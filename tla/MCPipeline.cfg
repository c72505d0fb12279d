SPECIFICATION FairPipelineSpec
CONSTANTS
    partial = partial
    c1 = c1
    c2 = c2
    w1 = w1
    w2 = w2
    None = None
    NoTask = NoTask
    Nobody = Nobody
    Tasks <- OneTask
    Mode <- OneTaskMode
    StartBlock <- OneTaskStart
    EndBlock <- OneTaskEnd
    LogCount <- OneTaskLogCount
    LatestBlock = 2
    BlockSize <- Chain
    NPartitions = 2
    MaxPerPartition = 1
    MessagesPerBatch = 2
    BatchCapacity = 2
    Faults <- NoFaults
    MaxRestarts = 0
    Consumers <- PairConsumers
    Processes <- PairProcesses
    ProcessOf <- PairProcessOf
    MaxOffset = 6
INVARIANTS
    WaitingBounded
PROPERTIES
    ImplementsProducer
    ImplementsConsumer
    AllProcessed
    SucceedsOrSpins
