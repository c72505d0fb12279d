SPECIFICATION FairSpec
CONSTANTS
    c1 = c1
    c2 = c2
    w1 = w1
    Nobody = Nobody
    Consumers <- TeamConsumers
    Processes <- TeamProcesses
    ProcessOf <- TeamProcessOf
    NPartitions = 2
    MaxOffset = 1
    Faults <- AllFaults
    MaxFaults = 1
    MaxRestarts = 1
INVARIANTS
    TypeOK
    CommittedHaveFates
    OnlyLateMessagesSuffer
    FailureReported
    CounterTracksConsumption
PROPERTIES
    ImplementsDelivery
    MessagesGetFates
    ConsumersExit
