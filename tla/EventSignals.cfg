SPECIFICATION FairSpec
CONSTANTS
    MinAwaits = 3
    MaxAwaits = 12
    AwaitRounds = 2
    TimedWaitRounds = 3
    WaitRounds = 1
INVARIANTS
    TypeOK
    HeldWhileHandling
PROPERTIES
    SignalsAreSeen
    IdleConsumerExpires
