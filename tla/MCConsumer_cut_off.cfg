SPECIFICATION Spec
CONSTANTS
    c1 = c1
    c2 = c2
    w1 = w1
    Nobody = Nobody
    Consumers <- TeamConsumers
    Processes <- TeamProcesses
    ProcessOf <- TeamProcessOf
    NPartitions = 1
    MaxOffset = 1
    Faults <- NoFaults
    MaxFaults = 0
    MaxRestarts = 0
INVARIANTS
    ConsumingIsNeverCutOff
