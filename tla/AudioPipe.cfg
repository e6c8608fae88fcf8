CONSTANT MaxPackets = 2
CONSTANT MaxBytes = 4
CONSTANT Sizes = {1, 2, 3, 5}
CONSTANT MaxReceived = 4
SPECIFICATION FairSpec
INVARIANT TypeOK
INVARIANT Accounted
INVARIANT WithinLimits
INVARIANT OldestLeavesFirst
PROPERTY PopperWakes
