CONSTANT MaxFd = 3
CONSTANT Budgets <- LinkBudgets
SPECIFICATION FairSpec
INVARIANT TypeOK
INVARIANT OwnsItsDescriptors
INVARIANT GoneIsQuiet
PROPERTY LossTakesBoth
PROPERTY StopEnds
CHECK_DEADLOCK FALSE
