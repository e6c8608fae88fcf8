CONSTANT Ws = {"w1", "w2", "w3"}
CONSTANT MaxRetained = 2
CONSTANT Budgets <- CallBudgets
SPECIFICATION FairSpec
INVARIANT TypeOK
INVARIANT UsableOrReported
INVARIANT ModeMatchesDevice
PROPERTY KeepsPromise
PROPERTY CallsReturnUnlessStuck
CHECK_DEADLOCK FALSE
