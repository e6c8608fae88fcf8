CONSTANT Workers <- PipelineWorkers
CONSTANT Budgets <- AllBudgets
SPECIFICATION FairSpec
INVARIANT TypeOK
INVARIANT NoSilentEnd
PROPERTY StopEnds
PROPERTY LinkIsServed
CHECK_DEADLOCK FALSE
