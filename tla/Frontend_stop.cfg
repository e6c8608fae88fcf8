CONSTANT EnvBudgets <- StopOnly
SPECIFICATION FairSpec
PROPERTY StopEndsRun
CHECK_DEADLOCK FALSE
