CONSTANT EnvBudgets <- Budgets
SPECIFICATION FairSpec
INVARIANT TypeOK
INVARIANT ModeMatchesSession
INVARIANT KwsLossNoticed
INVARIANT StartedHasUpstream
INVARIANT RouterKeepsItsSocket
PROPERTY ImplementsLifecycle
PROPERTY LossIsHandled
PROPERTY InterruptEndsSession
PROPERTY StopReturns
CHECK_DEADLOCK FALSE
