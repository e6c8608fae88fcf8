CONSTANT EnvBudgets <- WsLossOnly
SPECIFICATION FairSpec
PROPERTY ReconnectCompletes
CHECK_DEADLOCK FALSE
