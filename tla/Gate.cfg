SPECIFICATION FairSpec
CONSTANT Thread = {a, b, mic}
CONSTANT Feeder = {mic}
CONSTANT Timeout = 2
CONSTANT MinInterval = 2
CONSTANT MaxAge = 1
CONSTANT Keywords <- MCKeywords
CONSTANT Texts <- MCTexts
INVARIANT EveryChangeIsTold
PROPERTY ImplementsSilenceTimer
PROPERTY CloseReturns
