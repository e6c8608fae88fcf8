CONSTANT Workers <- PipelineWorkers
CONSTANT Budgets <- LossBudgets
SPECIFICATION Spec
PROPERTY KwsOutlivesClient
CHECK_DEADLOCK FALSE
