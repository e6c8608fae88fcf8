------------------------------ MODULE MCService -----------------------------
(***************************************************************************)
(* Budgets for Service: which environment events may happen, once each.     *)
(***************************************************************************)
EXTENDS Service

PipelineWorkers == <<"aec", "kws", "frontend">>

ASSUME PipelineAssumption == IsPipeline

Times(K) == [k \in EnvKind |-> IF k \in K THEN 1 ELSE 0]

AllBudgets == { Times({"bindFail", "signal"}),
                Times({"wsLoss", "startFail", "signal"}),
                Times({"chunk", "stall", "signal"}),
                Times({"wsLoss", "chunk", "stall"}) }
LossBudgets == { Times({"wsLoss", "chunk"}) }
=============================================================================
