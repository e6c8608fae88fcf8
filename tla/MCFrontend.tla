----------------------------- MODULE MCFrontend -----------------------------
(***************************************************************************)
(* Budgets for Frontend: which environment events may happen, once each,    *)
(* in one behaviour.  Every set is a combination of hazards that interact.  *)
(***************************************************************************)
EXTENDS Frontend

Once(K) == [k \in EnvKind |-> IF k \in K THEN 1 ELSE 0]

Budgets ==
  { Once({"hit", "native", "xzEnd", "callFail", "llmDrop"}),
    Once({"hit", "native", "text"}),
    Once({"hit", "aecDrop", "xzEnd"}),
    Once({"hit", "ackThrows", "wsDrop"}),
    Once({"hit", "wsDrop", "stall"}),
    Once({"hit", "native", "stall"}),
    Once({"hit", "stall", "stop"}),
    Once({"wsDrop", "kwsDrop"}),
    Once({"wsDrop", "startFail"}),
    Once({"wsDrop", "stop"}) }

WsLossOnly == { Once({"wsDrop"}) }
StopOnly == { Once({"stop"}) }
=============================================================================
