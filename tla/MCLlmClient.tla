---------------------------- MODULE MCLlmClient ----------------------------
(***************************************************************************)
(* Budgets for LlmClient: what may happen, and how often.                   *)
(***************************************************************************)
EXTENDS LlmClient

Can(f) == [k \in EnvKind |-> IF k \in DOMAIN f THEN f[k] ELSE 0]

LinkBudgets == { Can([failures |-> 1]),
                 Can([sends |-> 2, stalls |-> 1, closes |-> 1]),
                 Can([messages |-> 2, closes |-> 1, others |-> 1]),
                 Can([sends |-> 1, closes |-> 2, others |-> 1]) }
=============================================================================
