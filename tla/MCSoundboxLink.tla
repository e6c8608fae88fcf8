--------------------------- MODULE MCSoundboxLink ---------------------------
(***************************************************************************)
(* Budgets for SoundboxLink: what may happen, and how often.                *)
(***************************************************************************)
EXTENDS SoundboxLink

Can(f) == [k \in EnvKind |-> IF k \in DOMAIN f THEN f[k] ELSE 0]

CallBudgets == { Can([ops |-> 3, late |-> 2, refusals |-> 1, failures |-> 1]),
                 Can([ops |-> 2, drops |-> 1, failures |-> 1]),
                 Can([ops |-> 2, drops |-> 1, silences |-> 1]),
                 Can([stops |-> 1]) }
=============================================================================
