---------------------------- MODULE MCAudioPath -----------------------------
(* Two sessions, with one answer that comes too late, one refused command    *)
(* and one broken frame at any time.                                       *)
EXTENDS AudioPath

PathBudget == [sessions |-> 2, late |-> 1, refused |-> 1, broken |-> 1]
=============================================================================
