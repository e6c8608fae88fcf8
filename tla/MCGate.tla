------------------------------- MODULE MCGate -------------------------------
(* Two threads that call the gate in any order, and one that brings audio.   *)
EXTENDS LocalListener

MCKeywords == { <<"A", " ", "b">>, <<" ">> }
MCTexts == { <<"b", "a", " ", "B">>, <<"b", "a">> }
=============================================================================
