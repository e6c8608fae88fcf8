----------------------------- MODULE ResponseHub -----------------------------
(***************************************************************************)
(* src/src/frontend/soundbox/response_hub.cpp: the responses that nobody    *)
(* has taken yet, oldest first.  Every operation holds mu_ from beginning   *)
(* to end, so each is one step; Wait holds it except while it sleeps, so a  *)
(* look of a waiting call is a step too.  The notifications only decide     *)
(* when a waiting call looks again, which it may do at any time here.       *)
(***************************************************************************)
EXTENDS Naturals, Sequences, SequencesExt

CONSTANT MaxRetained  (* kMaxRetainedResponses *)

ASSUME MaxRetainedAssumption == MaxRetained \in Nat \ {0}

VARIABLES
  closed,    (* closed_ *)
  responses  (* responses_: [id, ok] *)

hubVars == <<closed, responses>>

HubReset == closed' = FALSE /\ responses' = <<>>

HubClose == closed' = TRUE /\ responses' = <<>>

(* Mutant: responses that nobody takes are kept for ever. *)
HubNotifyUnlimited(r) ==
  /\ responses' = IF closed THEN responses ELSE Append(responses, r)
  /\ UNCHANGED closed

(* A response to a closed hub is dropped; of too many, the oldest goes.    *)
HubNotify(r) ==
  /\ LET kept == Append(responses, r)
         extra == IF Len(kept) > MaxRetained THEN Len(kept) - MaxRetained ELSE 0
     IN  responses' = IF closed THEN responses
                      ELSE SubSeq(kept, extra + 1, Len(kept))
  /\ UNCHANGED closed

Positions(id) == { i \in DOMAIN responses : responses[i].id = id }

(* A waiting call finds its response and removes it.                      *)
HubTake(id, ok) ==
  /\ ~closed /\ Positions(id) # {}
  /\ LET i == CHOOSE i \in Positions(id) : \A j \in Positions(id) : i <= j
     IN  /\ responses[i].ok = ok
         /\ responses' = RemoveAt(responses, i)
  /\ UNCHANGED closed

(* Mutant: a wait without a deadline. *)
HubGivesUpIfClosed(id) == closed /\ UNCHANGED hubVars

(* A waiting call sees the close, or nothing for it until its deadline.    *)
HubGivesUp(id) ==
  /\ closed \/ Positions(id) = {}
  /\ UNCHANGED hubVars

=============================================================================
