---------------------------- MODULE ClientPromise ----------------------------
(***************************************************************************)
(* What a SoundBoxClient promises to its Frontend, without threads, sockets, *)
(* requests or retries: the calls, what a call may leave behind, and what   *)
(* can happen between two calls.  A call that cannot bring the device into  *)
(* a conversation brings it back out of one, or gives up and says so.      *)
(***************************************************************************)
VARIABLES
  phase,    (* new, serving, giving_up, lost, ended: how far its life has got *)
  call,     (* none, start, to_llm, to_kws, free, stop: the call it is in   *)
  mode,     (* the mode it shows                                          *)
  records   (* what the device records for: off, kws, llm                 *)

promiseVars == <<phase, call, mode, records>>

Rests == UNCHANGED <<mode, records>>

(* What a call that returns leaves behind. *)
Left(c) == CASE c \in {"start", "to_kws"} -> mode' = "Kws" /\ records' = "kws"
             [] c = "to_llm" -> mode' = "LlmWorking" /\ records' = "llm"
             [] c = "free" -> Rests

Starts == phase = "new" /\ phase' = "serving" /\ call' = "start" /\ Rests

(* llm_start, llm_stop, run_shell, xiaoai_exit. *)
Begins ==
  /\ phase \in {"serving", "lost"} /\ phase' = phase
  /\ call = "none" /\ call' \in {"to_llm", "to_kws", "free"} /\ Rests

(* Within such a call, not outside: the mode and the device change on their  *)
(* way; a llm_start that has failed takes both back.                       *)
Works ==
  /\ phase = "serving" /\ phase' = "serving"
  /\ call \in {"start", "to_llm", "to_kws"}
  /\ call' = call \/ (call = "to_llm" /\ call' = "to_kws")

Returns ==
  /\ phase = "serving" /\ phase' = "serving"
  /\ call # "none" /\ call' = "none" /\ Left(call)

(* Not even the way back has succeeded. *)
GivesUp ==
  /\ phase = "serving" /\ phase' = "giving_up"
  /\ call = "to_kws" /\ call' = call /\ mode' = "Stopped" /\ records' = records

(* A command under way may still be carried out. *)
Lingers == phase = "giving_up" /\ UNCHANGED <<phase, call, mode>>

(* Giving up ends with the report, not before. *)
Reports ==
  /\ phase = "giving_up" /\ phase' = "lost"
  /\ call' = "none" /\ Rests

LosesLink ==
  /\ phase \in {"serving", "giving_up"} /\ phase' = "lost"
  /\ UNCHANGED call /\ Rests

(* After a loss a call may return with anything; between the calls the mode  *)
(* can only fall.                                                         *)
Drifts ==
  /\ phase = "lost" /\ phase' = "lost"
  /\ call' \in {call, "none"} \/ (call = "to_llm" /\ call' = "to_kws")
  /\ call \in {"none", "free"} => mode' \in {mode, "Stopped"}

(* Stop, or a Start that has failed: for good. *)
Ends == phase # "new" /\ phase' = "ended"

PromiseInit == phase = "new" /\ call = "none" /\ mode = "Stopped" /\ records = "off"

PromiseNext ==
  \/ Starts \/ Begins \/ Works \/ Returns \/ GivesUp \/ Lingers \/ Reports
  \/ LosesLink \/ Drifts \/ Ends

PromiseSpec == PromiseInit /\ [][PromiseNext]_promiseVars

=============================================================================
