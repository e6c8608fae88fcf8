---------------------------- MODULE SilenceTimer ----------------------------
(***************************************************************************)
(* What the gate of the wake word promises, without its thread, its lock    *)
(* and its condition variable: a conversation that is left alone for the    *)
(* whole of its timeout ends by itself, and never before.  The time the AI  *)
(* speaks does not count.                                                  *)
(***************************************************************************)
EXTENDS Naturals

CONSTANT Timeout   (* ticks of silence that end a conversation *)

VARIABLES
  active,    (* a conversation goes on                                 *)
  speaking,  (* the AI speaks                                          *)
  quiet,     (* ticks since the last sign of life, Timeout at most     *)
  why,       (* what ended the last conversation: none, asked, timeout *)
  over       (* nobody waits for the silence any more                  *)

timerVars == <<active, speaking, quiet, why, over>>

Wake ==
  /\ ~active /\ active' = TRUE /\ quiet' = 0 /\ why' = "none"
  /\ UNCHANGED <<speaking, over>>

(* A sign of life. *)
Sign == active /\ quiet' = 0 /\ UNCHANGED <<active, speaking, why, over>>

Speak ==
  /\ speaking' = ~speaking
  /\ quiet' = IF active /\ speaking THEN 0 ELSE quiet
  /\ UNCHANGED <<active, why, over>>

Dismiss ==
  /\ active /\ active' = FALSE /\ why' = "asked"
  /\ UNCHANGED <<speaking, quiet, over>>

Pass ==
  /\ quiet < Timeout /\ quiet' = quiet + 1
  /\ UNCHANGED <<active, speaking, why, over>>

Expire ==
  /\ active /\ ~speaking /\ ~over /\ quiet = Timeout
  /\ active' = FALSE /\ why' = "timeout"
  /\ UNCHANGED <<speaking, quiet, over>>

Finish == ~over /\ over' = TRUE /\ UNCHANGED <<active, speaking, quiet, why>>

TimerInit ==
  /\ active = FALSE /\ speaking = FALSE /\ quiet = 0 /\ why = "none"
  /\ over = FALSE

TimerNext == Wake \/ Sign \/ Speak \/ Dismiss \/ Pass \/ Expire \/ Finish

(* A conversation that may expire for ever does. *)
TimerSpec == TimerInit /\ [][TimerNext]_timerVars /\ WF_timerVars(Expire)
=============================================================================
