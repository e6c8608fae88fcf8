---------------------------- MODULE CommandGuard ----------------------------
(***************************************************************************)
(* The decisions of src/src/frontend/soundbox/command_guard.cpp: whether a  *)
(* command is sent to the device, skipped as a success, or rejected.  The   *)
(* Ignore of the code is a success for its callers, as Done is.  The mode   *)
(* that llm_start and llm_stop enter before they are sent is Entered.        *)
(***************************************************************************)

Modes == {"Stopped", "Kws", "LlmStarting", "LlmWorking", "LlmStopping", "Fault"}
AudioCommands == {"start_play", "fast_recording", "stop_recording", "stop_play"}
ModeCommands == {"llm_start", "llm_stop"}
FreeCommands == {"run_shell", "xiaoai_exit"}
Commands == AudioCommands \cup ModeCommands \cup FreeCommands

(* Whether the guard has noted that the command is already done.           *)
Noted(cmd, play, recording) ==
  CASE cmd = "start_play" -> play
    [] cmd = "stop_play" -> ~play
    [] cmd = "fast_recording" -> recording
    [] cmd = "stop_recording" -> ~recording

AudioDecision(cmd, mode, play, recording, recovery) ==
  IF recovery THEN "send"
  ELSE IF mode = "Fault" THEN "reject"
  ELSE IF \/ mode = "Stopped" /\ cmd \in {"stop_recording", "stop_play"}
          \/ Noted(cmd, play, recording) THEN "done"
  ELSE "send"

(* The mode in which the command is sent, and the one entered before that. *)
From(cmd) == IF cmd = "llm_start" THEN "Kws" ELSE "LlmWorking"
Entered(cmd) == IF cmd = "llm_start" THEN "LlmStarting" ELSE "LlmStopping"

LlmDecision(cmd, mode) ==
  CASE mode = From(cmd) -> "send"
    [] mode = "Fault" -> "reject"
    [] mode = "Stopped" /\ cmd = "llm_start" -> "reject"
    [] OTHER -> "done"

Decision(cmd, mode, play, recording, recovery) ==
  CASE cmd \in AudioCommands ->
         AudioDecision(cmd, mode, play, recording, recovery)
    [] cmd \in ModeCommands -> LlmDecision(cmd, mode)
    [] OTHER -> "send"

=============================================================================
