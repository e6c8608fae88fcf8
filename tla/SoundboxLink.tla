---------------------------- MODULE SoundboxLink ----------------------------
(***************************************************************************)
(* src/src/frontend/soundbox/client.cpp: one SoundBoxClient, from its Start  *)
(* to its Stop, with the WebSocket objects it creates and the device.       *)
(*                                                                          *)
(* Two threads call it: "op", the event thread (or Run), which starts it,    *)
(* sends commands one after the other and may stop it, and "st", which       *)
(* executes Frontend::Stop.  The library runs a thread per WebSocket, which  *)
(* calls the message callback and reconnects by itself after a loss; stop()  *)
(* and the destructor of a WebSocket wait for that thread.                   *)
(***************************************************************************)
EXTENDS ResponseHub, CommandGuard, FiniteSets

CONSTANTS
  Ws,       (* names of WebSocket objects, three or more              *)
  Budgets   (* what may happen: one count per EnvKind *)

(* Calls of the event thread, broken connections, stops by another thread,   *)
(* deadlines that pass although the answer is under way, refused commands,   *)
(* failed attempts to connect, a device that answers no more.               *)
EnvKind == {"ops", "drops", "stops", "late", "refusals", "failures", "silences"}

Thread == {"op", "st"}
None == "none"

(* Two threads and ws_ hold at most two WebSockets when a third is created. *)
ASSUME WsAssumption ==
  /\ IsFiniteSet(Ws) /\ None \notin Ws
  /\ \A u, v \in Ws \cup {None} : Ws \ {u, v} # {}
ASSUME BudgetsAssumption == Budgets \subseteq [EnvKind -> Nat]

VARIABLES
  running,    (* running_                                                  *)
  mode,       (* mode_controller_                                          *)
  play, recording,  (* command_guard_: the flags                           *)
  connected, failed,  (* ws_connected_, connect_failed_                    *)
  ws,         (* ws_                                                       *)
  pc,         (* where each thread is within a command                     *)
  todo,       (* what each thread has still to do; <<>> when idle          *)
  allOk,      (* both halves of a restart of the audio link succeeded      *)
  old,        (* the WebSocket whose end a thread waits for                *)
  req,        (* the id of the request a thread has sent                   *)
  lib,        (* the library's thread of each WebSocket                    *)
  tell,       (* should_notify of that thread                              *)
  line,       (* requests on their way to the device: [id, cmd], per WebSocket *)
  back,       (* its responses on their way back: [id, ok], per WebSocket  *)
  device,     (* what the device records for: "off", "kws" or "llm"        *)
  silent,     (* the device carries out and answers nothing any more       *)
  lost,       (* on_connection_closed has been called                      *)
  crashed,    (* a WebSocket was started through a null pointer            *)
  env         (* what may still happen                                     *)

client == <<running, mode, play, recording>>
conn == <<connected, failed, ws>>
thr == <<pc, todo, allOk, old, req>>
wire == <<line, back, device, silent>>
library == <<lib, tell>>
rest == <<lost, crashed, env>>
vars == <<hubVars, client, conn, thr, wire, library, rest>>

-----------------------------------------------------------------------------
(* What a thread has to do: commands, and the steps in between.             *)

StartAudio == <<"start_play", "fast_recording", "audio_ready">>
StopAudio == <<"stop_recording", "stop_play">>
Start == <<"reset_hub", "reset_guard", "reset_mode", "connect">> \o StartAudio
Stop == StopAudio \o <<"shut", "mute", "hang_up", "reset_guard", "stopped">>
Restart == StopAudio \o StartAudio \o <<"restarted">>
Program == { <<"llm_start">>, <<"llm_stop">>, <<"run_shell">>, <<"xiaoai_exit">>,
             Stop }
Steps == Commands \cup {"connect", "audio_ready", "shut", "mute", "hang_up",
  "reset_hub", "reset_guard", "reset_mode", "stopped", "restarted", "fault", "enter_llm", "enter_kws",
  "give_up", "report"}

Idle(t) == todo[t] = <<>>
Now(t) == Head(todo[t])

(* The recovery argument of the calls within Stop and Restart.             *)
Recovery(t) == Last(todo[t]) \in {"restarted", "stopped"}

Go(t, p) == pc' = [pc EXCEPT ![t] = p] /\ UNCHANGED <<todo, allOk>>

(* Once its Stop has returned, the client is not used any more by op.      *)
Then(t, steps) ==
  /\ pc' = [pc EXCEPT ![t] = IF todo[t] = <<"stopped">> THEN "over" ELSE "next"]
  /\ todo' = [todo EXCEPT ![t] = steps]

Done(t) == Then(t, Tail(todo[t])) /\ UNCHANGED allOk

(* Mutant: a llm_start or llm_stop without an answer leaves the mode as it was. *)
FailsBack(t) ==
  LET starting == Now(t) \in {"connect", "start_play", "fast_recording"} IN
  /\ Then(t, CASE starting /\ Recovery(t) -> <<"restarted">>
               [] starting /\ ~Recovery(t) -> IF running THEN Stop ELSE <<>>
               [] Now(t) = "llm_start" -> <<"enter_kws">>
               [] Now(t) = "llm_stop" -> <<"enter_llm">>
               [] OTHER -> Tail(todo[t]))
  /\ allOk' = [allOk EXCEPT ![t] = @ /\ Now(t) \notin AudioCommands]

(* A command that has failed: what its caller does about it.               *)
Fails(t) ==
  LET starting == Now(t) \in {"connect", "start_play", "fast_recording"} IN
  /\ Then(t, CASE starting /\ Recovery(t) -> <<"restarted">>
               [] starting /\ ~Recovery(t) -> IF running THEN Stop ELSE <<>>
               [] Now(t) \in ModeCommands -> <<"fault">> \o Restart
               [] OTHER -> Tail(todo[t]))
  /\ allOk' = [allOk EXCEPT ![t] = @ /\ Now(t) \notin AudioCommands]

(* A llm_start or llm_stop that the guard rejects fails without a restart. *)
Rejected(t) ==
  IF Now(t) \in ModeCommands THEN Done(t) ELSE Fails(t)

-----------------------------------------------------------------------------
(* conn_mu_ is held over several steps only while the destructor of the     *)
(* WebSocket that ws_ is assigned over waits for its thread.               *)
ConnFree == \A t \in Thread : pc[t] # "destroying"

Unused == { w \in Ws : lib[w] = "none" /\ ws # w /\ \A t \in Thread : old[t] # w }

(* stop() has been called, or the destructor.                              *)
ToldToStop(w) == \E t \in Thread : old[t] = w

Used == { m.id : m \in Range(responses) } \cup { req[t] : t \in Thread }
        \cup UNION { { m.id : m \in Range(line[w]) \cup Range(back[w]) } : w \in Ws }

(* NextId: an id that no other request or response carries.                *)
Fresh == CHOOSE n \in 1 .. Cardinality(Used) + 1 : n \notin Used

Spend(k) == env[k] > 0 /\ env' = [env EXCEPT ![k] = @ - 1]

-----------------------------------------------------------------------------
(* The threads that call the client. *)

StartBegins ==
  /\ Idle("op") /\ pc["op"] = "new" /\ running' = TRUE
  /\ Then("op", Start) /\ UNCHANGED allOk
  /\ UNCHANGED <<hubVars, mode, play, recording, conn, old, req, wire, library, rest>>

(* The next call of the event thread. *)
OpBegins ==
  /\ Idle("op") /\ pc["op"] = "next" /\ Spend("ops")
  /\ \E p \in Program : (p = Stop => running) /\ Then("op", p)
  /\ allOk' = [allOk EXCEPT !["op"] = TRUE]
  /\ UNCHANGED <<hubVars, client, conn, old, req, wire, library, lost, crashed>>

StopBegins ==
  /\ Idle("st") /\ running /\ Spend("stops")
  /\ Then("st", Stop) /\ UNCHANGED allOk
  /\ UNCHANGED <<hubVars, client, conn, old, req, wire, library, lost, crashed>>

(* PrepareCommand. *)
Prepare(t) ==
  /\ ~Idle(t) /\ pc[t] = "next" /\ Now(t) \in Commands
  /\ LET d == Decision(Now(t), mode, play, recording, Recovery(t)) IN
       CASE d = "send" -> Go(t, IF Now(t) \in ModeCommands THEN "enter" ELSE "ensure")
         [] d = "done" -> Done(t)
         [] d = "reject" -> Rejected(t)
  /\ UNCHANGED <<hubVars, client, conn, old, req, wire, library, rest>>

(* TryEnter: the mode may have changed since it was looked at, in which case *)
(* the command is skipped as a success.                                     *)
TryEnter(t) ==
  /\ ~Idle(t) /\ pc[t] = "enter"
  /\ IF mode = From(Now(t)) THEN mode' = Entered(Now(t)) /\ Go(t, "ensure")
                            ELSE UNCHANGED mode /\ Done(t)
  /\ UNCHANGED <<hubVars, running, play, recording, conn, old, req, wire, library,
                 rest>>

(* EnsureConnection, of Start itself and of every command.                 *)
Ensure(t) ==
  /\ ~Idle(t) /\ ConnFree
  /\ pc[t] = "ensure" \/ (pc[t] = "next" /\ Now(t) = "connect")
  /\ IF ~running THEN Fails(t)
     ELSE IF ws # None /\ connected
          THEN IF Now(t) = "connect" THEN Done(t) ELSE Go(t, "send")
     ELSE Go(t, "open")
  /\ UNCHANGED <<hubVars, client, conn, old, req, wire, library, rest>>

OpenReset(t) ==
  /\ pc[t] = "open" /\ HubReset /\ Go(t, "replace")
  /\ UNCHANGED <<client, conn, old, req, wire, library, rest>>

(* ws_ = std::move(ws) destroys the WebSocket that ws_ held.               *)
OpenReplace(t) ==
  /\ pc[t] = "replace" /\ ConnFree
  /\ connected' = FALSE /\ failed' = FALSE
  /\ ws' = CHOOSE w \in Unused : TRUE
  /\ old' = [old EXCEPT ![t] = ws]
  /\ Go(t, IF ws = None THEN "start" ELSE "destroying")
  /\ UNCHANGED <<hubVars, client, req, wire, library, rest>>

(* The thread of a WebSocket that is destroyed or stopped has ended.        *)
OldEnded(t) ==
  /\ pc[t] \in {"destroying", "stopping"} /\ lib[old[t]] \in {"none", "ended"}
  /\ lib' = [lib EXCEPT ![old[t]] = "none"] /\ old' = [old EXCEPT ![t] = None]
  /\ IF pc[t] = "destroying" THEN Go(t, "start")
     ELSE IF Now(t) \in {"hang_up", "give_up"} THEN Done(t) ELSE Fails(t)
  /\ UNCHANGED <<hubVars, client, conn, req, wire, tell, rest>>

(* ws_->start() without the lock: another thread may have moved ws_ away.   *)
OpenStart(t) ==
  /\ pc[t] = "start"
  /\ crashed' = (ws = None)
  /\ lib' = IF ws # None /\ lib[ws] = "none" THEN [lib EXCEPT ![ws] = "connecting"]
            ELSE lib
  /\ Go(t, "await")
  /\ UNCHANGED <<hubVars, client, conn, old, req, wire, tell, lost, env>>

(* An attempt to connect is under way. *)
Connecting == ws # None /\ lib[ws] \in {"connecting", "open"}

(* The wait for the connection ends with it, with a failure, with the end of *)
(* the client, or with the timeout.                                        *)
OpenAwait(t) ==
  /\ pc[t] = "await" /\ ConnFree
  /\ IF connected THEN IF Now(t) = "connect" THEN Done(t) ELSE Go(t, "send")
                  ELSE Go(t, "close")
  /\ IF ~connected /\ ~failed /\ running /\ Connecting THEN Spend("late")
                                                     ELSE UNCHANGED env
  /\ UNCHANGED <<hubVars, client, conn, old, req, wire, library, lost, crashed>>

(* CloseConnection: ws_ is moved away under the lock, and stopped outside.  *)
CloseMove(t) ==
  /\ ConnFree
  /\ \/ pc[t] = "close"
     \/ ~Idle(t) /\ pc[t] = "next" /\ Now(t) \in {"hang_up", "give_up"}
  /\ connected' = FALSE /\ failed' = FALSE /\ ws' = None
  /\ old' = [old EXCEPT ![t] = ws]
  /\ IF ws # None THEN Go(t, "stopping")
     ELSE IF pc[t] = "close" THEN Fails(t) ELSE Done(t)
  /\ UNCHANGED <<hubVars, client, req, wire, library, rest>>

(* SendText: the library takes the text if its socket is still open.        *)
Send(t) ==
  /\ pc[t] = "send" /\ ConnFree
  /\ IF ws # None /\ connected /\ lib[ws] = "up"
     THEN /\ line' = [line EXCEPT ![ws] = Append(@, [id |-> Fresh, cmd |-> Now(t)])]
          /\ IF Now(t) = "xiaoai_exit" THEN Done(t) /\ UNCHANGED req
             ELSE Go(t, "wait") /\ req' = [req EXCEPT ![t] = Fresh]
     ELSE Fails(t) /\ UNCHANGED <<line, req>>
  /\ UNCHANGED <<hubVars, client, conn, old, back, device, silent, library, rest>>

(* MarkCommandSucceeded and, for llm_start and llm_stop, the new mode.      *)
Answered(t) ==
  /\ play' = (IF Now(t) \in {"start_play", "stop_play"}
              THEN Now(t) = "start_play" ELSE play)
  /\ recording' = (IF Now(t) \in {"fast_recording", "stop_recording"}
                   THEN Now(t) = "fast_recording" ELSE recording)
  /\ IF Now(t) \in ModeCommands
     THEN /\ Then(t, <<IF Now(t) = "llm_start" THEN "enter_llm" ELSE "enter_kws">>)
          /\ UNCHANGED allOk
     ELSE Done(t)

(* The answer to a request may still come. *)
UnderWay(t) ==
  \E w \in Ws : \/ ~silent /\ \E m \in Range(line[w]) : m.id = req[t]
                \/ \E m \in Range(back[w]) : m.id = req[t]

Wait(t) ==
  /\ pc[t] = "wait" /\ req' = [req EXCEPT ![t] = 0]
  /\ \/ HubTake(req[t], TRUE) /\ Answered(t) /\ UNCHANGED env
     \/ /\ \/ HubTake(req[t], FALSE) /\ UNCHANGED env
           \/ /\ HubGivesUp(req[t])
              /\ IF ~closed /\ UnderWay(t) THEN Spend("late") ELSE UNCHANGED env
        /\ Fails(t) /\ UNCHANGED <<play, recording>>
  /\ UNCHANGED <<running, mode, conn, old, wire, library, lost, crashed>>

-----------------------------------------------------------------------------
(* What the threads do between the commands. *)

(* Mutant: a restart that has failed shows Kws. *)
NextModeHopeful(t) ==
  CASE Now(t) \in {"audio_ready", "enter_kws", "restarted"} -> "Kws"
    [] Now(t) = "enter_llm" -> "LlmWorking"
    [] Now(t) = "fault" -> "Fault"
    [] OTHER -> "Stopped"

NextMode(t) ==
  CASE Now(t) = "audio_ready" -> "Kws"
    [] Now(t) = "enter_kws" -> "Kws"
    [] Now(t) = "enter_llm" -> "LlmWorking"
    [] Now(t) = "fault" -> "Fault"
    [] Now(t) \in {"reset_mode", "stopped"} -> "Stopped"
    [] Now(t) = "restarted" -> IF allOk[t] THEN "Kws" ELSE "Stopped"

(* Mutant: a restart that has failed is not reported. *)
EnterModeQuietly(t) ==
  /\ ~Idle(t) /\ pc[t] = "next"
  /\ Now(t) \in {"audio_ready", "enter_kws", "enter_llm", "fault", "reset_mode",
                 "stopped", "restarted"}
  /\ mode' = NextMode(t) /\ Then(t, Tail(todo[t]))
  /\ allOk' = [allOk EXCEPT ![t] = @ \/ Now(t) = "fault"]
  /\ UNCHANGED <<hubVars, running, play, recording, conn, old, req, wire, library,
                 rest>>

(* ForceEnter. *)
EnterMode(t) ==
  /\ ~Idle(t) /\ pc[t] = "next"
  /\ Now(t) \in {"audio_ready", "enter_kws", "enter_llm", "fault", "reset_mode",
                 "stopped", "restarted"}
  /\ mode' = NextMode(t)
  /\ IF Now(t) = "restarted" /\ ~allOk[t]
     THEN Then(t, <<"give_up", "report">>) ELSE Then(t, Tail(todo[t]))
  /\ allOk' = [allOk EXCEPT ![t] = @ \/ Now(t) = "fault"]
  /\ UNCHANGED <<hubVars, running, play, recording, conn, old, req, wire, library,
                 rest>>

(* The other steps of Start, Stop, and a restart that has failed.          *)
OtherStep(t) ==
  /\ ~Idle(t) /\ pc[t] = "next" /\ Done(t)
  /\ \/ /\ Now(t) = "shut" /\ running' = FALSE
        /\ UNCHANGED <<hubVars, play, recording, lost>>
     \/ /\ Now(t) = "reset_hub" /\ HubReset
        /\ UNCHANGED <<running, play, recording, lost>>
     \/ /\ Now(t) = "mute" /\ HubClose
        /\ UNCHANGED <<running, play, recording, lost>>
     \/ /\ Now(t) = "reset_guard" /\ play' = FALSE /\ recording' = FALSE
        /\ UNCHANGED <<hubVars, running, lost>>
     \/ /\ Now(t) = "report" /\ lost' = TRUE
        /\ UNCHANGED <<hubVars, running, play, recording>>
  /\ UNCHANGED <<mode, conn, old, req, wire, library, crashed, env>>

Caller(t) ==
  \/ Prepare(t) \/ TryEnter(t) \/ Ensure(t)
  \/ OpenReset(t) \/ OpenReplace(t) \/ OldEnded(t) \/ OpenStart(t) \/ OpenAwait(t)
  \/ CloseMove(t) \/ Send(t) \/ Wait(t) \/ EnterMode(t) \/ OtherStep(t)

-----------------------------------------------------------------------------
(* The library, and the message callback it calls. *)

To(w, s) == lib' = [lib EXCEPT ![w] = s]
libFrame == <<client, thr, device, silent, crashed, env>>

(* Nothing arrives over a connection that is gone.                         *)
Flush(w) ==
  /\ line' = [line EXCEPT ![w] = <<>>]
  /\ back' = [back EXCEPT ![w] = <<>>]

(* An attempt to connect ends; one that has not begun may be left out.      *)
Attempt(w) ==
  /\ lib[w] = "connecting"
  /\ \/ To(w, "open") /\ UNCHANGED env
     \/ To(w, "error") /\ IF ToldToStop(w) THEN UNCHANGED env ELSE Spend("failures")
     \/ ToldToStop(w) /\ To(w, "ended") /\ UNCHANGED env
  /\ UNCHANGED <<client, thr, device, silent, crashed, hubVars, conn, line, back, tell,
                 lost>>

(* The Open message. *)
OnOpen(w) ==
  /\ lib[w] = "open" /\ ConnFree
  /\ connected' = TRUE /\ failed' = FALSE
  /\ To(w, IF ToldToStop(w) THEN "ended" ELSE "up")
  /\ UNCHANGED <<libFrame, hubVars, ws, line, back, tell, lost>>

(* The connection is closed by stop(). *)
LibCloses(w) ==
  /\ lib[w] = "up" /\ ToldToStop(w) /\ To(w, "error") /\ Flush(w)
  /\ UNCHANGED <<libFrame, hubVars, conn, tell, lost>>

(* The Close or Error message: the flags under the lock, the rest after it. *)
OnClose(w) ==
  /\ lib[w] = "error" /\ ConnFree /\ To(w, "close_hub")
  /\ tell' = [tell EXCEPT ![w] = connected]
  /\ connected' = FALSE /\ failed' = TRUE
  /\ UNCHANGED <<libFrame, hubVars, ws, line, back, lost>>

OnCloseHub(w) ==
  /\ lib[w] = "close_hub" /\ To(w, "close_mode") /\ HubClose
  /\ UNCHANGED <<libFrame, conn, line, back, tell, lost>>

OnCloseMode(w) ==
  /\ lib[w] = "close_mode" /\ To(w, "close_tell") /\ mode' = "Stopped"
  /\ UNCHANGED <<running, play, recording, thr, device, silent, crashed, env,
                 hubVars, conn, line, back, tell, lost>>

(* The loss is reported; then the library connects again by itself.         *)
OnCloseTell(w) ==
  /\ lib[w] = "close_tell"
  /\ To(w, IF ToldToStop(w) THEN "ended" ELSE "connecting")
  /\ lost' = (lost \/ (tell[w] /\ running))
  /\ tell' = [tell EXCEPT ![w] = FALSE]
  /\ UNCHANGED <<libFrame, hubVars, conn, line, back>>

(* A response arrives. *)
OnResponse(w) ==
  /\ lib[w] = "up" /\ back[w] # <<>>
  /\ back' = [back EXCEPT ![w] = Tail(@)] /\ HubNotify(Head(back[w]))
  /\ UNCHANGED <<libFrame, conn, line, library, lost>>

Library(w) ==
  \/ Attempt(w) \/ OnOpen(w) \/ LibCloses(w) \/ OnClose(w) \/ OnCloseHub(w)
  \/ OnCloseMode(w) \/ OnCloseTell(w) \/ OnResponse(w)

-----------------------------------------------------------------------------
(* The device, and the line to it. *)

After(cmd) ==
  CASE cmd \in {"fast_recording", "llm_stop"} -> "kws"
    [] cmd = "stop_recording" -> "off"
    [] cmd = "llm_start" -> "llm"
    [] OTHER -> device

(* The device carries out a command, or refuses it.                        *)
DeviceAnswersOn(w) ==
  /\ ~silent /\ line[w] # <<>> /\ line' = [line EXCEPT ![w] = Tail(@)]
  /\ \E ok \in BOOLEAN :
       /\ IF ok THEN UNCHANGED env ELSE Spend("refusals")
       /\ device' = IF ok THEN After(Head(line[w]).cmd) ELSE device
       /\ back' = IF Head(line[w]).cmd = "xiaoai_exit" THEN back
                  ELSE [back EXCEPT ![w] = Append(@, [id |-> Head(line[w]).id, ok |-> ok])]
  /\ UNCHANGED <<hubVars, client, conn, thr, library, silent, lost, crashed>>

DeviceAnswers == \E w \in Ws : DeviceAnswersOn(w)

DeviceFallsSilent ==
  /\ ~silent /\ silent' = TRUE /\ Spend("silences")
  /\ UNCHANGED <<hubVars, client, conn, thr, library, line, back, device, lost,
                 crashed>>

(* The connection breaks. *)
Drop(w) ==
  /\ lib[w] = "up" /\ Spend("drops") /\ To(w, "error") /\ Flush(w)
  /\ UNCHANGED <<hubVars, client, conn, thr, device, silent, tell, lost,
                 crashed>>

-----------------------------------------------------------------------------
Init ==
  /\ closed = FALSE /\ responses = <<>>
  /\ running = FALSE /\ mode = "Stopped" /\ play = FALSE /\ recording = FALSE
  /\ connected = FALSE /\ failed = FALSE /\ ws = None
  /\ pc = [t \in Thread |-> IF t = "op" THEN "new" ELSE "next"]
  /\ todo = [t \in Thread |-> <<>>] /\ allOk = [t \in Thread |-> TRUE]
  /\ old = [t \in Thread |-> None] /\ req = [t \in Thread |-> 0]
  /\ lib = [w \in Ws |-> "none"] /\ tell = [w \in Ws |-> FALSE]
  /\ line = [w \in Ws |-> <<>>] /\ back = [w \in Ws |-> <<>>]
  /\ device = "off" /\ silent = FALSE
  /\ lost = FALSE /\ crashed = FALSE /\ env \in Budgets

Next ==
  /\ ~crashed
  /\ \/ StartBegins \/ OpBegins \/ StopBegins
     \/ \E t \in Thread : Caller(t)
     \/ \E w \in Ws : Library(w) \/ Drop(w)
     \/ DeviceAnswers \/ DeviceFallsSilent

Spec == Init /\ [][Next]_vars

(* Every thread keeps running.  A device that has not fallen silent answers in *)
(* the end; how often it is late is bounded by the budget, so this claims no  *)
(* more of it than the two budgets say.                                    *)
Fairness ==
  /\ \A t \in Thread : WF_vars(~crashed /\ Caller(t))
  /\ \A w \in Ws : WF_vars(~crashed /\ Library(w))
  /\ WF_vars(~crashed /\ DeviceAnswers)
FairSpec == Spec /\ Fairness

-----------------------------------------------------------------------------
(* Every variable stays within its type. *)
TypeOK ==
  /\ closed \in BOOLEAN /\ Len(responses) <= MaxRetained
  /\ running \in BOOLEAN /\ mode \in Modes
  /\ play \in BOOLEAN /\ recording \in BOOLEAN
  /\ connected \in BOOLEAN /\ failed \in BOOLEAN /\ ws \in Ws \cup {None}
  /\ pc \in [Thread -> {"new", "next", "enter", "ensure", "open", "replace",
                       "destroying", "start", "await", "close", "stopping",
                       "send", "wait", "over"}]
  /\ \A t \in Thread : Range(todo[t]) \subseteq Steps
  /\ old \in [Thread -> Ws \cup {None}] /\ req \in [Thread -> Nat]
  /\ lib \in [Ws -> {"none", "connecting", "open", "up", "error", "close_hub",
                     "close_mode", "close_tell", "ended"}]
  /\ tell \in [Ws -> BOOLEAN] /\ device \in {"off", "kws", "llm"}
  /\ silent \in BOOLEAN
  /\ \A w \in Ws : lib[w] # "up" => line[w] = <<>> /\ back[w] = <<>>
  /\ allOk \in [Thread -> BOOLEAN] /\ lost \in BOOLEAN /\ crashed \in BOOLEAN

(* No thread is inside a call. *)
Quiet == \A t \in Thread : Idle(t)

(* A message callback is on its way to reporting a loss.                   *)
Reporting == \E w \in Ws : lib[w] \in {"close_hub", "close_mode", "close_tell"} /\ tell[w]

(* What the Frontend relies on when a call returns (HandleSessionStart,      *)
(* FinishSessionStop): the client is in a usable mode, or its loss has been  *)
(* reported, or is about to be.                                            *)
UsableOrReported ==
  Quiet /\ running => mode \in {"Kws", "LlmWorking"} \/ lost \/ Reporting

(* Unless the link was lost, the mode says what the device records: a        *)
(* command that was answered too late, or refused, must not leave the router *)
(* sending one format to the server that expects the other.  And while the  *)
(* client is usable its guard knows that recording and playback are on, so  *)
(* that no later stop_recording is skipped as already done.                *)
ModeMatchesDevice ==
  Quiet /\ running =>
    /\ ~lost /\ ~Reporting => /\ mode = "LlmWorking" => device = "llm"
                              /\ mode = "Kws" => device = "kws"
    /\ mode \in {"Kws", "LlmWorking"} => play /\ recording

(* The call of op, named by the last step of its plan. *)
CallKind ==
  IF Idle("op") THEN "none"
  ELSE CASE Last(todo["op"]) = "audio_ready" -> "start"
         [] Last(todo["op"]) \in {"llm_start", "enter_llm"} -> "to_llm"
         [] Last(todo["op"]) \in FreeCommands -> "free"
         [] Last(todo["op"]) = "stopped" -> "stop"
         [] OTHER -> "to_kws"

Phase ==
  CASE pc["op"] = "new" -> "new"
    [] pc["op"] # "new" /\ ~(running /\ Idle("st") /\ CallKind # "stop") -> "ended"
    [] OTHER -> IF lost \/ Reporting THEN "lost"
                ELSE IF ~Idle("op") /\ Last(todo["op"]) = "report" THEN "giving_up"
                ELSE "serving"

Promise == INSTANCE ClientPromise WITH phase <- Phase, call <- CallKind, records <- device

(* The promise of ClientPromise, kept over three connections and their        *)
(* threads: what a call of client.cpp leaves behind, that nothing but a call *)
(* or a loss changes mode and device, and that a client which gives up does  *)
(* not return before it has reported that.                                 *)
KeepsPromise == Promise!PromiseSpec

(* The destructor waits for a thread that waits for the lock the destructor  *)
(* was called under.                                                       *)
Stuck == \E t \in Thread : pc[t] = "destroying" /\ lib[old[t]] \in {"open", "error"}

(* Every call comes to its end, as each wait has a deadline, unless the      *)
(* destructor of a WebSocket is stuck.                                     *)
CallsReturnUnlessStuck == \A t \in Thread : ~Idle(t) ~> Idle(t) \/ crashed \/ Stuck

=============================================================================
