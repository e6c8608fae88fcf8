------------------------------ MODULE Frontend ------------------------------
(***************************************************************************)
(* The control plane of the soundbox server: class Frontend of             *)
(* src/src/frontend/soundbox_frontend.cpp.  One event thread owns the      *)
(* session state and serves a FIFO of events; the threads around it only   *)
(* post events, or read the gates that the state opens.  The threads:      *)
(*                                                                         *)
(*   run     the worker that executes Frontend::Run                        *)
(*   ev      the event thread (EventLoop and the handlers it calls)        *)
(*   rd      the reader of the KWS control socket                          *)
(*   cb      the WebSocket thread of the current SoundBoxClient            *)
(*   nk      the detached thread of a native wake word callback            *)
(*   rt      the AudioRouter worker, the data plane                        *)
(*   lr      the command reader of the LlmClient                           *)
(*   stopPc  every thread that executes Frontend::Stop                     *)
(*                                                                         *)
(* SoundBoxClient is seen here through what its calls promise the          *)
(* Frontend.  The generation counters are compared for equality with a     *)
(* captured value and nothing else, so each capture is modelled by whether *)
(* it is still current.  The environment (sockets breaking, wake words,    *)
(* xiaozhi ending a session, failing calls, the stop request) acts at most *)
(* as often, per kind of event, as its budget allows.                      *)
(***************************************************************************)
EXTENDS Naturals, Sequences

CONSTANTS EnvBudgets  (* how often each environment event may happen: a      *)
                      (* behaviour starts with one of these budgets          *)

EnvKind == {"wsDrop", "kwsDrop", "aecDrop", "llmDrop", "hit", "text",
            "native", "xzEnd", "callFail", "startFail", "stop", "ackThrows",
            "stall"}

ASSUME EnvBudgetsAssumption == EnvBudgets \subseteq [EnvKind -> Nat]

VARIABLES
  run,          (* Frontend::Run                                           *)
  ev,           (* the event thread                                        *)
  state,        (* state_                                                  *)
  gate,         (* which of the uplink / playback gates are open           *)
  queue,        (* event_queue_                                            *)
  loopOn,       (* event_loop_running_                                     *)
  stopReq,      (* stop_requested_                                         *)
  stopPc,       (* the executions of Frontend::Stop                        *)
  cli,          (* client_: none, on (running_), off                       *)
  cliCur,       (* its callbacks captured the current soundbox generation  *)
  ws,           (* its ws_: none, down (the library retries it), up, deaf  *)
                (* (up again by itself: ResponseHub stays closed)          *)
  mode,         (* its AudioMode                                           *)
  kws,          (* kws_socket_: none, up, eof (closed by the KWS server)   *)
  aec,          (* aec_socket_                                             *)
  rd,           (* kws_control_thread_                                     *)
  rdCur,        (* the reader captured the current kws generation          *)
  rdOn,         (* whether it reads from the current socket                *)
  cb,           (* callback the WebSocket thread is running                *)
  nk,           (* the detached native wake word callback                  *)
  nkCur,        (* it was started with the current soundbox generation     *)
  rt,           (* AudioRouter: the socket it is about to write to         *)
  llm,          (* LlmClient::connected_                                   *)
  xz,           (* xiaozhi's view of the session                           *)
  blocked,      (* threads in a send to xiaozhi, which does not read: ev   *)
                (* or the AEC server, with the mutex of their channel      *)
  lr,           (* LlmClient's command reader holds a session_end          *)
  relinkFailed, (* history: a reconnect has failed                         *)
  crashed,      (* the process has been terminated by an error             *)
  env           (* what the environment may still do                       *)

ctl    == <<state, gate>>
cliV   == <<cli, cliCur, ws, mode>>
socks  == <<kws, aec>>
rdV    == <<rd, rdCur, rdOn>>
nkV    == <<nk, nkCur>>
llmV   == <<llm, xz, lr, blocked>>
stopV  == <<stopReq, stopPc>>
hist   == <<relinkFailed, crashed>>

vars == <<run, ev, ctl, queue, loopOn, stopV, cliV, socks, rdV, cb, nkV, rt,
          llmV, hist, env>>

State  == {"Init", "Stopped", "Starting", "Started", "Stopping"}
Event  == {"ready", "hit", "sessionEnd", "native", "wsLost", "kwsLost"}
Loss   == {"wsLost", "kwsLost"}
Mode   == {"Stopped", "Kws", "LlmStarting", "LlmWorking", "LlmStopping"}
Caller == {"run", "sup"}     (* who may execute Frontend::Stop *)
RunPc  == {"init", "connect", "client", "open", "start", "orphan", "ready",
           "wait", "parking", "parked", "stopping", "returned", "failed"}
EvPc   == {"none", "idle", "starting", "offer", "llmStart", "llmStartCall",
           "xzEnd", "tellEnd", "llmStop", "llmStopCall", "relinkEnter",
           "relinkStop", "relinkClose", "relinkNew", "relinkStart",
           "relinkConnect", "relinkJoin", "relinkFail", "exited"}
StopPc == {"idle", "flag", "client", "llm", "sockets", "loop", "joinEv",
           "joinRd", "done"}
EvSends == {"offer", "xzEnd", "tellEnd"}  (* where ev sends to xiaozhi *)

-----------------------------------------------------------------------------
(* The steps the handlers share. *)

(* The data plane only reads the gates; every state fixes all four. *)
GateOf(s) == CASE s = "Stopped" -> "kws"
               [] s = "Started" -> "session"
               [] OTHER -> "none"

SetState(s) == state' = s /\ gate' = GateOf(s)

(* Mutant: a full queue drops the event. *)
PostEventIfIdle(e) ==
  queue' = IF loopOn /\ ~stopReq /\ queue = <<>> THEN Append(queue, e) ELSE queue

(* PostEvent drops the event once a stop is requested. *)
PostEvent(e) ==
  queue' = IF loopOn /\ ~stopReq THEN Append(queue, e) ELSE queue

Spend(k) == env[k] > 0 /\ env' = [env EXCEPT ![k] = @ - 1]

(* stop_requested_ and stop_cv_.notify_all, neither of them under mu_: a    *)
(* thread that has read the flag but is not yet blocked misses both.       *)
RequestStop ==
  /\ stopReq' = TRUE
  /\ run' = IF run = "parked" THEN "wait" ELSE run

(* soundbox_generation_ is incremented, if there is a client. *)
NextSoundboxGeneration ==
  IF cli = "none" THEN UNCHANGED <<cliCur, nkCur>>
                  ELSE cliCur' = FALSE /\ nkCur' = FALSE

(* Mutant: the client is stopped without waiting for its router. *)
ClientStopNoJoin ==
  /\ cb = "idle"
  /\ cli' = IF cli = "none" THEN "none" ELSE "off"
  /\ ws' = "none" /\ mode' = "Stopped"

(* SoundBoxClient::Stop joins the router and the WebSocket thread. *)
ClientStop ==
  /\ cb = "idle" /\ rt = "idle"
  /\ cli' = IF cli = "none" THEN "none" ELSE "off"
  /\ ws' = "none" /\ mode' = "Stopped"

(* Mutant: the sockets are closed, but not shut down, under the reader. *)
CloseSocketsNoShutdown ==
  /\ rdCur' = FALSE /\ UNCHANGED <<rd, rdOn>>
  /\ kws' = "none" /\ aec' = "none"

(* kws_generation_ is incremented, both sockets are shut down and reset: a  *)
(* blocked reader sees the end of the file.                                *)
CloseSockets ==
  /\ rdCur' = FALSE /\ rdOn' = "gone"
  /\ kws' = "none" /\ aec' = "none"
  /\ UNCHANGED rd

(* A new SoundBoxClient captures the current generation. *)
NewClient ==
  /\ cli' = "on" /\ cliCur' = TRUE
  /\ mode' = "Stopped"

(* A call on a lost connection first opens a new one (EnsureConnection).     *)
CanReopen == ws' \in IF ws \in {"none", "down"} THEN {ws, "up"} ELSE {ws}

(* Connecting a local socket retries until its timeout, then throws. *)
ConnectSockets(failed) ==
  \/ kws' = "up" /\ aec' = "up" /\ ~failed /\ UNCHANGED env
  \/ /\ failed /\ Spend("startFail")
     /\ kws' \in {kws, "up"} /\ UNCHANGED aec

-----------------------------------------------------------------------------
(* Frontend::Run *)

RunInit ==
  /\ run = "init" /\ run' = "connect"
  /\ stopReq' = FALSE
  /\ state' = "Init" /\ gate' = "none"
  /\ IF loopOn
       THEN UNCHANGED <<loopOn, queue, ev>>
       ELSE loopOn' = TRUE /\ queue' = <<>> /\ ev' = "idle"
  /\ UNCHANGED <<stopPc, cliV, socks, rdV, cb, nkV, rt, llmV, hist, env>>

RunConnect ==
  /\ run = "connect"
  /\ \E failed \in BOOLEAN :
       /\ ConnectSockets(failed)
       /\ run' = IF failed THEN "failed" ELSE "client"
  /\ UNCHANGED <<ev, ctl, queue, loopOn, stopV, cliV, rdV, cb, nkV, rt, llmV,
                 hist>>

(* The client is created and its reader thread started. *)
RunNewClient ==
  /\ run = "client" /\ run' = "open"
  /\ NewClient /\ ws' = "none"
  /\ rd' = "start" /\ UNCHANGED <<rdCur, rdOn>>
  /\ UNCHANGED <<ev, ctl, queue, loopOn, stopV, socks, cb, nkV, rt, llmV, hist,
                 env>>

(* client_->Start: the WebSocket opens, then the remote audio starts.  A    *)
(* concurrent Stop turns the client off meanwhile.                         *)
RunOpen ==
  /\ run = "open" /\ run' = "start"
  /\ \/ cli = "on" /\ ws' = "up" /\ UNCHANGED <<cli, env>>
     \/ cli = "on" /\ cli' = "off" /\ UNCHANGED ws /\ Spend("startFail")
     \/ cli = "off" /\ UNCHANGED <<cli, ws, env>>
  /\ UNCHANGED <<ev, ctl, queue, loopOn, stopV, cliCur, mode, socks, rdV, cb,
                 nkV, rt, llmV, hist>>

RunStarted ==
  /\ run = "start" /\ run' = "ready"
  /\ cli = "on" /\ mode' = "Kws" /\ CanReopen
  /\ UNCHANGED <<ev, ctl, queue, loopOn, stopV, cli, cliCur, socks, rdV, cb, nkV,
                 rt, llmV, hist, env>>

(* Start failed: Run posts the loss, calls Stop itself and throws. *)
RunStartFailed ==
  /\ run = "start" /\ run' = "stopping"
  /\ \/ cli = "off" /\ UNCHANGED <<cli, ws, mode, env>>
     \/ /\ cli = "on" /\ ClientStop
        /\ IF ws = "up" THEN Spend("startFail") ELSE UNCHANGED env
  /\ PostEvent("wsLost")
  /\ stopPc' = [stopPc EXCEPT !["run"] = "flag"]
  /\ UNCHANGED <<ev, ctl, loopOn, stopReq, cliCur, socks, rdV, cb, nkV, rt,
                 llmV, hist>>

(* The event thread has replaced the client Run was starting. *)
RunOrphaned ==
  /\ run = "orphan"
  /\ \/ run' = "ready" /\ UNCHANGED <<queue, stopPc>>
     \/ /\ run' = "stopping" /\ PostEvent("wsLost")
        /\ stopPc' = [stopPc EXCEPT !["run"] = "flag"]
  /\ UNCHANGED <<ev, ctl, loopOn, stopReq, cliV, socks, rdV, cb, nkV, rt, llmV,
                 hist, env>>

RunThrow ==
  /\ run = "stopping" /\ stopPc["run"] = "done" /\ run' = "failed"
  /\ UNCHANGED <<ev, ctl, queue, loopOn, stopV, cliV, socks, rdV, cb, nkV, rt,
                 llmV, hist, env>>

RunReady ==
  /\ run = "ready" /\ run' = "wait"
  /\ PostEvent("ready")
  /\ UNCHANGED <<ev, ctl, loopOn, stopV, cliV, socks, rdV, cb, nkV, rt, llmV,
                 hist, env>>

(* stop_cv_.wait: the predicate is read, and only then the thread blocks. *)
RunCheckStop ==
  /\ run = "wait"
  /\ run' = IF stopReq THEN "returned" ELSE "parking"
  /\ UNCHANGED <<ev, ctl, queue, loopOn, stopV, cliV, socks, rdV, cb, nkV, rt,
                 llmV, hist, env>>

RunPark ==
  /\ run = "parking" /\ run' = "parked"
  /\ UNCHANGED <<ev, ctl, queue, loopOn, stopV, cliV, socks, rdV, cb, nkV, rt,
                 llmV, hist, env>>

RunThread ==
  \/ RunInit \/ RunConnect \/ RunNewClient \/ RunOpen \/ RunStarted
  \/ RunStartFailed \/ RunOrphaned \/ RunThrow \/ RunReady \/ RunCheckStop
  \/ RunPark

-----------------------------------------------------------------------------
(* The event thread: EventLoop takes one event and runs its handler to the  *)
(* end; the handlers are split where they call out of the Frontend.        *)

Take(e) == ev = "idle" /\ queue # <<>> /\ Head(queue) = e /\ queue' = Tail(queue)

evFrame == <<run, loopOn, stopV, socks, rdV, cb, nkV, rt, hist>>

EvExit ==
  /\ ev = "idle" /\ ~loopOn /\ queue = <<>> /\ ev' = "exited"
  /\ UNCHANGED <<evFrame, ctl, queue, cliV, llmV, env>>

HandleFrontendReady ==
  /\ Take("ready") /\ UNCHANGED ev
  /\ IF state \in {"Init", "Stopped"} THEN SetState("Stopped")
                                      ELSE UNCHANGED ctl
  /\ UNCHANGED <<evFrame, cliV, llmV, env>>

(* Mutant: a running conversation ignores a lost connection. *)
HandleReconnectUnlessStarted ==
  /\ \E e \in Loss : Take(e)
  /\ ev' = IF state = "Started" THEN "idle" ELSE "relinkEnter"
  /\ UNCHANGED <<evFrame, ctl, cliV, llmV, env>>

HandleReconnectRequired ==
  /\ \E e \in Loss : Take(e)
  /\ ev' = "relinkEnter"
  /\ UNCHANGED <<evFrame, ctl, cliV, llmV, env>>

(* Mutant: a wake word is also accepted during a conversation. *)
HandleSessionRestart ==
  /\ Take("hit")
  /\ IF state # "Init" THEN SetState("Starting") /\ ev' = "starting"
                       ELSE UNCHANGED <<ctl, ev>>
  /\ UNCHANGED <<evFrame, cliV, llmV, env>>

HandleSessionStart ==
  /\ Take("hit")
  /\ IF state = "Stopped" THEN SetState("Starting") /\ ev' = "starting"
                          ELSE UNCHANGED <<ctl, ev>>
  /\ UNCHANGED <<evFrame, cliV, llmV, env>>

(* The wake-up acknowledgement.  Serialising a text that is not UTF-8 throws, *)
(* once the connection is there, and the catch of EventLoop reconnects.  A  *)
(* call on a lost connection reopens it (EnsureConnection) without starting *)
(* the remote audio again.                                                 *)
SendWakeupAck ==
  /\ ev = "starting"
  /\ \/ /\ ev' = "offer" /\ UNCHANGED env
        /\ IF cli = "on" THEN CanReopen ELSE UNCHANGED ws
     \/ /\ cli = "on" /\ CanReopen /\ ws' \in {"up", "deaf"}
        /\ Spend("ackThrows")
        /\ ev' = IF stopReq THEN "idle" ELSE "relinkEnter"
  /\ UNCHANGED <<evFrame, ctl, queue, cli, cliCur, mode, llmV>>

SendSessionStart ==
  /\ ev = "offer" /\ "ev" \notin blocked
  /\ IF llm = "up"
       THEN xz' = "open" /\ ev' = "llmStart" /\ UNCHANGED ctl
       ELSE SetState("Stopped") /\ ev' = "idle" /\ UNCHANGED xz
  /\ UNCHANGED <<evFrame, queue, cliV, llm, lr, blocked, env>>

(* NotifyLlmStart: CommandGuard::PrepareLlmStart decides on the mode. *)
PrepareLlmStart ==
  /\ ev = "llmStart"
  /\ CASE mode = "Kws"     -> mode' = "LlmStarting" /\ ev' = "llmStartCall"
                              /\ UNCHANGED ctl
       [] mode = "Stopped" -> ev' = "xzEnd" /\ UNCHANGED <<mode, ctl>>
       [] OTHER            -> SetState("Started") /\ ev' = "idle"
                              /\ UNCHANGED mode
  /\ UNCHANGED <<evFrame, queue, cli, cliCur, ws, llmV, env>>

(* An RPC of the client succeeds: the mode is forced, whether or not the    *)
(* connection has been lost since the response.                            *)
CallSucceeds(m) ==
  /\ cli = "on" /\ mode' = m /\ CanReopen
  /\ UNCHANGED <<queue, env>>

(* Mutant: the mode stays in Fault after a failed RPC. *)
CallFailsInFault ==
  /\ IF cli = "on" /\ ws = "up" THEN Spend("callFail") ELSE UNCHANGED env
  /\ mode' = "Fault" /\ UNCHANGED <<ws, queue>>

(* An RPC fails, and the client restarts its audio link: either that is back  *)
(* in Kws, or the client gives up the connection and reports it.  On a      *)
(* connection that the library reopened, no response is ever heard.        *)
CallFails ==
  /\ IF cli = "on" /\ ws = "up" THEN Spend("callFail") ELSE UNCHANGED env
  /\ \/ cli = "on" /\ mode' = "Kws" /\ CanReopen /\ UNCHANGED queue
     \/ /\ cb = "idle" /\ mode' = "Stopped" /\ ws' = "none"
        /\ IF cliCur THEN PostEvent("wsLost") ELSE UNCHANGED queue

LlmStartReturns ==
  /\ ev = "llmStartCall"
  /\ \/ CallSucceeds("LlmWorking") /\ SetState("Started") /\ ev' = "idle"
     \/ CallFails /\ UNCHANGED ctl /\ ev' = "xzEnd"
  /\ UNCHANGED <<evFrame, cli, cliCur, llmV>>

(* llm_start failed: the session opened at xiaozhi is closed again. *)
SendSessionEndOnFailure ==
  /\ ev = "xzEnd" /\ ev' = "idle" /\ "ev" \notin blocked
  /\ xz' = IF llm = "up" THEN "idle" ELSE xz
  /\ SetState("Stopped")
  /\ UNCHANGED <<evFrame, queue, cliV, llm, lr, blocked, env>>

(* The device's own wake word interrupts the session: xiaozhi is told, then *)
(* the session stops as if xiaozhi had ended it.                           *)
HandleSoundboxNativeKws ==
  /\ Take("native")
  /\ IF state = "Started" THEN SetState("Stopping") /\ ev' = "tellEnd"
                          ELSE UNCHANGED <<ctl, ev>>
  /\ UNCHANGED <<evFrame, cliV, llmV, env>>

SendSessionEnd ==
  /\ ev = "tellEnd" /\ ev' = "llmStop" /\ "ev" \notin blocked
  /\ xz' = IF llm = "up" THEN "idle" ELSE xz
  /\ UNCHANGED <<evFrame, ctl, queue, cliV, llm, lr, blocked, env>>

(* Mutant: a session_end counts only while xiaozhi has the session open. *)
HandleSessionStopIfOpen ==
  /\ Take("sessionEnd")
  /\ IF state = "Started" /\ xz = "open"
       THEN SetState("Stopping") /\ ev' = "llmStop"
       ELSE UNCHANGED <<ctl, ev>>
  /\ UNCHANGED <<evFrame, cliV, llmV, env>>

HandleSessionStop ==
  /\ Take("sessionEnd")
  /\ IF state = "Started" THEN SetState("Stopping") /\ ev' = "llmStop"
                          ELSE UNCHANGED <<ctl, ev>>
  /\ UNCHANGED <<evFrame, cliV, llmV, env>>

(* NotifyLlmStop: every mode but LlmWorking counts as already stopped. *)
PrepareLlmStop ==
  /\ ev = "llmStop"
  /\ IF mode = "LlmWorking"
       THEN mode' = "LlmStopping" /\ ev' = "llmStopCall" /\ UNCHANGED ctl
       ELSE SetState("Stopped") /\ ev' = "idle" /\ UNCHANGED mode
  /\ UNCHANGED <<evFrame, queue, cli, cliCur, ws, llmV, env>>

FinishSessionStop ==
  /\ ev = "llmStopCall"
  /\ \/ CallSucceeds("Kws") /\ SetState("Stopped") /\ ev' = "idle"
     \/ CallFails /\ UNCHANGED ctl /\ ev' = "relinkEnter"
  /\ UNCHANGED <<evFrame, cli, cliCur, llmV>>

-----------------------------------------------------------------------------
(* EnterSessionInitAndRestart and RestartSoundboxAudioLink. *)

relinkFrame == <<loopOn, stopPc, cb, rt, nk, llmV>>

RelinkEnter ==
  /\ ev = "relinkEnter" /\ ev' = "relinkStop"
  /\ SetState("Init")
  /\ NextSoundboxGeneration
  /\ UNCHANGED <<relinkFrame, run, queue, stopReq, cli, ws, mode, socks, rdV,
                 hist, env>>

RelinkStopClient ==
  /\ ev = "relinkStop" /\ ev' = "relinkClose"
  /\ ClientStop
  /\ UNCHANGED <<relinkFrame, run, ctl, queue, stopReq, cliCur, socks, rdV,
                 nkCur, hist, env>>

RelinkCloseSockets ==
  /\ ev = "relinkClose" /\ ev' = "relinkNew"
  /\ CloseSockets
  /\ UNCHANGED <<relinkFrame, run, ctl, queue, stopReq, cliV, nkCur, hist, env>>

(* make_unique destroys the old client.  A thread that is inside a method   *)
(* of it (Run in Start, Stop in client_->Stop) then uses freed memory: the  *)
(* process may or may not survive that.                                    *)
OldClientInUse ==
  run \in {"open", "start"} \/ \E c \in Caller : stopPc[c] = "client"

RelinkNewClient ==
  /\ ev = "relinkNew" /\ cb = "idle" /\ rt = "idle"
  /\ NewClient
  /\ \/ ws' = "up" /\ ev' = "relinkStart" /\ UNCHANGED env
     \/ ws' = "none" /\ ev' = "relinkFail" /\ Spend("startFail")
  /\ crashed' \in IF OldClientInUse THEN BOOLEAN ELSE {FALSE}
  /\ run' = IF run \in {"open", "start"} THEN "orphan" ELSE run
  /\ UNCHANGED <<relinkFrame, ctl, queue, stopReq, socks, rdV, nkCur,
                 relinkFailed>>

RelinkStarted ==
  /\ ev = "relinkStart"
  /\ \/ /\ cli = "on" /\ mode' = "Kws" /\ CanReopen /\ ev' = "relinkConnect"
        /\ UNCHANGED <<cli, env>>
     \/ /\ ClientStop /\ ev' = "relinkFail"
        /\ IF cli = "on" /\ ws = "up" THEN Spend("startFail") ELSE UNCHANGED env
  /\ UNCHANGED <<relinkFrame, run, ctl, queue, stopReq, cliCur, socks, rdV,
                 nkCur, hist>>

(* A failed connect leaves the new client running. *)
RelinkConnect ==
  /\ ev = "relinkConnect"
  /\ \E failed \in BOOLEAN :
       /\ ConnectSockets(failed)
       /\ ev' = IF failed THEN "relinkFail" ELSE "relinkJoin"
  /\ UNCHANGED <<relinkFrame, run, ctl, queue, stopReq, cliV, rdV, nkCur, hist>>

(* Mutant: the reader of the new socket is not started. *)
RelinkJoinOnly ==
  /\ ev = "relinkJoin" /\ ev' = "idle"
  /\ rd \in {"none", "done"} /\ SetState("Stopped")
  /\ UNCHANGED <<relinkFrame, run, queue, stopReq, cliV, socks, rdV, nkCur, hist,
                 env>>

(* The old reader is joined only after the new socket is in kws_socket_. *)
RelinkJoinReader ==
  /\ ev = "relinkJoin" /\ ev' = "idle"
  /\ rd \in {"none", "done"} /\ rd' = "start"
  /\ SetState("Stopped")
  /\ UNCHANGED <<relinkFrame, run, queue, stopReq, cliV, socks, rdCur, rdOn,
                 nkCur, hist, env>>

RelinkFail ==
  /\ ev = "relinkFail" /\ ev' = "idle"
  /\ RequestStop /\ relinkFailed' = TRUE
  /\ UNCHANGED <<relinkFrame, ctl, queue, cliV, socks, rdV, nkCur, crashed, env>>

EventThread ==
  \/ EvExit
  \/ HandleFrontendReady \/ HandleReconnectRequired \/ HandleSessionStart
  \/ SendWakeupAck \/ SendSessionStart \/ PrepareLlmStart \/ LlmStartReturns
  \/ SendSessionEndOnFailure \/ HandleSoundboxNativeKws \/ SendSessionEnd
  \/ HandleSessionStop \/ PrepareLlmStop \/ FinishSessionStop
  \/ RelinkEnter \/ RelinkStopClient \/ RelinkCloseSockets \/ RelinkNewClient
  \/ RelinkStarted \/ RelinkConnect \/ RelinkJoinReader \/ RelinkFail

-----------------------------------------------------------------------------
(* Frontend::Stop, executed by the supervisor or by Run itself. *)

StopStep(c, from, to) == stopPc[c] = from /\ stopPc' = [stopPc EXCEPT ![c] = to]

stopFrame == <<ev, state, loopOn, cb, rt, nk, xz, lr, blocked, hist, env>>

StopFlag(c) ==
  /\ StopStep(c, "flag", "client")
  /\ RequestStop /\ gate' = "none"
  /\ UNCHANGED <<stopFrame, queue, cliV, socks, rdV, nkCur, llm>>

StopClient(c) ==
  /\ StopStep(c, "client", "llm")
  /\ NextSoundboxGeneration
  /\ ClientStop
  /\ UNCHANGED <<stopFrame, run, gate, queue, stopReq, socks, rdV, llm>>

(* llm_client_ is set by Run just before the client.  Its Disconnect takes    *)
(* the mutex of both channels, which a blocked sender holds.               *)
StopLlm(c) ==
  /\ StopStep(c, "llm", "sockets")
  /\ blocked = {}
  /\ llm' = IF cli = "none" THEN llm ELSE "down"
  /\ UNCHANGED <<stopFrame, run, gate, queue, stopReq, cliV, socks, rdV, nkCur>>

StopSockets(c) ==
  /\ StopStep(c, "sockets", "loop")
  /\ CloseSockets
  /\ UNCHANGED <<stopFrame, run, gate, queue, stopReq, cliV, nkCur, llm>>

StopLoop(c) ==
  /\ StopStep(c, "loop", "joinEv")
  /\ loopOn' = FALSE /\ queue' = <<>>
  /\ UNCHANGED <<run, ev, ctl, stopReq, cliV, socks, rdV, cb, nkV, rt, llmV,
                 hist, env>>

StopJoinEventThread(c) ==
  /\ StopStep(c, "joinEv", "joinRd")
  /\ ev \in {"none", "exited"}
  /\ UNCHANGED <<stopFrame, run, gate, queue, stopReq, cliV, socks, rdV, nkCur,
                 llm>>

StopJoinReader(c) ==
  /\ StopStep(c, "joinRd", "done")
  /\ rd \in {"none", "done"}
  /\ UNCHANGED <<stopFrame, run, gate, queue, stopReq, cliV, socks, rdV, nkCur,
                 llm>>

Stop(c) ==
  \/ StopFlag(c) \/ StopClient(c) \/ StopLlm(c) \/ StopSockets(c)
  \/ StopLoop(c) \/ StopJoinEventThread(c) \/ StopJoinReader(c)

(* A signal, or another worker that ended, makes the supervisor stop us. *)
SupervisorStop ==
  /\ StopStep("sup", "idle", "flag")
  /\ Spend("stop")
  /\ UNCHANGED <<run, ev, ctl, queue, loopOn, stopReq, cliV, socks, rdV, cb,
                 nkV, rt, llmV, hist>>

-----------------------------------------------------------------------------
(* KwsControlReaderLoop *)

readerFrame == <<run, ev, ctl, loopOn, stopV, cliV, socks, cb, nkV, rt, llmV,
                 hist>>

(* The generation is captured when the new thread gets to run. *)
ReaderStart ==
  /\ rd = "start" /\ rd' = "loop" /\ rdCur' = TRUE
  /\ UNCHANGED <<readerFrame, queue, rdOn, env>>

ReaderLoop ==
  /\ rd = "loop"
  /\ rd' = IF stopReq THEN "done" ELSE "read"
  /\ UNCHANGED <<readerFrame, queue, rdCur, rdOn, env>>

(* read() on whatever descriptor kws_socket_ holds at that moment. *)
ReaderRead ==
  /\ rd = "read"
  /\ IF kws = "none" THEN rd' = "lost" /\ UNCHANGED rdOn
                     ELSE rd' = "blocked" /\ rdOn' = "cur"
  /\ UNCHANGED <<readerFrame, queue, rdCur, env>>

ReaderEof ==
  /\ rd = "blocked" /\ (rdOn = "gone" \/ kws = "eof")
  /\ rd' = "lost"
  /\ UNCHANGED <<readerFrame, queue, rdCur, rdOn, env>>

(* The KWS server sends a session_start line. *)
KwsHit ==
  /\ rd = "blocked" /\ rdOn = "cur" /\ kws = "up"
  /\ Spend("hit")
  /\ rd' = "msg"
  /\ UNCHANGED <<readerFrame, queue, rdCur, rdOn>>

ReaderCheckHit ==
  /\ rd = "msg"
  /\ rd' = IF rdCur THEN "post" ELSE "done"
  /\ UNCHANGED <<readerFrame, queue, rdCur, rdOn, env>>

ReaderPostHit ==
  /\ rd = "post" /\ rd' = "loop"
  /\ PostEvent("hit")
  /\ UNCHANGED <<readerFrame, rdCur, rdOn, env>>

ReaderCheckLost ==
  /\ rd = "lost"
  /\ rd' = IF ~stopReq /\ rdCur THEN "postLost" ELSE "done"
  /\ UNCHANGED <<readerFrame, queue, rdCur, rdOn, env>>

ReaderPostLost ==
  /\ rd = "postLost" /\ rd' = "done"
  /\ PostEvent("kwsLost")
  /\ UNCHANGED <<readerFrame, rdCur, rdOn, env>>

Reader ==
  \/ ReaderStart \/ ReaderLoop \/ ReaderRead \/ ReaderEof \/ ReaderCheckHit
  \/ ReaderPostHit \/ ReaderCheckLost \/ ReaderPostLost

-----------------------------------------------------------------------------
(* The callbacks of the SoundBoxClient. *)

cbFrame == <<run, ev, ctl, loopOn, stopV, cli, cliCur, socks, rdV, rt, llmV,
             hist>>

(* Mutant: on_connection_closed is not called. *)
WsDropSilently ==
  /\ cli = "on" /\ ws \in {"up", "deaf"} /\ cb = "idle"
  /\ Spend("wsDrop")
  /\ ws' = "down" /\ mode' = "Stopped"
  /\ UNCHANGED <<cbFrame, queue, nkV, cb>>

(* The connection is lost: Stopped mode, then on_connection_closed. *)
WsDrop ==
  /\ cli = "on" /\ ws \in {"up", "deaf"} /\ cb = "idle"
  /\ Spend("wsDrop")
  /\ ws' = "down" /\ mode' = "Stopped" /\ cb' = "lossCheck"
  /\ UNCHANGED <<cbFrame, queue, nkV>>

(* The WebSocket library retries a lost connection on its own; only         *)
(* OpenConnection would reopen the ResponseHub.                            *)
WsReopen ==
  /\ cli = "on" /\ ws = "down" /\ cb = "idle"
  /\ ws' = "deaf"
  /\ UNCHANGED <<cbFrame, queue, mode, cb, nkV, env>>

(* Every retry that fails is reported like a loss, but not passed on. *)
WsRetryFails ==
  /\ cli = "on" /\ ws = "down" /\ cb = "idle"
  /\ mode' = "Stopped"
  /\ UNCHANGED <<cbFrame, queue, ws, cb, nkV, env>>

(* A final recognition text matches one of the native triggers. *)
WsText ==
  /\ cli = "on" /\ ws \in {"up", "deaf"} /\ cb = "idle"
  /\ Spend("text")
  /\ cb' = "textCheck"
  /\ UNCHANGED <<cbFrame, queue, ws, mode, nkV>>

CbCheck ==
  /\ \/ cb = "lossCheck" /\ cb' = IF cliCur THEN "lossPost" ELSE "idle"
     \/ cb = "textCheck" /\ cb' = IF cliCur THEN "textPost" ELSE "idle"
  /\ UNCHANGED <<cbFrame, queue, ws, mode, nkV, env>>

CbPost ==
  /\ cb \in {"lossPost", "textPost"} /\ cb' = "idle"
  /\ PostEvent(IF cb = "lossPost" THEN "wsLost" ELSE "hit")
  /\ UNCHANGED <<cbFrame, ws, mode, nkV, env>>

(* The device's own wake word: the callback runs on a detached thread, which *)
(* no Stop waits for.                                                      *)
NativeKws ==
  /\ cli = "on" /\ ws \in {"up", "deaf"} /\ nk = "idle"
  /\ Spend("native")
  /\ nk' = "check" /\ nkCur' = cliCur
  /\ UNCHANGED <<cbFrame, queue, ws, mode, cb>>

NkCheck ==
  /\ nk = "check" /\ nk' = IF nkCur THEN "post" ELSE "idle"
  /\ UNCHANGED <<cbFrame, queue, ws, mode, cb, nkCur, env>>

NkPost ==
  /\ nk = "post" /\ nk' = "idle"
  /\ PostEvent("native")
  /\ UNCHANGED <<cbFrame, ws, mode, cb, nkCur, env>>

Callback == CbCheck \/ CbPost \/ NkCheck \/ NkPost

-----------------------------------------------------------------------------
(* The data plane: the router looks at the generation and the gate, then     *)
(* writes.  WriteAll throws on a closed socket and nothing catches it.      *)

routerFrame == <<run, ev, ctl, queue, loopOn, stopV, cliV, socks, rdV, cb, nkV,
                 llmV, relinkFailed, env>>

RouterTake ==
  /\ cli = "on" /\ rt = "idle" /\ cliCur
  /\ \/ mode = "Kws" /\ gate = "kws" /\ rt' = "kws"
     \/ mode = "LlmWorking" /\ gate = "session" /\ rt' = "aec"
  /\ UNCHANGED <<routerFrame, crashed>>

RouterWrite ==
  /\ rt # "idle" /\ rt' = "idle"
  /\ crashed' = IF rt = "kws" THEN kws # "up" ELSE aec # "up"
  /\ UNCHANGED routerFrame

-----------------------------------------------------------------------------
(* The LlmClient and xiaozhi; the servers of the two local sockets. *)

envFrame == <<run, ev, ctl, loopOn, stopV, cliV, rdV, cb, nkV, rt, hist>>

XzEndsSession ==
  /\ llm = "up" /\ xz = "open" /\ lr = "idle"
  /\ Spend("xzEnd")
  /\ xz' = "idle" /\ lr' = "post"
  /\ UNCHANGED <<envFrame, queue, socks, llm, blocked>>

OnLlmSessionEnd ==
  /\ lr = "post" /\ lr' = "idle"
  /\ PostEvent("sessionEnd")
  /\ UNCHANGED <<envFrame, socks, llm, xz, blocked, env>>

(* Both channels are gone: what was blocked in a send fails. *)
LlmDrop ==
  /\ llm = "up" /\ Spend("llmDrop")
  /\ llm' = "down" /\ blocked' = {}
  /\ UNCHANGED <<envFrame, queue, socks, xz, lr>>

(* A send waits for a xiaozhi that does not read.  The AEC server sends what  *)
(* a conversation gives it; a send of its that blocks later than that makes *)
(* no difference.                                                          *)
SendBlocks(t) ==
  /\ llm = "up" /\ t \notin blocked /\ Spend("stall")
  /\ IF t = "ev" THEN ev \in EvSends ELSE gate = "session"
  /\ blocked' = blocked \cup {t}
  /\ UNCHANGED <<envFrame, queue, socks, llm, xz, lr>>

XzReads ==
  /\ \E t \in blocked : blocked' = blocked \ {t}
  /\ UNCHANGED <<envFrame, queue, socks, llm, xz, lr, env>>

KwsDrop ==
  /\ kws = "up" /\ Spend("kwsDrop")
  /\ kws' = "eof"
  /\ UNCHANGED <<envFrame, queue, aec, llmV>>

AecDrop ==
  /\ aec = "up" /\ Spend("aecDrop")
  /\ aec' = "eof"
  /\ UNCHANGED <<envFrame, queue, kws, llmV>>

Environment ==
  \/ KwsHit \/ WsDrop \/ WsReopen \/ WsRetryFails \/ WsText \/ NativeKws
  \/ XzEndsSession \/ LlmDrop \/ KwsDrop \/ AecDrop \/ SupervisorStop
  \/ (\E t \in {"ev", "aec"} : SendBlocks(t)) \/ XzReads

-----------------------------------------------------------------------------
Init ==
  /\ run = "init" /\ ev = "none"
  /\ state = "Init" /\ gate = "none"
  /\ queue = <<>> /\ loopOn = FALSE
  /\ stopReq = FALSE /\ stopPc = [c \in Caller |-> "idle"]
  /\ cli = "none" /\ cliCur = FALSE /\ ws = "none" /\ mode = "Stopped"
  /\ kws = "none" /\ aec = "none"
  /\ rd = "none" /\ rdCur = FALSE /\ rdOn = "gone"
  /\ cb = "idle" /\ nk = "idle" /\ nkCur = FALSE /\ rt = "idle"
  /\ llm = "up" /\ xz = "idle" /\ lr = "idle" /\ blocked = {}
  /\ relinkFailed = FALSE /\ crashed = FALSE
  /\ env \in EnvBudgets

Next ==
  /\ ~crashed
  /\ \/ RunThread
     \/ EventThread
     \/ \E c \in Caller : Stop(c)
     \/ Reader
     \/ Callback
     \/ RouterTake
     \/ RouterWrite
     \/ OnLlmSessionEnd
     \/ Environment

Spec == Init /\ [][Next]_vars

(* Every thread of the process keeps running; what the environment does is  *)
(* never forced.  Stopping a client needs strong fairness: it first tells   *)
(* the router to end, which then takes no further packet.  A write to an AEC *)
(* server that is blocked itself need not return.                          *)
Fairness ==
  /\ WF_vars(~crashed /\ RunThread)
  /\ WF_vars(~crashed /\ EventThread)
  /\ SF_vars(~crashed /\ RelinkStopClient)
  /\ \A c \in Caller :
       WF_vars(~crashed /\ Stop(c)) /\ SF_vars(~crashed /\ StopClient(c))
  /\ WF_vars(~crashed /\ Reader)
  /\ WF_vars(~crashed /\ (CbCheck \/ CbPost))
  /\ WF_vars(~crashed /\ (NkCheck \/ NkPost))
  /\ WF_vars(~crashed /\ RouterWrite /\ ~(rt = "aec" /\ "aec" \in blocked))
  /\ WF_vars(~crashed /\ OnLlmSessionEnd)

FairSpec == Spec /\ Fairness

-----------------------------------------------------------------------------
(* Every variable stays within its type. *)
TypeOK ==
  /\ run \in RunPc /\ ev \in EvPc
  /\ state \in State /\ gate \in {"none", "kws", "session"}
  /\ queue \in Seq(Event) /\ loopOn \in BOOLEAN
  /\ stopReq \in BOOLEAN /\ stopPc \in [Caller -> StopPc]
  /\ cli \in {"none", "on", "off"} /\ cliCur \in BOOLEAN
  /\ ws \in {"none", "down", "up", "deaf"} /\ mode \in Mode
  /\ kws \in {"none", "up", "eof"} /\ aec \in {"none", "up", "eof"}
  /\ rd \in {"none", "start", "loop", "read", "blocked", "msg", "post", "lost",
             "postLost", "done"}
  /\ rdCur \in BOOLEAN /\ rdOn \in {"cur", "gone"}
  /\ cb \in {"idle", "lossCheck", "lossPost", "textCheck", "textPost"}
  /\ nk \in {"idle", "check", "post"} /\ nkCur \in BOOLEAN
  /\ rt \in {"idle", "kws", "aec"}
  /\ llm \in {"up", "down"} /\ xz \in {"idle", "open"} /\ lr \in {"idle", "post"}
  /\ blocked \subseteq {"ev", "aec"}
  /\ relinkFailed \in BOOLEAN /\ crashed \in BOOLEAN
  /\ env \in [EnvKind -> Nat]

-----------------------------------------------------------------------------
(* Safety. *)

Queued(e) == \E i \in 1 .. Len(queue) : queue[i] = e

LossQueued == \E e \in Loss : Queued(e)

(* Nobody has begun to stop.  The flag alone does not tell: Run clears the  *)
(* request of a Stop that came before it.                                  *)
NotStopping == ~stopReq /\ \A c \in Caller : stopPc[c] \in {"idle", "flag"}

(* The session settled in Stopped or Started. *)
Settled == ev = "idle" /\ NotStopping /\ state \in {"Stopped", "Started"}

(* The audio mode of the client follows the session: whenever the event     *)
(* thread is between two events, an idle session has the device in wake     *)
(* word mode and a started one in conversation mode, unless the loss of the *)
(* connection is already on its way to the event thread.  The mode is      *)
(* written by the WebSocket thread and by calls that fail half way.        *)
ModeMatchesSession ==
  Settled /\ ~Queued("wsLost") /\ cb \notin {"lossCheck", "lossPost"}
    => mode = IF state = "Stopped" THEN "Kws" ELSE "LlmWorking"

(* The end of the KWS control socket never goes unnoticed: in a settled     *)
(* session either a reader that will report it is alive, with the current  *)
(* generation, or an event that leads to a reconnect is queued.            *)
KwsLossNoticed ==
  Settled /\ kws = "eof" =>
    \/ LossQueued
    \/ rd = "start"
    \/ rdCur /\ rd \notin {"none", "done"}

(* A started session is never left behind by its upstream: xiaozhi still    *)
(* has the session open, or the session_end that stops us is on its way.   *)
StartedHasUpstream ==
  Settled /\ state = "Started" /\ llm = "up" =>
    xz = "open" \/ lr = "post" \/ Queued("sessionEnd")

(* A reconnect never pulls a socket away under the router, which does not   *)
(* survive a write to a closed one: until a stop is requested, the socket   *)
(* it is about to write to is still there.                                 *)
RouterKeepsItsSocket ==
  NotStopping => (rt = "kws" => kws # "none") /\ (rt = "aec" => aec # "none")

-----------------------------------------------------------------------------
(* Liveness. *)

(* The old reader is blocked on the new KWS socket, which it entered between *)
(* two reads: joining it waits for the KWS server to speak.                *)
ReaderStuck == ev = "relinkJoin" /\ rd = "blocked" /\ rdOn = "cur"

(* A sender never waits for xiaozhi for ever. *)
XzKeepsReading == []<>(blocked = {})

(* A loss that is queued gets the session out of service, also when calls    *)
(* fail meanwhile: the state returns to Init, or somebody stops the service. *)
(* That takes a xiaozhi that reads: the event thread also sends to it.     *)
LossIsHandled ==
  XzKeepsReading => (LossQueued ~> state = "Init" \/ ~NotStopping \/ crashed)

(* A started session does not survive the end of the conversation or the     *)
(* device's own wake word, unless somebody stops the service.              *)
InterruptEndsSession ==
  state = "Started" /\ (Queued("native") \/ Queued("sessionEnd"))
    ~> state # "Started" \/ ~NotStopping \/ crashed

(* A Stop that comes after the first step of Run, which forgets an earlier   *)
(* one, returns whatever the other threads are doing, but for that reader:  *)
(* provided that xiaozhi goes on reading, for which Disconnect may wait.   *)
StopReturns ==
  XzKeepsReading =>
    (stopPc["sup"] = "flag" /\ run # "init"
       ~> stopPc["sup"] = "done" \/ crashed \/ ReaderStuck)

(* A reconnect comes to an end: the session is idle again or the service is  *)
(* told to stop (comment of EnterSessionInitAndRestart).                   *)
ReconnectCompletes == ev = "relinkEnter" ~> ev = "idle" \/ crashed

(* Stop ends Run: it sets the flag and notifies the condition variable to    *)
(* unblock the main thread (comments of Run and Stop).                     *)
StopEndsRun ==
  stopPc["sup"] = "done" ~> run \in {"returned", "failed"} \/ crashed

-----------------------------------------------------------------------------
(* The session as SessionLifecycle tells it. *)

(* Starting is Waking until session_start was sent; Stopping is still Started *)
(* until xiaozhi was told.                                                 *)
Phase ==
  CASE state = "Starting" -> IF ev \in {"llmStart", "llmStartCall", "xzEnd"}
                             THEN "Opening" ELSE "Waking"
    [] state = "Stopping" /\ ev = "tellEnd" -> "Started"
    [] OTHER -> state

Life == INSTANCE SessionLifecycle WITH phase <- Phase, upstream <- xz, link <- llm

(* The Frontend implements the lifecycle of a conversation: xiaozhi is asked  *)
(* before the device is switched, a refused or interrupted conversation is  *)
(* ended at xiaozhi too, and the states only change along the diagram.      *)
ImplementsLifecycle == Life!LifeSpec

=============================================================================
