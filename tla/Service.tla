------------------------------ MODULE Service -------------------------------
(***************************************************************************)
(* RunPipeline: the three supervised workers and the two local sockets      *)
(* between them.  The AEC and KWS servers (aec_stream_processor.cpp,        *)
(* kws_socket_server.cpp) serve one connection at a time; the Frontend      *)
(* connects to both, reconnects when it loses the device, and closes both    *)
(* when it is stopped.  Of the Frontend only what touches sockets and       *)
(* supervisor is kept: module Frontend has the rest.                        *)
(***************************************************************************)
EXTENDS Supervisor

CONSTANT Budgets  (* how often each environment event may happen *)

EnvKind == {"bindFail", "startFail", "wsLoss", "chunk", "stall",
            "signal"}

ASSUME BudgetsAssumption == Budgets \subseteq [EnvKind -> Nat]

Server == {"aec", "kws"}
Backlog == 2      (* what listen(fd, 1) lets wait beside the one served *)

(* RunPipeline: the workers described here are among those supervised. *)
IsPipeline == Server \cup {"frontend"} \subseteq Worker

VARIABLES
  srv,       (* Run of each server                                         *)
  flag,      (* its stop_requested_                                        *)
  conns,     (* its connections, oldest first; while it serves, the first  *)
             (* one is being served                                        *)
  rest,      (* AEC: pending holds a part of a frame                       *)
  run,       (* Frontend::Run                                              *)
  ev,        (* the event thread of the Frontend                           *)
  fs,        (* Frontend::Stop, executed by the supervisor or by Run       *)
  fstop,     (* its stop_requested_                                        *)
  loopOn,    (* event_loop_running_                                        *)
  loss,      (* the loss of a connection is queued                         *)
  cl,        (* client_                                                    *)
  link,      (* kws_socket_ and aec_socket_: none, up, eof (the server has *)
             (* gone), dead (and its reader has said so)                   *)
  crashed,   (* the router thread has thrown                               *)
  history,   (* "forgotten": a late Run has cleared a stop request,        *)
             (* "late": a socket was opened after Frontend::Stop had closed *)
             (* them                                                       *)
  env

srvV == <<srv, flag, rest>>
sock == <<conns, link>>
feV  == <<run, ev, fs, fstop, loopOn, loss, cl>>
vars == <<supVars, srvV, sock, feV, crashed, history, env>>

Caller == {"run", "sup"}
Fresh == [open |-> TRUE, unread |-> "none"]

Note(what, happened) ==
  history' = IF happened THEN history \cup {what} ELSE history

Spend(k) == env[k] > 0 /\ env' = [env EXCEPT ![k] = @ - 1]

Serving(s) == srv[s] \in {"test", "read", "write", "send"}
Listening(s) == Serving(s) \/ srv[s] = "accept"

(* The AEC server, in its sink, or the event thread waits in a send to a     *)
(* xiaozhi that does not read, with a mutex of the client of xiaozhi.      *)
Stalled == srv["aec"] = "send" \/ ev = "send"

-----------------------------------------------------------------------------
(* The sockets. *)

(* connect succeeds while the server listens and its backlog has room. *)
Connect(s) ==
  /\ Listening(s)
  /\ Len(conns[s]) < Backlog + IF Serving(s) THEN 1 ELSE 0
  /\ conns' = [conns EXCEPT ![s] = Append(@, Fresh)]
  /\ link' = [link EXCEPT ![s] = "up"]
  /\ Note("late", fs["sup"] \in {"loop", "join", "done"})

(* ConnectUnixSocketWithRetry gives up. *)
ConnectTimesOut(s) == ~Listening(s) /\ UNCHANGED <<sock, history>>

(* The last connection of a server is closed by its client. *)
Cut(s) ==
  IF link[s] = "up" THEN [conns[s] EXCEPT ![Len(conns[s])].open = FALSE]
                    ELSE conns[s]

(* Mutant: the AEC socket is left open. *)
CloseKwsLink ==
  /\ conns' = [conns EXCEPT !["kws"] = Cut("kws")]
  /\ link' = [link EXCEPT !["kws"] = "none"]

(* Both sockets are shut down and reset; what was sent stays readable. *)
CloseLinks ==
  /\ conns' = [s \in Server |-> Cut(s)]
  /\ link' = [s \in Server |-> "none"]

(* The server drops the connection it serves, or, ending, all of them. *)
LeaveClient(s) ==
  /\ conns' = [conns EXCEPT ![s] = Tail(@)]
  /\ link' = [link EXCEPT ![s] =
                IF @ = "up" /\ Len(conns[s]) = 1 THEN "eof" ELSE @]

(* Mutant: the client does not see the end. *)
LeaveAllSilently(s) ==
  conns' = [conns EXCEPT ![s] = <<>>] /\ UNCHANGED link

LeaveAll(s) ==
  /\ conns' = [conns EXCEPT ![s] = <<>>]
  /\ link' = [link EXCEPT ![s] = IF @ = "up" THEN "eof" ELSE @]

-----------------------------------------------------------------------------
(* The servers. *)

At(s, pc) == srv' = [srv EXCEPT ![s] = pc]

serverFrame == <<feV, crashed>>

(* Only the AEC server clears its flag first. *)
ServerStart(s) ==
  /\ srv[s] = "init" /\ At(s, "bind")
  /\ IF s = "aec" THEN /\ flag' = [flag EXCEPT ![s] = FALSE]
                       /\ Note("forgotten", flag[s])
                  ELSE UNCHANGED <<flag, history>>
  /\ UNCHANGED <<serverFrame, supVars, sock, rest, env>>

ServerBind(s) ==
  /\ srv[s] = "bind"
  /\ \/ At(s, IF flag[s] THEN "leave" ELSE "accept") /\ UNCHANGED <<supVars, env>>
     \/ At(s, "gone") /\ Spend("bindFail") /\ RunThrows(s)
  /\ UNCHANGED <<serverFrame, sock, flag, rest, history>>

(* The poll finds a client; each connection starts with an empty frame.    *)
ServerAccept(s) ==
  /\ srv[s] = "accept" /\ conns[s] # <<>>
  /\ At(s, IF s = "kws" THEN "test" ELSE "read")
  /\ rest' = IF s = "aec" THEN FALSE ELSE rest
  /\ UNCHANGED <<serverFrame, supVars, sock, flag, history, env>>

(* The poll times out, and the loop looks at the flag. *)
AcceptTimesOut(s) ==
  /\ srv[s] = "accept" /\ conns[s] = <<>> /\ flag[s]
  /\ At(s, "leave")
  /\ UNCHANGED <<serverFrame, supVars, sock, flag, rest, history, env>>

(* HandleClient returns: the next client, unless a stop is requested.      *)
ClientServed(s) ==
  /\ IF flag[s] THEN At(s, "leave") ELSE At(s, "accept")
  /\ LeaveClient(s)
  /\ UNCHANGED supVars

(* HandleClient throws, which only a requested stop makes harmless.        *)
ClientThrows(s) ==
  /\ LeaveAll(s) /\ At(s, "gone")
  /\ IF flag[s] THEN RunReturns(s) ELSE RunThrows(s)

(* Run returns. *)
ServerReturns(s) ==
  /\ srv[s] = "leave" /\ At(s, "gone")
  /\ LeaveAll(s) /\ RunReturns(s)
  /\ UNCHANGED <<serverFrame, flag, rest, history, env>>

(* Only the KWS server looks at its flag between two reads. *)
KwsTest ==
  /\ srv["kws"] = "test"
  /\ IF flag["kws"] THEN ClientServed("kws")
                    ELSE At("kws", "read") /\ UNCHANGED <<supVars, sock>>
  /\ UNCHANGED <<serverFrame, flag, rest, history, env>>

Served(s) == Head(conns[s])

Unread(s) == srv[s] = "read" /\ Served(s).unread # "none"

Consume(s) ==
  /\ conns' = [conns EXCEPT ![s][1].unread = "none"] /\ UNCHANGED link

(* A chunk with a wake word in it is answered. *)
KwsRead ==
  /\ Unread("kws") /\ Consume("kws")
  /\ At("kws", IF Served("kws").unread = "burst" THEN "write" ELSE "test")
  /\ UNCHANGED <<serverFrame, supVars, flag, rest, history, env>>

(* A chunk that is not a number of whole frames leaves, or completes, a     *)
(* part of one; what is processed goes to xiaozhi before the next read.   *)
AecRead ==
  /\ Unread("aec") /\ Consume("aec")
  /\ rest' \in IF Served("aec").unread # "burst" THEN {rest}
               ELSE IF rest THEN BOOLEAN ELSE {TRUE}
  /\ \/ At("aec", "read") /\ UNCHANGED env
     \/ At("aec", "send") /\ Spend("stall")
  /\ UNCHANGED <<serverFrame, supVars, flag, history>>

(* The client has closed: the AEC server throws inside a frame. *)
ReadEof(s) ==
  /\ srv[s] = "read" /\ Served(s).unread = "none" /\ ~Served(s).open
  /\ IF s = "aec" /\ rest THEN ClientThrows(s) ELSE ClientServed(s)
  /\ UNCHANGED <<serverFrame, flag, rest, history, env>>

(* WriteSessionStart throws if the client has closed meanwhile. *)
KwsWrite ==
  /\ srv["kws"] = "write"
  /\ IF Served("kws").open THEN At("kws", "test") /\ UNCHANGED <<supVars, sock>>
                           ELSE ClientThrows("kws")
  /\ UNCHANGED <<serverFrame, flag, rest, history, env>>

ServerThread(s) ==
  \/ ServerStart(s) \/ ServerBind(s) \/ ServerAccept(s) \/ AcceptTimesOut(s)
  \/ ServerReturns(s) \/ ReadEof(s)
  \/ s = "kws" /\ (KwsTest \/ KwsRead \/ KwsWrite)
  \/ s = "aec" /\ AecRead

-----------------------------------------------------------------------------
(* The Frontend: Run. *)

feSup == <<supVars, srvV, crashed>>

(* stop_requested_ is set and Run notified, if it is already blocked. *)
RequestStop(pc) ==
  /\ fstop' = TRUE
  /\ run' = IF pc = "parked" THEN "wait" ELSE pc

(* A loss is queued unless the Frontend is stopping. *)
PostLoss == loss' = (loss \/ (loopOn /\ ~fstop))

RunInit ==
  /\ run = "init" /\ run' = "kws"
  /\ fstop' = FALSE /\ Note("forgotten", fstop)
  /\ loopOn' = TRUE /\ UNCHANGED loss
  /\ ev' = IF loopOn THEN ev ELSE "idle"
  /\ UNCHANGED <<feSup, sock, fs, cl, env>>

RunConnect(s) ==
  /\ run = s
  /\ \/ Connect(s) /\ run' = (IF s = "kws" THEN "aec" ELSE "client")
        /\ UNCHANGED supVars
     \/ ConnectTimesOut(s) /\ run' = "gone" /\ RunThrows("frontend")
  /\ UNCHANGED <<srvV, crashed, ev, fs, fstop, loopOn, loss, cl, env>>

RunNewClient ==
  /\ run = "client" /\ run' = "start" /\ cl' = "starting"
  /\ UNCHANGED <<feSup, sock, ev, fs, fstop, loopOn, loss, history, env>>

(* Start succeeds, or Run itself calls Stop before it throws. *)
RunStarted ==
  /\ run = "start"
  /\ \/ cl = "starting" /\ cl' = "on" /\ run' = "wait" /\ UNCHANGED <<fs, env>>
     \/ /\ run' = "failing" /\ cl' = "off" /\ fs' = [fs EXCEPT !["run"] = "flag"]
        /\ IF cl = "starting" THEN Spend("startFail") ELSE UNCHANGED env
  /\ UNCHANGED <<feSup, sock, ev, fstop, loopOn, loss, history>>

RunThrowsError ==
  /\ run = "failing" /\ fs["run"] = "done" /\ run' = "gone"
  /\ RunThrows("frontend")
  /\ UNCHANGED <<srvV, crashed, sock, ev, fs, fstop, loopOn, loss, cl, history,
                 env>>

(* stop_cv_.wait: the predicate, then the thread blocks. *)
RunWait ==
  /\ \/ run = "wait" /\ ~fstop /\ run' = "parking" /\ UNCHANGED supVars
     \/ run = "wait" /\ fstop /\ run' = "gone" /\ RunReturns("frontend")
     \/ run = "parking" /\ run' = "parked" /\ UNCHANGED supVars
  /\ UNCHANGED <<srvV, crashed, sock, ev, fs, fstop, loopOn, loss, cl, history,
                 env>>

RunThread ==
  \/ RunInit \/ RunNewClient \/ RunStarted \/ RunThrowsError \/ RunWait
  \/ \E s \in Server : RunConnect(s)

-----------------------------------------------------------------------------
(* The Frontend: the event thread, which does nothing here but reconnect    *)
(* and wait for xiaozhi.                                                   *)

evFrame == <<feSup, fs, loopOn>>

EvTakeLoss ==
  /\ ev = "idle" /\ loss /\ loss' = FALSE /\ ev' = "close"
  /\ UNCHANGED <<evFrame, history, sock, run, fstop, cl, env>>

(* The old client is stopped, then the sockets are closed. *)
EvClose ==
  /\ ev = "close" /\ ev' = "new"
  /\ cl' = (IF cl = "none" THEN "none" ELSE "off")
  /\ CloseLinks
  /\ UNCHANGED <<evFrame, history, run, fstop, loss, env>>

EvNewClient ==
  /\ ev = "new" /\ ev' = "start" /\ cl' = "starting"
  /\ UNCHANGED <<evFrame, history, sock, run, fstop, loss, env>>

EvStarted ==
  /\ ev = "start"
  /\ \/ cl = "starting" /\ cl' = "on" /\ ev' = "kws" /\ UNCHANGED env
     \/ /\ ev' = "fail" /\ cl' = "off"
        /\ IF cl = "starting" THEN Spend("startFail") ELSE UNCHANGED env
  /\ UNCHANGED <<evFrame, history, sock, run, fstop, loss>>

EvConnect(s) ==
  /\ ev = s
  /\ \/ Connect(s) /\ ev' = IF s = "kws" THEN "aec" ELSE "idle"
     \/ ConnectTimesOut(s) /\ ev' = "fail"
  /\ UNCHANGED <<evFrame, run, fstop, loss, cl, env>>

(* The reconnect has failed: Run is to return. *)
EvFail ==
  /\ ev = "fail" /\ ev' = "idle" /\ RequestStop(run)
  /\ UNCHANGED <<evFrame, history, sock, loss, cl, env>>

(* A session starts or ends, and xiaozhi does not read what it is told.     *)
EvSend ==
  /\ ev = "idle" /\ cl = "on" /\ ev' = "send" /\ Spend("stall")
  /\ UNCHANGED <<evFrame, history, sock, run, fstop, loss, cl>>

EvExit ==
  /\ ev = "idle" /\ ~loopOn /\ ~loss /\ ev' = "exited"
  /\ UNCHANGED <<evFrame, history, sock, run, fstop, loss, cl, env>>

EventThread ==
  \/ EvTakeLoss \/ EvClose \/ EvNewClient \/ EvStarted \/ EvFail \/ EvSend
  \/ EvExit
  \/ \E s \in Server : EvConnect(s)

-----------------------------------------------------------------------------
(* The Frontend: Stop. *)

stopFrame == <<feSup, history, env>>

StopFlag(c) ==
  /\ fs[c] = "flag" /\ fs' = [fs EXCEPT ![c] = "client"]
  /\ RequestStop(run)
  /\ UNCHANGED <<stopFrame, sock, ev, loopOn, loss, cl>>

StopClient(c) ==
  /\ fs[c] = "client" /\ fs' = [fs EXCEPT ![c] = "llm"]
  /\ cl' = IF cl = "none" THEN "none" ELSE "off"
  /\ UNCHANGED <<stopFrame, sock, run, ev, fstop, loopOn, loss>>

(* Disconnect takes the mutex of both channels to xiaozhi.                 *)
StopLlm(c) ==
  /\ fs[c] = "llm" /\ ~Stalled /\ fs' = [fs EXCEPT ![c] = "sockets"]
  /\ UNCHANGED <<stopFrame, sock, run, ev, fstop, loopOn, loss, cl>>

StopSockets(c) ==
  /\ fs[c] = "sockets" /\ fs' = [fs EXCEPT ![c] = "loop"]
  /\ CloseLinks
  /\ UNCHANGED <<stopFrame, run, ev, fstop, loopOn, loss, cl>>

StopLoop(c) ==
  /\ fs[c] = "loop" /\ fs' = [fs EXCEPT ![c] = "join"]
  /\ loopOn' = FALSE /\ loss' = FALSE
  /\ UNCHANGED <<stopFrame, sock, run, ev, fstop, cl>>

StopJoin(c) ==
  /\ fs[c] = "join" /\ ev \in {"none", "exited"}
  /\ fs' = [fs EXCEPT ![c] = "done"]
  /\ UNCHANGED <<stopFrame, sock, run, ev, fstop, loopOn, loss, cl>>

Stop(c) ==
  \/ StopFlag(c) \/ StopClient(c) \/ StopLlm(c) \/ StopSockets(c)
  \/ StopLoop(c) \/ StopJoin(c)

-----------------------------------------------------------------------------
(* The supervisor calls the stop() of the workers. *)

mainFrame == <<sock, crashed, history, env>>

SupCallsFrontend ==
  /\ sup = "stopping" /\ toStop > 0 /\ Next2Stop = "frontend"
  /\ fs["sup"] = "idle" /\ fs' = [fs EXCEPT !["sup"] = "flag"]
  /\ UNCHANGED <<mainFrame, supVars, srvV, run, ev, fstop, loopOn, loss, cl>>

SupStoppedFrontend ==
  /\ toStop > 0 /\ Next2Stop = "frontend" /\ fs["sup"] = "done" /\ StopReturned
  /\ UNCHANGED <<mainFrame, srvV, feV>>

(* Mutant: the server is not told. *)
SupPassesServer(s) ==
  /\ toStop > 0 /\ Next2Stop = s /\ StopReturned
  /\ UNCHANGED <<mainFrame, srvV, feV>>

SupStopsServer(s) ==
  /\ toStop > 0 /\ Next2Stop = s /\ StopReturned
  /\ flag' = [flag EXCEPT ![s] = TRUE]
  /\ UNCHANGED <<mainFrame, srv, rest, feV>>

SupervisorThread ==
  \/ SupCallsFrontend \/ SupStoppedFrontend
  \/ \E s \in Server : SupStopsServer(s)
  \/ /\ \/ WatchEnds \/ AllStopped \/ JoinedAll
        \/ \E w \in Worker : WorkerThread(w)
     /\ UNCHANGED <<mainFrame, srvV, feV>>

-----------------------------------------------------------------------------
(* The environment. *)

(* The device is lost. *)
WsLoss ==
  /\ cl = "on" /\ Spend("wsLoss") /\ PostLoss
  /\ UNCHANGED <<feSup, sock, run, ev, fs, fstop, loopOn, cl, history>>

(* The KWS control reader sees the end of its socket. *)
ReaderSeesEof ==
  /\ link["kws"] = "eof" /\ link' = [link EXCEPT !["kws"] = "dead"]
  /\ PostLoss
  /\ UNCHANGED <<feSup, conns, run, ev, fs, fstop, loopOn, cl, history, env>>

(* A chunk with a wake word, or with a part of a frame, is a burst; whole    *)
(* frames leave nothing behind in the AEC server.                          *)
Chunk(s) == IF s = "kws" THEN {"plain", "burst"} ELSE {"burst"}

(* The router forwards a chunk while the gate is open; it does not survive  *)
(* a socket whose server has gone.                                         *)
RouterWrite(s) ==
  /\ cl = "on" /\ ev = "idle" /\ ~fstop
  /\ run \in {"wait", "parking", "parked"} /\ link[s] # "none"
  /\ IF link[s] # "up" THEN crashed' = TRUE /\ UNCHANGED <<conns, env>>
     ELSE \E kind \in Chunk(s) :
            LET n == Len(conns[s]) IN
            /\ conns[s][n].unread = "none"
            /\ conns' = [conns EXCEPT ![s][n].unread = kind]
            /\ Spend("chunk") /\ UNCHANGED crashed
  /\ UNCHANGED <<supVars, srvV, link, feV, history>>

(* Xiaozhi reads again, or its connection breaks. *)
SendReturns ==
  /\ \/ srv["aec"] = "send" /\ At("aec", "read") /\ UNCHANGED ev
     \/ ev = "send" /\ ev' = "idle" /\ UNCHANGED srv
  /\ UNCHANGED <<supVars, flag, rest, sock, run, fs, fstop, loopOn, loss, cl>>
  /\ UNCHANGED <<crashed, history, env>>

Signal ==
  /\ ShutdownSignal /\ Spend("signal")
  /\ UNCHANGED <<sock, crashed, history, srvV, feV>>

-----------------------------------------------------------------------------
Init ==
  /\ SupInit
  /\ srv = [s \in Server |-> "init"] /\ flag = [s \in Server |-> FALSE]
  /\ conns = [s \in Server |-> <<>>] /\ link = [s \in Server |-> "none"]
  /\ rest = FALSE
  /\ run = "init" /\ ev = "none" /\ fs = [c \in Caller |-> "idle"]
  /\ fstop = FALSE /\ loopOn = FALSE /\ loss = FALSE /\ cl = "none"
  /\ crashed = FALSE /\ history = {}
  /\ env \in Budgets

Next ==
  /\ ~crashed
  /\ \/ \E s \in Server : ServerThread(s)
     \/ RunThread
     \/ EventThread
     \/ \E c \in Caller : Stop(c)
     \/ SupervisorThread
     \/ WsLoss
     \/ ReaderSeesEof
     \/ SendReturns
     \/ \E s \in Server : RouterWrite(s)
     \/ Signal

Spec == Init /\ [][Next]_vars

(* Every thread keeps running; nothing is assumed of the device, of xiaozhi   *)
(* or of the signal.                                                       *)
Fairness ==
  /\ \A s \in Server : WF_vars(~crashed /\ ServerThread(s))
  /\ WF_vars(~crashed /\ RunThread)
  /\ WF_vars(~crashed /\ EventThread)
  /\ \A c \in Caller : WF_vars(~crashed /\ Stop(c))
  /\ WF_vars(~crashed /\ SupervisorThread)

FairSpec == Spec /\ Fairness

-----------------------------------------------------------------------------
(* Every variable stays within its type. *)
TypeOK ==
  /\ SupTypeOK
  /\ srv \in [Server -> {"init", "bind", "accept", "test", "read", "write",
                         "send", "leave", "gone"}]
  /\ flag \in [Server -> BOOLEAN] /\ rest \in BOOLEAN
  /\ link \in [Server -> {"none", "up", "eof", "dead"}]
  /\ \A s \in Server : /\ Len(conns[s]) <= Backlog + 1
                       /\ Serving(s) => conns[s] # <<>>
                       /\ link[s] = "up" => conns[s] # <<>>
  /\ run \in {"init", "kws", "aec", "client", "start", "failing", "wait",
              "parking", "parked", "gone"}
  /\ ev \in {"none", "idle", "send", "close", "new", "start", "kws", "aec",
             "fail", "exited"}
  /\ fs \in [Caller -> {"idle", "flag", "client", "llm", "sockets", "loop",
                        "join", "done"}]
  /\ cl \in {"none", "starting", "on", "off"}
  /\ fstop \in BOOLEAN /\ loopOn \in BOOLEAN /\ loss \in BOOLEAN
  /\ crashed \in BOOLEAN /\ history \subseteq {"forgotten", "late"}

SupEnded == sup \in {"returned", "rethrown"} \/ crashed

(* A server reads from a connection that the Frontend opened behind the back *)
(* of its own Stop, and that nobody will close.                             *)
Stranded == "late" \in history /\ \E s \in Server : Serving(s) /\ Served(s).open

(* Run is blocked although it is to stop: it missed the notification.       *)
Overslept == run = "parked" /\ fstop

(* A sender never waits for xiaozhi for ever. *)
XzKeepsReading == []<>~Stalled

(* Once the workers are being stopped, RunSupervisedWorkers returns, but for *)
(* three cases: a stop request cleared by a worker that starts late, a missed *)
(* notification, and a connection opened after Frontend::Stop closed all.    *)
(* It also takes a xiaozhi that goes on reading: Frontend::Stop waits for    *)
(* what is being sent to it.                                               *)
StopEnds ==
  XzKeepsReading =>
    (sup = "stopping"
       ~> SupEnded \/ "forgotten" \in history \/ Overslept \/ Stranded)

(* A reconnect is more than a connect: the server comes back from the old    *)
(* connection, whatever it still has to read there, and serves the new one.  *)
(* The AEC server comes back only if xiaozhi takes what it was processing.  *)
LinkIsServed ==
  XzKeepsReading =>
    \A s \in Server :
      link[s] = "up" ~> \/ Serving(s) /\ Len(conns[s]) = 1
                        \/ link[s] # "up" \/ firstError # "none" \/ signal
                        \/ crashed

(* The KWS server goes back to accept when its client disconnects, and ends  *)
(* only when it is told to (comment of KwsSocketServer::Run).               *)
KwsOutlivesClient ==
  [][ Serving("kws") /\ srv'["kws"] = "gone" => flag["kws"] ]_vars

=============================================================================
