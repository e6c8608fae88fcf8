--------------------------- MODULE ServiceProofs ----------------------------
(***************************************************************************)
(* Supervisor for any workers, whatever their run() does; and Service for    *)
(* any budget of the environment: it is a Supervisor, so that what is shown  *)
(* of any workers holds of the real ones, and its servers and sockets stay   *)
(* within their types.                                                     *)
(***************************************************************************)
EXTENDS Service, TLAPS

-----------------------------------------------------------------------------
(* The supervisor. *)
(* A stop request has a cause. *)
StopHasCause == stopAll => firstError # "none" \/ signal

(* A worker's thread announces the error that it has recorded, and comes to *)
(* its end with the stop request made.                                     *)
ThreadOrder ==
  \A w \in Worker : /\ wk[w] = "announcing" => firstError # "none"
                    /\ wk[w] \in {"ending", "done"} => stopAll

(* The main thread leaves its watch only to stop everybody. *)
MainOrder ==
  /\ sup # "watch" => stopAll
  /\ sup \in {"joining", "returned", "rethrown"} => toStop = 0

IInv == SupTypeOK /\ StopHasCause /\ ThreadOrder /\ MainOrder /\ NoSilentEnd

LEMMA SomeWorker == Worker # {} /\ Len(Workers) \in Nat /\ "none" \notin Worker
<1>1. Workers \in Seq(STRING) /\ Workers # <<>>
  BY WorkersAssumption
<1>2. Len(Workers) \in Nat /\ 1 \in 1 .. Len(Workers)
  BY <1>1
<1>3. Workers[1] \in Worker
  BY <1>2 DEF Worker
<1>4. "none" \notin Worker
  BY WorkersAssumption DEF Worker
<1> QED BY <1>2, <1>3, <1>4

LEMMA InitEstablishes == SupInit => IInv
<1> SUFFICES ASSUME SupInit PROVE IInv
  OBVIOUS
<1>1. Len(Workers) \in Nat
  BY SomeWorker
<1>2. Len(Workers) \in 0 .. Len(Workers)
  BY <1>1
<1>3. SupTypeOK
  BY <1>2 DEF SupInit, SupTypeOK, WorkerPc
<1>4. StopHasCause /\ ThreadOrder /\ MainOrder /\ NoSilentEnd
  BY DEF SupInit, StopHasCause, ThreadOrder, MainOrder, NoSilentEnd
<1> QED BY <1>3, <1>4 DEF IInv

(* The threads of the workers. *)
LEMMA WorkerKeeps ==
  ASSUME IInv, NEW w \in Worker,
         RunReturns(w) \/ RunThrows(w) \/ WorkerThread(w)
  PROVE  IInv'
<1>1. SupTypeOK /\ StopHasCause /\ ThreadOrder /\ MainOrder /\ NoSilentEnd
  BY DEF IInv
<1>2. UNCHANGED <<sup, toStop, signal>>
  BY DEF RunReturns, RunThrows, WorkerThread, CheckReturn, RecordError,
         AnnounceError, CountCompleted
<1>3. PICK pc \in WorkerPc : wk' = [wk EXCEPT ![w] = pc]
  BY DEF RunReturns, RunThrows, WorkerThread, CheckReturn, RecordError,
         AnnounceError, CountCompleted, To, WorkerPc
<1>4. wk' \in [Worker -> WorkerPc]
  BY <1>1, <1>3 DEF SupTypeOK
<1>5. /\ stopAll' \in BOOLEAN /\ (stopAll => stopAll')
      /\ firstError' \in Worker \cup {"none"}
      /\ firstError # "none" => firstError' = firstError
      /\ firstError = "none" => firstError' \in {"none", w}
  BY <1>1 DEF SupTypeOK, RunReturns, RunThrows, WorkerThread, CheckReturn,
              RecordError, AnnounceError, CountCompleted
<1>6. SupTypeOK'
  BY <1>1, <1>2, <1>4, <1>5 DEF SupTypeOK
<1>7. wk'[w] = "announcing" => firstError' # "none"
  BY <1>1, SomeWorker
  DEF SupTypeOK, RunReturns, RunThrows, WorkerThread, CheckReturn, RecordError,
      AnnounceError, CountCompleted, To
<1>8. wk'[w] \in {"ending", "done"} => stopAll'
  BY <1>1
  DEF SupTypeOK, ThreadOrder, RunReturns, RunThrows, WorkerThread, CheckReturn,
      RecordError, AnnounceError, CountCompleted, To
<1>9. stopAll' => stopAll \/ wk[w] = "announcing"
  BY DEF RunReturns, RunThrows, WorkerThread, CheckReturn, RecordError,
         AnnounceError, CountCompleted
<1>10. StopHasCause'
  BY <1>1, <1>2, <1>5, <1>9 DEF StopHasCause, ThreadOrder
<1>11. ThreadOrder'
  <2> SUFFICES ASSUME NEW v \in Worker
               PROVE  /\ wk'[v] = "announcing" => firstError' # "none"
                      /\ wk'[v] \in {"ending", "done"} => stopAll'
    BY DEF ThreadOrder
  <2>1. CASE v = w
    BY <1>7, <1>8, <2>1
  <2>2. CASE v # w
    <3>1. wk'[v] = wk[v]
      BY <1>1, <1>3, <2>2 DEF SupTypeOK
    <3> QED BY <1>1, <1>5, <3>1 DEF ThreadOrder
  <2> QED BY <2>1, <2>2
<1>12. MainOrder' /\ NoSilentEnd'
  BY <1>1, <1>2, <1>5 DEF MainOrder, NoSilentEnd
<1> QED BY <1>6, <1>10, <1>11, <1>12 DEF IInv

(* The main thread and the signal. *)
LEMMA MainKeeps ==
  ASSUME IInv, MainThread \/ ShutdownSignal \/ UNCHANGED supVars
  PROVE  IInv'
<1>1. SupTypeOK /\ StopHasCause /\ ThreadOrder /\ MainOrder /\ NoSilentEnd
  BY DEF IInv
<1>2. UNCHANGED <<firstError, wk>> /\ (stopAll => stopAll')
  <2>1. UNCHANGED <<firstError, wk>>
    BY DEF MainThread, ShutdownSignal, WatchEnds, StopReturned, AllStopped,
           JoinedAll, supVars
  <2>2. stopAll' = stopAll \/ WatchEnds
    BY DEF MainThread, ShutdownSignal, StopReturned, AllStopped, JoinedAll, supVars
  <2>3. WatchEnds => (stopAll => stopAll')
    BY DEF WatchEnds
  <2> QED BY <2>1, <2>2, <2>3
<1>3. ThreadOrder'
  BY <1>1, <1>2 DEF ThreadOrder
<1>4. CASE WatchEnds
  <2>1. Completed => stopAll
    BY <1>1, SomeWorker DEF Completed, ThreadOrder
  <2>2. stopAll' = TRUE /\ sup' = "stopping" /\ UNCHANGED <<toStop, signal>>
    BY <1>1, <1>4, <2>1 DEF WatchEnds, SupTypeOK
  <2>3. SupTypeOK'
    BY <1>1, <1>2, <2>2 DEF SupTypeOK
  <2>4. StopHasCause'
    BY <1>1, <1>2, <1>4, <2>1 DEF WatchEnds, StopHasCause
  <2> QED BY <1>3, <2>2, <2>3, <2>4 DEF IInv, MainOrder, NoSilentEnd
<1>5. CASE StopReturned
  <2>1. toStop \in 1 .. Len(Workers) /\ toStop' = toStop - 1
    BY <1>1, <1>5, SomeWorker DEF StopReturned, SupTypeOK
  <2>2. toStop' \in 0 .. Len(Workers)
    BY <2>1, SomeWorker
  <2>3. sup = "stopping" /\ UNCHANGED <<sup, signal, stopAll>>
    BY <1>5 DEF StopReturned
  <2> QED
    BY <1>1, <1>2, <1>3, <2>2, <2>3
    DEF IInv, SupTypeOK, StopHasCause, MainOrder, NoSilentEnd
<1>6. CASE AllStopped
  BY <1>1, <1>2, <1>3, <1>6
  DEF AllStopped, IInv, SupTypeOK, StopHasCause, MainOrder, NoSilentEnd
<1>7. CASE JoinedAll
  BY <1>1, <1>2, <1>3, <1>7
  DEF JoinedAll, IInv, SupTypeOK, StopHasCause, MainOrder, NoSilentEnd
<1>8. CASE ShutdownSignal
  <2>1. signal' = TRUE /\ UNCHANGED <<sup, toStop, stopAll>>
    BY <1>8 DEF ShutdownSignal
  <2>2. SupTypeOK'
    BY <1>1, <1>2, <2>1 DEF SupTypeOK
  <2>3. StopHasCause' /\ MainOrder' /\ NoSilentEnd'
    BY <1>1, <2>1 DEF StopHasCause, MainOrder, NoSilentEnd
  <2> QED BY <1>3, <2>2, <2>3 DEF IInv
<1>9. CASE UNCHANGED supVars
  BY <1>1, <1>2, <1>3, <1>9
  DEF supVars, IInv, SupTypeOK, StopHasCause, MainOrder, NoSilentEnd
<1> QED BY <1>4, <1>5, <1>6, <1>7, <1>8, <1>9 DEF MainThread

LEMMA NextKeeps == IInv /\ [SupNext]_supVars => IInv'
  BY WorkerKeeps, MainKeeps DEF SupNext

LEMMA InvariantHolds == SupSpec => []IInv
  BY InitEstablishes, NextKeeps, PTL DEF SupSpec

(* Every variable of the supervisor stays within its type. *)
THEOREM SupervisorTypeCorrect == SupSpec => []SupTypeOK
  BY InvariantHolds, PTL DEF IInv

(* RunSupervisedWorkers returns without an error only after a signal, for any *)
(* workers and whenever they end.                                          *)
THEOREM NoSilentEndAlways == SupSpec => []NoSilentEnd
  BY InvariantHolds, PTL DEF IInv

(* The joins never wait for a worker that nobody has told to stop. *)
THEOREM JoinedWereToldAlways == SupSpec => []JoinedWereTold
<1>1. IInv => JoinedWereTold
  BY DEF IInv, MainOrder, JoinedWereTold
<1> QED BY <1>1, InvariantHolds, PTL

-----------------------------------------------------------------------------
(* The service: every step of it is a step of the supervisor or of nobody it    *)
(* knows.                                                                  *)

LEMMA ServerSteps ==
  ASSUME IsPipeline, NEW s \in Server, ServerThread(s)
  PROVE  UNCHANGED supVars \/ \E w \in Worker : RunReturns(w) \/ RunThrows(w)
<1>1. s \in Worker /\ "kws" \in Worker
  BY DEF IsPipeline, Server
<1>2. CASE ServerStart(s) \/ ServerAccept(s) \/ AcceptTimesOut(s)
  BY <1>2 DEF ServerStart, ServerAccept, AcceptTimesOut
<1>3. CASE ServerBind(s) \/ ServerReturns(s)
  BY <1>1, <1>3 DEF ServerBind, ServerReturns
<1>4. CASE ReadEof(s)
  BY <1>1, <1>4 DEF ReadEof, ClientThrows, ClientServed
<1>5. CASE KwsTest \/ KwsRead \/ KwsWrite
  BY <1>1, <1>5 DEF KwsTest, KwsRead, KwsWrite, ClientThrows, ClientServed
<1>6. CASE AecRead
  BY <1>6 DEF AecRead
<1> QED BY <1>2, <1>3, <1>4, <1>5, <1>6 DEF ServerThread

LEMMA FrontendSteps ==
  ASSUME IsPipeline, RunThread \/ EventThread \/ (\E c \in Caller : Stop(c))
  PROVE  UNCHANGED supVars \/ \E w \in Worker : RunReturns(w) \/ RunThrows(w)
<1>1. "frontend" \in Worker
  BY DEF IsPipeline
<1>2. CASE RunThread
  BY <1>1, <1>2
  DEF RunThread, RunInit, RunNewClient, RunStarted, RunThrowsError, RunWait,
      RunConnect, feSup
<1>3. CASE EventThread
  BY <1>3
  DEF EventThread, EvTakeLoss, EvClose, EvNewClient, EvStarted, EvFail, EvExit,
      EvConnect, EvSend, evFrame, feSup
<1>4. CASE \E c \in Caller : Stop(c)
  BY <1>4
  DEF Stop, StopFlag, StopClient, StopLlm, StopSockets, StopLoop, StopJoin, stopFrame, feSup
<1> QED BY <1>2, <1>3, <1>4

LEMMA EachStepIsOne ==
  ASSUME IsPipeline PROVE [Next]_vars => [SupNext]_supVars
<1> SUFFICES ASSUME [Next]_vars PROVE SupNext \/ UNCHANGED supVars
  OBVIOUS
<1>1. CASE \E s \in Server : ServerThread(s)
  BY <1>1, ServerSteps DEF SupNext
<1>2. CASE RunThread \/ EventThread \/ (\E c \in Caller : Stop(c))
  BY <1>2, FrontendSteps DEF SupNext
<1>3. CASE SupervisorThread
  BY <1>3
  DEF SupervisorThread, SupCallsFrontend, SupStoppedFrontend, SupStopsServer,
      SupNext, MainThread
<1>4. CASE WsLoss \/ ReaderSeesEof \/ SendReturns \/ (\E s \in Server : RouterWrite(s))
  BY <1>4 DEF WsLoss, ReaderSeesEof, SendReturns, RouterWrite, feSup
<1>5. CASE Signal
  BY <1>5 DEF Signal, SupNext
<1>6. CASE UNCHANGED vars
  BY <1>6 DEF vars
<1> QED BY <1>1, <1>2, <1>3, <1>4, <1>5, <1>6 DEF Next

LEMMA ServiceIsSupervised == ASSUME IsPipeline PROVE Spec => SupSpec
<1>1. Init => SupInit
  BY DEF Init
<1> QED BY <1>1, EachStepIsOne, PTL DEF Spec, SupSpec

-----------------------------------------------------------------------------
(* The types. *)

ServerPc ==
  {"init", "bind", "accept", "test", "read", "write", "send", "leave", "gone"}
LinkState == {"none", "up", "eof", "dead"}
Connection == [open : BOOLEAN, unread : {"none", "plain", "burst"}]

StopPc == {"idle", "flag", "client", "llm", "sockets", "loop", "join", "done"}

(* The servers, and the connections between them and the Frontend. *)
ServerTypes ==
  /\ srv \in [Server -> ServerPc] /\ flag \in [Server -> BOOLEAN] /\ rest \in BOOLEAN

SocketTypes ==
  /\ link \in [Server -> LinkState] /\ conns \in [Server -> Seq(Connection)]
  /\ \A s \in Server : /\ Len(conns[s]) <= Backlog + 1
                       /\ Serving(s) => conns[s] # <<>>
                       /\ link[s] = "up" => conns[s] # <<>>

FrontendTypes ==
  /\ run \in {"init", "kws", "aec", "client", "start", "failing", "wait", "parking",
              "parked", "gone"}
  /\ ev \in {"none", "idle", "send", "close", "new", "start", "kws", "aec", "fail",
             "exited"}
  /\ fs \in [Caller -> StopPc]
  /\ cl \in {"none", "starting", "on", "off"}
  /\ fstop \in BOOLEAN /\ loopOn \in BOOLEAN /\ loss \in BOOLEAN
  /\ crashed \in BOOLEAN

Remembered == history \subseteq {"forgotten", "late"}

Types == ServerTypes /\ SocketTypes /\ FrontendTypes /\ Remembered

LEMMA InitTypes == Init => Types
<1> SUFFICES ASSUME Init PROVE Types
  OBVIOUS
<1>1. ServerTypes /\ FrontendTypes /\ Remembered
  BY DEF Init, ServerTypes, FrontendTypes, Remembered, ServerPc, StopPc
<1>2. SocketTypes
  BY DEF Init, SocketTypes, LinkState, Serving, Backlog
<1> QED BY <1>1, <1>2 DEF Types

-----------------------------------------------------------------------------
(* The operations on the sockets. *)

LEMMA Connects ==
  ASSUME SocketTypes, NEW s \in Server, Connect(s), UNCHANGED srv
  PROVE  SocketTypes' /\ (Remembered => Remembered')
<1>1. /\ conns[s] \in Seq(Connection) /\ Fresh \in Connection
      /\ conns' = [conns EXCEPT ![s] = Append(@, Fresh)]
      /\ link' = [link EXCEPT ![s] = "up"]
  BY DEF SocketTypes, Connect, Fresh, Connection
<1>2. /\ Append(conns[s], Fresh) \in Seq(Connection) /\ Append(conns[s], Fresh) # <<>>
      /\ Len(Append(conns[s], Fresh)) = Len(conns[s]) + 1 /\ Len(conns[s]) \in Nat
  BY <1>1
<1>3. Len(conns[s]) + 1 <= Backlog + 1
  BY <1>2 DEF Connect, Backlog
<1>4. SocketTypes'
  BY <1>1, <1>2, <1>3 DEF SocketTypes, LinkState, Serving
<1> QED BY <1>4 DEF Connect, Note, Remembered

(* Nothing but marks on connections, and ends of links.                     *)
LEMMA Remarks ==
  ASSUME SocketTypes, UNCHANGED srv,
         link' \in [Server -> LinkState], conns' \in [Server -> Seq(Connection)],
         \A s \in Server : /\ Len(conns'[s]) = Len(conns[s])
                           /\ link'[s] = "up" => link[s] = "up"
  PROVE  SocketTypes'
<1>1. \A s \in Server : conns[s] # <<>> <=> conns'[s] # <<>>
  BY DEF SocketTypes
<1> QED BY <1>1 DEF SocketTypes, Serving

LEMMA Cuts ==
  ASSUME SocketTypes, NEW s \in Server
  PROVE  Cut(s) \in Seq(Connection) /\ Len(Cut(s)) = Len(conns[s])
<1>1. conns[s] \in Seq(Connection)
  BY DEF SocketTypes
<1>2. CASE link[s] = "up"
  <2>1. Len(conns[s]) \in 1 .. Len(conns[s])
    BY <1>1, <1>2 DEF SocketTypes
  <2>2. conns[s][Len(conns[s])] \in Connection
    BY <1>1, <2>1
  <2>3. [conns[s][Len(conns[s])] EXCEPT !.open = FALSE] \in Connection
    BY <2>2 DEF Connection
  <2> QED BY <1>1, <1>2, <2>1, <2>3 DEF Cut
<1>3. CASE link[s] # "up"
  BY <1>1, <1>3 DEF Cut
<1> QED BY <1>2, <1>3

LEMMA ClosesLinks ==
  ASSUME SocketTypes, CloseLinks, UNCHANGED srv
  PROVE  SocketTypes'
<1>1. /\ conns' = [s \in Server |-> Cut(s)] /\ link' = [s \in Server |-> "none"]
  BY DEF CloseLinks
<1>2. /\ conns' \in [Server -> Seq(Connection)] /\ link' \in [Server -> LinkState]
      /\ \A s \in Server : Len(conns'[s]) = Len(conns[s]) /\ link'[s] # "up"
  BY <1>1, Cuts DEF LinkState
<1> QED BY <1>2, Remarks

LEMMA LeavesClient ==
  ASSUME SocketTypes, ServerTypes, NEW s \in Server, Serving(s), LeaveClient(s),
         NEW pc \in {"accept", "leave"}, srv' = [srv EXCEPT ![s] = pc]
  PROVE  SocketTypes'
<1>1. conns[s] \in Seq(Connection) /\ conns[s] # <<>> /\ Len(conns[s]) <= Backlog + 1
  BY DEF SocketTypes
<1>2. /\ Tail(conns[s]) \in Seq(Connection) /\ Len(Tail(conns[s])) = Len(conns[s]) - 1
      /\ Len(conns[s]) \in Nat
  BY <1>1
<1>3. ASSUME Tail(conns[s]) = <<>>
      PROVE  Len(conns[s]) = 1
  <2>1. Len(<<>>) = 0
    OBVIOUS
  <2>2. Len(Tail(conns[s])) = 0
    BY <1>3, <2>1, Zenon
  <2> QED BY <1>2, <2>2
<1>4. /\ conns' = [conns EXCEPT ![s] = Tail(@)]
      /\ link' = [link EXCEPT ![s] = IF @ = "up" /\ Len(conns[s]) = 1 THEN "eof" ELSE @]
  BY DEF LeaveClient
<1>5. link' \in [Server -> LinkState] /\ conns' \in [Server -> Seq(Connection)]
  BY <1>2, <1>4 DEF SocketTypes, LinkState
<1>6. ASSUME NEW r \in Server
      PROVE  /\ Len(conns'[r]) <= Backlog + 1
             /\ Serving(r)' => conns'[r] # <<>>
             /\ link'[r] = "up" => conns'[r] # <<>>
  <2>1. CASE r = s
    BY <1>1, <1>2, <1>3, <1>4, <2>1 DEF SocketTypes, ServerTypes, Serving, Backlog
  <2>2. CASE r # s
    BY <1>4, <2>2 DEF SocketTypes, ServerTypes, Serving
  <2> QED BY <2>1, <2>2
<1> QED BY <1>5, <1>6 DEF SocketTypes

LEMMA LeavesAll ==
  ASSUME SocketTypes, ServerTypes, NEW s \in Server, LeaveAll(s),
         srv' = [srv EXCEPT ![s] = "gone"]
  PROVE  SocketTypes'
<1>1. /\ conns' = [conns EXCEPT ![s] = <<>>]
      /\ link' = [link EXCEPT ![s] = IF @ = "up" THEN "eof" ELSE @]
  BY DEF LeaveAll
<1>2. link' \in [Server -> LinkState] /\ conns' \in [Server -> Seq(Connection)]
  BY <1>1 DEF SocketTypes, LinkState
<1>3. ASSUME NEW r \in Server
      PROVE  /\ Len(conns'[r]) <= Backlog + 1
             /\ Serving(r)' => conns'[r] # <<>>
             /\ link'[r] = "up" => conns'[r] # <<>>
  <2>1. CASE r = s
    BY <1>1, <2>1 DEF SocketTypes, ServerTypes, Serving, Backlog
  <2>2. CASE r # s
    BY <1>1, <2>2 DEF SocketTypes, ServerTypes, Serving
  <2> QED BY <2>1, <2>2
<1> QED BY <1>2, <1>3 DEF SocketTypes

(* A server that goes on without a change of its connections serves only if   *)
(* it has one.                                                             *)
LEMMA ServerMoves ==
  ASSUME SocketTypes, ServerTypes, NEW s \in Server, NEW pc \in ServerPc,
         srv' = [srv EXCEPT ![s] = pc], UNCHANGED sock,
         pc \in {"test", "read", "write", "send"} => conns[s] # <<>>
  PROVE  SocketTypes'
<1>1. UNCHANGED <<conns, link>>
  BY DEF sock
<1>2. \A r \in Server : Serving(r)' => conns[r] # <<>>
  BY DEF SocketTypes, ServerTypes, Serving
<1> QED BY <1>1, <1>2 DEF SocketTypes

LEMMA Consumes ==
  ASSUME SocketTypes, ServerTypes, NEW s \in Server, Unread(s), Consume(s),
         NEW pc \in {"test", "read", "write", "send"}, srv' = [srv EXCEPT ![s] = pc]
  PROVE  SocketTypes'
<1>1. conns[s] \in Seq(Connection) /\ conns[s] # <<>>
  BY DEF SocketTypes, Unread, Serving
<1>2. 1 \in 1 .. Len(conns[s]) /\ conns[s][1] \in Connection
  BY <1>1
<1>3. [conns[s][1] EXCEPT !.unread = "none"] \in Connection
  BY <1>2 DEF Connection
<1> DEFINE c == [conns[s] EXCEPT ![1].unread = "none"]
<1>4. c \in Seq(Connection) /\ Len(c) = Len(conns[s]) /\ c # <<>>
  BY <1>1, <1>2, <1>3
<1>5. conns' = [conns EXCEPT ![s] = c] /\ link' = link
  BY DEF Consume
<1> HIDE DEF c
<1>6. conns' \in [Server -> Seq(Connection)] /\ link' \in [Server -> LinkState]
  BY <1>4, <1>5 DEF SocketTypes
<1>7. ASSUME NEW r \in Server
      PROVE  /\ Len(conns'[r]) <= Backlog + 1
             /\ Serving(r)' => conns'[r] # <<>>
             /\ link'[r] = "up" => conns'[r] # <<>>
  <2>1. CASE r = s
    BY <1>4, <1>5, <2>1 DEF SocketTypes
  <2>2. CASE r # s
    BY <1>5, <2>2 DEF SocketTypes, ServerTypes, Serving
  <2> QED BY <2>1, <2>2
<1> QED BY <1>6, <1>7 DEF SocketTypes

-----------------------------------------------------------------------------
(* The threads. *)

LEMMA ServerKeeps ==
  ASSUME Types, NEW s \in Server, ServerThread(s)
  PROVE  Types'
<1> USE DEF Types
<1>1. FrontendTypes' /\ Remembered'
  <2>1. UNCHANGED <<run, ev, fs, fstop, loopOn, loss, cl, crashed>>
    BY DEF ServerThread, ServerStart, ServerBind, ServerAccept, AcceptTimesOut,
           ServerReturns, ReadEof, KwsTest, KwsRead, KwsWrite, AecRead, serverFrame, feV
  <2>2. history' = history \/ history' = history \cup {"forgotten"}
    BY DEF ServerThread, ServerStart, ServerBind, ServerAccept, AcceptTimesOut,
           ServerReturns, ReadEof, KwsTest, KwsRead, KwsWrite, AecRead, Note
  <2>3. FrontendTypes'
    BY <2>1 DEF FrontendTypes
  <2>4. Remembered'
    BY <2>2 DEF Remembered
  <2> QED BY <2>3, <2>4
<1>2. "kws" \in Server /\ "aec" \in Server
  BY DEF Server
<1>3. CASE ServerStart(s)
  <2>1. ServerTypes'
    BY <1>3 DEF ServerStart, At, ServerTypes, ServerPc
  <2>2. SocketTypes'
    BY <1>3, ServerMoves DEF ServerStart, At, ServerPc
  <2> QED BY <1>1, <2>1, <2>2
<1>4. CASE ServerBind(s)
  <2>1. PICK pc \in {"leave", "accept", "gone"} : srv' = [srv EXCEPT ![s] = pc]
    BY <1>4 DEF ServerBind, At
  <2>2. UNCHANGED <<sock, flag, rest>>
    BY <1>4 DEF ServerBind
  <2>3. ServerTypes'
    BY <2>1, <2>2 DEF ServerTypes, ServerPc
  <2>4. SocketTypes'
    BY <2>1, <2>2, ServerMoves DEF ServerPc
  <2> QED BY <1>1, <2>3, <2>4
<1>5. CASE ServerAccept(s)
  <2>1. PICK pc \in {"test", "read"} : srv' = [srv EXCEPT ![s] = pc]
    BY <1>5 DEF ServerAccept, At
  <2>2. UNCHANGED <<sock, flag>> /\ rest' \in BOOLEAN /\ conns[s] # <<>>
    BY <1>5 DEF ServerAccept, ServerTypes
  <2>3. ServerTypes'
    BY <2>1, <2>2 DEF ServerTypes, ServerPc
  <2>4. SocketTypes'
    BY <2>1, <2>2, ServerMoves DEF ServerPc
  <2> QED BY <1>1, <2>3, <2>4
<1>6. CASE AcceptTimesOut(s)
  <2>1. ServerTypes'
    BY <1>6 DEF AcceptTimesOut, At, ServerTypes, ServerPc
  <2>2. SocketTypes'
    BY <1>6, ServerMoves DEF AcceptTimesOut, At, ServerPc
  <2> QED BY <1>1, <2>1, <2>2
<1>7. CASE ServerReturns(s)
  <2>1. ServerTypes'
    BY <1>7 DEF ServerReturns, At, ServerTypes, ServerPc
  <2>2. SocketTypes'
    BY <1>7, LeavesAll DEF ServerReturns, At
  <2> QED BY <1>1, <2>1, <2>2
<1>8. ASSUME NEW r \in Server, Serving(r), UNCHANGED <<flag, rest>>,
             ClientServed(r) \/ ClientThrows(r)
      PROVE  ServerTypes' /\ SocketTypes'
  <2>1. CASE ClientServed(r)
    <3>1. PICK pc \in {"accept", "leave"} : srv' = [srv EXCEPT ![r] = pc]
      BY <2>1 DEF ClientServed, At
    <3>2. ServerTypes'
      BY <1>8, <3>1 DEF ServerTypes, ServerPc
    <3>3. SocketTypes'
      BY <1>8, <2>1, <3>1, LeavesClient DEF ClientServed
    <3> QED BY <3>2, <3>3
  <2>2. CASE ClientThrows(r)
    <3>1. ServerTypes'
      BY <1>8, <2>2 DEF ClientThrows, At, ServerTypes, ServerPc
    <3>2. SocketTypes'
      BY <1>8, <2>2, LeavesAll DEF ClientThrows, At
    <3> QED BY <3>1, <3>2
  <2> QED BY <1>8, <2>1, <2>2
<1>9. CASE ReadEof(s)
  BY <1>1, <1>8, <1>9 DEF ReadEof, Serving
<1>10. CASE KwsTest
  <2>1. CASE flag["kws"]
    BY <1>1, <1>2, <1>8, <1>10, <2>1 DEF KwsTest, Serving
  <2>2. CASE ~flag["kws"]
    <3>1. /\ srv["kws"] = "test" /\ srv' = [srv EXCEPT !["kws"] = "read"]
          /\ UNCHANGED <<sock, flag, rest>>
      BY <1>10, <2>2 DEF KwsTest, At
    <3>2. ServerTypes'
      BY <3>1 DEF ServerTypes, ServerPc
    <3>3. conns["kws"] # <<>>
      BY <1>2, <3>1 DEF SocketTypes, Serving
    <3>4. SocketTypes'
      BY <1>2, <3>1, <3>3, ServerMoves DEF ServerPc
    <3> QED BY <1>1, <3>2, <3>4
  <2> QED BY <2>1, <2>2
<1>11. CASE KwsRead
  <2>1. PICK pc \in {"test", "read", "write"} : srv' = [srv EXCEPT !["kws"] = pc]
    BY <1>11 DEF KwsRead, At
  <2>2. Unread("kws") /\ Consume("kws") /\ UNCHANGED <<flag, rest>>
    BY <1>11 DEF KwsRead
  <2>3. ServerTypes'
    BY <2>1, <2>2 DEF ServerTypes, ServerPc
  <2>4. SocketTypes'
    BY <1>2, <2>1, <2>2, Consumes
  <2> QED BY <1>1, <2>3, <2>4
<1>12. CASE KwsWrite
  <2>1. CASE Served("kws").open
    <3>1. /\ srv["kws"] = "write" /\ srv' = [srv EXCEPT !["kws"] = "test"]
          /\ UNCHANGED <<sock, flag, rest>>
      BY <1>12, <2>1 DEF KwsWrite, At
    <3>2. ServerTypes'
      BY <3>1 DEF ServerTypes, ServerPc
    <3>3. conns["kws"] # <<>>
      BY <1>2, <3>1 DEF SocketTypes, Serving
    <3>4. SocketTypes'
      BY <1>2, <3>1, <3>3, ServerMoves DEF ServerPc
    <3> QED BY <1>1, <3>2, <3>4
  <2>2. CASE ~Served("kws").open
    BY <1>1, <1>2, <1>8, <1>12, <2>2 DEF KwsWrite, Serving
  <2> QED BY <2>1, <2>2
<1>13. CASE AecRead
  <2>1. /\ Unread("aec") /\ Consume("aec") /\ UNCHANGED flag /\ rest' \in BOOLEAN
    BY <1>13 DEF AecRead, ServerTypes
  <2>2. PICK pc \in {"read", "send"} : srv' = [srv EXCEPT !["aec"] = pc]
    BY <1>13 DEF AecRead, At
  <2>3. ServerTypes'
    BY <2>1, <2>2 DEF ServerTypes, ServerPc
  <2>4. SocketTypes'
    BY <1>2, <2>1, <2>2, Consumes
  <2> QED BY <1>1, <2>3, <2>4
<1> QED
  BY <1>3, <1>4, <1>5, <1>6, <1>7, <1>9, <1>10, <1>11, <1>12, <1>13 DEF ServerThread

(* The own variables of the Frontend, whatever becomes of its sockets. *)
LEMMA FrontendKeepsTypes ==
  ASSUME Types, RunThread \/ EventThread \/ (\E c \in Caller : Stop(c))
  PROVE  ServerTypes' /\ FrontendTypes'
<1> USE DEF Types
<1>1. UNCHANGED <<srvV, crashed>>
  BY DEF RunThread, RunInit, RunNewClient, RunStarted, RunThrowsError, RunWait, RunConnect,
         EventThread, EvTakeLoss, EvClose, EvNewClient, EvStarted, EvFail, EvExit, EvConnect,
         EvSend, Stop, StopFlag, StopClient, StopLlm, StopSockets, StopLoop, StopJoin, evFrame,
         stopFrame, feSup
<1>2. ServerTypes' /\ crashed' \in BOOLEAN
  BY <1>1 DEF srvV, ServerTypes, FrontendTypes
<1> USE DEF FrontendTypes, StopPc
<1>3. CASE RunInit
  BY <1>2, <1>3 DEF RunInit
<1>4. CASE RunNewClient
  BY <1>2, <1>4 DEF RunNewClient
<1>5. CASE RunStarted
  BY <1>2, <1>5 DEF RunStarted, Caller
<1>6. CASE RunThrowsError \/ RunWait
  BY <1>2, <1>6 DEF RunThrowsError, RunWait
<1>7. CASE \E s \in Server : RunConnect(s)
  BY <1>2, <1>7 DEF RunConnect
<1>8. CASE EvTakeLoss \/ EvClose \/ EvNewClient \/ EvStarted \/ EvExit \/ EvSend
  BY <1>2, <1>8 DEF EvTakeLoss, EvClose, EvNewClient, EvStarted, EvExit, EvSend, evFrame
<1>9. CASE EvFail
  BY <1>2, <1>9 DEF EvFail, RequestStop, evFrame
<1>10. CASE \E s \in Server : EvConnect(s)
  BY <1>2, <1>10 DEF EvConnect, evFrame
<1>11. CASE \E c \in Caller : StopFlag(c)
  BY <1>2, <1>11 DEF StopFlag, RequestStop
<1>12. CASE \E c \in Caller : \/ StopClient(c) \/ StopLlm(c) \/ StopSockets(c)
                             \/ StopLoop(c) \/ StopJoin(c)
  BY <1>2, <1>12, ZenonT(40) DEF StopClient, StopLlm, StopSockets, StopLoop, StopJoin
<1>13. CASE RunThread
  BY <1>3, <1>4, <1>5, <1>6, <1>7, <1>13 DEF RunThread
<1>14. CASE EventThread
  BY <1>5, <1>8, <1>9, <1>10, <1>14 DEF EventThread
<1>15. CASE \E c \in Caller : Stop(c)
  BY <1>11, <1>12, <1>15 DEF Stop
<1> QED BY <1>13, <1>14, <1>15

LEMMA FrontendKeeps ==
  ASSUME Types, RunThread \/ EventThread \/ (\E c \in Caller : Stop(c))
  PROVE  Types'
<1> USE DEF Types
<1>1. UNCHANGED srv
  BY DEF RunThread, RunInit, RunNewClient, RunStarted, RunThrowsError, RunWait, RunConnect,
         EventThread, EvTakeLoss, EvClose, EvNewClient, EvStarted, EvFail, EvExit, EvConnect,
         EvSend, Stop, StopFlag, StopClient, StopLlm, StopSockets, StopLoop, StopJoin, evFrame,
         stopFrame, feSup, srvV
<1>2. \/ \E s \in Server : Connect(s)
      \/ CloseLinks /\ UNCHANGED history
      \/ UNCHANGED sock /\ (history' = history \/ history' = history \cup {"forgotten"})
  BY DEF RunThread, RunInit, RunNewClient, RunStarted, RunThrowsError, RunWait,
         RunConnect, ConnectTimesOut, EventThread, EvTakeLoss, EvClose, EvNewClient,
         EvStarted, EvFail, EvExit, EvConnect, EvSend, Stop, StopFlag, StopClient, StopLlm,
         StopSockets, StopLoop, StopJoin, evFrame, stopFrame, Note
<1>3. SocketTypes' /\ Remembered'
  <2>1. CASE \E s \in Server : Connect(s)
    BY <1>1, <2>1, Connects
  <2>2. CASE CloseLinks /\ UNCHANGED history
    BY <1>1, <2>2, ClosesLinks DEF Remembered
  <2>3. CASE UNCHANGED sock /\ (history' = history \/ history' = history \cup {"forgotten"})
    BY <1>1, <2>3 DEF sock, SocketTypes, Serving, Remembered
  <2> QED BY <1>2, <2>1, <2>2, <2>3
<1> QED BY <1>3, FrontendKeepsTypes

(* The main thread, the device, xiaozhi, the reader and the router. *)
LEMMA OthersKeep ==
  ASSUME Types,
         \/ SupervisorThread \/ WsLoss \/ ReaderSeesEof \/ SendReturns \/ Signal
         \/ UNCHANGED vars
         \/ \E s \in Server : RouterWrite(s)
  PROVE  Types'
<1> USE DEF Types
<1>1. CASE SupervisorThread
  <2>1. UNCHANGED <<conns, link, crashed, history, srv, rest>>
    BY <1>1
    DEF SupervisorThread, SupCallsFrontend, SupStoppedFrontend, SupStopsServer,
        mainFrame, sock, srvV
  <2>2. flag' \in [Server -> BOOLEAN]
    BY <1>1
    DEF SupervisorThread, SupCallsFrontend, SupStoppedFrontend, SupStopsServer,
        mainFrame, srvV, ServerTypes
  <2>3. /\ UNCHANGED <<run, ev, fstop, loopOn, loss, cl>>
        /\ fs' \in [Caller -> StopPc]
    BY <1>1
    DEF SupervisorThread, SupCallsFrontend, SupStoppedFrontend, SupStopsServer,
        feV, FrontendTypes, StopPc
  <2> QED BY <2>1, <2>2, <2>3 DEF ServerTypes, SocketTypes, FrontendTypes, Remembered, Serving
<1>2. CASE WsLoss
  BY <1>2
  DEF WsLoss, PostLoss, feSup, srvV, sock, ServerTypes, SocketTypes, FrontendTypes, Remembered, Serving
<1>3. CASE ReaderSeesEof
  <2>1. /\ UNCHANGED <<conns, srv, flag, rest>> /\ link' = [link EXCEPT !["kws"] = "dead"]
        /\ UNCHANGED <<run, ev, fs, fstop, loopOn, cl, crashed, history>>
        /\ loss' = (loss \/ (loopOn /\ ~fstop))
    BY <1>3 DEF ReaderSeesEof, PostLoss, feSup, srvV
  <2>2. SocketTypes'
    BY <2>1, Remarks DEF SocketTypes, LinkState
  <2> QED BY <2>1, <2>2 DEF ServerTypes, FrontendTypes, Remembered
<1>4. CASE Signal
  BY <1>4
  DEF Signal, srvV, sock, feV, ServerTypes, SocketTypes, FrontendTypes, Remembered, Serving
<1>5. CASE \E s \in Server : RouterWrite(s)
  <2>1. PICK s \in Server : RouterWrite(s)
    BY <1>5
  <2>2. /\ UNCHANGED <<link, srv, flag, rest, history>> /\ crashed' \in BOOLEAN
        /\ UNCHANGED <<run, ev, fs, fstop, loopOn, loss, cl>>
    BY <2>1 DEF RouterWrite, srvV, feV, FrontendTypes
  <2>3. SocketTypes'
    <3>1. CASE link[s] # "up"
      BY <2>1, <2>2, <3>1 DEF RouterWrite, SocketTypes, Serving
    <3>2. CASE link[s] = "up"
      <4>1. PICK kind \in {"plain", "burst"} :
              conns' = [conns EXCEPT ![s][Len(conns[s])].unread = kind]
        BY <2>1, <3>2 DEF RouterWrite, Chunk
      <4>2. conns[s] \in Seq(Connection) /\ Len(conns[s]) \in 1 .. Len(conns[s])
        BY <3>2 DEF SocketTypes
      <4>3. conns[s][Len(conns[s])] \in Connection
        BY <4>2
      <4>4. [conns[s][Len(conns[s])] EXCEPT !.unread = kind] \in Connection
        BY <4>3 DEF Connection
      <4> DEFINE c == [conns[s] EXCEPT ![Len(conns[s])].unread = kind]
      <4>5. c \in Seq(Connection) /\ Len(c) = Len(conns[s])
        BY <4>2, <4>4
      <4>6. conns' = [conns EXCEPT ![s] = c]
        BY <4>1
      <4> HIDE DEF c
      <4>7. /\ conns' \in [Server -> Seq(Connection)] /\ link' \in [Server -> LinkState]
            /\ \A r \in Server : Len(conns'[r]) = Len(conns[r])
        BY <2>2, <4>5, <4>6 DEF SocketTypes
      <4> QED BY <2>2, <4>7, Remarks
    <3> QED BY <3>1, <3>2
  <2> QED BY <2>2, <2>3 DEF ServerTypes, FrontendTypes, Remembered
<1>6. CASE UNCHANGED vars
  BY <1>6
  DEF vars, srvV, sock, feV, ServerTypes, SocketTypes, FrontendTypes, Remembered, Serving
<1>7. CASE SendReturns
  <2>1. /\ UNCHANGED <<flag, rest, conns, link, history>>
        /\ UNCHANGED <<run, fs, fstop, loopOn, loss, cl, crashed>>
    BY <1>7 DEF SendReturns, sock
  <2>2. CASE srv["aec"] = "send" /\ At("aec", "read") /\ UNCHANGED ev
    <3>1. ServerTypes'
      BY <2>1, <2>2 DEF At, ServerTypes, ServerPc
    <3>2. SocketTypes'
      BY <1>7, <2>2, ServerMoves DEF SendReturns, At, SocketTypes, Serving, Server, ServerPc
    <3>3. FrontendTypes' /\ Remembered'
      BY <2>1, <2>2 DEF FrontendTypes, Remembered
    <3> QED BY <3>1, <3>2, <3>3
  <2>3. CASE ev = "send" /\ ev' = "idle" /\ UNCHANGED srv
    BY <2>1, <2>3 DEF ServerTypes, SocketTypes, FrontendTypes, Remembered, Serving
  <2> QED BY <1>7, <2>2, <2>3 DEF SendReturns
<1> QED BY <1>1, <1>2, <1>3, <1>4, <1>5, <1>6, <1>7

LEMMA TypesKept == Types /\ [Next]_vars => Types'
  BY ServerKeeps, FrontendKeeps, OthersKeep DEF Next

LEMMA TypesHold == Spec => []Types
  BY InitTypes, TypesKept, PTL DEF Spec

(* Every variable of the service stays within its type: no backlog is ever   *)
(* longer than the kernel lets it be, a server that serves has a connection, *)
(* and a link that is up leads to one.                                     *)
THEOREM ServiceTypeCorrect == ASSUME IsPipeline PROVE Spec => []TypeOK
<1>1. SupTypeOK /\ Types => TypeOK
  BY DEF Types, ServerTypes, SocketTypes, FrontendTypes, Remembered, TypeOK, ServerPc, StopPc,
         LinkState
<1> QED BY <1>1, TypesHold, ServiceIsSupervised, SupervisorTypeCorrect, PTL

(* The real workers, too, come to nothing only after a signal.              *)
THEOREM ServiceNeverEndsSilently == ASSUME IsPipeline PROVE Spec => []NoSilentEnd
  BY ServiceIsSupervised, NoSilentEndAlways, PTL

=============================================================================
