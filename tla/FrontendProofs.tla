--------------------------- MODULE FrontendProofs ---------------------------
(***************************************************************************)
(* Proofs about Frontend, for every budget of environment events.           *)
(***************************************************************************)
EXTENDS Frontend, TLAPS

-----------------------------------------------------------------------------
(* Type correctness: one step per action of each thread. *)

(* What the shared steps do to the queue, the budget and the client. *)

LEMMA PostEventTyped ==
  ASSUME TypeOK, NEW e \in Event, PostEvent(e)
  PROVE  queue' \in Seq(Event)
<1>1. queue \in Seq(Event) /\ (queue' = queue \/ queue' = Append(queue, e))
  BY DEF TypeOK, PostEvent
<1> QED
  BY <1>1

LEMMA SpendTyped ==
  ASSUME TypeOK, NEW k \in EnvKind, Spend(k)
  PROVE  env' \in [EnvKind -> Nat]
<1>1. env \in [EnvKind -> Nat] /\ env[k] > 0 /\ env' = [env EXCEPT ![k] = @ - 1]
  BY DEF TypeOK, Spend
<1>2. env[k] - 1 \in Nat
  BY <1>1
<1> QED
  BY <1>1, <1>2

LEMMA ClientStopTyped ==
  ASSUME TypeOK, ClientStop
  PROVE  cli' \in {"none", "on", "off"} /\ ws' \in {"none", "down", "up", "deaf"} /\ mode' \in Mode
  BY DEF TypeOK, ClientStop, Mode

LEMMA NextSoundboxGenerationTyped ==
  ASSUME TypeOK, NextSoundboxGeneration
  PROVE  cliCur' \in BOOLEAN /\ nkCur' \in BOOLEAN
<1>1. CASE cli = "none"
  BY <1>1 DEF TypeOK, NextSoundboxGeneration
<1>2. CASE cli # "none"
  BY <1>2 DEF NextSoundboxGeneration
<1> QED
  BY <1>1, <1>2

LEMMA CloseSocketsTyped ==
  ASSUME TypeOK, CloseSockets
  PROVE  /\ rd' = rd /\ rdCur' \in BOOLEAN /\ rdOn' \in {"cur", "gone"}
         /\ kws' \in {"none", "up", "eof"} /\ aec' \in {"none", "up", "eof"}
  BY DEF TypeOK, CloseSockets

LEMMA ConnectSocketsTyped ==
  ASSUME TypeOK, NEW failed \in BOOLEAN, ConnectSockets(failed)
  PROVE  /\ kws' \in {"none", "up", "eof"} /\ aec' \in {"none", "up", "eof"}
         /\ env' \in [EnvKind -> Nat]
<1>1. env' \in [EnvKind -> Nat]
  BY SpendTyped DEF ConnectSockets, TypeOK, EnvKind
<1>2. /\ kws \in {"none", "up", "eof"} /\ aec \in {"none", "up", "eof"}
      /\ kws' \in {kws, "up"} /\ aec' \in {aec, "up"}
  BY DEF ConnectSockets, TypeOK
<1> QED
  BY <1>1, <1>2

LEMMA CallSucceedsTyped ==
  ASSUME TypeOK, NEW to \in Mode, CallSucceeds(to)
  PROVE  /\ mode' \in Mode /\ ws' \in {"none", "down", "up", "deaf"}
         /\ queue' \in Seq(Event) /\ env' \in [EnvKind -> Nat]
  BY DEF CallSucceeds, CanReopen, TypeOK

LEMMA CallFailsTyped ==
  ASSUME TypeOK, CallFails
  PROVE  /\ mode' \in Mode /\ ws' \in {"none", "down", "up", "deaf"}
         /\ queue' \in Seq(Event) /\ env' \in [EnvKind -> Nat]
<1>1. env' \in [EnvKind -> Nat]
  BY SpendTyped DEF CallFails, TypeOK, EnvKind
<1>2. queue' \in Seq(Event)
  BY PostEventTyped DEF CallFails, TypeOK, Event
<1>3. mode' \in Mode /\ ws' \in {"none", "down", "up", "deaf"}
  BY DEF CallFails, CanReopen, TypeOK, Mode
<1> QED
  BY <1>1, <1>2, <1>3

LEMMA StopStepTyped ==
  ASSUME TypeOK, NEW c \in Caller, NEW from \in StopPc, NEW to \in StopPc,
         StopStep(c, from, to)
  PROVE  stopPc' \in [Caller -> StopPc]
  BY DEF TypeOK, StopStep

LEMMA RunInitTyped ==
  ASSUME TypeOK, RunInit
  PROVE  TypeOK'
<1>1. queue' \in Seq(Event) /\ ev' \in EvPc /\ loopOn' \in BOOLEAN
  <2>1. CASE loopOn
    BY <2>1 DEF RunInit, TypeOK
  <2>2. CASE ~loopOn
    <3>1. <<>> \in Seq(Event) /\ "idle" \in EvPc
      BY DEF EvPc
    <3> QED BY <2>2, <3>1 DEF RunInit
  <2> QED BY <2>1, <2>2
<1>2. run' \in RunPc /\ stopReq' \in BOOLEAN /\ state' \in State
      /\ gate' \in {"none", "kws", "session"}
  BY DEF RunInit, RunPc, State
<1>3. UNCHANGED <<stopPc, cli, cliCur, ws, mode, kws, aec, rd, rdCur, rdOn, cb, nk, nkCur, rt,
                  llm, xz, lr, blocked, relinkFailed, crashed, env>>
  BY DEF RunInit, cliV, socks, rdV, nkV, llmV, hist
<1> QED BY <1>1, <1>2, <1>3 DEF TypeOK

LEMMA RunThreadTyped == TypeOK /\ RunThread => TypeOK'
<1> SUFFICES ASSUME TypeOK, RunThread PROVE TypeOK'
  OBVIOUS
<1>1. CASE RunInit
  BY <1>1, RunInitTyped
<1> USE DEF TypeOK, RunPc, EvPc, State, Event, Mode, Caller, StopPc, EnvKind,
            ctl, cliV, socks, rdV, nkV, llmV, stopV, hist
<1>2. CASE RunConnect
  <2>1. /\ kws' \in {"none", "up", "eof"} /\ aec' \in {"none", "up", "eof"}
        /\ env' \in [EnvKind -> Nat] /\ run' \in RunPc
    BY <1>2, ConnectSocketsTyped DEF RunConnect
  <2> QED
    BY <1>2, <2>1 DEF RunConnect
<1>3. CASE RunNewClient
  BY <1>3 DEF RunNewClient, NewClient
<1>4. CASE RunOpen
  <2>1. env' \in [EnvKind -> Nat]
    BY <1>4, SpendTyped DEF RunOpen
  <2>2. cli' \in {"none", "on", "off"} /\ ws' \in {"none", "down", "up", "deaf"}
    BY <1>4 DEF RunOpen
  <2> QED
    BY <1>4, <2>1, <2>2 DEF RunOpen
<1>5. CASE RunStarted
  BY <1>5 DEF RunStarted, CanReopen
<1>6. CASE RunStartFailed
  <2>1. queue' \in Seq(Event)
    BY <1>6, PostEventTyped DEF RunStartFailed
  <2>2. env' \in [EnvKind -> Nat]
    BY <1>6, SpendTyped DEF RunStartFailed
  <2>3. stopPc' \in [Caller -> StopPc]
    BY <1>6 DEF RunStartFailed
  <2>4. cli' \in {"none", "on", "off"} /\ ws' \in {"none", "down", "up", "deaf"} /\ mode' \in Mode
    BY <1>6, ClientStopTyped DEF RunStartFailed
  <2>5. /\ run' = "stopping"
        /\ UNCHANGED <<ev, ctl, loopOn, stopReq, cliCur, socks, rdV, cb, nkV, rt, llmV, hist>>
    BY <1>6 DEF RunStartFailed
  <2> QED
    BY <2>1, <2>2, <2>3, <2>4, <2>5
<1>7. CASE RunOrphaned
  <2>1. queue' \in Seq(Event)
    BY <1>7, PostEventTyped DEF RunOrphaned
  <2> QED
    BY <1>7, <2>1 DEF RunOrphaned
<1>8. CASE RunThrow
  BY <1>8 DEF RunThrow
<1>9. CASE RunReady
  BY <1>9, PostEventTyped DEF RunReady
<1>10. CASE RunCheckStop
  BY <1>10 DEF RunCheckStop
<1>11. CASE RunPark
  BY <1>11 DEF RunPark
<1> QED
  BY <1>1, <1>2, <1>3, <1>4, <1>5, <1>6, <1>7, <1>8, <1>9, <1>10, <1>11
     DEF RunThread

LEMMA EventThreadTyped == TypeOK /\ EventThread => TypeOK'
<1> SUFFICES ASSUME TypeOK, EventThread PROVE TypeOK'
  OBVIOUS
<1> USE DEF TypeOK, RunPc, EvPc, State, Event, Mode, Caller, StopPc, EnvKind,
            ctl, cliV, socks, rdV, nkV, llmV, stopV, hist, evFrame, relinkFrame
<1>1. CASE EvExit
  BY <1>1 DEF EvExit
<1>2. CASE HandleFrontendReady
  BY <1>2 DEF HandleFrontendReady, Take, SetState, GateOf
<1>3. CASE HandleReconnectRequired
  BY <1>3 DEF HandleReconnectRequired, Take, Loss
<1>4. CASE HandleSessionStart
  BY <1>4 DEF HandleSessionStart, Take, SetState, GateOf
<1>5. CASE SendSessionStart
  BY <1>5 DEF SendSessionStart, SetState, GateOf
<1>6. CASE PrepareLlmStart
  BY <1>6 DEF PrepareLlmStart, SetState, GateOf
<1>7. CASE LlmStartReturns
  <2>1. state' \in State /\ gate' \in {"none", "kws", "session"} /\ ev' \in EvPc
    BY <1>7 DEF LlmStartReturns, SetState, GateOf
  <2>2. /\ mode' \in Mode /\ ws' \in {"none", "down", "up", "deaf"}
        /\ queue' \in Seq(Event) /\ env' \in [EnvKind -> Nat]
    BY <1>7, CallSucceedsTyped, CallFailsTyped DEF LlmStartReturns
  <2> QED
    BY <1>7, <2>1, <2>2 DEF LlmStartReturns
<1>8. CASE SendSessionEndOnFailure
  BY <1>8 DEF SendSessionEndOnFailure, SetState, GateOf
<1>9. CASE HandleSoundboxNativeKws
  BY <1>9 DEF HandleSoundboxNativeKws, Take, SetState, GateOf
<1>10. CASE HandleSessionStop
  BY <1>10 DEF HandleSessionStop, Take, SetState, GateOf
<1>11. CASE PrepareLlmStop
  BY <1>11 DEF PrepareLlmStop, SetState, GateOf
<1>12. CASE FinishSessionStop
  <2>1. state' \in State /\ gate' \in {"none", "kws", "session"} /\ ev' \in EvPc
    BY <1>12 DEF FinishSessionStop, SetState, GateOf
  <2>2. /\ mode' \in Mode /\ ws' \in {"none", "down", "up", "deaf"}
        /\ queue' \in Seq(Event) /\ env' \in [EnvKind -> Nat]
    BY <1>12, CallSucceedsTyped, CallFailsTyped DEF FinishSessionStop
  <2> QED
    BY <1>12, <2>1, <2>2 DEF FinishSessionStop
<1>13. CASE RelinkEnter
  <2>1. state' \in State /\ gate' \in {"none", "kws", "session"} /\ ev' \in EvPc
    BY <1>13 DEF RelinkEnter, SetState, GateOf
  <2>2. cliCur' \in BOOLEAN /\ nkCur' \in BOOLEAN
    BY <1>13, NextSoundboxGenerationTyped DEF RelinkEnter
  <2> QED
    BY <1>13, <2>1, <2>2 DEF RelinkEnter
<1>14. CASE RelinkStopClient
  BY <1>14 DEF RelinkStopClient, ClientStop
<1>15. CASE RelinkCloseSockets
  <2>1. /\ rd' = rd /\ rdCur' \in BOOLEAN /\ rdOn' \in {"cur", "gone"}
        /\ kws' \in {"none", "up", "eof"} /\ aec' \in {"none", "up", "eof"}
    BY <1>15, CloseSocketsTyped DEF RelinkCloseSockets
  <2> QED
    BY <1>15, <2>1 DEF RelinkCloseSockets
<1>16. CASE RelinkNewClient
  <2>1. /\ env' \in [EnvKind -> Nat] /\ ws' \in {"none", "down", "up", "deaf"} /\ ev' \in EvPc
    BY <1>16, SpendTyped DEF RelinkNewClient
  <2>2. /\ run' \in RunPc /\ crashed' \in BOOLEAN
    BY <1>16 DEF RelinkNewClient
  <2>3. cli' \in {"none", "on", "off"} /\ cliCur' \in BOOLEAN /\ mode' \in Mode
    BY <1>16 DEF RelinkNewClient, NewClient
  <2> QED
    BY <1>16, <2>1, <2>2, <2>3 DEF RelinkNewClient
<1>17. CASE RelinkStarted
  <2>1. env' \in [EnvKind -> Nat]
    BY <1>17, SpendTyped DEF RelinkStarted
  <2>2. cli' \in {"none", "on", "off"} /\ ws' \in {"none", "down", "up", "deaf"} /\ mode' \in Mode
    BY <1>17, ClientStopTyped DEF RelinkStarted, CanReopen
  <2>3. /\ ev' \in EvPc
        /\ UNCHANGED <<relinkFrame, run, ctl, queue, stopReq, cliCur, socks, rdV, nkCur, hist>>
    BY <1>17 DEF RelinkStarted
  <2> QED
    BY <2>1, <2>2, <2>3
<1>18. CASE RelinkConnect
  <2>1. /\ kws' \in {"none", "up", "eof"} /\ aec' \in {"none", "up", "eof"}
        /\ env' \in [EnvKind -> Nat]
    BY <1>18, ConnectSocketsTyped DEF RelinkConnect
  <2> QED
    BY <1>18, <2>1 DEF RelinkConnect
<1>19. CASE RelinkJoinReader
  BY <1>19 DEF RelinkJoinReader, SetState, GateOf
<1>20. CASE RelinkFail
  BY <1>20 DEF RelinkFail, RequestStop
<1>21. CASE SendWakeupAck
  <2>1. env' \in [EnvKind -> Nat]
    BY <1>21, SpendTyped DEF SendWakeupAck
  <2>2. ev' \in EvPc /\ ws' \in {"none", "down", "up", "deaf"}
    BY <1>21 DEF SendWakeupAck, CanReopen
  <2>3. UNCHANGED <<evFrame, ctl, queue, cli, cliCur, mode, llmV>>
    BY <1>21 DEF SendWakeupAck
  <2> QED
    BY <2>1, <2>2, <2>3
<1>22. CASE SendSessionEnd
  BY <1>22 DEF SendSessionEnd
<1> QED
  BY <1>1, <1>2, <1>3, <1>4, <1>5, <1>6, <1>7, <1>8, <1>9, <1>10, <1>11,
     <1>12, <1>13, <1>14, <1>15, <1>16, <1>17, <1>18, <1>19, <1>20, <1>21, <1>22 DEF EventThread

LEMMA StopLoopTyped ==
  ASSUME TypeOK, NEW c \in Caller, StopLoop(c)
  PROVE  TypeOK'
<1>1. stopPc' \in [Caller -> StopPc]
  BY StopStepTyped DEF StopLoop, StopPc
<1>2. loopOn' \in BOOLEAN
  BY Zenon DEF StopLoop
<1>3. queue' \in Seq(Event)
  BY DEF StopLoop
<1>4. UNCHANGED <<run, ev, ctl, stopReq, cliV, socks, rdV, cb, nkV, rt, llmV,
                  hist, env>>
  BY DEF StopLoop
<1> QED
  BY <1>1, <1>2, <1>3, <1>4
     DEF TypeOK, ctl, cliV, socks, rdV, nkV, llmV, hist

LEMMA StopTyped == ASSUME TypeOK, NEW c \in Caller, Stop(c) PROVE TypeOK'
<1> USE DEF TypeOK, RunPc, EvPc, State, Event, Mode, Caller, StopPc, EnvKind,
            ctl, cliV, socks, rdV, nkV, llmV, stopV, hist, stopFrame
<1>1. CASE StopFlag(c)
  <2>1. stopPc' \in [Caller -> StopPc]
    BY <1>1, StopStepTyped DEF StopFlag
  <2> QED
    BY <1>1, <2>1 DEF StopFlag, RequestStop
<1>2. CASE StopClient(c)
  <2>1. stopPc' \in [Caller -> StopPc]
    BY <1>2, StopStepTyped DEF StopClient
  <2>2. cliCur' \in BOOLEAN /\ nkCur' \in BOOLEAN
    BY <1>2, NextSoundboxGenerationTyped DEF StopClient
  <2>3. cli' \in {"none", "on", "off"} /\ ws' \in {"none", "down", "up", "deaf"} /\ mode' \in Mode
    BY <1>2, ClientStopTyped DEF StopClient
  <2> QED
    BY <1>2, <2>1, <2>2, <2>3 DEF StopClient
<1>3. CASE StopSockets(c)
  <2>1. stopPc' \in [Caller -> StopPc]
    BY <1>3, StopStepTyped DEF StopSockets
  <2>2. /\ rd' = rd /\ rdCur' \in BOOLEAN /\ rdOn' \in {"cur", "gone"}
        /\ kws' \in {"none", "up", "eof"} /\ aec' \in {"none", "up", "eof"}
    BY <1>3, CloseSocketsTyped DEF StopSockets
  <2> QED
    BY <1>3, <2>1, <2>2 DEF StopSockets
<1>4. CASE StopLoop(c)
  BY <1>4, StopLoopTyped
<1>5. CASE StopJoinEventThread(c)
  <2>1. stopPc' \in [Caller -> StopPc]
    BY <1>5, StopStepTyped DEF StopJoinEventThread
  <2> QED
    BY <1>5, <2>1 DEF StopJoinEventThread
<1>6. CASE StopJoinReader(c)
  <2>1. stopPc' \in [Caller -> StopPc]
    BY <1>6, StopStepTyped DEF StopJoinReader
  <2> QED
    BY <1>6, <2>1 DEF StopJoinReader
<1>7. CASE StopLlm(c)
  <2>1. stopPc' \in [Caller -> StopPc]
    BY <1>7, StopStepTyped DEF StopLlm
  <2> QED
    BY <1>7, <2>1 DEF StopLlm
<1> QED
  BY <1>1, <1>2, <1>3, <1>4, <1>5, <1>6, <1>7 DEF Stop

LEMMA ReaderTyped == TypeOK /\ Reader => TypeOK'
<1> SUFFICES ASSUME TypeOK, Reader PROVE TypeOK'
  OBVIOUS
<1> USE DEF TypeOK, RunPc, EvPc, State, Event, Mode, Caller, StopPc, EnvKind,
            ctl, cliV, socks, rdV, nkV, llmV, stopV, hist, readerFrame
<1>1. CASE ReaderStart
  BY <1>1 DEF ReaderStart
<1>2. CASE ReaderLoop
  BY <1>2 DEF ReaderLoop
<1>3. CASE ReaderRead
  BY <1>3 DEF ReaderRead
<1>4. CASE ReaderEof
  BY <1>4 DEF ReaderEof
<1>5. CASE ReaderCheckHit
  BY <1>5 DEF ReaderCheckHit
<1>6. CASE ReaderPostHit
  <2>1. queue' \in Seq(Event)
    BY <1>6, PostEventTyped DEF ReaderPostHit
  <2> QED
    BY <1>6, <2>1 DEF ReaderPostHit
<1>7. CASE ReaderCheckLost
  BY <1>7 DEF ReaderCheckLost
<1>8. CASE ReaderPostLost
  <2>1. queue' \in Seq(Event)
    BY <1>8, PostEventTyped DEF ReaderPostLost
  <2> QED
    BY <1>8, <2>1 DEF ReaderPostLost
<1> QED
  BY <1>1, <1>2, <1>3, <1>4, <1>5, <1>6, <1>7, <1>8 DEF Reader

LEMMA CallbackTyped == TypeOK /\ Callback => TypeOK'
<1> SUFFICES ASSUME TypeOK, Callback PROVE TypeOK'
  OBVIOUS
<1> USE DEF TypeOK, RunPc, EvPc, State, Event, Mode, Caller, StopPc, EnvKind,
            ctl, cliV, socks, rdV, nkV, llmV, stopV, hist, cbFrame
<1>1. CASE CbCheck
  BY <1>1 DEF CbCheck
<1>2. CASE CbPost
  <2>1. queue' \in Seq(Event)
    BY <1>2, PostEventTyped DEF CbPost
  <2> QED
    BY <1>2, <2>1 DEF CbPost
<1>3. CASE NkCheck
  BY <1>3 DEF NkCheck
<1>4. CASE NkPost
  <2>1. queue' \in Seq(Event)
    BY <1>4, PostEventTyped DEF NkPost
  <2> QED
    BY <1>4, <2>1 DEF NkPost
<1> QED
  BY <1>1, <1>2, <1>3, <1>4 DEF Callback

LEMMA EnvironmentTyped == TypeOK /\ Environment => TypeOK'
<1> SUFFICES ASSUME TypeOK, Environment PROVE TypeOK'
  OBVIOUS
<1> USE DEF TypeOK, RunPc, EvPc, State, Event, Mode, Caller, StopPc, EnvKind,
            ctl, cliV, socks, rdV, nkV, llmV, stopV, hist, envFrame, readerFrame, cbFrame
<1>1. CASE KwsHit
  <2>1. env' \in [EnvKind -> Nat]
    BY <1>1, SpendTyped DEF KwsHit
  <2> QED
    BY <1>1, <2>1 DEF KwsHit
<1>2. CASE WsDrop
  <2>1. env' \in [EnvKind -> Nat]
    BY <1>2, SpendTyped DEF WsDrop
  <2> QED
    BY <1>2, <2>1 DEF WsDrop
<1>3. CASE WsReopen
  BY <1>3 DEF WsReopen
<1>4. CASE WsText
  <2>1. env' \in [EnvKind -> Nat]
    BY <1>4, SpendTyped DEF WsText
  <2> QED
    BY <1>4, <2>1 DEF WsText
<1>5. CASE NativeKws
  <2>1. env' \in [EnvKind -> Nat]
    BY <1>5, SpendTyped DEF NativeKws
  <2> QED
    BY <1>5, <2>1 DEF NativeKws
<1>6. CASE XzEndsSession
  <2>1. env' \in [EnvKind -> Nat]
    BY <1>6, SpendTyped DEF XzEndsSession
  <2> QED
    BY <1>6, <2>1 DEF XzEndsSession
<1>7. CASE LlmDrop
  <2>1. env' \in [EnvKind -> Nat]
    BY <1>7, SpendTyped DEF LlmDrop
  <2> QED
    BY <1>7, <2>1 DEF LlmDrop
<1>8. CASE KwsDrop
  <2>1. env' \in [EnvKind -> Nat]
    BY <1>8, SpendTyped DEF KwsDrop
  <2> QED
    BY <1>8, <2>1 DEF KwsDrop
<1>9. CASE AecDrop
  <2>1. env' \in [EnvKind -> Nat]
    BY <1>9, SpendTyped DEF AecDrop
  <2> QED
    BY <1>9, <2>1 DEF AecDrop
<1>10. CASE SupervisorStop
  <2>1. env' \in [EnvKind -> Nat]
    BY <1>10, SpendTyped DEF SupervisorStop
  <2>2. stopPc' \in [Caller -> StopPc]
    BY <1>10, StopStepTyped DEF SupervisorStop
  <2> QED
    BY <1>10, <2>1, <2>2 DEF SupervisorStop
<1>11. CASE WsRetryFails
  BY <1>11 DEF WsRetryFails
<1>12. CASE \E t \in {"ev", "aec"} : SendBlocks(t)
  <2>1. env' \in [EnvKind -> Nat]
    BY <1>12, SpendTyped DEF SendBlocks
  <2>2. blocked' \subseteq {"ev", "aec"}
    BY <1>12 DEF SendBlocks
  <2>3. UNCHANGED <<envFrame, queue, socks, llm, xz, lr>>
    BY <1>12 DEF SendBlocks
  <2> QED
    BY <2>1, <2>2, <2>3
<1>13. CASE XzReads
  BY <1>13 DEF XzReads
<1> QED
  BY <1>1, <1>2, <1>3, <1>4, <1>5, <1>6, <1>7, <1>8, <1>9, <1>10, <1>11, <1>12, <1>13
     DEF Environment

LEMMA RouterTyped ==
  TypeOK /\ (RouterTake \/ RouterWrite \/ OnLlmSessionEnd) => TypeOK'
<1> SUFFICES ASSUME TypeOK, RouterTake \/ RouterWrite \/ OnLlmSessionEnd
             PROVE  TypeOK'
  OBVIOUS
<1> USE DEF TypeOK, Event, ctl, cliV, socks, rdV, nkV, llmV, stopV, hist,
            routerFrame, envFrame
<1>1. CASE RouterTake
  BY <1>1 DEF RouterTake
<1>2. CASE RouterWrite
  <2>1. crashed' \in BOOLEAN
    BY <1>2 DEF RouterWrite
  <2> QED
    BY <1>2, <2>1 DEF RouterWrite
<1>3. CASE OnLlmSessionEnd
  <2>1. queue' \in Seq(Event)
    BY <1>3, PostEventTyped DEF OnLlmSessionEnd
  <2> QED
    BY <1>3, <2>1 DEF OnLlmSessionEnd
<1> QED
  BY <1>1, <1>2, <1>3

LEMMA StutterTyped == TypeOK /\ UNCHANGED vars => TypeOK'
  BY DEF TypeOK, vars, ctl, cliV, socks, rdV, nkV, llmV, stopV, hist

LEMMA NextTyped == TypeOK /\ [Next]_vars => TypeOK'
  BY RunThreadTyped, EventThreadTyped, StopTyped, ReaderTyped, CallbackTyped,
     RouterTyped, EnvironmentTyped, StutterTyped DEF Next

LEMMA InitTyped == Init => TypeOK
<1> SUFFICES ASSUME Init PROVE TypeOK
  OBVIOUS
<1>1. /\ loopOn \in BOOLEAN /\ stopReq \in BOOLEAN /\ cliCur \in BOOLEAN
      /\ rdCur \in BOOLEAN /\ nkCur \in BOOLEAN /\ relinkFailed \in BOOLEAN
      /\ crashed \in BOOLEAN
  BY DEF Init
<1>2. /\ queue \in Seq(Event) /\ stopPc \in [Caller -> StopPc]
      /\ env \in [EnvKind -> Nat]
  BY EnvBudgetsAssumption DEF Init, Caller, StopPc
<1>3. /\ run \in RunPc /\ ev \in EvPc /\ state \in State
      /\ gate = "none" /\ cli = "none" /\ ws = "none" /\ mode \in Mode
      /\ kws = "none" /\ aec = "none" /\ rd = "none" /\ rdOn = "gone"
      /\ cb = "idle" /\ nk = "idle" /\ rt = "idle"
      /\ llm = "up" /\ xz = "idle" /\ lr = "idle" /\ blocked = {}
  BY DEF Init, RunPc, EvPc, State, Mode
<1> QED
  BY <1>1, <1>2, <1>3 DEF TypeOK

(* Every variable of the Frontend stays within its type. *)
THEOREM TypeCorrect == Spec => []TypeOK
  BY InitTyped, NextTyped, PTL DEF Spec

-----------------------------------------------------------------------------
(* The inductive invariant of a session. *)

(* What the event thread is doing fixes the state it found or has set.  An    *)
(* acknowledgement that throws during a stop leaves it in Starting.        *)
HandlerInState ==
  /\ ev \in {"starting", "offer", "llmStart", "llmStartCall", "xzEnd"} =>
       state = "Starting"
  /\ ev \in {"tellEnd", "llmStop", "llmStopCall"} => state = "Stopping"
  /\ ev \in {"relinkStop", "relinkClose", "relinkNew", "relinkStart",
            "relinkConnect", "relinkJoin", "relinkFail"} => state = "Init"
  /\ ev \in {"none", "idle", "exited"} => state # "Stopping"

(* Before Run, there is no event thread and no session. *)
BeforeRun == run = "init" => ev = "none" /\ state = "Init"

(* Until a stop, the event loop accepts events. *)
LoopRuns == NotStopping /\ run # "init" => loopOn

(* From session_start on, either xiaozhi has the session open or its end is   *)
(* on the way to the event thread.                                         *)
InConversation == state = "Started" \/ ev \in {"llmStart", "llmStartCall"}

EndIsComing ==
  NotStopping /\ llm = "up" /\ InConversation =>
    xz = "open" \/ lr = "post" \/ Queued("sessionEnd")

(* Run calls Stop at most once, before it throws. *)
RunStops == run \notin {"stopping", "failed"} => stopPc["run"] = "idle"

SInv == HandlerInState /\ BeforeRun /\ LoopRuns /\ EndIsComing /\ RunStops

-----------------------------------------------------------------------------
(* The queue. *)

LEMMA PostKeepsQueued ==
  ASSUME TypeOK, NEW e \in Event, PostEvent(e) \/ queue' = queue,
         NEW x, Queued(x)
  PROVE  Queued(x)'
<1>1. queue \in Seq(Event) /\ (queue' = queue \/ queue' = Append(queue, e))
  BY DEF TypeOK, PostEvent
<1>2. PICK i \in 1 .. Len(queue) : queue[i] = x
  BY DEF Queued
<1>3. i \in 1 .. Len(queue') /\ queue'[i] = x
  BY <1>1, <1>2
<1> QED
  BY <1>3 DEF Queued

LEMMA PostQueues ==
  ASSUME TypeOK, NEW e \in Event, PostEvent(e), loopOn, ~stopReq
  PROVE  Queued(e)'
<1>1. queue \in Seq(Event) /\ queue' = Append(queue, e)
  BY DEF TypeOK, PostEvent
<1>2. Len(queue') \in 1 .. Len(queue') /\ queue'[Len(queue')] = e
  BY <1>1
<1> QED
  BY <1>2 DEF Queued

LEMMA TakeKeepsQueued ==
  ASSUME TypeOK, NEW e \in Event, Take(e), NEW x, x # e, Queued(x)
  PROVE  Queued(x)'
<1>1. queue \in Seq(Event) /\ queue # <<>> /\ queue[1] = e /\ queue' = Tail(queue)
  BY DEF TypeOK, Take
<1>2. PICK i \in 1 .. Len(queue) : queue[i] = x
  BY DEF Queued
<1>3. i # 1
  BY <1>1, <1>2
<1>4. i - 1 \in 1 .. Len(queue') /\ queue'[i - 1] = x
  BY <1>1, <1>2, <1>3
<1> QED
  BY <1>4 DEF Queued

-----------------------------------------------------------------------------
(* The steps of the other threads do not touch the session: they post events, *)
(* begin or carry on a stop, or take the link to xiaozhi down.              *)

QueueGrows == queue' = queue \/ \E e \in Event : PostEvent(e)

Quiet ==
  /\ UNCHANGED <<ev, state, xz, lr>>
  /\ NotStopping' => NotStopping /\ UNCHANGED loopOn /\ QueueGrows
  /\ llm' = "up" => llm = "up"
  /\ run' = "init" <=> run = "init"
  /\ RunStops'

(* Most of them do not take part in a stop either. *)
Calm ==
  /\ UNCHANGED <<ev, state, loopOn, xz, lr, stopReq, stopPc>>
  /\ llm' = "up" => llm = "up"
  /\ run' = "init" <=> run = "init"
  /\ run \in {"stopping", "failed"} => run' \in {"stopping", "failed"}
  /\ QueueGrows

LEMMA QuietKeeps ==
  ASSUME TypeOK, SInv, Quiet
  PROVE  SInv'
<1>1. HandlerInState' /\ BeforeRun'
  BY DEF SInv, Quiet, HandlerInState, BeforeRun
<1>2. LoopRuns'
  BY DEF SInv, Quiet, LoopRuns
<1>3. EndIsComing'
  <2> SUFFICES ASSUME NotStopping', llm' = "up", InConversation', xz' # "open",
                      lr' # "post"
               PROVE  Queued("sessionEnd")'
    BY DEF EndIsComing
  <2>1. Queued("sessionEnd")
    BY DEF SInv, Quiet, EndIsComing, InConversation
  <2>2. CASE queue' = queue
    BY <2>1, <2>2 DEF Queued
  <2>3. CASE \E e \in Event : PostEvent(e)
    BY <2>1, <2>3, PostKeepsQueued
  <2> QED
    BY <2>2, <2>3 DEF Quiet, QueueGrows
<1> QED
  BY <1>1, <1>2, <1>3 DEF SInv, Quiet

LEMMA CalmIsQuiet ==
  ASSUME SInv, Calm
  PROVE  Quiet
<1>1. NotStopping' => NotStopping
  BY DEF Calm, NotStopping
<1>2. RunStops'
  BY DEF Calm, SInv, RunStops
<1> QED
  BY <1>1, <1>2 DEF Calm, Quiet

LEMMA RunThreadCalm ==
  ASSUME RunThread, ~RunInit, ~RunStartFailed, ~RunOrphaned
  PROVE  Calm
<1> USE DEF Calm, QueueGrows, Event, ctl, llmV, stopV
<1>1. CASE RunConnect
  BY <1>1 DEF RunConnect
<1>2. CASE RunNewClient
  BY <1>2 DEF RunNewClient
<1>3. CASE RunOpen
  BY <1>3 DEF RunOpen
<1>4. CASE RunStarted
  BY <1>4 DEF RunStarted
<1>5. CASE RunThrow
  BY <1>5 DEF RunThrow
<1>6. CASE RunReady
  BY <1>6 DEF RunReady
<1>7. CASE RunCheckStop
  BY <1>7 DEF RunCheckStop
<1>8. CASE RunPark
  BY <1>8 DEF RunPark
<1> QED
  BY <1>1, <1>2, <1>3, <1>4, <1>5, <1>6, <1>7, <1>8 DEF RunThread

LEMMA ReaderCalm ==
  ASSUME Reader
  PROVE  Calm
<1> USE DEF Calm, QueueGrows, Event, ctl, llmV, stopV, readerFrame
<1>1. CASE ReaderStart
  BY <1>1 DEF ReaderStart
<1>2. CASE ReaderLoop
  BY <1>2 DEF ReaderLoop
<1>3. CASE ReaderRead
  BY <1>3 DEF ReaderRead
<1>4. CASE ReaderEof
  BY <1>4 DEF ReaderEof
<1>5. CASE ReaderCheckHit
  BY <1>5 DEF ReaderCheckHit
<1>6. CASE ReaderPostHit
  BY <1>6 DEF ReaderPostHit
<1>7. CASE ReaderCheckLost
  BY <1>7 DEF ReaderCheckLost
<1>8. CASE ReaderPostLost
  BY <1>8 DEF ReaderPostLost
<1> QED
  BY <1>1, <1>2, <1>3, <1>4, <1>5, <1>6, <1>7, <1>8 DEF Reader

LEMMA CallbackCalm ==
  ASSUME Callback
  PROVE  Calm
<1> USE DEF Calm, QueueGrows, Event, ctl, llmV, stopV, cbFrame
<1>1. CASE CbCheck
  BY <1>1 DEF CbCheck
<1>2. CASE CbPost
  BY <1>2 DEF CbPost
<1>3. CASE NkCheck
  BY <1>3 DEF NkCheck
<1>4. CASE NkPost
  BY <1>4 DEF NkPost
<1> QED
  BY <1>1, <1>2, <1>3, <1>4 DEF Callback

LEMMA EnvironmentCalm ==
  ASSUME Environment, ~XzEndsSession, ~SupervisorStop
  PROVE  Calm
<1> USE DEF Calm, QueueGrows, Event, ctl, llmV, stopV, readerFrame, cbFrame, envFrame
<1>1. CASE KwsHit
  BY <1>1 DEF KwsHit
<1>2. CASE WsDrop
  BY <1>2 DEF WsDrop
<1>3. CASE WsReopen
  BY <1>3 DEF WsReopen
<1>4. CASE WsText
  BY <1>4 DEF WsText
<1>5. CASE NativeKws
  BY <1>5 DEF NativeKws
<1>6. CASE LlmDrop
  BY <1>6 DEF LlmDrop
<1>7. CASE KwsDrop
  BY <1>7 DEF KwsDrop
<1>8. CASE AecDrop
  BY <1>8 DEF AecDrop
<1>9. CASE WsRetryFails
  BY <1>9 DEF WsRetryFails
<1>10. CASE (\E t \in {"ev", "aec"} : SendBlocks(t)) \/ XzReads
  BY <1>10 DEF SendBlocks, XzReads
<1> QED
  BY <1>1, <1>2, <1>3, <1>4, <1>5, <1>6, <1>7, <1>8, <1>9, <1>10 DEF Environment

LEMMA RouterCalm ==
  ASSUME RouterTake \/ RouterWrite
  PROVE  Calm
<1> USE DEF Calm, QueueGrows, Event, ctl, llmV, stopV, routerFrame
<1>1. CASE RouterTake
  BY <1>1 DEF RouterTake
<1>2. CASE RouterWrite
  BY <1>2 DEF RouterWrite
<1> QED
  BY <1>1, <1>2

(* The steps of a stop: they are quiet, since nothing but the first of them is *)
(* possible before the flag is set.                                        *)
LEMMA StopQuiet ==
  ASSUME TypeOK, SInv, NEW c \in Caller, Stop(c)
  PROVE  Quiet
<1> USE DEF Quiet, QueueGrows, Event, Caller, NotStopping, RunStops, SInv, ctl, llmV, stopV,
     StopStep, stopFrame, TypeOK
<1>1. CASE StopFlag(c)
  BY <1>1 DEF StopFlag, RequestStop
<1>2. CASE StopClient(c)
  BY <1>2 DEF StopClient
<1>3. CASE StopSockets(c)
  BY <1>3 DEF StopSockets
<1>4. CASE StopLoop(c)
  BY <1>4 DEF StopLoop
<1>5. CASE StopJoinEventThread(c)
  BY <1>5 DEF StopJoinEventThread
<1>6. CASE StopJoinReader(c)
  BY <1>6 DEF StopJoinReader
<1>7. CASE StopLlm(c)
  BY <1>7 DEF StopLlm
<1> QED
  BY <1>1, <1>2, <1>3, <1>4, <1>5, <1>6, <1>7 DEF Stop

LEMMA StopBeginsQuiet ==
  ASSUME TypeOK, SInv, RunStartFailed \/ RunOrphaned \/ SupervisorStop
  PROVE  Quiet
<1> USE DEF Quiet, QueueGrows, Event, Caller, NotStopping, RunStops, SInv, ctl, llmV, stopV,
     StopStep, TypeOK
<1>1. CASE RunStartFailed
  BY <1>1 DEF RunStartFailed
<1>2. CASE RunOrphaned
  BY <1>2 DEF RunOrphaned
<1>3. CASE SupervisorStop
  BY <1>3 DEF SupervisorStop
<1> QED
  BY <1>1, <1>2, <1>3

-----------------------------------------------------------------------------
(* The steps of the event thread. *)

(* What all of them leave alone. *)
Serving ==
  /\ UNCHANGED <<loopOn, stopPc, llm, lr>>
  /\ stopReq' = stopReq \/ stopReq'
  /\ run' = "init" <=> run = "init"
  /\ run \in {"stopping", "failed"} => run' \in {"stopping", "failed"}
  /\ ev # "none"

LEMMA EventThreadServes ==
  ASSUME EventThread
  PROVE  Serving
<1> USE DEF Serving, evFrame, relinkFrame, stopV, llmV, Take, RequestStop
<1>1. CASE EvExit
  BY <1>1 DEF EvExit
<1>2. CASE HandleFrontendReady
  BY <1>2 DEF HandleFrontendReady
<1>3. CASE HandleReconnectRequired
  BY <1>3 DEF HandleReconnectRequired
<1>4. CASE HandleSessionStart
  BY <1>4 DEF HandleSessionStart
<1>5. CASE SendSessionStart
  BY <1>5 DEF SendSessionStart
<1>6. CASE PrepareLlmStart
  BY <1>6 DEF PrepareLlmStart
<1>7. CASE LlmStartReturns
  BY <1>7 DEF LlmStartReturns
<1>8. CASE SendSessionEndOnFailure
  BY <1>8 DEF SendSessionEndOnFailure
<1>9. CASE HandleSoundboxNativeKws
  BY <1>9 DEF HandleSoundboxNativeKws
<1>10. CASE HandleSessionStop
  BY <1>10 DEF HandleSessionStop
<1>11. CASE PrepareLlmStop
  BY <1>11 DEF PrepareLlmStop
<1>12. CASE FinishSessionStop
  BY <1>12 DEF FinishSessionStop
<1>13. CASE RelinkEnter
  BY <1>13 DEF RelinkEnter
<1>14. CASE RelinkStopClient
  BY <1>14 DEF RelinkStopClient
<1>15. CASE RelinkCloseSockets
  BY <1>15 DEF RelinkCloseSockets
<1>16. CASE RelinkNewClient
  BY <1>16 DEF RelinkNewClient
<1>17. CASE RelinkStarted
  BY <1>17 DEF RelinkStarted
<1>18. CASE RelinkConnect
  BY <1>18 DEF RelinkConnect
<1>19. CASE RelinkJoinReader
  BY <1>19 DEF RelinkJoinReader
<1>20. CASE RelinkFail
  BY <1>20 DEF RelinkFail
<1>21. CASE SendWakeupAck
  BY <1>21 DEF SendWakeupAck
<1>22. CASE SendSessionEnd
  BY <1>22 DEF SendSessionEnd
<1> QED
  BY <1>1, <1>2, <1>3, <1>4, <1>5, <1>6, <1>7, <1>8, <1>9, <1>10, <1>11,
     <1>12, <1>13, <1>14, <1>15, <1>16, <1>17, <1>18, <1>19, <1>20, <1>21, <1>22 DEF EventThread

LEMMA ServingKeeps ==
  ASSUME SInv, Serving
  PROVE  /\ BeforeRun' /\ LoopRuns' /\ RunStops'
         /\ NotStopping' => NotStopping /\ loopOn /\ ~stopReq
<1>1. run # "init" /\ run' # "init"
  BY DEF SInv, Serving, BeforeRun
<1>2. NotStopping' => NotStopping /\ loopOn /\ ~stopReq
  BY <1>1 DEF SInv, Serving, LoopRuns, NotStopping
<1> QED
  BY <1>1, <1>2 DEF SInv, Serving, BeforeRun, LoopRuns, RunStops

LEMMA HandlerInStateKept ==
  ASSUME TypeOK, SInv, EventThread
  PROVE  HandlerInState'
<1> USE DEF SInv, HandlerInState, SetState, ctl, Take
<1>0. state \in State
  BY DEF TypeOK
<1>1. CASE EvExit
  BY <1>1, <1>0 DEF EvExit
<1>2. CASE HandleFrontendReady
  BY <1>2, <1>0 DEF HandleFrontendReady
<1>3. CASE HandleReconnectRequired
  BY <1>3, <1>0 DEF HandleReconnectRequired
<1>4. CASE HandleSessionStart
  BY <1>4, <1>0 DEF HandleSessionStart
<1>5. CASE SendSessionStart
  BY <1>5, <1>0 DEF SendSessionStart
<1>6. CASE PrepareLlmStart
  BY <1>6, <1>0 DEF PrepareLlmStart
<1>7. CASE LlmStartReturns
  BY <1>7, <1>0 DEF LlmStartReturns
<1>8. CASE SendSessionEndOnFailure
  BY <1>8, <1>0 DEF SendSessionEndOnFailure
<1>9. CASE HandleSoundboxNativeKws
  BY <1>9, <1>0 DEF HandleSoundboxNativeKws
<1>10. CASE HandleSessionStop
  BY <1>10, <1>0 DEF HandleSessionStop
<1>11. CASE PrepareLlmStop
  BY <1>11, <1>0 DEF PrepareLlmStop
<1>12. CASE FinishSessionStop
  BY <1>12, <1>0 DEF FinishSessionStop
<1>13. CASE RelinkEnter
  BY <1>13, <1>0 DEF RelinkEnter
<1>14. CASE RelinkStopClient
  BY <1>14, <1>0 DEF RelinkStopClient
<1>15. CASE RelinkCloseSockets
  BY <1>15, <1>0 DEF RelinkCloseSockets
<1>16. CASE RelinkNewClient
  BY <1>16, <1>0 DEF RelinkNewClient
<1>17. CASE RelinkStarted
  BY <1>17, <1>0 DEF RelinkStarted
<1>18. CASE RelinkConnect
  BY <1>18, <1>0 DEF RelinkConnect
<1>19. CASE RelinkJoinReader
  BY <1>19, <1>0 DEF RelinkJoinReader
<1>20. CASE RelinkFail
  BY <1>20, <1>0 DEF RelinkFail
<1>21. CASE SendWakeupAck
  BY <1>21, <1>0 DEF SendWakeupAck
<1>22. CASE SendSessionEnd
  BY <1>22, <1>0 DEF SendSessionEnd
<1> QED
  BY <1>1, <1>2, <1>3, <1>4, <1>5, <1>6, <1>7, <1>8, <1>9, <1>10, <1>11,
     <1>12, <1>13, <1>14, <1>15, <1>16, <1>17, <1>18, <1>19, <1>20, <1>21, <1>22 DEF EventThread

(* Outside a conversation there is nothing to show; in one, the event thread *)
(* keeps what it has: it takes no session_end without leaving Started.      *)
LEMMA EndIsComingKept ==
  ASSUME TypeOK, SInv, EventThread
  PROVE  EndIsComing'
<1> SUFFICES ASSUME NotStopping', llm' = "up", InConversation'
             PROVE  (xz = "open" \/ lr = "post" \/ Queued("sessionEnd"))'
  BY DEF EndIsComing
<1>a. /\ NotStopping /\ llm = "up" /\ lr' = lr
      /\ state \in State /\ HandlerInState
      /\ InConversation => xz = "open" \/ lr = "post" \/ Queued("sessionEnd")
  BY EventThreadServes, ServingKeeps DEF Serving, SInv, EndIsComing, TypeOK
<1>b. ASSUME InConversation, xz' = xz, QueueGrows
      PROVE  (xz = "open" \/ lr = "post" \/ Queued("sessionEnd"))'
  <2>1. Queued("sessionEnd") => Queued("sessionEnd")'
    <3>1. CASE queue' = queue
      BY <3>1 DEF Queued
    <3>2. CASE \E e \in Event : PostEvent(e)
      BY <3>2, PostKeepsQueued
    <3> QED
      BY <1>b, <3>1, <3>2 DEF QueueGrows
  <2> QED
    BY <1>a, <1>b, <2>1
<1>c. ASSUME InConversation, xz' = xz,
             NEW e \in Event, Take(e), e # "sessionEnd"
      PROVE  (xz = "open" \/ lr = "post" \/ Queued("sessionEnd"))'
  BY <1>a, <1>c, TakeKeepsQueued
<1> USE DEF InConversation, HandlerInState, QueueGrows, Event, SetState, ctl, llmV, State
<1>1. CASE EvExit
  BY <1>a, <1>1, <1>b DEF EvExit
<1>2. CASE HandleFrontendReady
  BY <1>a, <1>2, <1>c DEF HandleFrontendReady, Take
<1>3. CASE HandleReconnectRequired
  BY <1>a, <1>3, <1>c DEF HandleReconnectRequired, Loss, Take
<1>4. CASE HandleSessionStart
  BY <1>a, <1>4, <1>c DEF HandleSessionStart, Take
<1>5. CASE SendSessionStart
  BY <1>a, <1>5 DEF SendSessionStart
<1>6. CASE PrepareLlmStart
  BY <1>a, <1>6, <1>b DEF PrepareLlmStart
<1>7. CASE LlmStartReturns
  BY <1>a, <1>7, <1>b DEF LlmStartReturns, CallSucceeds
<1>8. CASE SendSessionEndOnFailure
  BY <1>a, <1>8 DEF SendSessionEndOnFailure
<1>9. CASE HandleSoundboxNativeKws
  BY <1>a, <1>9, <1>c DEF HandleSoundboxNativeKws, Take
<1>10. CASE HandleSessionStop
  BY <1>a, <1>10 DEF HandleSessionStop, Take
<1>11. CASE PrepareLlmStop
  BY <1>a, <1>11 DEF PrepareLlmStop
<1>12. CASE FinishSessionStop
  BY <1>a, <1>12 DEF FinishSessionStop
<1>13. CASE RelinkEnter
  BY <1>a, <1>13 DEF RelinkEnter
<1>14. CASE RelinkStopClient
  BY <1>a, <1>14 DEF RelinkStopClient
<1>15. CASE RelinkCloseSockets
  BY <1>a, <1>15 DEF RelinkCloseSockets
<1>16. CASE RelinkNewClient
  BY <1>a, <1>16 DEF RelinkNewClient
<1>17. CASE RelinkStarted
  BY <1>a, <1>17 DEF RelinkStarted
<1>18. CASE RelinkConnect
  BY <1>a, <1>18 DEF RelinkConnect
<1>19. CASE RelinkJoinReader
  BY <1>a, <1>19 DEF RelinkJoinReader
<1>20. CASE RelinkFail
  BY <1>a, <1>20 DEF RelinkFail
<1>21. CASE SendWakeupAck
  BY <1>a, <1>21 DEF SendWakeupAck
<1>22. CASE SendSessionEnd
  BY <1>a, <1>22 DEF SendSessionEnd
<1> QED
  BY <1>1, <1>2, <1>3, <1>4, <1>5, <1>6, <1>7, <1>8, <1>9, <1>10, <1>11,
     <1>12, <1>13, <1>14, <1>15, <1>16, <1>17, <1>18, <1>19, <1>20, <1>21, <1>22 DEF EventThread

LEMMA EventThreadKeeps ==
  ASSUME TypeOK, SInv, EventThread
  PROVE  SInv'
  BY EventThreadServes, ServingKeeps, HandlerInStateKept, EndIsComingKept DEF SInv

-----------------------------------------------------------------------------
(* The steps that concern the session in another thread. *)

LEMMA RunInitKeeps ==
  ASSUME SInv, RunInit
  PROVE  SInv'
<1>1. /\ ev = "none" /\ run' = "connect" /\ state' = "Init" /\ stopPc' = stopPc
      /\ run = "init"
  BY DEF SInv, RunInit, BeforeRun
<1>2. ev' \in {"none", "idle"}
  BY <1>1 DEF RunInit
<1>3. loopOn'
  BY DEF RunInit
<1>4. RunStops'
  BY <1>1 DEF SInv, RunStops
<1> QED
  BY <1>1, <1>2, <1>3, <1>4
     DEF SInv, HandlerInState, BeforeRun, LoopRuns, EndIsComing, InConversation

LEMMA XzEndsSessionKeeps ==
  ASSUME SInv, XzEndsSession
  PROVE  SInv'
<1>1. UNCHANGED <<run, ev, state, loopOn, stopReq, stopPc>> /\ lr' = "post"
  BY DEF XzEndsSession, envFrame, ctl, stopV
<1> QED
  BY <1>1 DEF SInv, HandlerInState, BeforeRun, LoopRuns, EndIsComing, RunStops,
              NotStopping

LEMMA OnLlmSessionEndKeeps ==
  ASSUME TypeOK, SInv, OnLlmSessionEnd
  PROVE  SInv'
<1>1. /\ UNCHANGED <<run, ev, state, loopOn, stopReq, stopPc, llm, xz>>
      /\ PostEvent("sessionEnd")
  BY DEF OnLlmSessionEnd, envFrame, ctl, stopV
<1>2. HandlerInState' /\ BeforeRun' /\ LoopRuns' /\ RunStops'
  BY <1>1 DEF SInv, HandlerInState, BeforeRun, LoopRuns, RunStops, NotStopping
<1>3. EndIsComing'
  <2> SUFFICES ASSUME NotStopping', InConversation'
               PROVE  Queued("sessionEnd")'
    BY DEF EndIsComing
  <2>1. NotStopping /\ ~stopReq /\ InConversation
    BY <1>1 DEF NotStopping, InConversation
  <2>2. loopOn
    BY <2>1 DEF SInv, LoopRuns, BeforeRun, InConversation
  <2> QED
    BY <1>1, <2>1, <2>2, PostQueues DEF Event
<1> QED
  BY <1>2, <1>3 DEF SInv

LEMMA StutterCalm == UNCHANGED vars => Calm
  BY DEF vars, Calm, QueueGrows, ctl, stopV, llmV

LEMMA SInvHoldsInitially == Init => SInv
<1> SUFFICES ASSUME Init PROVE SInv
  OBVIOUS
<1>1. /\ run = "init" /\ ev = "none" /\ state = "Init"
      /\ stopPc["run"] = "idle"
  BY DEF Init, Caller
<1> QED
  BY <1>1 DEF SInv, HandlerInState, BeforeRun, LoopRuns, EndIsComing, InConversation, RunStops

LEMMA SInvKept == TypeOK /\ SInv /\ [Next]_vars => SInv'
<1> SUFFICES ASSUME TypeOK, SInv, [Next]_vars PROVE SInv'
  OBVIOUS
<1>1. Calm => SInv'
  BY CalmIsQuiet, QuietKeeps
<1>2. CASE RunThread
  BY <1>1, <1>2, RunInitKeeps, RunThreadCalm, StopBeginsQuiet, QuietKeeps
<1>3. CASE EventThread
  BY <1>3, EventThreadKeeps
<1>4. CASE \E c \in Caller : Stop(c)
  BY <1>4, StopQuiet, QuietKeeps
<1>5. CASE Reader \/ Callback \/ RouterTake \/ RouterWrite \/ UNCHANGED vars
  BY <1>1, <1>5, ReaderCalm, CallbackCalm, RouterCalm, StutterCalm
<1>6. CASE OnLlmSessionEnd
  BY <1>6, OnLlmSessionEndKeeps
<1>7. CASE Environment
  BY <1>1, <1>7, XzEndsSessionKeeps, EnvironmentCalm, StopBeginsQuiet, QuietKeeps
<1> QED
  BY <1>2, <1>3, <1>4, <1>5, <1>6, <1>7 DEF Next

LEMMA SInvHolds == Spec => [](TypeOK /\ SInv)
<1>1. Init => TypeOK /\ SInv
  BY InitTyped, SInvHoldsInitially
<1>2. TypeOK /\ SInv /\ [Next]_vars => (TypeOK /\ SInv)'
  BY NextTyped, SInvKept
<1> QED
  BY <1>1, <1>2, PTL DEF Spec

(* A started session is never left behind by its upstream, whatever calls     *)
(* fail, events race and threads interleave: xiaozhi has the session open,   *)
(* or its session_end is on the way to the event thread.                   *)
THEOREM StartedHasUpstreamAlways == Spec => []StartedHasUpstream
<1>1. SInv => StartedHasUpstream
  BY DEF SInv, EndIsComing, InConversation, StartedHasUpstream, Settled
<1> QED
  BY <1>1, SInvHolds, PTL

-----------------------------------------------------------------------------
(* The refinement: every step of the Frontend is a step of the lifecycle, or   *)
(* leaves phase, upstream and link alone.                                  *)

LifeStep == Life!LifeNext \/ UNCHANGED <<Phase, xz, llm>>

LEMMA QuietIsLinkDown ==
  ASSUME TypeOK, TypeOK', Quiet
  PROVE  LifeStep
<1>1. Phase' = Phase /\ xz' = xz
  BY DEF Quiet, Phase
<1>2. llm' = llm \/ (llm = "up" /\ llm' = "down")
  BY DEF TypeOK, Quiet
<1> QED
  BY <1>1, <1>2 DEF LifeStep, Life!LifeNext, Life!LinkDown

LEMMA EventThreadImplements ==
  ASSUME TypeOK, SInv, EventThread
  PROVE  LifeStep
<1>a. state \in State /\ llm \in {"up", "down"} /\ HandlerInState
  BY DEF TypeOK, SInv
<1> USE DEF LifeStep, Life!LifeNext, Life!Move, Phase, HandlerInState, State,
            SetState, ctl, llmV
<1>1. CASE EvExit
  BY <1>a, <1>1 DEF EvExit, evFrame
<1>2. CASE HandleFrontendReady
  BY <1>a, <1>2 DEF HandleFrontendReady, Take, evFrame, Life!Ready
<1>3. CASE HandleReconnectRequired
  BY <1>a, <1>3 DEF HandleReconnectRequired, Take, evFrame
<1>4. CASE HandleSessionStart
  <2>1. ev = "idle" /\ UNCHANGED <<xz, llm>>
    BY <1>4 DEF HandleSessionStart, Take
  <2>2. CASE state = "Stopped"
    <3>1. state' = "Starting" /\ ev' = "starting"
      BY <1>4, <2>2 DEF HandleSessionStart
    <3>2. Life!Wake
      BY <2>1, <2>2, <3>1 DEF Life!Wake
    <3> QED
      BY <3>2
  <2>3. CASE state # "Stopped"
    BY <1>4, <2>1, <2>3 DEF HandleSessionStart
  <2> QED
    BY <2>2, <2>3
<1>5. CASE SendSessionStart
  <2>1. ev = "offer" /\ state = "Starting" /\ llm' = llm
    BY <1>a, <1>5 DEF SendSessionStart
  <2>2. CASE llm = "up"
    <3>1. state' = "Starting" /\ ev' = "llmStart" /\ xz' = "open"
      BY <1>5, <2>1, <2>2 DEF SendSessionStart
    <3>2. Life!Offer
      BY <2>1, <2>2, <3>1 DEF Life!Offer
    <3> QED
      BY <3>2
  <2>3. CASE llm = "down"
    <3>1. state' = "Stopped" /\ ev' = "idle" /\ xz' = xz
      BY <1>5, <2>3 DEF SendSessionStart
    <3>2. Life!Decline
      BY <2>1, <2>3, <3>1 DEF Life!Decline
    <3> QED
      BY <3>2
  <2> QED
    BY <1>a, <2>2, <2>3
<1>6. CASE PrepareLlmStart
  BY <1>a, <1>6 DEF PrepareLlmStart, evFrame, Life!Engage
<1>7. CASE LlmStartReturns
  BY <1>a, <1>7 DEF LlmStartReturns, evFrame, Life!Engage
<1>8. CASE SendSessionEndOnFailure
  BY <1>a, <1>8 DEF SendSessionEndOnFailure, evFrame, Life!Withdraw, Life!TellEnd
<1>9. CASE HandleSoundboxNativeKws
  BY <1>a, <1>9 DEF HandleSoundboxNativeKws, Take, evFrame
<1>10. CASE HandleSessionStop
  BY <1>a, <1>10 DEF HandleSessionStop, Take, evFrame, Life!Finish
<1>11. CASE PrepareLlmStop
  BY <1>a, <1>11 DEF PrepareLlmStop, evFrame, Life!Idle
<1>12. CASE FinishSessionStop
  BY <1>a, <1>12 DEF FinishSessionStop, evFrame, Life!Idle
<1>13. CASE RelinkEnter
  BY <1>a, <1>13 DEF RelinkEnter, relinkFrame, Life!Lose
<1>14. CASE RelinkStopClient
  BY <1>a, <1>14 DEF RelinkStopClient, relinkFrame
<1>15. CASE RelinkCloseSockets
  BY <1>a, <1>15 DEF RelinkCloseSockets, relinkFrame
<1>16. CASE RelinkNewClient
  BY <1>a, <1>16 DEF RelinkNewClient, relinkFrame
<1>17. CASE RelinkStarted
  BY <1>a, <1>17 DEF RelinkStarted, relinkFrame
<1>18. CASE RelinkConnect
  BY <1>a, <1>18 DEF RelinkConnect, relinkFrame
<1>19. CASE RelinkJoinReader
  BY <1>a, <1>19 DEF RelinkJoinReader, relinkFrame, Life!Ready
<1>20. CASE RelinkFail
  BY <1>a, <1>20 DEF RelinkFail, relinkFrame
<1>21. CASE SendWakeupAck
  BY <1>a, <1>21 DEF SendWakeupAck, evFrame
<1>22. CASE SendSessionEnd
  BY <1>a, <1>22 DEF SendSessionEnd, evFrame, Life!Interrupt, Life!TellEnd
<1> QED
  BY <1>1, <1>2, <1>3, <1>4, <1>5, <1>6, <1>7, <1>8, <1>9, <1>10, <1>11,
     <1>12, <1>13, <1>14, <1>15, <1>16, <1>17, <1>18, <1>19, <1>20, <1>21, <1>22 DEF EventThread

LEMMA StepImplements == TypeOK /\ SInv /\ [Next]_vars => LifeStep
<1> SUFFICES ASSUME TypeOK, SInv, [Next]_vars PROVE LifeStep
  OBVIOUS
<1>1. TypeOK'
  BY NextTyped
<1>2. Quiet => LifeStep
  BY <1>1, QuietIsLinkDown
<1>3. Calm => LifeStep
  BY <1>2, CalmIsQuiet
<1>4. CASE RunInit
  <2>1. ev = "none" /\ state = "Init" /\ state' = "Init" /\ UNCHANGED <<xz, llm>>
    BY <1>4 DEF SInv, BeforeRun, RunInit, llmV
  <2> QED
    BY <2>1 DEF LifeStep, Phase
<1>5. CASE RunThread
  BY <1>2, <1>3, <1>4, <1>5, RunThreadCalm, StopBeginsQuiet
<1>6. CASE EventThread
  BY <1>6, EventThreadImplements
<1>7. CASE \E c \in Caller : Stop(c)
  BY <1>2, <1>7, StopQuiet
<1>8. CASE Reader \/ Callback \/ RouterTake \/ RouterWrite \/ UNCHANGED vars
  BY <1>3, <1>8, ReaderCalm, CallbackCalm, RouterCalm, StutterCalm
<1>9. CASE OnLlmSessionEnd
  BY <1>9 DEF OnLlmSessionEnd, envFrame, ctl, LifeStep, Phase
<1>10. CASE XzEndsSession
  BY <1>10 DEF XzEndsSession, envFrame, ctl, LifeStep, Phase, Life!LifeNext,
               Life!XiaozhiEnds
<1>11. CASE Environment
  BY <1>2, <1>3, <1>10, <1>11, EnvironmentCalm, StopBeginsQuiet
<1> QED
  BY <1>5, <1>6, <1>7, <1>8, <1>9, <1>11 DEF Next

LEMMA InitImplements == Init => Life!LifeInit
  BY DEF Init, Life!LifeInit, Phase

(* The Frontend implements the lifecycle of a conversation (SessionLifecycle). *)
THEOREM LifecycleImplemented == Spec => ImplementsLifecycle
<1>1. TypeOK /\ SInv /\ [Next]_vars => [Life!LifeNext]_(Life!lifeVars)
  BY StepImplements DEF LifeStep, Life!lifeVars
<1> QED
  BY <1>1, InitImplements, SInvHolds, PTL
     DEF Spec, ImplementsLifecycle, Life!LifeSpec

-----------------------------------------------------------------------------
(* The inductive invariant of the links: the client, the sockets, the reader.  *)

Relinking == {"relinkEnter", "relinkStop", "relinkClose", "relinkNew", "relinkStart",
              "relinkConnect", "relinkJoin", "relinkFail"}

(* Until a stop, the gates are those of the state. *)
GateFollows == NotStopping => gate = GateOf(state)

(* Without a client nothing has happened yet. *)
NothingYet ==
  cli = "none" =>
    /\ state = "Init" /\ ev \in {"none", "idle", "exited"} /\ queue = <<>>
    /\ rt = "idle" /\ rd = "none" /\ cb = "idle" /\ nk = "idle"
    /\ lr = "idle" /\ xz = "idle"

(* Run starts the event thread, makes the first client, and starts that before *)
(* any session.                                                            *)
FirstClient ==
  /\ ev = "none" => run = "init" /\ ~loopOn
  /\ run \in {"init", "connect", "client"} => cli = "none"
  /\ run \notin {"init", "connect", "client", "failed"} => cli # "none"
  /\ run \in {"open", "start"} =>
       /\ state = "Init"
       /\ ev \in {"idle", "exited", "relinkEnter", "relinkStop", "relinkClose", "relinkNew"}
       /\ ~Queued("ready")

(* The sockets are missing only in the middle of a reconnect. *)
SocketsThere ==
  NotStopping /\ (cli # "none" \/ run = "client")
    /\ ev \notin {"relinkNew", "relinkStart", "relinkConnect", "relinkFail"}
  => kws # "none" /\ aec # "none"

(* The client that is reconnected has no packet in the hands of its router. *)
RouterQuiet ==
  NotStopping /\ ev \in Relinking \ {"relinkEnter", "relinkStop"} => rt = "idle"

(* Outside a reconnect somebody watches the KWS socket, or its loss is queued. *)
Watched ==
  NotStopping /\ cli # "none" /\ ev \notin Relinking =>
    LossQueued \/ rd = "start" \/ (rdCur /\ rd \notin {"none", "done"})

(* The callbacks of the client count, unless it is about to be replaced.     *)
ClientCurrent ==
  NotStopping /\ cli # "none" /\ ev \notin {"relinkStop", "relinkClose", "relinkNew"} => cliCur

(* The loss of the connection is on its way to the event thread. *)
LossComing == Queued("wsLost") \/ cb = "lossPost" \/ (cb = "lossCheck" /\ cliCur)

DownIsLoss ==
  NotStopping /\ cli = "on" /\ ws = "down"
    /\ ev \notin {"relinkEnter", "relinkStop", "relinkClose", "relinkNew"}
  => LossComing

(* The mode that the step of the event thread expects. *)
KwsExpected ==
  \/ ev = "idle" /\ state = "Stopped"
  \/ ev = "idle" /\ state = "Init" /\ cli # "none" /\ run \notin {"open", "start"}
  \/ ev \in {"starting", "offer", "llmStart", "xzEnd", "relinkConnect", "relinkJoin"}
SessionExpected == ev \in {"tellEnd", "llmStop"} \/ (ev = "idle" /\ state = "Started")

ModeExpected ==
  NotStopping /\ ~LossComing =>
    (KwsExpected => mode = "Kws") /\ (SessionExpected => mode = "LlmWorking")

LInv ==
  /\ GateFollows /\ NothingYet /\ FirstClient /\ SocketsThere /\ RouterQuiet /\ Watched
  /\ ClientCurrent /\ DownIsLoss /\ ModeExpected

LEMMA PostAddsOnly ==
  ASSUME TypeOK, NEW e \in Event, PostEvent(e), NEW x, Queued(x)', x # e
  PROVE  Queued(x)
<1>1. queue \in Seq(Event) /\ (queue' = queue \/ queue' = Append(queue, e))
  BY DEF TypeOK, PostEvent
<1>2. PICK i \in 1 .. Len(queue') : queue'[i] = x
  BY DEF Queued
<1>3. i \in 1 .. Len(queue) /\ queue[i] = x
  BY <1>1, <1>2
<1> QED
  BY <1>3 DEF Queued

LEMMA TakeTakes ==
  ASSUME TypeOK, NEW e \in Event, Take(e)
  PROVE  /\ queue # <<>> /\ Queued(e)
         /\ \A x : Queued(x)' => Queued(x)
<1>1. /\ queue \in Seq(Event) /\ queue # <<>> /\ queue[1] = e /\ queue' = Tail(queue)
      /\ 1 \in 1 .. Len(queue)
  BY DEF TypeOK, Take
<1>2. \A i \in 1 .. Len(queue') : i + 1 \in 1 .. Len(queue) /\ queue'[i] = queue[i + 1]
  BY <1>1
<1> QED
  BY <1>1, <1>2 DEF Queued

(* Every step of the event thread but its end is one for a client.          *)
LEMMA EventThreadHasClient ==
  ASSUME TypeOK, NothingYet, EventThread, ~EvExit
  PROVE  cli # "none" /\ cli' # "none"
<1>1. /\ ev # "idle" \/ queue # <<>>
      /\ cli' = "none" => cli = "none"
      /\ ev \notin {"none", "exited"}
  BY DEF EventThread, HandleFrontendReady, HandleReconnectRequired, HandleSessionStart,
         SendWakeupAck, SendSessionStart, PrepareLlmStart, LlmStartReturns,
         SendSessionEndOnFailure, HandleSoundboxNativeKws, SendSessionEnd, HandleSessionStop,
         PrepareLlmStop, FinishSessionStop, RelinkEnter, RelinkStopClient, RelinkCloseSockets,
         RelinkNewClient, RelinkStarted, RelinkConnect, RelinkJoinReader, RelinkFail, Take,
         cliV, ClientStop, NewClient
<1> QED
  BY <1>1 DEF NothingYet

Handler ==
  \/ EvExit
  \/ HandleFrontendReady \/ HandleReconnectRequired \/ HandleSessionStart
  \/ SendWakeupAck \/ SendSessionStart \/ PrepareLlmStart \/ LlmStartReturns
  \/ SendSessionEndOnFailure \/ HandleSoundboxNativeKws \/ SendSessionEnd
  \/ HandleSessionStop \/ PrepareLlmStop \/ FinishSessionStop

Relink ==
  \/ RelinkEnter \/ RelinkStopClient \/ RelinkCloseSockets \/ RelinkNewClient
  \/ RelinkStarted \/ RelinkConnect \/ RelinkJoinReader \/ RelinkFail

(* What the handlers leave alone.                                           *)
LEMMA HandlerFrame ==
  ASSUME Handler
  PROVE  /\ UNCHANGED <<run, loopOn, stopReq, stopPc, kws, aec, rd, rdCur, cb, nk, rt, cli, cliCur>>
         /\ UNCHANGED lr /\ ev \notin Relinking
         /\ UNCHANGED <<state, gate>> \/ \E st : SetState(st)
         /\ ws' = "down" => ws = "down"
BY DEF Handler, EvExit, HandleFrontendReady, HandleReconnectRequired, HandleSessionStart,
       SendWakeupAck, SendSessionStart, PrepareLlmStart, LlmStartReturns,
       SendSessionEndOnFailure, HandleSoundboxNativeKws, SendSessionEnd, HandleSessionStop,
       PrepareLlmStop, FinishSessionStop, Take, CallSucceeds, CallFails, CanReopen, evFrame,
       socks, rdV, cliV, nkV, stopV, llmV, ctl, Relinking

(* The handlers take no loss without beginning a reconnect, and post nothing   *)
(* but a loss.                                                             *)
LEMMA HandlerQueue ==
  ASSUME TypeOK, Handler
  PROVE  /\ \A e \in Loss : Queued(e) => Queued(e)' \/ ev' = "relinkEnter"
         /\ Queued("ready")' => Queued("ready")
         /\ ev' \notin (Relinking \ {"relinkEnter"}) \cup {"none"}
<1> USE DEF Relinking, Event, Loss
<1>1. ASSUME NEW e \in Event, Take(e)
      PROVE  \A x : (Queued(x)' => Queued(x)) /\ (x # e /\ Queued(x) => Queued(x)')
  BY <1>1, TakeTakes, TakeKeepsQueued
<1>2. ASSUME PostEvent("wsLost") \/ queue' = queue
      PROVE  /\ Queued("ready")' => Queued("ready")
             /\ \A x : Queued(x) => Queued(x)'
  <2>1. CASE PostEvent("wsLost")
    BY <2>1, PostAddsOnly, PostKeepsQueued
  <2>2. CASE queue' = queue
    BY <2>2 DEF Queued
  <2> QED
    BY <1>2, <2>1, <2>2
<1>3. CASE \/ EvExit \/ SendWakeupAck \/ SendSessionStart \/ PrepareLlmStart
           \/ SendSessionEndOnFailure \/ SendSessionEnd \/ PrepareLlmStop
  BY <1>2, <1>3 DEF EvExit, SendWakeupAck, SendSessionStart, SendSessionEnd, PrepareLlmStart,
       SendSessionEndOnFailure, PrepareLlmStop
<1>4. CASE LlmStartReturns \/ FinishSessionStop
  BY <1>2, <1>4 DEF LlmStartReturns, FinishSessionStop, CallSucceeds, CallFails
<1>5. CASE HandleFrontendReady \/ HandleSessionStart \/ HandleSoundboxNativeKws \/ HandleSessionStop
  <2>1. ev = "idle" /\ ev' \in {"idle", "starting", "tellEnd", "llmStop"}
    BY <1>5 DEF HandleFrontendReady, HandleSessionStart, HandleSoundboxNativeKws, SendSessionEnd,
                HandleSessionStop, Take
  <2>2. \E e \in Event \ Loss : Take(e)
    BY <1>5 DEF HandleFrontendReady, HandleSessionStart, HandleSoundboxNativeKws,
                HandleSessionStop
  <2> QED
    BY <1>1, <2>1, <2>2
<1>6. CASE HandleReconnectRequired
  BY <1>1, <1>6 DEF HandleReconnectRequired
<1> QED
  BY <1>3, <1>4, <1>5, <1>6 DEF Handler

(* Before the first client is started, no handler leaves Init.              *)
LEMMA HandlerBeforeStart ==
  ASSUME TypeOK, SInv, FirstClient, run \in {"open", "start"}, Handler
  PROVE  state' = "Init" /\ ev' \in {"idle", "exited", "relinkEnter"}
<1>1. state = "Init" /\ ev = "idle" /\ ~Queued("ready")
  BY HandlerFrame DEF FirstClient, Relinking, Handler, EvExit, HandleFrontendReady,
       HandleReconnectRequired, HandleSessionStart, SendWakeupAck, SendSessionStart,
       PrepareLlmStart, LlmStartReturns, SendSessionEndOnFailure, HandleSoundboxNativeKws,
       SendSessionEnd, HandleSessionStop, PrepareLlmStop, FinishSessionStop, Take
<1>2. ~Take("ready")
  BY <1>1, TakeTakes DEF Event
<1> QED
  BY <1>1, <1>2 DEF Handler, EvExit, HandleFrontendReady, ctl, HandleReconnectRequired,
       HandleSessionStart, SendWakeupAck, SendSessionStart, PrepareLlmStart, LlmStartReturns,
       SendSessionEndOnFailure, HandleSoundboxNativeKws, SendSessionEnd, HandleSessionStop,
       PrepareLlmStop, FinishSessionStop

(* A loss that is on its way stays on its way, until the event thread begins a *)
(* reconnect.                                                              *)
LEMMA HandlerKeepsLoss ==
  ASSUME TypeOK, Handler
  PROVE  /\ LossComing => LossComing' \/ ev' = "relinkEnter"
         /\ LossQueued => LossQueued' \/ ev' = "relinkEnter"
BY HandlerFrame, HandlerQueue DEF LossComing, LossQueued, Loss

LEMMA HandlerKeepsMode ==
  ASSUME TypeOK, SInv, LInv, Handler
  PROVE  ModeExpected'
<1> SUFFICES ASSUME NotStopping', ~LossComing'
             PROVE  (KwsExpected => mode = "Kws")' /\ (SessionExpected => mode = "LlmWorking")'
  BY DEF ModeExpected
<1>1. /\ NotStopping /\ loopOn /\ ~stopReq /\ HandlerInState
      /\ state \in State
  BY EventThreadServes, ServingKeeps DEF SInv, TypeOK, Handler, EventThread
<1>2. CASE ev' = "relinkEnter"
  BY <1>2 DEF KwsExpected, SessionExpected
<1>3. CASE ev' # "relinkEnter"
  <2>1. ~LossComing /\ (KwsExpected => mode = "Kws") /\ (SessionExpected => mode = "LlmWorking")
    BY <1>1, <1>3, HandlerKeepsLoss DEF LInv, ModeExpected
  <2>2. run' = run /\ cli' = cli
    BY HandlerFrame
  <2> USE DEF KwsExpected, SessionExpected, HandlerInState, State, SetState, ctl, cliV
  <2>3. CASE EvExit
    BY <2>1, <2>2, <2>3 DEF EvExit
  <2>4. CASE HandleFrontendReady
    <3>1. ev = "idle" /\ Queued("ready") /\ queue # <<>> /\ UNCHANGED <<ev, mode>>
      BY <2>4, TakeTakes DEF HandleFrontendReady, Take, Event
    <3>2. cli # "none" /\ run \notin {"open", "start"}
      BY <3>1 DEF LInv, NothingYet, FirstClient
    <3> QED
      BY <2>1, <2>2, <2>4, <3>1, <3>2 DEF HandleFrontendReady
  <2>5. CASE HandleSessionStart
    BY <2>1, <2>2, <2>5 DEF HandleSessionStart, Take
  <2>6. CASE SendSessionStart
    BY <1>1, <2>1, <2>2, <2>6 DEF SendSessionStart
  <2>7. CASE PrepareLlmStart
    BY <1>1, <2>1, <2>2, <2>7 DEF PrepareLlmStart
  <2>8. CASE LlmStartReturns
    <3>1. CASE CallSucceeds("LlmWorking") /\ SetState("Started") /\ ev' = "idle"
      BY <3>1 DEF CallSucceeds
    <3>2. CASE CallFails /\ UNCHANGED ctl /\ ev' = "xzEnd"
      <4>1. CASE mode' = "Kws"
        BY <3>2, <4>1
      <4>2. CASE mode' # "Kws"
        <5>1. IF cliCur THEN PostEvent("wsLost") ELSE UNCHANGED queue
          BY <3>2, <4>2 DEF CallFails
        <5>2. cliCur
          <6>1. ev = "llmStartCall"
            BY <2>8 DEF LlmStartReturns
          <6> QED
            BY <1>1, <6>1 DEF LInv, ClientCurrent, NothingYet
        <5>3. Queued("wsLost")'
          BY <1>1, <5>1, <5>2, PostQueues DEF Event
        <5> QED
          BY <5>3 DEF LossComing
      <4> QED
        BY <4>1, <4>2
    <3> QED
      BY <2>8, <3>1, <3>2 DEF LlmStartReturns
  <2>9. CASE SendSessionEndOnFailure
    BY <1>1, <2>1, <2>2, <2>9 DEF SendSessionEndOnFailure
  <2>10. CASE HandleSoundboxNativeKws
    BY <2>1, <2>2, <2>10 DEF HandleSoundboxNativeKws, Take
  <2>11. CASE HandleSessionStop
    BY <2>1, <2>2, <2>11 DEF HandleSessionStop, Take
  <2>12. CASE PrepareLlmStop
    BY <1>1, <2>1, <2>2, <2>12 DEF PrepareLlmStop
  <2>13. CASE FinishSessionStop
    BY <1>3, <2>13 DEF FinishSessionStop, CallSucceeds
  <2>14. CASE SendWakeupAck
    BY <1>1, <1>3, <2>1, <2>2, <2>14 DEF SendWakeupAck, evFrame, stopV
  <2>15. CASE SendSessionEnd
    BY <1>1, <2>1, <2>2, <2>15 DEF SendSessionEnd
  <2> QED
    BY <1>3, <2>3, <2>4, <2>5, <2>6, <2>7, <2>8, <2>9, <2>10, <2>11, <2>12, <2>13, <2>14, <2>15
       DEF Handler, HandleReconnectRequired
<1> QED
  BY <1>2, <1>3

LEMMA HandlersKeepLinks ==
  ASSUME TypeOK, SInv, LInv, Handler
  PROVE  LInv'
<1>1. NotStopping' => NotStopping
  BY EventThreadServes, ServingKeeps DEF Handler, EventThread
<1>2. GateFollows'
  BY <1>1, HandlerFrame DEF LInv, GateFollows, SetState
<1>3. NothingYet'
  <2>1. CASE EvExit
    BY <2>1 DEF EvExit, LInv, NothingYet, evFrame, ctl, rdV, nkV, cliV, llmV
  <2>2. CASE ~EvExit
    BY <2>2, EventThreadHasClient DEF LInv, NothingYet, Handler, EventThread
  <2> QED
    BY <2>1, <2>2
<1>4. FirstClient'
  <2>1. run' = run /\ cli' = cli
    BY HandlerFrame
  <2> QED
    BY <2>1, HandlerBeforeStart, HandlerQueue DEF LInv, FirstClient
<1>5. SocketsThere' /\ RouterQuiet' /\ ClientCurrent'
  BY <1>1, HandlerFrame, HandlerQueue DEF LInv, SocketsThere, RouterQuiet, ClientCurrent, Relinking
<1>6. Watched'
  BY <1>1, HandlerFrame, HandlerKeepsLoss DEF LInv, Watched, Relinking
<1>7. DownIsLoss'
  BY <1>1, HandlerFrame, HandlerKeepsLoss DEF LInv, DownIsLoss, Relinking
<1> QED
  BY <1>2, <1>3, <1>4, <1>5, <1>6, <1>7, HandlerKeepsMode DEF LInv

(* A reconnect takes the client and the sockets away and puts new ones in     *)
(* their places.                                                           *)
LEMMA RelinkKeepsLinks ==
  ASSUME TypeOK, SInv, LInv, Relink
  PROVE  LInv'
<1>a. /\ NotStopping' => NotStopping
      /\ HandlerInState /\ cli # "none" /\ cli' # "none"
      /\ ev \in Relinking
  BY EventThreadServes, ServingKeeps, EventThreadHasClient
     DEF SInv, LInv, Relink, EventThread, Relinking, RelinkEnter, RelinkStopClient,
         RelinkCloseSockets, RelinkNewClient, RelinkStarted, RelinkConnect, RelinkJoinReader,
         RelinkFail, EvExit
<1>b. \A x : Queued(x)' <=> Queued(x)
  <2>1. queue' = queue
    BY DEF Relink, RelinkEnter, RelinkStopClient, RelinkCloseSockets, RelinkNewClient,
           RelinkStarted, RelinkConnect, RelinkJoinReader, RelinkFail
  <2> QED
    BY <2>1 DEF Queued
<1>c. NothingYet'
  BY <1>a DEF NothingYet
<1> USE DEF LInv, GateFollows, FirstClient, SocketsThere, RouterQuiet, Watched,
            ClientCurrent, DownIsLoss, ModeExpected, LossComing, LossQueued, Loss, KwsExpected,
            SessionExpected, Relinking, SetState, GateOf, ctl, rdV, nkV, cliV, socks, stopV,
            HandlerInState, relinkFrame, hist
<1>1. CASE RelinkEnter
  BY <1>a, <1>b, <1>c, <1>1 DEF RelinkEnter
<1>2. CASE RelinkStopClient
  BY <1>a, <1>b, <1>c, <1>2 DEF RelinkStopClient, ClientStop
<1>3. CASE RelinkCloseSockets
  BY <1>a, <1>b, <1>c, <1>3 DEF RelinkCloseSockets, CloseSockets
<1>4. CASE RelinkNewClient
  BY <1>a, <1>b, <1>c, <1>4 DEF RelinkNewClient, NewClient
<1>5. CASE RelinkStarted
  BY <1>a, <1>b, <1>c, <1>5 DEF RelinkStarted, ClientStop, CanReopen
<1>6. CASE RelinkConnect
  BY <1>a, <1>b, <1>c, <1>6 DEF RelinkConnect, ConnectSockets
<1>7. CASE RelinkJoinReader
  BY <1>a, <1>b, <1>c, <1>7 DEF RelinkJoinReader
<1>8. CASE RelinkFail
  <2>1. ~NotStopping'
    BY <1>8 DEF RelinkFail, RequestStop, NotStopping
  <2> QED
    BY <1>a, <1>b, <1>c, <1>8, <2>1 DEF RelinkFail, RequestStop
<1> QED
  BY <1>1, <1>2, <1>3, <1>4, <1>5, <1>6, <1>7, <1>8 DEF Relink

(* Run makes and starts the first client. *)
LEMMA RunKeepsLinks ==
  ASSUME TypeOK, SInv, LInv, RunThread
  PROVE  LInv'
<1>a. run # "init" => (NotStopping' => NotStopping /\ loopOn' = loopOn)
  BY RunThreadCalm, CalmIsQuiet, StopBeginsQuiet DEF Quiet, RunInit
<1>b. queue' = queue => \A x : Queued(x)' <=> Queued(x)
  BY DEF Queued
<1>c. ASSUME NEW e \in Event, PostEvent(e)
      PROVE  /\ \A x : Queued(x) => Queued(x)'
             /\ \A x : x # e /\ Queued(x)' => Queued(x)
             /\ loopOn /\ ~stopReq => Queued(e)'
  BY <1>c, PostKeepsQueued, PostAddsOnly, PostQueues
<1>d. /\ BeforeRun /\ HandlerInState
      /\ NotStopping /\ run # "init" => loopOn /\ ~stopReq
  BY DEF SInv, LoopRuns, NotStopping
<1> USE DEF LInv, GateFollows, NothingYet, FirstClient, SocketsThere, RouterQuiet, Watched,
            ClientCurrent, DownIsLoss, ModeExpected, LossComing, LossQueued, Loss, KwsExpected,
            SessionExpected, Relinking, ctl, rdV, nkV, cliV, socks, stopV, llmV,
            HandlerInState, Event
<1>1. CASE RunInit
  <2>1. /\ ev = "none" /\ ev' = "idle" /\ cli = "none" /\ queue' = <<>>
        /\ run' = "connect"
    BY <1>1, <1>d DEF RunInit, BeforeRun
  <2> QED
    BY <1>1, <2>1 DEF RunInit, GateOf
<1>2. CASE RunConnect
  BY <1>a, <1>b, <1>2 DEF RunConnect, ConnectSockets
<1>3. CASE RunNewClient
  <2>1. ~Queued("ready")
    BY <1>3 DEF RunNewClient, Queued
  <2> QED
    BY <1>a, <1>b, <1>3, <2>1 DEF RunNewClient, NewClient
<1>4. CASE RunOpen
  BY <1>a, <1>b, <1>4 DEF RunOpen
<1>5. CASE RunStarted
  BY <1>a, <1>b, <1>5 DEF RunStarted, CanReopen
<1>6. CASE RunStartFailed
  BY <1>a, <1>c, <1>d, <1>6 DEF RunStartFailed, ClientStop
<1>7. CASE RunOrphaned
  BY <1>a, <1>b, <1>c, <1>7 DEF RunOrphaned
<1>8. CASE RunThrow
  BY <1>a, <1>b, <1>8 DEF RunThrow
<1>9. CASE RunReady
  BY <1>a, <1>c, <1>9 DEF RunReady
<1>10. CASE RunCheckStop
  BY <1>a, <1>b, <1>10 DEF RunCheckStop
<1>11. CASE RunPark
  BY <1>a, <1>b, <1>11 DEF RunPark
<1> QED
  BY <1>1, <1>2, <1>3, <1>4, <1>5, <1>6, <1>7, <1>8, <1>9, <1>10, <1>11
     DEF RunThread

(* A stop begins with the flag; what it does afterwards is nobody's loss.    *)
LEMMA StopKeepsLinks ==
  ASSUME TypeOK, SInv, LInv, NEW c \in Caller, Stop(c)
  PROVE  LInv'
<1>1. ~NotStopping'
  BY DEF Stop, StopFlag, StopClient, StopLlm, StopSockets, StopLoop, StopJoinEventThread,
         StopJoinReader, StopStep, RequestStop, NotStopping, TypeOK, stopFrame
<1>2. /\ UNCHANGED <<ev, state, rt, rd, cb, nk, lr, xz>>
      /\ queue' = queue \/ queue' = <<>>
      /\ loopOn' => loopOn
      /\ cli' = "none" <=> cli = "none"
      /\ run' = run \/ (run = "parked" /\ run' = "wait")
  BY DEF Stop, StopFlag, StopClient, StopLlm, StopSockets, StopLoop, StopJoinEventThread,
         StopJoinReader, RequestStop, ClientStop, CloseSockets, stopFrame, cliV, rdV, nkV, llmV,
         ctl
<1>3. \A x : Queued(x)' => Queued(x)
  BY <1>2 DEF Queued
<1> QED
  BY <1>1, <1>2, <1>3
     DEF LInv, GateFollows, NothingYet, FirstClient, SocketsThere, RouterQuiet, Watched,
         ClientCurrent, DownIsLoss, ModeExpected

(* The reader of the KWS socket. *)
LEMMA ReaderKeepsLinks ==
  ASSUME TypeOK, SInv, LInv, Reader \/ KwsHit
  PROVE  LInv'
<1>a. /\ UNCHANGED <<run, ev, state, gate, loopOn, stopReq, stopPc, cli, cliCur, ws, mode, kws, aec,
                     cb, nk, rt, lr, xz>>
  BY DEF Reader, KwsHit, ReaderStart, ReaderLoop, ReaderRead, ReaderEof, ReaderCheckHit,
         ReaderPostHit, ReaderCheckLost, ReaderPostLost, readerFrame, ctl, stopV, cliV, socks,
         nkV, llmV
<1>b. NotStopping' <=> NotStopping
  BY <1>a DEF NotStopping
<1>c. NotStopping /\ run # "init" => loopOn /\ ~stopReq
  BY DEF SInv, LoopRuns, NotStopping
<1>1. rd # "none" /\ rd' # "none" /\ cli # "none"
  BY DEF Reader, KwsHit, ReaderStart, ReaderLoop, ReaderRead, ReaderEof, ReaderCheckHit,
         ReaderPostHit, ReaderCheckLost, ReaderPostLost, LInv, NothingYet
<1>2. queue' = queue \/ PostEvent("hit") \/ (PostEvent("kwsLost") /\ rd = "postLost")
  BY DEF Reader, KwsHit, ReaderStart, ReaderLoop, ReaderRead, ReaderEof, ReaderCheckHit,
         ReaderPostHit, ReaderCheckLost, ReaderPostLost
<1>3. /\ \A x \in {"wsLost", "kwsLost"} : Queued(x) => Queued(x)'
      /\ Queued("ready")' => Queued("ready")
      /\ LossComing => LossComing'
      /\ LossQueued => LossQueued'
  <2>1. CASE queue' = queue
    BY <1>a, <2>1 DEF Queued, LossComing, LossQueued
  <2>2. CASE \E e \in {"hit", "kwsLost"} : PostEvent(e)
    BY <1>a, <2>2, PostKeepsQueued, PostAddsOnly DEF Event, LossComing, LossQueued, Loss
  <2> QED
    BY <1>2, <2>1, <2>2
<1>4. LossComing => LossComing'
  BY <1>3
<1>5. Watched'
  <2> SUFFICES ASSUME NotStopping, ev \notin Relinking, ~LossQueued'
               PROVE  (rd = "start" \/ (rdCur /\ rd \notin {"none", "done"}))'
    BY <1>a, <1>b DEF Watched
  <2>1. rd = "start" \/ (rdCur /\ rd \notin {"none", "done"})
    BY <1>1, <1>3 DEF LInv, Watched
  <2>2. ~PostEvent("kwsLost") /\ ~stopReq
    <3>1. run # "init"
      BY <1>1 DEF LInv, FirstClient
    <3> QED
      BY <1>c, <3>1, PostQueues DEF LossQueued, Loss, Event
  <2> QED
    BY <2>1, <2>2 DEF Reader, KwsHit, ReaderStart, ReaderLoop, ReaderRead, ReaderEof,
       ReaderCheckHit, ReaderPostHit, ReaderCheckLost, ReaderPostLost
<1>6. ModeExpected' /\ DownIsLoss'
  BY <1>a, <1>b, <1>4 DEF LInv, ModeExpected, DownIsLoss, KwsExpected, SessionExpected
<1> QED
  BY <1>a, <1>b, <1>1, <1>3, <1>5, <1>6
     DEF LInv, GateFollows, NothingYet, FirstClient, SocketsThere, RouterQuiet, ClientCurrent

(* The callbacks of the client and its connection. *)
LEMMA CallbackKeepsLinks ==
  ASSUME TypeOK, SInv, LInv,
         Callback \/ WsDrop \/ WsReopen \/ WsRetryFails \/ WsText \/ NativeKws
  PROVE  LInv'
<1> DEFINE Acts == Callback \/ WsDrop \/ WsReopen \/ WsRetryFails \/ WsText \/ NativeKws
<1>a. UNCHANGED <<run, ev, state, gate, loopOn, stopReq, stopPc, cli, cliCur, kws, aec, rd, rdCur,
                  rt, lr, xz>>
  BY DEF Callback, CbCheck, CbPost, NkCheck, NkPost, WsDrop, WsReopen, WsRetryFails, WsText,
         NativeKws, cbFrame, ctl, stopV, socks, rdV, llmV
<1>b. NotStopping' <=> NotStopping
  BY <1>a DEF NotStopping
<1>c. cli # "none" /\ run # "init"
  BY DEF Callback, CbCheck, CbPost, NkCheck, NkPost, WsDrop, WsReopen, WsRetryFails, WsText,
         NativeKws, LInv, NothingYet, FirstClient
<1>d. NotStopping => loopOn /\ ~stopReq
  BY <1>c DEF SInv, LoopRuns, NotStopping
<1>1. \/ queue' = queue
      \/ cb = "lossPost" /\ PostEvent("wsLost")
      \/ cb # "lossPost" /\ PostEvent("hit")
      \/ cb' = cb /\ PostEvent("native")
  BY DEF Callback, CbCheck, CbPost, NkCheck, NkPost, WsDrop, WsReopen, WsRetryFails, WsText,
         NativeKws
<1>2. \A x \in {"ready"} : Queued(x)' => Queued(x)
  BY <1>1, PostAddsOnly DEF Event, Queued
<1>3. \A x : Queued(x) => Queued(x)'
  <2>1. queue' = queue \/ \E e \in Event : PostEvent(e)
    BY <1>1 DEF Event
  <2> QED
    BY <2>1, PostKeepsQueued DEF Queued
<1>4. NotStopping /\ LossComing => LossComing'
  <2>1. NotStopping /\ PostEvent("wsLost") => Queued("wsLost")'
    BY <1>d, PostQueues DEF Event
  <2>2. CASE cb' = cb
    BY <1>a, <1>3, <2>2 DEF LossComing
  <2>3. CASE cb' # cb
    BY <1>a, <1>3, <2>1, <2>3 DEF LossComing, Callback, CbCheck, CbPost, NkCheck, NkPost, WsDrop,
       WsReopen, WsRetryFails, WsText, NativeKws, nkV
  <2> QED
    BY <2>2, <2>3
<1>5. Watched'
  BY <1>a, <1>b, <1>3 DEF LInv, Watched, LossQueued
<1>6. DownIsLoss'
  <2> SUFFICES ASSUME NotStopping, cli = "on", ws' = "down",
                      ev \notin {"relinkEnter", "relinkStop", "relinkClose", "relinkNew"}
               PROVE  LossComing'
    BY <1>a, <1>b DEF DownIsLoss
  <2>1. CASE ws = "down"
    BY <1>4, <2>1 DEF LInv, DownIsLoss
  <2>2. CASE ws # "down"
    <3>1. cb' = "lossCheck" /\ cliCur
      BY <2>2 DEF Callback, CbCheck, CbPost, NkCheck, NkPost, WsDrop, WsReopen, WsRetryFails,
           WsText, NativeKws, cbFrame, LInv, ClientCurrent
    <3> QED
      BY <1>a, <3>1 DEF LossComing
  <2> QED
    BY <2>1, <2>2
<1>7. ModeExpected'
  <2> SUFFICES ASSUME NotStopping, ~LossComing', KwsExpected \/ SessionExpected
               PROVE  mode' = mode
    BY <1>a, <1>b, <1>4 DEF LInv, ModeExpected, KwsExpected, SessionExpected
  <2>1. ~LossComing /\ ev \notin {"relinkEnter", "relinkStop", "relinkClose", "relinkNew"}
    BY <1>4 DEF KwsExpected, SessionExpected
  <2>2. ~WsDrop
    BY <1>c, <1>a, <2>1 DEF WsDrop, LossComing, LInv, ClientCurrent
  <2>3. ~WsRetryFails
    BY <2>1 DEF WsRetryFails, LInv, DownIsLoss
  <2> QED
    BY <2>2, <2>3 DEF Callback, CbCheck, CbPost, NkCheck, NkPost, WsReopen, WsText, NativeKws
<1> QED
  BY <1>a, <1>b, <1>c, <1>2, <1>5, <1>6, <1>7
     DEF LInv, GateFollows, NothingYet, FirstClient, SocketsThere, RouterQuiet, ClientCurrent

(* The router, xiaozhi and the local servers. *)
LEMMA EnvironmentKeepsLinks ==
  ASSUME TypeOK, SInv, LInv,
         \/ RouterTake \/ RouterWrite \/ OnLlmSessionEnd \/ XzEndsSession \/ LlmDrop
         \/ KwsDrop \/ AecDrop \/ SupervisorStop
         \/ (\E t \in {"ev", "aec"} : SendBlocks(t)) \/ XzReads
  PROVE  LInv'
<1>a. /\ UNCHANGED <<run, ev, state, gate, loopOn, cli, cliCur, ws, mode, rd, rdCur, cb, nk>>
      /\ kws # "none" => kws' # "none"
      /\ aec # "none" => aec' # "none"
  BY DEF RouterTake, RouterWrite, OnLlmSessionEnd, XzEndsSession, LlmDrop, SendBlocks, XzReads,
         KwsDrop, AecDrop, SupervisorStop, routerFrame, envFrame, ctl, cliV, rdV, nkV, socks
<1>b. NotStopping' => NotStopping
  BY DEF RouterTake, RouterWrite, OnLlmSessionEnd, XzEndsSession, LlmDrop, SendBlocks, XzReads,
         KwsDrop, AecDrop, SupervisorStop, routerFrame, envFrame, stopV, NotStopping, StopStep,
         TypeOK, Caller
<1>1. queue' = queue \/ PostEvent("sessionEnd")
  BY DEF RouterTake, RouterWrite, OnLlmSessionEnd, XzEndsSession, LlmDrop, SendBlocks, XzReads,
         KwsDrop, AecDrop, SupervisorStop, routerFrame
<1>2. Queued("ready")' => Queued("ready")
  BY <1>1, PostAddsOnly DEF Event, Queued
<1>3. \A x : Queued(x) => Queued(x)'
  <2>1. queue' = queue \/ \E e \in Event : PostEvent(e)
    BY <1>1 DEF Event
  <2> QED
    BY <2>1, PostKeepsQueued DEF Queued
<1>4. (LossComing => LossComing') /\ (LossQueued => LossQueued')
  BY <1>a, <1>3 DEF LossComing, LossQueued
<1>5. NothingYet' /\ RouterQuiet'
  <2>1. CASE RouterTake
    <3>1. NotStopping => state \in {"Stopped", "Started"} /\ ev \notin Relinking \ {"relinkEnter"}
      BY <2>1 DEF RouterTake, LInv, GateFollows, GateOf, SInv, HandlerInState, Relinking
    <3> QED
      BY <1>a, <1>b, <2>1, <3>1 DEF RouterTake, NothingYet, RouterQuiet
  <2>2. CASE ~RouterTake
    <3>1. /\ rt' \in {rt, "idle"}
          /\ lr = "idle" /\ xz = "idle" => lr' = "idle" /\ xz' = "idle" /\ queue' = queue
      BY <2>2 DEF RouterWrite, OnLlmSessionEnd, XzEndsSession, LlmDrop, SendBlocks, XzReads,
           KwsDrop, AecDrop, SupervisorStop, routerFrame, envFrame, llmV
    <3> QED
      BY <1>a, <1>b, <3>1 DEF LInv, NothingYet, RouterQuiet
  <2> QED
    BY <2>1, <2>2
<1>6. DownIsLoss' /\ ModeExpected' /\ Watched'
  BY <1>a, <1>b, <1>4 DEF LInv, DownIsLoss, ModeExpected, Watched, KwsExpected, SessionExpected
<1> QED
  BY <1>a, <1>b, <1>2, <1>5, <1>6
     DEF LInv, GateFollows, FirstClient, SocketsThere, ClientCurrent

LEMMA LInvHoldsInitially == Init => LInv
<1> SUFFICES ASSUME Init PROVE LInv
  OBVIOUS
<1>1. ~Queued("ready")
  BY DEF Init, Queued
<1> QED
  BY <1>1 DEF Init, LInv, GateFollows, GateOf, NothingYet, FirstClient, SocketsThere, RouterQuiet,
     Watched, ClientCurrent, DownIsLoss, ModeExpected, KwsExpected, SessionExpected, Relinking

LEMMA LInvKept == TypeOK /\ SInv /\ LInv /\ [Next]_vars => LInv'
<1> SUFFICES ASSUME TypeOK, SInv, LInv, [Next]_vars PROVE LInv'
  OBVIOUS
<1>1. CASE UNCHANGED vars
  <2>1. /\ UNCHANGED <<run, ev, state, gate, loopOn, queue, stopReq, stopPc, cli, cliCur>>
        /\ UNCHANGED <<ws, mode, kws, aec, rd, rdCur, cb, nk, rt, xz, lr>>
    BY <1>1 DEF vars, ctl, stopV, cliV, socks, rdV, nkV, llmV
  <2> QED
    BY <2>1 DEF LInv, GateFollows, NothingYet, FirstClient, SocketsThere, RouterQuiet, Watched,
       ClientCurrent, DownIsLoss, ModeExpected, KwsExpected, SessionExpected, LossComing,
       LossQueued, Queued, NotStopping
<1>2. CASE EventThread
  BY <1>2, HandlersKeepLinks, RelinkKeepsLinks DEF EventThread, Handler, Relink
<1> QED
  BY <1>1, <1>2, RunKeepsLinks, StopKeepsLinks, ReaderKeepsLinks, CallbackKeepsLinks,
     EnvironmentKeepsLinks DEF Next, Environment

LEMMA LInvHolds == Spec => [](TypeOK /\ SInv /\ LInv)
<1>1. Init => TypeOK /\ SInv /\ LInv
  BY InitTyped, SInvHoldsInitially, LInvHoldsInitially
<1>2. TypeOK /\ SInv /\ LInv /\ [Next]_vars => (TypeOK /\ SInv /\ LInv)'
  BY NextTyped, SInvKept, LInvKept
<1> QED
  BY <1>1, <1>2, PTL DEF Spec

(* Between two events, the device is in the mode that the session needs, or   *)
(* the loss of its connection is on its way, whichever calls failed half way *)
(* and whatever the WebSocket thread did meanwhile.                        *)
THEOREM ModeMatchesSessionAlways == Spec => []ModeMatchesSession
<1>1. TypeOK /\ LInv => ModeMatchesSession
  <2> SUFFICES ASSUME LInv, Settled, ~Queued("wsLost"), cb \notin {"lossCheck", "lossPost"}
               PROVE  mode = IF state = "Stopped" THEN "Kws" ELSE "LlmWorking"
    BY DEF ModeMatchesSession
  <2> QED
    BY DEF LInv, ModeExpected, KwsExpected, SessionExpected, LossComing, Settled
<1> QED
  BY <1>1, LInvHolds, PTL

(* The end of the KWS control socket is noticed in every settled session, at   *)
(* whatever moment between a reader's steps and a reconnect it comes.       *)
THEOREM KwsLossNoticedAlways == Spec => []KwsLossNoticed
<1>1. LInv => KwsLossNoticed
  BY DEF LInv, Watched, NothingYet, KwsLossNoticed, Settled, Relinking
<1> QED
  BY <1>1, LInvHolds, PTL

(* No reconnect pulls a socket away under the router. *)
THEOREM RouterKeepsItsSocketAlways == Spec => []RouterKeepsItsSocket
<1>1. LInv => RouterKeepsItsSocket
  BY DEF LInv, NothingYet, SocketsThere, RouterQuiet, RouterKeepsItsSocket, Relinking
<1> QED
  BY <1>1, LInvHolds, PTL
=============================================================================
