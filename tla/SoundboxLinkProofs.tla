------------------------- MODULE SoundboxLinkProofs -------------------------
(***************************************************************************)
(* Proofs about SoundboxLink, for any number of WebSockets and any budget   *)
(* of losses, late answers, refusals and stops.                             *)
(*                                                                          *)
(* The argument looks at the client while nobody stops it (Alone), and there *)
(* at what holds until a loss has been noticed (Serving): then there is one  *)
(* connection, one thread that uses it, and the line to the device is in     *)
(* the order of its requests.  From that invariant follow what the client   *)
(* promises at rest, and, step by step, the promise of ClientPromise.       *)
(***************************************************************************)
EXTENDS SoundboxLink, TLAPS, FiniteSetTheorems, NaturalsInduction,
        SequenceTheorems

-----------------------------------------------------------------------------
(* What a thread can have to do, and where it is in it.                     *)

StartPlans == { Start,
  <<"reset_guard", "reset_mode", "connect", "start_play", "fast_recording", "audio_ready">>,
  <<"reset_mode", "connect", "start_play", "fast_recording", "audio_ready">>,
  <<"connect", "start_play", "fast_recording", "audio_ready">>,
  StartAudio, <<"fast_recording", "audio_ready">>, <<"audio_ready">> }

StopPlans == { Stop,
  <<"stop_play", "shut", "mute", "hang_up", "reset_guard", "stopped">>,
  <<"shut", "mute", "hang_up", "reset_guard", "stopped">>,
  <<"mute", "hang_up", "reset_guard", "stopped">>,
  <<"hang_up", "reset_guard", "stopped">>, <<"reset_guard", "stopped">>, <<"stopped">> }

RestartPlans == { <<"fault">> \o Restart, Restart,
  <<"stop_play", "start_play", "fast_recording", "audio_ready", "restarted">>,
  <<"start_play", "fast_recording", "audio_ready", "restarted">>,
  <<"fast_recording", "audio_ready", "restarted">>, <<"audio_ready", "restarted">>,
  <<"restarted">> }

Single == {"llm_start", "llm_stop", "run_shell", "xiaoai_exit", "enter_llm", "enter_kws"}

Plans == StartPlans \cup StopPlans \cup RestartPlans \cup { <<s>> : s \in Single }
           \cup { <<>>, <<"give_up", "report">>, <<"report">> }

(* The last step of its plan names the call that a thread is in.            *)
Call(t) == IF todo[t] = <<>> THEN "none" ELSE Last(todo[t])

(* The calls, and which step they have after s.                             *)
InCall(s, c) ==
  CASE c = "audio_ready" -> s \in {"reset_hub", "reset_guard", "reset_mode", "connect",
                                   "start_play", "fast_recording", "audio_ready"}
    [] c = "stopped" -> s \in {"stop_recording", "stop_play", "shut", "mute", "hang_up",
                               "reset_guard", "stopped"}
    [] c = "restarted" -> s \in {"fault", "stop_recording", "stop_play", "start_play",
                                 "fast_recording", "audio_ready", "restarted"}
    [] c = "report" -> s \in {"give_up", "report"}
    [] c \in Single -> s = c
    [] OTHER -> FALSE

After1(s, c) ==
  CASE s = "reset_hub" -> "reset_guard"
    [] s = "reset_guard" /\ c = "audio_ready" -> "reset_mode"
    [] s = "reset_guard" /\ c = "stopped" -> "stopped"
    [] s = "reset_mode" -> "connect"
    [] s = "connect" -> "start_play"
    [] s = "start_play" -> "fast_recording"
    [] s = "fast_recording" -> "audio_ready"
    [] s = "audio_ready" -> "restarted"
    [] s = "stop_recording" -> "stop_play"
    [] s = "stop_play" /\ c = "restarted" -> "start_play"
    [] s = "stop_play" /\ c = "stopped" -> "shut"
    [] s = "shut" -> "mute"
    [] s = "mute" -> "hang_up"
    [] s = "hang_up" -> "reset_guard"
    [] s = "fault" -> "stop_recording"
    [] s = "give_up" -> "report"

-----------------------------------------------------------------------------
(* The invariant. *)

Response == [id : Nat, ok : BOOLEAN]
Request == [id : Nat, cmd : Commands]

Place == {"new", "next", "enter", "ensure", "open", "replace", "destroying", "start", "await",
          "close", "stopping", "send", "wait", "over"}
ThreadTypes ==
  /\ pc \in [Thread -> Place] /\ todo \in [Thread -> Plans]
  /\ allOk \in [Thread -> BOOLEAN]
  /\ old \in [Thread -> Ws \cup {None}] /\ req \in [Thread -> Nat]
FlagTypes ==
  /\ closed \in BOOLEAN /\ running \in BOOLEAN /\ mode \in Modes
  /\ play \in BOOLEAN /\ recording \in BOOLEAN
  /\ connected \in BOOLEAN /\ failed \in BOOLEAN
  /\ device \in {"off", "kws", "llm"} /\ silent \in BOOLEAN
  /\ lost \in BOOLEAN /\ crashed \in BOOLEAN /\ env \in [EnvKind -> Nat]
WireTypes ==
  /\ ws \in Ws \cup {None}
  /\ lib \in [Ws -> {"none", "connecting", "open", "up", "error", "close_hub",
                     "close_mode", "close_tell", "ended"}]
  /\ tell \in [Ws -> BOOLEAN]
  /\ responses \in Seq(Response) /\ Len(responses) <= MaxRetained
  /\ line \in [Ws -> Seq(Request)] /\ back \in [Ws -> Seq(Response)]
  /\ \A w \in Ws : lib[w] # "up" => line[w] = <<>> /\ back[w] = <<>>
Types == ThreadTypes /\ FlagTypes /\ WireTypes

Busy == {"enter", "ensure", "open", "replace", "destroying", "start", "await", "close",
         "stopping", "send", "wait"}

(* Where a thread can be within each step. *)
PlaceOf(t) ==
  /\ pc[t] \in Busy => todo[t] # <<>>
  /\ pc[t] = "enter" => Now(t) \in ModeCommands
  /\ pc[t] \in {"ensure", "send", "wait"} => Now(t) \in Commands
  /\ pc[t] \in Busy \ {"stopping"} => Now(t) \in Commands \cup {"connect"}
  /\ pc[t] = "stopping" => Now(t) \in Commands \cup {"connect", "hang_up", "give_up"}
  /\ pc[t] \in {"destroying", "stopping"} <=> old[t] # None
Places == \A t \in Thread : PlaceOf(t)

(* A thread of the library belongs to ws_ or to one whose end is awaited.   *)
Owners == \A w \in Ws : lib[w] # "none" => w = ws \/ ToldToStop(w)

(* Nothing has happened before Start; a Stop that is past its shut has ended *)
(* the client for good.                                                    *)
Unborn ==
  pc["op"] = "new" =>
    /\ ~running /\ todo["op"] = <<>> /\ todo["st"] = <<>>
    /\ ws = None /\ ~connected /\ mode = "Stopped" /\ ~lost /\ \A w \in Ws : lib[w] = "none"
Shut ==
  /\ pc["st"] # "new" /\ Call("st") \in {"none", "stopped"}
  /\ \A t \in Thread :
       Call(t) = "stopped" /\ Now(t) \in {"mute", "hang_up", "reset_guard", "stopped"} => ~running

(* Nobody stops the client. *)
Alone == running /\ todo["st"] = <<>> /\ Call("op") # "stopped"

Midway == Call("op") \in ModeCommands /\ pc["op"] \notin {"next", "enter"}
Between == Call("op") \in {"none"} \cup FreeCommands
             \/ (Call("op") \in ModeCommands /\ pc["op"] \in {"next", "enter"})

(* The flags of the guard are right when they are needed.                  *)
Flags ==
  Alone =>
    /\ Call("op") = "audio_ready" =>
         /\ mode = "Stopped"
         /\ Now("op") \in {"reset_mode", "connect", "start_play", "fast_recording"} => ~recording
         /\ Now("op") = "fast_recording" => play
         /\ Now("op") = "audio_ready" => play /\ recording
    /\ Call("op") = "restarted" /\ allOk["op"] =>
         /\ Now("op") = "fast_recording" => play
         /\ Now("op") \in {"audio_ready", "restarted"} => play /\ recording
    /\ Midway \/ Call("op") \in {"enter_llm", "enter_kws"} => play /\ recording
    /\ Between => mode = "Stopped" \/ (play /\ recording)
    /\ Call("op") = "report" => mode = "Stopped"

(* The client is in service: no loss has been noticed. *)
Serving == Alone /\ ~lost /\ ~Reporting /\ Call("op") # "report"

Opening == Call("op") = "audio_ready"
             /\ Now("op") \in {"reset_hub", "reset_guard", "reset_mode", "connect"}

(* There is one connection. *)
OneLink ==
  Serving =>
    /\ \A w \in Ws : w # ws /\ pc["op"] # "stopping" => lib[w] = "none"
    /\ Opening =>
         /\ pc["op"] \in {"next", "open", "replace"} => ws = None
         /\ pc["op"] = "start" => ws # None /\ lib[ws] = "none"
         /\ pc["op"] = "await" => ws # None
         /\ pc["op"] \in {"next", "open", "replace", "start"} => ~connected
         /\ pc["op"] = "await" /\ connected => lib[ws] \in {"up", "error"}
         /\ pc["op"] \in {"next", "open", "replace", "start", "await", "close", "stopping"}
    /\ ~Opening =>
         /\ pc["op"] \in {"next", "enter", "ensure", "send", "wait"}
         /\ ws # None /\ connected /\ lib[ws] \in {"up", "error"}

(* The device has done what a command asks of it. *)
Obeyed(cmd) ==
  /\ cmd \in {"fast_recording", "llm_stop"} => device = "kws"
  /\ cmd = "stop_recording" => device = "off"
  /\ cmd = "llm_start" => device = "llm"

(* The request that is waited for is the last one on the line.              *)
AnswersLast ==
  Serving /\ pc["op"] = "wait" =>
    /\ \A i \in 1 .. Len(line[ws]) :
         line[ws][i].id = req["op"] => i = Len(line[ws]) /\ line[ws][i].cmd = Now("op")
    /\ \A i \in 1 .. Len(back[ws]) :
         back[ws][i].id = req["op"] =>
           line[ws] = <<>> /\ (back[ws][i].ok => Obeyed(Now("op")))
    /\ \A i \in 1 .. Len(responses) :
         responses[i].id = req["op"] =>
           line[ws] = <<>> /\ (responses[i].ok => Obeyed(Now("op")))

(* Nothing on its way to the device changes what it records for.           *)
FreeOnly == \A i \in 1 .. Len(line[ws]) : line[ws][i].cmd \in FreeCommands

(* Mode and device agree between the calls, and where a call ends well.     *)
Agree ==
  Serving =>
    /\ Between =>
         /\ FreeOnly
         /\ \/ mode = "Kws" /\ device = "kws"
            \/ mode = "LlmWorking" /\ device = "llm"
    /\ Call("op") = "enter_llm" => device = "llm" /\ FreeOnly
    /\ Call("op") = "enter_kws" => device = "kws" /\ FreeOnly
    /\ Call("op") = "restarted" /\ allOk["op"] /\ Now("op") \in {"audio_ready", "restarted"} =>
         device = "kws" /\ FreeOnly
    /\ Call("op") = "audio_ready" /\ Now("op") = "audio_ready" => device = "kws" /\ FreeOnly

IInv ==
  /\ Types /\ Places /\ Owners /\ Unborn /\ Shut /\ Flags /\ OneLink /\ AnswersLast /\ Agree

-----------------------------------------------------------------------------
(* The plans. *)

PlanFacts(p) ==
  /\ Head(p) \in Steps /\ InCall(Head(p), Last(p)) /\ Tail(p) \in Plans
  /\ p \in Seq(Steps)
  /\ Tail(p) = <<>> <=> Head(p) = Last(p)
  /\ p = <<"stopped">> <=> Head(p) = "stopped"
  /\ Tail(p) # <<>> =>
       Last(Tail(p)) = Last(p) /\ Head(Tail(p)) = After1(Head(p), Last(p))

LEMMA StartIs ==
  Start = <<"reset_hub", "reset_guard", "reset_mode", "connect", "start_play",
            "fast_recording", "audio_ready">>
<1> DEFINE a == <<"reset_hub", "reset_guard", "reset_mode", "connect">>
           b == <<"start_play", "fast_recording", "audio_ready">>
           c == <<"reset_hub", "reset_guard", "reset_mode", "connect",
                  "start_play", "fast_recording", "audio_ready">>
<1>1. a \o b = [i \in 1 .. 7 |-> IF i <= 4 THEN a[i] ELSE b[i - 4]]
  OBVIOUS
<1>2. c = [i \in 1 .. 7 |-> c[i]]
  OBVIOUS
<1>3. \A i \in 1 .. 7 : c[i] = IF i <= 4 THEN a[i] ELSE b[i - 4]
  OBVIOUS
<1> QED BY <1>1, <1>2, <1>3 DEF Start, StartAudio

LEMMA StopIs == Stop = <<"stop_recording", "stop_play", "shut", "mute", "hang_up", "reset_guard", "stopped">>
<1> DEFINE a == <<"stop_recording", "stop_play">>
           b == <<"shut", "mute", "hang_up", "reset_guard", "stopped">>
           c == <<"stop_recording", "stop_play", "shut", "mute", "hang_up", "reset_guard", "stopped">>
<1>1. a \o b = [i \in 1 .. 7 |-> IF i <= 2 THEN a[i] ELSE b[i - 2]]
  OBVIOUS
<1>2. c = [i \in 1 .. 7 |-> c[i]]
  OBVIOUS
<1>3. \A i \in 1 .. 7 : c[i] = IF i <= 2 THEN a[i] ELSE b[i - 2]
  OBVIOUS
<1> QED BY <1>1, <1>2, <1>3 DEF Stop, StopAudio

LEMMA RestartIs == Restart = <<"stop_recording", "stop_play", "start_play", "fast_recording",
                               "audio_ready", "restarted">>
<1> DEFINE a == <<"stop_recording", "stop_play">>
           b == <<"start_play", "fast_recording", "audio_ready">>
           c == <<"stop_recording", "stop_play", "start_play", "fast_recording", "audio_ready">>
           d == <<"stop_recording", "stop_play", "start_play", "fast_recording", "audio_ready",
                  "restarted">>
<1>1. a \o b = [i \in 1 .. 5 |-> IF i <= 2 THEN a[i] ELSE b[i - 2]]
  OBVIOUS
<1>2. c = [i \in 1 .. 5 |-> c[i]]
  OBVIOUS
<1>3. \A i \in 1 .. 5 : c[i] = IF i <= 2 THEN a[i] ELSE b[i - 2]
  OBVIOUS
<1>4. a \o b = c
  BY <1>1, <1>2, <1>3
<1>5. c \o <<"restarted">> = [i \in 1 .. 6 |-> IF i <= 5 THEN c[i] ELSE "restarted"]
  OBVIOUS
<1>6. d = [i \in 1 .. 6 |-> d[i]]
  OBVIOUS
<1>7. \A i \in 1 .. 6 : d[i] = IF i <= 5 THEN c[i] ELSE "restarted"
  OBVIOUS
<1> QED BY <1>4, <1>5, <1>6, <1>7 DEF Restart, StopAudio, StartAudio

LEMMA FaultIs == <<"fault">> \o Restart =
  <<"fault", "stop_recording", "stop_play", "start_play", "fast_recording", "audio_ready", "restarted">>
<1> DEFINE a == <<"fault">>
           b == <<"stop_recording", "stop_play", "start_play", "fast_recording", "audio_ready",
                  "restarted">>
           c == <<"fault", "stop_recording", "stop_play", "start_play", "fast_recording", "audio_ready",
                  "restarted">>
<1>1. a \o b = [i \in 1 .. 7 |-> IF i <= 1 THEN a[i] ELSE b[i - 1]]
  OBVIOUS
<1>2. c = [i \in 1 .. 7 |-> c[i]]
  OBVIOUS
<1>3. \A i \in 1 .. 7 : c[i] = IF i <= 1 THEN a[i] ELSE b[i - 1]
  OBVIOUS
<1> QED BY <1>1, <1>2, <1>3, RestartIs

LEMMA PlanSteps ==
  ASSUME NEW p \in Plans, p # <<>>
  PROVE  PlanFacts(p)
<1> USE DEF PlanFacts, Steps, Commands, AudioCommands, ModeCommands, FreeCommands, InCall,
            After1, Single, Last
<1>1. CASE p \in { <<s>> : s \in Single }
  <2>1. PICK s \in Single : p = <<s>>
    BY <1>1
  <2>2. Tail(p) = <<>> /\ Head(p) = s /\ Last(p) = s
    BY <2>1
  <2>3. Tail(p) \in Plans
    BY <2>2 DEF Plans
  <2>4. p \in Seq(Steps)
    BY <2>1
  <2> QED BY <2>1, <2>2, <2>3, <2>4
<1>2. CASE p \in StartPlans
  <2>1. CASE p = <<"reset_hub", "reset_guard", "reset_mode", "connect",
                      "start_play", "fast_recording", "audio_ready">>
    <3>1. Tail(p) = <<"reset_guard", "reset_mode", "connect", "start_play",
                       "fast_recording", "audio_ready">>
      BY <2>1
    <3>2. Tail(p) \in Plans
      BY <3>1, StartIs DEF Plans, StartPlans, StartAudio
    <3> QED BY <2>1, <3>1, <3>2
  <2>2. CASE p = <<"reset_guard", "reset_mode", "connect", "start_play",
                      "fast_recording", "audio_ready">>
    <3>1. Tail(p) = <<"reset_mode", "connect", "start_play",
                       "fast_recording", "audio_ready">>
      BY <2>2
    <3>2. Tail(p) \in Plans
      BY <3>1, StartIs DEF Plans, StartPlans, StartAudio
    <3> QED BY <2>2, <3>1, <3>2
  <2>3. CASE p = <<"reset_mode", "connect", "start_play",
                      "fast_recording", "audio_ready">>
    <3>1. Tail(p) = <<"connect", "start_play", "fast_recording", "audio_ready">>
      BY <2>3
    <3>2. Tail(p) \in Plans
      BY <3>1, StartIs DEF Plans, StartPlans, StartAudio
    <3> QED BY <2>3, <3>1, <3>2
  <2>4. CASE p = <<"connect", "start_play", "fast_recording", "audio_ready">>
    <3>1. Tail(p) = <<"start_play", "fast_recording", "audio_ready">>
      BY <2>4
    <3>2. Tail(p) \in Plans
      BY <3>1, StartIs DEF Plans, StartPlans, StartAudio
    <3> QED BY <2>4, <3>1, <3>2
  <2>5. CASE p = <<"start_play", "fast_recording", "audio_ready">>
    <3>1. Tail(p) = <<"fast_recording", "audio_ready">>
      BY <2>5
    <3>2. Tail(p) \in Plans
      BY <3>1, StartIs DEF Plans, StartPlans, StartAudio
    <3> QED BY <2>5, <3>1, <3>2
  <2>6. CASE p = <<"fast_recording", "audio_ready">>
    <3>1. Tail(p) = <<"audio_ready">>
      BY <2>6
    <3>2. Tail(p) \in Plans
      BY <3>1, StartIs DEF Plans, StartPlans, StartAudio
    <3> QED BY <2>6, <3>1, <3>2
  <2>7. CASE p = <<"audio_ready">>
    <3>1. Tail(p) = <<>>
      BY <2>7
    <3>2. Tail(p) \in Plans
      BY <3>1, StartIs DEF Plans, StartPlans, StartAudio
    <3> QED BY <2>7, <3>1, <3>2
  <2> QED BY <1>2, StartIs, <2>1, <2>2, <2>3, <2>4, <2>5, <2>6, <2>7
       DEF StartPlans, StartAudio
<1>3. CASE p \in StopPlans
  <2>1. CASE p = <<"stop_recording", "stop_play", "shut", "mute",
                      "hang_up", "reset_guard", "stopped">>
    <3>1. Tail(p) = <<"stop_play", "shut", "mute", "hang_up",
                       "reset_guard", "stopped">>
      BY <2>1
    <3>2. Tail(p) \in Plans
      BY <3>1, StopIs DEF Plans, StopPlans
    <3> QED BY <2>1, <3>1, <3>2
  <2>2. CASE p = <<"stop_play", "shut", "mute", "hang_up",
                      "reset_guard", "stopped">>
    <3>1. Tail(p) = <<"shut", "mute", "hang_up", "reset_guard", "stopped">>
      BY <2>2
    <3>2. Tail(p) \in Plans
      BY <3>1, StopIs DEF Plans, StopPlans
    <3> QED BY <2>2, <3>1, <3>2
  <2>3. CASE p = <<"shut", "mute", "hang_up", "reset_guard", "stopped">>
    <3>1. Tail(p) = <<"mute", "hang_up", "reset_guard", "stopped">>
      BY <2>3
    <3>2. Tail(p) \in Plans
      BY <3>1, StopIs DEF Plans, StopPlans
    <3> QED BY <2>3, <3>1, <3>2
  <2>4. CASE p = <<"mute", "hang_up", "reset_guard", "stopped">>
    <3>1. Tail(p) = <<"hang_up", "reset_guard", "stopped">>
      BY <2>4
    <3>2. Tail(p) \in Plans
      BY <3>1, StopIs DEF Plans, StopPlans
    <3> QED BY <2>4, <3>1, <3>2
  <2>5. CASE p = <<"hang_up", "reset_guard", "stopped">>
    <3>1. Tail(p) = <<"reset_guard", "stopped">>
      BY <2>5
    <3>2. Tail(p) \in Plans
      BY <3>1, StopIs DEF Plans, StopPlans
    <3> QED BY <2>5, <3>1, <3>2
  <2>6. CASE p = <<"reset_guard", "stopped">>
    <3>1. Tail(p) = <<"stopped">>
      BY <2>6
    <3>2. Tail(p) \in Plans
      BY <3>1, StopIs DEF Plans, StopPlans
    <3> QED BY <2>6, <3>1, <3>2
  <2>7. CASE p = <<"stopped">>
    <3>1. Tail(p) = <<>>
      BY <2>7
    <3>2. Tail(p) \in Plans
      BY <3>1, StopIs DEF Plans, StopPlans
    <3> QED BY <2>7, <3>1, <3>2
  <2> QED BY <1>3, StopIs, <2>1, <2>2, <2>3, <2>4, <2>5, <2>6, <2>7 DEF StopPlans
<1>4. CASE p \in RestartPlans
  <2>1. CASE p = <<"fault", "stop_recording", "stop_play", "start_play",
                      "fast_recording", "audio_ready", "restarted">>
    <3>1. Tail(p) = <<"stop_recording", "stop_play", "start_play", "fast_recording",
                       "audio_ready", "restarted">>
      BY <2>1
    <3>2. Tail(p) \in Plans
      BY <3>1, RestartIs, FaultIs DEF Plans, RestartPlans
    <3> QED BY <2>1, <3>1, <3>2
  <2>2. CASE p = <<"stop_recording", "stop_play", "start_play", "fast_recording",
                      "audio_ready", "restarted">>
    <3>1. Tail(p) = <<"stop_play", "start_play", "fast_recording",
                       "audio_ready", "restarted">>
      BY <2>2
    <3>2. Tail(p) \in Plans
      BY <3>1, RestartIs, FaultIs DEF Plans, RestartPlans
    <3> QED BY <2>2, <3>1, <3>2
  <2>3. CASE p = <<"stop_play", "start_play", "fast_recording",
                      "audio_ready", "restarted">>
    <3>1. Tail(p) = <<"start_play", "fast_recording", "audio_ready", "restarted">>
      BY <2>3
    <3>2. Tail(p) \in Plans
      BY <3>1, RestartIs, FaultIs DEF Plans, RestartPlans
    <3> QED BY <2>3, <3>1, <3>2
  <2>4. CASE p = <<"start_play", "fast_recording", "audio_ready", "restarted">>
    <3>1. Tail(p) = <<"fast_recording", "audio_ready", "restarted">>
      BY <2>4
    <3>2. Tail(p) \in Plans
      BY <3>1, RestartIs, FaultIs DEF Plans, RestartPlans
    <3> QED BY <2>4, <3>1, <3>2
  <2>5. CASE p = <<"fast_recording", "audio_ready", "restarted">>
    <3>1. Tail(p) = <<"audio_ready", "restarted">>
      BY <2>5
    <3>2. Tail(p) \in Plans
      BY <3>1, RestartIs, FaultIs DEF Plans, RestartPlans
    <3> QED BY <2>5, <3>1, <3>2
  <2>6. CASE p = <<"audio_ready", "restarted">>
    <3>1. Tail(p) = <<"restarted">>
      BY <2>6
    <3>2. Tail(p) \in Plans
      BY <3>1, RestartIs, FaultIs DEF Plans, RestartPlans
    <3> QED BY <2>6, <3>1, <3>2
  <2>7. CASE p = <<"restarted">>
    <3>1. Tail(p) = <<>>
      BY <2>7
    <3>2. Tail(p) \in Plans
      BY <3>1, RestartIs, FaultIs DEF Plans, RestartPlans
    <3> QED BY <2>7, <3>1, <3>2
  <2> QED BY <1>4, RestartIs, FaultIs, <2>1, <2>2, <2>3, <2>4, <2>5, <2>6, <2>7 DEF RestartPlans
<1>5. CASE p \in { <<"give_up", "report">>, <<"report">> }
  <2>1. CASE p = <<"give_up", "report">>
    <3>1. Tail(p) = <<"report">>
      BY <2>1
    <3> QED BY <2>1, <3>1 DEF Plans
  <2>2. CASE p = <<"report">>
    <3>1. Tail(p) = <<>>
      BY <2>2
    <3> QED BY <2>2, <3>1 DEF Plans
  <2> QED BY <1>5, <2>1, <2>2
<1> HIDE DEF PlanFacts, Steps, Commands, AudioCommands, ModeCommands, FreeCommands, InCall,
            After1, Single, Last
<1>6. \/ p \in { <<s>> : s \in Single } \/ p \in StartPlans \/ p \in StopPlans
      \/ p \in RestartPlans \/ p \in { <<"give_up", "report">>, <<"report">> }
  <2> HIDE DEF Plans
  <2>1. p \in Plans \ {<<>>}
    OBVIOUS
  <2> QED BY <2>1 DEF Plans
<1> QED BY <1>1, <1>2, <1>3, <1>4, <1>5, <1>6

LEMMA Beginnings ==
  /\ Start \in Plans /\ Start # <<>> /\ Head(Start) = "reset_hub" /\ Last(Start) = "audio_ready"
  /\ Stop \in Plans /\ Stop # <<>> /\ Head(Stop) = "stop_recording" /\ Last(Stop) = "stopped"
  /\ <<"fault">> \o Restart \in Plans /\ <<"fault">> \o Restart # <<>>
  /\ Head(<<"fault">> \o Restart) = "fault" /\ Last(<<"fault">> \o Restart) = "restarted"
  /\ <<>> \in Plans /\ <<"restarted">> \in Plans /\ <<"give_up", "report">> \in Plans
  /\ \A s \in Single : <<s>> \in Plans
<1>1. Start \in Plans /\ Start # <<>> /\ Head(Start) = "reset_hub" /\ Last(Start) = "audio_ready"
  BY StartIs DEF Plans, StartPlans, Last
<1>2. Stop \in Plans /\ Stop # <<>> /\ Head(Stop) = "stop_recording" /\ Last(Stop) = "stopped"
  BY StopIs DEF Plans, StopPlans, Last
<1>3. /\ <<"fault">> \o Restart \in Plans /\ <<"fault">> \o Restart # <<>>
      /\ Head(<<"fault">> \o Restart) = "fault" /\ Last(<<"fault">> \o Restart) = "restarted"
  <2>1. <<"fault">> \o Restart \in Plans
    BY DEF Plans, RestartPlans
  <2>2. PICK p : p = <<"fault">> \o Restart
    OBVIOUS
  <2>3. p # <<>> /\ Head(p) = "fault" /\ Last(p) = "restarted"
    <3>1. p = <<"fault", "stop_recording", "stop_play", "start_play", "fast_recording",
                "audio_ready", "restarted">>
      BY <2>2, FaultIs
    <3> QED BY <3>1 DEF Last
  <2> QED BY <2>1, <2>2, <2>3
<1>4a. \A s \in Single : <<s>> \in { <<r>> : r \in Single }
  OBVIOUS
<1>4. /\ <<>> \in Plans /\ <<"restarted">> \in Plans /\ <<"give_up", "report">> \in Plans
      /\ \A s \in Single : <<s>> \in Plans
  BY <1>4a DEF Plans, RestartPlans
<1> QED BY <1>1, <1>2, <1>3, <1>4

(* The step that a thread has to do next, and its call.                     *)
Moved(t, n, c) == Call(t)' = c /\ (c # "none" => Now(t)' = n)

(* The other threads do not move. *)
Others(t) ==
  \A u \in Thread \ {t} :
    /\ pc'[u] = pc[u] /\ todo'[u] = todo[u] /\ allOk'[u] = allOk[u]

LEMMA CallIs ==
  ASSUME ThreadTypes, NEW t \in Thread
  PROVE  /\ todo[t] = <<>> <=> Call(t) = "none"
         /\ Call(t) # "none" => InCall(Now(t), Call(t)) /\ Now(t) \in Steps
<1>1. CASE todo[t] = <<>>
  BY <1>1 DEF Call
<1>2. CASE todo[t] # <<>>
  <2>1. PlanFacts(todo[t])
    BY <1>2, PlanSteps DEF ThreadTypes
  <2>2. Call(t) = Last(todo[t]) /\ Now(t) = Head(todo[t])
    BY <1>2 DEF Call, Now
  <2> QED BY <1>2, <2>1, <2>2 DEF PlanFacts, InCall, Single
<1> QED BY <1>1, <1>2

LEMMA ThenMoves ==
  ASSUME ThreadTypes, NEW t \in Thread, NEW p \in Plans, Then(t, p)
  PROVE  /\ todo' \in [Thread -> Plans] /\ pc' \in [Thread -> Place]
         /\ \A u \in Thread \ {t} : pc'[u] = pc[u] /\ todo'[u] = todo[u]
         /\ Moved(t, Head(p), IF p = <<>> THEN "none" ELSE Last(p))
         /\ pc'[t] = IF Call(t) # "none" /\ Now(t) = "stopped" THEN "over" ELSE "next"
<1>1. todo' \in [Thread -> Plans] /\ todo'[t] = p
      /\ \A u \in Thread \ {t} : todo'[u] = todo[u]
  BY DEF Then, ThreadTypes
<1>2. todo[t] = <<"stopped">> <=> Call(t) # "none" /\ Now(t) = "stopped"
  <2>1. CASE todo[t] = <<>>
    BY <2>1, CallIs
  <2>2. CASE todo[t] # <<>>
    BY <2>2, PlanSteps, CallIs DEF ThreadTypes, PlanFacts, Now
  <2> QED BY <2>1, <2>2
<1>3. /\ pc' \in [Thread -> Place] /\ \A u \in Thread \ {t} : pc'[u] = pc[u]
      /\ pc'[t] = IF todo[t] = <<"stopped">> THEN "over" ELSE "next"
  BY DEF Then, ThreadTypes, Place
<1>4. Moved(t, Head(p), IF p = <<>> THEN "none" ELSE Last(p))
  BY <1>1 DEF Moved, Call, Now
<1> QED BY <1>1, <1>2, <1>3, <1>4

(* What Done and Fails make of the plan. *)
LEMMA DoneMoves ==
  ASSUME ThreadTypes, NEW t \in Thread, Call(t) # "none", Done(t)
  PROVE  /\ todo' \in [Thread -> Plans] /\ pc' \in [Thread -> Place] /\ allOk' = allOk
         /\ Others(t)
         /\ Moved(t, After1(Now(t), Call(t)), IF Now(t) = Call(t) THEN "none" ELSE Call(t))
         /\ pc'[t] = IF Now(t) = "stopped" THEN "over" ELSE "next"
<1>1. todo[t] # <<>> /\ todo[t] \in Plans
  BY CallIs DEF ThreadTypes
<1>2. PlanFacts(todo[t])
  BY <1>1, PlanSteps
<1>3. Call(t) = Last(todo[t]) /\ Now(t) = Head(todo[t])
  BY <1>1 DEF Call, Now
<1>4. Then(t, Tail(todo[t])) /\ Tail(todo[t]) \in Plans /\ allOk' = allOk
  BY <1>2 DEF Done, PlanFacts
<1> QED BY <1>2, <1>3, <1>4, ThenMoves DEF PlanFacts, Moved, Others

Starting == {"connect", "start_play", "fast_recording"}

LEMMA FailsMoves ==
  ASSUME ThreadTypes, NEW t \in Thread, Call(t) # "none", Now(t) # "stopped", Fails(t)
  PROVE  /\ todo' \in [Thread -> Plans] /\ pc' \in [Thread -> Place]
         /\ allOk' \in [Thread -> BOOLEAN] /\ Others(t)
         /\ allOk'[t] = (allOk[t] /\ Now(t) \notin AudioCommands)
         /\ pc'[t] = "next"
         /\ Now(t) \in Starting /\ Call(t) = "restarted" => Moved(t, "restarted", "restarted")
         /\ Now(t) \in Starting /\ Call(t) # "restarted" =>
              IF running THEN Moved(t, "stop_recording", "stopped") ELSE Call(t)' = "none"
         /\ Now(t) \in ModeCommands => Moved(t, "fault", "restarted")
         /\ Now(t) \notin Starting \cup ModeCommands =>
              Moved(t, After1(Now(t), Call(t)), IF Now(t) = Call(t) THEN "none" ELSE Call(t))
<1>1. todo[t] # <<>> /\ todo[t] \in Plans
  BY CallIs DEF ThreadTypes
<1>2. PlanFacts(todo[t]) /\ InCall(Now(t), Call(t))
  BY <1>1, PlanSteps, CallIs
<1>3. Call(t) = Last(todo[t]) /\ Now(t) = Head(todo[t])
  BY <1>1 DEF Call, Now
<1>4. PICK p : /\ Then(t, p)
               /\ p = CASE Now(t) \in Starting /\ Recovery(t) -> <<"restarted">>
                        [] Now(t) \in Starting /\ ~Recovery(t) -> IF running THEN Stop ELSE <<>>
                        [] Now(t) \in ModeCommands -> <<"fault">> \o Restart
                        [] OTHER -> Tail(todo[t])
  BY DEF Fails, Starting
<1>5. Recovery(t) <=> Call(t) \in {"restarted", "stopped"}
  BY <1>3 DEF Recovery
<1>6. Now(t) \in Starting => Call(t) # "stopped"
  BY <1>2 DEF Starting, InCall
<1>7. Now(t) \in ModeCommands => Now(t) \notin Starting
  BY DEF ModeCommands, Starting
<1>8. /\ Now(t) \in Starting /\ Call(t) = "restarted" => p = <<"restarted">>
      /\ Now(t) \in Starting /\ Call(t) # "restarted" /\ running => p = Stop
      /\ Now(t) \in Starting /\ Call(t) # "restarted" /\ ~running => p = <<>>
      /\ Now(t) \in ModeCommands => p = <<"fault">> \o Restart
      /\ Now(t) \notin Starting \cup ModeCommands => p = Tail(todo[t])
  BY <1>4, <1>5, <1>6, <1>7
<1>9. p \in Plans
  BY <1>2, <1>8, Beginnings DEF PlanFacts
<1>10. /\ todo' \in [Thread -> Plans] /\ pc' \in [Thread -> Place]
       /\ \A u \in Thread \ {t} : pc'[u] = pc[u] /\ todo'[u] = todo[u]
       /\ Moved(t, Head(p), IF p = <<>> THEN "none" ELSE Last(p)) /\ pc'[t] = "next"
  BY <1>4, <1>9, ThenMoves
<1>11. /\ allOk' \in [Thread -> BOOLEAN] /\ \A u \in Thread \ {t} : allOk'[u] = allOk[u]
       /\ allOk'[t] = (allOk[t] /\ Now(t) \notin AudioCommands)
  BY DEF Fails, ThreadTypes
<1>12. <<"restarted">> # <<>> /\ Head(<<"restarted">>) = "restarted" /\ Last(<<"restarted">>) = "restarted"
  BY DEF Last
<1>13. Others(t)
  BY <1>10, <1>11 DEF Others
<1>14. Now(t) \in Starting /\ Call(t) = "restarted" => Moved(t, "restarted", "restarted")
  BY <1>8, <1>10, <1>12
<1>15. Now(t) \in Starting /\ Call(t) # "restarted" =>
         IF running THEN Moved(t, "stop_recording", "stopped") ELSE Call(t)' = "none"
  BY <1>8, <1>10, Beginnings DEF Moved
<1>16. Now(t) \in ModeCommands => Moved(t, "fault", "restarted")
  BY <1>8, <1>10, Beginnings
<1>17. Now(t) \notin Starting \cup ModeCommands =>
         Moved(t, After1(Now(t), Call(t)), IF Now(t) = Call(t) THEN "none" ELSE Call(t))
  BY <1>2, <1>3, <1>8, <1>10 DEF PlanFacts, Moved
<1> QED BY <1>10, <1>11, <1>13, <1>14, <1>15, <1>16, <1>17

-----------------------------------------------------------------------------
(* The ids of requests and the responses that wait. *)

LEMMA ImageFinite ==
  ASSUME NEW D, IsFiniteSet(D), NEW T, NEW f, DOMAIN f = D,
         \A y \in T : \E x \in D : y = f[x]
  PROVE  IsFiniteSet(T)
<1> DEFINE I == { f[x] : x \in D }
           g == [x \in D |-> f[x]]
<1>1. g \in Surjection(D, I)
  BY DEF Surjection
<1>2. IsFiniteSet(I)
  BY <1>1, FS_Surjection
<1>3. T \in SUBSET I
  OBVIOUS
<1> QED BY <1>2, <1>3, FS_Subset

LEMMA SeqIdsFinite ==
  ASSUME NEW n \in Nat, NEW s, DOMAIN s = 1 .. n
  PROVE  IsFiniteSet({ m.id : m \in Range(s) })
<1> DEFINE f == [i \in 1 .. n |-> s[i].id]
<1>1. IsFiniteSet(1 .. n)
  BY FS_Interval
<1>2. DOMAIN f = 1 .. n /\ \A y \in { m.id : m \in Range(s) } : \E i \in 1 .. n : y = f[i]
  BY DEF Range
<1> HIDE DEF f
<1> QED BY <1>1, <1>2, ImageFinite

(* Requests on the line, responses and waiting threads are finitely many, so  *)
(* that there is an id none of them has.                                   *)
LEMMA FreshIsNew ==
  ASSUME Types
  PROVE  /\ Fresh \in Nat \ {0}
         /\ \A t \in Thread : req[t] # Fresh
         /\ \A i \in 1 .. Len(responses) : responses[i].id # Fresh
         /\ \A w \in Ws :
              /\ \A i \in 1 .. Len(line[w]) : line[w][i].id # Fresh
              /\ \A i \in 1 .. Len(back[w]) : back[w][i].id # Fresh
<1> USE DEF Types, ThreadTypes, WireTypes
<1> DEFINE A == { m.id : m \in Range(responses) }
           B == { req[t] : t \in Thread }
           C(w) == { m.id : m \in Range(line[w]) \cup Range(back[w]) }
           D == { C(w) : w \in Ws }
<1>1. IsFiniteSet(A)
  <2>1. Len(responses) \in Nat /\ DOMAIN responses = 1 .. Len(responses)
    OBVIOUS
  <2> QED BY <2>1, SeqIdsFinite
<1>2. IsFiniteSet(B)
  <2>1. Thread = {"op"} \cup {"st"} /\ IsFiniteSet({"op"}) /\ IsFiniteSet({"st"})
    BY FS_Singleton DEF Thread
  <2>2. IsFiniteSet(Thread)
    BY <2>1, FS_Union
  <2>3. DOMAIN req = Thread /\ \A y \in B : \E t \in Thread : y = req[t]
    OBVIOUS
  <2> HIDE DEF B
  <2> QED BY <2>2, <2>3, ImageFinite
<1>3. \A w \in Ws : IsFiniteSet(C(w))
  <2> TAKE w \in Ws
  <2>1. /\ Len(line[w]) \in Nat /\ DOMAIN line[w] = 1 .. Len(line[w])
        /\ Len(back[w]) \in Nat /\ DOMAIN back[w] = 1 .. Len(back[w])
    OBVIOUS
  <2>2. IsFiniteSet({ m.id : m \in Range(line[w]) }) /\ IsFiniteSet({ m.id : m \in Range(back[w]) })
    BY <2>1, SeqIdsFinite
  <2>3. IsFiniteSet({ m.id : m \in Range(line[w]) } \cup { m.id : m \in Range(back[w]) })
    BY <2>2, FS_Union
  <2>4. C(w) \subseteq { m.id : m \in Range(line[w]) } \cup { m.id : m \in Range(back[w]) }
    OBVIOUS
  <2> HIDE DEF C
  <2> QED BY <2>3, <2>4, FS_Subset
<1>4. IsFiniteSet(UNION D)
  <2> DEFINE f == [w \in Ws |-> C(w)]
  <2>1. DOMAIN f = Ws /\ \A y \in D : \E w \in Ws : y = f[w]
    OBVIOUS
  <2>2. \A y \in D : IsFiniteSet(y)
    BY <1>3
  <2> HIDE DEF D, f
  <2>3. IsFiniteSet(D)
    BY <2>1, WsAssumption, ImageFinite
  <2> QED BY <2>2, <2>3, FS_UNION
<1>5. IsFiniteSet(Used)
  <2>1. IsFiniteSet(A \cup B)
    BY <1>1, <1>2, FS_Union
  <2>2. IsFiniteSet((A \cup B) \cup UNION D)
    BY <1>4, <2>1, FS_Union
  <2>3. Used = (A \cup B) \cup UNION D
    BY DEF Used
  <2> QED BY <2>2, <2>3
<1>6. Cardinality(Used) \in Nat
  BY <1>5, FS_CardinalityType
<1>7. \E n \in 1 .. Cardinality(Used) + 1 : n \notin Used
  <2> SUFFICES ASSUME 1 .. Cardinality(Used) + 1 \subseteq Used PROVE FALSE
    OBVIOUS
  <2>1. Cardinality(1 .. Cardinality(Used) + 1) <= Cardinality(Used)
    BY <1>5, FS_Subset
  <2>2. Cardinality(1 .. Cardinality(Used) + 1) = Cardinality(Used) + 1
    BY <1>6, FS_Interval
  <2> QED BY <1>6, <2>1, <2>2
<1>8. Fresh \in 1 .. Cardinality(Used) + 1 /\ Fresh \notin Used
  BY <1>7 DEF Fresh
<1>9. Fresh \in Nat \ {0}
  BY <1>6, <1>8
<1>10. \A t \in Thread : req[t] \in Used
  BY DEF Used
<1>11. \A i \in 1 .. Len(responses) : responses[i].id \in Used
  BY DEF Used, Range
<1>12. \A w \in Ws : /\ \A i \in 1 .. Len(line[w]) : line[w][i].id \in Used
                     /\ \A i \in 1 .. Len(back[w]) : back[w][i].id \in Used
  <2> SUFFICES ASSUME NEW w \in Ws
      PROVE  /\ \A i \in 1 .. Len(line[w]) : line[w][i].id \in C(w)
             /\ \A i \in 1 .. Len(back[w]) : back[w][i].id \in C(w)
    BY DEF Used
  <2> QED BY DEF Range
<1> QED BY <1>8, <1>9, <1>10, <1>11, <1>12

(* A waiting call takes a response to its own request. *)
LEMMA TakeGives ==
  ASSUME WireTypes, NEW id, NEW ok, HubTake(id, ok)
  PROVE  /\ \E i \in 1 .. Len(responses) : responses[i].id = id /\ responses[i].ok = ok
         /\ responses' \in Seq(Response) /\ Len(responses') <= MaxRetained
         /\ closed' = closed
<1> USE DEF WireTypes
<1> DEFINE P == Positions(id)
<1>1. P \subseteq 1 .. Len(responses) /\ P \subseteq Nat /\ P # {} /\ Nat \subseteq Nat
  <2>1. P # {}
    BY Zenon DEF HubTake
  <2>2. P \subseteq 1 .. Len(responses)
    BY DEF Positions
  <2> HIDE DEF P
  <2> QED BY <2>1, <2>2
<1>2. PICK d \in P : \A e \in P : <<e, d>> \notin OpToRel(<, Nat)
  BY <1>1, NatLessThanWellFounded, WFMin
<1>3. \A e \in P : ~(e < d)
  BY <1>1, <1>2, Zenon DEF OpToRel
<1>4. \E i \in P : \A j \in P : i <= j
  BY <1>1, <1>3
<1> DEFINE i == CHOOSE i \in P : \A j \in P : i <= j
<1>5. i \in P
  BY <1>4, Zenon
<1>6. responses[i].ok = ok /\ responses' = RemoveAt(responses, i) /\ closed' = closed
  BY DEF HubTake
<1>7. i \in 1 .. Len(responses) /\ responses[i].id = id
  BY <1>1, <1>5 DEF Positions
<1> HIDE DEF i, P
<1>8. /\ SubSeq(responses, 1, i - 1) \in Seq(Response) /\ Len(SubSeq(responses, 1, i - 1)) = i - 1
      /\ SubSeq(responses, i + 1, Len(responses)) \in Seq(Response)
      /\ Len(SubSeq(responses, i + 1, Len(responses))) = Len(responses) - i
  BY <1>7
<1>9. responses' \in Seq(Response) /\ Len(responses') = Len(responses) - 1
  <2> DEFINE a == SubSeq(responses, 1, i - 1)
             b == SubSeq(responses, i + 1, Len(responses))
  <2>1. a \in Seq(Response) /\ Len(a) = i - 1
    BY <1>8
  <2>2. b \in Seq(Response) /\ Len(b) = Len(responses) - i
    BY <1>8
  <2>3. responses' = a \o b
    BY <1>6 DEF RemoveAt
  <2> HIDE DEF a, b
  <2>4. a \o b \in Seq(Response) /\ Len(a \o b) = Len(a) + Len(b)
    BY <2>1, <2>2, ConcatProperties
  <2> QED BY <1>7, <2>1, <2>2, <2>3, <2>4
<1> QED BY <1>6, <1>7, <1>9, MaxRetainedAssumption

(* A response joins those that wait; of too many the oldest goes.           *)
LEMMA NotifyKeeps ==
  ASSUME WireTypes, NEW r \in Response, HubNotify(r)
  PROVE  /\ responses' \in Seq(Response) /\ Len(responses') <= MaxRetained
         /\ \A j \in 1 .. Len(responses') :
              \/ responses'[j] = r
              \/ \E i \in 1 .. Len(responses) : responses'[j] = responses[i]
         /\ closed' = closed
<1> USE DEF WireTypes
<1> DEFINE kept == Append(responses, r)
           extra == IF Len(kept) > MaxRetained THEN Len(kept) - MaxRetained ELSE 0
<1>1. /\ responses' = IF closed THEN responses ELSE SubSeq(kept, extra + 1, Len(kept))
      /\ closed' = closed
  BY DEF HubNotify
<1>2. CASE closed
  BY <1>1, <1>2
<1>3. CASE ~closed
  <2>1. /\ kept \in Seq(Response) /\ Len(kept) = Len(responses) + 1
        /\ \A i \in 1 .. Len(kept) :
             kept[i] = IF i = Len(responses) + 1 THEN r ELSE responses[i]
    OBVIOUS
  <2>2. extra \in 0 .. 1 /\ extra <= Len(kept) /\ Len(kept) - extra <= MaxRetained
    BY <2>1, MaxRetainedAssumption
  <2> HIDE DEF kept, extra
  <2>3. /\ responses' \in Seq(Response) /\ Len(responses') = Len(kept) - extra
        /\ \A j \in 1 .. Len(responses') : responses'[j] = kept[j + extra]
    BY <1>1, <1>3, <2>1, <2>2
  <2>4. ASSUME NEW j \in 1 .. Len(responses')
        PROVE  \/ responses'[j] = r
               \/ \E i \in 1 .. Len(responses) : responses'[j] = responses[i]
    <3>1. j + extra \in 1 .. Len(kept)
      BY <2>1, <2>2, <2>3
    <3>2. responses'[j] = kept[j + extra]
      BY <2>3
    <3> QED BY <2>1, <3>1, <3>2
  <2> QED BY <1>1, <2>2, <2>3, <2>4
<1> QED BY <1>2, <1>3

-----------------------------------------------------------------------------
(* Types, places and owners are kept by each step of a caller.              *)

Struct == Types /\ Places /\ Owners

LEMMA PlacesKept ==
  ASSUME ThreadTypes, Places, NEW t \in Thread,
         \A u \in Thread \ {t} : pc'[u] = pc[u] /\ todo'[u] = todo[u] /\ old'[u] = old[u],
         PlaceOf(t)'
  PROVE  Places'
<1> SUFFICES ASSUME NEW u \in Thread, u # t PROVE PlaceOf(u)'
  BY DEF Places
<1>1. pc'[u] = pc[u] /\ todo'[u] = todo[u] /\ old'[u] = old[u] /\ PlaceOf(u)
  BY DEF Places
<1> QED BY <1>1 DEF PlaceOf, Now

LEMMA MovedPlaces ==
  ASSUME ThreadTypes, Places, NEW t \in Thread,
         \A u \in Thread \ {t} : pc'[u] = pc[u] /\ todo'[u] = todo[u] /\ old'[u] = old[u],
         pc'[t] \in {"next", "over"}, old'[t] = None
  PROVE  Places'
<1>1. PlaceOf(t)'
  BY DEF PlaceOf, Busy
<1> QED BY <1>1, PlacesKept

LEMMA GoPlaces ==
  ASSUME ThreadTypes, Places, NEW t \in Thread, NEW p \in Place, Go(t, p),
         \A u \in Thread \ {t} : old'[u] = old[u],
         p \in Busy => todo[t] # <<>>,
         p = "enter" => Now(t) \in ModeCommands,
         p \in {"ensure", "send", "wait"} => Now(t) \in Commands,
         p \in Busy \ {"stopping"} => Now(t) \in Commands \cup {"connect"},
         p = "stopping" => Now(t) \in Commands \cup {"connect", "hang_up", "give_up"},
         p \in {"destroying", "stopping"} <=> old'[t] # None
  PROVE  /\ Places' /\ Others(t) /\ pc'[t] = p /\ pc' \in [Thread -> Place]
         /\ todo' = todo /\ allOk' = allOk
<1>1. /\ pc' \in [Thread -> Place] /\ pc'[t] = p /\ todo' = todo /\ allOk' = allOk
      /\ \A u \in Thread \ {t} : pc'[u] = pc[u]
  BY DEF Go, ThreadTypes
<1>2. Now(t)' = Now(t)
  BY <1>1 DEF Now
<1>3. PlaceOf(t)'
  BY <1>1, <1>2 DEF PlaceOf
<1> QED BY <1>1, <1>3, PlacesKept DEF Others

LEMMA Decides ==
  ASSUME NEW c, NEW m, NEW p, NEW r, NEW v
  PROVE  Decision(c, m, p, r, v) \in {"send", "done", "reject"}
<1>1. AudioDecision(c, m, p, r, v) \in {"send", "done", "reject"}
  BY DEF AudioDecision
<1>2. LlmDecision(c, m) \in {"send", "done", "reject"}
  BY DEF LlmDecision
<1> QED BY <1>1, <1>2 DEF Decision

LEMMA PrepareDoes ==
  ASSUME NEW t \in Thread, Prepare(t)
  PROVE  LET d == Decision(Now(t), mode, play, recording, Recovery(t)) IN
         \/ d = "send" /\ Go(t, IF Now(t) \in ModeCommands THEN "enter" ELSE "ensure")
         \/ d = "done" /\ Done(t)
         \/ d = "reject" /\ Now(t) \in ModeCommands /\ Done(t)
         \/ d = "reject" /\ Now(t) \notin ModeCommands /\ Fails(t)
<1> DEFINE d == Decision(Now(t), mode, play, recording, Recovery(t))
<1>1. d \in {"send", "done", "reject"}
  BY Decides
<1>2. (CASE d = "send" -> Go(t, IF Now(t) \in ModeCommands THEN "enter" ELSE "ensure")
         [] d = "done" -> Done(t)
         [] d = "reject" -> Rejected(t))
  BY DEF Prepare
<1> HIDE DEF d
<1>3. \/ d = "send" /\ Go(t, IF Now(t) \in ModeCommands THEN "enter" ELSE "ensure")
      \/ d = "done" /\ Done(t)
      \/ d = "reject" /\ Rejected(t)
  BY <1>1, <1>2
<1> USE DEF d
<1> QED BY <1>3 DEF Rejected

PlanTypes == /\ pc \in [Thread -> Place] /\ todo \in [Thread -> Plans]
             /\ allOk \in [Thread -> BOOLEAN]

(* A call that is at a place where it waits for nothing. *)
LEMMA AtPlace ==
  ASSUME Struct, NEW t \in Thread, pc[t] \in Busy \/ todo[t] # <<>>
  PROVE  /\ todo[t] # <<>> /\ Call(t) # "none" /\ InCall(Now(t), Call(t)) /\ Now(t) \in Steps
         /\ pc[t] \notin {"destroying", "stopping"} => old[t] = None
         /\ pc[t] \in {"destroying", "stopping"} => old[t] \in Ws
         /\ pc[t] \in Busy => Now(t) # "stopped"
         /\ pc[t] = "enter" => Now(t) \in ModeCommands
         /\ pc[t] \in {"ensure", "send", "wait"} => Now(t) \in Commands
         /\ pc[t] \in Busy \ {"stopping"} => Now(t) \in Commands \cup {"connect"}
         /\ pc[t] = "stopping" => Now(t) \in Commands \cup {"connect", "hang_up", "give_up"}
<1>1. PlaceOf(t) /\ ThreadTypes
  BY DEF Struct, Places, Types
<1>2. todo[t] # <<>>
  BY <1>1 DEF PlaceOf
<1>3. Call(t) # "none" /\ InCall(Now(t), Call(t)) /\ Now(t) \in Steps
  BY <1>1, <1>2, CallIs
<1>4. "stopped" \notin Commands \cup {"connect", "hang_up", "give_up"}
  BY DEF Commands, AudioCommands, ModeCommands, FreeCommands
<1>5. pc[t] \in Busy => Now(t) # "stopped"
  BY <1>1, <1>4 DEF PlaceOf, Busy
<1> QED BY <1>1, <1>2, <1>3, <1>5 DEF PlaceOf, ThreadTypes

LEMMA Advance ==
  ASSUME Struct, NEW t \in Thread, todo[t] # <<>>,
         Done(t) \/ (Fails(t) /\ Now(t) # "stopped"),
         \A u \in Thread \ {t} : old'[u] = old[u], old'[t] = None
  PROVE  Places' /\ PlanTypes'
<1>1. Call(t) # "none" /\ ThreadTypes /\ Places
  BY CallIs DEF Struct, Types
<1>2. CASE Done(t)
  <2>1. allOk' \in [Thread -> BOOLEAN]
    BY <1>2 DEF Struct, Types, ThreadTypes, Done
  <2> QED BY <1>1, <1>2, <2>1, DoneMoves, MovedPlaces DEF PlanTypes, Others
<1>3. CASE Fails(t) /\ Now(t) # "stopped"
  BY <1>1, <1>3, FailsMoves, MovedPlaces DEF PlanTypes, Others
<1> QED BY <1>2, <1>3

LEMMA Goes ==
  ASSUME Struct, NEW t \in Thread, NEW p \in Place, Go(t, p),
         \A u \in Thread \ {t} : old'[u] = old[u],
         p \in Busy => todo[t] # <<>>,
         p = "enter" => Now(t) \in ModeCommands,
         p \in {"ensure", "send", "wait"} => Now(t) \in Commands,
         p \in Busy \ {"stopping"} => Now(t) \in Commands \cup {"connect"},
         p = "stopping" => Now(t) \in Commands \cup {"connect", "hang_up", "give_up"},
         p \in {"destroying", "stopping"} <=> old'[t] # None
  PROVE  Places' /\ PlanTypes'
BY GoPlaces DEF Struct, Types, ThreadTypes, PlanTypes

LEMMA PrepareStruct ==
  ASSUME Struct, NEW t \in Thread, Prepare(t) PROVE Struct'
<1>1. todo[t] # <<>> /\ Now(t) \in Commands /\ pc[t] = "next"
  BY DEF Prepare, Idle
<1>2. old[t] = None /\ Now(t) # "stopped"
  BY <1>1, AtPlace DEF Commands, AudioCommands, ModeCommands, FreeCommands
<1>3. UNCHANGED <<hubVars, client, conn, old, req, wire, library, rest>>
  BY DEF Prepare
<1>4. Places' /\ PlanTypes'
  <2>1. CASE Go(t, IF Now(t) \in ModeCommands THEN "enter" ELSE "ensure")
    BY <1>1, <1>2, <1>3, <2>1, Goes DEF Place, Busy
  <2>2. CASE Done(t) \/ Fails(t)
    BY <1>1, <1>2, <1>3, <2>2, Advance
  <2> QED BY <2>1, <2>2, PrepareDoes
<1>5. Types'
  BY <1>3, <1>4 DEF Struct, Types, ThreadTypes, PlanTypes, FlagTypes, WireTypes, hubVars, client,
       conn, wire, library, rest
<1>6. Owners'
  BY <1>3 DEF Struct, Owners, ToldToStop, conn, library
<1> QED BY <1>4, <1>5, <1>6 DEF Struct

LEMMA TryEnterStruct ==
  ASSUME Struct, NEW t \in Thread, TryEnter(t) PROVE Struct'
<1>1. pc[t] = "enter" /\ pc[t] \in Busy
  BY DEF TryEnter, Busy
<1>2. /\ todo[t] # <<>> /\ old[t] = None /\ Now(t) # "stopped" /\ Now(t) \in ModeCommands
      /\ Now(t) \in Commands
  BY <1>1, AtPlace DEF Commands
<1>3. UNCHANGED <<hubVars, running, play, recording, conn, old, req, wire, library, rest>>
  BY DEF TryEnter
<1>4. Places' /\ PlanTypes'
  <2>1. CASE Go(t, "ensure")
    BY <1>2, <1>3, <2>1, Goes DEF Place, Busy
  <2>2. CASE Done(t)
    BY <1>2, <1>3, <2>2, Advance
  <2> QED BY <2>1, <2>2 DEF TryEnter
<1>5. mode' \in Modes
  BY <1>2 DEF TryEnter, Entered, Modes, Struct, Types, FlagTypes
<1>6. Types'
  BY <1>3, <1>4, <1>5 DEF Struct, Types, ThreadTypes, PlanTypes, FlagTypes, WireTypes, hubVars,
       conn, wire, library, rest
<1>7. Owners'
  BY <1>3 DEF Struct, Owners, ToldToStop, conn, library
<1> QED BY <1>4, <1>6, <1>7 DEF Struct

LEMMA EnsureStruct ==
  ASSUME Struct, NEW t \in Thread, Ensure(t) PROVE Struct'
<1>1. /\ todo[t] # <<>> /\ old[t] = None /\ Now(t) # "stopped"
      /\ Now(t) \in Commands \cup {"connect"}
  BY AtPlace DEF Ensure, Idle, Busy
<1>2. UNCHANGED <<hubVars, client, conn, old, req, wire, library, rest>>
  BY DEF Ensure
<1>3. Places' /\ PlanTypes'
  <2>1. CASE Fails(t) \/ Done(t)
    BY <1>1, <1>2, <2>1, Advance
  <2>2. CASE Now(t) # "connect" /\ Go(t, "send")
    BY <1>1, <1>2, <2>2, Goes DEF Place, Busy
  <2>3. CASE Go(t, "open")
    BY <1>1, <1>2, <2>3, Goes DEF Place, Busy
  <2> QED BY <2>1, <2>2, <2>3 DEF Ensure
<1>4. Types'
  BY <1>2, <1>3 DEF Struct, Types, ThreadTypes, PlanTypes, FlagTypes, WireTypes, hubVars, client,
       conn, wire, library, rest
<1>5. Owners'
  BY <1>2 DEF Struct, Owners, ToldToStop, conn, library
<1> QED BY <1>3, <1>4, <1>5 DEF Struct

LEMMA HubCleared ==
  ASSUME HubReset \/ HubClose
  PROVE  /\ responses' = <<>> /\ responses' \in Seq(Response) /\ Len(responses') <= MaxRetained
         /\ closed' \in BOOLEAN
<1>1. responses' = <<>> /\ closed' \in BOOLEAN
  BY DEF HubReset, HubClose
<1>2. <<>> \in Seq(Response) /\ Len(<<>>) = 0
  OBVIOUS
<1> QED BY <1>1, <1>2, MaxRetainedAssumption

LEMMA OpenResetStruct ==
  ASSUME Struct, NEW t \in Thread, OpenReset(t) PROVE Struct'
<1>1. todo[t] # <<>> /\ old[t] = None /\ Now(t) \in Commands \cup {"connect"}
  BY AtPlace DEF OpenReset, Busy
<1>2. UNCHANGED <<client, conn, old, req, wire, library, rest>>
  BY DEF OpenReset
<1>3. Places' /\ PlanTypes'
  BY <1>1, <1>2, Goes DEF OpenReset, Place, Busy
<1>4. Types'
  BY <1>2, <1>3, HubCleared DEF OpenReset, Struct, Types, ThreadTypes, PlanTypes, FlagTypes,
       WireTypes, client, conn, wire, library, rest
<1>5. Owners'
  BY <1>2 DEF Struct, Owners, ToldToStop, conn, library
<1> QED BY <1>3, <1>4, <1>5 DEF Struct

LEMMA UnusedExists ==
  ASSUME Struct, NEW t \in Thread, old[t] = None
  PROVE  Unused # {}
<1>1. PICK u \in Thread : \A v \in Thread : v = t \/ v = u
  BY DEF Thread
<1>2. old[u] \in Ws \cup {None} /\ ws \in Ws \cup {None}
  BY DEF Struct, Types, ThreadTypes, WireTypes
<1>3. PICK w \in Ws : w # old[u] /\ w # ws
  BY <1>2, WsAssumption
<1>4. w # None
  BY WsAssumption
<1>5. \A v \in Thread : old[v] # w
  BY <1>1, <1>3, <1>4
<1>6. lib[w] = "none"
  BY <1>3, <1>5 DEF Struct, Owners, ToldToStop
<1> QED BY <1>3, <1>5, <1>6 DEF Unused

LEMMA OpenReplaceStruct ==
  ASSUME Struct, NEW t \in Thread, OpenReplace(t) PROVE Struct'
<1>1. todo[t] # <<>> /\ old[t] = None /\ Now(t) \in Commands \cup {"connect"}
  BY AtPlace DEF OpenReplace, Busy
<1>2. ws' \in Unused
  BY <1>1, UnusedExists DEF OpenReplace
<1>3. /\ UNCHANGED <<hubVars, client, req, wire, library, rest>>
      /\ connected' = FALSE /\ failed' = FALSE /\ old' = [old EXCEPT ![t] = ws]
      /\ Go(t, IF ws = None THEN "start" ELSE "destroying")
  BY DEF OpenReplace
<1>4. Places' /\ PlanTypes'
  <2>1. old'[t] = ws /\ \A u \in Thread \ {t} : old'[u] = old[u]
    BY <1>3 DEF Struct, Types, ThreadTypes
  <2> QED BY <1>1, <1>3, <2>1, Goes DEF Place, Busy
<1>5. Types'
  BY <1>2, <1>3, <1>4 DEF Unused, Struct, Types, ThreadTypes, PlanTypes, FlagTypes, WireTypes,
       hubVars, client, wire, library, rest
<1>6. Owners'
  <2> SUFFICES ASSUME NEW w \in Ws, lib[w] # "none"
      PROVE  \E u \in Thread : old'[u] = w
    BY <1>3 DEF Owners, ToldToStop, library
  <2>1. old'[t] = ws /\ \A u \in Thread \ {t} : old'[u] = old[u]
    BY <1>3 DEF Struct, Types, ThreadTypes
  <2> QED BY <1>1, <2>1, WsAssumption DEF Struct, Owners, ToldToStop
<1> QED BY <1>4, <1>5, <1>6 DEF Struct

LEMMA OldEndedStruct ==
  ASSUME Struct, NEW t \in Thread, OldEnded(t) PROVE Struct'
<1>1. /\ todo[t] # <<>> /\ old[t] \in Ws /\ Now(t) # "stopped" /\ lib[old[t]] # "up"
      /\ pc[t] = "destroying" => Now(t) \in Commands \cup {"connect"}
  BY AtPlace DEF OldEnded, Busy
<1>2. /\ UNCHANGED <<hubVars, client, conn, req, wire, tell, rest>>
      /\ lib' = [lib EXCEPT ![old[t]] = "none"] /\ old' = [old EXCEPT ![t] = None]
      /\ \/ pc[t] = "destroying" /\ Go(t, "start")
         \/ Done(t) \/ Fails(t)
  BY DEF OldEnded
<1>3. old'[t] = None /\ (\A u \in Thread \ {t} : old'[u] = old[u])
  BY <1>2 DEF Struct, Types, ThreadTypes
<1>4. Places' /\ PlanTypes'
  <2>1. CASE pc[t] = "destroying" /\ Go(t, "start")
    BY <1>1, <1>3, <2>1, Goes DEF Place, Busy
  <2>2. CASE Done(t) \/ Fails(t)
    BY <1>1, <1>3, <2>2, Advance
  <2> QED BY <1>2, <2>1, <2>2
<1>5. Types'
  <2>1. ThreadTypes'
    BY <1>2, <1>4 DEF Struct, Types, ThreadTypes, PlanTypes, wire
  <2>2. FlagTypes'
    <3>1. UNCHANGED <<closed, running, mode, play, recording, connected, failed, device,
                      silent, lost, crashed, env>>
      BY <1>2 DEF hubVars, client, conn, wire, rest
    <3> QED BY <3>1 DEF Struct, Types, FlagTypes
  <2>3. WireTypes'
    BY <1>1, <1>2 DEF Struct, Types, WireTypes, hubVars, conn, wire
  <2> QED BY <2>1, <2>2, <2>3 DEF Types
<1>6. Owners'
  BY <1>1, <1>2, <1>3 DEF Struct, Types, ThreadTypes, WireTypes, Owners, ToldToStop, conn
<1> QED BY <1>4, <1>5, <1>6 DEF Struct

LEMMA OpenStartStruct ==
  ASSUME Struct, NEW t \in Thread, OpenStart(t) PROVE Struct'
<1>1. todo[t] # <<>> /\ old[t] = None /\ Now(t) \in Commands \cup {"connect"}
  BY AtPlace DEF OpenStart, Busy
<1>2. /\ UNCHANGED <<hubVars, client, conn, old, req, wire, tell, lost, env>>
      /\ crashed' \in BOOLEAN /\ Go(t, "await")
      /\ lib' = IF ws # None /\ lib[ws] = "none" THEN [lib EXCEPT ![ws] = "connecting"] ELSE lib
  BY DEF OpenStart
<1>3. Places' /\ PlanTypes'
  BY <1>1, <1>2, Goes DEF Place, Busy
<1>4. Types'
  BY <1>2, <1>3 DEF Struct, Types, ThreadTypes, PlanTypes, FlagTypes, WireTypes, hubVars,
       client, conn, wire
<1>5. Owners'
  BY <1>2 DEF Struct, Types, WireTypes, Owners, ToldToStop, conn
<1> QED BY <1>3, <1>4, <1>5 DEF Struct

LEMMA SpendTypes ==
  ASSUME FlagTypes, NEW k \in EnvKind, Spend(k) PROVE env' \in [EnvKind -> Nat]
BY DEF FlagTypes, Spend

LEMMA OpenAwaitStruct ==
  ASSUME Struct, NEW t \in Thread, OpenAwait(t) PROVE Struct'
<1>1. /\ todo[t] # <<>> /\ old[t] = None /\ Now(t) \in Commands \cup {"connect"}
      /\ Now(t) # "stopped"
  BY AtPlace DEF OpenAwait, Busy
<1>2. UNCHANGED <<hubVars, client, conn, old, req, wire, library, lost, crashed>>
  BY DEF OpenAwait
<1>3. Places' /\ PlanTypes'
  <2>1. CASE Done(t)
    BY <1>1, <1>2, <2>1, Advance
  <2>2. CASE Now(t) # "connect" /\ Go(t, "send")
    BY <1>1, <1>2, <2>2, Goes DEF Place, Busy
  <2>3. CASE Go(t, "close")
    BY <1>1, <1>2, <2>3, Goes DEF Place, Busy
  <2> QED BY <2>1, <2>2, <2>3 DEF OpenAwait
<1>4. env' \in [EnvKind -> Nat]
  <2>1. Spend("late") \/ env' = env
    BY DEF OpenAwait
  <2> QED BY <2>1, SpendTypes DEF Struct, Types, FlagTypes, EnvKind
<1>5. Types'
  BY <1>2, <1>3, <1>4 DEF Struct, Types, ThreadTypes, PlanTypes, FlagTypes, WireTypes, hubVars,
       client, conn, wire, library
<1>6. Owners'
  BY <1>2 DEF Struct, Owners, ToldToStop, conn, library
<1> QED BY <1>3, <1>5, <1>6 DEF Struct

LEMMA CloseMoveStruct ==
  ASSUME Struct, NEW t \in Thread, CloseMove(t) PROVE Struct'
<1>1. /\ todo[t] # <<>> /\ old[t] = None
      /\ Now(t) \in Commands \cup {"connect", "hang_up", "give_up"} /\ Now(t) # "stopped"
  BY AtPlace DEF CloseMove, Idle, Busy
<1>2. /\ UNCHANGED <<hubVars, client, req, wire, library, rest>>
      /\ connected' = FALSE /\ failed' = FALSE /\ ws' = None
      /\ old' = [old EXCEPT ![t] = ws]
      /\ \/ ws # None /\ Go(t, "stopping")
         \/ ws = None /\ (Fails(t) \/ Done(t))
  BY DEF CloseMove
<1>3. old'[t] = ws /\ \A u \in Thread \ {t} : old'[u] = old[u]
  BY <1>2 DEF Struct, Types, ThreadTypes
<1>4. Places' /\ PlanTypes'
  <2>1. CASE ws # None /\ Go(t, "stopping")
    BY <1>1, <1>3, <2>1, Goes DEF Place, Busy
  <2>2. CASE ws = None /\ (Fails(t) \/ Done(t))
    BY <1>1, <1>3, <2>2, Advance
  <2> QED BY <1>2, <2>1, <2>2
<1>5. Types'
  BY <1>2, <1>4 DEF Struct, Types, ThreadTypes, PlanTypes, FlagTypes, WireTypes, hubVars,
       client, wire, library, rest
<1>6. Owners'
  <2> SUFFICES ASSUME NEW w \in Ws, lib[w] # "none"
      PROVE  \E u \in Thread : old'[u] = w
    BY <1>2 DEF Owners, ToldToStop, library
  <2> QED BY <1>1, <1>3, WsAssumption DEF Struct, Owners, ToldToStop
<1> QED BY <1>4, <1>5, <1>6 DEF Struct

LEMMA SendStruct ==
  ASSUME Struct, NEW t \in Thread, Send(t) PROVE Struct'
<1>1. todo[t] # <<>> /\ old[t] = None /\ Now(t) \in Commands /\ Now(t) # "stopped"
  BY AtPlace DEF Send, Busy
<1>2. UNCHANGED <<hubVars, client, conn, old, back, device, silent, library, rest>>
  BY DEF Send
<1>3. Places' /\ PlanTypes'
  <2>1. CASE Done(t) \/ Fails(t)
    BY <1>1, <1>2, <2>1, Advance
  <2>2. CASE Go(t, "wait")
    BY <1>1, <1>2, <2>2, Goes DEF Place, Busy
  <2> QED BY <2>1, <2>2 DEF Send
<1>4. Fresh \in Nat
  BY FreshIsNew DEF Struct
<1>5. req' \in [Thread -> Nat]
  BY <1>4 DEF Send, Struct, Types, ThreadTypes
<1>6. /\ line' \in [Ws -> Seq(Request)]
      /\ \A w \in Ws : lib[w] # "up" => line'[w] = line[w]
  <2>1. CASE line' = line
    BY <2>1 DEF Struct, Types, WireTypes
  <2>2. CASE /\ ws # None /\ lib[ws] = "up"
             /\ line' = [line EXCEPT ![ws] = Append(@, [id |-> Fresh, cmd |-> Now(t)])]
    <3>1. ws \in Ws /\ line \in [Ws -> Seq(Request)]
      BY <2>2 DEF Struct, Types, WireTypes
    <3>2. [id |-> Fresh, cmd |-> Now(t)] \in Request
      BY <1>1, <1>4 DEF Request
    <3>3. Append(line[ws], [id |-> Fresh, cmd |-> Now(t)]) \in Seq(Request)
      BY <3>1, <3>2
    <3> QED BY <2>2, <3>1, <3>3
  <2> QED BY <2>1, <2>2 DEF Send
<1>7. Types'
  BY <1>2, <1>3, <1>5, <1>6 DEF Struct, Types, ThreadTypes, PlanTypes, FlagTypes, WireTypes,
       hubVars, client, conn, library, rest
<1>8. Owners'
  BY <1>2 DEF Struct, Owners, ToldToStop, conn, library
<1> QED BY <1>3, <1>7, <1>8 DEF Struct

(* A command was answered: the next step, with the flags it leaves.        *)
LEMMA AnsweredDoes ==
  ASSUME Struct, NEW t \in Thread, todo[t] # <<>>, Now(t) \in Commands, Answered(t)
  PROVE  /\ todo' \in [Thread -> Plans] /\ pc' \in [Thread -> Place] /\ allOk' = allOk
         /\ Others(t) /\ pc'[t] = "next"
         /\ Now(t) = "llm_start" => Moved(t, "enter_llm", "enter_llm")
         /\ Now(t) = "llm_stop" => Moved(t, "enter_kws", "enter_kws")
         /\ Now(t) \notin ModeCommands =>
              Moved(t, After1(Now(t), Call(t)), IF Now(t) = Call(t) THEN "none" ELSE Call(t))
<1>1. ThreadTypes /\ Call(t) # "none" /\ Now(t) # "stopped"
  BY CallIs DEF Struct, Types, Commands, AudioCommands, ModeCommands, FreeCommands
<1>2. CASE Now(t) \in ModeCommands
  <2>1. PICK s \in Single, p \in Plans :
          /\ p = <<s>> /\ Then(t, p) /\ allOk' = allOk
          /\ Now(t) = "llm_start" => s = "enter_llm"
          /\ Now(t) = "llm_stop" => s = "enter_kws"
    BY <1>2, Beginnings DEF Answered, ModeCommands, Single, Then
  <2>2. p \in Plans /\ Head(p) = s /\ Last(p) = s /\ p # <<>>
    <3>1. <<s>> \in Plans
      BY Beginnings
    <3> QED BY <2>1, <3>1 DEF Last
  <2>3. /\ todo' \in [Thread -> Plans] /\ pc' \in [Thread -> Place] /\ pc'[t] = "next"
        /\ \A u \in Thread \ {t} : pc'[u] = pc[u] /\ todo'[u] = todo[u]
        /\ Call(t)' = s /\ Now(t)' = s
    <3>1. s # "none"
      BY DEF Single
    <3>2. Call(t)' = s /\ Now(t)' = s
      BY <1>1, <2>1, <2>2, <3>1, ThenMoves DEF Moved
    <3> QED BY <1>1, <2>1, <2>2, <3>2, ThenMoves
  <2>4. Others(t)
    BY <2>1, <2>3 DEF Others
  <2>5. /\ Now(t) = "llm_start" => Call(t)' = "enter_llm" /\ Now(t)' = "enter_llm"
        /\ Now(t) = "llm_stop" => Call(t)' = "enter_kws" /\ Now(t)' = "enter_kws"
    BY <2>1, <2>3
  <2> QED BY <1>2, <2>1, <2>3, <2>4, <2>5 DEF Moved
<1>3. CASE Now(t) \notin ModeCommands
  <2>1. Done(t)
    BY <1>3 DEF Answered
  <2> QED BY <1>1, <1>3, <2>1, DoneMoves DEF ModeCommands
<1> QED BY <1>2, <1>3

LEMMA WaitStruct ==
  ASSUME Struct, NEW t \in Thread, Wait(t) PROVE Struct'
<1>1. todo[t] # <<>> /\ old[t] = None /\ Now(t) \in Commands /\ Now(t) # "stopped"
  BY AtPlace DEF Wait, Busy
<1>2. UNCHANGED <<running, mode, conn, old, wire, library, lost, crashed>>
      /\ req' = [req EXCEPT ![t] = 0]
  BY DEF Wait
<1>3. CASE HubTake(req[t], TRUE) /\ Answered(t) /\ UNCHANGED env
  <2>1. Places' /\ PlanTypes'
    BY <1>1, <1>2, <1>3, AnsweredDoes, MovedPlaces
    DEF Struct, Types, ThreadTypes, PlanTypes, Others
  <2>2. play' \in BOOLEAN /\ recording' \in BOOLEAN
    BY <1>3 DEF Answered, Struct, Types, FlagTypes
  <2>3. responses' \in Seq(Response) /\ Len(responses') <= MaxRetained /\ closed' = closed
    BY <1>3, TakeGives DEF Struct, Types
  <2>4. Types'
    BY <1>2, <1>3, <2>1, <2>2, <2>3 DEF Struct, Types, ThreadTypes, PlanTypes, FlagTypes,
         WireTypes, conn, wire, library
  <2>5. Owners'
    BY <1>2 DEF Struct, Owners, ToldToStop, conn, library
  <2> QED BY <2>1, <2>4, <2>5 DEF Struct
<1>4. CASE /\ HubTake(req[t], FALSE) \/ HubGivesUp(req[t])
           /\ UNCHANGED env \/ Spend("late")
           /\ Fails(t) /\ UNCHANGED <<play, recording>>
  <2>1. Places' /\ PlanTypes'
    BY <1>1, <1>2, <1>4, Advance
  <2>2. responses' \in Seq(Response) /\ Len(responses') <= MaxRetained /\ closed' = closed
    BY <1>4, TakeGives DEF Struct, Types, WireTypes, HubGivesUp, hubVars
  <2>3. env' \in [EnvKind -> Nat]
    BY <1>4, SpendTypes DEF Struct, Types, FlagTypes, EnvKind
  <2>4. Types'
    <3>1. ThreadTypes'
      BY <1>2, <2>1 DEF Struct, Types, ThreadTypes, PlanTypes, wire
    <3>2. FlagTypes'
      <4>1. UNCHANGED <<closed, running, mode, play, recording, connected, failed, device,
                        silent, lost, crashed>>
        BY <1>2, <1>4, <2>2 DEF conn, wire
      <4> QED BY <2>3, <4>1 DEF Struct, Types, FlagTypes
    <3>3. WireTypes'
      BY <1>2, <2>2 DEF Struct, Types, WireTypes, conn, wire, library
    <3> QED BY <3>1, <3>2, <3>3 DEF Types
  <2>5. Owners'
    BY <1>2 DEF Struct, Owners, ToldToStop, conn, library
  <2> QED BY <2>1, <2>4, <2>5 DEF Struct
<1> QED BY <1>3, <1>4 DEF Wait

(* A change of the mode between two commands. *)
LEMMA EnterDoes ==
  ASSUME Struct, NEW t \in Thread, EnterMode(t)
  PROVE  /\ todo' \in [Thread -> Plans] /\ pc' \in [Thread -> Place]
         /\ allOk' \in [Thread -> BOOLEAN] /\ Others(t)
         /\ allOk'[t] = (allOk[t] \/ Now(t) = "fault")
         /\ pc'[t] = IF Now(t) = "stopped" THEN "over" ELSE "next"
         /\ IF Now(t) = "restarted" /\ ~allOk[t] THEN Moved(t, "give_up", "report")
            ELSE Moved(t, After1(Now(t), Call(t)), IF Now(t) = Call(t) THEN "none" ELSE Call(t))
<1>1. ThreadTypes /\ todo[t] # <<>> /\ Call(t) # "none"
  BY AtPlace DEF EnterMode, Idle, Struct, Types
<1>2. /\ allOk' \in [Thread -> BOOLEAN] /\ (\A u \in Thread \ {t} : allOk'[u] = allOk[u])
      /\ allOk'[t] = (allOk[t] \/ Now(t) = "fault")
  BY <1>1 DEF EnterMode, ThreadTypes
<1>3. PICK p :
        /\ Then(t, p)
        /\ p = IF Now(t) = "restarted" /\ ~allOk[t] THEN <<"give_up", "report">> ELSE Tail(todo[t])
  BY DEF EnterMode
<1>4. PlanFacts(todo[t]) /\ todo[t] \in Plans
  BY <1>1, PlanSteps DEF ThreadTypes
<1>5. Call(t) = Last(todo[t]) /\ Now(t) = Head(todo[t])
  BY <1>1 DEF Call, Now
<1>6. p \in Plans
  BY <1>3, <1>4, Beginnings DEF PlanFacts
<1>7. /\ todo' \in [Thread -> Plans] /\ pc' \in [Thread -> Place]
      /\ \A u \in Thread \ {t} : pc'[u] = pc[u] /\ todo'[u] = todo[u]
      /\ pc'[t] = IF Now(t) = "stopped" THEN "over" ELSE "next"
      /\ Call(t)' = (IF p = <<>> THEN "none" ELSE Last(p))
      /\ p # <<>> /\ Last(p) # "none" => Now(t)' = Head(p)
  BY <1>1, <1>3, <1>6, ThenMoves DEF Moved
<1>8. CASE Now(t) = "restarted" /\ ~allOk[t]
  <2>1. p # <<>> /\ Last(p) = "report" /\ Head(p) = "give_up"
    BY <1>3, <1>8 DEF Last
  <2> QED BY <1>2, <1>7, <1>8, <2>1 DEF Others, Moved
<1>9. CASE ~(Now(t) = "restarted" /\ ~allOk[t])
  <2>1. p = Tail(todo[t])
    BY <1>3, <1>9
  <2>2. Moved(t, After1(Now(t), Call(t)), IF Now(t) = Call(t) THEN "none" ELSE Call(t))
    BY <1>4, <1>5, <1>7, <2>1 DEF PlanFacts, Moved
  <2> QED BY <1>2, <1>7, <1>9, <2>2 DEF Others
<1> QED BY <1>8, <1>9

LEMMA EnterModeStruct ==
  ASSUME Struct, NEW t \in Thread, EnterMode(t) PROVE Struct'
<1>1. todo[t] # <<>> /\ old[t] = None
  BY AtPlace DEF EnterMode, Idle, Busy
<1>2. UNCHANGED <<hubVars, running, play, recording, conn, old, req, wire, library, rest>>
  BY DEF EnterMode
<1>3. Places' /\ PlanTypes'
  BY <1>1, <1>2, EnterDoes, MovedPlaces DEF Struct, Types, PlanTypes, Others
<1>4. mode' \in Modes
  BY DEF EnterMode, NextMode, Modes
<1>5. Types'
  BY <1>2, <1>3, <1>4 DEF Struct, Types, ThreadTypes, PlanTypes, FlagTypes, WireTypes, hubVars,
       conn, wire, library, rest
<1>6. Owners'
  BY <1>2 DEF Struct, Owners, ToldToStop, conn, library
<1> QED BY <1>3, <1>5, <1>6 DEF Struct

LEMMA OtherStepStruct ==
  ASSUME Struct, NEW t \in Thread, OtherStep(t) PROVE Struct'
<1>1. todo[t] # <<>> /\ old[t] = None /\ Done(t)
  BY AtPlace DEF OtherStep, Idle, Busy
<1>2. UNCHANGED <<mode, conn, old, req, wire, library, crashed, env>>
  BY DEF OtherStep
<1>3. Places' /\ PlanTypes'
  BY <1>1, <1>2, Advance
<1>4. /\ responses' \in Seq(Response) /\ Len(responses') <= MaxRetained /\ closed' \in BOOLEAN
  <2>1. HubReset \/ HubClose \/ UNCHANGED hubVars
    BY DEF OtherStep
  <2> QED BY <2>1, HubCleared DEF hubVars, Struct, Types, FlagTypes, WireTypes
<1>5. running' \in BOOLEAN /\ play' \in BOOLEAN /\ recording' \in BOOLEAN /\ lost' \in BOOLEAN
  BY DEF OtherStep, Struct, Types, FlagTypes
<1>6. Types'
  BY <1>2, <1>3, <1>4, <1>5 DEF Struct, Types, ThreadTypes, PlanTypes, FlagTypes, WireTypes,
       conn, wire, library
<1>7. Owners'
  BY <1>2 DEF Struct, Owners, ToldToStop, conn, library
<1> QED BY <1>3, <1>6, <1>7 DEF Struct

(* A call begins. *)
LEMMA ProgramPlans ==
  ASSUME NEW p \in Program
  PROVE  /\ p \in Plans /\ p # <<>>
         /\ \/ p = Stop
            \/ \E s \in {"llm_start", "llm_stop", "run_shell", "xiaoai_exit"} :
                 Head(p) = s /\ Last(p) = s
<1>1. CASE p = Stop
  BY <1>1, Beginnings
<1>2. CASE p # Stop
  <2>1. PICK s \in {"llm_start", "llm_stop", "run_shell", "xiaoai_exit"} : p = <<s>>
    BY <1>2 DEF Program
  <2>2. <<s>> \in Plans
    BY Beginnings DEF Single
  <2> QED BY <2>1, <2>2 DEF Last
<1> QED BY <1>1, <1>2

LEMMA BeginMoves ==
  ASSUME Struct, NEW t \in Thread, todo[t] = <<>>, NEW p \in Plans, p # <<>>, Then(t, p), old' = old
  PROVE  /\ Places' /\ todo' \in [Thread -> Plans] /\ pc' \in [Thread -> Place]
         /\ \A u \in Thread \ {t} : pc'[u] = pc[u] /\ todo'[u] = todo[u]
         /\ Moved(t, Head(p), Last(p)) /\ pc'[t] = "next"
<1>1. ThreadTypes /\ Call(t) = "none" /\ old[t] = None /\ Places
  BY CallIs DEF Struct, Types, Places, PlaceOf, Busy
<1>2. /\ todo' \in [Thread -> Plans] /\ pc' \in [Thread -> Place]
      /\ \A u \in Thread \ {t} : pc'[u] = pc[u] /\ todo'[u] = todo[u]
      /\ Moved(t, Head(p), Last(p)) /\ pc'[t] = "next"
  BY <1>1, ThenMoves DEF Moved
<1> QED BY <1>1, <1>2, MovedPlaces

LEMMA BeginStruct ==
  ASSUME Struct, StartBegins \/ OpBegins \/ StopBegins PROVE Struct'
<1>1. PICK t \in Thread, p \in Plans : todo[t] = <<>> /\ p # <<>> /\ Then(t, p)
  BY Beginnings, ProgramPlans DEF StartBegins, OpBegins, StopBegins, Idle, Thread
<1>2. UNCHANGED <<hubVars, mode, play, recording, conn, old, req, wire, library, lost, crashed>>
  BY DEF StartBegins, OpBegins, StopBegins, client, rest
<1>3. Places' /\ todo' \in [Thread -> Plans] /\ pc' \in [Thread -> Place]
  BY <1>1, <1>2, BeginMoves
<1>4. running' \in BOOLEAN /\ allOk' \in [Thread -> BOOLEAN]
  BY DEF StartBegins, OpBegins, StopBegins, client, Struct, Types, FlagTypes, ThreadTypes
<1>5. env' \in [EnvKind -> Nat]
  <2>1. env' = env \/ Spend("ops") \/ Spend("stops")
    BY DEF StartBegins, OpBegins, StopBegins, rest
  <2> QED BY <2>1, SpendTypes DEF Struct, Types, FlagTypes, EnvKind
<1>6. Types'
  BY <1>2, <1>3, <1>4, <1>5 DEF Struct, Types, ThreadTypes, FlagTypes, WireTypes, hubVars, conn,
       wire, library
<1>7. Owners'
  BY <1>2 DEF Struct, Owners, ToldToStop, conn, library
<1> QED BY <1>3, <1>6, <1>7 DEF Struct

(* The steps of the library and of the device leave the threads alone.      *)
Outside ==
  \/ \E w \in Ws : Library(w) \/ Drop(w)
  \/ DeviceAnswers \/ DeviceFallsSilent

LEMMA OutsideFrame ==
  ASSUME Outside
  PROVE  /\ UNCHANGED <<running, play, recording, ws, pc, todo, allOk, old, req, crashed>>
         /\ Places => Places'
<1>1. UNCHANGED <<running, play, recording, ws, pc, todo, allOk, old, req, crashed>>
  <2>1. CASE \E w \in Ws : Library(w)
    BY <2>1 DEF Library, Attempt, OnOpen, LibCloses, OnClose, OnCloseHub, OnCloseMode,
         OnCloseTell, OnResponse, libFrame, client, conn, thr
  <2>2. CASE \E w \in Ws : Drop(w)
    BY <2>2 DEF Drop, client, conn, thr
  <2>3. CASE DeviceAnswers \/ DeviceFallsSilent
    BY <2>3 DEF DeviceAnswers, DeviceAnswersOn, DeviceFallsSilent, client, conn, thr
  <2> QED BY <2>1, <2>2, <2>3 DEF Outside
<1>2. Places => Places'
  BY <1>1 DEF Places, PlaceOf, Now
<1> QED BY <1>1, <1>2

LEMMA OutsideOwners ==
  ASSUME Struct, Outside PROVE Owners'
<1>1. ws' = ws /\ old' = old
  BY OutsideFrame
<1>2. \A w \in Ws : lib[w] = "none" => lib'[w] = "none"
  <2> SUFFICES ASSUME NEW w \in Ws, lib[w] = "none" PROVE lib'[w] = "none"
    OBVIOUS
  <2>1. CASE \E v \in Ws : Library(v) \/ Drop(v)
    <3>1. PICK v \in Ws : Library(v) \/ Drop(v)
      BY <2>1
    <3>2. \/ lib' = lib
          \/ lib[v] # "none" /\ \E s : lib' = [lib EXCEPT ![v] = s]
      BY <3>1 DEF Library, Drop, Attempt, OnOpen, LibCloses, OnClose, OnCloseHub, OnCloseMode,
           OnCloseTell, OnResponse, To, library
    <3> QED BY <3>2 DEF Struct, Types, WireTypes
  <2>2. CASE DeviceAnswers \/ DeviceFallsSilent
    BY <2>2 DEF DeviceAnswers, DeviceAnswersOn, DeviceFallsSilent, library
  <2> QED BY <2>1, <2>2 DEF Outside
<1> QED BY <1>1, <1>2 DEF Struct, Owners, ToldToStop

LEMMA OutsideFlags ==
  ASSUME Struct, Outside PROVE FlagTypes'
<1>1. UNCHANGED <<running, play, recording, crashed>>
  BY OutsideFrame
<1>2. closed' \in BOOLEAN /\ connected' \in BOOLEAN /\ failed' \in BOOLEAN /\ lost' \in BOOLEAN
      /\ silent' \in BOOLEAN
  <2>1. closed' = closed \/ closed' = TRUE
    BY DEF Outside, Library, Drop, Attempt, OnOpen, LibCloses, OnClose, OnCloseHub, OnCloseMode,
       OnCloseTell, OnResponse, DeviceAnswers, DeviceAnswersOn, DeviceFallsSilent,
       HubClose, HubNotify, hubVars
  <2>2. \/ connected' = connected /\ failed' = failed
        \/ connected' \in BOOLEAN /\ failed' \in BOOLEAN
    BY DEF Outside, Library, Drop, Attempt, OnOpen, LibCloses, OnClose, OnCloseHub, OnCloseMode,
       OnCloseTell, OnResponse, DeviceAnswers, DeviceAnswersOn, DeviceFallsSilent,
       conn
  <2>3. lost' = lost \/ lost' \in BOOLEAN
    BY DEF Outside, Library, Drop, Attempt, OnOpen, LibCloses, OnClose, OnCloseHub, OnCloseMode,
       OnCloseTell, OnResponse, DeviceAnswers, DeviceAnswersOn, DeviceFallsSilent,
       libFrame
  <2>4. silent' = silent \/ silent' = TRUE
    BY DEF Outside, Library, Drop, Attempt, OnOpen, LibCloses, OnClose, OnCloseHub, OnCloseMode,
       OnCloseTell, OnResponse, DeviceAnswers, DeviceAnswersOn, DeviceFallsSilent,
       libFrame
  <2> QED BY <2>1, <2>2, <2>3, <2>4 DEF Struct, Types, FlagTypes
<1>3. mode' \in Modes
  BY DEF Outside, Library, Drop, Attempt, OnOpen, LibCloses, OnClose, OnCloseHub, OnCloseMode,
     OnCloseTell, OnResponse, DeviceAnswers, DeviceAnswersOn, DeviceFallsSilent, client, libFrame,
     Struct, Types, FlagTypes, Modes
<1>4. device' \in {"off", "kws", "llm"}
  BY DEF Outside, Library, Drop, Attempt, OnOpen, LibCloses, OnClose, OnCloseHub, OnCloseMode,
     OnCloseTell, OnResponse, DeviceAnswers, DeviceAnswersOn, DeviceFallsSilent, libFrame, After,
     Struct, Types, FlagTypes
<1>5. env' \in [EnvKind -> Nat]
  <2>1. env' = env \/ \E k \in EnvKind : Spend(k)
    BY DEF Outside, Library, Drop, Attempt, OnOpen, LibCloses, OnClose, OnCloseHub, OnCloseMode,
       OnCloseTell, OnResponse, DeviceAnswers, DeviceAnswersOn, DeviceFallsSilent, libFrame, EnvKind
  <2> QED BY <2>1, SpendTypes DEF Struct, Types, FlagTypes
<1> QED BY <1>1, <1>2, <1>3, <1>4, <1>5 DEF Struct, Types, FlagTypes

LEMMA OutsideWire ==
  ASSUME Struct, Outside PROVE WireTypes'
<1> USE DEF Struct, Types, WireTypes
<1>1. ASSUME NEW w \in Ws, Attempt(w) PROVE WireTypes'
  BY <1>1 DEF Attempt, To, conn, hubVars
<1>2. ASSUME NEW w \in Ws, OnOpen(w) PROVE WireTypes'
  BY <1>2 DEF OnOpen, To, hubVars
<1>3. ASSUME NEW w \in Ws, LibCloses(w) PROVE WireTypes'
  BY <1>3 DEF LibCloses, To, Flush, conn, hubVars
<1>4. ASSUME NEW w \in Ws, OnClose(w) PROVE WireTypes'
  BY <1>4 DEF OnClose, To, hubVars, FlagTypes
<1>5. ASSUME NEW w \in Ws, OnCloseHub(w) PROVE WireTypes'
  BY <1>5, HubCleared DEF OnCloseHub, To, conn
<1>6. ASSUME NEW w \in Ws, OnCloseMode(w) PROVE WireTypes'
  BY <1>6 DEF OnCloseMode, To, conn, hubVars
<1>7. ASSUME NEW w \in Ws, OnCloseTell(w) PROVE WireTypes'
  BY <1>7 DEF OnCloseTell, To, conn, hubVars
<1>8. ASSUME NEW w \in Ws, OnResponse(w) PROVE WireTypes'
  <2>1. back[w] \in Seq(Response) /\ back[w] # <<>>
    BY <1>8 DEF OnResponse
  <2>2. Head(back[w]) \in Response /\ Tail(back[w]) \in Seq(Response)
    BY <2>1
  <2>3. responses' \in Seq(Response) /\ Len(responses') <= MaxRetained
    BY <1>8, <2>2, NotifyKeeps DEF OnResponse
  <2> QED BY <1>8, <2>2, <2>3 DEF OnResponse, conn, library
<1>9. ASSUME NEW w \in Ws, Drop(w) PROVE WireTypes'
  BY <1>9 DEF Drop, To, Flush, conn, hubVars
<1>10. ASSUME NEW w \in Ws, DeviceAnswersOn(w) PROVE WireTypes'
  <2>1. /\ line[w] \in Seq(Request) /\ line[w] # <<>> /\ lib[w] = "up"
        /\ line' = [line EXCEPT ![w] = Tail(@)]
        /\ UNCHANGED <<hubVars, conn, library>>
    BY <1>10 DEF DeviceAnswersOn
  <2>2. Head(line[w]) \in Request /\ Tail(line[w]) \in Seq(Request)
    BY <2>1
  <2>3. back' \in [Ws -> Seq(Response)] /\ \A v \in Ws \ {w} : back'[v] = back[v]
    <3>1. PICK ok \in BOOLEAN :
            \/ back' = back
            \/ back' = [back EXCEPT ![w] = Append(@, [id |-> Head(line[w]).id, ok |-> ok])]
      BY <1>10 DEF DeviceAnswersOn
    <3>2. [id |-> Head(line[w]).id, ok |-> ok] \in Response
      BY <2>2 DEF Request, Response
    <3>3. Append(back[w], [id |-> Head(line[w]).id, ok |-> ok]) \in Seq(Response)
      BY <3>2
    <3> QED BY <3>1, <3>3
  <2> QED BY <2>1, <2>2, <2>3 DEF hubVars, conn, library
<1>11. ASSUME DeviceFallsSilent PROVE WireTypes'
  BY <1>11 DEF DeviceFallsSilent, conn, hubVars, library
<1> QED BY <1>1, <1>2, <1>3, <1>4, <1>5, <1>6, <1>7, <1>8, <1>9, <1>10, <1>11
        DEF Outside, Library, DeviceAnswers

LEMMA StructKept ==
  ASSUME Struct, [Next]_vars PROVE Struct'
<1>1. CASE StartBegins \/ OpBegins \/ StopBegins
  BY <1>1, BeginStruct
<1>2. CASE \E t \in Thread : Caller(t)
  BY <1>2, PrepareStruct, TryEnterStruct, EnsureStruct, OpenResetStruct, OpenReplaceStruct,
     OldEndedStruct, OpenStartStruct, OpenAwaitStruct, CloseMoveStruct, SendStruct, WaitStruct,
     EnterModeStruct, OtherStepStruct DEF Caller
<1>3. CASE Outside
  <2>1. Places' /\ ThreadTypes'
    BY <1>3, OutsideFrame DEF Struct, Types, ThreadTypes
  <2> QED BY <1>3, <2>1, OutsideFlags, OutsideWire, OutsideOwners DEF Struct, Types
<1>4. CASE UNCHANGED vars
  BY <1>4 DEF Struct, Types, ThreadTypes, FlagTypes, WireTypes, Places, PlaceOf, Now, Owners,
     ToldToStop, vars, hubVars, client, conn, thr, wire, library, rest
<1> QED BY <1>1, <1>2, <1>3, <1>4 DEF Next, Outside

LEMMA InitStruct == Init => Struct
<1> SUFFICES ASSUME Init PROVE Struct
  OBVIOUS
<1>1. ThreadTypes
  BY Beginnings DEF Init, ThreadTypes, Place
<1>2. FlagTypes
  BY BudgetsAssumption DEF Init, FlagTypes, Modes
<1>3. WireTypes
  <2>1. <<>> \in Seq(Request) /\ <<>> \in Seq(Response) /\ Len(<<>>) = 0
    OBVIOUS
  <2> QED BY <2>1, MaxRetainedAssumption DEF Init, WireTypes
<1>4. Places
  BY DEF Init, Places, PlaceOf, Busy, Thread
<1>5. Owners
  BY DEF Init, Owners
<1> QED BY <1>1, <1>2, <1>3, <1>4, <1>5 DEF Struct, Types

LEMMA StructHolds == Spec => []Struct
<1> QED BY InitStruct, StructKept, PTL DEF Spec

(* Every variable stays within its type, however the calls, the callbacks and *)
(* the device are interleaved; in particular the responses that nobody takes *)
(* stay within their limit, and there is always a WebSocket to connect with. *)
THEOREM TypeCorrect == Spec => []TypeOK
<1>1. Struct => TypeOK
  <2> SUFFICES ASSUME Struct PROVE TypeOK
    OBVIOUS
  <2>1. \A t \in Thread : Range(todo[t]) \subseteq Steps
    <3> SUFFICES ASSUME NEW t \in Thread PROVE Range(todo[t]) \subseteq Steps
      OBVIOUS
    <3>1. todo[t] \in Seq(Steps)
      <4>1. todo[t] # <<>> => todo[t] \in Seq(Steps)
        BY PlanSteps DEF Struct, Types, ThreadTypes, PlanFacts
      <4>2. <<>> \in Seq(Steps)
        OBVIOUS
      <4> QED BY <4>1, <4>2
    <3> QED BY <3>1 DEF Range
  <2> QED BY <2>1 DEF Struct, Types, ThreadTypes, FlagTypes, WireTypes, TypeOK, Place
<1> QED BY <1>1, StructHolds, PTL

-----------------------------------------------------------------------------
(* Where a step of a caller leads, and what it does to running_.            *)

Stays(t) == Call(t)' = Call(t) /\ Now(t)' = Now(t)
GoesOn(t) == Moved(t, After1(Now(t), Call(t)), IF Now(t) = Call(t) THEN "none" ELSE Call(t))
Turns(t) ==
  \/ Now(t) \in Starting /\ Call(t) = "restarted" /\ Moved(t, "restarted", "restarted")
  \/ /\ Now(t) \in Starting /\ Call(t) # "restarted"
     /\ IF running THEN Moved(t, "stop_recording", "stopped") ELSE Call(t)' = "none"
  \/ Now(t) \in ModeCommands /\ Moved(t, "fault", "restarted")
  \/ Now(t) = "llm_start" /\ Moved(t, "enter_llm", "enter_llm")
  \/ Now(t) = "llm_stop" /\ Moved(t, "enter_kws", "enter_kws")
  \/ Now(t) = "restarted" /\ Moved(t, "give_up", "report")

LEMMA FailsTurns ==
  ASSUME ThreadTypes, NEW t \in Thread, Call(t) # "none", Now(t) # "stopped", Fails(t)
  PROVE  Others(t) /\ (GoesOn(t) \/ Turns(t)) /\ pc'[t] = "next"
BY FailsMoves DEF GoesOn, Turns

LEMMA GoStays ==
  ASSUME ThreadTypes, NEW t \in Thread, NEW p, Go(t, p)
  PROVE  Others(t) /\ Stays(t) /\ pc'[t] = p
BY DEF Go, Others, Stays, Call, Now, ThreadTypes

LEMMA CallerMoves ==
  ASSUME Struct, NEW t \in Thread, Caller(t)
  PROVE  /\ Call(t) # "none" /\ InCall(Now(t), Call(t))
         /\ Others(t) /\ pc'[t] # "new"
         /\ Stays(t) \/ GoesOn(t) \/ Turns(t)
         /\ running' = running \/ running' = FALSE
         /\ Now(t) = "shut" => Stays(t) \/ running' = FALSE
<1>1. /\ Call(t) # "none" /\ InCall(Now(t), Call(t)) /\ ThreadTypes
      /\ pc[t] \in Busy => Now(t) \in Commands \cup {"connect", "hang_up", "give_up"}
      /\ pc[t] \in Busy => Now(t) # "stopped"
  <2>1. pc[t] \in Busy \/ todo[t] # <<>>
    BY DEF Caller, Prepare, TryEnter, Ensure, OpenReset, OpenReplace, OldEnded, OpenStart, OpenAwait,
       CloseMove, Send, Wait, EnterMode, OtherStep, Idle, Busy
  <2> QED BY <2>1, AtPlace DEF Struct, Types
<1>2. "shut" \notin Commands \cup {"connect", "hang_up", "give_up"} /\ "stopped" \notin Commands
  BY DEF Commands, AudioCommands, ModeCommands, FreeCommands
<1>3. CASE OtherStep(t)
  <2>1. Done(t)
    BY <1>3 DEF OtherStep
  <2>2. (running' = running /\ Now(t) # "shut") \/ running' = FALSE
    BY <1>3 DEF OtherStep
  <2> QED BY <1>1, <2>1, <2>2, DoneMoves DEF GoesOn
<1>4. CASE EnterMode(t)
  <2>1. running' = running /\ Now(t) # "shut"
    BY <1>4 DEF EnterMode
  <2> QED BY <1>1, <1>4, <2>1, EnterDoes DEF GoesOn, Turns
<1>5. CASE Wait(t) /\ Answered(t)
  <2>1. todo[t] # <<>> /\ Now(t) \in Commands /\ running' = running
    BY <1>5, AtPlace DEF Wait, Busy
  <2> QED BY <1>1, <1>2, <1>5, <2>1, AnsweredDoes DEF GoesOn, Turns, ModeCommands
<1>6. CASE /\ running' = running /\ Now(t) # "shut"
           /\ Done(t) \/ (Now(t) # "stopped" /\ Fails(t)) \/ \E p \in Busy : Go(t, p)
  <2>1. CASE Done(t)
    BY <1>1, <1>6, <2>1, DoneMoves DEF GoesOn
  <2>2. CASE Now(t) # "stopped" /\ Fails(t)
    BY <1>1, <1>6, <2>2, FailsTurns
  <2>3. CASE \E p \in Busy : Go(t, p)
    BY <1>1, <1>6, <2>3, GoStays DEF Busy
  <2> QED BY <1>6, <2>1, <2>2, <2>3
<1>7. CASE Prepare(t)
  <2>1. Now(t) \in Commands /\ running' = running
    BY <1>7 DEF Prepare, client
  <2>2. Done(t) \/ Fails(t) \/ \E p \in Busy : Go(t, p)
    BY <1>7, PrepareDoes DEF Busy
  <2> QED BY <1>2, <1>6, <2>1, <2>2
<1>8. CASE \/ TryEnter(t) \/ Ensure(t) \/ OpenReset(t) \/ OpenReplace(t) \/ OldEnded(t)
           \/ OpenStart(t) \/ OpenAwait(t) \/ CloseMove(t) \/ Send(t) \/ (Wait(t) /\ Fails(t))
  <2>1. /\ running' = running
        /\ Done(t) \/ Fails(t) \/ \E p \in Busy : Go(t, p)
    BY <1>8 DEF TryEnter, Ensure, OpenReset, OpenReplace, OldEnded, OpenStart, OpenAwait, CloseMove,
       Send, Wait, client, Busy
  <2>2. Now(t) # "shut" /\ Now(t) # "stopped"
    BY <1>1, <1>2, <1>8 DEF TryEnter, Ensure, OpenReset, OpenReplace, OldEnded, OpenStart,
       OpenAwait, CloseMove, Send, Wait, Busy
  <2> QED BY <1>6, <2>1, <2>2
<1> QED BY <1>3, <1>4, <1>5, <1>7, <1>8 DEF Caller, Wait

(* What the library and the device leave alone. *)
LEMMA OutsideQuiet ==
  ASSUME Struct, \A w \in Ws : lib[w] = "none", Outside
  PROVE  /\ \A w \in Ws : lib'[w] = "none"
         /\ UNCHANGED <<connected, mode, device, lost>>
<1>1. \A w \in Ws : line[w] = <<>>
  BY DEF Struct, Types, WireTypes
<1>2. DeviceFallsSilent
  <2>1. \A w \in Ws : ~Library(w) /\ ~Drop(w)
    BY DEF Library, Drop, Attempt, OnOpen, LibCloses, OnClose, OnCloseHub, OnCloseMode,
       OnCloseTell, OnResponse
  <2>2. ~DeviceAnswers
    BY <1>1 DEF DeviceAnswers, DeviceAnswersOn
  <2> QED BY <2>1, <2>2 DEF Outside
<1> QED BY <1>2 DEF DeviceFallsSilent, client, conn, library

LEMMA UnbornKept ==
  ASSUME Struct, Unborn, Shut, [Next]_vars PROVE Unborn'
<1> SUFFICES ASSUME pc'["op"] = "new"
    PROVE /\ ~running' /\ todo'["op"] = <<>> /\ todo'["st"] = <<>>
          /\ ws' = None /\ ~connected' /\ mode' = "Stopped" /\ ~lost' /\ \A w \in Ws : lib'[w] = "none"
  BY DEF Unborn
<1>1. CASE UNCHANGED vars
  BY <1>1 DEF Unborn, vars, client, conn, thr, library, rest
<1>2. CASE Outside
  <2>1. UNCHANGED <<running, ws, pc, todo>>
    BY <1>2, OutsideFrame
  <2> QED BY <1>2, <2>1, OutsideQuiet DEF Unborn
<1>3. CASE \E t \in Thread : Caller(t)
  <2>1. PICK t \in Thread : Caller(t)
    BY <1>3
  <2>2. Others(t) /\ pc'[t] # "new" /\ Call(t) # "none"
    BY <2>1, CallerMoves
  <2>3. t = "st" /\ pc["op"] = "new"
    BY <2>2 DEF Thread, Others
  <2> QED BY <2>2, <2>3 DEF Unborn, Call
<1>4. CASE StartBegins \/ OpBegins
  BY <1>4 DEF StartBegins, OpBegins, Then, Idle, Struct, Types, ThreadTypes, Thread
<1>5. CASE StopBegins
  <2>1. pc["op"] = "new"
    BY <1>5 DEF StopBegins, Then, Struct, Types, ThreadTypes
  <2> QED BY <1>5, <2>1 DEF StopBegins, Unborn
<1> QED BY <1>1, <1>2, <1>3, <1>4, <1>5 DEF Next, Outside

Late == {"mute", "hang_up", "reset_guard", "stopped"}

(* A call that stops the client is past its shut only when it has stopped.  *)
LEMMA StoppingMoves ==
  ASSUME Struct, Shut, NEW t \in Thread, Caller(t), Call(t) = "stopped"
  PROVE  /\ Call(t)' \in {"none", "stopped"}
         /\ Call(t)' = "none" => ~running'
         /\ Call(t)' = "stopped" /\ Now(t)' \in Late => ~running'
<1>1. /\ InCall(Now(t), "stopped") /\ (Stays(t) \/ GoesOn(t) \/ Turns(t))
      /\ running' = running \/ running' = FALSE
      /\ Now(t) = "shut" => Stays(t) \/ running' = FALSE
  BY CallerMoves
<1>2. Now(t) \in Late => ~running
  BY DEF Shut, Late
<1>3. Now(t) \in Late \cup {"stop_recording", "stop_play", "shut"}
  BY <1>1 DEF InCall, Late
<1>4. ~Turns(t)
  BY <1>3 DEF Turns, Starting, ModeCommands, Late
<1>5. CASE Stays(t)
  BY <1>1, <1>2, <1>5 DEF Stays
<1>6. CASE GoesOn(t)
  <2>1. Now(t) = "stopped" => Call(t)' = "none" /\ ~running'
    BY <1>1, <1>2, <1>6 DEF GoesOn, Moved, Late
  <2>2. Now(t) # "stopped" => Call(t)' = "stopped" /\ Now(t)' = After1(Now(t), "stopped")
    BY <1>6 DEF GoesOn, Moved
  <2>3. Now(t) \in {"stop_recording", "stop_play"} => After1(Now(t), "stopped") \notin Late
    BY DEF After1, Late
  <2>4. CASE Now(t) = "shut"
    BY <1>1, <1>5, <2>2, <2>4
  <2>5. CASE Now(t) \in Late
    BY <1>1, <1>2, <2>1, <2>2, <2>5
  <2> QED BY <1>3, <2>2, <2>3, <2>4, <2>5
<1> QED BY <1>1, <1>4, <1>5, <1>6

LEMMA ShutKept ==
  ASSUME Struct, Unborn, Shut, [Next]_vars PROVE Shut'
<1>1. CASE UNCHANGED vars \/ Outside
  <2>1. UNCHANGED <<running, pc, todo>>
    BY <1>1, OutsideFrame DEF vars, client, thr
  <2> QED BY <2>1 DEF Shut, Call, Now
<1>2. CASE \E t \in Thread : Caller(t)
  <2>1. PICK t \in Thread : Caller(t)
    BY <1>2
  <2>2. /\ InCall(Now(t), Call(t)) /\ (Stays(t) \/ GoesOn(t) \/ Turns(t))
        /\ running' = running \/ running' = FALSE
        /\ Others(t) /\ pc'[t] # "new" /\ Call(t) # "none"
    BY <2>1, CallerMoves
  <2>3. \A u \in Thread \ {t} : Call(u)' = Call(u) /\ Now(u)' = Now(u)
    BY <2>2 DEF Others, Call, Now
  <2>4. pc'["st"] # "new"
    BY <2>2 DEF Others, Shut, Thread
  <2>5. Call("st")' \in {"none", "stopped"}
    <3>1. CASE t = "st"
      BY <2>1, <2>2, <3>1, StoppingMoves DEF Shut
    <3> QED BY <2>3, <3>1 DEF Shut, Thread
  <2>6. Call(t)' = "stopped" /\ Now(t)' \in Late => ~running'
    <3>1. CASE Call(t) = "stopped"
      BY <2>1, <3>1, StoppingMoves
    <3>2. CASE Call(t) # "stopped"
      BY <2>2, <3>2 DEF Stays, GoesOn, Turns, Moved, Late
    <3> QED BY <3>1, <3>2
  <2>7. ASSUME NEW u \in Thread, u # t, Call(u)' = "stopped", Now(u)' \in Late PROVE ~running'
    BY <2>2, <2>3, <2>7 DEF Shut, Late
  <2> QED BY <2>4, <2>5, <2>6, <2>7 DEF Shut, Late
<1>3. CASE StartBegins
  <2>1. pc["op"] = "new" /\ todo["op"] = <<>> /\ Then("op", Start) /\ old' = old
    BY <1>3 DEF StartBegins, Idle
  <2>2. Moved("op", "reset_hub", "audio_ready") /\ pc'["st"] = pc["st"] /\ todo'["st"] = todo["st"]
    BY <2>1, Beginnings, BeginMoves DEF Thread
  <2>3. Call("op")' = "audio_ready" /\ Call("st")' = "none"
    BY <2>1, <2>2 DEF Unborn, Call, Moved
  <2> QED BY <2>2, <2>3 DEF Shut, Thread
<1>4. CASE OpBegins
  <2>1. PICK p \in Program : Then("op", p) /\ todo["op"] = <<>> /\ old' = old /\ running' = running
    BY <1>4 DEF OpBegins, Idle, client
  <2>2. /\ Moved("op", Head(p), Last(p)) /\ pc'["st"] = pc["st"] /\ todo'["st"] = todo["st"]
        /\ Last(p) = "stopped" => Head(p) = "stop_recording"
    BY <2>1, Beginnings, ProgramPlans, BeginMoves DEF Thread
  <2>3. Call("st")' = Call("st") /\ Now("st")' = Now("st")
    BY <2>2 DEF Call, Now
  <2> QED BY <2>1, <2>2, <2>3 DEF Shut, Thread, Moved
<1>5. CASE StopBegins
  <2>1. Then("st", Stop) /\ todo["st"] = <<>> /\ old' = old /\ running' = running
    BY <1>5 DEF StopBegins, Idle, client
  <2>2. /\ Moved("st", "stop_recording", "stopped") /\ pc'["st"] = "next"
        /\ pc'["op"] = pc["op"] /\ todo'["op"] = todo["op"]
    BY <2>1, Beginnings, BeginMoves DEF Thread
  <2>3. Call("op")' = Call("op") /\ Now("op")' = Now("op")
    BY <2>2 DEF Call, Now
  <2> QED BY <2>1, <2>2, <2>3 DEF Shut, Thread, Moved
<1> QED BY <1>1, <1>2, <1>3, <1>4, <1>5 DEF Next, Outside

(* Once somebody stops the client, nobody ever finds it running and left     *)
(* alone again, so while it is alone op is the only thread that moves.       *)
LEMMA AloneBefore ==
  ASSUME Struct, Unborn, Shut, [Next]_vars, Alone'
  PROVE  \/ StartBegins /\ Unborn /\ pc["op"] = "new"
         \/ Alone /\ (Outside \/ OpBegins \/ Caller("op") \/ UNCHANGED vars)
<1>1. CASE UNCHANGED vars \/ Outside
  <2>1. UNCHANGED <<running, todo>>
    BY <1>1, OutsideFrame DEF vars, client, thr
  <2> QED BY <1>1, <2>1 DEF Alone, Call
<1>2. CASE Caller("op")
  <2>1. Others("op") /\ (running' = running \/ running' = FALSE) /\ "st" \in Thread /\ "op" \in Thread
    BY <1>2, CallerMoves DEF Thread
  <2>2. running /\ todo["st"] = <<>>
    BY <2>1 DEF Alone, Others
  <2>3. Call("op") # "stopped"
    BY <1>2, <2>1, StoppingMoves DEF Alone
  <2> QED BY <1>2, <2>2, <2>3 DEF Alone
<1>3. CASE Caller("st")
  <2>1. Call("st") # "none" /\ "st" \in Thread
    BY <1>3, CallerMoves DEF Thread
  <2>2. Call("st") = "stopped"
    BY <2>1 DEF Shut
  <2>3. Call("st")' = "none"
    BY DEF Alone, Call
  <2> QED BY <1>3, <2>1, <2>2, <2>3, StoppingMoves DEF Alone
<1>4. CASE StartBegins
  BY <1>4 DEF StartBegins
<1>5. CASE OpBegins
  <2>1. todo["op"] = <<>> /\ running' = running /\ todo'["st"] = todo["st"]
    BY <1>5 DEF OpBegins, Idle, client, Then, Struct, Types, ThreadTypes, Thread
  <2> QED BY <1>5, <2>1 DEF Alone, Call
<1>6. CASE StopBegins
  <2>1. todo["st"] = <<>> /\ Then("st", Stop) /\ old' = old
    BY <1>6 DEF StopBegins, Idle
  <2>2. Call("st")' = "stopped"
    BY <2>1, Beginnings, BeginMoves DEF Thread, Moved
  <2> QED BY <2>2 DEF Alone, Call
<1> QED BY <1>1, <1>2, <1>3, <1>4, <1>5, <1>6 DEF Next, Outside, Thread


-----------------------------------------------------------------------------
(* While nobody stops the client: where its only call may be.               *)

LEMMA OpCall ==
  ASSUME Struct, Alone, Caller("op")
  PROVE  /\ Call("op") \notin {"none", "stopped"} /\ InCall(Now("op"), Call("op"))
         /\ todo["op"] # <<>> /\ running /\ (Recovery("op") <=> Call("op") = "restarted")
         /\ pc["st"] \notin Busy /\ old["st"] = None
         /\ ConnFree <=> pc["op"] # "destroying"
         /\ \A w \in Ws : ToldToStop(w) => pc["op"] \in {"destroying", "stopping"}
<1>1. Call("op") # "none" /\ InCall(Now("op"), Call("op")) /\ "op" \in Thread /\ "st" \in Thread
  BY CallerMoves DEF Thread
<1>2. Call("op") # "stopped" /\ todo["st"] = <<>> /\ todo["op"] # <<>> /\ running
  BY <1>1 DEF Alone, Call
<1>3. Recovery("op") <=> Call("op") = "restarted"
  BY <1>2 DEF Recovery, Call
<1>4. pc["st"] \notin Busy /\ old["st"] = None /\ PlaceOf("op")
  BY <1>1, <1>2 DEF Struct, Places, PlaceOf, Busy
<1>5. ConnFree <=> pc["op"] # "destroying"
  BY <1>4 DEF ConnFree, Thread, Busy
<1>6. \A w \in Ws : ToldToStop(w) => pc["op"] \in {"destroying", "stopping"}
  BY <1>4, WsAssumption DEF ToldToStop, PlaceOf, Thread
<1> QED BY <1>1, <1>2, <1>3, <1>4, <1>5, <1>6

(* What becomes of a command that has failed, if the client is still alone. *)
LEMMA OpFails ==
  ASSUME Struct, Alone, Alone', Caller("op"), Fails("op"), Now("op") \in Commands \cup {"connect"}
  PROVE  /\ pc'["op"] = "next"
         /\ \/ /\ Now("op") \in ModeCommands /\ Moved("op", "fault", "restarted")
            \/ /\ Call("op") = "restarted" /\ ~allOk'["op"] /\ Call("op")' = "restarted"
            \/ /\ Call("op") = Now("op") /\ Now("op") \in FreeCommands /\ Call("op")' = "none"
<1>1. /\ Call("op") \notin {"none", "stopped"} /\ InCall(Now("op"), Call("op")) /\ running
      /\ "op" \in Thread /\ ThreadTypes /\ Now("op") # "stopped"
  BY OpCall DEF Thread, Struct, Types, Commands, AudioCommands, ModeCommands, FreeCommands
<1>2. /\ allOk'["op"] = (allOk["op"] /\ Now("op") \notin AudioCommands)
      /\ pc'["op"] = "next"
      /\ Now("op") \in Starting /\ Call("op") = "restarted" => Moved("op", "restarted", "restarted")
      /\ Now("op") \in Starting /\ Call("op") # "restarted" => Moved("op", "stop_recording", "stopped")
      /\ Now("op") \in ModeCommands => Moved("op", "fault", "restarted")
      /\ Now("op") \notin Starting \cup ModeCommands =>
           Moved("op", After1(Now("op"), Call("op")),
                 IF Now("op") = Call("op") THEN "none" ELSE Call("op"))
  BY <1>1, FailsMoves
<1>3. CASE Now("op") \in Starting
  <2>1. Call("op") = "restarted"
    BY <1>2, <1>3 DEF Moved, Alone
  <2>2. Now("op") \in AudioCommands
    BY <1>1, <1>3, <2>1 DEF Starting, AudioCommands, InCall
  <2> QED BY <1>2, <1>3, <2>1, <2>2 DEF Moved
<1>4. CASE Now("op") \in ModeCommands
  BY <1>2, <1>4
<1>5. CASE Now("op") \in {"stop_recording", "stop_play"}
  <2>1. Call("op") = "restarted"
    BY <1>1, <1>5 DEF InCall, Single
  <2> QED BY <1>2, <1>5, <2>1 DEF Starting, ModeCommands, AudioCommands, Moved
<1>6. CASE Now("op") \in FreeCommands
  <2>1. Call("op") = Now("op")
    BY <1>1, <1>6 DEF InCall, Single, FreeCommands
  <2> QED BY <1>2, <1>6, <2>1 DEF Starting, ModeCommands, FreeCommands, Moved
<1> QED BY <1>3, <1>4, <1>5, <1>6 DEF Commands, AudioCommands, Starting

(* Which place a step of a call leads to, and what it does to the mode and   *)
(* to the guard; the steps that change neither move as Go, Done or Fails do. *)
QuietStep(t) ==
  \/ Ensure(t) \/ OpenReset(t) \/ OpenReplace(t) \/ OldEnded(t) \/ OpenStart(t)
  \/ OpenAwait(t) \/ CloseMove(t) \/ Send(t) \/ (Wait(t) /\ Fails(t) /\ UNCHANGED <<play, recording>>)

LEMMA QuietMoves ==
  ASSUME Struct, Alone, Alone', Caller("op"), QuietStep("op")
  PROVE  /\ UNCHANGED <<mode, play, recording, device>>
         /\ Now("op") \in Commands \cup {"connect", "give_up"}
         /\ \/ /\ Stays("op") /\ allOk' = allOk
               /\ pc'["op"] \in Busy \ {"enter"}
               /\ pc["op"] \notin {"next", "enter"} \/ Now("op") \in {"connect", "give_up"}
            \/ /\ Fails("op") /\ Now("op") \in Commands \cup {"connect"}
            \/ /\ Done("op") /\ Now("op") \in {"connect", "give_up", "xiaoai_exit"}
<1>1. UNCHANGED <<mode, play, recording, device>>
  BY DEF QuietStep, Ensure, OpenReset, OpenReplace, OldEnded, OpenStart, OpenAwait, CloseMove, Send,
     Wait, client, wire
<1>2. /\ "op" \in Thread /\ ThreadTypes /\ InCall(Now("op"), Call("op"))
      /\ Call("op") \notin {"none", "stopped"}
  BY OpCall DEF Thread, Struct, Types
<1>3. Now("op") # "hang_up"
  BY <1>2 DEF InCall, Single
<1>4. Now("op") \in Commands \cup {"connect", "give_up"}
  BY <1>2, <1>3, AtPlace DEF QuietStep, Ensure, OpenReset, OpenReplace, OldEnded, OpenStart, OpenAwait,
     CloseMove, Send, Wait, Busy
<1>5. \A p \in Busy : Go("op", p) => Stays("op") /\ pc'["op"] = p /\ allOk' = allOk
  BY <1>2, GoStays DEF Go
<1>6. CASE Ensure("op") \/ OpenReset("op") \/ OpenReplace("op") \/ OpenStart("op") \/ OpenAwait("op")
  <2>1. Now("op") \in Commands \cup {"connect"}
    BY <1>2, <1>6, AtPlace DEF Ensure, OpenReset, OpenReplace, OpenStart, OpenAwait, Busy
  <2>2. \/ \E p \in Busy \ {"enter"} : Go("op", p)
        \/ Fails("op")
        \/ Done("op") /\ Now("op") = "connect"
    BY <1>6 DEF Ensure, OpenReset, OpenReplace, OpenStart, OpenAwait, Busy
  <2>3. pc["op"] \notin {"next", "enter"} \/ Now("op") = "connect"
    BY <1>6 DEF Ensure, OpenReset, OpenReplace, OpenStart, OpenAwait
  <2> QED BY <1>1, <1>5, <2>1, <2>2, <2>3
<1>7. CASE OldEnded("op") \/ CloseMove("op")
  <2>1. pc["op"] \in {"destroying", "close"} => Now("op") \in Commands \cup {"connect"}
    BY <1>2, AtPlace DEF Busy
  <2>2. \/ \E p \in Busy \ {"enter"} : Go("op", p)
        \/ Fails("op") /\ (pc["op"] \in {"destroying", "close"} \/ Now("op") \notin {"hang_up", "give_up"})
        \/ Done("op") /\ Now("op") \in {"hang_up", "give_up"}
    BY <1>7 DEF OldEnded, CloseMove, Busy
  <2>3. pc["op"] \notin {"next", "enter"} \/ Now("op") = "give_up"
    BY <1>3, <1>7 DEF OldEnded, CloseMove
  <2>4. CASE Fails("op") /\ (pc["op"] \in {"destroying", "close"} \/ Now("op") \notin {"hang_up", "give_up"})
    BY <1>1, <1>4, <2>1, <2>4
  <2> QED BY <1>1, <1>3, <1>4, <1>5, <2>2, <2>3, <2>4
<1>8. CASE Send("op") \/ (Wait("op") /\ Fails("op"))
  <2>1. Now("op") \in Commands /\ pc["op"] \notin {"next", "enter"}
    BY <1>2, <1>8, AtPlace DEF Send, Wait, Busy
  <2>2. \/ Go("op", "wait")
        \/ Fails("op")
        \/ Done("op") /\ Now("op") = "xiaoai_exit"
    BY <1>8 DEF Send
  <2> QED BY <1>1, <1>5, <2>1, <2>2 DEF Busy
<1> QED BY <1>6, <1>7, <1>8 DEF QuietStep


-----------------------------------------------------------------------------
(* The flags of the guard.                                                  *)

LEMMA StaysFlags ==
  ASSUME Flags, Alone, Stays("op"), allOk' = allOk, UNCHANGED <<mode, play, recording>>,
         Midway' => Midway, Between' => Between
  PROVE  Flags'
BY DEF Flags, Stays

LEMMA FailsFlags ==
  ASSUME Struct, Flags, Alone, Alone', Caller("op"), Fails("op"), UNCHANGED <<mode, play, recording>>,
         Now("op") \in Commands \cup {"connect"}
  PROVE  Flags'
<1>1. \/ /\ Now("op") \in ModeCommands /\ Moved("op", "fault", "restarted")
      \/ /\ Call("op") = "restarted" /\ ~allOk'["op"] /\ Call("op")' = "restarted"
      \/ /\ Call("op") = Now("op") /\ Now("op") \in FreeCommands /\ Call("op")' = "none"
  BY OpFails
<1>2. CASE \/ Now("op") \in ModeCommands /\ Moved("op", "fault", "restarted")
           \/ Call("op") = "restarted" /\ ~allOk'["op"] /\ Call("op")' = "restarted"
  BY <1>2 DEF Flags, Moved, Midway, Between, ModeCommands, FreeCommands
<1>3. CASE /\ Call("op") = Now("op") /\ Now("op") \in FreeCommands /\ Call("op")' = "none"
  BY <1>3 DEF Flags, Midway, Between, ModeCommands, FreeCommands
<1> QED BY <1>1, <1>2, <1>3

LEMMA QuietFlags ==
  ASSUME Struct, Flags, Alone, Alone', Caller("op"), QuietStep("op") PROVE Flags'
<1>1. /\ UNCHANGED <<mode, play, recording>>
      /\ Call("op") \notin {"none", "stopped"} /\ InCall(Now("op"), Call("op"))
      /\ "op" \in Thread /\ ThreadTypes
  BY QuietMoves, OpCall DEF Thread, Struct, Types
<1>2. CASE Fails("op") /\ Now("op") \in Commands \cup {"connect"}
  BY <1>1, <1>2, FailsFlags
<1>3. CASE /\ Stays("op") /\ allOk' = allOk
           /\ pc'["op"] \in Busy \ {"enter"}
           /\ pc["op"] \notin {"next", "enter"} \/ Now("op") \in {"connect", "give_up"}
  <2>1. Call("op")' = Call("op") /\ pc'["op"] \notin {"next", "enter"}
    BY <1>3 DEF Stays, Busy
  <2>2. Call("op") \in ModeCommands => Now("op") \notin {"connect", "give_up"}
    BY <1>1 DEF InCall, ModeCommands, Single
  <2>3. (Midway' => Midway) /\ (Between' => Between)
    BY <1>3, <2>1, <2>2 DEF Midway, Between
  <2> QED BY <1>1, <1>3, <2>3, StaysFlags
<1>4. CASE Done("op") /\ Now("op") \in {"connect", "give_up", "xiaoai_exit"}
  <2>1. Moved("op", After1(Now("op"), Call("op")),
              IF Now("op") = Call("op") THEN "none" ELSE Call("op"))
    BY <1>1, <1>4, DoneMoves
  <2>2. CASE Now("op") = "connect"
    <3>1. Call("op") = "audio_ready"
      BY <1>1, <2>2 DEF InCall, Single
    <3>2. Moved("op", "start_play", "audio_ready")
      BY <2>1, <2>2, <3>1 DEF After1
    <3> QED BY <1>1, <2>2, <3>1, <3>2 DEF Flags, Moved, Midway, Between, ModeCommands, FreeCommands
  <2>3. CASE Now("op") = "give_up"
    <3>1. Call("op") = "report"
      BY <1>1, <2>3 DEF InCall, Single
    <3>2. Moved("op", "report", "report")
      BY <2>1, <2>3, <3>1 DEF After1
    <3> QED BY <1>1, <3>1, <3>2 DEF Flags, Moved, Midway, Between, ModeCommands, FreeCommands
  <2>4. CASE Now("op") = "xiaoai_exit"
    <3>1. Call("op") = "xiaoai_exit"
      BY <1>1, <2>4 DEF InCall, Single
    <3>2. Call("op")' = "none"
      BY <2>1, <2>4, <3>1 DEF Moved
    <3> QED BY <1>1, <3>1, <3>2 DEF Flags, Midway, Between, ModeCommands, FreeCommands
  <2> QED BY <1>4, <2>2, <2>3, <2>4
<1> QED BY <1>2, <1>3, <1>4, QuietMoves

(* A command that the guard skips in a start is one whose flag is set.      *)
LEMMA Skipped ==
  ASSUME Struct, Flags, Alone, Caller("op"), Now("op") \in AudioCommands,
         Decision(Now("op"), mode, play, recording, Recovery("op")) = "done"
  PROVE  Call("op") = "audio_ready" /\ Now("op") = "start_play" /\ play
<1>1. /\ Call("op") \notin {"none", "stopped"} /\ InCall(Now("op"), Call("op"))
      /\ Recovery("op") <=> Call("op") = "restarted"
  BY OpCall
<1>2. AudioDecision(Now("op"), mode, play, recording, Recovery("op")) = "done"
  BY DEF Decision, AudioCommands, ModeCommands
<1>3. Call("op") # "restarted"
  BY <1>1, <1>2 DEF AudioDecision
<1>4. Call("op") = "audio_ready" /\ Now("op") \in {"start_play", "fast_recording"}
  BY <1>1, <1>3 DEF InCall, Single, AudioCommands
<1>5. Noted(Now("op"), play, recording)
  BY <1>2, <1>4 DEF AudioDecision
<1>6. ~recording
  BY <1>4 DEF Flags
<1> QED BY <1>4, <1>5, <1>6 DEF Noted

LEMMA PrepareFlags ==
  ASSUME Struct, Flags, Alone, Alone', Prepare("op") PROVE Flags'
<1>1. /\ UNCHANGED <<mode, play, recording>> /\ Now("op") \in Commands /\ pc["op"] = "next"
      /\ Caller("op")
      /\ Call("op") \notin {"none", "stopped"} /\ InCall(Now("op"), Call("op"))
      /\ "op" \in Thread /\ ThreadTypes
  BY OpCall DEF Thread, Struct, Types, Prepare, client, Caller
<1>2. CASE Go("op", IF Now("op") \in ModeCommands THEN "enter" ELSE "ensure")
  <2>1. Stays("op") /\ allOk' = allOk
        /\ pc'["op"] = IF Now("op") \in ModeCommands THEN "enter" ELSE "ensure"
    BY <1>1, <1>2, GoStays DEF Go
  <2>2. Call("op") \in ModeCommands => Now("op") \in ModeCommands
    BY <1>1 DEF InCall, ModeCommands, Single
  <2>3. (Midway' => Midway) /\ (Between' => Between)
    BY <1>1, <2>1, <2>2 DEF Midway, Between, Stays
  <2> QED BY <1>1, <2>1, <2>3, StaysFlags
<1>3. CASE Fails("op")
  BY <1>1, <1>3, FailsFlags
<1>4. CASE Done("op") /\ Now("op") \in ModeCommands
  <2>1. Now("op") = Call("op")
    BY <1>1, <1>4 DEF InCall, ModeCommands, Single
  <2>2. Call("op")' = "none"
    BY <1>1, <1>4, <2>1, DoneMoves DEF Moved
  <2> QED BY <1>1, <1>4, <2>1, <2>2 DEF Flags, Midway, Between, ModeCommands, FreeCommands
<1>5. CASE /\ Done("op") /\ Now("op") \notin ModeCommands
           /\ Decision(Now("op"), mode, play, recording, Recovery("op")) = "done"
  <2>1. Now("op") \in AudioCommands
    BY <1>1, <1>5 DEF Decision, Commands
  <2>2. Call("op") = "audio_ready" /\ Now("op") = "start_play" /\ play
    BY <1>1, <1>5, <2>1, Skipped
  <2>3. Moved("op", "fast_recording", "audio_ready")
    BY <1>1, <1>5, <2>2, DoneMoves DEF After1
  <2> QED BY <1>1, <2>2, <2>3 DEF Flags, Moved, Midway, Between, ModeCommands, FreeCommands
<1>6. \/ Go("op", IF Now("op") \in ModeCommands THEN "enter" ELSE "ensure")
      \/ Done("op") /\ Decision(Now("op"), mode, play, recording, Recovery("op")) = "done"
      \/ Done("op") /\ Now("op") \in ModeCommands
      \/ Fails("op")
  BY <1>1, PrepareDoes
<1> QED BY <1>2, <1>3, <1>4, <1>5, <1>6

LEMMA TryEnterFlags ==
  ASSUME Struct, Flags, Alone, Alone', TryEnter("op") PROVE Flags'
<1>1. /\ UNCHANGED <<play, recording>> /\ pc["op"] = "enter"
      /\ Call("op") \notin {"none", "stopped"} /\ InCall(Now("op"), Call("op"))
      /\ "op" \in Thread /\ ThreadTypes
  BY OpCall DEF Thread, Struct, Types, TryEnter, Caller
<1>2. Now("op") \in ModeCommands
  BY <1>1, AtPlace DEF Busy
<1>3. Call("op") = Now("op")
  BY <1>1, <1>2 DEF InCall, ModeCommands, Single
<1>4. CASE mode = From(Now("op"))
  <2>1. Stays("op") /\ pc'["op"] = "ensure"
    BY <1>1, <1>4, GoStays DEF TryEnter
  <2>2. play /\ recording
    BY <1>1, <1>2, <1>3, <1>4 DEF Flags, Between, From
  <2> QED BY <1>1, <1>2, <1>3, <2>1, <2>2 DEF Flags, Stays, Midway, Between, ModeCommands, FreeCommands
<1>5. CASE mode # From(Now("op"))
  <2>1. Call("op")' = "none" /\ mode' = mode
    BY <1>1, <1>3, <1>5, DoneMoves DEF TryEnter, Moved
  <2> QED BY <1>1, <1>2, <1>3, <2>1 DEF Flags, Midway, Between, ModeCommands, FreeCommands
<1> QED BY <1>4, <1>5

LEMMA AnsweredFlags ==
  ASSUME Struct, Flags, Alone, Alone', Wait("op"), Answered("op") PROVE Flags'
<1>1. /\ mode' = mode /\ pc["op"] = "wait"
      /\ Call("op") \notin {"none", "stopped"} /\ InCall(Now("op"), Call("op"))
      /\ "op" \in Thread /\ ThreadTypes /\ todo["op"] # <<>>
  BY OpCall DEF Thread, Struct, Types, Wait, Caller
<1>2. Now("op") \in Commands
  BY <1>1, AtPlace DEF Busy
<1>3. /\ allOk' = allOk /\ pc'["op"] = "next"
      /\ Now("op") = "llm_start" => Moved("op", "enter_llm", "enter_llm")
      /\ Now("op") = "llm_stop" => Moved("op", "enter_kws", "enter_kws")
      /\ Now("op") \notin ModeCommands =>
           Moved("op", After1(Now("op"), Call("op")),
                 IF Now("op") = Call("op") THEN "none" ELSE Call("op"))
  BY <1>1, <1>2, AnsweredDoes
<1>4. /\ play' = (IF Now("op") \in {"start_play", "stop_play"} THEN Now("op") = "start_play" ELSE play)
      /\ recording' = (IF Now("op") \in {"fast_recording", "stop_recording"}
                       THEN Now("op") = "fast_recording" ELSE recording)
  BY DEF Answered
<1>5. CASE Now("op") \in ModeCommands
  <2>1. Call("op") = Now("op")
    BY <1>1, <1>5 DEF InCall, ModeCommands, Single
  <2>2. play /\ recording
    BY <1>1, <1>5, <2>1 DEF Flags, Midway
  <2>3. play' /\ recording' /\ Call("op")' \in {"enter_llm", "enter_kws"}
    BY <1>3, <1>4, <1>5, <2>2 DEF ModeCommands, Moved
  <2> QED BY <2>3 DEF Flags, Between, FreeCommands, ModeCommands
<1>6. CASE Now("op") \in FreeCommands
  <2>1. Call("op") = Now("op")
    BY <1>1, <1>6 DEF InCall, FreeCommands, Single
  <2>2. Call("op")' = "none" /\ play' = play /\ recording' = recording
    BY <1>3, <1>4, <1>6, <2>1 DEF FreeCommands, ModeCommands, Moved
  <2> QED BY <1>1, <1>6, <2>1, <2>2 DEF Flags, Midway, Between, FreeCommands, ModeCommands
<1>7. CASE Now("op") \in {"stop_recording", "stop_play"}
  <2>1. Call("op") = "restarted"
    BY <1>1, <1>7 DEF InCall, Single
  <2>2. /\ Call("op")' = "restarted"
        /\ Now("op")' \in {"stop_play", "start_play"}
    BY <1>3, <1>7, <2>1 DEF Moved, ModeCommands, After1
  <2> QED BY <2>2 DEF Flags, Midway, Between, FreeCommands, ModeCommands
<1>8. CASE Now("op") = "start_play"
  <2>1. Call("op") \in {"audio_ready", "restarted"}
    BY <1>1, <1>8 DEF InCall, Single
  <2>2. /\ Call("op")' = Call("op") /\ Now("op")' = "fast_recording"
        /\ play' /\ recording' = recording
    BY <1>3, <1>4, <1>8, <2>1 DEF Moved, ModeCommands, After1
  <2> QED BY <1>1, <1>8, <2>1, <2>2 DEF Flags, Midway, Between, FreeCommands, ModeCommands
<1>9. CASE Now("op") = "fast_recording"
  <2>1. Call("op") \in {"audio_ready", "restarted"}
    BY <1>1, <1>9 DEF InCall, Single
  <2>2. /\ Call("op")' = Call("op") /\ Now("op")' = "audio_ready"
        /\ play' = play /\ recording'
    BY <1>3, <1>4, <1>9, <2>1 DEF Moved, ModeCommands, After1
  <2> QED BY <1>1, <1>3, <1>9, <2>1, <2>2 DEF Flags, Midway, Between, FreeCommands, ModeCommands
<1> QED BY <1>2, <1>5, <1>6, <1>7, <1>8, <1>9 DEF Commands, AudioCommands


LEMMA EnterFlags ==
  ASSUME Struct, Flags, Alone, Alone', EnterMode("op") PROVE Flags'
<1>1. /\ UNCHANGED <<play, recording>> /\ pc["op"] = "next"
      /\ Call("op") \notin {"none", "stopped"} /\ InCall(Now("op"), Call("op"))
      /\ "op" \in Thread /\ allOk["op"] \in BOOLEAN
  BY OpCall DEF Thread, EnterMode, Caller, Struct, Types, ThreadTypes
<1>2. /\ allOk'["op"] = (allOk["op"] \/ Now("op") = "fault")
      /\ IF Now("op") = "restarted" /\ ~allOk["op"] THEN Moved("op", "give_up", "report")
         ELSE Moved("op", After1(Now("op"), Call("op")),
                    IF Now("op") = Call("op") THEN "none" ELSE Call("op"))
      /\ pc'["op"] = (IF Now("op") = "stopped" THEN "over" ELSE "next")
      /\ mode' = NextMode("op")
  BY <1>1, EnterDoes DEF EnterMode
<1>3. CASE Now("op") = "audio_ready" /\ Call("op") = "audio_ready"
  <2>1. Call("op")' = "none" /\ play /\ recording
    BY <1>2, <1>3 DEF Moved, Flags
  <2> QED BY <1>1, <2>1 DEF Flags, Midway, Between, FreeCommands, ModeCommands
<1>4. CASE Now("op") = "audio_ready" /\ Call("op") = "restarted"
  <2>1. Call("op")' = "restarted" /\ Now("op")' = "restarted" /\ allOk'["op"] = allOk["op"]
    BY <1>1, <1>2, <1>4 DEF Moved, After1
  <2> QED BY <1>1, <1>4, <2>1 DEF Flags, Midway, Between, FreeCommands, ModeCommands
<1>5. CASE Now("op") \in {"enter_kws", "enter_llm"}
  <2>1. Call("op") = Now("op")
    BY <1>1, <1>5 DEF InCall, Single
  <2>2. Call("op")' = "none" /\ play /\ recording
    BY <1>2, <1>5, <2>1 DEF Moved, Flags
  <2> QED BY <1>1, <2>2 DEF Flags, Midway, Between, FreeCommands, ModeCommands
<1>6. CASE Now("op") = "fault"
  <2>1. Call("op") = "restarted"
    BY <1>1, <1>6 DEF InCall, Single
  <2>2. Call("op")' = "restarted" /\ Now("op")' = "stop_recording"
    BY <1>2, <1>6, <2>1 DEF Moved, After1
  <2> QED BY <2>2 DEF Flags, Midway, Between, FreeCommands, ModeCommands
<1>7. CASE Now("op") = "reset_mode"
  <2>1. Call("op") = "audio_ready"
    BY <1>1, <1>7 DEF InCall, Single
  <2>2. Call("op")' = "audio_ready" /\ Now("op")' = "connect" /\ mode' = "Stopped"
    BY <1>2, <1>7, <2>1 DEF Moved, After1, NextMode
  <2> QED BY <1>1, <1>7, <2>1, <2>2 DEF Flags, Midway, Between, FreeCommands, ModeCommands
<1>8. CASE Now("op") = "restarted"
  <2>1. Call("op") = "restarted"
    BY <1>1, <1>8 DEF InCall, Single
  <2>2. CASE allOk["op"]
    <3>1. Call("op")' = "none" /\ play /\ recording
      BY <1>2, <1>8, <2>1, <2>2 DEF Moved, Flags
    <3> QED BY <1>1, <3>1 DEF Flags, Midway, Between, FreeCommands, ModeCommands
  <2>3. CASE ~allOk["op"]
    <3>1. Call("op")' = "report" /\ mode' = "Stopped"
      BY <1>2, <1>8, <2>3 DEF Moved, NextMode
    <3> QED BY <3>1 DEF Flags, Midway, Between, FreeCommands, ModeCommands
  <2> QED BY <2>2, <2>3
<1>9. /\ Now("op") \in {"audio_ready", "enter_kws", "enter_llm", "fault", "reset_mode", "restarted"}
      /\ Now("op") = "audio_ready" => Call("op") \in {"audio_ready", "restarted"}
  BY <1>1 DEF EnterMode, InCall, Single
<1> QED BY <1>3, <1>4, <1>5, <1>6, <1>7, <1>8, <1>9

LEMMA OtherFlags ==
  ASSUME Struct, Flags, Alone, Alone', OtherStep("op") PROVE Flags'
<1>1. /\ mode' = mode /\ Done("op")
      /\ Call("op") \notin {"none", "stopped"} /\ InCall(Now("op"), Call("op"))
      /\ "op" \in Thread /\ ThreadTypes
  BY OpCall DEF Thread, Struct, Types, OtherStep, Caller
<1>2. Moved("op", After1(Now("op"), Call("op")), IF Now("op") = Call("op") THEN "none" ELSE Call("op"))
  BY <1>1, DoneMoves
<1>3. CASE Now("op") = "reset_hub"
  <2>1. Call("op") = "audio_ready" /\ play' = play /\ recording' = recording
    BY <1>1, <1>3 DEF InCall, Single, OtherStep
  <2>2. Call("op")' = "audio_ready" /\ Now("op")' = "reset_guard"
    BY <1>2, <1>3, <2>1 DEF Moved, After1
  <2> QED BY <1>1, <2>1, <2>2 DEF Flags, Midway, Between, FreeCommands, ModeCommands
<1>4. CASE Now("op") = "reset_guard"
  <2>1. Call("op") = "audio_ready" /\ ~play' /\ ~recording'
    BY <1>1, <1>4 DEF InCall, Single, OtherStep
  <2>2. Call("op")' = "audio_ready" /\ Now("op")' = "reset_mode"
    BY <1>2, <1>4, <2>1 DEF Moved, After1
  <2> QED BY <1>1, <2>1, <2>2 DEF Flags, Midway, Between, FreeCommands, ModeCommands
<1>5. CASE Now("op") = "report"
  <2>1. Call("op") = "report"
    BY <1>1, <1>5 DEF InCall, Single
  <2>2. Call("op")' = "none" /\ mode' = "Stopped"
    BY <1>1, <1>2, <1>5, <2>1 DEF Moved, Flags
  <2> QED BY <2>2 DEF Flags, Midway, Between, FreeCommands, ModeCommands
<1>6. Now("op") \in {"reset_hub", "reset_guard", "report"}
  <2>1. Now("op") \notin {"shut", "mute"}
    BY <1>1 DEF InCall, Single
  <2> QED BY <2>1 DEF OtherStep
<1> QED BY <1>3, <1>4, <1>5, <1>6

LEMMA FlagsKept ==
  ASSUME Struct, Unborn, Shut, Flags, [Next]_vars PROVE Flags'
<1> SUFFICES ASSUME Alone' PROVE Flags'
  BY DEF Flags
<1>1. CASE StartBegins
  <2>1. /\ pc["op"] = "new" /\ todo["op"] = <<>> /\ Then("op", Start) /\ old' = old
        /\ mode' = mode
    BY <1>1 DEF StartBegins, Idle
  <2>2. Moved("op", "reset_hub", "audio_ready")
    BY <2>1, Beginnings, BeginMoves DEF Thread
  <2> QED BY <2>1, <2>2 DEF Unborn, Flags, Moved, Midway, Between, FreeCommands, ModeCommands
<1>2. CASE Alone /\ UNCHANGED vars
  BY <1>2 DEF Flags, vars, client, thr, Midway, Between, Call, Now
<1>3. CASE Alone /\ Outside
  <2>1. UNCHANGED <<play, recording, pc, todo, allOk>>
    BY <1>3, OutsideFrame
  <2>2. mode' = mode \/ mode' = "Stopped"
    BY <1>3 DEF Outside, Library, Drop, Attempt, OnOpen, LibCloses, OnClose, OnCloseHub, OnCloseMode,
       OnCloseTell, OnResponse, DeviceAnswers, DeviceAnswersOn, DeviceFallsSilent, client, libFrame
  <2>3. (Midway' <=> Midway) /\ (Between' <=> Between) /\ Stays("op")
    BY <2>1 DEF Midway, Between, Call, Stays, Now
  <2> QED BY <1>3, <2>1, <2>2, <2>3 DEF Flags, Stays
<1>4. CASE Alone /\ OpBegins
  <2>1. PICK p \in Program : Then("op", p) /\ todo["op"] = <<>> /\ old' = old
                             /\ UNCHANGED <<mode, play, recording>>
    BY <1>4 DEF OpBegins, Idle, client
  <2>2. /\ p \in Plans /\ p # <<>> /\ pc'["op"] = "next" /\ Moved("op", Head(p), Last(p))
    BY <2>1, ProgramPlans, BeginMoves DEF Thread
  <2>3. Last(p) = "stopped" \/ Last(p) \in FreeCommands \cup ModeCommands
    BY Beginnings, ProgramPlans DEF FreeCommands, ModeCommands
  <2>4. Call("op")' \in FreeCommands \cup ModeCommands
    BY <2>2, <2>3 DEF Moved, Alone
  <2>5. mode = "Stopped" \/ (play /\ recording)
    BY <1>4, <2>1 DEF Flags, Between, Call
  <2> QED BY <2>1, <2>2, <2>4, <2>5 DEF Flags, Midway, Between, FreeCommands, ModeCommands
<1>5. CASE Alone /\ Caller("op")
  BY <1>5, QuietFlags, PrepareFlags, TryEnterFlags, AnsweredFlags, EnterFlags, OtherFlags
  DEF Caller, QuietStep, Wait
<1> QED BY <1>1, <1>2, <1>3, <1>4, <1>5, AloneBefore


-----------------------------------------------------------------------------
(* A loss that has been noticed is reported, and stays reported.            *)

Closing == {"close_hub", "close_mode", "close_tell"}

LEMMA CallerKeepsReports ==
  ASSUME Struct, NEW t \in Thread, Caller(t)
  PROVE  /\ lost => lost'
         /\ Reporting => Reporting'
         /\ Now(t) = "report" => Stays(t) \/ lost'
<1>1. lost' = lost \/ lost' = TRUE
  BY DEF Caller, Prepare, TryEnter, Ensure, OpenReset, OpenReplace, OldEnded, OpenStart, OpenAwait,
     CloseMove, Send, Wait, EnterMode, OtherStep, rest
<1>2. tell' = tell /\ \A w \in Ws : lib[w] \in Closing => lib'[w] = lib[w]
  <2>1. CASE OldEnded(t)
    <3>1. lib[old[t]] \in {"none", "ended"} /\ lib' = [lib EXCEPT ![old[t]] = "none"] /\ tell' = tell
      BY <2>1 DEF OldEnded
    <3> QED BY <3>1 DEF Closing, Struct, Types, WireTypes
  <2>2. CASE OpenStart(t)
    <3>1. /\ lib' = IF ws # None /\ lib[ws] = "none" THEN [lib EXCEPT ![ws] = "connecting"] ELSE lib
          /\ tell' = tell
      BY <2>2 DEF OpenStart
    <3> QED BY <3>1 DEF Closing, Struct, Types, WireTypes
  <2>3. CASE ~OldEnded(t) /\ ~OpenStart(t)
    <3>1. UNCHANGED library
      BY <2>3 DEF Caller, Prepare, TryEnter, Ensure, OpenReset, OpenReplace, OpenAwait,
         CloseMove, Send, Wait, EnterMode, OtherStep
    <3> QED BY <3>1 DEF library
  <2> QED BY <2>1, <2>2, <2>3
<1>3. Reporting => Reporting'
  BY <1>2 DEF Reporting, Closing
<1>4. Now(t) = "report" => Stays(t) \/ lost'
  <2> SUFFICES ASSUME Now(t) = "report" PROVE lost'
    OBVIOUS
  <2>1. pc[t] \notin Busy
    <3>1. "report" \notin Commands \cup {"connect", "hang_up", "give_up"}
      BY DEF Commands, AudioCommands, ModeCommands, FreeCommands
    <3> QED BY <3>1, AtPlace DEF Busy
  <2>2. "report" \notin Commands
    BY DEF Commands, AudioCommands, ModeCommands, FreeCommands
  <2>3. OtherStep(t)
    BY <2>1, <2>2 DEF Caller, Prepare, TryEnter, Ensure, OpenReset, OpenReplace, OldEnded, OpenStart,
       OpenAwait, CloseMove, Send, Wait, EnterMode, Busy
  <2> QED BY <2>3 DEF OtherStep
<1> QED BY <1>1, <1>3, <1>4 DEF Struct, Types, FlagTypes

LEMMA OutsideKeepsReports ==
  ASSUME Struct, running, Outside
  PROVE  /\ lost => lost'
         /\ Reporting => Reporting' \/ lost'
<1>1. lost => lost'
  BY DEF Outside, Library, Drop, Attempt, OnOpen, LibCloses, OnClose, OnCloseHub, OnCloseMode,
     OnCloseTell, OnResponse, DeviceAnswers, DeviceAnswersOn, DeviceFallsSilent, libFrame
<1>2. Reporting => Reporting' \/ lost'
  <2> SUFFICES ASSUME NEW w \in Ws, lib[w] \in Closing, tell[w]
      PROVE  (lib'[w] \in Closing /\ tell'[w]) \/ lost'
    BY DEF Reporting, Closing
  <2>0. lib \in [Ws -> {"none", "connecting", "open", "up", "error", "close_hub",
                       "close_mode", "close_tell", "ended"}] /\ tell \in [Ws -> BOOLEAN]
    BY DEF Struct, Types, WireTypes
  <2>1. CASE DeviceAnswers \/ DeviceFallsSilent
    BY <2>1 DEF DeviceAnswers, DeviceAnswersOn, DeviceFallsSilent, library
  <2>2. ASSUME NEW v \in Ws, Drop(v) PROVE lib'[w] \in Closing /\ tell'[w]
    BY <2>0, <2>2 DEF Drop, To, Closing
  <2>3. ASSUME NEW v \in Ws, v # w, Library(v) PROVE lib'[w] \in Closing /\ tell'[w]
    BY <2>0, <2>3 DEF Library, Attempt, OnOpen, LibCloses, OnClose, OnCloseHub, OnCloseMode,
       OnCloseTell, OnResponse, To, library
  <2>4. ASSUME Library(w) PROVE (lib'[w] \in Closing /\ tell'[w]) \/ lost'
    <3>1. CASE OnCloseTell(w)
      BY <3>1 DEF OnCloseTell
    <3>2. CASE OnCloseHub(w) \/ OnCloseMode(w)
      BY <2>0, <3>2 DEF OnCloseHub, OnCloseMode, To, Closing
    <3> QED BY <2>4, <3>1, <3>2 DEF Library, Attempt, OnOpen, LibCloses, OnClose, OnResponse, Closing
  <2> QED BY <2>1, <2>2, <2>3, <2>4 DEF Outside
<1> QED BY <1>1, <1>2

LEMMA ServingBefore ==
  ASSUME Struct, Unborn, Shut, [Next]_vars, Serving'
  PROVE  \/ StartBegins /\ Unborn /\ pc["op"] = "new"
         \/ Serving /\ Alone' /\ (Outside \/ OpBegins \/ Caller("op") \/ UNCHANGED vars)
<1>1. Alone' /\ ~lost' /\ ~Reporting' /\ Call("op")' # "report"
  BY DEF Serving
<1>2. CASE Alone /\ Caller("op")
  <2>1. "op" \in Thread /\ InCall(Now("op"), Call("op")) /\ (Stays("op") \/ GoesOn("op") \/ Turns("op"))
    BY <1>2, CallerMoves DEF Thread
  <2>2. ~lost /\ ~Reporting /\ (Now("op") = "report" => Stays("op"))
    BY <1>1, <1>2, <2>1, CallerKeepsReports
  <2>3. Call("op") # "report"
    <3> SUFFICES ASSUME Call("op") = "report" PROVE FALSE
      OBVIOUS
    <3>1. Now("op") \in {"give_up", "report"}
      BY <2>1 DEF InCall
    <3>2. ~Turns("op")
      BY <3>1 DEF Turns, Starting, ModeCommands
    <3>3. ~Stays("op")
      BY <1>1 DEF Stays
    <3>4. GoesOn("op") /\ Now("op") = "give_up"
      BY <2>1, <2>2, <3>1, <3>2, <3>3
    <3> QED BY <1>1, <3>4 DEF GoesOn, Moved
  <2> QED BY <1>1, <1>2, <2>2, <2>3 DEF Serving
<1>3. CASE Alone /\ Outside
  <2>1. ~lost /\ ~Reporting
    BY <1>1, <1>3, OutsideKeepsReports DEF Alone
  <2>2. Call("op")' = Call("op")
    BY <1>3, OutsideFrame DEF Call
  <2> QED BY <1>1, <1>3, <2>1, <2>2 DEF Serving
<1>4. CASE Alone /\ OpBegins
  <2>1. Call("op") = "none" /\ lost' = lost /\ lib' = lib /\ tell' = tell
    BY <1>4 DEF OpBegins, Idle, Call, library
  <2> QED BY <1>1, <1>4, <2>1 DEF Serving, Reporting
<1>5. CASE Alone /\ UNCHANGED vars
  <2>1. UNCHANGED <<lost, lib, tell, todo>>
    BY <1>5 DEF vars, rest, library, thr
  <2> QED BY <1>1, <1>5, <2>1 DEF Serving, Reporting, Call
<1> QED BY <1>1, <1>2, <1>3, <1>4, <1>5, AloneBefore


-----------------------------------------------------------------------------
(* There is one connection. *)

LEMMA OpeningMoves ==
  ASSUME Struct, Alone, Alone', Caller("op")
  PROVE  /\ ~Opening => ~Opening'
         /\ Opening => Now("op") \in {"reset_hub", "reset_guard", "reset_mode", "connect"}
         /\ Done("op") /\ Now("op") = "connect" => ~Opening'
         /\ Fails("op") /\ Now("op") \in Commands \cup {"connect"} => ~Opening'
         /\ Fails("op") => Now("op") # "connect"
<1>1. /\ Call("op") \notin {"none", "stopped"} /\ InCall(Now("op"), Call("op")) /\ running
      /\ "op" \in Thread /\ ThreadTypes
      /\ Stays("op") \/ GoesOn("op") \/ Turns("op")
  BY OpCall, CallerMoves DEF Thread, Struct, Types
<1>2. ~Turns("op") \/ ~Opening'
  BY DEF Turns, Opening, Moved
<1>3. ~Opening => ~Opening'
  <2>1. CASE Stays("op")
    BY <2>1 DEF Stays, Opening
  <2>2. CASE GoesOn("op")
    <3> SUFFICES ASSUME ~Opening, Opening' PROVE FALSE
      OBVIOUS
    <3>1. /\ Call("op") = "audio_ready" /\ Now("op") # "audio_ready"
          /\ Now("op")' = After1(Now("op"), "audio_ready")
      BY <2>2 DEF GoesOn, Moved, Opening
    <3>2. Now("op") \in {"start_play", "fast_recording"}
      BY <1>1, <3>1 DEF InCall, Opening
    <3>3. Now("op")' \in {"fast_recording", "audio_ready"}
      BY <3>1, <3>2 DEF After1
    <3> QED BY <3>3 DEF Opening
  <2> QED BY <1>1, <1>2, <2>1, <2>2
<1>4. Done("op") /\ Now("op") = "connect" => ~Opening'
  <2> SUFFICES ASSUME Done("op"), Now("op") = "connect" PROVE ~Opening'
    OBVIOUS
  <2>1. Moved("op", "start_play", Call("op"))
    <3>1. Call("op") = "audio_ready"
      BY <1>1 DEF InCall, Single
    <3> QED BY <1>1, <3>1, DoneMoves DEF After1
  <2> QED BY <1>1, <2>1 DEF Moved, Opening
<1>5. Fails("op") /\ Now("op") \in Commands \cup {"connect"} => ~Opening'
  BY OpFails DEF Moved, Opening
<1>6. Fails("op") => Now("op") # "connect"
  <2> SUFFICES ASSUME Fails("op"), Now("op") = "connect" PROVE FALSE
    OBVIOUS
  <2>1. Call("op") = "audio_ready"
    BY <1>1 DEF InCall, Single
  <2> QED BY <2>1, OpFails DEF ModeCommands, FreeCommands
<1> QED BY <1>3, <1>4, <1>5, <1>6 DEF Opening

(* The library moves only the thread of ws_, and never so that an answer    *)
(* to it would come over another connection.                               *)
LEMMA OutsideLink ==
  ASSUME Struct, Serving, OneLink, Outside, ~Reporting'
  PROVE  OneLink'
<1>1. /\ UNCHANGED <<ws, pc, todo, old>> /\ Opening' = Opening
      /\ todo["st"] = <<>>
  BY OutsideFrame DEF Opening, Call, Now, Serving, Alone
<1>2. \A w \in Ws : w # ws /\ pc["op"] # "stopping" => lib[w] = "none"
  BY DEF OneLink
<1>3. /\ lib \in [Ws -> {"none", "connecting", "open", "up", "error", "close_hub",
                        "close_mode", "close_tell", "ended"}] /\ tell \in [Ws -> BOOLEAN]
      /\ connected \in BOOLEAN /\ ws \in Ws \cup {None}
  BY DEF Struct, Types, WireTypes, FlagTypes
<1>4. CASE UNCHANGED <<connected, lib>>
  BY <1>1, <1>4 DEF OneLink
<1>5. CASE pc["op"] = "stopping"
  <2>1. Opening
    BY <1>5 DEF OneLink
  <2> QED BY <1>1, <1>5, <2>1 DEF OneLink
<1>6. ASSUME pc["op"] # "stopping", NEW w \in Ws, Library(w) \/ Drop(w) PROVE OneLink'
  <2>1. lib[w] # "none" \/ UNCHANGED <<connected, lib>>
    BY <1>6 DEF Library, Drop, Attempt, OnOpen, LibCloses, OnClose, OnCloseHub, OnCloseMode,
       OnCloseTell, OnResponse
  <2>2. CASE w = ws /\ lib[w] # "none"
    <3>1. ~ToldToStop(w)
      <4>1. pc["op"] \notin {"destroying", "stopping"} /\ PlaceOf("op") /\ PlaceOf("st")
        BY <1>6 DEF OneLink, Struct, Places, Thread
      <4>2. old["op"] = None /\ old["st"] = None
        BY <1>1, <4>1 DEF PlaceOf, Busy
      <4> QED BY <4>2, WsAssumption DEF ToldToStop, Thread
    <3>2. ws # None
      BY <2>2, WsAssumption
    <3>3. /\ Opening => pc["op"] \in {"await", "close"}
          /\ pc["op"] = "await" /\ connected => lib[ws] \in {"up", "error"}
          /\ ~Opening => connected /\ lib[ws] \in {"up", "error"}
      BY <1>6, <2>2, <3>2 DEF OneLink
    <3>4. /\ \A v \in Ws \ {w} : lib'[v] = lib[v]
          /\ connected' /\ pc["op"] = "await" => lib'[ws] \in {"up", "error"}
          /\ ~Opening => connected' /\ lib'[ws] \in {"up", "error"}
      <4>1. CASE Attempt(w)
        BY <1>3, <2>2, <3>3, <4>1 DEF Attempt, To, conn
      <4>2. CASE OnOpen(w)
        BY <1>3, <2>2, <3>1, <3>3, <4>2 DEF OnOpen, To
      <4>3. CASE LibCloses(w)
        BY <3>1, <4>3 DEF LibCloses
      <4>4. CASE OnClose(w)
        <5>1. lib'[w] = "close_hub" /\ tell'[w] = connected /\ ~connected'
              /\ \A v \in Ws \ {w} : lib'[v] = lib[v]
          BY <1>3, <4>4 DEF OnClose, To
        <5>2. ~connected
          BY <5>1 DEF Reporting
        <5> QED BY <2>2, <3>3, <5>1, <5>2
      <4>5. CASE OnCloseHub(w) \/ OnCloseMode(w) \/ OnCloseTell(w)
        BY <1>3, <2>2, <3>3, <4>5 DEF OnCloseHub, OnCloseMode, OnCloseTell, To, conn
      <4>6. CASE OnResponse(w)
        BY <1>3, <2>2, <3>3, <4>6 DEF OnResponse, conn, library
      <4>7. CASE Drop(w)
        BY <1>3, <2>2, <3>3, <4>7 DEF Drop, To, conn
      <4> QED BY <1>6, <4>1, <4>2, <4>3, <4>4, <4>5, <4>6, <4>7 DEF Library
    <3>5. /\ \A v \in Ws : v # ws' => lib'[v] = "none"
      BY <1>1, <1>2, <1>6, <2>2, <3>4
    <3>6. ~Opening => pc["op"] \in {"next", "enter", "ensure", "send", "wait"}
      BY DEF OneLink
    <3> QED BY <1>1, <3>2, <3>3, <3>4, <3>5, <3>6 DEF OneLink
  <2> QED BY <1>2, <1>4, <1>6, <2>1, <2>2
<1>7. CASE DeviceAnswers \/ DeviceFallsSilent
  BY <1>4, <1>7 DEF DeviceAnswers, DeviceAnswersOn, DeviceFallsSilent, conn, library
<1> QED BY <1>5, <1>6, <1>7 DEF Outside

LEMMA CallerLink ==
  ASSUME Struct, Serving, OneLink, Caller("op"), Alone'
  PROVE  OneLink'
<1>1. /\ Call("op") \notin {"none", "stopped", "report"} /\ InCall(Now("op"), Call("op")) /\ running
      /\ "op" \in Thread /\ ThreadTypes /\ Alone
      /\ ~Opening => ~Opening'
      /\ Done("op") /\ Now("op") = "connect" => ~Opening'
      /\ Fails("op") => Now("op") # "connect"
  BY OpCall, OpeningMoves DEF Thread, Struct, Types, Serving
<1>2. Now("op") \notin {"hang_up", "give_up", "stopped", "shut", "mute"}
  BY <1>1 DEF InCall, Single
<1>3. \A p : Go("op", p) => Stays("op") /\ pc'["op"] = p
  BY <1>1, GoStays
<1>4. Done("op") \/ Fails("op") => pc'["op"] = "next"
  BY <1>1, <1>2, DoneMoves, FailsTurns
<1>5. /\ lib \in [Ws -> {"none", "connecting", "open", "up", "error", "close_hub",
                        "close_mode", "close_tell", "ended"}]
      /\ connected \in BOOLEAN /\ ws \in Ws \cup {None}
  BY DEF Struct, Types, WireTypes, FlagTypes
(* In service: nothing touches the connection. *)
<1>6. ASSUME ~Opening, UNCHANGED <<ws, connected, lib>>,
             pc'["op"] \in {"next", "enter", "ensure", "send", "wait"}
      PROVE  OneLink'
  BY <1>1, <1>6 DEF OneLink
<1>7. CASE Prepare("op")
  <2>1. ~Opening
    BY <1>7 DEF Prepare, Opening, Commands, AudioCommands, ModeCommands, FreeCommands
  <2>2. \/ Go("op", IF Now("op") \in ModeCommands THEN "enter" ELSE "ensure")
        \/ Done("op") \/ Fails("op")
    BY <1>1, <1>7, PrepareDoes
  <2> QED BY <1>3, <1>4, <1>6, <1>7, <2>1, <2>2 DEF Prepare, conn, library
<1>8. CASE TryEnter("op")
  <2>1. ~Opening
    BY <1>8 DEF TryEnter, OneLink
  <2> QED BY <1>3, <1>4, <1>6, <1>8, <2>1 DEF TryEnter, conn, library
<1>9. CASE Ensure("op")
  <2>1. UNCHANGED <<ws, connected, lib>>
    BY <1>9 DEF Ensure, conn, library
  <2>2. CASE ~Opening
    <3>1. Now("op") # "connect"
      BY <1>1, <2>2 DEF Opening, InCall, Single
    <3>2. pc'["op"] = "send"
      BY <1>1, <1>3, <1>9, <2>2, <3>1 DEF Ensure, OneLink
    <3> QED BY <1>6, <2>1, <2>2, <3>2
  <2>3. CASE Opening
    <3>1. pc["op"] = "next" /\ ws = None /\ Go("op", "open") /\ ~connected
      BY <1>1, <1>9, <2>3 DEF Ensure, OneLink
    <3>2. pc'["op"] = "open" /\ Opening'
      BY <1>3, <2>3, <3>1 DEF Stays, Opening
    <3> QED BY <2>1, <2>3, <3>1, <3>2 DEF OneLink
  <2> QED BY <2>2, <2>3
<1>10. CASE OpenReset("op")
  <2>1. Opening /\ UNCHANGED <<ws, connected, lib>> /\ pc["op"] = "open"
    BY <1>10 DEF OpenReset, OneLink, conn, library
  <2>2. pc'["op"] = "replace" /\ Opening'
    BY <1>3, <1>10, <2>1 DEF OpenReset, Stays, Opening
  <2> QED BY <2>1, <2>2 DEF OneLink
<1>11. CASE OpenReplace("op")
  <2>1. Opening /\ ws = None /\ pc["op"] = "replace"
    BY <1>11 DEF OpenReplace, OneLink
  <2>2. old["op"] = None
    BY <1>1, <2>1, AtPlace DEF Busy
  <2>3. ws' \in Unused
    BY <1>1, <1>11, <2>2, UnusedExists DEF OpenReplace
  <2>4. lib' = lib /\ ~connected' /\ Go("op", "start")
    BY <1>11, <2>1 DEF OpenReplace, library
  <2>5. pc'["op"] = "start" /\ Opening'
    BY <1>3, <2>1, <2>4 DEF Stays, Opening
  <2>6. \A w \in Ws : lib[w] = "none"
    BY <2>1, WsAssumption DEF OneLink
  <2> QED BY <2>1, <2>3, <2>4, <2>5, <2>6, WsAssumption DEF OneLink, Unused
<1>12. CASE OldEnded("op")
  <2>1. Opening /\ pc["op"] = "stopping"
    BY <1>12 DEF OldEnded, OneLink
  <2>2. Now("op") = "connect"
    BY <1>1, <1>2, <2>1, AtPlace DEF Busy, Opening, Commands, AudioCommands, ModeCommands, FreeCommands
  <2> QED BY <1>1, <1>12, <2>1, <2>2 DEF OldEnded
<1>13. CASE OpenStart("op")
  <2>1. Opening /\ pc["op"] = "start" /\ ws # None /\ lib[ws] = "none" /\ ~connected
    BY <1>13 DEF OpenStart, OneLink
  <2>2. /\ lib' = [lib EXCEPT ![ws] = "connecting"] /\ ws' = ws /\ connected' = connected
        /\ Go("op", "await")
    BY <1>13, <2>1 DEF OpenStart, conn
  <2>3. pc'["op"] = "await" /\ Opening'
    BY <1>3, <2>1, <2>2 DEF Stays, Opening
  <2>4. \A w \in Ws : w # ws => lib'[w] = "none"
    BY <1>5, <2>1, <2>2 DEF OneLink
  <2> QED BY <2>1, <2>2, <2>3, <2>4 DEF OneLink
<1>14. CASE OpenAwait("op")
  <2>1. Opening /\ pc["op"] = "await" /\ ws # None /\ UNCHANGED <<ws, connected, lib>>
    BY <1>14 DEF OpenAwait, OneLink, conn, library
  <2>2. Now("op") = "connect"
    BY <1>1, <1>2, <2>1, AtPlace DEF Busy, Opening, Commands, AudioCommands, ModeCommands, FreeCommands
  <2>3. CASE connected
    <3>1. ~Opening' /\ pc'["op"] = "next"
      BY <1>1, <1>4, <1>14, <2>2, <2>3 DEF OpenAwait
    <3> QED BY <2>1, <2>3, <3>1 DEF OneLink
  <2>4. CASE ~connected
    <3>1. pc'["op"] = "close" /\ Opening'
      BY <1>3, <1>14, <2>1, <2>4 DEF OpenAwait, Stays, Opening
    <3> QED BY <2>1, <2>4, <3>1 DEF OneLink
  <2> QED BY <2>3, <2>4
<1>15. CASE CloseMove("op")
  <2>1. Opening /\ pc["op"] = "close"
    BY <1>2, <1>15 DEF CloseMove, OneLink
  <2>2. Now("op") = "connect"
    BY <1>1, <1>2, <2>1, AtPlace DEF Busy, Opening, Commands, AudioCommands, ModeCommands, FreeCommands
  <2>3. Go("op", "stopping")
    BY <1>1, <1>15, <2>1, <2>2 DEF CloseMove
  <2>4. pc'["op"] = "stopping" /\ Opening'
    BY <1>3, <2>1, <2>3 DEF Stays, Opening
  <2> QED BY <2>4 DEF OneLink
<1>16. CASE Send("op")
  <2>1. ~Opening
    BY <1>16 DEF Send, OneLink
  <2>2. pc'["op"] \in {"next", "wait"} /\ UNCHANGED <<ws, connected, lib>>
    BY <1>3, <1>4, <1>16 DEF Send, conn, library
  <2> QED BY <1>6, <2>1, <2>2
<1>17. CASE Wait("op")
  <2>1. ~Opening
    BY <1>17 DEF Wait, OneLink
  <2>2. todo["op"] # <<>> /\ Now("op") \in Commands
    BY <1>1, <1>17, AtPlace DEF Wait, Busy
  <2>3. pc'["op"] = "next"
    BY <1>1, <1>4, <1>17, <2>2, AnsweredDoes DEF Wait
  <2> QED BY <1>6, <1>17, <2>1, <2>3 DEF Wait, conn, library
<1>18. CASE EnterMode("op") \/ OtherStep("op")
  <2>1. pc["op"] = "next" /\ UNCHANGED <<ws, connected, lib>>
    BY <1>18 DEF EnterMode, OtherStep, conn, library
  <2>2. pc'["op"] = "next"
    BY <1>1, <1>2, <1>4, <1>18, EnterDoes DEF OtherStep
  <2>3. CASE Opening
    <3>1. Now("op") # "connect"
      BY <1>18 DEF EnterMode, OtherStep
    <3>2. Call("op") = "audio_ready" /\ Now("op") \in {"reset_hub", "reset_guard", "reset_mode"}
      BY <2>3, <3>1 DEF Opening
    <3>3. GoesOn("op")
      BY <1>1, <1>18, <3>2, DoneMoves, EnterDoes DEF OtherStep, GoesOn
    <3>4. Opening'
      BY <3>2, <3>3 DEF GoesOn, Moved, After1, Opening
    <3> QED BY <2>1, <2>2, <2>3, <3>4 DEF OneLink
  <2> QED BY <1>6, <2>1, <2>2, <2>3
<1> QED BY <1>7, <1>8, <1>9, <1>10, <1>11, <1>12, <1>13, <1>14, <1>15, <1>16, <1>17, <1>18 DEF Caller

LEMMA OneLinkKept ==
  ASSUME Struct, Unborn, Shut, OneLink, [Next]_vars PROVE OneLink'
<1> SUFFICES ASSUME Serving' PROVE OneLink'
  BY DEF OneLink
<1>1. CASE StartBegins /\ Unborn /\ pc["op"] = "new"
  <2>1. /\ todo["op"] = <<>> /\ Then("op", Start) /\ old' = old /\ UNCHANGED <<ws, connected, lib>>
    BY <1>1 DEF StartBegins, Idle, conn, library
  <2>2. Moved("op", "reset_hub", "audio_ready") /\ pc'["op"] = "next"
    BY <2>1, Beginnings, BeginMoves DEF Thread
  <2>3. Opening'
    BY <2>2 DEF Moved, Opening
  <2> QED BY <1>1, <2>1, <2>2, <2>3 DEF OneLink, Unborn
<1>2. CASE Serving /\ Outside
  BY <1>2, OutsideLink DEF Serving
<1>3. CASE Serving /\ Alone' /\ Caller("op")
  BY <1>3, CallerLink
<1>4. CASE Serving /\ Alone' /\ OpBegins
  <2>1. PICK p \in Program : Then("op", p) /\ todo["op"] = <<>> /\ old' = old
                             /\ pc["op"] = "next" /\ UNCHANGED <<ws, connected, lib>>
    BY <1>4 DEF OpBegins, Idle, conn, library
  <2>2. /\ p \in Plans /\ p # <<>> /\ pc'["op"] = "next" /\ Moved("op", Head(p), Last(p))
    BY <2>1, ProgramPlans, BeginMoves DEF Thread
  <2>3. Last(p) # "audio_ready"
    BY Beginnings, ProgramPlans
  <2>4. ~Opening /\ ~Opening'
    BY <2>1, <2>2, <2>3 DEF Opening, Moved, Call
  <2> QED BY <1>4, <2>1, <2>2, <2>4 DEF OneLink
<1>5. CASE Serving /\ UNCHANGED vars
  BY <1>5 DEF OneLink, vars, conn, thr, library, Opening, Call, Now
<1> QED BY <1>1, <1>2, <1>3, <1>4, <1>5, ServingBefore


-----------------------------------------------------------------------------
(* The answer that is taken is the answer to the last request.              *)

(* In service, only the device and the line to it move, or the link breaks.  *)
LEMMA InService ==
  ASSUME Struct, Serving, OneLink, ~Opening, Outside, ~Reporting'
  PROVE  /\ ws \in Ws /\ lib[ws] \in {"up", "error"}
         /\ UNCHANGED <<mode, play, recording, ws, pc, todo, allOk, req>>
         /\ \/ UNCHANGED <<line, back, responses, device>>
            \/ Drop(ws) \/ OnResponse(ws) \/ DeviceAnswersOn(ws)
<1>1. /\ ws \in Ws /\ lib[ws] \in {"up", "error"} /\ connected
      /\ pc["op"] \in {"next", "enter", "ensure", "send", "wait"}
      /\ \A w \in Ws : w # ws => lib[w] = "none"
  BY DEF OneLink, Struct, Types, WireTypes
<1>2. UNCHANGED <<play, recording, ws, pc, todo, allOk, req>> /\ todo["st"] = <<>>
  BY OutsideFrame DEF Serving, Alone
<1>3. ~ToldToStop(ws)
  <2>1. old["op"] = None /\ old["st"] = None
    BY <1>1, <1>2 DEF Struct, Places, PlaceOf, Busy, Thread
  <2> QED BY <1>1, <2>1, WsAssumption DEF ToldToStop, Thread
<1>4. CASE \E w \in Ws : Library(w) \/ Drop(w)
  <2>1. PICK w \in Ws : Library(w) \/ Drop(w)
    BY <1>4
  <2>2. lib[w] # "none"
    BY <2>1 DEF Library, Drop, Attempt, OnOpen, LibCloses, OnClose, OnCloseHub, OnCloseMode,
       OnCloseTell, OnResponse
  <2>3. w = ws
    BY <1>1, <2>2
  <2>4. ~OnClose(ws)
    <3> SUFFICES ASSUME OnClose(ws) PROVE FALSE
      OBVIOUS
    <3>1. lib'[ws] = "close_hub" /\ tell'[ws]
      BY <1>1 DEF OnClose, To, Struct, Types, WireTypes
    <3> QED BY <1>1, <3>1 DEF Reporting
  <2>5. OnResponse(ws) \/ Drop(ws)
    BY <1>1, <1>3, <2>1, <2>3, <2>4 DEF Library, Attempt, OnOpen, LibCloses, OnCloseHub, OnCloseMode,
       OnCloseTell
  <2> QED BY <1>1, <1>2, <2>5 DEF OnResponse, Drop, libFrame, client
<1>5. CASE DeviceAnswers
  <2>1. PICK w \in Ws : DeviceAnswersOn(w)
    BY <1>5 DEF DeviceAnswers
  <2>2. lib[w] = "up"
    BY <2>1 DEF DeviceAnswersOn, Struct, Types, WireTypes
  <2>3. w = ws
    BY <1>1, <2>2
  <2> QED BY <1>1, <1>2, <2>1, <2>3 DEF DeviceAnswersOn, client
<1>6. CASE DeviceFallsSilent
  BY <1>1, <1>2, <1>6 DEF DeviceFallsSilent, hubVars, client
<1> QED BY <1>4, <1>5, <1>6 DEF Outside

LEMMA OutsideAnswers ==
  ASSUME Struct, Serving, OneLink, AnswersLast, ~Opening, Outside, ~Reporting', pc["op"] = "wait"
  PROVE  AnswersLast'
<1> DEFINE r == req["op"]
           l == line[ws]
           b == back[ws]
<1>1. /\ ws \in Ws /\ UNCHANGED <<ws, pc, todo, req>> /\ Now("op")' = Now("op")
      /\ \/ UNCHANGED <<line, back, responses, device>>
         \/ Drop(ws) \/ OnResponse(ws) \/ DeviceAnswersOn(ws)
  BY InService DEF Now
<1>2. l \in Seq(Request) /\ b \in Seq(Response) /\ line \in [Ws -> Seq(Request)]
      /\ back \in [Ws -> Seq(Response)] /\ WireTypes
  BY <1>1 DEF Struct, Types, WireTypes
<1>3. /\ \A i \in 1 .. Len(l) : l[i].id = r => i = Len(l) /\ l[i].cmd = Now("op")
      /\ \A i \in 1 .. Len(b) : b[i].id = r => l = <<>> /\ (b[i].ok => Obeyed(Now("op")))
      /\ \A i \in 1 .. Len(responses) :
           responses[i].id = r => l = <<>> /\ (responses[i].ok => Obeyed(Now("op")))
  BY DEF AnswersLast
<1>4. CASE UNCHANGED <<line, back, responses, device>>
  BY <1>1, <1>4 DEF AnswersLast, Obeyed, Serving, Alone
<1>5. CASE Drop(ws)
  <2>1. line'[ws] = <<>> /\ back'[ws] = <<>> /\ UNCHANGED <<responses, device>>
    BY <1>1, <1>2, <1>5 DEF Drop, Flush, hubVars
  <2> QED BY <1>1, <1>3, <2>1 DEF AnswersLast, Obeyed
<1>6. CASE OnResponse(ws)
  <2>1. b # <<>> /\ back' = [back EXCEPT ![ws] = Tail(b)] /\ HubNotify(Head(b))
        /\ line' = line /\ device' = device
    BY <1>1, <1>2, <1>6 DEF OnResponse, libFrame
  <2>2. /\ Head(b) \in Response /\ Head(b) = b[1] /\ Len(Tail(b)) = Len(b) - 1 /\ Len(b) \in Nat \ {0}
        /\ \A i \in 1 .. Len(Tail(b)) : i + 1 \in 1 .. Len(b) /\ Tail(b)[i] = b[i + 1]
    BY <1>2, <2>1
  <2>3. back'[ws] = Tail(b)
    BY <1>1, <1>2, <2>1
  <2>4. \A j \in 1 .. Len(responses') :
          \/ responses'[j] = Head(b)
          \/ \E i \in 1 .. Len(responses) : responses'[j] = responses[i]
    BY <1>2, <2>1, <2>2, NotifyKeeps
  <2>5. Head(b).id = r => l = <<>> /\ (Head(b).ok => Obeyed(Now("op")))
    BY <1>3, <2>2
  <2>6. Obeyed(Now("op"))' <=> Obeyed(Now("op"))
    BY <1>1, <2>1 DEF Obeyed
  <2>7. \A i \in 1 .. Len(Tail(b)) : Tail(b)[i].id = r => l = <<>> /\ (Tail(b)[i].ok => Obeyed(Now("op")))
    BY <1>3, <2>2
  <2>8. \A j \in 1 .. Len(responses') :
          responses'[j].id = r => l = <<>> /\ (responses'[j].ok => Obeyed(Now("op")))
    BY <1>3, <2>4, <2>5
  <2> QED BY <1>1, <1>3, <2>1, <2>3, <2>6, <2>7, <2>8 DEF AnswersLast
<1>7. CASE DeviceAnswersOn(ws)
  <2>1. PICK ok \in BOOLEAN :
          /\ l # <<>> /\ line' = [line EXCEPT ![ws] = Tail(l)]
          /\ device' = IF ok THEN After(Head(l).cmd) ELSE device
          /\ back' = IF Head(l).cmd = "xiaoai_exit" THEN back
                     ELSE [back EXCEPT ![ws] = Append(b, [id |-> Head(l).id, ok |-> ok])]
          /\ responses' = responses
    BY <1>7 DEF DeviceAnswersOn, hubVars
  <2>2. /\ Head(l) \in Request /\ Head(l) = l[1] /\ Len(Tail(l)) = Len(l) - 1 /\ Len(l) \in Nat \ {0}
        /\ \A i \in 1 .. Len(Tail(l)) : i + 1 \in 1 .. Len(l) /\ Tail(l)[i] = l[i + 1]
    BY <1>2, <2>1
  <2>3. line'[ws] = Tail(l)
    BY <1>1, <1>2, <2>1
  <2>4. \A i \in 1 .. Len(Tail(l)) : Tail(l)[i].id = r => i = Len(Tail(l)) /\ Tail(l)[i].cmd = Now("op")
    BY <1>3, <2>2
  <2>5. /\ \A i \in 1 .. Len(b) : b[i].id # r
        /\ \A i \in 1 .. Len(responses) : responses[i].id # r
    BY <1>3, <2>1
  <2>6. Head(l).id = r => Tail(l) = <<>> /\ (ok => Obeyed(Now("op"))')
    <3> SUFFICES ASSUME Head(l).id = r PROVE Tail(l) = <<>> /\ (ok => Obeyed(Now("op"))')
      OBVIOUS
    <3>0. 1 \in 1 .. Len(l) /\ l[1].id = r
      BY <2>2
    <3>1. Len(l) = 1 /\ Head(l).cmd = Now("op")
      BY <1>3, <2>2, <3>0
    <3>2. Tail(l) = <<>>
      <4>1. Tail(l) \in Seq(Request) /\ Len(Tail(l)) = 0
        BY <1>2, <2>1, <2>2, <3>1
      <4> QED BY <4>1, EmptySeq
    <3>3. ok => device' = After(Now("op"))
      BY <2>1, <3>1
    <3> QED BY <1>1, <3>2, <3>3 DEF Obeyed, After
  <2>7. \A i \in 1 .. Len(back'[ws]) :
          back'[ws][i].id = r => Tail(l) = <<>> /\ (back'[ws][i].ok => Obeyed(Now("op"))')
    <3>1. CASE Head(l).cmd = "xiaoai_exit"
      BY <2>1, <2>5, <3>1
    <3>2. CASE Head(l).cmd # "xiaoai_exit"
      <4>1. back'[ws] = Append(b, [id |-> Head(l).id, ok |-> ok])
        BY <1>1, <1>2, <2>1, <3>2
      <4>2. \A i \in 1 .. Len(back'[ws]) :
              \/ i \in 1 .. Len(b) /\ back'[ws][i] = b[i]
              \/ back'[ws][i].id = Head(l).id /\ back'[ws][i].ok = ok
        BY <1>2, <4>1
      <4> QED BY <2>5, <2>6, <4>2
    <3> QED BY <3>1, <3>2
  <2> QED BY <1>1, <2>1, <2>3, <2>4, <2>5, <2>7 DEF AnswersLast
<1> QED BY <1>1, <1>4, <1>5, <1>6, <1>7

LEMMA SendAnswers ==
  ASSUME Struct, Send("op"), pc'["op"] = "wait" PROVE AnswersLast'
<1>1. "op" \in Thread /\ ThreadTypes /\ WireTypes /\ pc["op"] \in Busy /\ PlaceOf("op")
  BY DEF Thread, Struct, Types, Send, Busy, Places
<1>2. ws \in Ws /\ Go("op", "wait")
  <2>1. ~Fails("op") /\ ~Done("op")
    <3>1. Call("op") # "none" /\ Now("op") # "stopped"
      BY <1>1, AtPlace
    <3> QED BY <1>1, <3>1, DoneMoves, FailsMoves
  <2> QED BY <1>1, <2>1 DEF Send, WireTypes
<1>3. /\ line' = [line EXCEPT ![ws] = Append(@, [id |-> Fresh, cmd |-> Now("op")])]
      /\ req' = [req EXCEPT !["op"] = Fresh] /\ ws' = ws
      /\ UNCHANGED <<back, responses, device>> /\ Now("op")' = Now("op")
  <2>1. ~Done("op") /\ ~Fails("op")
    <3>1. Call("op") # "none" /\ Now("op") # "stopped"
      BY <1>1, AtPlace
    <3> QED BY <1>1, <3>1, DoneMoves, FailsMoves
  <2> QED BY <1>2, <2>1 DEF Send, Go, conn, hubVars, Now
<1>4. /\ \A i \in 1 .. Len(responses) : responses[i].id # Fresh
      /\ \A i \in 1 .. Len(line[ws]) : line[ws][i].id # Fresh
      /\ \A i \in 1 .. Len(back[ws]) : back[ws][i].id # Fresh
  BY <1>2, FreshIsNew DEF Struct
<1>5. PICK f : f = Fresh
  OBVIOUS
<1>6. req'["op"] = f /\ line'[ws] = Append(line[ws], [id |-> f, cmd |-> Now("op")])
  BY <1>1, <1>2, <1>3, <1>5 DEF ThreadTypes, WireTypes
<1>7. line[ws] \in Seq(Request)
  BY <1>1, <1>2 DEF WireTypes
<1>8. /\ Len(line'[ws]) = Len(line[ws]) + 1 /\ Len(line[ws]) \in Nat
      /\ \A i \in 1 .. Len(line'[ws]) :
           line'[ws][i] = IF i = Len(line'[ws]) THEN [id |-> f, cmd |-> Now("op")] ELSE line[ws][i]
  BY <1>6, <1>7
<1>9. \A i \in 1 .. Len(line'[ws]) :
        line'[ws][i].id = f => i = Len(line'[ws]) /\ line'[ws][i].cmd = Now("op")
  BY <1>4, <1>5, <1>8
<1> QED BY <1>3, <1>4, <1>5, <1>6, <1>9 DEF AnswersLast

LEMMA AnswersLastKept ==
  ASSUME Struct, Unborn, Shut, OneLink, AnswersLast, [Next]_vars PROVE AnswersLast'
<1> SUFFICES ASSUME Serving', pc'["op"] = "wait" PROVE AnswersLast'
  BY DEF AnswersLast
<1>1. CASE StartBegins \/ OpBegins
  <2>1. pc'["op"] # "wait"
    BY <1>1 DEF StartBegins, OpBegins, Then, Struct, Types, ThreadTypes, Thread
  <2> QED BY <2>1
<1>2. CASE Serving /\ Outside
  <2>1. pc["op"] = "wait" /\ ~Reporting'
    BY <1>2, OutsideFrame DEF Serving
  <2>2. ~Opening
    BY <1>2, <2>1 DEF OneLink
  <2> QED BY <1>2, <2>1, <2>2, OutsideAnswers
<1>3. CASE Serving /\ Alone' /\ Caller("op")
  <2>1. /\ Call("op") # "none" /\ Now("op") # "stopped" /\ "op" \in Thread /\ ThreadTypes
    <3>1. Call("op") \notin {"none", "stopped"} /\ InCall(Now("op"), Call("op")) /\ "op" \in Thread
      BY <1>3, OpCall DEF Serving, Thread
    <3> QED BY <3>1 DEF InCall, Single, Struct, Types
  <2>2. Send("op")
    <3>1. ~Done("op") /\ ~Fails("op")
      BY <2>1, DoneMoves, FailsMoves
    <3>2. \A p : Go("op", p) => p = "wait"
      BY <2>1, GoStays
    <3>3. ~EnterMode("op")
      BY <2>1, EnterDoes
    <3>4. ~(Wait("op") /\ Answered("op"))
      <4> SUFFICES ASSUME Wait("op"), Answered("op") PROVE FALSE
        OBVIOUS
      <4>1. todo["op"] # <<>> /\ Now("op") \in Commands
        BY <2>1, AtPlace DEF Wait, Busy
      <4> QED BY <2>1, <4>1, AnsweredDoes
    <3>5. ~Prepare("op")
      <4> SUFFICES ASSUME Prepare("op") PROVE FALSE
        OBVIOUS
      <4>1. Go("op", IF Now("op") \in ModeCommands THEN "enter" ELSE "ensure")
        BY <2>1, <3>1, PrepareDoes
      <4> QED BY <3>2, <4>1
    <3> QED BY <1>3, <3>1, <3>2, <3>3, <3>4, <3>5 DEF Caller, TryEnter, Ensure, OpenReset, OpenReplace,
         OldEnded, OpenStart, OpenAwait, CloseMove, Wait, OtherStep
  <2> QED BY <2>2, SendAnswers
<1>4. CASE Serving /\ UNCHANGED vars
  BY <1>4 DEF AnswersLast, Obeyed, vars, conn, thr, wire, hubVars, Serving, Alone, Now
<1> QED BY <1>1, <1>2, <1>3, <1>4, ServingBefore


-----------------------------------------------------------------------------
(* Mode and device. *)

LEMMA OutsideFree ==
  ASSUME Struct, Serving, OneLink, ~Opening, Outside, ~Reporting', FreeOnly
  PROVE  FreeOnly' /\ UNCHANGED <<mode, device>>
<1>1. /\ ws \in Ws /\ mode' = mode /\ ws' = ws
      /\ \/ UNCHANGED <<line, back, responses, device>>
         \/ Drop(ws) \/ OnResponse(ws) \/ DeviceAnswersOn(ws)
  BY InService
<1>2. line \in [Ws -> Seq(Request)]
  BY DEF Struct, Types, WireTypes
<1>3. CASE UNCHANGED <<line, back, responses, device>> \/ OnResponse(ws)
  BY <1>1, <1>3 DEF OnResponse, libFrame, FreeOnly
<1>4. CASE Drop(ws)
  <2>1. line'[ws] = <<>> /\ device' = device
    BY <1>1, <1>2, <1>4 DEF Drop, Flush
  <2> QED BY <1>1, <2>1 DEF FreeOnly
<1>5. CASE DeviceAnswersOn(ws)
  <2>1. PICK ok \in BOOLEAN :
          /\ line[ws] # <<>> /\ line' = [line EXCEPT ![ws] = Tail(line[ws])]
          /\ device' = IF ok THEN After(Head(line[ws]).cmd) ELSE device
    BY <1>5 DEF DeviceAnswersOn
  <2>2. line[ws] \in Seq(Request)
    BY <1>1, <1>2
  <2>3. /\ Head(line[ws]) = line[ws][1] /\ 1 \in 1 .. Len(line[ws])
        /\ \A i \in 1 .. Len(Tail(line[ws])) :
             i + 1 \in 1 .. Len(line[ws]) /\ Tail(line[ws])[i] = line[ws][i + 1]
    BY <2>1, <2>2
  <2>4. Head(line[ws]).cmd \in FreeCommands
    BY <2>3 DEF FreeOnly
  <2>5. device' = device
    BY <2>1, <2>4 DEF After, FreeCommands
  <2>6. line'[ws] = Tail(line[ws])
    BY <1>1, <1>2, <2>1
  <2>7. \A i \in 1 .. Len(Tail(line[ws])) : Tail(line[ws])[i].cmd \in FreeCommands
    BY <2>3 DEF FreeOnly
  <2> QED BY <1>1, <2>5, <2>6, <2>7 DEF FreeOnly
<1> QED BY <1>1, <1>3, <1>4, <1>5

LEMMA OutsideAgree ==
  ASSUME Struct, Serving, OneLink, Agree, Outside, ~Reporting' PROVE Agree'
<1>1. UNCHANGED <<ws, pc, todo, allOk>> /\ Stays("op")
  BY OutsideFrame DEF Stays, Call, Now
<1>2. CASE Opening
  <2>1. /\ Call("op")' = "audio_ready"
        /\ Now("op")' \in {"reset_hub", "reset_guard", "reset_mode", "connect"}
    BY <1>1, <1>2 DEF Stays, Opening
  <2> QED BY <2>1 DEF Agree, Between, FreeCommands, ModeCommands
<1>3. CASE ~Opening
  <2>1. mode' = mode
    BY <1>3, InService
  <2>2. FreeOnly => FreeOnly' /\ device' = device
    BY <1>3, OutsideFree
  <2>3. Between' <=> Between
    BY <1>1 DEF Stays, Between
  <2> QED BY <1>1, <2>1, <2>2, <2>3 DEF Agree, Stays
<1> QED BY <1>2, <1>3

LEMMA StaysAgree ==
  ASSUME Agree, Serving, Stays("op"), allOk' = allOk, UNCHANGED <<mode, device>>,
         FreeOnly => FreeOnly', Between' => Between
  PROVE  Agree'
BY DEF Agree, Stays

LEMMA FailsAgree ==
  ASSUME Struct, Agree, Serving, Alone', Caller("op"), Fails("op"),
         UNCHANGED <<mode, device, line, ws>>, Now("op") \in Commands \cup {"connect"}
  PROVE  Agree'
<1>1. FreeOnly' <=> FreeOnly
  BY DEF FreeOnly
<1>2. \/ /\ Now("op") \in ModeCommands /\ Moved("op", "fault", "restarted")
      \/ /\ Call("op") = "restarted" /\ ~allOk'["op"] /\ Call("op")' = "restarted"
      \/ /\ Call("op") = Now("op") /\ Now("op") \in FreeCommands /\ Call("op")' = "none"
  BY OpFails DEF Serving
<1>3. CASE \/ Now("op") \in ModeCommands /\ Moved("op", "fault", "restarted")
           \/ Call("op") = "restarted" /\ ~allOk'["op"] /\ Call("op")' = "restarted"
  BY <1>3 DEF Agree, Moved, Between, ModeCommands, FreeCommands
<1>4. CASE /\ Call("op") = Now("op") /\ Now("op") \in FreeCommands /\ Call("op")' = "none"
  BY <1>1, <1>4 DEF Agree, Between
<1> QED BY <1>2, <1>3, <1>4

LEMMA AfterOpening ==
  ASSUME Struct, Serving, Alone', Caller("op"), Opening PROVE Agree'
<1>1. /\ Call("op") = "audio_ready" /\ "op" \in Thread
      /\ Now("op") \in {"reset_hub", "reset_guard", "reset_mode", "connect"}
      /\ Stays("op") \/ GoesOn("op") \/ Turns("op")
      /\ running
  BY CallerMoves DEF Opening, Thread, Serving, Alone
<1>2. CASE Stays("op")
  BY <1>1, <1>2 DEF Stays, Agree, Between, FreeCommands, ModeCommands
<1>3. CASE GoesOn("op")
  <2>1. /\ Call("op")' = "audio_ready"
        /\ Now("op")' \in {"reset_guard", "reset_mode", "connect", "start_play"}
    BY <1>1, <1>3 DEF GoesOn, Moved, After1
  <2> QED BY <2>1 DEF Agree, Between, FreeCommands, ModeCommands
<1>4. CASE Turns("op")
  <2>1. Call("op")' = "stopped"
    BY <1>1, <1>4 DEF Turns, Starting, ModeCommands, Moved, Serving, Alone
  <2> QED BY <2>1 DEF Alone
<1> QED BY <1>1, <1>2, <1>3, <1>4

LEMMA SendAgree ==
  ASSUME Struct, Serving, OneLink, Agree, Alone', Caller("op"), Send("op") PROVE Agree'
<1>1. /\ "op" \in Thread /\ ThreadTypes /\ WireTypes /\ InCall(Now("op"), Call("op"))
      /\ Call("op") \notin {"none", "stopped"} /\ pc["op"] \in Busy /\ pc["op"] = "send"
      /\ UNCHANGED <<ws, mode, device>>
  BY OpCall DEF Thread, Struct, Types, Serving, Send, Busy, client, conn
<1>2. Now("op") \in Commands
  BY <1>1, AtPlace
<1>3. CASE Fails("op") /\ line' = line
  BY <1>1, <1>2, <1>3, FailsAgree
<1>4. CASE /\ line' = [line EXCEPT ![ws] = Append(@, [id |-> Fresh, cmd |-> Now("op")])]
           /\ ws \in Ws
           /\ Go("op", "wait") \/ (Done("op") /\ Now("op") = "xiaoai_exit")
  <2>1. line'[ws] = Append(line[ws], [id |-> Fresh, cmd |-> Now("op")]) /\ line[ws] \in Seq(Request)
    BY <1>1, <1>4 DEF WireTypes
  <2>2. FreeOnly /\ Now("op") \in FreeCommands => FreeOnly'
    <3> SUFFICES ASSUME FreeOnly, Now("op") \in FreeCommands PROVE FreeOnly'
      OBVIOUS
    <3>1. \A i \in 1 .. Len(line'[ws]) :
            \/ i \in 1 .. Len(line[ws]) /\ line'[ws][i] = line[ws][i]
            \/ line'[ws][i].cmd = Now("op")
      BY <2>1
    <3>2. \A i \in 1 .. Len(line'[ws]) : line'[ws][i].cmd \in FreeCommands
      BY <3>1 DEF FreeOnly
    <3> QED BY <1>1, <3>2 DEF FreeOnly
  <2>3. Between => Call("op") = Now("op") /\ Now("op") \in FreeCommands
    BY <1>1, <1>2 DEF Between, InCall, Single, FreeCommands, ModeCommands
  <2>4. /\ Now("op") \notin {"audio_ready", "restarted"}
        /\ Call("op") \notin {"enter_llm", "enter_kws"}
    BY <1>1, <1>2 DEF InCall, Single, Commands, AudioCommands, FreeCommands, ModeCommands
  <2>5. CASE Go("op", "wait")
    <3>1. Stays("op") /\ pc'["op"] = "wait"
      BY <1>1, <2>5, GoStays
    <3>2. Between' => Between
      BY <3>1 DEF Between, Stays
    <3> QED BY <1>1, <2>2, <2>3, <2>4, <3>1, <3>2 DEF Agree, Stays
  <2>6. CASE Done("op") /\ Now("op") = "xiaoai_exit"
    <3>1. Call("op") = "xiaoai_exit" /\ Between
      BY <1>1, <2>6 DEF InCall, Single, Between, FreeCommands
    <3>2. Call("op")' = "none"
      BY <1>1, <2>6, <3>1, DoneMoves DEF Moved
    <3> QED BY <1>1, <2>2, <2>3, <3>1, <3>2 DEF Agree, Between
  <2> QED BY <1>4, <2>5, <2>6
<1> QED BY <1>1, <1>3, <1>4 DEF Send, WireTypes


LEMMA PrepareAgree ==
  ASSUME Struct, Flags, Serving, Agree, Alone', Prepare("op") PROVE Agree'
<1>1. /\ UNCHANGED <<mode, device, line, ws>> /\ Now("op") \in Commands /\ pc["op"] = "next"
      /\ Caller("op") /\ Alone
      /\ Call("op") \notin {"none", "stopped"} /\ InCall(Now("op"), Call("op"))
      /\ "op" \in Thread /\ ThreadTypes
  BY OpCall DEF Thread, Struct, Types, Prepare, client, conn, wire, Caller, Serving
<1>2. FreeOnly' <=> FreeOnly
  BY <1>1 DEF FreeOnly
<1>3. CASE Go("op", IF Now("op") \in ModeCommands THEN "enter" ELSE "ensure")
  <2>1. Stays("op") /\ allOk' = allOk
        /\ pc'["op"] = IF Now("op") \in ModeCommands THEN "enter" ELSE "ensure"
    BY <1>1, <1>3, GoStays DEF Go
  <2>2. Between' => Between
    BY <1>1, <2>1 DEF Between, Stays
  <2> QED BY <1>1, <1>2, <2>1, <2>2, StaysAgree
<1>4. CASE Fails("op")
  BY <1>1, <1>4, FailsAgree
<1>5. CASE Done("op") /\ Now("op") \in ModeCommands
  <2>1. Now("op") = Call("op")
    BY <1>1, <1>5 DEF InCall, ModeCommands, Single
  <2>2. Call("op")' = "none" /\ Between
    BY <1>1, <1>5, <2>1, DoneMoves DEF Moved, Between
  <2> QED BY <1>1, <1>2, <2>2 DEF Agree, Between
<1>6. CASE /\ Done("op") /\ Now("op") \notin ModeCommands
           /\ Decision(Now("op"), mode, play, recording, Recovery("op")) = "done"
  <2>1. Now("op") \in AudioCommands
    BY <1>1, <1>6 DEF Decision, Commands
  <2>2. Call("op") = "audio_ready" /\ Now("op") = "start_play"
    BY <1>1, <1>6, <2>1, Skipped
  <2>3. Moved("op", "fast_recording", "audio_ready")
    BY <1>1, <1>6, <2>2, DoneMoves DEF After1
  <2> QED BY <2>3 DEF Agree, Moved, Between, ModeCommands, FreeCommands
<1>7. \/ Go("op", IF Now("op") \in ModeCommands THEN "enter" ELSE "ensure")
      \/ Done("op") /\ Decision(Now("op"), mode, play, recording, Recovery("op")) = "done"
      \/ Done("op") /\ Now("op") \in ModeCommands
      \/ Fails("op")
  BY <1>1, PrepareDoes
<1> QED BY <1>3, <1>4, <1>5, <1>6, <1>7

LEMMA TryEnterAgree ==
  ASSUME Struct, Serving, Agree, Alone', TryEnter("op") PROVE Agree'
<1>1. /\ UNCHANGED <<device, line, ws>> /\ pc["op"] = "enter"
      /\ Call("op") \notin {"none", "stopped"} /\ InCall(Now("op"), Call("op"))
      /\ "op" \in Thread /\ ThreadTypes
  BY OpCall DEF Thread, Struct, Types, TryEnter, Caller, Serving, conn, wire
<1>2. Now("op") \in ModeCommands
  BY <1>1, AtPlace DEF Busy
<1>3. Call("op") = Now("op")
  BY <1>1, <1>2 DEF InCall, ModeCommands, Single
<1>4. CASE mode = From(Now("op"))
  <2>1. Stays("op") /\ pc'["op"] = "ensure"
    BY <1>1, <1>4, GoStays DEF TryEnter
  <2> QED BY <1>2, <1>3, <2>1 DEF Agree, Stays, Between, ModeCommands, FreeCommands
<1>5. CASE mode # From(Now("op"))
  <2>1. Call("op")' = "none" /\ mode' = mode /\ Between
    BY <1>1, <1>2, <1>3, <1>5, DoneMoves DEF TryEnter, Moved, Between
  <2>2. FreeOnly' <=> FreeOnly
    BY <1>1 DEF FreeOnly
  <2> QED BY <1>1, <2>1, <2>2 DEF Agree, Between
<1> QED BY <1>4, <1>5

LEMMA AnsweredAgree ==
  ASSUME Struct, Serving, OneLink, AnswersLast, Agree, Alone', Wait("op"),
         HubTake(req["op"], TRUE), Answered("op")
  PROVE  Agree'
<1>1. /\ UNCHANGED <<mode, device, line, ws>> /\ pc["op"] = "wait"
      /\ Call("op") \notin {"none", "stopped"} /\ InCall(Now("op"), Call("op"))
      /\ "op" \in Thread /\ ThreadTypes /\ WireTypes /\ todo["op"] # <<>>
  BY OpCall DEF Thread, Struct, Types, Wait, Caller, Serving, conn, wire
<1>2. Now("op") \in Commands
  BY <1>1, AtPlace DEF Busy
<1>3. /\ allOk' = allOk /\ pc'["op"] = "next"
      /\ Now("op") = "llm_start" => Moved("op", "enter_llm", "enter_llm")
      /\ Now("op") = "llm_stop" => Moved("op", "enter_kws", "enter_kws")
      /\ Now("op") \notin ModeCommands =>
           Moved("op", After1(Now("op"), Call("op")),
                 IF Now("op") = Call("op") THEN "none" ELSE Call("op"))
  BY <1>1, <1>2, AnsweredDoes
<1>4. line[ws] = <<>> /\ Obeyed(Now("op"))
  <2>0. \A ok : HubTake(req["op"], ok) =>
          \E i \in 1 .. Len(responses) : responses[i].id = req["op"] /\ responses[i].ok = ok
    BY <1>1, TakeGives
  <2>1. PICK i \in 1 .. Len(responses) : responses[i].id = req["op"] /\ responses[i].ok = TRUE
    BY <2>0
  <2> QED BY <1>1, <2>1 DEF AnswersLast
<1>5. FreeOnly'
  BY <1>1, <1>4 DEF FreeOnly
<1>6. CASE Now("op") \in ModeCommands
  <2>1. \/ Now("op") = "llm_start" /\ Call("op")' = "enter_llm"
        \/ Now("op") = "llm_stop" /\ Call("op")' = "enter_kws"
    BY <1>3, <1>6 DEF ModeCommands, Moved
  <2>2. /\ Call("op")' = "enter_llm" => device' = "llm"
        /\ Call("op")' = "enter_kws" => device' = "kws"
    BY <1>1, <1>4, <2>1 DEF Obeyed
  <2> QED BY <1>5, <2>1, <2>2 DEF Agree, Between, FreeCommands, ModeCommands
<1>7. CASE Now("op") \in FreeCommands
  <2>1. Call("op") = Now("op")
    BY <1>1, <1>7 DEF InCall, FreeCommands, Single
  <2>2. Call("op")' = "none" /\ Between
    BY <1>3, <1>7, <2>1 DEF FreeCommands, ModeCommands, Moved, Between
  <2> QED BY <1>1, <1>5, <2>2 DEF Agree, Between
<1>8. CASE Now("op") \in {"stop_recording", "stop_play", "start_play"}
  <2>1. Call("op") \in {"audio_ready", "restarted"}
    BY <1>1, <1>8 DEF InCall, Single
  <2>2. /\ Call("op")' = Call("op") /\ Now("op")' = After1(Now("op"), Call("op"))
    BY <1>3, <1>8, <2>1 DEF Moved, ModeCommands
  <2>3. Now("op") \in {"stop_recording", "start_play"} \/ Call("op") = "restarted"
    BY <1>1, <1>8, <2>1 DEF InCall
  <2>4. Now("op")' \in {"stop_play", "start_play", "fast_recording"}
    BY <1>8, <2>2, <2>3 DEF After1
  <2> QED BY <2>1, <2>2, <2>4 DEF Agree, Between, FreeCommands, ModeCommands
<1>9. CASE Now("op") = "fast_recording"
  <2>1. Call("op") \in {"audio_ready", "restarted"}
    BY <1>1, <1>9 DEF InCall, Single
  <2>2. Call("op")' = Call("op") /\ device' = "kws"
    BY <1>1, <1>3, <1>4, <1>9, <2>1 DEF Moved, ModeCommands, Obeyed
  <2> QED BY <1>5, <2>1, <2>2 DEF Agree, Between, FreeCommands, ModeCommands
<1> QED BY <1>2, <1>6, <1>7, <1>8, <1>9 DEF Commands, AudioCommands

LEMMA EnterAgree ==
  ASSUME Struct, Serving, Agree, Alone', EnterMode("op") PROVE Agree' \/ Call("op")' = "report"
<1>1. /\ UNCHANGED <<device, line, ws>>
      /\ Call("op") \notin {"none", "stopped"} /\ InCall(Now("op"), Call("op"))
      /\ "op" \in Thread /\ allOk["op"] \in BOOLEAN
  BY OpCall DEF Thread, EnterMode, Caller, Serving, Struct, Types, ThreadTypes, conn, wire
<1>2. /\ allOk'["op"] = (allOk["op"] \/ Now("op") = "fault")
      /\ IF Now("op") = "restarted" /\ ~allOk["op"] THEN Moved("op", "give_up", "report")
         ELSE Moved("op", After1(Now("op"), Call("op")),
                    IF Now("op") = Call("op") THEN "none" ELSE Call("op"))
      /\ mode' = NextMode("op")
  BY <1>1, EnterDoes DEF EnterMode
<1>3. FreeOnly' <=> FreeOnly
  BY <1>1 DEF FreeOnly
<1>4. CASE Now("op") = "audio_ready" /\ Call("op") = "audio_ready"
  <2>1. Call("op")' = "none" /\ mode' = "Kws" /\ device = "kws" /\ FreeOnly
    BY <1>2, <1>4 DEF Moved, NextMode, Agree
  <2> QED BY <1>1, <1>3, <2>1 DEF Agree, Between
<1>5. CASE Now("op") = "audio_ready" /\ Call("op") = "restarted"
  <2>1. Call("op")' = "restarted" /\ Now("op")' = "restarted" /\ allOk'["op"] = allOk["op"]
    BY <1>1, <1>2, <1>5 DEF Moved, After1
  <2> QED BY <1>1, <1>3, <1>5, <2>1 DEF Agree, Between, FreeCommands, ModeCommands
<1>6. CASE Now("op") \in {"enter_kws", "enter_llm"}
  <2>1. Call("op") = Now("op")
    BY <1>1, <1>6 DEF InCall, Single
  <2>2. /\ Call("op")' = "none" /\ FreeOnly
        /\ \/ mode' = "Kws" /\ device = "kws"
           \/ mode' = "LlmWorking" /\ device = "llm"
    <3>1. Call("op")' = "none"
      BY <1>2, <1>6, <2>1 DEF Moved
    <3>2. CASE Now("op") = "enter_kws"
      BY <1>2, <2>1, <3>1, <3>2 DEF NextMode, Agree
    <3>3. CASE Now("op") = "enter_llm"
      BY <1>2, <2>1, <3>1, <3>3 DEF NextMode, Agree
    <3> QED BY <1>6, <3>2, <3>3
  <2> QED BY <1>1, <1>3, <2>2 DEF Agree, Between
<1>7. CASE Now("op") = "fault"
  <2>1. Call("op") = "restarted"
    BY <1>1, <1>7 DEF InCall, Single
  <2>2. Call("op")' = "restarted" /\ Now("op")' = "stop_recording"
    BY <1>2, <1>7, <2>1 DEF Moved, After1
  <2> QED BY <2>2 DEF Agree, Between, FreeCommands, ModeCommands
<1>8. CASE Now("op") = "reset_mode"
  <2>1. Call("op") = "audio_ready"
    BY <1>1, <1>8 DEF InCall, Single
  <2>2. Call("op")' = "audio_ready" /\ Now("op")' = "connect"
    BY <1>2, <1>8, <2>1 DEF Moved, After1
  <2> QED BY <2>2 DEF Agree, Between, FreeCommands, ModeCommands
<1>9. CASE Now("op") = "restarted"
  <2>1. Call("op") = "restarted"
    BY <1>1, <1>9 DEF InCall, Single
  <2>2. CASE allOk["op"]
    <3>1. Call("op")' = "none" /\ mode' = "Kws" /\ device = "kws" /\ FreeOnly
      BY <1>2, <1>9, <2>1, <2>2 DEF Moved, NextMode, Agree
    <3> QED BY <1>1, <1>3, <3>1 DEF Agree, Between
  <2>3. CASE ~allOk["op"]
    BY <1>2, <1>9, <2>3 DEF Moved
  <2> QED BY <2>2, <2>3
<1>10. /\ Now("op") \in {"audio_ready", "enter_kws", "enter_llm", "fault", "reset_mode", "restarted"}
       /\ Now("op") = "audio_ready" => Call("op") \in {"audio_ready", "restarted"}
  BY <1>1 DEF EnterMode, InCall, Single
<1> QED BY <1>4, <1>5, <1>6, <1>7, <1>8, <1>9, <1>10


LEMMA CallerAgree ==
  ASSUME Struct, Flags, OneLink, AnswersLast, Agree, Serving, Serving', Caller("op") PROVE Agree'
<1>1. /\ Call("op") \notin {"none", "stopped", "report"} /\ InCall(Now("op"), Call("op"))
      /\ "op" \in Thread /\ ThreadTypes /\ Alone /\ Alone' /\ running /\ Call("op")' # "report"
  BY OpCall DEF Thread, Struct, Types, Serving
<1>2. CASE Opening
  BY <1>1, <1>2, AfterOpening
<1>3. CASE ~Opening
  <2>1. pc["op"] \in {"next", "enter", "ensure", "send", "wait"} /\ ws # None /\ connected
    BY <1>3 DEF OneLink
  <2>2. Now("op") \notin {"hang_up", "give_up", "connect", "shut", "mute", "reset_guard", "reset_hub",
                          "report", "stopped"}
    BY <1>1, <1>3 DEF InCall, Single, Opening
  <2>3. CASE Prepare("op")
    BY <1>1, <2>3, PrepareAgree
  <2>4. CASE TryEnter("op")
    BY <1>1, <2>4, TryEnterAgree
  <2>5. CASE Send("op")
    BY <1>1, <2>5, SendAgree
  <2>6. CASE EnterMode("op")
    BY <1>1, <2>6, EnterAgree
  <2>7. CASE Ensure("op")
    <3>1. Go("op", "send") /\ UNCHANGED <<mode, device, line, ws>> /\ pc["op"] = "ensure"
      BY <1>1, <2>1, <2>2, <2>7 DEF Ensure, client, conn, wire
    <3>2. Stays("op") /\ pc'["op"] = "send" /\ allOk' = allOk
      BY <1>1, <3>1, GoStays DEF Go
    <3>3. (Between' => Between) /\ (FreeOnly => FreeOnly')
      BY <3>1, <3>2 DEF Between, Stays, FreeOnly
    <3> QED BY <3>1, <3>2, <3>3, StaysAgree
  <2>8. CASE Wait("op")
    <3>1. Now("op") \in Commands /\ UNCHANGED <<mode, device, line, ws>>
      BY <1>1, <2>8, AtPlace DEF Wait, Busy, conn, wire
    <3>2. CASE Fails("op")
      BY <1>1, <3>1, <3>2, FailsAgree
    <3>3. CASE HubTake(req["op"], TRUE) /\ Answered("op")
      BY <1>1, <2>8, <3>3, AnsweredAgree
    <3> QED BY <2>8, <3>2, <3>3 DEF Wait
  <2>9. ~OtherStep("op")
    BY <2>2 DEF OtherStep
  <2> QED BY <2>1, <2>2, <2>3, <2>4, <2>5, <2>6, <2>7, <2>8, <2>9
          DEF Caller, OpenReset, OpenReplace, OldEnded, OpenStart, OpenAwait, CloseMove
<1> QED BY <1>2, <1>3

LEMMA AgreeKept ==
  ASSUME IInv, [Next]_vars PROVE Agree'
<1> SUFFICES ASSUME Serving' PROVE Agree'
  BY DEF Agree
<1>0. Struct /\ Unborn /\ Shut /\ Flags /\ OneLink /\ AnswersLast /\ Agree
  BY DEF IInv, Struct
<1>1. CASE StartBegins
  <2>1. /\ todo["op"] = <<>> /\ Then("op", Start) /\ old' = old
    BY <1>1 DEF StartBegins, Idle
  <2>2. Moved("op", "reset_hub", "audio_ready")
    BY <1>0, <2>1, Beginnings, BeginMoves DEF Thread
  <2> QED BY <2>2 DEF Agree, Moved, Between, ModeCommands, FreeCommands
<1>2. CASE Serving /\ Outside
  BY <1>0, <1>2, OutsideAgree DEF Serving
<1>3. CASE Serving /\ Caller("op")
  BY <1>0, <1>3, CallerAgree
<1>4. CASE Serving /\ Alone' /\ OpBegins
  <2>1. PICK p \in Program : Then("op", p) /\ todo["op"] = <<>> /\ old' = old
                             /\ UNCHANGED <<mode, device, line, ws>>
    BY <1>4 DEF OpBegins, Idle, client, conn, wire
  <2>2. /\ p \in Plans /\ p # <<>> /\ pc'["op"] = "next" /\ Moved("op", Head(p), Last(p))
    BY <1>0, <2>1, ProgramPlans, BeginMoves DEF Thread
  <2>3. Last(p) = "stopped" \/ Last(p) \in FreeCommands \cup ModeCommands
    BY Beginnings, ProgramPlans DEF FreeCommands, ModeCommands
  <2>4. Call("op")' \in FreeCommands \cup ModeCommands
    BY <1>4, <2>2, <2>3 DEF Moved, Alone
  <2>5. Between
    BY <2>1 DEF Between, Call
  <2>6. FreeOnly' <=> FreeOnly
    BY <2>1 DEF FreeOnly
  <2> QED BY <1>0, <1>4, <2>1, <2>4, <2>5, <2>6 DEF Agree, FreeCommands, ModeCommands
<1>5. CASE Serving /\ UNCHANGED vars
  BY <1>0, <1>5 DEF Agree, vars, client, conn, thr, wire, Between, FreeOnly, Call, Now
<1> QED BY <1>0, <1>1, <1>2, <1>3, <1>4, <1>5, ServingBefore

-----------------------------------------------------------------------------
(* The invariant holds, and says what the Frontend relies on.               *)

LEMMA InitIInv == Init => IInv
<1> SUFFICES ASSUME Init PROVE IInv
  OBVIOUS
<1>1. Struct
  BY InitStruct
<1>2. Call("op") = "none" /\ Call("st") = "none"
  BY DEF Init, Call, Thread
<1>3. Unborn /\ Shut
  BY <1>2 DEF Init, Unborn, Shut, Thread
<1>4. Flags /\ OneLink /\ AnswersLast /\ Agree
  BY DEF Init, Flags, OneLink, AnswersLast, Agree, Serving, Alone
<1> QED BY <1>1, <1>3, <1>4 DEF IInv, Struct

LEMMA IInvKept ==
  ASSUME IInv, [Next]_vars PROVE IInv'
<1>1. Struct /\ Unborn /\ Shut /\ Flags /\ OneLink /\ AnswersLast
  BY DEF IInv, Struct
<1> QED BY <1>1, StructKept, UnbornKept, ShutKept, FlagsKept, OneLinkKept, AnswersLastKept, AgreeKept
        DEF IInv, Struct

LEMMA IInvHolds == Spec => []IInv
<1> QED BY InitIInv, IInvKept, PTL DEF Spec

LEMMA QuietIsAlone ==
  ASSUME IInv, Quiet, running
  PROVE  Alone /\ Between /\ Call("op") = "none" /\ (Serving \/ lost \/ Reporting)
<1>1. Call("op") = "none" /\ todo["st"] = <<>>
  BY DEF Quiet, Idle, Thread, Call
<1> QED BY <1>1 DEF Alone, Between, Serving

(* The promise of client.cpp to the Frontend: whenever no call is under way  *)
(* and the client has not been stopped, it is in a mode in which it can be   *)
(* used, or the loss of its link has been reported or is about to be,        *)
(* whatever was lost, refused, answered too late or stopped by then.         *)
THEOREM UsableOrReportedAlways == Spec => []UsableOrReported
<1>1. IInv => UsableOrReported
  <2> SUFFICES ASSUME IInv, Quiet, running, ~lost, ~Reporting PROVE mode \in {"Kws", "LlmWorking"}
    BY DEF UsableOrReported
  <2>1. Serving /\ Between
    BY QuietIsAlone
  <2> QED BY <2>1 DEF IInv, Agree
<1> QED BY <1>1, IInvHolds, PTL

(* Whenever no call is under way and the link was not lost, the mode says    *)
(* what the device records: a late or a refused answer never leaves the      *)
(* router with the wrong format.  And a usable client has noted that it       *)
(* plays and records.                                                       *)
THEOREM ModeMatchesDeviceAlways == Spec => []ModeMatchesDevice
<1>1. IInv => ModeMatchesDevice
  <2> SUFFICES ASSUME IInv, Quiet, running
      PROVE /\ ~lost /\ ~Reporting => /\ mode = "LlmWorking" => device = "llm"
                                      /\ mode = "Kws" => device = "kws"
            /\ mode \in {"Kws", "LlmWorking"} => play /\ recording
    BY DEF ModeMatchesDevice
  <2>1. Alone /\ Between /\ (Serving \/ lost \/ Reporting)
    BY QuietIsAlone
  <2>2. mode = "Stopped" \/ (play /\ recording)
    BY <2>1 DEF IInv, Flags
  <2>3. Serving => (mode = "Kws" /\ device = "kws") \/ (mode = "LlmWorking" /\ device = "llm")
    BY <2>1 DEF IInv, Agree
  <2> QED BY <2>1, <2>2, <2>3
<1> QED BY <1>1, IInvHolds, PTL

-----------------------------------------------------------------------------
(* The abstract specification.                                              *)


PromiseStep == Promise!PromiseNext \/ UNCHANGED <<Phase, CallKind, mode, device>>

LEMMA KindIs ==
  ThreadTypes =>
    /\ Call("op") \in {"none", "audio_ready", "stopped", "restarted", "report"} \cup Single
    /\ Call("op") = "none" => CallKind = "none"
    /\ Call("op") = "audio_ready" => CallKind = "start"
    /\ Call("op") \in {"llm_start", "enter_llm"} => CallKind = "to_llm"
    /\ Call("op") \in {"llm_stop", "enter_kws", "restarted", "report"} => CallKind = "to_kws"
    /\ Call("op") \in FreeCommands => CallKind = "free"
    /\ Call("op") = "stopped" => CallKind = "stop"
<1> SUFFICES ASSUME ThreadTypes
    PROVE /\ Call("op") \in {"none", "audio_ready", "stopped", "restarted", "report"} \cup Single
          /\ Call("op") = "none" => CallKind = "none"
          /\ Call("op") = "audio_ready" => CallKind = "start"
          /\ Call("op") \in {"llm_start", "enter_llm"} => CallKind = "to_llm"
          /\ Call("op") \in {"llm_stop", "enter_kws", "restarted", "report"} => CallKind = "to_kws"
          /\ Call("op") \in FreeCommands => CallKind = "free"
          /\ Call("op") = "stopped" => CallKind = "stop"
  OBVIOUS
<1>1. /\ todo["op"] = <<>> <=> Call("op") = "none"
      /\ Call("op") # "none" => InCall(Now("op"), Call("op"))
  BY CallIs DEF Thread
<1>2. Call("op") \in {"none", "audio_ready", "stopped", "restarted", "report"} \cup Single
  BY <1>1 DEF InCall
<1>3. Call("op") # "none" => Last(todo["op"]) = Call("op")
  BY <1>1 DEF Call
<1> QED BY <1>1, <1>2, <1>3 DEF CallKind, Idle, FreeCommands, Single

LEMMA PhaseIs ==
  ThreadTypes /\ Unborn =>
    /\ pc["op"] = "new" <=> Phase = "new"
    /\ pc["op"] # "new" /\ ~Alone => Phase = "ended"
    /\ Alone => Phase = IF lost \/ Reporting THEN "lost"
                        ELSE IF Call("op") = "report" THEN "giving_up" ELSE "serving"
<1>1. ThreadTypes => (todo["op"] = <<>> <=> Call("op") = "none")
  BY CallIs DEF Thread
<1>2. ThreadTypes => (CallKind = "stop" <=> Call("op") = "stopped")
  BY KindIs DEF Single, FreeCommands
<1>3. Call("op") # "none" => Last(todo["op"]) = Call("op")
  BY DEF Call
<1> QED BY <1>1, <1>2, <1>3 DEF Phase, Idle, Alone, Unborn

(* A loss is noticed by the callback, which changes nothing else yet, or at   *)
(* the end of a restart that has failed.                                   *)
LEMMA OutsideNotices ==
  ASSUME Struct, Outside
  PROVE  /\ mode' \in {mode, "Stopped"}
         /\ ~lost /\ ~Reporting /\ (lost' \/ Reporting') => UNCHANGED <<mode, device>>
<1>0. /\ lib \in [Ws -> {"none", "connecting", "open", "up", "error", "close_hub",
                       "close_mode", "close_tell", "ended"}]
      /\ tell \in [Ws -> BOOLEAN] /\ lost \in BOOLEAN
  BY DEF Struct, Types, WireTypes, FlagTypes
<1>1. CASE DeviceAnswers \/ DeviceFallsSilent
  <2>1. UNCHANGED <<mode, lost, lib, tell>>
    BY <1>1 DEF DeviceAnswers, DeviceAnswersOn, DeviceFallsSilent, client, library
  <2> QED BY <2>1 DEF Reporting
<1>2. ASSUME NEW v \in Ws, Library(v) \/ Drop(v)
      PROVE  /\ mode' \in {mode, "Stopped"}
             /\ ~lost /\ ~Reporting /\ (lost' \/ Reporting') => UNCHANGED <<mode, device>>
  <2>1. CASE Attempt(v) \/ OnOpen(v) \/ LibCloses(v) \/ OnClose(v) \/ OnResponse(v) \/ Drop(v)
    BY <2>1 DEF Attempt, OnOpen, LibCloses, OnClose, OnResponse, Drop, libFrame, client
  <2>2. CASE OnCloseHub(v) \/ OnCloseMode(v)
    <3>1. /\ mode' \in {mode, "Stopped"} /\ lost' = lost /\ tell' = tell
          /\ lib[v] \in Closing /\ \A w \in Ws : w # v => lib'[w] = lib[w]
      BY <1>0, <2>2 DEF OnCloseHub, OnCloseMode, To, libFrame, client, Closing
    <3>2. Reporting' => Reporting
      BY <3>1 DEF Reporting, Closing
    <3> QED BY <3>1, <3>2
  <2>3. CASE OnCloseTell(v)
    <3>1. /\ mode' = mode /\ lib[v] = "close_tell" /\ lost' = (lost \/ (tell[v] /\ running))
          /\ \A w \in Ws : tell'[w] => tell[w] /\ lib'[w] = lib[w]
      BY <1>0, <2>3 DEF OnCloseTell, To, libFrame, client
    <3>2. /\ Reporting' => Reporting
          /\ lost' => lost \/ Reporting
      BY <3>1 DEF Reporting
    <3> QED BY <3>1, <3>2
  <2> QED BY <1>2, <2>1, <2>2, <2>3 DEF Library
<1> QED BY <1>1, <1>2 DEF Outside

LEMMA CallerNotices ==
  ASSUME Struct, NEW t \in Thread, Caller(t)
  PROVE  /\ device' = device
         /\ mode' = mode \/ TryEnter(t) \/ EnterMode(t)
         /\ Reporting' => Reporting
         /\ lost' => lost \/ (Now(t) = "report" /\ Done(t) /\ mode' = mode)
<1>1. /\ device' = device
      /\ mode' = mode \/ TryEnter(t) \/ EnterMode(t)
      /\ lost' = lost \/ (Now(t) = "report" /\ Done(t) /\ mode' = mode)
  BY DEF Caller, Prepare, TryEnter, Ensure, OpenReset, OpenReplace, OldEnded, OpenStart, OpenAwait,
     CloseMove, Send, Wait, EnterMode, OtherStep, rest, wire, client
<1>2. tell' = tell /\ \A w \in Ws : lib'[w] \in Closing => lib'[w] = lib[w]
  <2>1. CASE OldEnded(t)
    <3>1. lib' = [lib EXCEPT ![old[t]] = "none"] /\ tell' = tell
      BY <2>1 DEF OldEnded
    <3> QED BY <3>1 DEF Closing, Struct, Types, WireTypes
  <2>2. CASE OpenStart(t)
    <3>1. /\ lib' = IF ws # None /\ lib[ws] = "none" THEN [lib EXCEPT ![ws] = "connecting"] ELSE lib
          /\ tell' = tell
      BY <2>2 DEF OpenStart
    <3> QED BY <3>1 DEF Closing, Struct, Types, WireTypes
  <2>3. CASE ~OldEnded(t) /\ ~OpenStart(t)
    <3>1. UNCHANGED library
      BY <2>3 DEF Caller, Prepare, TryEnter, Ensure, OpenReset, OpenReplace, OpenAwait,
         CloseMove, Send, Wait, EnterMode, OtherStep
    <3> QED BY <3>1 DEF library
  <2> QED BY <2>1, <2>2, <2>3
<1>3. Reporting' => Reporting
  BY <1>2 DEF Reporting, Closing
<1> QED BY <1>1, <1>3

(* What a call of op may go on to while nobody stops the client.            *)
LEMMA OpTurns ==
  ASSUME Struct, Alone, Alone', Caller("op")
  PROVE  /\ Call("op") \notin {"none", "stopped"}
         /\ \/ Call("op")' = Call("op")
            \/ Call("op")' = "none" /\ Now("op") = Call("op") /\ Now("op") \notin {"connect"} \cup AudioCommands
            \/ /\ Now("op") = Call("op") /\ Call("op") \in ModeCommands /\ Call("op")' = "restarted"
            \/ Call("op") = "llm_start" /\ Call("op")' = "enter_llm"
            \/ Call("op") = "llm_stop" /\ Call("op")' = "enter_kws"
            \/ Call("op") = "restarted" /\ Now("op") = "restarted" /\ Call("op")' = "report"
<1>1. /\ Call("op") \notin {"none", "stopped"} /\ InCall(Now("op"), Call("op")) /\ running
      /\ Stays("op") \/ GoesOn("op") \/ Turns("op")
  BY OpCall, CallerMoves DEF Thread
<1>2. CASE Stays("op")
  BY <1>1, <1>2 DEF Stays
<1>3. CASE GoesOn("op")
  BY <1>1, <1>3 DEF GoesOn, Moved, InCall, AudioCommands, Single
<1>4. CASE Turns("op")
  <2>1. Now("op") \in ModeCommands \cup {"llm_start", "llm_stop"} => Call("op") = Now("op")
    BY <1>1 DEF InCall, ModeCommands, Single
  <2>2. Now("op") = "restarted" => Call("op") = "restarted"
    BY <1>1 DEF InCall, Single
  <2>3. Call("op")' # "stopped"
    BY DEF Alone
  <2> QED BY <1>1, <1>4, <2>1, <2>2, <2>3 DEF Turns, Moved
<1> QED BY <1>1, <1>2, <1>3, <1>4

(* The steps that change the mode are taken at few places. *)
LEMMA StepAtRest ==
  ASSUME Struct, Alone, Caller("op"), Call("op") \in FreeCommands \cup {"report"}
  PROVE  mode' = mode
<1>1. "op" \in Thread /\ InCall(Now("op"), Call("op")) /\ todo["op"] # <<>>
  BY OpCall DEF Thread
<1>2. Now("op") \in FreeCommands \cup {"give_up", "report"}
  BY <1>1 DEF InCall, FreeCommands, Single
<1>3. ~TryEnter("op")
  BY <1>1, <1>2, AtPlace DEF TryEnter, FreeCommands, ModeCommands, Busy
<1> QED BY <1>1, <1>2, <1>3, CallerNotices DEF EnterMode, FreeCommands

(* A restart that has failed. *)
LEMMA FailedRestart ==
  ASSUME Struct, Alone, Caller("op"), Now("op") = "restarted", Call("op") = "restarted",
         Call("op")' = "report"
  PROVE  mode' = "Stopped"
<1>1. "op" \in Thread
  BY DEF Thread
<1>2. Now("op") \notin Commands \cup {"connect", "hang_up", "give_up"}
  BY DEF Commands, AudioCommands, ModeCommands, FreeCommands
<1>3. pc["op"] \notin Busy
  BY <1>1, <1>2, AtPlace DEF Busy
<1>4. EnterMode("op")
  BY <1>2, <1>3 DEF Caller, Prepare, TryEnter, Ensure, OpenReset, OpenReplace, OldEnded,
     OpenStart, OpenAwait, CloseMove, Send, Wait, OtherStep, Busy
<1>5. ~allOk["op"]
  BY <1>1, <1>4, EnterDoes DEF Moved
<1> QED BY <1>4, <1>5 DEF EnterMode, NextMode

(* A call that returns in service leaves what was asked for, or nothing new. *)
LEMMA ModeReturns ==
  ASSUME Struct, Serving, Agree, Serving', Caller("op"), Now("op") = Call("op"),
         Call("op") \in ModeCommands, Call("op")' = "none"
  PROVE  mode' = mode /\ mode # From(Now("op")) /\ Between
<1>1. /\ ThreadTypes /\ Alone /\ Alone' /\ "op" \in Thread /\ ~Stays("op")
      /\ Now("op") \in Commands /\ Now("op") \notin FreeCommands \cup {"connect", "give_up"}
  BY DEF Struct, Types, Serving, Thread, Stays, Commands, ModeCommands, FreeCommands
<1>2. ~Fails("op")
  BY <1>1, OpFails DEF Moved, ModeCommands, FreeCommands
<1>3. ~QuietStep("op")
  BY <1>1, <1>2, QuietMoves DEF FreeCommands
<1>4. ~(Wait("op") /\ Answered("op"))
  <2> SUFFICES ASSUME Wait("op"), Answered("op") PROVE FALSE
    OBVIOUS
  <2>1. todo["op"] # <<>>
    BY <1>1, OpCall
  <2> QED BY <1>1, <2>1, AnsweredDoes DEF Moved, ModeCommands
<1>5. \A p : ~Go("op", p)
  BY <1>1, GoStays
<1>6. ~EnterMode("op") /\ ~OtherStep("op")
  BY DEF EnterMode, OtherStep, ModeCommands
<1>7. Prepare("op") \/ TryEnter("op")
  BY <1>2, <1>3, <1>4, <1>6 DEF Caller, QuietStep, Wait
<1>8. CASE Prepare("op")
  <2>1. pc["op"] = "next" /\ mode' = mode
    BY <1>8 DEF Prepare, client
  <2>2. Decision(Now("op"), mode, play, recording, Recovery("op")) # "send"
    BY <1>5, <1>8 DEF Prepare
  <2>3. mode = From(Now("op")) => LlmDecision(Now("op"), mode) = "send"
    BY DEF LlmDecision, From
  <2>4. Now("op") \in ModeCommands /\ Now("op") \notin AudioCommands
    BY DEF AudioCommands, ModeCommands
  <2>5. mode # From(Now("op"))
    BY <2>2, <2>3, <2>4 DEF Decision
  <2> QED BY <2>1, <2>5 DEF Between
<1>9. CASE TryEnter("op")
  <2>1. pc["op"] = "enter" /\ mode # From(Now("op")) /\ mode' = mode
    BY <1>5, <1>9 DEF TryEnter
  <2> QED BY <2>1 DEF Between
<1> QED BY <1>7, <1>8, <1>9

LEMMA OpReturns ==
  ASSUME Struct, Serving, Agree, Serving', Agree', Caller("op"), Call("op")' = "none"
  PROVE  Promise!Left(CallKind)
<1>0. /\ ThreadTypes /\ Alone /\ Alone' /\ "op" \in Thread
      /\ Call("op") \notin {"none", "stopped", "report"}
      /\ Now("op") = Call("op") /\ Now("op") \notin {"connect"} \cup AudioCommands
      /\ device' = device
  BY OpTurns, CallerNotices DEF Struct, Types, Serving, Thread
<1>1. \/ mode' = "Kws" /\ device' = "kws"
      \/ mode' = "LlmWorking" /\ device' = "llm"
  BY DEF Agree, Between
<1>2. CASE Call("op") \in FreeCommands
  BY <1>0, <1>2, StepAtRest, KindIs DEF Promise!Left, Promise!Rests
<1>3. CASE Call("op") \in ModeCommands
  <2>1. mode' = mode /\ mode # From(Now("op")) /\ Between
    BY <1>0, <1>3, ModeReturns
  <2> QED BY <1>0, <1>1, <1>3, <2>1, KindIs DEF Promise!Left, From, ModeCommands
<1>4. CASE Call("op") \in {"audio_ready", "enter_llm", "enter_kws", "restarted"}
  <2>1. Now("op") \notin Commands \cup {"connect", "hang_up", "give_up"}
    BY <1>0, <1>4 DEF Commands, AudioCommands, ModeCommands, FreeCommands
  <2>2. pc["op"] \notin Busy
    BY <1>0, <2>1, AtPlace DEF Busy
  <2>3. EnterMode("op")
    BY <1>0, <1>4, <2>1, <2>2 DEF Caller, Prepare, TryEnter, Ensure, OpenReset, OpenReplace, OldEnded,
       OpenStart, OpenAwait, CloseMove, Send, Wait, OtherStep, Busy
  <2>4. Now("op") = "restarted" => allOk["op"]
    BY <1>0, <2>3, EnterDoes DEF Moved
  <2>5. mode' = IF Now("op") = "enter_llm" THEN "LlmWorking" ELSE "Kws"
    BY <1>0, <1>4, <2>3, <2>4 DEF EnterMode, NextMode
  <2> QED BY <1>0, <1>1, <1>4, <2>5, KindIs DEF Promise!Left
<1> QED BY <1>0, <1>2, <1>3, <1>4, KindIs DEF Single, FreeCommands, ModeCommands

(* The two lemmas about the mapping, in the state before and after a step.  *)
LEMMA Mapped ==
  ASSUME IInv, IInv', Alone, Alone'
  PROVE  /\ Phase = IF lost \/ Reporting THEN "lost"
                    ELSE IF Call("op") = "report" THEN "giving_up" ELSE "serving"
         /\ Phase' = IF lost' \/ Reporting' THEN "lost"
                     ELSE IF Call("op")' = "report" THEN "giving_up" ELSE "serving"
<1>1. (ThreadTypes /\ Unborn =>
        (Alone => Phase = IF lost \/ Reporting THEN "lost"
                          ELSE IF Call("op") = "report" THEN "giving_up" ELSE "serving"))'
  BY PhaseIs, PTL
<1> QED BY <1>1, PhaseIs DEF IInv, Types

LEMMA KindNext ==
  ThreadTypes' =>
    /\ Call("op")' = "none" => CallKind' = "none"
    /\ Call("op")' = "audio_ready" => CallKind' = "start"
    /\ Call("op")' \in {"llm_start", "enter_llm"} => CallKind' = "to_llm"
    /\ Call("op")' \in {"llm_stop", "enter_kws", "restarted", "report"} => CallKind' = "to_kws"
    /\ Call("op")' \in FreeCommands => CallKind' = "free"
<1>1. (ThreadTypes =>
        /\ Call("op") = "none" => CallKind = "none"
        /\ Call("op") = "audio_ready" => CallKind = "start"
        /\ Call("op") \in {"llm_start", "enter_llm"} => CallKind = "to_llm"
        /\ Call("op") \in {"llm_stop", "enter_kws", "restarted", "report"} => CallKind = "to_kws"
        /\ Call("op") \in FreeCommands => CallKind = "free")'
  BY KindIs, PTL
<1> QED BY <1>1

(* Every step that keeps the client alone is one that the promise knows.    *)
LEMMA CallerPromise ==
  ASSUME IInv, IInv', Alone, Alone', Caller("op") PROVE PromiseStep
<1>1. /\ Struct /\ Agree /\ Agree' /\ ThreadTypes /\ ThreadTypes' /\ "op" \in Thread
      /\ device' = device
      /\ Call("op") \in {"audio_ready", "restarted", "report"} \cup Single
  BY OpTurns, CallerNotices, KindIs DEF IInv, Struct, Types, Thread
<1>2. /\ lost \/ Reporting => lost' \/ Reporting'
      /\ lost' \/ Reporting' => lost \/ Reporting \/ (Now("op") = "report" /\ Done("op"))
  BY <1>1, CallerKeepsReports, CallerNotices
<1>3. /\ CallKind' \in {CallKind, "none"} \/ (CallKind = "to_llm" /\ CallKind' = "to_kws")
      /\ Call("op")' = "none" <=> CallKind' = "none"
      /\ CallKind \in {"start", "to_llm", "to_kws", "free"}
      /\ CallKind = "free" <=> Call("op") \in FreeCommands
  BY <1>1, OpTurns, KindIs, KindNext DEF Single, FreeCommands, ModeCommands
<1>4. CASE lost \/ Reporting
  <2>1. Phase = "lost" /\ Phase' = "lost"
    BY <1>2, <1>4, Mapped
  <2>2. CallKind \in {"none", "free"} => mode' = mode
    BY <1>1, <1>3, StepAtRest
  <2> QED BY <1>3, <2>1, <2>2 DEF PromiseStep, Promise!PromiseNext, Promise!Drifts
<1>5. CASE ~lost /\ ~Reporting /\ Call("op") = "report"
  <2>1. Phase = "giving_up" /\ mode' = mode /\ Call("op")' \in {"report", "none"}
    BY <1>1, <1>5, Mapped, StepAtRest, OpTurns DEF ModeCommands
  <2>2. CASE lost' \/ Reporting'
    <3>1. Now("op") = "report" /\ Done("op")
      BY <1>2, <1>5, <2>2
    <3>2. Call("op")' = "none"
      BY <1>1, <1>5, <3>1, DoneMoves DEF Moved
    <3>3. Phase' = "lost" /\ CallKind' = "none"
      BY <1>3, <2>2, <3>2, Mapped
    <3> QED BY <1>1, <2>1, <3>3 DEF PromiseStep, Promise!PromiseNext, Promise!Reports, Promise!Rests
  <2>3. CASE ~lost' /\ ~Reporting'
    <3>1. Call("op")' # "none"
      BY <1>1, <1>5, <2>3, CallerKeepsReports, OpTurns DEF Stays
    <3>2. Phase' = "giving_up" /\ CallKind' = CallKind
      BY <1>1, <1>5, <2>1, <2>3, <3>1, Mapped, KindIs, KindNext
    <3> QED BY <1>1, <2>1, <3>2 DEF PromiseStep
  <2> QED BY <2>2, <2>3
<1>6. CASE ~lost /\ ~Reporting /\ Call("op") # "report"
  <2>1. Serving /\ Phase = "serving" /\ Now("op") # "report"
    BY <1>1, <1>6, Mapped, OpCall DEF Serving, InCall, Single
  <2>2. ~lost' /\ ~Reporting'
    BY <1>2, <1>6, <2>1
  <2>3. CASE Call("op")' = "report"
    <3>1. Call("op") = "restarted" /\ Now("op") = "restarted"
      BY <1>1, <1>6, <2>3, OpTurns
    <3>2. mode' = "Stopped"
      BY <1>1, <2>3, <3>1, FailedRestart
    <3>3. Phase' = "giving_up" /\ CallKind = "to_kws" /\ CallKind' = "to_kws"
      BY <1>1, <2>2, <2>3, <3>1, Mapped, KindIs, KindNext
    <3> QED BY <1>1, <2>1, <3>2, <3>3 DEF PromiseStep, Promise!PromiseNext, Promise!GivesUp
  <2>4. CASE Call("op")' # "report"
    <3>1. Serving' /\ Phase' = "serving"
      BY <2>2, <2>4, Mapped DEF Serving
    <3>2. CASE Call("op")' = "none"
      <4>1. Promise!Left(CallKind)
        BY <1>1, <2>1, <3>1, <3>2, OpReturns
      <4> QED BY <1>3, <2>1, <3>1, <3>2, <4>1 DEF PromiseStep, Promise!PromiseNext, Promise!Returns
    <3>3. CASE Call("op")' # "none" /\ CallKind = "free"
      <4>1. mode' = mode /\ CallKind' = CallKind
        BY <1>1, <1>3, <3>3, StepAtRest
      <4> QED BY <1>1, <2>1, <3>1, <4>1 DEF PromiseStep
    <3>4. CASE Call("op")' # "none" /\ CallKind # "free"
      BY <1>3, <2>1, <3>1, <3>4 DEF PromiseStep, Promise!PromiseNext, Promise!Works
    <3> QED BY <3>2, <3>3, <3>4
  <2> QED BY <2>3, <2>4
<1> QED BY <1>4, <1>5, <1>6

LEMMA OutsidePromise ==
  ASSUME IInv, IInv', Alone, Alone', Outside PROVE PromiseStep
<1>1. /\ Struct /\ Agree /\ OneLink /\ Flags /\ ThreadTypes
      /\ Call("op") \in {"none", "audio_ready", "stopped", "restarted", "report"} \cup Single
      /\ Call("op") # "stopped" /\ running
  BY KindIs DEF IInv, Struct, Types, Alone
<1>2. Call("op")' = Call("op") /\ CallKind' = CallKind
  BY OutsideFrame DEF Call, CallKind, Idle
<1>3. lost \/ Reporting => lost' \/ Reporting'
  BY <1>1, OutsideKeepsReports
<1>4. CASE lost \/ Reporting
  <2>1. Phase = "lost" /\ Phase' = "lost"
    BY <1>3, <1>4, Mapped
  <2> QED BY <1>1, <1>2, <2>1, OutsideNotices DEF PromiseStep, Promise!PromiseNext, Promise!Drifts
<1>5. CASE ~lost /\ ~Reporting /\ (lost' \/ Reporting')
  <2>1. Phase \in {"serving", "giving_up"} /\ Phase' = "lost"
    BY <1>5, Mapped
  <2>2. UNCHANGED <<mode, device>>
    BY <1>1, <1>5, OutsideNotices
  <2> QED BY <1>2, <2>1, <2>2 DEF PromiseStep, Promise!PromiseNext, Promise!LosesLink, Promise!Rests
<1>6. CASE ~lost /\ ~Reporting /\ ~lost' /\ ~Reporting' /\ Call("op") = "report"
  <2>1. Phase = "giving_up" /\ Phase' = "giving_up"
    BY <1>2, <1>6, Mapped
  <2>2. mode = "Stopped"
    BY <1>1, <1>6 DEF Flags
  <2>3. mode' = mode
    BY <1>1, <2>2, OutsideNotices
  <2> QED BY <1>2, <2>1, <2>3 DEF PromiseStep, Promise!PromiseNext, Promise!Lingers
<1>7. CASE ~lost /\ ~Reporting /\ ~lost' /\ ~Reporting' /\ Call("op") # "report"
  <2>1. Serving /\ Phase = "serving" /\ Phase' = "serving"
    BY <1>2, <1>7, Mapped DEF Serving
  <2>2. CASE Call("op") \in {"none"} \cup FreeCommands
    <3>1. Between /\ ~Opening
      BY <2>2 DEF Between, Opening, FreeCommands
    <3>2. UNCHANGED <<mode, device>>
      BY <1>1, <1>7, <2>1, <3>1, OutsideFree DEF Agree
    <3> QED BY <1>2, <2>1, <3>2 DEF PromiseStep
  <2>3. CASE Call("op") \notin {"none"} \cup FreeCommands
    <3>1. CallKind \in {"start", "to_llm", "to_kws"}
      BY <1>1, <1>7, <2>3, KindIs DEF Single, FreeCommands
    <3> QED BY <1>2, <2>1, <3>1 DEF PromiseStep, Promise!PromiseNext, Promise!Works
  <2> QED BY <2>2, <2>3
<1> QED BY <1>4, <1>5, <1>6, <1>7

LEMMA BeginPromise ==
  ASSUME IInv, IInv', Alone, Alone', OpBegins PROVE PromiseStep
<1>1. PICK p \in Program : Then("op", p) /\ todo["op"] = <<>> /\ old' = old
                           /\ UNCHANGED <<mode, device, lost, lib, tell>>
  BY DEF OpBegins, Idle, client, wire, library
<1>2. Struct /\ ThreadTypes /\ ThreadTypes' /\ Call("op") = "none"
  BY <1>1 DEF IInv, Struct, Types, Call
<1>3. p \in Plans /\ p # <<>> /\ Moved("op", Head(p), Last(p))
  BY <1>1, <1>2, ProgramPlans, BeginMoves DEF Thread
<1>4. Call("op")' \in FreeCommands \cup ModeCommands
  <2>1. Last(p) = "stopped" \/ Last(p) \in FreeCommands \cup ModeCommands
    BY Beginnings, ProgramPlans DEF FreeCommands, ModeCommands
  <2> QED BY <1>3, <2>1 DEF Moved, Alone
<1>5. CallKind = "none" /\ CallKind' \in {"to_llm", "to_kws", "free"}
  BY <1>2, <1>4, KindIs, KindNext DEF ModeCommands
<1>6. Reporting' <=> Reporting
  BY <1>1 DEF Reporting
<1>7. Phase \in {"serving", "lost"} /\ Phase' = Phase
  BY <1>1, <1>2, <1>4, <1>6, Mapped DEF FreeCommands, ModeCommands
<1> QED BY <1>1, <1>5, <1>7 DEF PromiseStep, Promise!PromiseNext, Promise!Begins, Promise!Rests

(* A client that has been stopped is not found in use again, and nothing    *)
(* happens before its Start.                                              *)
LEMMA NotAlonePromise ==
  ASSUME IInv, IInv', [Next]_vars, ~(Alone /\ Alone') PROVE PromiseStep
<1>1. /\ Struct /\ Unborn /\ Shut /\ ThreadTypes /\ ThreadTypes' /\ Unborn'
  BY DEF IInv, Struct, Types
<1>2. /\ pc["op"] = "new" <=> Phase = "new"
      /\ pc["op"] # "new" /\ ~Alone => Phase = "ended"
  BY <1>1, PhaseIs
<1>3. /\ pc'["op"] = "new" <=> Phase' = "new"
      /\ pc'["op"] # "new" /\ ~Alone' => Phase' = "ended"
      /\ Alone' => Phase' = IF lost' \/ Reporting' THEN "lost"
                            ELSE IF Call("op")' = "report" THEN "giving_up" ELSE "serving"
  <2>1. (ThreadTypes /\ Unborn =>
          /\ pc["op"] = "new" <=> Phase = "new"
          /\ pc["op"] # "new" /\ ~Alone => Phase = "ended"
          /\ Alone => Phase = IF lost \/ Reporting THEN "lost"
                              ELSE IF Call("op") = "report" THEN "giving_up" ELSE "serving")'
    BY PhaseIs, PTL
  <2> QED BY <1>1, <2>1
<1>4. CASE StartBegins
  <2>1. /\ todo["op"] = <<>> /\ pc["op"] = "new" /\ Then("op", Start) /\ old' = old /\ running' = TRUE
        /\ UNCHANGED <<mode, device, lost, lib, tell>>
    BY <1>4 DEF StartBegins, Idle, wire, library, rest
  <2>2. Moved("op", "reset_hub", "audio_ready") /\ pc'["op"] = "next" /\ todo'["st"] = todo["st"]
    BY <1>1, <2>1, Beginnings, BeginMoves DEF Thread
  <2>3. Alone' /\ Call("op")' = "audio_ready"
    BY <1>1, <2>1, <2>2 DEF Alone, Moved, Unborn
  <2>4. ~Reporting'
    BY <1>1, <2>1 DEF Unborn, Reporting
  <2>5. ~lost
    BY <1>1, <2>1 DEF Unborn
  <2>6. CallKind' = "start"
    BY <1>1, <2>3, KindNext
  <2> QED BY <1>2, <1>3, <2>1, <2>3, <2>4, <2>5, <2>6
          DEF PromiseStep, Promise!PromiseNext, Promise!Starts, Promise!Rests
<1>5. CASE pc["op"] = "new" /\ ~StartBegins
  <2>1. /\ ~running /\ todo["op"] = <<>> /\ todo["st"] = <<>>
        /\ \A w \in Ws : lib[w] = "none"
    BY <1>1, <1>5 DEF Unborn
  <2>2. ~OpBegins /\ ~StopBegins
    BY <1>5, <2>1 DEF OpBegins, StopBegins
  <2>3. \A t \in Thread : ~Caller(t)
    BY <1>1, <2>1, CallerMoves DEF Call, Thread
  <2>4. CASE Outside
    <3>1. UNCHANGED <<pc, todo, mode, device>>
      BY <1>1, <2>1, <2>4, OutsideFrame, OutsideQuiet
    <3> QED BY <1>2, <1>3, <1>5, <3>1 DEF PromiseStep, CallKind, Idle
  <2>5. CASE UNCHANGED vars
    <3>1. UNCHANGED <<pc, todo, mode, device>>
      BY <2>5 DEF vars, client, thr, wire
    <3> QED BY <1>2, <1>3, <1>5, <3>1 DEF PromiseStep, CallKind, Idle
  <2> QED BY <1>5, <2>2, <2>3, <2>4, <2>5 DEF Next, Outside
<1>6. CASE pc["op"] # "new"
  <2>1. pc'["op"] # "new"
    <3>1. CASE UNCHANGED vars \/ Outside
      <4>1. pc' = pc
        BY <3>1, OutsideFrame DEF vars, thr
      <4> QED BY <1>6, <4>1
    <3>2. ASSUME NEW t \in Thread, Caller(t) PROVE pc'["op"] # "new"
      BY <1>1, <1>6, <3>2, CallerMoves DEF Others, Thread
    <3>3. CASE StartBegins \/ OpBegins \/ StopBegins
      BY <1>1, <1>6, <3>3 DEF StartBegins, OpBegins, StopBegins, Then, ThreadTypes, Thread
    <3> QED BY <3>1, <3>2, <3>3 DEF Next, Outside
  <2>2. ~Alone'
    BY <1>1, <1>6, AloneBefore
  <2> QED BY <1>2, <1>3, <1>6, <2>1, <2>2 DEF PromiseStep, Promise!PromiseNext, Promise!Ends
<1> QED BY <1>4, <1>5, <1>6

LEMMA StepKeepsPromise == IInv /\ IInv' /\ [Next]_vars => PromiseStep
<1> SUFFICES ASSUME IInv, IInv', [Next]_vars PROVE PromiseStep
  OBVIOUS
<1>1. CASE ~(Alone /\ Alone')
  BY <1>1, NotAlonePromise
<1>2. CASE Alone /\ Alone'
  <2>1. Struct /\ Unborn /\ Shut /\ pc["op"] # "new"
    BY <1>2 DEF IInv, Struct, Unborn, Alone
  <2>2. Outside \/ OpBegins \/ Caller("op") \/ UNCHANGED vars
    BY <1>2, <2>1, AloneBefore
  <2>3. CASE UNCHANGED vars
    <3>1. UNCHANGED <<mode, device, pc, todo, running, lost, lib, tell>>
      BY <2>3 DEF vars, client, thr, wire, library, rest
    <3> QED BY <3>1 DEF PromiseStep, Phase, CallKind, Idle, Reporting
  <2> QED BY <1>2, <2>2, <2>3, OutsidePromise, BeginPromise, CallerPromise
<1> QED BY <1>1, <1>2

LEMMA InitPromises == Init => Promise!PromiseInit
BY DEF Init, Promise!PromiseInit, Phase, CallKind, Idle, Thread

(* SoundboxLink implements ClientPromise: what a call may leave behind, that  *)
(* outside the calls mode and device stay as they are until a loss has been *)
(* noticed, and that giving up ends with a report.                         *)
THEOREM PromiseKept == Spec => KeepsPromise
<1>1. IInv /\ IInv' /\ [Next]_vars => [Promise!PromiseNext]_(Promise!promiseVars)
  BY StepKeepsPromise DEF PromiseStep, Promise!promiseVars
<1> QED BY <1>1, InitPromises, IInvHolds, PTL DEF Spec, KeepsPromise, Promise!PromiseSpec

=============================================================================
