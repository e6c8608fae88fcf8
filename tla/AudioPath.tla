----------------------------- MODULE AudioPath ------------------------------
(***************************************************************************)
(* The way of the recorded audio through the client while the device is     *)
(* switched between its two formats: the device, the WebSocket thread of    *)
(* client.cpp, the queue, the thread of audio_router.cpp, and the caller,   *)
(* whose commands do the switching.  In the mode Kws the device records one *)
(* channel for the wake word, in LlmWorking two for the echo cancellation.  *)
(*                                                                          *)
(* The connection stays up: losses are the subject of SoundboxLink, and so  *)
(* are start_play and stop_play, on which the audio does not depend.  The   *)
(* steps inside the queue are those of AudioPipe.                          *)
(***************************************************************************)
EXTENDS Integers, Sequences, SequencesExt

CONSTANTS
  MaxPackets,  (* max_packets_ of the queue                           *)
  MaxWire,     (* bound: frames on their way from the device           *)
  Budget       (* bound: how often [sessions, late, refused, broken] happen *)

ASSUME BoundsAssumption == MaxPackets \in Nat \ {0} /\ MaxWire \in Nat \ {0}

None == "none"
Format == {"1ch", "2ch"}

VARIABLES
  device,     (* what the device records: off, 1ch or 2ch              *)
  line,       (* requests on their way to the device                   *)
  wire,       (* frames on their way back, in order                    *)
  call,       (* number of the last request                            *)
  waiting, answer,  (* the caller waits for its response; the response *)
  mode,       (* mode_controller_                                      *)
  queue,      (* audio_pipe_: the formats of its chunks                 *)
  open,       (* audio_pipe_: running_                                  *)
  routing,    (* audio_router_: running_                                *)
  router,     (* its thread: off, test, pop, look, to_kws, to_aec, done *)
  hand,       (* the chunk it has popped                               *)
  caller,     (* where the caller is                                   *)
  stopped,    (* the first half of a restart has succeeded             *)
  restarted,  (* history: Kws was entered by a restart, nothing cleared since *)
  stray,      (* history: chunks in the wrong format that were delivered
                 since the mode was last set                           *)
  fed,        (* history: which link got audio in its format since then *)
  env         (* what is left of Budget                                *)

link == <<device, line, wire>>
callv == <<call, waiting, answer>>
pipe == <<queue, open>>
worker == <<routing, router, hand>>
history == <<restarted, stray, fed>>
vars == <<link, callv, mode, pipe, worker, caller, stopped, history, env>>

Spend(k) == env[k] > 0 /\ env' = [env EXCEPT ![k] = @ - 1]

-----------------------------------------------------------------------------
(* Frames, by the keys of their JSON. *)
Record(f) == [tag |-> "record", bytes |-> f]
Broken == Record(None)   (* bytes is no array of bytes *)
Response(id, ok) == [Response |-> [id |-> id, ok |-> ok]]

(* PacketParser::Parse, of the frames that are sent here. *)
Type(f) ==
  IF "Response" \in DOMAIN f THEN "Response"
  ELSE IF "tag" \in DOMAIN f /\ f.tag = "record" THEN "RecordAudio" ELSE "Unknown"

(* What each command makes the device record. *)
After(cmd) ==
  CASE cmd = "fast_recording" -> "1ch" [] cmd = "llm_stop" -> "1ch"
    [] cmd = "llm_start" -> "2ch"      [] cmd = "stop_recording" -> "off"

(* The device switches before it answers. *)
DeviceObeys ==
  /\ line # <<>> /\ Len(wire) < MaxWire
  /\ device' = After(Head(line).cmd) /\ line' = Tail(line)
  /\ wire' = Append(wire, Response(Head(line).id, TRUE))
  /\ UNCHANGED <<callv, mode, pipe, worker, caller, stopped, history, env>>

DeviceRefuses ==
  /\ line # <<>> /\ Len(wire) < MaxWire /\ Spend("refused")
  /\ line' = Tail(line)
  /\ wire' = Append(wire, Response(Head(line).id, FALSE))
  /\ UNCHANGED <<device, callv, mode, pipe, worker, caller, stopped, history>>

DeviceRecords ==
  /\ device \in Format /\ Len(wire) < MaxWire
  /\ \/ wire' = Append(wire, Record(device)) /\ UNCHANGED env
     \/ wire' = Append(wire, Broken) /\ Spend("broken")
  /\ UNCHANGED <<device, line, callv, mode, pipe, worker, caller, stopped, history>>

-----------------------------------------------------------------------------
(* AudioPipe, each operation in one step. *)

(* Mutant: the queue grows over its limit. *)
PushUnlimited(f) == queue' = IF open /\ f # None THEN Append(queue, f) ELSE queue

(* Push: an empty chunk is refused, and a full queue loses its oldest chunk. *)
Push(f) ==
  queue' = IF ~open \/ f = None THEN queue
           ELSE Append(IF Len(queue) < MaxPackets THEN queue ELSE Tail(queue), f)

Clear == queue' = <<>>

(* HandleMessageFrame.  A response nobody waits for any more has no effect.  *)
Receive ==
  /\ wire # <<>> /\ wire' = Tail(wire)
  /\ LET f == Head(wire) IN
       /\ IF Type(f) = "RecordAudio" THEN Push(f.bytes) ELSE UNCHANGED queue
       /\ answer' = IF Type(f) = "Response" /\ waiting /\ f.Response.id = call
                    THEN IF f.Response.ok THEN "ok" ELSE "failed"
                    ELSE answer
  /\ UNCHANGED <<device, line, call, waiting, mode, open, worker, caller, stopped,
                 history, env>>

-----------------------------------------------------------------------------
(* AudioRouter::WorkerLoop *)

RouterTest ==
  /\ router = "test" /\ router' = IF routing THEN "pop" ELSE "done"
  /\ UNCHANGED <<link, callv, mode, pipe, routing, hand, caller, stopped, history, env>>

RouterPop ==
  /\ router = "pop" /\ queue # <<>>
  /\ hand' = Head(queue) /\ queue' = Tail(queue) /\ router' = "look"
  /\ UNCHANGED <<link, callv, mode, open, routing, caller, stopped, history, env>>

RouterPopNothing ==
  /\ router = "pop" /\ queue = <<>> /\ ~open /\ router' = "done"
  /\ UNCHANGED <<link, callv, mode, pipe, routing, hand, caller, stopped, history, env>>

(* The chunk is popped first, and the mode is read afterwards.             *)
RouterLook ==
  /\ router = "look"
  /\ router' = CASE mode = "Kws" -> "to_kws" [] mode = "LlmWorking" -> "to_aec"
                 [] OTHER -> "test"
  /\ hand' = IF mode \in {"Kws", "LlmWorking"} THEN hand ELSE None
  /\ UNCHANGED <<link, callv, mode, pipe, routing, caller, stopped, history, env>>

InFormat == hand = IF router = "to_kws" THEN "1ch" ELSE "2ch"

RouterDeliver ==
  /\ router \in {"to_kws", "to_aec"}
  /\ router' = "test" /\ hand' = None
  /\ IF InFormat THEN fed' = router /\ UNCHANGED stray
                 ELSE stray' = stray + 1 /\ UNCHANGED fed
  /\ UNCHANGED <<link, callv, mode, pipe, routing, caller, stopped, restarted, env>>

-----------------------------------------------------------------------------
(* The caller: Start, NotifyLlmStart, NotifyLlmStop, the restart that follows *)
(* when one of these fails, and Stop.                                      *)

At(p) == ~waiting /\ caller = p

Enter(m) == mode' = m /\ stray' = 0 /\ fed' = None

(* Mutant: the pipe is not started. *)
StartRouterOnly ==
  /\ At("new") /\ Enter("Stopped") /\ routing' = TRUE /\ router' = "test"
  /\ caller' = "record"
  /\ UNCHANGED <<link, callv, pipe, hand, stopped, restarted, env>>

Start ==
  /\ At("new") /\ Enter("Stopped") /\ open' = TRUE
  /\ routing' = TRUE /\ router' = "test" /\ caller' = "record"
  /\ UNCHANGED <<link, callv, queue, hand, stopped, restarted, env>>

(* The command that is sent at each of these places. *)
Command(p) ==
  CASE p \in {"record", "rerecord"} -> "fast_recording"
    [] p \in {"restop", "stop"} -> "stop_recording"
    [] OTHER -> p

Places == {"record", "rerecord", "restop", "stop", "llm_start", "llm_stop"}

(* Call *)
Ask ==
  /\ ~waiting /\ caller \in Places
  /\ call' = call + 1 /\ waiting' = TRUE /\ answer' = None
  /\ line' = Append(line, [id |-> call', cmd |-> Command(caller)])
  /\ UNCHANGED <<device, wire, mode, pipe, worker, caller, stopped, history, env>>

(* What the caller does after a call that has succeeded, or failed.         *)
NextPlace(ok) ==
  CASE caller = "record"    -> IF ok THEN "enter_kws" ELSE "stop"
    [] caller = "llm_start" -> IF ok THEN "clear_llm" ELSE "fault"
    [] caller = "llm_stop"  -> IF ok THEN "clear_kws" ELSE "fault"
    [] caller = "restop"    -> "rerecord"
    [] caller = "rerecord"  -> IF ok THEN "reenter" ELSE "give_up"
    [] caller = "stop"      -> "shut"

Returns(ok) ==
  /\ waiting /\ waiting' = FALSE /\ answer' = None
  /\ caller' = NextPlace(ok)
  /\ stopped' = IF caller = "restop" THEN ok ELSE stopped
  /\ UNCHANGED <<link, call, mode, pipe, worker, history>>

Answered == answer # None /\ Returns(answer = "ok") /\ UNCHANGED env

TimesOut == answer = None /\ Spend("late") /\ Returns(FALSE)

(* PrepareLlmStart and PrepareLlmStop, in a mode in which they send. *)
BeginLlm ==
  /\ At("idle")
  /\ \/ mode = "Kws" /\ Enter("LlmStarting") /\ caller' = "llm_start"
        /\ Spend("sessions")
     \/ mode = "LlmWorking" /\ Enter("LlmStopping") /\ caller' = "llm_stop"
        /\ UNCHANGED env
  /\ UNCHANGED <<link, callv, pipe, worker, stopped, restarted>>

(* Mutant: the new mode is set without the queue having been cleared.      *)
ClearLate ==
  /\ ~waiting /\ caller \in {"clear_llm", "clear_kws", "clear"}
  /\ restarted' = FALSE
  /\ caller' = CASE caller = "clear_llm" -> "enter_llm"
                 [] caller = "clear_kws" -> "enter_kws" [] OTHER -> "restop"
  /\ UNCHANGED <<link, callv, mode, pipe, worker, stopped, stray, fed, env>>

(* The switch: what is queued in the old format goes before the mode changes. *)
ClearPipe ==
  /\ ~waiting /\ caller \in {"clear_llm", "clear_kws", "clear"}
  /\ Clear /\ restarted' = FALSE
  /\ caller' = CASE caller = "clear_llm" -> "enter_llm"
                 [] caller = "clear_kws" -> "enter_kws" [] OTHER -> "restop"
  /\ UNCHANGED <<link, callv, mode, open, worker, stopped, stray, fed, env>>

ForceEnter ==
  /\ ~waiting
  /\ \/ caller = "enter_llm" /\ Enter("LlmWorking") /\ caller' = "idle"
        /\ UNCHANGED restarted
     \/ caller = "enter_kws" /\ Enter("Kws") /\ caller' = "idle"
        /\ UNCHANGED restarted
     \/ caller = "fault" /\ Enter("Fault") /\ caller' = "clear"
        /\ UNCHANGED restarted
     \/ caller = "reenter" /\ Enter("Kws") /\ restarted' = TRUE
        /\ caller' = IF stopped THEN "idle" ELSE "give_up"
     \/ caller = "give_up" /\ Enter("Stopped") /\ caller' = "lost"
        /\ UNCHANGED restarted
  /\ UNCHANGED <<link, callv, pipe, worker, stopped, env>>

(* Stop; after a restart that failed the connection is closed, and the rest  *)
(* is SoundboxLink's.                                                      *)
StopBegins ==
  /\ At("idle") /\ caller' = "stop"
  /\ UNCHANGED <<link, callv, mode, pipe, worker, stopped, history, env>>

(* AudioRouter::Stop *)
Shut ==
  /\ At("shut") /\ routing' = FALSE /\ caller' = "close"
  /\ UNCHANGED <<link, callv, mode, pipe, router, hand, stopped, history, env>>

ClosePipe ==
  /\ At("close") /\ open' = FALSE /\ Clear /\ caller' = "join"
  /\ UNCHANGED <<link, callv, mode, worker, stopped, history, env>>

Join ==
  /\ At("join") /\ router = "done"
  /\ Enter("Stopped") /\ caller' = "over"
  /\ UNCHANGED <<link, callv, pipe, worker, stopped, restarted, env>>

-----------------------------------------------------------------------------
Init ==
  /\ device = "off" /\ line = <<>> /\ wire = <<>>
  /\ call = 0 /\ waiting = FALSE /\ answer = None
  /\ mode = "Stopped" /\ queue = <<>> /\ open = FALSE
  /\ routing = FALSE /\ router = "off" /\ hand = None
  /\ caller = "new" /\ stopped = FALSE
  /\ restarted = FALSE /\ stray = 0 /\ fed = None
  /\ env = Budget

Device == DeviceObeys \/ DeviceRefuses \/ DeviceRecords
Router == RouterTest \/ RouterPop \/ RouterPopNothing \/ RouterLook \/ RouterDeliver
Caller ==
  \/ Start \/ Ask \/ Answered \/ ClearPipe \/ ForceEnter
  \/ Shut \/ ClosePipe \/ Join
Wishes == BeginLlm \/ StopBegins \/ TimesOut

Next == Device \/ Receive \/ Router \/ Caller \/ Wishes

Spec == Init /\ [][Next]_vars

(* Threads that can go on do, and the device goes on to answer and to record. *)
FairSpec ==
  /\ Spec /\ WF_vars(Receive) /\ WF_vars(Router) /\ WF_vars(Caller)
  /\ WF_vars(DeviceObeys) /\ WF_vars(DeviceRecords)

-----------------------------------------------------------------------------
TypeOK ==
  /\ device \in Format \cup {"off"} /\ call \in Nat /\ waiting \in BOOLEAN
  /\ answer \in {None, "ok", "failed"}
  /\ mode \in {"Stopped", "Kws", "LlmStarting", "LlmWorking", "LlmStopping", "Fault"}
  /\ queue \in Seq(Format) /\ Len(queue) <= MaxPackets /\ Len(wire) <= MaxWire
  /\ open \in BOOLEAN /\ routing \in BOOLEAN
  /\ router \in {"off", "test", "pop", "look", "to_kws", "to_aec", "done"}
  /\ hand \in Format \cup {None} /\ stray \in Nat

Only(f) == \A i \in DOMAIN queue : queue[i] = f

(* No chunk of the old format waits in the queue when its mode begins or     *)
(* comes later: the device switches, answers, and the queue is cleared      *)
(* before the mode is set (client.cpp:251-255, 291-295).  A restart sets the *)
(* mode without having cleared what came while it went on.                  *)
QueueMatchesMode ==
  /\ mode = "LlmWorking" => Only("2ch")
  /\ mode = "Kws" /\ ~restarted => Only("1ch")

(* No chunk of the old format reaches the echo cancellation or the wake word *)
(* after a switch: the queue is cleared first (client.cpp:252-254, 292-294). *)
NoStrayChunk == ~restarted => stray = 0

(* What there is instead: the one chunk that the router has popped, but not *)
(* yet routed, when the queue is cleared.                                  *)
OneStrayChunk == ~restarted => stray <= 1

(* While the device works in a mode, its audio gets through to the consumer  *)
(* of that mode in the right format.                                       *)
AudioGetsThrough ==
  /\ (mode = "LlmWorking") ~> (fed = "to_aec" \/ mode # "LlmWorking")
  /\ (mode = "Kws") ~> (fed = "to_kws" \/ mode # "Kws")
=============================================================================
