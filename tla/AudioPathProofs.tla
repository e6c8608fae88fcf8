-------------------------- MODULE AudioPathProofs ---------------------------
(***************************************************************************)
(* The way of the audio for every limit of the queue, any number of frames  *)
(* on their way, and any budget: however often the device is switched, and  *)
(* whatever is late, refused or broken.                                    *)
(***************************************************************************)
EXTENDS AudioPath, TLAPS

(* Types of what TypeOK leaves open: the frames, the requests, the caller.    *)

Cmds == {"fast_recording", "llm_start", "llm_stop", "stop_recording"}
Request == [id : Nat, cmd : Cmds]
Frame == { Record(f) : f \in Format \cup {None} }
         \cup { Response(n, ok) : n \in Nat, ok \in BOOLEAN }

Waypoints == Places \cup
  {"new", "enter_kws", "idle", "clear_llm", "enter_llm", "clear_kws", "fault",
   "clear", "reenter", "give_up", "lost", "shut", "close", "join", "over"}

Types ==
  /\ TypeOK
  /\ line \in Seq(Request) /\ wire \in Seq(Frame)
  /\ caller \in Waypoints /\ restarted \in BOOLEAN /\ stopped \in BOOLEAN
  /\ waiting => caller \in Places
  /\ answer # None => waiting

(* The modes in which the caller may be at each of its places. *)
CallerInMode ==
  /\ caller \in {"new", "record", "lost", "over"} => mode = "Stopped"
  /\ caller = "enter_kws" => mode \in {"Stopped", "LlmStopping"}
  /\ caller = "idle" => mode \in {"Kws", "LlmWorking"}
  /\ caller \in {"llm_start", "clear_llm", "enter_llm"} => mode = "LlmStarting"
  /\ caller \in {"llm_stop", "clear_kws"} => mode = "LlmStopping"
  /\ caller = "fault" => mode \in {"LlmStarting", "LlmStopping"}
  /\ caller \in {"clear", "restop", "rerecord", "reenter"} => mode = "Fault"
  /\ caller = "give_up" => mode \in {"Fault", "Kws"}
  /\ caller \in {"stop", "shut", "close", "join"} => mode \in {"Stopped", "Kws", "LlmWorking"}

(* Every frame of audio in s has the format f, but for the broken ones.       *)
Audio(s, f) == \A i \in 1 .. Len(s) : Type(s[i]) = "RecordAudio" => s[i].bytes \in {f, None}

(* What is on its way is all in the format f, and nothing but cmd is asked for. *)
Coming(f, cmd) ==
  /\ device \in {f, "off"} /\ Audio(wire, f)
  /\ \A i \in 1 .. Len(line) : line[i].cmd = cmd
Comes(f) == Coming(f, "stop_recording")

(* The first recording. *)
FirstRecording ==
  caller \in {"new", "record"} =>
    Coming("1ch", "fast_recording") /\ Only("1ch") /\ ~restarted

ComesInFormat ==
  /\ mode = "LlmWorking" \/ caller \in {"clear_llm", "enter_llm"} => Comes("2ch")
  /\ mode = "Kws" \/ caller \in {"clear_kws", "enter_kws", "reenter"} => Comes("1ch")

(* The queue holds the format of the mode that is about to begin, too.        *)
QueueInFormat ==
  /\ mode = "LlmWorking" \/ caller = "enter_llm" => Only("2ch")
  /\ (mode = "Kws" /\ ~restarted) \/ caller = "enter_kws" => Only("1ch")
  /\ caller = "enter_llm" => ~restarted
  /\ caller = "enter_kws" => ~restarted

(* The request that the caller waits for is the last one on the line.         *)
LastRequest ==
  \A i \in 1 .. Len(line) :
    /\ line[i].id <= call
    /\ waiting /\ line[i].id = call => i = Len(line) /\ line[i].cmd = Command(caller)

(* The device has done what the answer is about, and behind the answer comes *)
(* nothing of before.                                                      *)
Behind(i) == \A j \in 1 .. Len(wire) :
  i < j /\ Type(wire[j]) = "RecordAudio" => wire[j].bytes \in {device, None}

AnswersLast ==
  \A i \in 1 .. Len(wire) :
    Type(wire[i]) = "Response" =>
      /\ wire[i].Response.id <= call
      /\ waiting /\ wire[i].Response.id = call =>
           /\ line = <<>>
           /\ wire[i].Response.ok => device = After(Command(caller)) /\ Behind(i)

AnswerIsTrue ==
  answer # None =>
    /\ line = <<>>
    /\ answer = "ok" => device = After(Command(caller)) /\ Behind(0)

(* The chunk in the hand of the router will not be a stray one. *)
GoodHand ==
  /\ router \in {"to_kws", "to_aec"} => InFormat
  /\ router = "look" => /\ mode = "LlmWorking" => hand = "2ch"
                        /\ mode = "Kws" => hand = "1ch"

StrayOnce ==
  \/ mode = "Kws" /\ restarted
  \/ stray = 0
  \/ stray = 1 /\ GoodHand

IInv ==
  /\ Types /\ CallerInMode /\ FirstRecording /\ ComesInFormat /\ QueueInFormat
  /\ LastRequest /\ AnswersLast /\ AnswerIsTrue /\ StrayOnce

USE BoundsAssumption

-----------------------------------------------------------------------------
(* Sequences and frames. *)

LEMMA HeadAndTail ==
  ASSUME NEW S, NEW s \in Seq(S), s # <<>>
  PROVE  /\ Len(s) \in Nat \ {0} /\ Head(s) = s[1] /\ s[1] \in S
         /\ Tail(s) \in Seq(S) /\ Len(Tail(s)) = Len(s) - 1
         /\ \A i \in 1 .. Len(Tail(s)) : Tail(s)[i] = s[i + 1] /\ i + 1 \in 1 .. Len(s)
  OBVIOUS

LEMMA Longer ==
  ASSUME NEW S, NEW s \in Seq(S), NEW e \in S
  PROVE  /\ Append(s, e) \in Seq(S) /\ Len(s) \in Nat
         /\ Len(Append(s, e)) = Len(s) + 1
         /\ \A i \in 1 .. Len(s) : Append(s, e)[i] = s[i]
         /\ Append(s, e)[Len(s) + 1] = e
  OBVIOUS

LEMMA FrameKinds ==
  /\ \A f : Type(Record(f)) = "RecordAudio" /\ Record(f).bytes = f
  /\ \A n, ok : /\ Type(Response(n, ok)) = "Response"
                /\ Response(n, ok).Response.id = n /\ Response(n, ok).Response.ok = ok
  BY DEF Type, Record, Response

LEMMA FrameTypes ==
  ASSUME NEW f \in Frame
  PROVE  /\ Type(f) \in {"RecordAudio", "Response"}
         /\ Type(f) = "RecordAudio" => f.bytes \in Format \cup {None}
         /\ Type(f) = "Response" => f.Response.id \in Nat /\ f.Response.ok \in BOOLEAN
  BY FrameKinds DEF Frame

LEMMA FramesMade ==
  /\ \A f \in Format \cup {None} : Record(f) \in Frame
  /\ \A n \in Nat, ok \in BOOLEAN : Response(n, ok) \in Frame
  BY DEF Frame

(* The request that the device looks at. *)
LEMMA FirstRequest ==
  ASSUME line \in Seq(Request), line # <<>>
  PROVE  /\ Head(line) = line[1] /\ line[1].id \in Nat /\ line[1].cmd \in Cmds
         /\ Tail(line) \in Seq(Request)
<1>1. Head(line) = line[1] /\ line[1] \in Request /\ Tail(line) \in Seq(Request)
  BY HeadAndTail
<1> QED BY <1>1 DEF Request

(* What a step may do to the channels: they gain at their end or lose at their *)
(* beginning.                                                              *)
LEMMA AudioOfTail ==
  ASSUME NEW s \in Seq(Frame), s # <<>>, NEW f, Audio(s, f)
  PROVE  Audio(Tail(s), f) /\ (Type(Head(s)) = "RecordAudio" => Head(s).bytes \in {f, None})
  BY HeadAndTail DEF Audio

LEMMA AudioOfLonger ==
  ASSUME NEW s \in Seq(Frame), NEW f, NEW e \in Frame, Audio(s, f),
         Type(e) = "RecordAudio" => e.bytes \in {f, None}
  PROVE  Audio(Append(s, e), f)
<1>1. \A i \in 1 .. Len(Append(s, e)) : i \in 1 .. Len(s) \/ i = Len(s) + 1
  BY Longer
<1> QED BY <1>1, Longer DEF Audio

LEMMA OnlyInTail ==
  ASSUME queue \in Seq(Format), queue # <<>>, NEW f, Only(f), queue' = Tail(queue)
  PROVE  Only(f)' /\ Head(queue) = f
<1>1. /\ Head(queue) = queue[1] /\ Tail(queue) \in Seq(Format) /\ 1 \in DOMAIN queue
      /\ \A i \in DOMAIN Tail(queue) : Tail(queue)[i] = queue[i + 1] /\ i + 1 \in DOMAIN queue
  OBVIOUS
<1> QED BY <1>1 DEF Only

-----------------------------------------------------------------------------
(* The types. *)

LEMMA InitTypes == Init => Types
<1> SUFFICES ASSUME Init PROVE Types
    OBVIOUS
<1>1. queue \in Seq(Format) /\ line \in Seq(Request) /\ wire \in Seq(Frame)
      /\ Len(queue) <= MaxPackets /\ Len(wire) <= MaxWire
    BY DEF Init
<1> QED BY <1>1 DEF Init, Types, TypeOK, Waypoints

LEMMA DeviceTypes ==
  ASSUME Types, Device
  PROVE  Types'
<1> USE DEF Types, TypeOK
<1>1. UNCHANGED <<callv, mode, pipe, worker, caller, stopped, history>>
    BY DEF Device, DeviceObeys, DeviceRefuses, DeviceRecords
<1>2. line' \in Seq(Request) /\ device' \in Format \cup {"off"}
  <2>1. line # <<>> => Tail(line) \in Seq(Request) /\ Head(line).cmd \in Cmds
      BY FirstRequest
  <2>2. \A c \in Cmds : After(c) \in Format \cup {"off"}
      BY DEF Cmds, After, Format
  <2> QED BY <2>1, <2>2 DEF Device, DeviceObeys, DeviceRefuses, DeviceRecords
<1>3. PICK f \in Frame : wire' = Append(wire, f) /\ Len(wire) < MaxWire
  <2>1. CASE DeviceObeys \/ DeviceRefuses
    <3>1. line # <<>> /\ Head(line).id \in Nat
        BY <2>1, FirstRequest DEF DeviceObeys, DeviceRefuses
    <3>2. /\ Response(Head(line).id, TRUE) \in Frame
          /\ Response(Head(line).id, FALSE) \in Frame
        BY <3>1, FramesMade
    <3> QED BY <2>1, <3>2 DEF DeviceObeys, DeviceRefuses
  <2>2. CASE DeviceRecords
    <3>1. Record(device) \in Frame /\ Broken \in Frame
        BY <2>2, FramesMade DEF DeviceRecords, Broken
    <3> QED BY <2>2, <3>1 DEF DeviceRecords
  <2> QED BY <2>1, <2>2 DEF Device
<1>4. wire' \in Seq(Frame) /\ Len(wire') <= MaxWire
    BY <1>3, Longer
<1> QED BY <1>1, <1>2, <1>4 DEF callv, pipe, worker, history

LEMMA ReceiveTypes ==
  ASSUME Types, Receive
  PROVE  Types'
<1> USE DEF Types, TypeOK
<1>1. /\ wire' \in Seq(Frame) /\ Len(wire') <= MaxWire
      /\ Head(wire) \in Frame
    BY HeadAndTail DEF Receive
<1>2. queue' \in Seq(Format) /\ Len(queue') <= MaxPackets
  <2>1. CASE Type(Head(wire)) = "RecordAudio"
    <3>1. Head(wire).bytes \in Format \cup {None}
        BY <1>1, <2>1, FrameTypes
    <3>2. CASE queue' = queue
        BY <3>2
    <3>3. CASE queue' # queue
      <4>1. /\ Head(wire).bytes \in Format
            /\ queue' = Append(IF Len(queue) < MaxPackets THEN queue ELSE Tail(queue),
                              Head(wire).bytes)
          BY <2>1, <3>1, <3>3 DEF Receive, Push
      <4>2. CASE Len(queue) < MaxPackets
          BY <4>1, <4>2, Longer
      <4>3. CASE ~(Len(queue) < MaxPackets)
        <5>1. queue # <<>> /\ Len(queue) = MaxPackets
            BY <4>3
        <5>2. Tail(queue) \in Seq(Format) /\ Len(Tail(queue)) = MaxPackets - 1
            BY <5>1, HeadAndTail
        <5> QED BY <4>1, <4>3, <5>2, Longer
      <4> QED BY <4>2, <4>3
    <3> QED BY <3>2, <3>3
  <2>2. CASE Type(Head(wire)) # "RecordAudio"
      BY <2>2 DEF Receive
  <2> QED BY <2>1, <2>2
<1>3. answer' \in {None, "ok", "failed"} /\ (answer' # None => waiting)
    BY DEF Receive
<1> QED BY <1>1, <1>2, <1>3 DEF Receive, worker, history

LEMMA RouterTypes ==
  ASSUME Types, Router
  PROVE  Types'
<1> USE DEF Types, TypeOK
<1>0. UNCHANGED <<link, callv, mode, open, routing, caller, stopped, restarted, env>>
    BY DEF Router, RouterTest, RouterPop, RouterPopNothing, RouterLook, RouterDeliver, pipe,
           history
<1>1. /\ router' \in {"off", "test", "pop", "look", "to_kws", "to_aec", "done"}
      /\ stray' \in Nat
    BY DEF Router, RouterTest, RouterPop, RouterPopNothing, RouterLook, RouterDeliver, history
<1>2. queue' \in Seq(Format) /\ Len(queue') <= MaxPackets /\ hand' \in Format \cup {None}
  <2>1. CASE RouterPop
    <3>1. /\ Head(queue) \in Format /\ Tail(queue) \in Seq(Format)
          /\ Len(Tail(queue)) <= MaxPackets
        BY <2>1, HeadAndTail DEF RouterPop
    <3> QED BY <2>1, <3>1 DEF RouterPop
  <2>2. CASE ~RouterPop
    <3>1. queue' = queue /\ (hand' = hand \/ hand' = None)
        BY <2>2 DEF Router, RouterTest, RouterPopNothing, RouterLook, RouterDeliver, pipe, worker
    <3> QED BY <3>1
  <2> QED BY <2>1, <2>2
<1> QED BY <1>0, <1>1, <1>2 DEF link, callv

(* What the caller does to the rest. *)
LEMMA CallerTypes ==
  ASSUME Types, Caller \/ Wishes
  PROVE  Types'
<1> USE DEF Types, TypeOK
<1>1. CASE Start
    BY <1>1 DEF Start, Enter, link, callv, Waypoints, Places, At
<1>2. CASE Ask
  <2>1. [id |-> call + 1, cmd |-> Command(caller)] \in Request
    <3>1. Command(caller) \in Cmds /\ call + 1 \in Nat
        BY <1>2 DEF Ask, Cmds, Command, Places
    <3> QED BY <3>1 DEF Request
  <2>2. line' \in Seq(Request) /\ call' \in Nat /\ waiting' = TRUE /\ caller' \in Places
      BY <1>2, <2>1, Longer DEF Ask
  <2>3. answer' = None
      BY <1>2 DEF Ask
  <2> QED BY <1>2, <2>2, <2>3 DEF Ask, pipe, worker, history
<1>3. CASE \E ok \in BOOLEAN : Returns(ok)
  <2>1. PICK ok \in BOOLEAN : Returns(ok)
      BY <1>3
  <2>2. waiting /\ waiting' = FALSE /\ answer' = None /\ caller' \in Waypoints
      BY <2>1 DEF Returns, NextPlace, Places, Waypoints
  <2>3. stopped' \in BOOLEAN
      BY <2>1, Zenon DEF Returns
  <2> QED BY <2>1, <2>2, <2>3, ZenonT(40) DEF Returns, link, pipe, worker, history
<1>4. CASE ClearPipe
  <2>1. caller' \in Waypoints /\ ~waiting /\ queue' = <<>> /\ restarted' = FALSE
      BY <1>4 DEF ClearPipe, Clear, Waypoints, Places
  <2>2. queue' \in Seq(Format) /\ Len(queue') <= MaxPackets
      BY <2>1
  <2> QED BY <1>4, <2>1, <2>2, ZenonT(40) DEF ClearPipe, link, callv, worker
<1>5. CASE ForceEnter
  <2>1. /\ caller' \in Waypoints /\ ~waiting /\ stray' = 0
        /\ mode' \in {"LlmWorking", "Kws", "Fault", "Stopped"}
      BY <1>5 DEF ForceEnter, Enter, Waypoints, Places
  <2>2. restarted' \in BOOLEAN
      BY <1>5 DEF ForceEnter
  <2> QED BY <1>5, <2>1, <2>2 DEF ForceEnter, link, callv, worker, pipe
<1>6. CASE Shut
    BY <1>6, ZenonT(40) DEF Shut, At, link, callv, pipe, history, Waypoints
<1>7. CASE ClosePipe
  <2>1. queue' \in Seq(Format) /\ Len(queue') <= MaxPackets
      BY <1>7 DEF ClosePipe, Clear
  <2> QED BY <1>7, <2>1, ZenonT(40) DEF ClosePipe, At, link, callv, worker, history, Waypoints
<1>8. CASE Join
    BY <1>8 DEF Join, Enter, At, link, callv, pipe, worker, Waypoints
<1>9. CASE BeginLlm
    BY <1>9 DEF BeginLlm, Enter, At, link, callv, pipe, worker, Waypoints, Places
<1>10. CASE StopBegins
    BY <1>10 DEF StopBegins, At, link, callv, pipe, worker, history, Waypoints, Places
<1> QED BY <1>1, <1>2, <1>3, <1>4, <1>5, <1>6, <1>7, <1>8, <1>9, <1>10
        DEF Caller, Wishes, Answered, TimesOut

LEMMA NextTypes == Types /\ [Next]_vars => Types'
<1> SUFFICES ASSUME Types, [Next]_vars PROVE Types'
    OBVIOUS
<1>1. CASE UNCHANGED vars
    BY <1>1 DEF vars, link, callv, pipe, worker, history, Types, TypeOK
<1> QED BY <1>1, DeviceTypes, ReceiveTypes, RouterTypes, CallerTypes DEF Next

-----------------------------------------------------------------------------
(* Where the caller is in which mode. *)

LEMMA CallerInModeKept ==
  ASSUME Types, CallerInMode, Next
  PROVE  CallerInMode'
<1> USE DEF CallerInMode
<1>1. CASE UNCHANGED <<caller, mode>>
    BY <1>1
<1>2. CASE Device \/ Receive \/ Router \/ Ask \/ Shut \/ ClosePipe
  <2>1. mode' = mode /\ (caller' = caller \/ Shut \/ ClosePipe)
      BY <1>2 DEF Device, DeviceObeys, DeviceRefuses, DeviceRecords, Receive, Router, RouterTest,
                  RouterPop, RouterPopNothing, RouterLook, RouterDeliver, Ask, Shut, ClosePipe
  <2> QED BY <1>1, <2>1 DEF Shut, ClosePipe, At
<1>3. CASE Start \/ Join \/ BeginLlm \/ StopBegins
    BY <1>3 DEF Start, Join, BeginLlm, StopBegins, Enter, At
<1>4. CASE \E ok \in BOOLEAN : Returns(ok)
    BY <1>4 DEF Returns, NextPlace, Types, Places
<1>5. CASE ClearPipe
    BY <1>5 DEF ClearPipe
<1>6. CASE ForceEnter
    BY <1>6 DEF ForceEnter, Enter
<1> QED BY <1>2, <1>3, <1>4, <1>5, <1>6 DEF Next, Caller, Wishes, Answered, TimesOut

-----------------------------------------------------------------------------
(* What is on its way. *)

LEMMA DeviceKeeps ==
  ASSUME Types, Device, NEW f \in Format, NEW c \in Cmds, After(c) \in {f, "off"}, Coming(f, c)
  PROVE  Coming(f, c)'
<1> USE DEF Types, TypeOK
<1>1. CASE DeviceObeys \/ DeviceRefuses
  <2>1. /\ line # <<>> /\ line' = Tail(line) /\ Head(line).cmd = c /\ Head(line).id \in Nat
        /\ \A i \in 1 .. Len(line') : line'[i].cmd = c
    <3>1. line # <<>> /\ line' = Tail(line)
        BY <1>1 DEF DeviceObeys, DeviceRefuses
    <3> QED BY <3>1, HeadAndTail, FirstRequest DEF Coming
  <2>2. device' \in {f, "off"}
      BY <1>1, <2>1 DEF DeviceObeys, DeviceRefuses, Coming
  <2>3. PICK ok \in BOOLEAN : wire' = Append(wire, Response(Head(line).id, ok))
      BY <1>1 DEF DeviceObeys, DeviceRefuses
  <2>4. Audio(wire', f)
      BY <2>1, <2>3, AudioOfLonger, FramesMade, FrameKinds DEF Coming
  <2> QED BY <2>1, <2>2, <2>4 DEF Coming, Audio
<1>2. CASE DeviceRecords
  <2>1. PICK b \in {device, None} : wire' = Append(wire, Record(b))
      BY <1>2 DEF DeviceRecords, Broken
  <2>2. device \in Format /\ UNCHANGED <<device, line>>
      BY <1>2 DEF DeviceRecords
  <2>3. b \in {f, None}
      BY <2>1, <2>2 DEF Coming, Format
  <2>4. Audio(wire', f)
      BY <2>1, <2>2, <2>3, AudioOfLonger, FramesMade, FrameKinds DEF Coming
  <2> QED BY <2>2, <2>4 DEF Coming, Audio
<1> QED BY <1>1, <1>2 DEF Device

LEMMA ReceiveKeeps ==
  ASSUME Types, Receive, NEW f \in Format, Audio(wire, f)
  PROVE  /\ Audio(wire', f)
         /\ Only(f) => Only(f)'
         /\ \A c : Coming(f, c) => Coming(f, c)'
<1> USE DEF Types, TypeOK
<1>1. /\ wire # <<>> /\ wire' = Tail(wire) /\ UNCHANGED <<device, line>>
      /\ Head(wire) \in Frame
    BY HeadAndTail DEF Receive
<1>2. Audio(wire', f) /\ (Type(Head(wire)) = "RecordAudio" => Head(wire).bytes \in {f, None})
    BY <1>1, AudioOfTail
<1>3. ASSUME Only(f) PROVE Only(f)'
  <2>1. CASE queue' = queue
      BY <1>3, <2>1 DEF Only
  <2>2. CASE queue' # queue
    <3>1. queue' = Append(IF Len(queue) < MaxPackets THEN queue ELSE Tail(queue), f)
        BY <1>2, <2>2 DEF Receive, Push
    <3>2. CASE Len(queue) < MaxPackets
        BY <1>3, <3>1, <3>2 DEF Only
    <3>3. CASE ~(Len(queue) < MaxPackets)
      <4>1. queue # <<>>
          BY <3>3
      <4>2. queue' = Append(Tail(queue), f)
          BY <3>1, <3>3
      <4>3. /\ \A i \in DOMAIN Tail(queue) : Tail(queue)[i] = f
            /\ Tail(queue) \in Seq(Format)
        <5>1. \A i \in DOMAIN Tail(queue) : Tail(queue)[i] = queue[i + 1] /\ i + 1 \in DOMAIN queue
            BY <4>1
        <5> QED BY <1>3, <4>1, <5>1, HeadAndTail DEF Only
      <4> QED BY <4>2, <4>3 DEF Only
    <3> QED BY <3>2, <3>3
  <2> QED BY <2>1, <2>2
<1> QED BY <1>1, <1>2, <1>3 DEF Coming, Audio

(* What does not touch the link. *)
LEMMA LinkStays ==
  ASSUME Next, ~Device, ~Receive
  PROVE  /\ UNCHANGED <<device, wire>>
         /\ ~Ask => UNCHANGED line
         /\ UNCHANGED line => \A f, c : Coming(f, c) => Coming(f, c)'
<1>1. UNCHANGED <<device, wire>> /\ (~Ask => UNCHANGED line)
    BY DEF Next, Router, RouterTest, RouterPop, RouterPopNothing, RouterLook, RouterDeliver,
           Caller, Wishes, Start, Ask, Answered, TimesOut, Returns, BeginLlm, ClearPipe,
           ForceEnter, StopBegins, Shut, ClosePipe, Join, link
<1> QED BY <1>1 DEF Coming, Audio

(* Only asking makes the line longer. *)
LEMMA AskKeeps ==
  ASSUME Types, Ask, NEW f \in Format, Coming(f, Command(caller))
  PROVE  Coming(f, Command(caller))'
<1> USE DEF Types, TypeOK
<1>1. [id |-> call + 1, cmd |-> Command(caller)] \in Request
  <2>1. Command(caller) \in Cmds /\ call + 1 \in Nat
      BY DEF Ask, Cmds, Command, Places
  <2> QED BY <2>1 DEF Request
<1>2. line' = Append(line, [id |-> call + 1, cmd |-> Command(caller)])
    BY DEF Ask
<1>3. \A i \in 1 .. Len(line') : i \in 1 .. Len(line) \/ i = Len(line) + 1
    BY <1>1, <1>2, Longer
<1>4. \A i \in 1 .. Len(line') : line'[i].cmd = Command(caller)
    BY <1>1, <1>2, <1>3, Longer DEF Coming
<1>5. UNCHANGED <<device, wire, caller>>
    BY DEF Ask
<1> QED BY <1>4, <1>5 DEF Coming, Audio, Command

LEMMA RouterOnly ==
  ASSUME Router
  PROVE  UNCHANGED <<device, line, wire, call, waiting, answer, mode, caller, restarted, open>>
BY DEF Router, RouterTest, RouterPop, RouterPopNothing, RouterLook, RouterDeliver, link, callv,
       pipe, history

LEMMA DeviceOnly ==
  ASSUME Device
  PROVE  /\ UNCHANGED <<call, waiting, answer, mode, queue, open, routing, router, hand, caller>>
         /\ UNCHANGED <<restarted, stray>>
BY DEF Device, DeviceObeys, DeviceRefuses, DeviceRecords, callv, pipe, worker, history

LEMMA RouterTakes ==
  ASSUME Types, Router, NEW f \in Format, Only(f)
  PROVE  Only(f)'
<1>1. CASE RouterPop
    BY <1>1, OnlyInTail DEF RouterPop, Types, TypeOK
<1>2. CASE ~RouterPop
  <2>1. UNCHANGED queue
      BY <1>2 DEF Router, RouterTest, RouterPopNothing, RouterLook, RouterDeliver, pipe
  <2> QED BY <2>1 DEF Only
<1> QED BY <1>1, <1>2

-----------------------------------------------------------------------------
(* What is on its way comes in the format of the mode. *)

LEMMA FirstRecordingKept ==
  ASSUME Types, FirstRecording, Next
  PROVE  FirstRecording'
<1>0. After("fast_recording") = "1ch" /\ "1ch" \in Format /\ "fast_recording" \in Cmds
    BY DEF After, Format, Cmds
<1> DEFINE Good == Coming("1ch", "fast_recording") /\ Only("1ch") /\ ~restarted
<1> SUFFICES ASSUME caller' \in {"new", "record"} PROVE Good'
    BY DEF FirstRecording
<1> HIDE DEF Good
<1>1. CASE Device
  <2>1. Good
      BY <1>1, DeviceOnly DEF FirstRecording, Good
  <2> QED BY <1>0, <1>1, <2>1, DeviceKeeps, DeviceOnly DEF Good, Only
<1>2. CASE Receive
  <2>1. Good /\ UNCHANGED restarted
      BY <1>2 DEF Receive, FirstRecording, Good, history
  <2> QED BY <1>0, <1>2, <2>1, ReceiveKeeps DEF Good, Coming
<1>3. CASE Router
  <2>1. Good
      BY <1>3, RouterOnly DEF FirstRecording, Good
  <2> QED BY <1>0, <1>3, <2>1, RouterOnly, RouterTakes DEF Good, Coming, Audio
<1>4. CASE Ask
  <2>1. caller = "record" /\ Good /\ UNCHANGED <<queue, restarted>>
      BY <1>4 DEF Ask, Places, FirstRecording, Good, pipe, history
  <2>2. Command(caller) = "fast_recording" /\ caller' = caller
      BY <1>4, <2>1 DEF Command, Ask
  <2> QED BY <1>0, <1>4, <2>1, <2>2, AskKeeps DEF Good, Only
<1>5. CASE Start
    BY <1>5 DEF Start, At, FirstRecording, Good, link, Coming, Audio, Only
<1>6. CASE \E ok \in BOOLEAN : Returns(ok)
  <2>1. caller' \notin {"new", "record"}
      BY <1>6 DEF Returns, NextPlace, Types, Places
  <2> QED BY <2>1
<1>7. CASE BeginLlm \/ ClearPipe \/ ForceEnter \/ StopBegins \/ Shut \/ ClosePipe \/ Join
    BY <1>7 DEF BeginLlm, ClearPipe, ForceEnter, StopBegins, Shut, ClosePipe, Join
<1> QED BY <1>1, <1>2, <1>3, <1>4, <1>5, <1>6, <1>7 DEF Next, Caller, Wishes, Answered, TimesOut

(* The answer that makes the caller go on to another format shows that the   *)
(* device has switched, and that nothing of before is on its way.           *)
LEMMA AnswerMeansSwitched ==
  ASSUME Types, AnswerIsTrue, answer = "ok"
  PROVE  \A c : device = After(Command(caller)) /\ Coming(device, c)
<1>1. line = <<>> /\ device = After(Command(caller)) /\ Behind(0)
    BY DEF AnswerIsTrue, None
<1>2. Audio(wire, device)
    BY <1>1 DEF Behind, Audio
<1> QED BY <1>1, <1>2 DEF Coming

LEMMA ComesInFormatKept ==
  ASSUME Types, CallerInMode, ComesInFormat, AnswerIsTrue, Next
  PROVE  ComesInFormat'
<1>0. /\ After("stop_recording") = "off" /\ "stop_recording" \in Cmds
      /\ "1ch" \in Format /\ "2ch" \in Format
    BY DEF After, Format, Cmds
<1>1. CASE Device
  <2>1. \A f \in Format : Comes(f) => Comes(f)'
      BY <1>0, <1>1, DeviceKeeps DEF Comes
  <2> QED BY <1>0, <1>1, <2>1, DeviceOnly DEF ComesInFormat
<1>2. CASE Receive
  <2>1. \A f \in Format : Comes(f) => Comes(f)'
      BY <1>2, ReceiveKeeps DEF Comes, Coming
  <2>2. UNCHANGED <<mode, caller>>
      BY <1>2 DEF Receive
  <2> QED BY <1>0, <2>1, <2>2 DEF ComesInFormat
<1>3. CASE Ask
  <2>1. ~Device /\ ~Receive /\ UNCHANGED <<mode, caller>> /\ caller \in Places
      BY <1>3 DEF Ask, Device, DeviceObeys, DeviceRefuses, DeviceRecords, Receive, callv, Types, TypeOK
  <2>2. CASE mode \in {"Kws", "LlmWorking"}
    <3>1. Command(caller) = "stop_recording" /\ UNCHANGED Command(caller)
        BY <2>1, <2>2 DEF CallerInMode, Places, Command
    <3>2. \A f \in Format : Comes(f) => Comes(f)'
        BY <1>3, <3>1, AskKeeps DEF Comes
    <3> QED BY <1>0, <2>1, <3>2 DEF ComesInFormat, Places
  <2>3. CASE mode \notin {"Kws", "LlmWorking"}
      BY <2>1, <2>3 DEF ComesInFormat, Places
  <2> QED BY <2>2, <2>3
<1>4. CASE ~Device /\ ~Receive /\ ~Ask
  <2>1. \A f : Comes(f) => Comes(f)'
      BY <1>4, LinkStays DEF Comes
  <2>2. CASE Router
      BY <2>1, <2>2, RouterOnly DEF ComesInFormat
  <2>3. CASE Start \/ BeginLlm \/ Join
      BY <2>3 DEF Start, BeginLlm, Join, Enter, ComesInFormat
  <2>4. CASE Answered
    <3>1. CASE caller' \in {"clear_llm", "clear_kws", "enter_kws", "reenter"}
      <4>1. /\ answer = "ok"
            /\ \/ caller' = "clear_llm" /\ caller = "llm_start"
               \/ caller' = "clear_kws" /\ caller = "llm_stop"
               \/ caller' = "enter_kws" /\ caller = "record"
               \/ caller' = "reenter" /\ caller = "rerecord"
          BY <2>4, <3>1 DEF Answered, Returns, NextPlace, Types, Places
      <4>2. /\ After(Command(caller)) = IF caller = "llm_start" THEN "2ch" ELSE "1ch"
            /\ mode' = mode /\ mode \notin {"Kws", "LlmWorking"}
          BY <2>4, <4>1 DEF Command, After, Answered, Returns, CallerInMode
      <4>3. IF caller = "llm_start" THEN Comes("2ch") ELSE Comes("1ch")
          BY <4>1, <4>2, AnswerMeansSwitched DEF Comes
      <4> QED BY <2>1, <4>1, <4>2, <4>3 DEF ComesInFormat
    <3>2. CASE caller' \notin {"clear_llm", "clear_kws", "enter_kws", "reenter"}
      <4>1. mode' = mode /\ caller' # "enter_llm"
          BY <2>4 DEF Answered, Returns, NextPlace, Types, Places
      <4> QED BY <2>1, <3>2, <4>1 DEF ComesInFormat
    <3> QED BY <3>1, <3>2
  <2>5. CASE TimesOut
    <3>1. mode' = mode /\ caller' \in {"stop", "fault", "rerecord", "give_up", "shut"}
        BY <2>5 DEF TimesOut, Returns, NextPlace, Types, Places
    <3> QED BY <2>1, <3>1 DEF ComesInFormat
  <2>6. CASE ClearPipe
      BY <2>1, <2>6 DEF ClearPipe, ComesInFormat
  <2>7. CASE ForceEnter
      BY <2>1, <2>7 DEF ForceEnter, Enter, ComesInFormat
  <2>8. CASE StopBegins \/ Shut \/ ClosePipe
      BY <2>1, <2>8 DEF StopBegins, Shut, ClosePipe, ComesInFormat
  <2> QED BY <1>4, <2>2, <2>3, <2>4, <2>5, <2>6, <2>7, <2>8 DEF Next, Caller, Wishes
<1> QED BY <1>1, <1>2, <1>3, <1>4

-----------------------------------------------------------------------------
(* The queue holds the format of the mode. *)

LEMMA QueueInFormatKept ==
  ASSUME Types, CallerInMode, FirstRecording, ComesInFormat, QueueInFormat, Next
  PROVE  QueueInFormat'
<1>0. "1ch" \in Format /\ "2ch" \in Format
    BY DEF Format
<1>1. CASE Device
    BY <1>1, DeviceOnly DEF QueueInFormat, Only
<1>2. CASE Receive
  <2>1. UNCHANGED <<mode, caller, restarted>>
      BY <1>2 DEF Receive, history
  <2>2. /\ mode = "LlmWorking" \/ caller = "enter_llm" => Audio(wire, "2ch")
        /\ mode = "Kws" \/ caller = "enter_kws" => Audio(wire, "1ch")
      BY DEF ComesInFormat, Comes, Coming
  <2> QED BY <1>0, <1>2, <2>1, <2>2, ReceiveKeeps DEF QueueInFormat
<1>3. CASE Router
    BY <1>0, <1>3, RouterOnly, RouterTakes DEF QueueInFormat
<1>4. CASE Ask \/ Shut \/ StopBegins
    BY <1>4 DEF Ask, Shut, StopBegins, pipe, history, QueueInFormat, Only
<1>5. CASE Start \/ BeginLlm \/ Join
    BY <1>5 DEF Start, BeginLlm, Join, Enter, QueueInFormat
<1>6. CASE \E ok \in BOOLEAN : Returns(ok)
  <2>1. /\ UNCHANGED <<mode, queue, restarted>> /\ caller' # "enter_llm"
        /\ caller' = "enter_kws" => caller = "record"
      BY <1>6 DEF Returns, NextPlace, Types, Places, pipe, history
  <2> QED BY <2>1 DEF QueueInFormat, FirstRecording, Only
<1>7. CASE ClearPipe \/ ClosePipe
  <2>1. queue' = <<>> /\ (restarted' = FALSE \/ (restarted' = restarted /\ caller' = "join"))
      BY <1>7 DEF ClearPipe, ClosePipe, Clear, history
  <2>2. \A f : Only(f)'
      BY <2>1 DEF Only
  <2> QED BY <2>1, <2>2 DEF QueueInFormat
<1>8. CASE ForceEnter
    BY <1>8 DEF ForceEnter, Enter, pipe, QueueInFormat, Only
<1> QED BY <1>1, <1>2, <1>3, <1>4, <1>5, <1>6, <1>7, <1>8
        DEF Next, Caller, Wishes, Answered, TimesOut

-----------------------------------------------------------------------------
(* Requests and answers. *)

(* While the caller waits, nothing but its return moves it.                  *)
LEMMA WaitsInPlace ==
  ASSUME Next, ~Ask, ~(\E ok \in BOOLEAN : Returns(ok))
  PROVE  UNCHANGED <<waiting, call>> /\ (waiting => caller' = caller)
<1>1. UNCHANGED <<waiting, call>>
    BY RouterOnly, DeviceOnly DEF Next, Receive, Caller, Wishes, Start, Answered, TimesOut,
       BeginLlm, ClearPipe, ForceEnter, StopBegins, Shut, ClosePipe, Join, callv
<1>2. waiting => caller' = caller
    BY RouterOnly, DeviceOnly DEF Next, Receive, Caller, Wishes, Start, Answered, TimesOut,
       BeginLlm, ClearPipe, ForceEnter, StopBegins, Shut, ClosePipe, Join, At
<1> QED BY <1>1, <1>2

LEMMA LastRequestKept ==
  ASSUME Types, LastRequest, Next
  PROVE  LastRequest'
<1> USE DEF Types, TypeOK
<1>1. CASE Ask
  <2>1. [id |-> call + 1, cmd |-> Command(caller)] \in Request
    <3>1. Command(caller) \in Cmds /\ call + 1 \in Nat
        BY <1>1 DEF Ask, Cmds, Command, Places
    <3> QED BY <3>1 DEF Request
  <2>2. line' = Append(line, [id |-> call + 1, cmd |-> Command(caller)])
        /\ call' = call + 1 /\ UNCHANGED Command(caller)
      BY <1>1 DEF Ask, Command
  <2>3. \A i \in 1 .. Len(line) : line'[i] = line[i] /\ line[i].id <= call /\ line[i].id \in Nat
    <3>1. \A i \in 1 .. Len(line) : line[i] \in Request
        OBVIOUS
    <3> QED BY <2>1, <2>2, <3>1, Longer DEF LastRequest, Request
  <2>4. /\ Len(line') = Len(line) + 1 /\ Len(line) \in Nat
        /\ line'[Len(line')] = [id |-> call + 1, cmd |-> Command(caller)]
      BY <2>1, <2>2, Longer
  <2>5. \A i \in 1 .. Len(line') : i \in 1 .. Len(line) \/ i = Len(line')
      BY <2>4
  <2> QED BY <2>2, <2>3, <2>4, <2>5 DEF LastRequest
<1>2. CASE \E ok \in BOOLEAN : Returns(ok)
    BY <1>2, Zenon DEF Returns, link, LastRequest
<1>3. CASE ~Ask /\ ~(\E ok \in BOOLEAN : Returns(ok))
  <2>1. UNCHANGED <<waiting, call>> /\ (waiting => UNCHANGED Command(caller))
      BY <1>3, WaitsInPlace DEF Command
  <2>2. line' = line \/ (line # <<>> /\ line' = Tail(line))
      BY <1>3, LinkStays DEF Device, DeviceObeys, DeviceRefuses, DeviceRecords, Receive
  <2>3. CASE line' = line
      BY <2>1, <2>3 DEF LastRequest
  <2>4. CASE line # <<>> /\ line' = Tail(line)
      BY <2>1, <2>4, HeadAndTail DEF LastRequest
  <2> QED BY <2>2, <2>3, <2>4
<1> QED BY <1>1, <1>2, <1>3

(* A frame of audio from the device comes behind every answer.               *)
LEMMA BehindStays ==
  ASSUME Types, NEW b \in {device, None}, wire' = Append(wire, Record(b)), UNCHANGED device,
         b \in Format \cup {None}, NEW i \in Nat, Behind(i)
  PROVE  Behind(i)'
<1>1. Record(b) \in Frame /\ Record(b).bytes = b
    BY FramesMade, FrameKinds
<1>2. /\ Len(wire') = Len(wire) + 1 /\ wire'[Len(wire')].bytes = b
      /\ \A j \in 1 .. Len(wire) : wire'[j] = wire[j]
      /\ \A j \in 1 .. Len(wire') : j \in 1 .. Len(wire) \/ j = Len(wire')
    BY <1>1, Longer DEF Types
<1> QED BY <1>2 DEF Behind

LEMMA BehindInTail ==
  ASSUME Types, wire # <<>>, wire' = Tail(wire), UNCHANGED device,
         NEW i \in Nat, Behind(i + 1) \/ (i = 0 /\ Behind(0))
  PROVE  Behind(i)'
BY HeadAndTail DEF Behind, Types

LEMMA AnswersLastKept ==
  ASSUME Types, LastRequest, AnswersLast, Next
  PROVE  AnswersLast'
<1> USE DEF Types, TypeOK
<1>1. CASE DeviceObeys \/ DeviceRefuses
  <2>1. PICK ok \in BOOLEAN : /\ wire' = Append(wire, Response(Head(line).id, ok))
                              /\ ok => device' = After(Head(line).cmd)
      BY <1>1 DEF DeviceObeys, DeviceRefuses
  <2>2. line # <<>> /\ line' = Tail(line) /\ UNCHANGED <<waiting, call, caller>>
      BY <1>1, DeviceOnly DEF DeviceObeys, DeviceRefuses, Device
  <2>3. Head(line) = line[1] /\ line[1].id \in Nat /\ 1 \in 1 .. Len(line)
      BY <2>2, FirstRequest, HeadAndTail
  <2>4. Response(Head(line).id, ok) \in Frame
      BY <2>3, FramesMade
  <2>5. /\ Len(wire') = Len(wire) + 1
        /\ wire'[Len(wire')] = Response(line[1].id, ok)
        /\ \A j \in 1 .. Len(wire) : wire'[j] = wire[j]
        /\ \A j \in 1 .. Len(wire') : j \in 1 .. Len(wire) \/ j = Len(wire')
      BY <2>1, <2>3, <2>4, Longer
  <2>6. line[1].id <= call
      BY <2>3 DEF LastRequest
  <2>7. ASSUME waiting, line[1].id = call
        PROVE  line' = <<>> /\ (ok => device' = After(Command(caller)))
    <3>1. Len(line) = 1 /\ line[1].cmd = Command(caller)
        BY <2>3, <2>7 DEF LastRequest
    <3>2. line' = <<>>
        BY <2>2, <3>1
    <3> QED BY <2>1, <2>3, <3>1, <3>2
  <2>8. \A i \in 1 .. Len(wire') : i = Len(wire') => Behind(i)'
      BY <2>5, Longer DEF Behind
  <2>9. UNCHANGED Command(caller)
      BY <2>2 DEF Command
  <2>10. \A i \in 1 .. Len(wire) : Type(wire[i]) = "Response" =>
            wire[i].Response.id <= call /\ ~(waiting /\ wire[i].Response.id = call)
      BY <2>2 DEF AnswersLast
  <2>11. wire'[Len(wire')].Response.id = line[1].id /\ wire'[Len(wire')].Response.ok = ok
      BY <2>5, FrameKinds
  <2> SUFFICES ASSUME NEW i \in 1 .. Len(wire'), Type(wire'[i]) = "Response"
               PROVE  /\ wire'[i].Response.id <= call
                      /\ waiting /\ wire'[i].Response.id = call =>
                           /\ line' = <<>>
                           /\ wire'[i].Response.ok => /\ device' = After(Command(caller))
                                                      /\ Behind(i)'
      BY <2>2, <2>9 DEF AnswersLast
  <2>12. CASE i \in 1 .. Len(wire)
      BY <2>5, <2>10, <2>12
  <2>13. CASE i = Len(wire')
      BY <2>6, <2>7, <2>8, <2>11, <2>13
  <2> QED BY <2>5, <2>12, <2>13
<1>2. CASE DeviceRecords
  <2>1. PICK b \in {device, None} : wire' = Append(wire, Record(b))
      BY <1>2 DEF DeviceRecords, Broken
  <2>2. /\ b \in Format \cup {None}
        /\ UNCHANGED <<device, line, waiting, call, caller>> /\ UNCHANGED Command(caller)
      BY <1>2, <2>1 DEF DeviceRecords, callv, Command
  <2>3. Record(b) \in Frame /\ Type(Record(b)) # "Response"
      BY <2>2, FramesMade, FrameKinds
  <2>4. /\ Len(wire') = Len(wire) + 1 /\ Type(wire'[Len(wire')]) # "Response"
        /\ \A j \in 1 .. Len(wire) : wire'[j] = wire[j]
        /\ \A j \in 1 .. Len(wire') : j \in 1 .. Len(wire) \/ j = Len(wire')
      BY <2>1, <2>3, Longer
  <2>5. \A i \in Nat : Behind(i) => Behind(i)'
      BY <2>1, <2>2, BehindStays
  <2> QED BY <2>2, <2>4, <2>5, SMTT(20) DEF AnswersLast
<1>3. CASE Receive
  <2>1. /\ wire # <<>> /\ wire' = Tail(wire)
        /\ UNCHANGED <<device, line, waiting, call, caller>> /\ UNCHANGED Command(caller)
      BY <1>3 DEF Receive, Command
  <2>2. \A i \in 1 .. Len(wire') : Behind(i + 1) => Behind(i)'
      BY <2>1, BehindInTail
  <2>3. \A i \in 1 .. Len(wire') : wire'[i] = wire[i + 1] /\ i + 1 \in 1 .. Len(wire)
      BY <2>1, HeadAndTail
  <2> QED BY <2>1, <2>2, <2>3 DEF AnswersLast
<1>4. CASE Ask
  <2>1. wire' = wire /\ call' = call + 1
      BY <1>4 DEF Ask
  <2>2. \A i \in 1 .. Len(wire) : Type(wire[i]) = "Response" =>
            wire[i].Response.id \in Nat /\ wire[i].Response.id <= call
      BY FrameTypes DEF AnswersLast
  <2> QED BY <2>1, <2>2 DEF AnswersLast
<1>5. CASE \E ok \in BOOLEAN : Returns(ok)
  <2>1. UNCHANGED <<wire, call>> /\ ~waiting'
      BY <1>5 DEF Returns, link
  <2> QED BY <2>1 DEF AnswersLast
<1>6. CASE ~Device /\ ~Receive /\ ~Ask /\ ~(\E ok \in BOOLEAN : Returns(ok))
  <2>1. UNCHANGED <<device, wire, line, waiting, call>> /\ (waiting => UNCHANGED Command(caller))
      BY <1>6, LinkStays, WaitsInPlace DEF Command
  <2>2. \A i : Behind(i) => Behind(i)'
      BY <2>1 DEF Behind
  <2> QED BY <2>1, <2>2 DEF AnswersLast
<1> QED BY <1>1, <1>2, <1>3, <1>4, <1>5, <1>6 DEF Device

LEMMA AnswerIsTrueKept ==
  ASSUME Types, AnswersLast, AnswerIsTrue, Next
  PROVE  AnswerIsTrue'
<1> USE DEF Types, TypeOK
<1>1. CASE DeviceObeys \/ DeviceRefuses
  <2>1. line # <<>> /\ answer' = answer
      BY <1>1 DEF DeviceObeys, DeviceRefuses, callv
  <2> QED BY <2>1 DEF AnswerIsTrue
<1>2. CASE DeviceRecords
  <2>1. PICK b \in {device, None} : wire' = Append(wire, Record(b))
      BY <1>2 DEF DeviceRecords, Broken
  <2>2. /\ b \in Format \cup {None}
        /\ UNCHANGED <<device, line, answer, caller>> /\ UNCHANGED Command(caller)
      BY <1>2, <2>1 DEF DeviceRecords, callv, Command
  <2>3. Behind(0) => Behind(0)'
      BY <2>1, <2>2, BehindStays
  <2> QED BY <2>2, <2>3 DEF AnswerIsTrue
<1>3. CASE Receive
  <2>1. /\ wire # <<>> /\ wire' = Tail(wire)
        /\ UNCHANGED <<device, line, waiting, call, caller>> /\ UNCHANGED Command(caller)
      BY <1>3 DEF Receive, Command
  <2>2. Behind(1) \/ Behind(0) => Behind(0)'
      BY <2>1, BehindInTail
  <2>3. CASE answer' = answer
      BY <2>1, <2>2, <2>3 DEF AnswerIsTrue
  <2>4. CASE answer' # answer
    <3>1. /\ Type(Head(wire)) = "Response" /\ waiting /\ Head(wire).Response.id = call
          /\ answer' = IF Head(wire).Response.ok THEN "ok" ELSE "failed"
        BY <1>3, <2>4 DEF Receive
    <3>2. Head(wire) = wire[1] /\ 1 \in 1 .. Len(wire)
        BY <2>1, HeadAndTail
    <3>3. line = <<>> /\ (wire[1].Response.ok => device = After(Command(caller)) /\ Behind(1))
        BY <3>1, <3>2 DEF AnswersLast
    <3>4. answer' = "ok" => wire[1].Response.ok
        BY <3>1, <3>2
    <3> QED BY <2>1, <2>2, <3>3, <3>4 DEF AnswerIsTrue
  <2> QED BY <2>3, <2>4
<1>4. CASE Ask \/ \E ok \in BOOLEAN : Returns(ok)
  <2>1. answer' = None
      BY <1>4 DEF Ask, Returns
  <2> QED BY <2>1 DEF AnswerIsTrue
<1>5. CASE ~Device /\ ~Receive /\ ~Ask /\ ~(\E ok \in BOOLEAN : Returns(ok))
  <2>1. UNCHANGED <<device, wire, line>> /\ (waiting => UNCHANGED Command(caller))
      BY <1>5, LinkStays, WaitsInPlace DEF Command
  <2>2. answer' = answer
      BY <1>5, RouterOnly DEF Next, Caller, Wishes, Start, Answered, TimesOut,
         BeginLlm, ClearPipe, ForceEnter, StopBegins, Shut, ClosePipe, Join, callv
  <2>3. \A i : Behind(i) => Behind(i)'
      BY <2>1 DEF Behind
  <2> QED BY <2>1, <2>2, <2>3 DEF AnswerIsTrue
<1> QED BY <1>1, <1>2, <1>3, <1>4, <1>5 DEF Device

-----------------------------------------------------------------------------
(* What the router delivers. *)

LEMMA StrayOnceKept ==
  ASSUME Types, CallerInMode, QueueInFormat, StrayOnce, Next
  PROVE  StrayOnce'
<1>1. CASE UNCHANGED <<mode, restarted, stray, router, hand>>
    BY <1>1 DEF StrayOnce, GoodHand, InFormat
<1>2. CASE Start \/ BeginLlm \/ ForceEnter \/ Join
    BY <1>2 DEF Start, BeginLlm, ForceEnter, Join, Enter, StrayOnce
<1>3. CASE ClearPipe
  <2>1. mode # "Kws" /\ UNCHANGED <<mode, stray, router, hand>>
      BY <1>3 DEF ClearPipe, CallerInMode, worker
  <2> QED BY <2>1 DEF StrayOnce, GoodHand, InFormat
<1>4. CASE RouterTest \/ RouterPopNothing
  <2>1. UNCHANGED <<mode, restarted, stray>> /\ router' \in {"pop", "done"}
      BY <1>4 DEF RouterTest, RouterPopNothing, history
  <2> QED BY <2>1 DEF StrayOnce, GoodHand
<1>5. CASE RouterPop
  <2>1. /\ UNCHANGED <<mode, restarted, stray>> /\ router' = "look"
        /\ queue # <<>> /\ queue' = Tail(queue) /\ hand' = Head(queue)
      BY <1>5 DEF RouterPop, history
  <2>2. \A f : Only(f) => hand' = f
      BY <2>1, OnlyInTail DEF Types, TypeOK
  <2>3. /\ mode = "LlmWorking" => hand' = "2ch"
        /\ mode = "Kws" /\ ~restarted => hand' = "1ch"
      BY <2>2 DEF QueueInFormat
  <2> QED BY <2>1, <2>3 DEF StrayOnce, GoodHand
<1>6. CASE RouterLook
  <2>1. /\ UNCHANGED <<mode, restarted, stray>> /\ router = "look"
        /\ router' = "to_kws" => mode = "Kws" /\ hand' = hand
        /\ router' = "to_aec" => mode = "LlmWorking" /\ hand' = hand
        /\ router' \in {"to_kws", "to_aec", "test"}
      BY <1>6 DEF RouterLook, history
  <2> QED BY <2>1 DEF StrayOnce, GoodHand, InFormat
<1>7. CASE RouterDeliver
  <2>1. /\ UNCHANGED <<mode, restarted>> /\ router' = "test"
        /\ stray' = IF InFormat THEN stray ELSE stray + 1
        /\ router \in {"to_kws", "to_aec"}
      BY <1>7 DEF RouterDeliver
  <2> QED BY <2>1 DEF StrayOnce, GoodHand
<1>8. CASE Device
    BY <1>1, <1>8, DeviceOnly
<1>9. CASE Receive \/ Ask \/ StopBegins \/ Shut \/ ClosePipe
    BY <1>1, <1>9 DEF Receive, Ask, StopBegins, Shut, ClosePipe, worker, history
<1>10. CASE \E ok \in BOOLEAN : Returns(ok)
    BY <1>1, <1>10 DEF Returns, worker, history
<1> QED BY <1>2, <1>3, <1>4, <1>5, <1>6, <1>7, <1>8, <1>9, <1>10
        DEF Next, Router, Caller, Wishes, Answered, TimesOut

-----------------------------------------------------------------------------
(* The invariant, and what follows from it. *)

LEMMA InitEstablishes == Init => IInv
<1> SUFFICES ASSUME Init PROVE IInv
    OBVIOUS
<1>1. line = <<>> /\ wire = <<>> /\ queue = <<>> /\ caller = "new" /\ mode = "Stopped"
    BY DEF Init
<1>2. FirstRecording
    BY <1>1 DEF Init, FirstRecording, Coming, Audio, Only
<1>3. CallerInMode /\ ComesInFormat /\ QueueInFormat
    BY <1>1 DEF CallerInMode, ComesInFormat, QueueInFormat
<1>4. LastRequest /\ AnswersLast /\ AnswerIsTrue /\ StrayOnce
    BY <1>1 DEF Init, LastRequest, AnswersLast, AnswerIsTrue, StrayOnce
<1> QED BY <1>2, <1>3, <1>4, InitTypes DEF IInv

LEMMA StepKeeps == IInv /\ [Next]_vars => IInv'
<1> SUFFICES ASSUME IInv, [Next]_vars PROVE IInv'
    OBVIOUS
<1>1. CASE UNCHANGED vars
    BY <1>1 DEF vars, link, callv, pipe, worker, history, IInv, Types, TypeOK, CallerInMode,
       FirstRecording, ComesInFormat, Comes, Coming, Audio, Only, QueueInFormat, LastRequest,
       AnswersLast, AnswerIsTrue, Behind, Command, StrayOnce, GoodHand, InFormat
<1>2. CASE Next
    BY <1>2, NextTypes, CallerInModeKept, FirstRecordingKept, ComesInFormatKept,
       QueueInFormatKept, LastRequestKept, AnswersLastKept, AnswerIsTrueKept, StrayOnceKept
       DEF IInv
<1> QED BY <1>1, <1>2

LEMMA Invariance == Spec => []IInv
<1> QED BY InitEstablishes, StepKeeps, PTL DEF Spec

(* The queue keeps to its limit, and every variable to its type, whatever     *)
(* the device and the timeouts do.                                         *)
THEOREM TypeCorrect == Spec => []TypeOK
<1>1. IInv => TypeOK
    BY DEF IInv, Types
<1> QED BY <1>1, Invariance, PTL

(* When a mode begins, and as long as it lasts, the queue holds nothing of    *)
(* the format of the mode before: the device has switched and answered, and  *)
(* the queue was cleared behind the answer (client.cpp:251-255, 291-295).    *)
THEOREM QueueMatchesModeAlways == Spec => []QueueMatchesMode
<1>1. IInv => QueueMatchesMode
    BY DEF IInv, QueueInFormat, QueueMatchesMode
<1> QED BY <1>1, Invariance, PTL

(* However often the modes change, at most one chunk of the old format is     *)
(* delivered after each change: the one that the router holds.              *)
THEOREM OneStrayChunkAlways == Spec => []OneStrayChunk
<1>1. IInv => OneStrayChunk
    BY DEF IInv, StrayOnce, OneStrayChunk, Types, TypeOK
<1> QED BY <1>1, Invariance, PTL
=============================================================================
