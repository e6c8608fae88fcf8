----------------------------- MODULE LlmClient -----------------------------
(***************************************************************************)
(* src/src/llm/llm_client.cpp: the two TCP channels to xiaozhi, their        *)
(* readers, and the threads that send over them or disconnect them.         *)
(*                                                                          *)
(* "main" connects, and destroys the client once the workers are joined;     *)
(* "aec" sends audio, "ev" sends session_start and session_end, "stop"       *)
(* executes Frontend::Stop, "audio" and "command" are the readers.  A        *)
(* descriptor is a number: what is closed by one thread may be given to      *)
(* another part of the process while a reader still holds the number.       *)
(***************************************************************************)
EXTENDS Naturals, FiniteSets

CONSTANTS
  MaxFd,    (* descriptors the process may have, three suffice             *)
  Budgets   (* what may happen: one count per EnvKind *)

ASSUME MaxFdAssumption == MaxFd \in Nat \ {0}

(* Messages sent, messages received, connections that xiaozhi closes, a      *)
(* xiaozhi that stops reading, failing connects, sockets of other parts.     *)
EnvKind == {"sends", "messages", "closes", "stalls", "failures", "others"}

ASSUME BudgetsAssumption == Budgets \subseteq [EnvKind -> Nat]

Channel == {"audio", "command"}
Sender == {"aec", "ev"}
Thread == {"main", "stop"} \cup Sender \cup Channel
Fd == 1 .. MaxFd
NoFd == 0  (* -1 *)
Owners == Channel \cup {"free", "other"}

VARIABLES
  fd,         (* audio_fd_ and command_fd_                                 *)
  connected, stopRequested,
  mu,         (* who holds audio_mu_ and command_mu_ while it sends        *)
  pc,
  readFd,     (* the descriptor a reader has looked up                     *)
  reads,      (* the socket a blocked reader reads from                    *)
  owner,      (* kernel: what each descriptor stands for                   *)
  peer,       (* xiaozhi's end of each channel                             *)
  inbox,      (* messages that a channel holds for its reader              *)
  frontend,   (* the object that the callbacks point to                    *)
  crashed, env

members == <<fd, connected, stopRequested, mu>>
reader == <<readFd, reads>>
outside == <<peer, inbox>>
rest == <<frontend, crashed, env>>
vars == <<members, pc, reader, owner, outside, rest>>

Go(t, p) == pc' = [pc EXCEPT ![t] = p]
Spend(k) == env[k] > 0 /\ env' = [env EXCEPT ![k] = @ - 1]
ChannelOf(t) == IF t = "aec" THEN "audio" ELSE "command"

(* The kernel hands out the lowest free descriptor. *)
Free == { d \in Fd : owner[d] = "free" }
LowestFree == CHOOSE d \in Free : \A e \in Free : d <= e
Open(o) == Free # {} /\ owner' = [owner EXCEPT ![LowestFree] = o]

-----------------------------------------------------------------------------
(* Connect.  Nobody else uses the client meanwhile. *)

ConnectChannel(c) ==
  /\ pc["main"] = (IF c = "audio" THEN "connect_audio" ELSE "connect_command")
  /\ Open(c) /\ Go("main", IF c = "audio" THEN "connect_command" ELSE "connected")
  /\ UNCHANGED <<members, reader, outside, rest>>

(* The channel that was connected is closed; the exception ends the program. *)
ConnectFails ==
  /\ pc["main"] \in {"connect_audio", "connect_command"} /\ Spend("failures")
  /\ owner' = [d \in Fd |-> IF owner[d] = "audio" THEN "free" ELSE owner[d]]
  /\ Go("main", "gone")
  /\ UNCHANGED <<members, reader, outside, frontend, crashed>>

Connected ==
  /\ pc["main"] = "connected"
  /\ fd' = [c \in Channel |-> CHOOSE d \in Fd : owner[d] = c]
  /\ connected' = TRUE
  /\ pc' = [t \in Thread |-> CASE t = "main" -> "run" [] t \in Channel -> "test"
                               [] OTHER -> "idle"]
  /\ UNCHANGED <<stopRequested, mu, reader, owner, outside, rest>>

-----------------------------------------------------------------------------
(* Disconnect, called by every thread. *)

(* Where a thread goes when its Disconnect has returned. *)
Returns(t) ==
  CASE t \in Sender -> "idle" [] t \in Channel -> "ended"
    [] t = "stop" -> "done" [] t = "main" -> "join_audio"

CloseAt(c) == IF c = "audio" THEN "close_audio" ELSE "close_command"

(* Mutant: a descriptor that was closed is not forgotten. *)
CloseFdKept(c) ==
  /\ owner' = (IF fd[c] = NoFd THEN owner ELSE [owner EXCEPT ![fd[c]] = "free"])
  /\ UNCHANGED fd

CloseFd(c) ==
  /\ owner' = (IF fd[c] = NoFd THEN owner ELSE [owner EXCEPT ![fd[c]] = "free"])
  /\ fd' = [fd EXCEPT ![c] = NoFd]

CloseChannel(t, c) ==
  /\ pc[t] = CloseAt(c) /\ mu[c] = "free" /\ CloseFd(c)
  /\ Go(t, IF c = "audio" THEN "close_command" ELSE "clear")
  /\ UNCHANGED <<connected, stopRequested, mu, reader, outside, rest>>

ClearConnected(t) ==
  /\ pc[t] = "clear" /\ connected' = FALSE /\ Go(t, Returns(t))
  /\ UNCHANGED <<fd, stopRequested, mu, reader, owner, outside, rest>>

Disconnect(t) == ClearConnected(t) \/ \E c \in Channel : CloseChannel(t, c)

-----------------------------------------------------------------------------
(* SendAudio, SendSessionStart, SendSessionEnd. *)

(* Without a connection the call returns at once. *)
SendBegins(t) ==
  LET c == ChannelOf(t) IN
  /\ pc[t] = "idle" /\ pc["main"] = "run" /\ Spend("sends") /\ mu[c] = "free"
  /\ IF connected /\ fd[c] # NoFd
     THEN Go(t, "send") /\ mu' = [mu EXCEPT ![c] = t]
     ELSE UNCHANGED <<pc, mu>>
  /\ UNCHANGED <<fd, connected, stopRequested, reader, owner, outside, frontend, crashed>>

(* Mutant: a send that has failed disconnects while it holds the mutex. *)
SendEndsLocked(t) ==
  LET c == ChannelOf(t) IN
  /\ pc[t] = "send" /\ peer[c] # "stalled"
  /\ \/ Go(t, "idle") /\ mu' = [mu EXCEPT ![c] = "free"]
     \/ peer[c] = "closed" /\ Go(t, "close_audio") /\ UNCHANGED mu
  /\ UNCHANGED <<fd, connected, stopRequested, reader, owner, outside, rest>>

(* SendAllLocked blocks while xiaozhi does not read; over a connection that   *)
(* xiaozhi has closed it may or may not fail yet.                          *)
SendEnds(t) ==
  LET c == ChannelOf(t) IN
  /\ pc[t] = "send" /\ peer[c] # "stalled" /\ mu' = [mu EXCEPT ![c] = "free"]
  /\ \/ Go(t, "idle")
     \/ peer[c] = "closed" /\ Go(t, "close_audio")
  /\ UNCHANGED <<fd, connected, stopRequested, reader, owner, outside, rest>>

-----------------------------------------------------------------------------
(* The readers. *)

ReaderTest(c) ==
  /\ pc[c] = "test" /\ Go(c, IF ~stopRequested /\ connected THEN "lookup" ELSE "ended")
  /\ UNCHANGED <<members, reader, owner, outside, rest>>

ReaderLooksUp(c) ==
  /\ pc[c] = "lookup" /\ mu[c] = "free" /\ readFd' = [readFd EXCEPT ![c] = fd[c]]
  /\ Go(c, IF fd[c] = NoFd THEN "ended" ELSE "recv")
  /\ UNCHANGED <<members, reads, owner, outside, rest>>

(* An exception, or the end of the file. *)
ReaderFails(c) == Go(c, IF stopRequested THEN "ended" ELSE "close_audio")

(* recv takes the number for what it stands for now. *)
ReaderRecv(c) ==
  /\ pc[c] = "recv"
  /\ IF owner[readFd[c]] = "free" THEN ReaderFails(c) /\ UNCHANGED reads
     ELSE Go(c, "blocked") /\ reads' = [reads EXCEPT ![c] = owner[readFd[c]]]
  /\ UNCHANGED <<members, readFd, owner, outside, rest>>

(* Data of its own channel: audio, or a session_end.  A part of a line leads  *)
(* to the next recv with the same number, another command to the next line,  *)
(* one without a proper type to an exception.                              *)
ReaderGets(c) ==
  /\ pc[c] = "blocked" /\ reads[c] = c /\ inbox[c] > 0
  /\ inbox' = [inbox EXCEPT ![c] = @ - 1]
  /\ \/ Go(c, "callback")
     \/ c = "command" /\ (Go(c, "recv") \/ Go(c, "test") \/ ReaderFails(c))
  /\ UNCHANGED <<members, reader, owner, peer, rest>>

(* Mutant: the end of the stream is not passed on to the other channel. *)
ReaderEndsAlone(c) ==
  /\ pc[c] = "blocked"
  /\ IF reads[c] = c THEN inbox[c] = 0 /\ (fd[c] = NoFd \/ peer[c] = "closed")
                     ELSE owner[readFd[c]] # "other"
  /\ Go(c, "ended")
  /\ UNCHANGED <<members, reader, owner, outside, rest>>

(* Mutant: a channel is closed without a shutdown, which wakes no reader. *)
ReaderEndsIfClosed(c) ==
  /\ pc[c] = "blocked"
  /\ IF reads[c] = c THEN inbox[c] = 0 /\ peer[c] = "closed"
                     ELSE owner[readFd[c]] # "other"
  /\ Go(c, "close_audio") \/ ReaderFails(c)
  /\ UNCHANGED <<members, reader, owner, outside, rest>>

(* The end of the stream: the socket was shut down here or closed by xiaozhi, *)
(* or, if it is another part's, was closed there.                          *)
ReaderEnds(c) ==
  /\ pc[c] = "blocked"
  /\ IF reads[c] = c THEN inbox[c] = 0 /\ (fd[c] = NoFd \/ peer[c] = "closed")
                     ELSE owner[readFd[c]] # "other"
  /\ Go(c, "close_audio") \/ ReaderFails(c)
  /\ UNCHANGED <<members, reader, owner, outside, rest>>

(* Bytes that were meant for another part of the process: audio is played, a *)
(* command is what they happen to be.                                      *)
ReaderSteals(c) ==
  /\ pc[c] = "blocked" /\ reads[c] = "other" /\ owner[readFd[c]] = "other"
  /\ Spend("messages")
  /\ Go(c, IF c = "audio" THEN "callback" ELSE "recv")
  /\ UNCHANGED <<members, reader, owner, outside, frontend, crashed>>

(* The callback points to the Frontend; calling it after that was destroyed   *)
(* is undefined.                                                           *)
ReaderCalls(c) ==
  /\ pc[c] = "callback" /\ Go(c, "test")
  /\ crashed' \in IF frontend = "gone" THEN BOOLEAN ELSE {FALSE}
  /\ UNCHANGED <<members, reader, owner, outside, frontend, env>>

Reader(c) ==
  \/ ReaderTest(c) \/ ReaderLooksUp(c) \/ ReaderRecv(c) \/ ReaderGets(c)
  \/ ReaderEnds(c) \/ ReaderCalls(c) \/ Disconnect(c)

-----------------------------------------------------------------------------
(* Frontend::Stop, and the end of the pipeline. *)

FrontendStops ==
  /\ pc["stop"] = "idle" /\ Go("stop", "close_audio")
  /\ UNCHANGED <<members, reader, owner, outside, rest>>

(* The workers are joined; the Frontend, with its sockets, is destroyed before *)
(* the client.                                                             *)
FrontendDestroyed ==
  /\ pc["main"] = "run" /\ pc["stop"] = "done" /\ \A t \in Sender : pc[t] = "idle"
  /\ frontend' = "gone" /\ Go("main", "destroy")
  /\ owner' = [d \in Fd |-> IF owner[d] = "other" THEN "free" ELSE owner[d]]
  /\ UNCHANGED <<members, reader, outside, crashed, env>>

ClientStop ==
  /\ pc["main"] = "destroy" /\ stopRequested' = TRUE /\ Go("main", "close_audio")
  /\ UNCHANGED <<fd, connected, mu, reader, owner, outside, rest>>

(* Mutant: only one of the readers is joined. *)
ClientJoinsAudioOnly ==
  /\ pc["main"] = "join_audio" /\ pc["audio"] = "ended" /\ Go("main", "gone")
  /\ UNCHANGED <<members, reader, owner, outside, rest>>

ClientJoins ==
  /\ \/ pc["main"] = "join_audio" /\ pc["audio"] = "ended" /\ Go("main", "join_command")
     \/ pc["main"] = "join_command" /\ pc["command"] = "ended" /\ Go("main", "gone")
  /\ UNCHANGED <<members, reader, owner, outside, rest>>

Main == \/ \E c \in Channel : ConnectChannel(c)
        \/ ConnectFails \/ Connected \/ FrontendDestroyed \/ ClientStop \/ ClientJoins
        \/ Disconnect("main")

-----------------------------------------------------------------------------
(* xiaozhi, and the other parts of the process. *)

PeerActs(c) ==
  /\ fd[c] # NoFd /\ UNCHANGED <<members, pc, reader, owner, frontend, crashed>>
  /\ \/ /\ peer[c] # "closed" /\ Spend("messages")
        /\ inbox' = [inbox EXCEPT ![c] = @ + 1] /\ UNCHANGED peer
     \/ /\ peer[c] = "up" /\ Spend("stalls")
        /\ peer' = [peer EXCEPT ![c] = "stalled"] /\ UNCHANGED inbox
     \/ /\ peer[c] = "stalled" /\ peer' = [peer EXCEPT ![c] = "up"]
        /\ UNCHANGED <<inbox, env>>
     \/ /\ peer[c] # "closed" /\ Spend("closes")
        /\ peer' = [peer EXCEPT ![c] = "closed"] /\ UNCHANGED inbox

OtherOpens ==
  /\ pc["main"] = "run" /\ Spend("others") /\ Open("other")
  /\ UNCHANGED <<members, pc, reader, outside, frontend, crashed>>

-----------------------------------------------------------------------------
Init ==
  /\ fd = [c \in Channel |-> NoFd] /\ connected = FALSE /\ stopRequested = FALSE
  /\ mu = [c \in Channel |-> "free"]
  /\ pc = [t \in Thread |-> IF t = "main" THEN "connect_audio" ELSE "none"]
  /\ readFd = [c \in Channel |-> NoFd] /\ reads = [c \in Channel |-> c]
  /\ owner = [d \in Fd |-> "free"]
  /\ peer = [c \in Channel |-> "up"] /\ inbox = [c \in Channel |-> 0]
  /\ frontend = "alive" /\ crashed = FALSE /\ env \in Budgets

Next ==
  /\ ~crashed
  /\ \/ Main \/ FrontendStops \/ Disconnect("stop") \/ OtherOpens
     \/ \E t \in Sender : SendBegins(t) \/ SendEnds(t) \/ Disconnect(t)
     \/ \E c \in Channel : Reader(c) \/ ReaderSteals(c) \/ PeerActs(c)

Spec == Init /\ [][Next]_vars

(* Every thread keeps running; nothing is assumed of xiaozhi. *)
Fairness ==
  /\ WF_vars(~crashed /\ Main)
  /\ WF_vars(~crashed /\ Disconnect("stop"))
  /\ \A t \in Sender : WF_vars(~crashed /\ (SendEnds(t) \/ Disconnect(t)))
  /\ \A c \in Channel : WF_vars(~crashed /\ Reader(c))
FairSpec == Spec /\ Fairness

-----------------------------------------------------------------------------
(* Every variable stays within its type; a mutex is held by who sends. *)
TypeOK ==
  /\ fd \in [Channel -> Fd \cup {NoFd}]
  /\ connected \in BOOLEAN /\ stopRequested \in BOOLEAN
  /\ mu \in [Channel -> Sender \cup {"free"}]
  /\ \A c \in Channel : mu[c] # "free" => pc[mu[c]] = "send" /\ ChannelOf(mu[c]) = c
  /\ pc \in [Thread -> {"none", "connect_audio", "connect_command", "connected",
       "run", "destroy", "join_audio", "join_command", "gone", "idle", "send",
       "close_audio", "close_command", "clear", "done", "test", "lookup", "recv",
       "blocked", "callback", "ended"}]
  /\ readFd \in [Channel -> Fd \cup {NoFd}] /\ reads \in [Channel -> Owners]
  /\ owner \in [Fd -> Owners]
  /\ peer \in [Channel -> {"up", "stalled", "closed"}] /\ inbox \in [Channel -> Nat]
  /\ frontend \in {"alive", "gone"} /\ crashed \in BOOLEAN /\ env \in [EnvKind -> Nat]

(* While the client holds a descriptor, that descriptor is its own channel:   *)
(* whichever threads disconnect at once, none closes, and no sender writes to, *)
(* a socket of another part of the process.                                *)
OwnsItsDescriptors == \A c \in Channel : fd[c] # NoFd => owner[fd[c]] = c

(* When the client is gone no reader is left to call back, and no channel is   *)
(* left open: after a failed Connect as after Stop.                        *)
GoneIsQuiet ==
  pc["main"] = "gone" =>
    /\ \A c \in Channel : pc[c] \in {"none", "ended"}
    /\ \A d \in Fd : owner[d] \notin Channel

Down == ~connected /\ \A c \in Channel : fd[c] = NoFd

(* A sender holds a mutex, waiting for a xiaozhi that does not read: whoever   *)
(* disconnects waits too.                                                  *)
Stalled == \E c \in Channel : mu[c] # "free" /\ peer[c] = "stalled"

(* The channels go down together: one that xiaozhi closes takes the other     *)
(* with it, unless a sender is stuck.                                      *)
LossTakesBoth ==
  \A c \in Channel : peer[c] = "closed" ~> Down \/ Stalled \/ crashed

(* Once Frontend::Stop disconnects, the pipeline can end: the readers leave,  *)
(* whatever they are reading, and the destructor joins them.                *)
StopEnds == pc["stop"] = "close_audio" ~> pc["main"] = "gone" \/ Stalled \/ crashed

=============================================================================
