-------------------------- MODULE LlmClientProofs --------------------------
(***************************************************************************)
(* LlmClient for any number of descriptors and any budgets.                 *)
(***************************************************************************)
EXTENDS LlmClient, TLAPS, WellFoundedInduction

Connecting == {"connect_audio", "connect_command", "connected"}

(* Nobody else runs while the client connects. *)
ConnectsAlone ==
  pc["main"] \in Connecting =>
    /\ \A t \in Thread \ {"main"} : pc[t] = "none"
    /\ \A c \in Channel : fd[c] = NoFd /\ mu[c] = "free"

(* What Connect has opened so far. *)
OpenedSoFar ==
  /\ pc["main"] = "connect_audio" => \A d \in Fd : owner[d] \notin Channel
  /\ pc["main"] = "connect_command" =>
       /\ \E d \in Fd : owner[d] = "audio"
       /\ \A d \in Fd : owner[d] # "command"
  /\ pc["main"] = "connected" => \A c \in Channel : \E d \in Fd : owner[d] = c

(* Each channel is open once. *)
OpenOnce ==
  \A c \in Channel : \A d, e \in Fd : owner[d] = c /\ owner[e] = c => d = e

(* From then on an open channel is one that the client knows. *)
NoneForgotten ==
  pc["main"] \notin Connecting =>
    \A c \in Channel : \A d \in Fd : owner[d] = c => fd[c] = d

(* Stop closes both channels, and then joins both readers. *)
StopOrder ==
  /\ pc["main"] \in {"close_command", "clear", "join_audio", "join_command", "gone"}
       => fd["audio"] = NoFd
  /\ pc["main"] \in {"clear", "join_audio", "join_command", "gone"}
       => fd["command"] = NoFd
  /\ pc["main"] = "join_command" => pc["audio"] = "ended"
  /\ pc["main"] = "gone" => \A c \in Channel : pc[c] \in {"none", "ended"}

(* A reader that reads has looked up a descriptor. *)
ReadsADescriptor ==
  \A c \in Channel : pc[c] \in {"recv", "blocked"} => readFd[c] \in Fd

IInv ==
  /\ TypeOK /\ ConnectsAlone /\ OpenedSoFar /\ OpenOnce /\ NoneForgotten
  /\ OwnsItsDescriptors /\ StopOrder /\ ReadsADescriptor


(* The kernel has a lowest free descriptor if it has a free one. *)
LEMMA LowestIsFree == Free # {} => LowestFree \in Free
<1> SUFFICES ASSUME Free # {} PROVE LowestFree \in Free
  OBVIOUS
<1>1. Free \subseteq Nat /\ Nat \subseteq Nat
  BY MaxFdAssumption DEF Free, Fd
<1>2. PICK d \in Free : \A e \in Free : <<e, d>> \notin OpToRel(<, Nat)
  BY <1>1, NatLessThanWellFounded, WFMin
<1>3. \A e \in Free : ~(e < d)
  BY <1>1, <1>2, Zenon DEF OpToRel
<1>4. \A e \in Free : d <= e
  BY <1>1, <1>3
<1> QED BY <1>4 DEF LowestFree

(* The invariant holds at first. *)
LEMMA InitEstablishes == Init => IInv
<1> SUFFICES ASSUME Init PROVE IInv
  OBVIOUS
<1>1. env \in [EnvKind -> Nat]
  BY BudgetsAssumption DEF Init
<1>2. TypeOK
  BY <1>1 DEF Init, TypeOK, Thread, Sender, Channel, Owners, NoFd
<1>3. ConnectsAlone /\ OpenedSoFar /\ OpenOnce /\ NoneForgotten
  BY DEF Init, ConnectsAlone, OpenedSoFar, OpenOnce, NoneForgotten, Connecting,
         Thread, Sender, Channel
<1>4. OwnsItsDescriptors /\ StopOrder /\ ReadsADescriptor
  BY DEF Init, OwnsItsDescriptors, StopOrder, ReadsADescriptor, Channel, Thread,
       Sender
<1> QED BY <1>2, <1>3, <1>4 DEF IInv

(* The senders: taking the mutex and giving it back. *)
LEMMA SendKeeps ==
  ASSUME IInv, NEW t \in Sender, SendBegins(t) \/ SendEnds(t) PROVE IInv'
<1> USE DEF Thread, Sender, Channel, ChannelOf
<1>1. TypeOK'
  BY DEF IInv, TypeOK, SendBegins, SendEnds, Go, Spend, outside, reader, rest
<1>2. (ConnectsAlone /\ OpenedSoFar /\ OpenOnce /\ NoneForgotten)'
  BY DEF IInv, TypeOK, ConnectsAlone, OpenedSoFar, OpenOnce, NoneForgotten,
       Connecting,
     SendBegins, SendEnds, Go, Spend, outside, reader, rest
<1>3. (OwnsItsDescriptors /\ StopOrder /\ ReadsADescriptor)'
  BY DEF IInv, TypeOK, OwnsItsDescriptors, StopOrder, ReadsADescriptor,
     SendBegins, SendEnds, Go, Spend, outside, reader, rest
<1> QED BY <1>1, <1>2, <1>3 DEF IInv

(* One lemma per action from here on, with a step per part of the invariant. *)
(* Closing a channel frees exactly the descriptor that stands for it.        *)
LEMMA CloseChannelKeeps ==
  ASSUME IInv, NEW t \in Thread, NEW c \in Channel, CloseChannel(t, c) PROVE IInv'
<1>1. TypeOK'
  BY DEF IInv, CloseChannel, CloseAt, CloseFd, TypeOK, Owners, Go, outside,
       reader, rest
<1>2. ConnectsAlone'
  BY DEF IInv, CloseChannel, CloseAt, ConnectsAlone, Connecting, Go
<1>3. OpenedSoFar'
  BY DEF IInv, CloseChannel, CloseAt, OpenedSoFar, ConnectsAlone, Connecting, Go
<1>4. OpenOnce'
  BY DEF IInv, CloseChannel, CloseFd, OpenOnce, Channel
<1>5. NoneForgotten'
  BY DEF IInv, CloseChannel, CloseAt, CloseFd, NoneForgotten, ConnectsAlone,
       Connecting, TypeOK, Channel
<1>6. OwnsItsDescriptors'
  BY DEF IInv, CloseChannel, CloseFd, OwnsItsDescriptors, TypeOK
<1>7. StopOrder'
  BY DEF IInv, CloseChannel, CloseAt, CloseFd, StopOrder, TypeOK, Channel, Go
<1>8. ReadsADescriptor'
  BY DEF IInv, CloseChannel, ReadsADescriptor, Go, reader
<1> QED BY <1>1, <1>2, <1>3, <1>4, <1>5, <1>6, <1>7, <1>8 DEF IInv

LEMMA ClearConnectedKeeps ==
  ASSUME IInv, NEW t \in Thread, ClearConnected(t) PROVE IInv'
<1>1. TypeOK'
  BY DEF IInv, ClearConnected, Returns, TypeOK, Thread, Channel, Go, outside,
       reader, rest
<1>2. ConnectsAlone'
  BY DEF IInv, ClearConnected, Returns, ConnectsAlone, Connecting, Go
<1>3. OpenedSoFar'
  BY DEF IInv, ClearConnected, Returns, OpenedSoFar, Go
<1>4. OpenOnce'
  BY DEF IInv, ClearConnected, OpenOnce
<1>5. NoneForgotten'
  BY DEF IInv, ClearConnected, NoneForgotten, ConnectsAlone, Connecting
<1>6. OwnsItsDescriptors'
  BY DEF IInv, ClearConnected, OwnsItsDescriptors
<1>7. StopOrder'
  BY DEF IInv, ClearConnected, Returns, StopOrder, Go
<1>8. ReadsADescriptor'
  BY DEF IInv, ClearConnected, Returns, ReadsADescriptor, Go, reader
<1> QED BY <1>1, <1>2, <1>3, <1>4, <1>5, <1>6, <1>7, <1>8 DEF IInv

(* The readers change nothing but their own place and what they look up. *)
LEMMA ReaderTestKeeps ==
  ASSUME IInv, NEW c \in Channel, ReaderTest(c) PROVE IInv'
<1>1. TypeOK'
  BY DEF IInv, ReaderTest, TypeOK, Thread, Go, members, outside, reader, rest
<1>2. ConnectsAlone'
  BY DEF IInv, ReaderTest, ConnectsAlone, TypeOK, Connecting, Thread, Go
<1>3. OpenedSoFar'
  BY DEF IInv, ReaderTest, OpenedSoFar, Go
<1>4. OpenOnce'
  BY DEF IInv, ReaderTest, OpenOnce
<1>5. NoneForgotten'
  BY DEF IInv, ReaderTest, NoneForgotten, ConnectsAlone, Thread, Channel,
       members
<1>6. OwnsItsDescriptors'
  BY DEF IInv, ReaderTest, OwnsItsDescriptors, members
<1>7. StopOrder'
  BY DEF IInv, ReaderTest, StopOrder, Go, members
<1>8. ReadsADescriptor'
  BY DEF IInv, ReaderTest, ReadsADescriptor, Go, reader
<1> QED BY <1>1, <1>2, <1>3, <1>4, <1>5, <1>6, <1>7, <1>8 DEF IInv

LEMMA ReaderLooksUpKeeps ==
  ASSUME IInv, NEW c \in Channel, ReaderLooksUp(c) PROVE IInv'
<1>1. TypeOK'
  BY DEF IInv, ReaderLooksUp, TypeOK, Thread, Go, members, outside, rest
<1>2. ConnectsAlone'
  BY DEF IInv, ReaderLooksUp, ConnectsAlone, TypeOK, Connecting, Thread, Go
<1>3. OpenedSoFar'
  BY DEF IInv, ReaderLooksUp, OpenedSoFar, Go
<1>4. OpenOnce'
  BY DEF IInv, ReaderLooksUp, OpenOnce
<1>5. NoneForgotten'
  BY DEF IInv, ReaderLooksUp, NoneForgotten, ConnectsAlone, Thread, Channel,
       members
<1>6. OwnsItsDescriptors'
  BY DEF IInv, ReaderLooksUp, OwnsItsDescriptors, members
<1>7. StopOrder'
  BY DEF IInv, ReaderLooksUp, StopOrder, Go, members
<1>8. ReadsADescriptor'
  BY DEF IInv, ReaderLooksUp, ReadsADescriptor, TypeOK, Go
<1> QED BY <1>1, <1>2, <1>3, <1>4, <1>5, <1>6, <1>7, <1>8 DEF IInv

LEMMA ReaderRecvKeeps ==
  ASSUME IInv, NEW c \in Channel, ReaderRecv(c) PROVE IInv'
<1>1. TypeOK'
  <2>1. readFd[c] \in Fd /\ owner[readFd[c]] \in Owners
    BY DEF IInv, ReadsADescriptor, TypeOK, ReaderRecv
  <2>2. reads' \in [Channel -> Owners]
    BY <2>1 DEF IInv, TypeOK, ReaderRecv
  <2> QED BY <2>2 DEF IInv, TypeOK, ReaderRecv, ReaderFails, Go, members, outside,
                      rest, Thread, Sender, Channel
<1>2. ConnectsAlone'
  BY DEF IInv, ReaderRecv, ReaderFails, ConnectsAlone, TypeOK, Thread, Channel,
       Go
<1>3. OpenedSoFar'
  BY DEF IInv, ReaderRecv, ReaderFails, OpenedSoFar, TypeOK, Thread, Go
<1>4. OpenOnce'
  BY DEF IInv, ReaderRecv, OpenOnce
<1>5. NoneForgotten'
  BY DEF IInv, ReaderRecv, NoneForgotten, ConnectsAlone, Thread, Channel,
       members
<1>6. OwnsItsDescriptors'
  BY DEF IInv, ReaderRecv, OwnsItsDescriptors, members
<1>7. StopOrder'
  BY DEF IInv, ReaderRecv, ReaderFails, StopOrder, TypeOK, Thread, Channel, Go,
       members
<1>8. ReadsADescriptor'
  BY DEF IInv, ReaderRecv, ReaderFails, ReadsADescriptor, TypeOK, Thread, Go
<1> QED BY <1>1, <1>2, <1>3, <1>4, <1>5, <1>6, <1>7, <1>8 DEF IInv

LEMMA ReaderGetsKeeps ==
  ASSUME IInv, NEW c \in Channel, ReaderGets(c) PROVE IInv'
<1>1. TypeOK'
  BY DEF IInv, ReaderGets, ReaderFails, TypeOK, Thread, Sender, Channel, Go,
       members, reader, rest
<1>2. ConnectsAlone'
  BY DEF IInv, ReaderGets, ReaderFails, ConnectsAlone, TypeOK, Thread, Channel,
       Go
<1>3. OpenedSoFar'
  BY DEF IInv, ReaderGets, ReaderFails, OpenedSoFar, TypeOK, Thread, Go
<1>4. OpenOnce'
  BY DEF IInv, ReaderGets, OpenOnce
<1>5. NoneForgotten'
  BY DEF IInv, ReaderGets, NoneForgotten, ConnectsAlone, Connecting, Thread,
       members
<1>6. OwnsItsDescriptors'
  BY DEF IInv, ReaderGets, OwnsItsDescriptors, members
<1>7. StopOrder'
  BY DEF IInv, ReaderGets, ReaderFails, StopOrder, TypeOK, Thread, Channel, Go,
       members
<1>8. ReadsADescriptor'
  BY DEF IInv, ReaderGets, ReaderFails, ReadsADescriptor, TypeOK, Thread, Go,
       reader
<1> QED BY <1>1, <1>2, <1>3, <1>4, <1>5, <1>6, <1>7, <1>8 DEF IInv

LEMMA ReaderEndsKeeps ==
  ASSUME IInv, NEW c \in Channel, ReaderEnds(c) PROVE IInv'
<1>1. TypeOK'
  BY DEF IInv, ReaderEnds, ReaderFails, TypeOK, Thread, Sender, Channel, Go,
       members, outside, reader, rest
<1>2. ConnectsAlone'
  BY DEF IInv, ReaderEnds, ReaderFails, ConnectsAlone, TypeOK, Thread, Channel,
       Go
<1>3. OpenedSoFar'
  BY DEF IInv, ReaderEnds, ReaderFails, OpenedSoFar, TypeOK, Thread, Go
<1>4. OpenOnce'
  BY DEF IInv, ReaderEnds, OpenOnce
<1>5. NoneForgotten'
  BY DEF IInv, ReaderEnds, NoneForgotten, ConnectsAlone, Thread, Channel,
       members
<1>6. OwnsItsDescriptors'
  BY DEF IInv, ReaderEnds, OwnsItsDescriptors, members
<1>7. StopOrder'
  BY DEF IInv, ReaderEnds, ReaderFails, StopOrder, TypeOK, Thread, Channel, Go,
       members
<1>8. ReadsADescriptor'
  BY DEF IInv, ReaderEnds, ReaderFails, ReadsADescriptor, TypeOK, Thread, Go,
       reader
<1> QED BY <1>1, <1>2, <1>3, <1>4, <1>5, <1>6, <1>7, <1>8 DEF IInv

LEMMA ReaderCallsKeeps ==
  ASSUME IInv, NEW c \in Channel, ReaderCalls(c) PROVE IInv'
<1>1. TypeOK'
  BY DEF IInv, ReaderCalls, TypeOK, Thread, Channel, Go, members, outside,
       reader
<1>2. ConnectsAlone'
  BY DEF IInv, ReaderCalls, ConnectsAlone, TypeOK, Connecting, Thread, Go
<1>3. OpenedSoFar'
  BY DEF IInv, ReaderCalls, OpenedSoFar, Go
<1>4. OpenOnce'
  BY DEF IInv, ReaderCalls, OpenOnce
<1>5. NoneForgotten'
  BY DEF IInv, ReaderCalls, NoneForgotten, ConnectsAlone, Thread, Channel,
       members
<1>6. OwnsItsDescriptors'
  BY DEF IInv, ReaderCalls, OwnsItsDescriptors, members
<1>7. StopOrder'
  BY DEF IInv, ReaderCalls, StopOrder, Go, members
<1>8. ReadsADescriptor'
  BY DEF IInv, ReaderCalls, ReadsADescriptor, Go, reader
<1> QED BY <1>1, <1>2, <1>3, <1>4, <1>5, <1>6, <1>7, <1>8 DEF IInv

LEMMA ReaderStealsKeeps ==
  ASSUME IInv, NEW c \in Channel, ReaderSteals(c) PROVE IInv'
<1>1. TypeOK'
  <2>1. env' \in [EnvKind -> Nat]
    BY DEF IInv, TypeOK, ReaderSteals, Spend, EnvKind
  <2> QED BY <2>1 DEF IInv, TypeOK, ReaderSteals, Go, members, reader, outside,
                      Thread, Sender, Channel
<1>2. ConnectsAlone'
  BY DEF IInv, ReaderSteals, ConnectsAlone, TypeOK, Connecting, Thread, Go
<1>3. OpenedSoFar'
  BY DEF IInv, ReaderSteals, OpenedSoFar, Go
<1>4. OpenOnce'
  BY DEF IInv, ReaderSteals, OpenOnce
<1>5. NoneForgotten'
  BY DEF IInv, ReaderSteals, NoneForgotten, ConnectsAlone, Thread, Channel,
       members
<1>6. OwnsItsDescriptors'
  BY DEF IInv, ReaderSteals, OwnsItsDescriptors, members
<1>7. StopOrder'
  BY DEF IInv, ReaderSteals, StopOrder, Go, members
<1>8. ReadsADescriptor'
  BY DEF IInv, ReaderSteals, ReadsADescriptor, Go, reader
<1> QED BY <1>1, <1>2, <1>3, <1>4, <1>5, <1>6, <1>7, <1>8 DEF IInv

(* Connect: a new descriptor was free, so no channel has two. *)
LEMMA ConnectChannelKeeps ==
  ASSUME IInv, NEW c \in Channel, ConnectChannel(c) PROVE IInv'
<1>1. TypeOK'
  BY DEF IInv, ConnectChannel, Open, TypeOK, Owners, Thread, Go, members,
       outside, reader, rest
<1>2. ConnectsAlone'
  BY DEF IInv, ConnectChannel, ConnectsAlone, Connecting, Go, members
<1>3. OpenedSoFar'
  BY LowestIsFree DEF IInv, ConnectChannel, Open, Free, OpenedSoFar, TypeOK,
       Thread, Channel, Go
<1>4. OpenOnce'
  BY DEF IInv, ConnectChannel, Open, OpenOnce, OpenedSoFar, Channel
<1>5. NoneForgotten'
  BY DEF IInv, ConnectChannel, NoneForgotten, Connecting, Go
<1>6. OwnsItsDescriptors'
  BY DEF IInv, ConnectChannel, OwnsItsDescriptors, ConnectsAlone, Connecting,
       members
<1>7. StopOrder'
  BY DEF IInv, ConnectChannel, StopOrder, Go
<1>8. ReadsADescriptor'
  BY DEF IInv, ConnectChannel, ReadsADescriptor, Go, reader
<1> QED BY <1>1, <1>2, <1>3, <1>4, <1>5, <1>6, <1>7, <1>8 DEF IInv

LEMMA ConnectFailsKeeps ==
  ASSUME IInv, ConnectFails PROVE IInv'
<1>1. TypeOK'
  <2>1. owner' \in [Fd -> Owners] /\ pc' \in [Thread -> {"none", "connect_audio",
           "connect_command", "connected", "run", "destroy", "join_audio",
           "join_command", "gone", "idle", "send", "close_audio", "close_command",
           "clear", "done", "test", "lookup", "recv", "blocked", "callback", "ended"}]
    BY DEF IInv, TypeOK, ConnectFails, Owners, Go
  <2>2. env' \in [EnvKind -> Nat]
    BY DEF IInv, TypeOK, ConnectFails, Spend, EnvKind
  <2>3. \A c \in Channel : mu'[c] = "free"
    BY DEF IInv, ConnectsAlone, Connecting, ConnectFails, members
  <2> QED BY <2>1, <2>2, <2>3 DEF IInv, TypeOK, ConnectFails, members, reader, outside
<1>2. ConnectsAlone'
  BY DEF IInv, ConnectFails, ConnectsAlone, TypeOK, Connecting, Thread, Go
<1>3. OpenedSoFar'
  BY DEF IInv, ConnectFails, OpenedSoFar, TypeOK, Thread, Go
<1>4. OpenOnce'
  BY DEF IInv, ConnectFails, OpenOnce, Channel
<1>5. NoneForgotten'
  BY DEF IInv, ConnectFails, NoneForgotten, OpenedSoFar, Channel
<1>6. OwnsItsDescriptors'
  BY DEF IInv, ConnectFails, OwnsItsDescriptors, ConnectsAlone, Connecting,
       members
<1>7. StopOrder'
  BY DEF IInv, ConnectFails, StopOrder, ConnectsAlone, Connecting, Thread,
       Channel, Go, members
<1>8. ReadsADescriptor'
  BY DEF IInv, ConnectFails, ReadsADescriptor, Go, reader
<1> QED BY <1>1, <1>2, <1>3, <1>4, <1>5, <1>6, <1>7, <1>8 DEF IInv

LEMMA ConnectedKeeps ==
  ASSUME IInv, Connected PROVE IInv'
<1>1. TypeOK'
  <2>1. \A c \in Channel : \E d \in Fd : owner[d] = c
    BY DEF IInv, OpenedSoFar, Connected
  <2>2. fd' \in [Channel -> Fd \cup {NoFd}]
    BY <2>1 DEF IInv, Connected
  <2>3. \A c \in Channel : mu'[c] = "free"
    BY DEF IInv, ConnectsAlone, Connecting, Connected
  <2>4. pc' \in [Thread -> {"run", "test", "idle"}] /\ connected' = TRUE
    BY DEF Connected
  <2> QED BY <2>2, <2>3, <2>4 DEF IInv, TypeOK, Connected, reader, outside, rest
<1>2. ConnectsAlone'
  BY DEF IInv, Connected, ConnectsAlone, Connecting, Thread
<1>3. OpenedSoFar'
  BY DEF IInv, Connected, OpenedSoFar, Thread
<1>4. OpenOnce'
  BY DEF IInv, Connected, OpenOnce
<1>5. NoneForgotten'
  BY DEF IInv, Connected, NoneForgotten
<1>6. OwnsItsDescriptors'
  BY DEF IInv, Connected, OwnsItsDescriptors
<1>7. StopOrder'
  BY DEF IInv, Connected, StopOrder, Thread
<1>8. ReadsADescriptor'
  BY DEF IInv, Connected, ReadsADescriptor, Thread
<1> QED BY <1>1, <1>2, <1>3, <1>4, <1>5, <1>6, <1>7, <1>8 DEF IInv

(* The end of the pipeline: the joins see readers that have ended. *)
LEMMA FrontendStopsKeeps ==
  ASSUME IInv, FrontendStops PROVE IInv'
<1>1. TypeOK'
  BY DEF IInv, FrontendStops, TypeOK, Thread, Go, members, outside, reader, rest
<1>2. ConnectsAlone'
  BY DEF IInv, FrontendStops, ConnectsAlone, Thread, Go
<1>3. OpenedSoFar'
  BY DEF IInv, FrontendStops, OpenedSoFar, Go
<1>4. OpenOnce'
  BY DEF IInv, FrontendStops, OpenOnce
<1>5. NoneForgotten'
  BY DEF IInv, FrontendStops, NoneForgotten, ConnectsAlone, Thread, members
<1>6. OwnsItsDescriptors'
  BY DEF IInv, FrontendStops, OwnsItsDescriptors, members
<1>7. StopOrder'
  BY DEF IInv, FrontendStops, StopOrder, Go, members
<1>8. ReadsADescriptor'
  BY DEF IInv, FrontendStops, ReadsADescriptor, Go, reader
<1> QED BY <1>1, <1>2, <1>3, <1>4, <1>5, <1>6, <1>7, <1>8 DEF IInv

LEMMA FrontendDestroyedKeeps ==
  ASSUME IInv, FrontendDestroyed PROVE IInv'
<1>1. TypeOK'
  BY DEF IInv, FrontendDestroyed, TypeOK, Owners, ChannelOf, Go, members,
       outside, reader
<1>2. ConnectsAlone'
  BY DEF IInv, FrontendDestroyed, ConnectsAlone, Connecting, Go
<1>3. OpenedSoFar'
  BY DEF IInv, FrontendDestroyed, OpenedSoFar, Go
<1>4. OpenOnce'
  BY DEF IInv, FrontendDestroyed, OpenOnce, Channel
<1>5. NoneForgotten'
  BY DEF IInv, FrontendDestroyed, NoneForgotten, Connecting, Channel, members
<1>6. OwnsItsDescriptors'
  BY DEF IInv, FrontendDestroyed, OwnsItsDescriptors, TypeOK, Channel, members
<1>7. StopOrder'
  BY DEF IInv, FrontendDestroyed, StopOrder, Go
<1>8. ReadsADescriptor'
  BY DEF IInv, FrontendDestroyed, ReadsADescriptor, Go, reader
<1> QED BY <1>1, <1>2, <1>3, <1>4, <1>5, <1>6, <1>7, <1>8 DEF IInv

LEMMA ClientStopKeeps ==
  ASSUME IInv, ClientStop PROVE IInv'
<1>1. TypeOK'
  BY DEF IInv, ClientStop, TypeOK, Thread, Go, outside, reader, rest
<1>2. ConnectsAlone'
  BY DEF IInv, ClientStop, ConnectsAlone, Connecting, Go
<1>3. OpenedSoFar'
  BY DEF IInv, ClientStop, OpenedSoFar, Go
<1>4. OpenOnce'
  BY DEF IInv, ClientStop, OpenOnce
<1>5. NoneForgotten'
  BY DEF IInv, ClientStop, NoneForgotten, Connecting
<1>6. OwnsItsDescriptors'
  BY DEF IInv, ClientStop, OwnsItsDescriptors
<1>7. StopOrder'
  BY DEF IInv, ClientStop, StopOrder, Go
<1>8. ReadsADescriptor'
  BY DEF IInv, ClientStop, ReadsADescriptor, Go, reader
<1> QED BY <1>1, <1>2, <1>3, <1>4, <1>5, <1>6, <1>7, <1>8 DEF IInv

LEMMA ClientJoinsKeeps ==
  ASSUME IInv, ClientJoins PROVE IInv'
<1>1. TypeOK'
  BY DEF IInv, ClientJoins, TypeOK, Thread, Sender, Channel, Go, members,
       outside, reader, rest
<1>2. ConnectsAlone'
  BY DEF IInv, ClientJoins, ConnectsAlone, TypeOK, Connecting, Go
<1>3. OpenedSoFar'
  BY DEF IInv, ClientJoins, OpenedSoFar, TypeOK, Go
<1>4. OpenOnce'
  BY DEF IInv, ClientJoins, OpenOnce
<1>5. NoneForgotten'
  BY DEF IInv, ClientJoins, NoneForgotten, Connecting, members
<1>6. OwnsItsDescriptors'
  BY DEF IInv, ClientJoins, OwnsItsDescriptors, members
<1>7. StopOrder'
  BY DEF IInv, ClientJoins, StopOrder, TypeOK, Thread, Channel, Go, members
<1>8. ReadsADescriptor'
  BY DEF IInv, ClientJoins, ReadsADescriptor, TypeOK, Thread, Go, reader
<1> QED BY <1>1, <1>2, <1>3, <1>4, <1>5, <1>6, <1>7, <1>8 DEF IInv

(* xiaozhi, and the other parts of the process. *)
LEMMA PeerActsKeeps ==
  ASSUME IInv, NEW c \in Channel, PeerActs(c) PROVE IInv'
<1>1. TypeOK'
  BY DEF IInv, PeerActs, TypeOK, Spend, members, reader
<1>2. ConnectsAlone'
  BY DEF IInv, PeerActs, ConnectsAlone
<1>3. OpenedSoFar'
  BY DEF IInv, PeerActs, OpenedSoFar
<1>4. OpenOnce'
  BY DEF IInv, PeerActs, OpenOnce
<1>5. NoneForgotten'
  BY DEF IInv, PeerActs, NoneForgotten, members
<1>6. OwnsItsDescriptors'
  BY DEF IInv, PeerActs, OwnsItsDescriptors, members
<1>7. StopOrder'
  BY DEF IInv, PeerActs, StopOrder, members
<1>8. ReadsADescriptor'
  BY DEF IInv, PeerActs, ReadsADescriptor, reader
<1> QED BY <1>1, <1>2, <1>3, <1>4, <1>5, <1>6, <1>7, <1>8 DEF IInv

LEMMA OtherOpensKeeps ==
  ASSUME IInv, OtherOpens PROVE IInv'
<1>1. TypeOK'
  <2>1. owner' \in [Fd -> Owners]
    BY DEF IInv, TypeOK, OtherOpens, Open, Owners
  <2>2. env' \in [EnvKind -> Nat]
    BY DEF IInv, TypeOK, OtherOpens, Spend, EnvKind
  <2> QED BY <2>1, <2>2 DEF IInv, TypeOK, OtherOpens, members, reader, outside
<1>2. ConnectsAlone'
  BY DEF IInv, OtherOpens, ConnectsAlone, Connecting
<1>3. OpenedSoFar'
  BY DEF IInv, OtherOpens, OpenedSoFar
<1>4. OpenOnce'
  BY DEF IInv, OtherOpens, Open, OpenOnce, Channel
<1>5. NoneForgotten'
  BY DEF IInv, OtherOpens, Open, NoneForgotten, Channel, members
<1>6. OwnsItsDescriptors'
  BY LowestIsFree DEF IInv, OtherOpens, Open, Free, OwnsItsDescriptors, Channel,
       members
<1>7. StopOrder'
  BY DEF IInv, OtherOpens, StopOrder
<1>8. ReadsADescriptor'
  BY DEF IInv, OtherOpens, ReadsADescriptor, reader
<1> QED BY <1>1, <1>2, <1>3, <1>4, <1>5, <1>6, <1>7, <1>8 DEF IInv

LEMMA StutterKeeps == ASSUME IInv, UNCHANGED vars PROVE IInv'
<1> USE DEF vars, members, reader, outside, rest
<1>1. TypeOK'
  BY DEF IInv, TypeOK
<1>2. (ConnectsAlone /\ OpenedSoFar /\ OpenOnce /\ NoneForgotten)'
  BY DEF IInv, ConnectsAlone, OpenedSoFar, OpenOnce, NoneForgotten
<1>3. (OwnsItsDescriptors /\ StopOrder /\ ReadsADescriptor)'
  BY DEF IInv, OwnsItsDescriptors, StopOrder, ReadsADescriptor
<1> QED BY <1>1, <1>2, <1>3 DEF IInv

LEMMA NextKeeps == ASSUME IInv, Next PROVE IInv'
<1>1. ASSUME NEW t \in Thread, Disconnect(t) PROVE IInv'
  BY <1>1, CloseChannelKeeps, ClearConnectedKeeps DEF Disconnect
<1>2. CASE Main
  <2>1. "main" \in Thread
    BY DEF Thread
  <2> QED BY <1>1, <1>2, <2>1, ConnectChannelKeeps, ConnectFailsKeeps, ConnectedKeeps,
             FrontendDestroyedKeeps, ClientStopKeeps, ClientJoinsKeeps DEF Main
<1>3. CASE FrontendStops \/ Disconnect("stop") \/ OtherOpens
  <2>1. "stop" \in Thread
    BY DEF Thread
  <2> QED BY <1>1, <1>3, <2>1, FrontendStopsKeeps, OtherOpensKeeps
<1>4. CASE \E t \in Sender : SendBegins(t) \/ SendEnds(t) \/ Disconnect(t)
  <2>1. Sender \subseteq Thread
    BY DEF Thread
  <2> QED BY <1>1, <1>4, <2>1, SendKeeps
<1>5. CASE \E c \in Channel : Reader(c) \/ ReaderSteals(c) \/ PeerActs(c)
  <2>1. Channel \subseteq Thread
    BY DEF Thread
  <2> QED BY <1>1, <1>5, <2>1, ReaderTestKeeps, ReaderLooksUpKeeps, ReaderRecvKeeps,
             ReaderGetsKeeps, ReaderEndsKeeps, ReaderCallsKeeps, ReaderStealsKeeps,
             PeerActsKeeps DEF Reader
<1> QED BY <1>2, <1>3, <1>4, <1>5 DEF Next

THEOREM Invariance == Spec => []IInv
<1>1. IInv /\ [Next]_vars => IInv'
  BY NextKeeps, StutterKeeps
<1> QED BY <1>1, InitEstablishes, PTL DEF Spec

(* The types hold, and a mutex is held only by who sends, for any budgets. *)
THEOREM TypeCorrect == Spec => []TypeOK
<1>1. IInv => TypeOK
  BY DEF IInv
<1> QED BY <1>1, Invariance, PTL

(* However many threads disconnect at once (Disconnect, llm_client.cpp), the  *)
(* client closes and uses only descriptors that are its own.               *)
THEOREM OwnsItsDescriptorsAlways == Spec => []OwnsItsDescriptors
<1>1. IInv => OwnsItsDescriptors
  BY DEF IInv
<1> QED BY <1>1, Invariance, PTL

(* When the client is gone, by its destructor or by a Connect that failed, no *)
(* reader runs and no channel is open.                                     *)
THEOREM GoneIsQuietAlways == Spec => []GoneIsQuiet
<1>1. IInv => GoneIsQuiet
  <2> SUFFICES ASSUME IInv, pc["main"] = "gone" PROVE GoneIsQuiet
    BY DEF GoneIsQuiet
  <2>1. \A c \in Channel : pc[c] \in {"none", "ended"} /\ fd[c] = NoFd
    BY DEF IInv, StopOrder, Channel
  <2>2. \A d \in Fd : owner[d] \notin Channel
    BY <2>1, MaxFdAssumption DEF IInv, NoneForgotten, Connecting, Fd, NoFd
  <2> QED BY <2>1, <2>2 DEF GoneIsQuiet
<1> QED BY <1>1, Invariance, PTL

=============================================================================
