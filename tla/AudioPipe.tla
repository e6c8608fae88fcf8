----------------------------- MODULE AudioPipe ------------------------------
(***************************************************************************)
(* The queue of recorded audio between the WebSocket thread, which pushes,  *)
(* and the AudioRouter, which pops: class AudioPipe of                      *)
(* src/src/frontend/soundbox/audio_pipe.cpp.  Any thread may start, stop or *)
(* clear it.  Every operation runs under mu_; the loops that drop the       *)
(* oldest packets are steps of their own, taken while mu_ is held.  A       *)
(* packet is its number in the order of arrival and its size.              *)
(***************************************************************************)
EXTENDS Integers, Sequences

CONSTANTS
  MaxPackets,    (* max_packets_                                      *)
  MaxBytes,      (* max_bytes_                                        *)
  Sizes,         (* the sizes of the chunks that are pushed           *)
  MaxReceived    (* bound: how many chunks are pushed in a behaviour  *)

ASSUME LimitsAssumption ==
  /\ MaxPackets \in Nat \ {0} /\ MaxBytes \in Nat \ {0}
  /\ Sizes \subseteq Nat \ {0} /\ MaxReceived \in Nat

VARIABLES
  queue,      (* queue_                                                *)
  running,    (* running_                                              *)
  received,   (* stats_.received_packets                               *)
  dropped,    (* stats_.dropped_packets                                *)
  receivedBytes, droppedBytes, queuedBytes,   (* the same in bytes    *)
  holder,     (* who holds mu_: free, push, stop, clear                *)
  chunk,      (* the packet that Push is placing                       *)
  ring,       (* a notification that is still to be sent               *)
  popper,     (* the caller of Pop: idle, check, asleep                *)
  outPackets, outBytes,   (* history: what Pop has returned           *)
  gone        (* history: the last packet that left the queue          *)

stats == <<received, dropped, receivedBytes, droppedBytes, queuedBytes>>
out   == <<outPackets, outBytes>>

vars == <<queue, running, stats, holder, chunk, ring, popper, out, gone>>

Packet  == [id : Nat, size : Nat]
NoChunk == [id |-> 0, size |-> 0]

-----------------------------------------------------------------------------
Unlocked == holder = "free"

(* Mutant: the byte account has the wrong sign. *)
CountDropSubtracts(size) ==
  dropped' = dropped + 1 /\ droppedBytes' = droppedBytes - size

(* A packet that was received is dropped. *)
CountDrop(size) ==
  dropped' = dropped + 1 /\ droppedBytes' = droppedBytes + size

(* The oldest packet leaves the queue. *)
TakeOldest ==
  /\ queue # <<>>
  /\ queue' = Tail(queue) /\ gone' = Head(queue).id
  /\ queuedBytes' = queuedBytes - Head(queue).size

(* Mutant: the newest packet is dropped. *)
DropNewest ==
  /\ queue # <<>>
  /\ LET p == queue[Len(queue)] IN
       /\ queue' = SubSeq(queue, 1, Len(queue) - 1) /\ gone' = p.id
       /\ queuedBytes' = queuedBytes - p.size
       /\ CountDrop(p.size)

(* Mutant: the drop is not counted. *)
DropUncounted == TakeOldest /\ UNCHANGED <<dropped, droppedBytes>>

DropOldestLocked == TakeOldest /\ CountDrop(Head(queue).size)

-----------------------------------------------------------------------------
Start ==
  /\ Unlocked /\ running' = TRUE
  /\ UNCHANGED <<queue, stats, holder, chunk, ring, popper, out, gone>>

Stop ==
  /\ Unlocked /\ running' = FALSE /\ holder' = "stop"
  /\ UNCHANGED <<queue, stats, chunk, ring, popper, out, gone>>

Clear ==
  /\ Unlocked /\ holder' = "clear"
  /\ UNCHANGED <<queue, running, stats, chunk, ring, popper, out, gone>>

DrainOne ==
  /\ holder \in {"stop", "clear"}
  /\ DropOldestLocked
  /\ UNCHANGED <<running, received, receivedBytes, holder, chunk, ring, popper,
                 out>>

(* Mutant: Stop does not notify the popper. *)
DrainDoneSilently ==
  /\ holder \in {"stop", "clear"} /\ queue = <<>>
  /\ holder' = "free"
  /\ UNCHANGED <<queue, running, stats, chunk, ring, popper, out, gone>>

(* Stop notifies after it has released mu_, Clear does not. *)
DrainDone ==
  /\ holder \in {"stop", "clear"} /\ queue = <<>>
  /\ holder' = "free" /\ ring' = (ring \/ holder = "stop")
  /\ UNCHANGED <<queue, running, stats, chunk, popper, out, gone>>

(* Every non-empty chunk is counted, and refused unless the pipe runs. *)
Push(size) ==
  /\ Unlocked /\ received < MaxReceived
  /\ received' = received + 1 /\ receivedBytes' = receivedBytes + size
  /\ \/ /\ running /\ holder' = "push"
        /\ chunk' = [id |-> received + 1, size |-> size]
        /\ UNCHANGED <<dropped, droppedBytes>>
     \/ ~running /\ CountDrop(size) /\ UNCHANGED <<holder, chunk>>
  /\ UNCHANGED <<queue, running, queuedBytes, ring, popper, out, gone>>

(* Mutant: only the number of packets is looked at. *)
PacketsFull == queue # <<>> /\ Len(queue) >= MaxPackets

MustDrop ==
  /\ queue # <<>>
  /\ Len(queue) >= MaxPackets \/ queuedBytes + chunk.size > MaxBytes

PushDropsOldest ==
  /\ holder = "push" /\ MustDrop
  /\ DropOldestLocked
  /\ UNCHANGED <<running, received, receivedBytes, holder, chunk, ring, popper,
                 out>>

PushTooLarge ==
  /\ holder = "push" /\ ~MustDrop /\ chunk.size > MaxBytes
  /\ CountDrop(chunk.size)
  /\ holder' = "free" /\ chunk' = NoChunk
  /\ UNCHANGED <<queue, running, received, receivedBytes, queuedBytes, ring,
                 popper, out, gone>>

PushQueues ==
  /\ holder = "push" /\ ~MustDrop /\ chunk.size <= MaxBytes
  /\ queue' = Append(queue, chunk)
  /\ queuedBytes' = queuedBytes + chunk.size
  /\ holder' = "free" /\ chunk' = NoChunk /\ ring' = TRUE
  /\ UNCHANGED <<running, received, dropped, receivedBytes, droppedBytes, popper,
                 out, gone>>

(* cv_.notify_one and notify_all: there is one popper. *)
Notify ==
  /\ ring /\ ring' = FALSE
  /\ popper' = IF popper = "asleep" THEN "check" ELSE popper
  /\ UNCHANGED <<queue, running, stats, holder, chunk, out, gone>>

Pop ==
  /\ popper = "idle" /\ popper' = "check"
  /\ UNCHANGED <<queue, running, stats, holder, chunk, ring, out, gone>>

(* Nothing to pop: the popper releases mu_ and sleeps in one step. *)
PopSleeps ==
  /\ popper = "check" /\ Unlocked /\ running /\ queue = <<>>
  /\ popper' = "asleep"
  /\ UNCHANGED <<queue, running, stats, holder, chunk, ring, out, gone>>

PopReturnsNothing ==
  /\ popper = "check" /\ Unlocked /\ ~running /\ queue = <<>>
  /\ popper' = "idle"
  /\ UNCHANGED <<queue, running, stats, holder, chunk, ring, out, gone>>

PopTakes ==
  /\ popper = "check" /\ Unlocked /\ TakeOldest
  /\ outPackets' = outPackets + 1 /\ outBytes' = outBytes + Head(queue).size
  /\ popper' = "idle"
  /\ UNCHANGED <<running, received, dropped, receivedBytes, droppedBytes, holder,
                 chunk, ring>>

-----------------------------------------------------------------------------
Init ==
  /\ queue = <<>> /\ running = FALSE
  /\ received = 0 /\ dropped = 0
  /\ receivedBytes = 0 /\ droppedBytes = 0 /\ queuedBytes = 0
  /\ holder = "free" /\ chunk = NoChunk
  /\ ring = FALSE /\ popper = "idle"
  /\ outPackets = 0 /\ outBytes = 0 /\ gone = 0

PipeStep ==
  DrainOne \/ DrainDone \/ PushDropsOldest \/ PushTooLarge \/ PushQueues

PopStep == PopSleeps \/ PopReturnsNothing \/ PopTakes

Next ==
  \/ Start \/ Stop \/ Clear
  \/ \E size \in Sizes : Push(size)
  \/ PipeStep \/ Notify \/ Pop \/ PopStep

Spec == Init /\ [][Next]_vars

(* An operation that has begun is carried through, with its notification.    *)
FairSpec == Spec /\ WF_vars(PipeStep) /\ WF_vars(Notify)

-----------------------------------------------------------------------------
TypeOK ==
  /\ queue \in Seq(Packet) /\ running \in BOOLEAN
  /\ received \in Nat /\ dropped \in Nat
  /\ receivedBytes \in Nat /\ droppedBytes \in Nat /\ queuedBytes \in Int
  /\ holder \in {"free", "push", "stop", "clear"} /\ chunk \in Packet
  /\ ring \in BOOLEAN /\ popper \in {"idle", "check", "asleep"}
  /\ outPackets \in Nat /\ outBytes \in Nat /\ gone \in Nat

Placing == IF holder = "push" THEN 1 ELSE 0

(* No packet is lost or counted twice: what was received is what was dropped, *)
(* what Pop returned, what is queued, and the chunk Push is placing, in     *)
(* packets and in bytes.                                                   *)
Accounted ==
  /\ received = dropped + outPackets + Len(queue) + Placing
  /\ receivedBytes = droppedBytes + outBytes + queuedBytes + chunk.size

BytesIn(q) ==
  LET sum[n \in 0 .. Len(q)] == IF n = 0 THEN 0 ELSE sum[n - 1] + q[n].size
  IN  sum[Len(q)]

CountWithinLimit == Len(queue) <= MaxPackets

(* The queue stays within both of its limits, and its byte account, which    *)
(* the limit is checked against, is exact.                                 *)
WithinLimits ==
  /\ CountWithinLimit
  /\ queuedBytes = BytesIn(queue) /\ queuedBytes <= MaxBytes

(* The audio stays real-time: packets leave in the order of their arrival,   *)
(* and one that was dropped or returned is older than any that is queued.   *)
OldestLeavesFirst ==
  /\ \A i \in 1 .. Len(queue) : gone < queue[i].id
  /\ \A i, j \in 1 .. Len(queue) : i < j => queue[i].id < queue[j].id

(* No wake-up is lost: a popper does not sleep on while there is audio, or   *)
(* while the pipe stands still.                                            *)
PopperWakes ==
  /\ (popper = "asleep" /\ queue # <<>>) ~> (popper # "asleep" \/ queue = <<>>)
  /\ (popper = "asleep" /\ ~running) ~> (popper # "asleep" \/ running)

=============================================================================
