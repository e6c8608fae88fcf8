-------------------------- MODULE SessionLifecycle --------------------------
(***************************************************************************)
(* What the Frontend promises about a conversation, without threads, queues *)
(* or sockets: the phases of a session, the session that xiaozhi has open   *)
(* upstream, and the order in which the two may change.  The phases are the *)
(* states of enum Frontend::State; Starting has two phases, before and      *)
(* after session_start went to xiaozhi.                                    *)
(***************************************************************************)
VARIABLES
  phase,      (* Init, Stopped, Waking, Opening, Started, Stopping *)
  upstream,   (* xiaozhi's session: idle, open                     *)
  link        (* the command channel to xiaozhi: up, down          *)

lifeVars == <<phase, upstream, link>>

Move(from, to) == phase = from /\ phase' = to

(* A message that ends the session reaches xiaozhi as long as the link is up. *)
TellEnd ==
  /\ upstream' = IF link = "up" THEN "idle" ELSE upstream
  /\ UNCHANGED link

(* The links are in place: the service waits for a wake word. *)
Ready == Move("Init", "Stopped") /\ UNCHANGED <<upstream, link>>

Wake == Move("Stopped", "Waking") /\ UNCHANGED <<upstream, link>>

(* xiaozhi is asked first: the device is switched only after it was told.   *)
Offer ==
  /\ Move("Waking", "Opening")
  /\ link = "up" /\ upstream' = "open" /\ UNCHANGED link

Decline ==
  /\ Move("Waking", "Stopped")
  /\ link = "down" /\ UNCHANGED <<upstream, link>>

Engage == Move("Opening", "Started") /\ UNCHANGED <<upstream, link>>

(* The device refused: xiaozhi's session is not left open. *)
Withdraw == Move("Opening", "Stopped") /\ TellEnd

(* The device's own wake word ends the conversation at both ends. *)
Interrupt == Move("Started", "Stopping") /\ TellEnd

(* xiaozhi ended the conversation. *)
Finish == Move("Started", "Stopping") /\ UNCHANGED <<upstream, link>>

Idle == Move("Stopping", "Stopped") /\ UNCHANGED <<upstream, link>>

(* A connection was lost, the device did not leave the conversation, or the  *)
(* wake-up acknowledgement failed, when nothing is open at xiaozhi yet: a   *)
(* conversation that is being opened is not left half way.                 *)
Lose ==
  /\ phase # "Opening" /\ phase' = "Init"
  /\ UNCHANGED <<upstream, link>>

(* xiaozhi ends its session, or the link to it goes down for good. *)
XiaozhiEnds ==
  /\ link = "up" /\ upstream = "open" /\ upstream' = "idle"
  /\ UNCHANGED <<phase, link>>

LinkDown == link = "up" /\ link' = "down" /\ UNCHANGED <<phase, upstream>>

LifeInit == phase = "Init" /\ upstream = "idle" /\ link = "up"

LifeNext ==
  \/ Ready \/ Wake \/ Offer \/ Decline \/ Engage \/ Withdraw \/ Interrupt
  \/ Finish \/ Idle \/ Lose \/ XiaozhiEnds \/ LinkDown

LifeSpec == LifeInit /\ [][LifeNext]_lifeVars

=============================================================================
