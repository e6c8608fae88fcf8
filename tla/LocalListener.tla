--------------------------- MODULE LocalListener ----------------------------
(***************************************************************************)
(* The gate with the listener that opens it: src/src/apm/kws/              *)
(* local_listener.cpp and trigger.cpp.  A feeder is a thread that brings   *)
(* audio; the engine, which is external, may find a wake word in any chunk. *)
(* A text is a sequence of characters.                                     *)
(***************************************************************************)
EXTENDS Gate, Sequences, SequencesExt

CONSTANTS
  Feeder,       (* the threads that bring audio                          *)
  Keywords,     (* the keywords of the trigger                           *)
  Texts,        (* what the engine may find                              *)
  MinInterval,  (* min_trigger_interval_ms, in ticks                     *)
  MaxAge        (* bound: ticks between a hit and the end of AcceptPcm   *)

ASSUME FeederAssumption == Feeder \subseteq Thread
ASSUME IntervalAssumption == MinInterval \in Nat /\ MaxAge \in Nat

VARIABLES
  deaf,     (* closed_ of the listener                           *)
  since,    (* ticks since last_trigger_, Long if there is none  *)
  age       (* ticks since the hit of each feeder                *)

listener == <<deaf, since, age>>
vars == <<gateVars, listener>>

Long == MinInterval + MaxAge

-----------------------------------------------------------------------------
(* Trigger *)

LowerOf(c) == CASE c = "A" -> "a" [] c = "B" -> "b" [] OTHER -> c

NormalizeKeyword(text) ==
  SelectSeq([i \in DOMAIN text |-> LowerOf(text[i])], LAMBDA c : c # " ")

Allowed == { NormalizeKeyword(k) : k \in Keywords } \ {<<>>}

(* A keyword anywhere in the text is a match. *)
Matches(text) == \E k \in Allowed : k \in SubSeqs(NormalizeKeyword(text))

-----------------------------------------------------------------------------
(* AcceptPcm: a chunk is looked at while the gate is idle... *)
AcceptPcm(f) ==
  /\ At(f, "idle") /\ step = "Idle" /\ Go(f, "engine")
  /\ UNCHANGED <<core, timerV, told, seen, listener>>

(* ...the engine finds nothing, or something at this moment, ...            *)
Detect(f) ==
  /\ At(f, "engine")
  /\ \/ Go(f, "idle") /\ UNCHANGED age
     \/ Go(f, "admit") /\ age' = [age EXCEPT ![f] = 0]
  /\ UNCHANGED <<core, timerV, told, seen, deaf, since>>

(* ...which is dropped if the listener is closed or the last one is too     *)
(* recent, ...                                                             *)
Admit(f) ==
  /\ At(f, "admit")
  /\ Go(f, IF deaf \/ since < MinInterval + age[f] THEN "idle" ELSE "fire")
  /\ UNCHANGED <<core, timerV, told, seen, listener>>

(* ...and tried on the gate if it is a keyword (FireFromText). *)
Fire(f) ==
  /\ At(f, "fire")
  /\ \E text \in Texts :
       IF Matches(text) THEN TryWakeup(f, "idle")
       ELSE Go(f, "idle") /\ UNCHANGED <<core, timerV, told, seen>>
  /\ UNCHANGED listener

Noted(f) == OnArm(f, "note") /\ UNCHANGED listener

(* The time of the hit is kept when its keyword was accepted. *)
Note(f) ==
  /\ At(f, "note") /\ Go(f, "idle")
  /\ since' = age[f] /\ age' = [age EXCEPT ![f] = 0]
  /\ UNCHANGED <<core, timerV, told, seen, deaf>>

CloseListener(t) ==
  /\ At(t, "idle") /\ deaf' = TRUE
  /\ UNCHANGED <<gateVars, since, age>>

InFlight(f) == pc[f] \in {"admit", "fire", "on_arm", "note"}

TimePasses ==
  /\ Tick
  /\ \A f \in Feeder : InFlight(f) => age[f] < MaxAge
  /\ age' = [f \in Feeder |-> IF InFlight(f) THEN age[f] + 1 ELSE 0]
  /\ since' = IF since < Long THEN since + 1 ELSE since
  /\ UNCHANGED deaf

-----------------------------------------------------------------------------
Init ==
  /\ GateInit
  /\ deaf = FALSE /\ since = Long /\ age = [f \in Feeder |-> 0]

Listen(f) == Detect(f) \/ Admit(f) \/ Fire(f) \/ Noted(f) \/ Note(f)

Next ==
  \/ \E t \in Thread \ Feeder :
       \/ (Call(t) \/ Continue(t)) /\ UNCHANGED listener
       \/ CloseListener(t)
  \/ \E f \in Feeder : AcceptPcm(f) \/ Listen(f)
  \/ Timer /\ UNCHANGED listener
  \/ TimePasses

Spec == Init /\ [][Next]_vars

(* Time passes, callbacks return, and a thread that can run does; the timer  *)
(* thread can when it was notified or its deadline has passed.              *)
Fairness ==
  /\ WF_vars(TimePasses)
  /\ WF_vars((TimerStarts \/ TimerExpires \/ TimerCalled) /\ UNCHANGED listener)
  /\ WF_vars((woken \/ Due) /\ TimerWakes /\ UNCHANGED listener)
  /\ \A f \in Feeder : WF_vars(Listen(f))
  /\ \A t \in Thread \ Feeder : WF_vars(Continue(t) /\ UNCHANGED listener)

FairSpec == Spec /\ Fairness

-----------------------------------------------------------------------------
TypeOK ==
  /\ GateTypeOK
  /\ pc \in [Thread -> {"idle", "on_arm", "notify", "after_disarm", "close_notify",
                        "join", "engine", "admit", "fire", "note"}]
  /\ deaf \in BOOLEAN /\ since \in 0 .. Long /\ age \in [Feeder -> 0 .. MaxAge]
=============================================================================
