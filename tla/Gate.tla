-------------------------------- MODULE Gate --------------------------------
(***************************************************************************)
(* src/src/apm/kws/gate.cpp: the gate that a wake word opens and that a     *)
(* thread of its own closes after a silence.  Any thread may call it.  What *)
(* runs under mu_ is one step; the notifications after it, the callbacks    *)
(* and the join are steps of their own.  Nothing compares timeout_epoch_    *)
(* but its owner's snapshot for equality, so it is modelled by whether the  *)
(* snapshot is stale; times are told in ticks from now.                    *)
(*                                                                          *)
(* The callbacks are assumed not to call Close, which would join the       *)
(* timer thread with itself when it is the one that calls.                 *)
(***************************************************************************)
EXTENDS Integers, FiniteSets

CONSTANTS
  Thread,    (* the threads that call the gate *)
  Timeout    (* timeout_, in ticks             *)

ASSUME ThreadAssumption == IsFiniteSet(Thread)
ASSUME TimeoutAssumption == Timeout \in Nat \ {0}

VARIABLES
  step,      (* step_                                                    *)
  speaking,  (* is_ai_speaking_                                          *)
  left,      (* ticks until timeout_deadline_                            *)
  closed,    (* closed_                                                  *)
  timer,     (* timeout_thread_: start, idle_wait, speak_wait, timed_wait,
                callback, ended                                          *)
  snap,      (* ticks until the deadline it waits for                    *)
  stale,     (* timeout_epoch_ has moved since it began to wait          *)
  woken,     (* timeout_cv_ was notified since then                      *)
  pc,        (* where each thread is                                     *)
  told,      (* on_arm calls minus after_disarm calls                    *)
  quiet,     (* history: ticks since the last sign of life               *)
  why        (* history: what ended the last conversation                *)

core == <<step, speaking, left, closed>>
timerV == <<timer, snap, stale, woken>>
seen == <<quiet, why>>
gateVars == <<core, timerV, pc, told, seen>>

Go(t, place) == pc' = [pc EXCEPT ![t] = place]

At(t, place) == pc[t] = place

-----------------------------------------------------------------------------
(* Mutant: the epoch stays, so a wait for the old deadline goes on. *)
RefreshSameEpoch ==
  left' = Timeout /\ woken' = TRUE /\ quiet' = 0 /\ UNCHANGED <<timer, snap, stale>>

RefreshTimeoutLocked ==
  left' = Timeout /\ stale' = TRUE /\ woken' = TRUE /\ quiet' = 0
  /\ UNCHANGED <<timer, snap>>

Arm == step' = "Active" /\ why' = "none" /\ RefreshTimeoutLocked

(* TryWakeup; a gate that is active rejects it without a change. *)
TryWakeup(t, rejected) ==
  IF step = "Idle"
  THEN Arm /\ Go(t, "on_arm") /\ UNCHANGED <<speaking, closed, told>>
  ELSE Go(t, rejected) /\ UNCHANGED <<core, timerV, told, seen>>

(* Mutant: Activate calls on_arm although the gate was active. *)
ActivateTwice(t) ==
  /\ At(t, "idle") /\ Arm /\ Go(t, "on_arm")
  /\ UNCHANGED <<speaking, closed, told>>

Activate(t) ==
  /\ At(t, "idle") /\ Arm
  /\ Go(t, IF step = "Idle" THEN "on_arm" ELSE "idle")
  /\ UNCHANGED <<speaking, closed, told>>

OnArm(t, next) ==
  /\ At(t, "on_arm") /\ told' = told + 1 /\ Go(t, next)
  /\ UNCHANGED <<core, timerV, seen>>

(* Disarm, and what it does after it has released the lock. *)
Disarm(t) ==
  /\ At(t, "idle") /\ step = "Active"
  /\ step' = "Idle" /\ stale' = TRUE /\ why' = "asked" /\ Go(t, "notify")
  /\ UNCHANGED <<speaking, left, closed, timer, snap, woken, told, quiet>>

DisarmNotify(t) ==
  /\ At(t, "notify") /\ woken' = TRUE /\ Go(t, "after_disarm")
  /\ UNCHANGED <<core, timer, snap, stale, told, seen>>

AfterDisarm(t) ==
  /\ At(t, "after_disarm") /\ told' = told - 1 /\ Go(t, "idle")
  /\ UNCHANGED <<core, timerV, seen>>

RefreshTimeout(t) ==
  /\ At(t, "idle") /\ step = "Active" /\ RefreshTimeoutLocked
  /\ UNCHANGED <<step, speaking, closed, pc, told, why>>

(* SetAiSpeaking, with the other value than before. *)
SetAiSpeaking(t) ==
  /\ At(t, "idle") /\ speaking' = ~speaking
  /\ CASE step = "Idle" -> UNCHANGED <<left, timerV, quiet>>
       [] step = "Active" /\ ~speaking ->
            stale' = TRUE /\ woken' = TRUE /\ UNCHANGED <<left, timer, snap, quiet>>
       [] step = "Active" /\ speaking -> RefreshTimeoutLocked
  /\ UNCHANGED <<step, closed, pc, told, why>>

(* Close: the second of two calls returns at once, while the first may      *)
(* still join.                                                             *)
Close(t) ==
  /\ At(t, "idle") /\ ~closed
  /\ closed' = TRUE /\ stale' = TRUE /\ Go(t, "close_notify")
  /\ UNCHANGED <<step, speaking, left, timer, snap, woken, told, seen>>

(* Mutant: Close does not notify the timer thread. *)
CloseSilently(t) ==
  /\ At(t, "close_notify") /\ Go(t, "join")
  /\ UNCHANGED <<core, timerV, told, seen>>

CloseNotify(t) ==
  /\ At(t, "close_notify") /\ woken' = TRUE /\ Go(t, "join")
  /\ UNCHANGED <<core, timer, snap, stale, told, seen>>

CloseJoin(t) ==
  /\ At(t, "join") /\ timer = "ended" /\ Go(t, "idle")
  /\ UNCHANGED <<core, timerV, told, seen>>

-----------------------------------------------------------------------------
(* TimeoutLoop, from its test to its next wait. *)
Loop ==
  /\ timer' = IF closed THEN "ended"
              ELSE IF step = "Idle" THEN "idle_wait"
              ELSE IF speaking THEN "speak_wait" ELSE "timed_wait"
  /\ snap' = left /\ stale' = FALSE /\ woken' = FALSE

TimerStarts ==
  /\ timer = "start" /\ Loop
  /\ UNCHANGED <<core, pc, told, seen>>

(* What each wait waits for. *)
Awaited ==
  \/ closed
  \/ timer = "idle_wait" /\ step = "Active"
  \/ timer = "speak_wait" /\ (step = "Idle" \/ stale \/ ~speaking)
  \/ timer = "timed_wait" /\ (step = "Idle" \/ stale \/ speaking)

Waiting == timer \in {"idle_wait", "speak_wait", "timed_wait"}

Due == timer = "timed_wait" /\ snap = 0

(* A wait ends, or goes on after a notification that is not meant for it.    *)
(* It may be woken for no reason at any time.                              *)
TimerWakes ==
  /\ Waiting
  /\ IF Awaited THEN Loop
     ELSE ~Due /\ woken' = FALSE /\ UNCHANGED <<timer, snap, stale>>
  /\ UNCHANGED <<core, pc, told, seen>>

(* The deadline has passed, and nothing of what is awaited has happened.    *)
TimerExpires ==
  /\ Due /\ ~Awaited
  /\ step' = "Idle" /\ why' = "timeout" /\ timer' = "callback"
  /\ UNCHANGED <<speaking, left, closed, snap, stale, woken, pc, told, quiet>>

(* after_disarm returns, and the loop goes on. *)
TimerCalled ==
  /\ timer = "callback" /\ told' = told - 1 /\ Loop
  /\ UNCHANGED <<core, pc, seen>>

Timer == TimerStarts \/ TimerWakes \/ TimerExpires \/ TimerCalled

Pred(n) == IF n = 0 THEN 0 ELSE n - 1

(* Time passes. *)
Tick ==
  /\ left' = Pred(left) /\ snap' = Pred(snap)
  /\ quiet' = IF quiet < Timeout THEN quiet + 1 ELSE quiet
  /\ UNCHANGED <<step, speaking, closed, timer, stale, woken, pc, told, why>>

-----------------------------------------------------------------------------
GateInit ==
  /\ step = "Idle" /\ speaking = FALSE /\ left = 0 /\ closed = FALSE
  /\ timer = "start" /\ snap = 0 /\ stale = FALSE /\ woken = FALSE
  /\ pc = [t \in Thread |-> "idle"] /\ told = 0
  /\ quiet = 0 /\ why = "none"

Call(t) ==
  \/ Activate(t) \/ Disarm(t) \/ RefreshTimeout(t) \/ SetAiSpeaking(t) \/ Close(t)

Continue(t) ==
  \/ OnArm(t, "idle") \/ DisarmNotify(t) \/ AfterDisarm(t)
  \/ CloseNotify(t) \/ CloseJoin(t)

-----------------------------------------------------------------------------
GateTypeOK ==
  /\ step \in {"Idle", "Active"} /\ speaking \in BOOLEAN /\ closed \in BOOLEAN
  /\ left \in 0 .. Timeout /\ snap \in 0 .. Timeout /\ quiet \in 0 .. Timeout
  /\ timer \in {"start", "idle_wait", "speak_wait", "timed_wait", "callback", "ended"}
  /\ stale \in BOOLEAN /\ woken \in BOOLEAN
  /\ told \in Int /\ why \in {"none", "asked", "timeout"}

(* Every change of the gate is told exactly once, whichever threads make it: *)
(* the calls of on_arm that were or will be made exceed those of            *)
(* after_disarm by one while the gate is active, and else not at all.       *)
EveryChangeIsTold ==
  LET arms == Cardinality({ t \in Thread : pc[t] = "on_arm" })
      disarms == Cardinality({ t \in Thread : pc[t] \in {"notify", "after_disarm"} })
                 + IF timer = "callback" THEN 1 ELSE 0
  IN  told + arms - disarms = IF step = "Active" THEN 1 ELSE 0

(* Close comes back: it reaches the timer thread in each of its waits, and   *)
(* during a callback.                                                      *)
CloseReturns == \A t \in Thread : (pc[t] = "join") ~> (pc[t] = "idle")

(* The gate as SilenceTimer tells it. *)
Silence == INSTANCE SilenceTimer WITH active <- (step = "Active"), over <- closed

(* The gate implements the timer: however a refresh, a change of speaker, a   *)
(* dismissal or a close meets the thread that waits for the deadline, no     *)
(* conversation expires before its whole timeout has passed in silence, and *)
(* each does that is left alone.                                           *)
ImplementsSilenceTimer == Silence!TimerSpec
=============================================================================
