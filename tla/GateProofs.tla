----------------------------- MODULE GateProofs -----------------------------
(***************************************************************************)
(* The gate and its listener for any number of threads and any timeout.     *)
(***************************************************************************)
EXTENDS LocalListener, TLAPS, FiniteSetTheorems

(* While the gate is active, the deadline and the silence add up to the       *)
(* timeout, and nothing has ended the conversation.                        *)
DeadlineKept == step = "Active" => left + quiet = Timeout /\ why = "none"

(* The deadline that the timer thread waits for is the present one, unless    *)
(* its snapshot of the epoch is stale.                                     *)
WaitsForDeadline == timer = "timed_wait" /\ ~stale => snap = left

IInv == TypeOK /\ DeadlineKept /\ WaitsForDeadline

Places == {"idle", "on_arm", "notify", "after_disarm", "close_notify", "join",
           "engine", "admit", "fire", "note"}

USE TimeoutAssumption, FeederAssumption, IntervalAssumption

-----------------------------------------------------------------------------
(* The invariant in the initial states. *)
LEMMA InitEstablishes == Init => IInv
<1> SUFFICES ASSUME Init PROVE IInv
    OBVIOUS
<1>1. GateTypeOK
  <2>1. speaking \in BOOLEAN /\ closed \in BOOLEAN /\ stale \in BOOLEAN /\ woken \in BOOLEAN
      BY Zenon DEF Init, GateInit
  <2>2. left \in 0 .. Timeout /\ snap \in 0 .. Timeout /\ quiet \in 0 .. Timeout /\ told \in Int
      BY DEF Init, GateInit
  <2> QED
      BY <2>1, <2>2 DEF Init, GateInit, GateTypeOK
<1>2. pc \in [Thread -> Places]
    BY DEF Init, GateInit, Places
<1>3. Long \in Nat /\ since \in 0 .. Long
    BY DEF Init, Long
<1>4. age \in [Feeder -> 0 .. MaxAge]
    BY DEF Init
<1>5. TypeOK
    BY <1>1, <1>2, <1>3, <1>4 DEF TypeOK, Places, Init
<1>6. DeadlineKept /\ WaitsForDeadline
    BY DEF Init, GateInit, DeadlineKept, WaitsForDeadline
<1> QED
    BY <1>5, <1>6 DEF IInv

(* A thread that goes to a place is at a place. *)
LEMMA GoKeepsPlaces ==
  ASSUME NEW t, NEW place \in Places, pc \in [Thread -> Places], Go(t, place)
  PROVE  pc' \in [Thread -> Places]
BY DEF Go, Places

-----------------------------------------------------------------------------
(* The calls of a thread, which leave the listener alone. *)
LEMMA CallKeeps ==
  ASSUME IInv, NEW t \in Thread, Call(t), UNCHANGED listener
  PROVE  IInv'
<1> USE DEF IInv, TypeOK, GateTypeOK, DeadlineKept, WaitsForDeadline, core, timerV, seen,
            listener, Arm, RefreshTimeoutLocked, Long
<1>1. CASE Activate(t)
    <2>1. pc' \in [Thread -> Places]
        BY <1>1, GoKeepsPlaces DEF Activate, Places
    <2> QED
        BY <1>1, <2>1 DEF Activate, Places
<1>2. CASE Disarm(t)
    <2>1. pc' \in [Thread -> Places]
        BY <1>2, GoKeepsPlaces DEF Disarm, Places
    <2> QED
        BY <1>2, <2>1 DEF Disarm, Places
<1>3. CASE RefreshTimeout(t)
    BY <1>3 DEF RefreshTimeout
<1>4. CASE SetAiSpeaking(t)
    <2>1. speaking' \in BOOLEAN /\ UNCHANGED <<step, closed, pc, told, why, listener>>
        BY <1>4 DEF SetAiSpeaking
    <2>2. \/ UNCHANGED <<left, timerV, quiet>>
          \/ stale' = TRUE /\ woken' = TRUE /\ UNCHANGED <<left, timer, snap, quiet>>
          \/ RefreshTimeoutLocked
        BY <1>4 DEF SetAiSpeaking
    <2>3. CASE UNCHANGED <<left, timerV, quiet>>
        BY <2>1, <2>3
    <2>4. CASE stale' = TRUE /\ woken' = TRUE /\ UNCHANGED <<left, timer, snap, quiet>>
        BY <2>1, <2>4
    <2>5. CASE RefreshTimeoutLocked
        BY <2>1, <2>5
    <2> QED
        BY <2>2, <2>3, <2>4, <2>5
<1>5. CASE Close(t)
    <2>1. pc' \in [Thread -> Places]
        BY <1>5, GoKeepsPlaces DEF Close, Places
    <2> QED
        BY <1>5, <2>1 DEF Close, Places
<1> QED
    BY <1>1, <1>2, <1>3, <1>4, <1>5 DEF Call

(* What remains of a call after its lock section. *)
LEMMA ContinueKeeps ==
  ASSUME IInv, NEW t \in Thread, Continue(t), UNCHANGED listener
  PROVE  IInv'
<1>1. PICK place \in Places : Go(t, place)
    BY DEF Continue, OnArm, DisarmNotify, AfterDisarm, CloseNotify, CloseJoin, Places
<1>2. pc' \in [Thread -> Places]
    BY <1>1, GoKeepsPlaces DEF IInv, TypeOK, Places
<1>3. UNCHANGED <<core, timer, snap, stale, seen>>
    BY DEF Continue, OnArm, DisarmNotify, AfterDisarm, CloseNotify, CloseJoin, timerV
<1>4. told' = told \/ told' = told + 1 \/ told' = told - 1
    BY DEF Continue, OnArm, DisarmNotify, AfterDisarm, CloseNotify, CloseJoin
<1>5. woken' = woken \/ woken' = TRUE
    BY DEF Continue, OnArm, DisarmNotify, AfterDisarm, CloseNotify, CloseJoin, timerV
<1>6. told' \in Int
    BY <1>4 DEF IInv, TypeOK, GateTypeOK
<1>7. woken' \in BOOLEAN
    BY <1>5, Zenon DEF IInv, TypeOK, GateTypeOK
<1> QED
    BY <1>2, <1>3, <1>6, <1>7
    DEF IInv, TypeOK, GateTypeOK, DeadlineKept, WaitsForDeadline, core, seen, listener,
        Places, Long

(* The thread of the timer. *)
LEMMA TimerKeeps ==
  ASSUME IInv, Timer, UNCHANGED listener
  PROVE  IInv'
<1> USE DEF IInv, TypeOK, GateTypeOK, DeadlineKept, WaitsForDeadline, core, timerV, seen,
            listener, Long
<1>1. CASE TimerStarts
    BY <1>1 DEF TimerStarts, Loop
<1>2. CASE TimerWakes
    BY <1>2 DEF TimerWakes, Loop
<1>3. CASE TimerExpires
    BY <1>3 DEF TimerExpires
<1>4. CASE TimerCalled
    <2>1. told' \in Int
        BY <1>4 DEF TimerCalled
    <2>2. Loop /\ UNCHANGED <<core, pc, seen>>
        BY <1>4 DEF TimerCalled
    <2> QED
        BY <2>1, <2>2 DEF Loop
<1> QED
    BY <1>1, <1>2, <1>3, <1>4 DEF Timer

(* What a thread that brings audio does. *)
LEMMA ListenKeeps ==
  ASSUME IInv, NEW f \in Feeder, AcceptPcm(f) \/ Listen(f)
  PROVE  IInv'
<1> USE DEF IInv, TypeOK, GateTypeOK, DeadlineKept, WaitsForDeadline, core, timerV, seen,
            listener
<1>0. f \in Thread /\ pc \in [Thread -> Places] /\ Long \in Nat
    BY DEF Places, Long
<1>1. CASE AcceptPcm(f)
    <2>1. pc' \in [Thread -> Places]
        BY <1>0, <1>1, GoKeepsPlaces DEF AcceptPcm, Places
    <2> QED
        BY <1>1, <2>1 DEF AcceptPcm, Places
<1>2. CASE Detect(f)
    <2>1. pc' \in [Thread -> Places]
        BY <1>0, <1>2, GoKeepsPlaces DEF Detect, Places
    <2>2. age' \in [Feeder -> 0 .. MaxAge]
        BY <1>2 DEF Detect
    <2> QED
        BY <1>2, <2>1, <2>2 DEF Detect, Places
<1>3. CASE Admit(f)
    <2>1. PICK place \in Places : Go(f, place)
        BY <1>3 DEF Admit, Places
    <2>2. pc' \in [Thread -> Places]
        BY <1>0, <2>1, GoKeepsPlaces
    <2> QED
        BY <1>3, <2>2 DEF Admit, Places
<1>4. CASE Fire(f)
    <2>1. PICK place \in Places : Go(f, place)
        BY <1>4 DEF Fire, TryWakeup, Places
    <2>2. pc' \in [Thread -> Places]
        BY <1>0, <2>1, GoKeepsPlaces
    <2>3. \/ Arm /\ UNCHANGED <<speaking, closed, told>>
          \/ UNCHANGED <<core, timerV, told, seen>>
        BY <1>4 DEF Fire, TryWakeup
    <2>4. UNCHANGED listener
        BY <1>4 DEF Fire
    <2>5. CASE Arm /\ UNCHANGED <<speaking, closed, told>>
        BY <2>2, <2>4, <2>5 DEF Arm, RefreshTimeoutLocked, Places
    <2>6. CASE UNCHANGED <<core, timerV, told, seen>>
        BY <2>2, <2>4, <2>6 DEF Places
    <2> QED
        BY <2>3, <2>5, <2>6
<1>5. CASE Noted(f)
    <2>1. pc' \in [Thread -> Places]
        BY <1>0, <1>5, GoKeepsPlaces DEF Noted, OnArm, Places
    <2> QED
        BY <1>5, <2>1 DEF Noted, OnArm, Places
<1>6. CASE Note(f)
    <2>1. pc' \in [Thread -> Places]
        BY <1>0, <1>6, GoKeepsPlaces DEF Note, Places
    <2>2. age' \in [Feeder -> 0 .. MaxAge] /\ since' \in 0 .. Long
        BY <1>6 DEF Note, Long
    <2>3. Long' = Long
        BY DEF Long
    <2> QED
        BY <1>6, <2>1, <2>2, <2>3 DEF Note, Places
<1> QED
    BY <1>1, <1>2, <1>3, <1>4, <1>5, <1>6 DEF Listen

(* A tick brings the deadline as much nearer as it lengthens the silence. *)
LEMMA TimePassesKeeps ==
  ASSUME IInv, TimePasses
  PROVE  IInv'
<1>1. GateTypeOK' /\ DeadlineKept' /\ WaitsForDeadline'
    BY DEF TimePasses, Tick, Pred, IInv, TypeOK, GateTypeOK, DeadlineKept, WaitsForDeadline
<1>2. age' \in [Feeder -> 0 .. MaxAge]
    BY DEF TimePasses, IInv, TypeOK
<1>3. since' \in 0 .. Long /\ Long' = Long
    BY DEF TimePasses, IInv, TypeOK, Long
<1> QED
    BY <1>1, <1>2, <1>3 DEF TimePasses, Tick, IInv, TypeOK

LEMMA NextKeeps == IInv /\ [Next]_vars => IInv'
<1> SUFFICES ASSUME IInv, [Next]_vars PROVE IInv'
    OBVIOUS
<1>1. CASE UNCHANGED vars
    BY <1>1 DEF vars, gateVars, listener, core, timerV, seen, IInv, TypeOK, GateTypeOK,
                DeadlineKept, WaitsForDeadline, Long
<1>2. ASSUME NEW t \in Thread, CloseListener(t) PROVE IInv'
    BY <1>2 DEF CloseListener, gateVars, core, timerV, seen, IInv, TypeOK, GateTypeOK,
                DeadlineKept, WaitsForDeadline, Long
<1> QED
    BY <1>1, <1>2, CallKeeps, ContinueKeeps, TimerKeeps, ListenKeeps, TimePassesKeeps
    DEF Next

LEMMA Invariance == Spec => []IInv
<1> QED
    BY InitEstablishes, NextKeeps, PTL DEF Spec

(* Every variable of the gate and of its listener keeps its type: the ticks    *)
(* never leave their bounds, and each thread is at a place of the code.      *)
THEOREM TypeCorrect == Spec => []TypeOK
<1>1. IInv => TypeOK
    BY DEF IInv
<1> QED
    BY <1>1, Invariance, PTL

-----------------------------------------------------------------------------
(* The threads at one of some places, and how their number changes when a     *)
(* thread moves.                                                           *)
Among(f, S) == { t \in Thread : f[t] \in S }

LEMMA AmongIsFinite ==
  ASSUME NEW f, NEW S
  PROVE  IsFiniteSet(Among(f, S)) /\ Cardinality(Among(f, S)) \in Nat
<1>1. Among(f, S) \subseteq Thread
    BY DEF Among
<1> QED
    BY <1>1, ThreadAssumption, FS_Subset, FS_CardinalityType

LEMMA MovesIn ==
  ASSUME NEW S, NEW t \in Thread, NEW place \in S, pc \in [Thread -> Places],
         pc[t] \notin S, Go(t, place)
  PROVE  Cardinality(Among(pc', S)) = Cardinality(Among(pc, S)) + 1
<1>1. Among(pc', S) = Among(pc, S) \cup {t}
    BY DEF Among, Go
<1>2. t \notin Among(pc, S)
    BY DEF Among
<1> QED
    BY <1>1, <1>2, AmongIsFinite, FS_AddElement

LEMMA MovesOut ==
  ASSUME NEW S, NEW t \in Thread, NEW place, place \notin S, pc \in [Thread -> Places],
         pc[t] \in S, Go(t, place)
  PROVE  Cardinality(Among(pc', S)) = Cardinality(Among(pc, S)) - 1
<1>1. Among(pc', S) = Among(pc, S) \ {t}
    BY DEF Among, Go
<1>2. t \in Among(pc, S)
    BY DEF Among
<1>3. IsFiniteSet(Among(pc, S)) /\ Cardinality(Among(pc, S)) \in Nat
    BY AmongIsFinite
<1>4. Cardinality(Among(pc, S) \ {t}) = Cardinality(Among(pc, S)) - 1
    BY <1>2, <1>3, FS_RemoveElement
<1> QED
    BY <1>1, <1>4

LEMMA MovesAside ==
  ASSUME NEW S, NEW t \in Thread, NEW place, pc \in [Thread -> Places],
         pc[t] \in S <=> place \in S, Go(t, place)
  PROVE  Cardinality(Among(pc', S)) = Cardinality(Among(pc, S))
<1>1. Among(pc', S) = Among(pc, S)
    BY DEF Among, Go
<1> QED
    BY <1>1

(* The books of EveryChangeIsTold, entry by entry. *)
Arming == Cardinality(Among(pc, {"on_arm"}))
Telling == Cardinality(Among(pc, {"notify", "after_disarm"}))
Expiring == IF timer = "callback" THEN 1 ELSE 0
Open == IF step = "Active" THEN 1 ELSE 0

Books == told + Arming - (Telling + Expiring) = Open

LEMMA BooksTell == EveryChangeIsTold <=> Books
<1>1. { t \in Thread : pc[t] = "on_arm" } = Among(pc, {"on_arm"})
    BY DEF Among
<1>2. { t \in Thread : pc[t] \in {"notify", "after_disarm"} }
        = Among(pc, {"notify", "after_disarm"})
    BY DEF Among
<1> QED
    BY <1>1, <1>2 DEF EveryChangeIsTold, Books, Arming, Telling, Expiring, Open

(* What is known of a thread that moves, for all the lemmas below. *)
LEMMA Counted ==
  ASSUME IInv
  PROVE  /\ Arming \in Nat /\ Telling \in Nat /\ told \in Int
         /\ pc \in [Thread -> Places]
BY AmongIsFinite DEF Arming, Telling, IInv, TypeOK, GateTypeOK, Places

(* A thread that moves elsewhere leaves both counts alone. *)
LEMMA MovesElsewhere ==
  ASSUME IInv, NEW t \in Thread, NEW place, Go(t, place),
         pc[t] \notin {"on_arm", "notify", "after_disarm"},
         place \notin {"on_arm", "notify", "after_disarm"}
  PROVE  Arming' = Arming /\ Telling' = Telling
<1>1. pc \in [Thread -> Places]
    BY Counted
<1>2. Cardinality(Among(pc', {"on_arm"})) = Cardinality(Among(pc, {"on_arm"}))
    BY <1>1, MovesAside
<1>3. Cardinality(Among(pc', {"notify", "after_disarm"}))
        = Cardinality(Among(pc, {"notify", "after_disarm"}))
    BY <1>1, MovesAside
<1> QED
    BY <1>2, <1>3 DEF Arming, Telling

(* A thread that goes to its on_arm, and one that returns from it. *)
LEMMA GoesToArm ==
  ASSUME IInv, NEW t \in Thread, Go(t, "on_arm"),
         pc[t] \notin {"on_arm", "notify", "after_disarm"}
  PROVE  Arming' = Arming + 1 /\ Telling' = Telling
<1>1. pc \in [Thread -> Places]
    BY Counted
<1>2. Cardinality(Among(pc', {"on_arm"})) = Cardinality(Among(pc, {"on_arm"})) + 1
    BY <1>1, MovesIn
<1>3. Cardinality(Among(pc', {"notify", "after_disarm"}))
        = Cardinality(Among(pc, {"notify", "after_disarm"}))
    BY <1>1, MovesAside
<1> QED
    BY <1>2, <1>3 DEF Arming, Telling

LEMMA ReturnsFromArm ==
  ASSUME IInv, NEW t \in Thread, NEW place, Go(t, place), pc[t] = "on_arm",
         place \notin {"on_arm", "notify", "after_disarm"}
  PROVE  Arming' = Arming - 1 /\ Telling' = Telling
<1>1. pc \in [Thread -> Places]
    BY Counted
<1>2. Cardinality(Among(pc', {"on_arm"})) = Cardinality(Among(pc, {"on_arm"})) - 1
    BY <1>1, MovesOut
<1>3. Cardinality(Among(pc', {"notify", "after_disarm"}))
        = Cardinality(Among(pc, {"notify", "after_disarm"}))
    BY <1>1, MovesAside
<1> QED
    BY <1>2, <1>3 DEF Arming, Telling

(* The calls: only the change of step_ has an entry. *)
LEMMA CallBooks ==
  ASSUME IInv, Books, NEW t \in Thread, Call(t)
  PROVE  Books'
<1> USE DEF Books, Expiring, Open
<1>0. Arming \in Nat /\ Telling \in Nat /\ told \in Int /\ step \in {"Idle", "Active"}
    BY Counted DEF IInv, TypeOK, GateTypeOK
<1>1. CASE Activate(t)
    <2>1. UNCHANGED <<told, timer>> /\ step' = "Active"
        BY <1>1 DEF Activate, Arm, RefreshTimeoutLocked
    <2>2. CASE step = "Idle"
        <3>1. Arming' = Arming + 1 /\ Telling' = Telling
            BY <1>1, <2>2, GoesToArm DEF Activate, At
        <3> QED
            BY <1>0, <2>1, <2>2, <3>1
    <2>3. CASE step = "Active"
        <3>1. Arming' = Arming /\ Telling' = Telling
            BY <1>1, <2>3, MovesElsewhere DEF Activate, At
        <3> QED
            BY <1>0, <2>1, <2>3, <3>1
    <2> QED
        BY <1>0, <2>2, <2>3
<1>2. CASE Disarm(t)
    <2>1. UNCHANGED <<told, timer>> /\ step = "Active" /\ step' = "Idle"
        BY <1>2 DEF Disarm
    <2>2. pc[t] = "idle" /\ Go(t, "notify") /\ pc \in [Thread -> Places]
        BY <1>2, Counted DEF Disarm, At
    <2>3. Cardinality(Among(pc', {"on_arm"})) = Cardinality(Among(pc, {"on_arm"}))
        BY <2>2, MovesAside
    <2>4. Cardinality(Among(pc', {"notify", "after_disarm"}))
            = Cardinality(Among(pc, {"notify", "after_disarm"})) + 1
        BY <2>2, MovesIn
    <2>5. Arming' = Arming /\ Telling' = Telling + 1
        BY <2>3, <2>4 DEF Arming, Telling
    <2> QED
        BY <1>0, <2>1, <2>5
<1>3. CASE RefreshTimeout(t) \/ SetAiSpeaking(t)
    <2>1. speaking \in BOOLEAN
        BY DEF IInv, TypeOK, GateTypeOK
    <2>2. timer' = timer
        BY <1>0, <1>3, <2>1 DEF RefreshTimeout, SetAiSpeaking, RefreshTimeoutLocked, timerV
    <2>3. UNCHANGED <<told, step, pc>>
        BY <1>3 DEF RefreshTimeout, SetAiSpeaking
    <2> QED
        BY <2>2, <2>3 DEF Arming, Telling
<1>4. CASE Close(t)
    <2>1. UNCHANGED <<told, timer, step>>
        BY <1>4 DEF Close
    <2>2. Arming' = Arming /\ Telling' = Telling
        BY <1>4, MovesElsewhere DEF Close, At
    <2> QED
        BY <2>1, <2>2
<1> QED
    BY <1>1, <1>2, <1>3, <1>4 DEF Call

(* on_arm and after_disarm turn an entry that is owed into one that is made. *)
LEMMA ContinueBooks ==
  ASSUME IInv, Books, NEW t \in Thread, Continue(t)
  PROVE  Books'
<1> USE DEF Books, Expiring, Open
<1>0. Arming \in Nat /\ Telling \in Nat /\ told \in Int /\ pc \in [Thread -> Places]
    BY Counted
<1>1. UNCHANGED <<timer, step>>
    BY DEF Continue, OnArm, DisarmNotify, AfterDisarm, CloseNotify, CloseJoin, timerV, core
<1>2. CASE OnArm(t, "idle")
    <2>1. Arming' = Arming - 1 /\ Telling' = Telling
        BY <1>2, ReturnsFromArm DEF OnArm, At
    <2>2. told' = told + 1
        BY <1>2 DEF OnArm
    <2> QED
        BY <1>0, <1>1, <2>1, <2>2
<1>3. CASE DisarmNotify(t)
    <2>1. pc[t] = "notify" /\ Go(t, "after_disarm") /\ told' = told
        BY <1>3 DEF DisarmNotify, At
    <2>2. Cardinality(Among(pc', {"on_arm"})) = Cardinality(Among(pc, {"on_arm"}))
        BY <1>0, <2>1, MovesAside
    <2>3. Cardinality(Among(pc', {"notify", "after_disarm"}))
            = Cardinality(Among(pc, {"notify", "after_disarm"}))
        BY <1>0, <2>1, MovesAside
    <2> QED
        BY <1>1, <2>1, <2>2, <2>3 DEF Arming, Telling
<1>4. CASE AfterDisarm(t)
    <2>1. pc[t] = "after_disarm" /\ Go(t, "idle") /\ told' = told - 1
        BY <1>4 DEF AfterDisarm, At
    <2>2. Cardinality(Among(pc', {"on_arm"})) = Cardinality(Among(pc, {"on_arm"}))
        BY <1>0, <2>1, MovesAside
    <2>3. Cardinality(Among(pc', {"notify", "after_disarm"}))
            = Cardinality(Among(pc, {"notify", "after_disarm"})) - 1
        BY <1>0, <2>1, MovesOut
    <2>4. Arming' = Arming /\ Telling' = Telling - 1
        BY <2>2, <2>3 DEF Arming, Telling
    <2> QED
        BY <1>0, <1>1, <2>1, <2>4
<1>5. CASE CloseNotify(t) \/ CloseJoin(t)
    <2>1. told' = told
        BY <1>5 DEF CloseNotify, CloseJoin
    <2>2. PICK place \in {"join", "idle"} : Go(t, place) /\ pc[t] \in {"close_notify", "join"}
        BY <1>5 DEF CloseNotify, CloseJoin, At
    <2>3. Arming' = Arming /\ Telling' = Telling
        BY <2>2, MovesElsewhere
    <2> QED
        BY <1>1, <2>1, <2>3
<1> QED
    BY <1>2, <1>3, <1>4, <1>5 DEF Continue

(* The timer owes an after_disarm from the expiry on. *)
LEMMA TimerBooks ==
  ASSUME IInv, Books, Timer
  PROVE  Books'
<1> USE DEF Books, Expiring, Open
<1>0. Arming \in Nat /\ Telling \in Nat /\ told \in Int /\ step \in {"Idle", "Active"}
    BY Counted DEF IInv, TypeOK, GateTypeOK
<1>1. Arming' = Arming /\ Telling' = Telling
  <2>1. pc' = pc
      BY DEF Timer, TimerStarts, TimerWakes, TimerExpires, TimerCalled
  <2> QED
      BY <2>1 DEF Arming, Telling
<1>2. CASE TimerStarts
    BY <1>1, <1>2 DEF TimerStarts, Loop, core
<1>3. CASE TimerWakes
    <2>1. timer # "callback" /\ timer' # "callback"
        BY <1>3 DEF TimerWakes, Waiting, Loop
    <2>2. UNCHANGED <<told, step>>
        BY <1>3 DEF TimerWakes, core
    <2> QED
        BY <1>1, <2>1, <2>2
<1>4. CASE TimerExpires
    <2>1. step = "Active" /\ timer = "timed_wait"
        BY <1>0, <1>4 DEF TimerExpires, Due, Awaited
    <2> QED
        BY <1>0, <1>1, <1>4, <2>1 DEF TimerExpires
<1>5. CASE TimerCalled
    <2>1. timer' # "callback"
        BY <1>5 DEF TimerCalled, Loop
    <2> QED
        BY <1>0, <1>1, <1>5, <2>1 DEF TimerCalled, core
<1> QED
    BY <1>2, <1>3, <1>4, <1>5 DEF Timer

(* The listener changes the gate only by a wake word. *)
LEMMA ListenBooks ==
  ASSUME IInv, Books, NEW f \in Feeder, AcceptPcm(f) \/ Listen(f)
  PROVE  Books'
<1> USE DEF Books, Expiring, Open
<1>0. /\ Arming \in Nat /\ Telling \in Nat /\ told \in Int
      /\ f \in Thread /\ step \in {"Idle", "Active"}
    BY Counted DEF IInv, TypeOK, GateTypeOK
<1>1. CASE AcceptPcm(f) \/ Detect(f) \/ Admit(f) \/ Note(f)
    <2>1. UNCHANGED <<told, timer, step>>
        BY <1>1 DEF AcceptPcm, Detect, Admit, Note, core, timerV
    <2>2. PICK place \in {"idle", "engine", "admit", "fire"} : Go(f, place)
        BY <1>1 DEF AcceptPcm, Detect, Admit, Note
    <2>3. pc[f] \in {"idle", "engine", "admit", "note"}
        BY <1>1 DEF AcceptPcm, Detect, Admit, Note, At
    <2>4. Arming' = Arming /\ Telling' = Telling
        BY <1>0, <2>2, <2>3, MovesElsewhere
    <2> QED
        BY <2>1, <2>4
<1>2. CASE Fire(f)
    <2>1. pc[f] = "fire"
        BY <1>2 DEF Fire, At
    <2>2. \/ step = "Idle" /\ Arm /\ Go(f, "on_arm") /\ told' = told
          \/ Go(f, "idle") /\ UNCHANGED <<core, timerV, told>>
        BY <1>2 DEF Fire, TryWakeup
    <2>3. CASE step = "Idle" /\ Arm /\ Go(f, "on_arm") /\ told' = told
        <3>1. Arming' = Arming + 1 /\ Telling' = Telling
            BY <1>0, <2>1, <2>3, GoesToArm
        <3>2. step' = "Active" /\ timer' = timer
            BY <2>3 DEF Arm, RefreshTimeoutLocked
        <3> QED
            BY <1>0, <2>3, <3>1, <3>2
    <2>4. CASE Go(f, "idle") /\ UNCHANGED <<core, timerV, told>>
        <3>1. Arming' = Arming /\ Telling' = Telling
            BY <1>0, <2>1, <2>4, MovesElsewhere
        <3> QED
            BY <2>4, <3>1 DEF core, timerV
    <2> QED
        BY <2>2, <2>3, <2>4
<1>3. CASE Noted(f)
    <2>1. Arming' = Arming - 1 /\ Telling' = Telling
        BY <1>0, <1>3, ReturnsFromArm DEF Noted, OnArm, At
    <2>2. told' = told + 1 /\ UNCHANGED <<step, timer>>
        BY <1>3 DEF Noted, OnArm, core, timerV
    <2> QED
        BY <1>0, <2>1, <2>2
<1> QED
    BY <1>1, <1>2, <1>3 DEF Listen

(* What is told about the gate adds up, for any number of threads: neither a   *)
(* wake word nor a dismissal nor an expiry is told twice or not at all,      *)
(* however the lock sections and the callbacks of gate.cpp interleave.       *)
THEOREM EveryChangeIsToldAlways == Spec => []EveryChangeIsTold
<1>1. Init => Books
  <2> SUFFICES ASSUME Init PROVE Books
      OBVIOUS
  <2>1. Among(pc, {"on_arm"}) = {} /\ Among(pc, {"notify", "after_disarm"}) = {}
      BY DEF Init, GateInit, Among
  <2>2. Arming = 0 /\ Telling = 0
      BY <2>1, FS_EmptySet DEF Arming, Telling
  <2>3. told = 0 /\ Expiring = 0 /\ Open = 0
      BY DEF Init, GateInit, Expiring, Open
  <2> QED
      BY <2>2, <2>3 DEF Books
<1>2. IInv /\ Books /\ [Next]_vars => Books'
  <2> SUFFICES ASSUME IInv, Books, [Next]_vars PROVE Books'
      OBVIOUS
  <2>1. CASE UNCHANGED <<told, pc, timer, step>>
      BY <2>1 DEF Books, Arming, Telling, Expiring, Open
  <2>2. CASE UNCHANGED vars
      BY <2>1, <2>2 DEF vars, gateVars, core, timerV
  <2>3. CASE TimePasses
      BY <2>1, <2>3 DEF TimePasses, Tick
  <2>4. ASSUME NEW t \in Thread, CloseListener(t) PROVE Books'
      BY <2>1, <2>4 DEF CloseListener, gateVars, core, timerV
  <2> QED
      BY <2>2, <2>3, <2>4, CallBooks, ContinueBooks, TimerBooks, ListenBooks DEF Next
<1> QED
    BY <1>1, <1>2, Invariance, BooksTell, PTL DEF Spec

-----------------------------------------------------------------------------
(* The steps that SilenceTimer knows nothing of. *)
Hidden == UNCHANGED <<step, speaking, quiet, why, closed>>

(* Each thread of the gate and of the listener does what SilenceTimer allows.  *)
LEMMA StepsImplement ==
  ASSUME IInv, [Next]_vars
  PROVE  [Silence!TimerNext]_(Silence!timerVars)
<1> USE DEF Silence!TimerNext, Silence!timerVars
<1>0. /\ step \in {"Idle", "Active"} /\ speaking \in BOOLEAN
      /\ (step = "Active" => left + quiet = Timeout /\ why = "none")
      /\ left \in Nat /\ quiet \in 0 .. Timeout
    BY DEF IInv, TypeOK, GateTypeOK, DeadlineKept
<1>1. CASE Hidden
    BY <1>1 DEF Hidden
<1>2. CASE Arm /\ UNCHANGED <<speaking, closed>>
    <2>1. step' = "Active" /\ quiet' = 0 /\ why' = "none"
        BY <1>2 DEF Arm, RefreshTimeoutLocked
    <2>2. CASE step = "Idle"
        BY <1>2, <2>1, <2>2 DEF Silence!Wake
    <2>3. CASE step = "Active"
        BY <1>0, <1>2, <2>1, <2>3 DEF Silence!Sign
    <2> QED
        BY <1>0, <2>2, <2>3
<1>3. ASSUME NEW t \in Thread, Call(t) PROVE [Silence!TimerNext]_(Silence!timerVars)
    <2>1. CASE Activate(t)
        BY <1>2, <2>1 DEF Activate
    <2>2. CASE Disarm(t)
        BY <2>2 DEF Disarm, Silence!Dismiss
    <2>3. CASE RefreshTimeout(t)
        BY <2>3 DEF RefreshTimeout, RefreshTimeoutLocked, Silence!Sign
    <2>4. CASE SetAiSpeaking(t)
        <3>1. speaking' = ~speaking /\ UNCHANGED <<step, closed, why>>
            BY <2>4 DEF SetAiSpeaking
        <3>2. quiet' = IF step = "Active" /\ speaking THEN 0 ELSE quiet
            BY <1>0, <2>4 DEF SetAiSpeaking, RefreshTimeoutLocked
        <3> QED
            BY <3>1, <3>2 DEF Silence!Speak
    <2>5. CASE Close(t)
        BY <2>5 DEF Close, seen, Silence!Finish
    <2> QED
        BY <1>3, <2>1, <2>2, <2>3, <2>4, <2>5 DEF Call
<1>4. ASSUME NEW t \in Thread, Continue(t) PROVE Hidden
    BY <1>4 DEF Continue, OnArm, DisarmNotify, AfterDisarm, CloseNotify, CloseJoin, core, seen,
                Hidden
<1>5. ASSUME NEW f \in Feeder, AcceptPcm(f) \/ Detect(f) \/ Admit(f) \/ Noted(f) \/ Note(f)
      PROVE  Hidden
    BY <1>5 DEF AcceptPcm, Detect, Admit, Noted, OnArm, Note, core, seen, Hidden
<1>6. ASSUME NEW f \in Feeder, Fire(f) PROVE [Silence!TimerNext]_(Silence!timerVars)
    <2>1. (Arm /\ UNCHANGED <<speaking, closed>>) \/ UNCHANGED <<core, seen>>
        BY <1>6 DEF Fire, TryWakeup
    <2> QED
        BY <1>1, <1>2, <2>1 DEF Hidden, core, seen
<1>7. CASE Timer
    <2>1. CASE TimerStarts \/ TimerWakes \/ TimerCalled
        BY <1>1, <2>1 DEF TimerStarts, TimerWakes, TimerCalled, core, seen, Hidden
    <2>2. CASE TimerExpires
        <3>1. step = "Active" /\ ~speaking /\ ~closed /\ left = 0
            BY <1>0, <2>2 DEF TimerExpires, Due, Awaited, IInv, WaitsForDeadline
        <3>2. quiet = Timeout
            BY <1>0, <3>1
        <3> QED
            BY <2>2, <3>1, <3>2 DEF TimerExpires, Silence!Expire
    <2> QED
        BY <1>7, <2>1, <2>2 DEF Timer
<1>8. CASE TimePasses
    <2>1. UNCHANGED <<step, speaking, closed, why>>
          /\ quiet' = IF quiet < Timeout THEN quiet + 1 ELSE quiet
        BY <1>8 DEF TimePasses, Tick
    <2> QED
        BY <2>1 DEF Silence!Pass
<1>9. CASE UNCHANGED vars \/ \E t \in Thread : CloseListener(t)
    BY <1>1, <1>9 DEF vars, gateVars, core, seen, CloseListener, Hidden
<1> QED
    BY <1>1, <1>3, <1>4, <1>5, <1>6, <1>7, <1>8, <1>9 DEF Next, Listen

(* The gate takes no step that SilenceTimer does not: whatever threads call it *)
(* and however long the timeout is, no conversation expires before it has     *)
(* been left alone for the whole timeout, or while the AI speaks.  That it    *)
(* expires in the end is left to the run.                                    *)
THEOREM TimerStepsImplemented ==
  Spec => Silence!TimerInit /\ [][Silence!TimerNext]_(Silence!timerVars)
<1>1. Init => Silence!TimerInit
    BY DEF Init, GateInit, Silence!TimerInit
<1>2. IInv /\ [Next]_vars => [Silence!TimerNext]_(Silence!timerVars)
    BY StepsImplement
<1> QED
    BY <1>1, <1>2, Invariance, PTL DEF Spec
=============================================================================
