----------------------------- MODULE Supervisor -----------------------------
(***************************************************************************)
(* RunSupervisedWorkers of src/src/config/application.cpp: the main thread  *)
(* watches the workers, and when the first of them ends, or a signal has    *)
(* arrived, stops them in reverse order, joins them and rethrows the first  *)
(* error.  What a worker does in its run() is left open: it may return or   *)
(* throw at any time.  Service says what the real workers do.              *)
(***************************************************************************)
EXTENDS Naturals, Sequences

CONSTANT Workers  (* the workers, in the order they are started *)

ASSUME WorkersAssumption ==
  /\ Workers \in Seq(STRING) /\ Workers # <<>>
  /\ \A i, j \in 1 .. Len(Workers) : Workers[i] = Workers[j] => i = j
  /\ \A i \in 1 .. Len(Workers) : Workers[i] # "none"

VARIABLES
  sup,         (* the main thread                                          *)
  toStop,      (* how many workers are still to be stopped                 *)
  signal,      (* g_shutdown_signal                                        *)
  stopAll,     (* stop_requested                                           *)
  firstError,  (* first_error: the worker it came from                     *)
  wk           (* the thread of each worker                                *)

supVars == <<sup, toStop, signal, stopAll, firstError, wk>>

Worker == { Workers[i] : i \in 1 .. Len(Workers) }
WorkerPc == {"running", "returned", "recording", "announcing", "ending", "done"}

(* A worker's run() is over. *)
Ended(w) == wk[w] # "running"
Completed == \A w \in Worker : wk[w] = "done"

-----------------------------------------------------------------------------
(* The thread around a worker's run(). *)

To(w, pc) == wk' = [wk EXCEPT ![w] = pc]

RunReturns(w) ==
  /\ wk[w] = "running" /\ To(w, "returned")
  /\ UNCHANGED <<sup, toStop, signal, stopAll, firstError>>

RunThrows(w) ==
  /\ wk[w] = "running" /\ To(w, "recording")
  /\ UNCHANGED <<sup, toStop, signal, stopAll, firstError>>

(* To return without having been told to stop is an error.                 *)
CheckReturn(w) ==
  /\ wk[w] = "returned"
  /\ To(w, IF stopAll THEN "ending" ELSE "recording")
  /\ UNCHANGED <<sup, toStop, signal, stopAll, firstError>>

(* record_error: the error under the mutex, the flag after it. *)
RecordError(w) ==
  /\ wk[w] = "recording" /\ To(w, "announcing")
  /\ firstError' = IF firstError = "none" THEN w ELSE firstError
  /\ UNCHANGED <<sup, toStop, signal, stopAll>>

AnnounceError(w) ==
  /\ wk[w] = "announcing" /\ To(w, "ending")
  /\ stopAll' = TRUE
  /\ UNCHANGED <<sup, toStop, signal, firstError>>

CountCompleted(w) ==
  /\ wk[w] = "ending" /\ To(w, "done")
  /\ UNCHANGED <<sup, toStop, signal, stopAll, firstError>>

WorkerThread(w) ==
  CheckReturn(w) \/ RecordError(w) \/ AnnounceError(w) \/ CountCompleted(w)

-----------------------------------------------------------------------------
(* The main thread. *)

ShutdownSignal ==
  /\ ~signal /\ signal' = TRUE
  /\ UNCHANGED <<sup, toStop, stopAll, firstError, wk>>

(* The predicate is evaluated, and the decision taken, under the mutex.    *)
WatchEnds ==
  /\ sup = "watch"
  /\ firstError # "none" \/ Completed \/ signal
  /\ stopAll' = (stopAll \/ firstError # "none" \/ signal)
  /\ sup' = IF stopAll' THEN "stopping" ELSE "joining"
  /\ UNCHANGED <<toStop, signal, firstError, wk>>

(* The worker whose stop() is called next, the last one first. *)
Next2Stop == Workers[toStop]

(* Its stop() has returned; what it throws is ignored. *)
StopReturned ==
  /\ sup = "stopping" /\ toStop > 0
  /\ toStop' = toStop - 1
  /\ UNCHANGED <<sup, signal, stopAll, firstError, wk>>

AllStopped ==
  /\ sup = "stopping" /\ toStop = 0 /\ sup' = "joining"
  /\ UNCHANGED <<toStop, signal, stopAll, firstError, wk>>

(* Mutant: the error is not rethrown. *)
JoinedAllQuietly ==
  /\ sup = "joining" /\ Completed /\ sup' = "returned"
  /\ UNCHANGED <<toStop, signal, stopAll, firstError, wk>>

(* Every thread has been joined. *)
JoinedAll ==
  /\ sup = "joining" /\ Completed
  /\ sup' = IF firstError = "none" THEN "returned" ELSE "rethrown"
  /\ UNCHANGED <<toStop, signal, stopAll, firstError, wk>>

MainThread == WatchEnds \/ StopReturned \/ AllStopped \/ JoinedAll

-----------------------------------------------------------------------------
SupInit ==
  /\ sup = "watch" /\ toStop = Len(Workers)
  /\ signal = FALSE /\ stopAll = FALSE /\ firstError = "none"
  /\ wk = [w \in Worker |-> "running"]

SupNext ==
  \/ ShutdownSignal
  \/ MainThread
  \/ \E w \in Worker : RunReturns(w) \/ RunThrows(w) \/ WorkerThread(w)

SupSpec == SupInit /\ [][SupNext]_supVars

-----------------------------------------------------------------------------
(* Every variable of the supervisor stays within its type. *)
SupTypeOK ==
  /\ sup \in {"watch", "stopping", "joining", "returned", "rethrown"}
  /\ toStop \in 0 .. Len(Workers)
  /\ signal \in BOOLEAN /\ stopAll \in BOOLEAN
  /\ firstError \in Worker \cup {"none"}
  /\ wk \in [Worker -> WorkerPc]

(* RunSupervisedWorkers returns without an error only after a signal: however *)
(* the ends of the workers meet the decisions of the main thread, a service  *)
(* that has come to nothing is never reported as completed.                *)
NoSilentEnd == sup = "returned" => signal

(* The joins never wait for a worker that nobody has told to stop.          *)
JoinedWereTold == sup = "joining" => toStop = 0 \/ Completed

=============================================================================
