# Verification of soundbox-server

TLA+ models, TLC runs and TLAPS proofs for the control plane of
`soundbox-server`, the service that connects a Xiaoai speaker ("the device")
with the xiaozhi assistant. Everything is translated from the C++ code under
`src/src/`; `PROJECT.json` names, for every definition, the lines it stands for.

## 1. The system

### Components, their state and how they interact

| Component | State | Operations | Modelled in |
|---|---|---|---|
| **Frontend** (`frontend/soundbox_frontend.cpp`) | `state_`, four atomic gates, event queue, stop flag, two generation counters, client, two Unix sockets, reader thread | `Run`, `Stop`, `PostEvent`, the event thread and its handlers, `EnterSessionInitAndRestart`, KWS control reader, client callbacks, data-plane writes | `Frontend`, `SessionLifecycle` |
| **AudioPipe** (`frontend/soundbox/audio_pipe.cpp`) | bounded queue, running flag, statistics | `Start`, `Stop`, `Clear`, `Push`, `Pop` | `AudioPipe` |
| **SoundBoxClient** (`frontend/soundbox/client.cpp`) | running flag, WebSocket, connection flags, mode, guard, hub | `Start`, `Stop`, `NotifyLlmStart/Stop`, `Call`, `OpenConnection`, restart of the audio link, callbacks | `SoundboxLink`, `ClientPromise`; `Frontend` as its caller sees it |
| **ModeController**, **CommandGuard** | mode; idempotence flags | change and force the mode; decide on a command, note its success | `CommandGuard`, `SoundboxLink`; `Frontend` (`llm_start`, `llm_stop`) |
| **AudioRouter** | worker thread | route a packet by mode; join | `AudioPath`; `Frontend` (its writes) |
| **ResponseHub** | retained responses, closed flag | `Notify`, `Wait`, `Close`, `Reset` | `ResponseHub`, used by `SoundboxLink` |
| **LlmClient** (`llm/llm_client.cpp`) | two TCP channels, two readers, connected flag | `Connect`, `Disconnect`, `SendSessionStart/End`, `SendAudio`, reader loops | `LlmClient`; `Frontend` (link, session, command reader) |
| **KWS and AEC servers** (`apm/`) | one connection each | `Run`, `HandleClient`, `Stop` | `Service`; `Frontend` (hits, losses) |
| **Supervisor** (`config/application.cpp`) | first error, completed workers, stop flag | start, watch, stop and join the workers | `Supervisor`; `Service` composes it with the three workers |
| **Start-up and configuration** (`config/application.cpp`, `main.cpp`) | options; the file `apm.yaml`; the paths of the sockets | command line, write the defaults, load, validate, remove old sockets, bind | `ConfigFile`, `Startup` |
| **Packets and events** (`packet_parser.cpp`, `event_dispatcher.cpp`) | the triggers of the native wake word | classify a frame; recognise a wake word in an event of the device | `AudioPath` (classification), `NativeKws`, used by `Startup` |
| **KWS gate, trigger, listener** (`apm/kws/gate.cpp`, `trigger.cpp`, `local_listener.cpp`) | step, deadline, epoch, thread of the timeout; keywords; time of the last trigger | `TryWakeup`, `Activate`, `Disarm`, `RefreshTimeout`, `SetAiSpeaking`, `Close`, the timeout loop; `AcceptPcm` | `Gate`, `LocalListener`, `SilenceTimer` |

The device streams recorded audio over a WebSocket. `AudioPipe` queues it,
`AudioRouter` sends it, by audio mode, to the KWS server (idle) or to the AEC
server (conversation). A hit of the KWS server, or a wake word recognised by the
device, is posted as an event to the Frontend, which opens a session at xiaozhi,
switches the device to conversation mode, and closes both when xiaozhi sends
`session_end` or the device's wake word interrupts. The loss of a connection
leads to a reconnect of everything.

The gate, the trigger and the listener are built with the service, and neither the other parts
nor the tests call them. They are modelled for whoever does: any number of threads, in any order.

### What is hard

* Eight kinds of threads meet in the Frontend: the worker in `Run`, the event
  thread, the KWS control reader, the WebSocket thread, the detached thread of a
  native wake word, the router, the command reader of `LlmClient`, and whoever
  calls `Stop`. State is read under one lock and used under another, or none.
* A reconnect replaces the client, both sockets and the reader while the other
  threads hold callbacks and descriptors of the old ones. Generation counters
  are meant to silence those.
* The session exists three times (in `state_`, in the mode of the client, at
  xiaozhi), and each copy changes by a call that can fail.
* `Stop` may come at any moment and joins four threads.
* A xiaozhi that does not read blocks whoever sends to it, with a mutex that `Disconnect` needs, and a
  handler that throws leaves its session half way.
* The audio queue must drop the right audio, keep exact books, and wake the
  router.
* The device changes the format of its audio by a command, with a queue and three
  threads between it and the consumer that expects one format.
* The gate's own thread waits for a deadline that every other thread may move, suspend or make
  pointless in the instant it passes.
* Several processes, one after the other or side by side, share a configuration
  file and the paths of their sockets, and any of them may be killed.

### What makes each part correct

* *Frontend*: state, gates, audio mode, sockets and the session at xiaozhi agree
  whenever the event thread is between two events; a loss is never unnoticed;
  no socket is pulled away under the router; reconnects, interrupts and stops
  come to an end.
* *AudioPipe*: limits, order, books, and no lost wake-up.
* *SoundBoxClient, ResponseHub*: after every call the mode is one that agrees with
  the device, or the loss is reported; a late or lost answer is harmless; no call waits
  past its deadline, and connecting and stopping never wait for each other.
* *LlmClient*: both channels go down together, a descriptor is closed once and by its
  owner, and when the client is gone no reader is left.
* *Supervisor and servers*: one failed worker ends them all, the first error is the
  one reported, the joins return, and a server survives its client.
* *Start-up*: a configuration file means what it says, whatever the order of its
  lines; what an earlier process left behind does not keep the next one from serving.
* *Gate*: a conversation ends after a whole timeout of silence, never earlier; every change is
  told once; closing comes back.
* *Packets and events*: the device is heard as the configuration says, in any encoding of the
  characters.
* *Audio path*: no consumer gets audio in the format of the other, and each gets its own
  as long as its mode lasts.

## 2. Plan

Order of work; all of it is done.

1. `Frontend` with `SessionLifecycle`, its abstract specification; `MCFrontend`.
2. `AudioPipe`.
3. `AudioPipeProofs`, `FrontendProofs`.
4. `Supervisor`, `Service`, which composes the supervisor with the servers of the local
   sockets and the Frontend as they see it, and `ServiceProofs` about both.
5. `SoundboxLink` with `ResponseHub` and `CommandGuard`: the client, its connection,
   its waits, and the device.
6. `LlmClient` and `LlmClientProofs`: two channels, two readers, `Disconnect` from any
   thread.
7. `AudioPath`: the audio from the device to the router while its format is switched.
8. `ConfigFile` and `Startup`: what a process reads, writes, removes and binds before it
   serves, beside others.
9. `SilenceTimer`, an abstract specification of the gate; `Gate` and `LocalListener`, which
   implement it; `GateProofs`.
10. `NativeKws`: wake words in the events of the device, beside the configuration they come from.
11. `AudioPathProofs`: `QueueMatchesMode` and `OneStrayChunk`; `ModeMatchesSession`, `KwsLossNoticed`
    and `RouterKeepsItsSocket` in `FrontendProofs`.
12. `SoundboxLinkProofs`: `UsableOrReported` and `ModeMatchesDevice`.
13. `StartupProofs`: `ServesItself` and `LoadedAsWritten`; the types of the service; `WithinLimits` of
    the queue, with its byte account.
14. `ClientPromise`, an abstract specification of the calls of the client, which
    `SoundboxLink` implements and `Frontend` assumes; its proof in `SoundboxLinkProofs`.
15. `HeardAsConfigured`, by induction over the characters of a text, in `StartupProofs`.

## 3. The modules

### Frontend

One program counter per thread: `run`, `ev`, `rd`, `cb`, `nk`, `rt`, `lr`,
`stopPc`. A handler of the event thread is one action where it only touches
state of the Frontend, and a chain of actions where it calls out (a response, a
stop, a connect), so that the other threads run in between. In particular

* `EnterSessionInitAndRestart` is `RelinkEnter`, `RelinkStopClient`,
  `RelinkCloseSockets`, `RelinkNewClient`, `RelinkStarted`, `RelinkConnect`,
  `RelinkJoinReader`, or `RelinkFail`;
* `Stop` is `StopFlag`, `StopClient`, `StopLlm`, `StopSockets`, `StopLoop`,
  `StopJoinEventThread`, `StopJoinReader`, executed by the supervisor or by `Run`
  itself, at the same time if it so happens;
* `HandleSessionStart` is itself, `SendWakeupAck`, `SendSessionStart`, `PrepareLlmStart`,
  `LlmStartReturns` and `SendSessionEndOnFailure`; the interrupt is `HandleSoundboxNativeKws`, `SendSessionEnd`,
  `PrepareLlmStop` and `FinishSessionStop`;
* `stop_cv_.wait` is `RunCheckStop` and `RunPark`: the notification is not sent
  under the mutex of the wait, so it may fall between the two.

A send to xiaozhi may block: `SendBlocks` puts the event thread (at one of `EvSends`) or the
AEC server, which sends what it has processed, into `blocked`, and each holds the mutex of its channel until
xiaozhi reads (`XzReads`) or the connection is lost (`LlmDrop`). `StopLlm`, the `Disconnect` of `Stop`,
waits for both. The `catch` of `EventLoop` reconnects, unless a stop is requested. What can throw in a handler, short of
the operating system failing, is the acknowledgement: `SpeakText` serialises a text of the
configuration, which throws if that is not UTF-8 (client.cpp:544), after the connection is there. It is the second half
of `SendWakeupAck`.

Abstractions. The generation counters are only compared with a captured value:
`cliCur`, `nkCur`, `rdCur` say whether the captured one is current. The client is
what its calls promise: a call succeeds (`CallSucceeds`), or fails
(`CallFails`), in which case the client has restarted its audio link or has given
up the connection and reported it; the mode `Fault` exists only inside that call.
`ws = "deaf"` is a connection that the WebSocket library reopened by itself: the
response hub is still closed, so every call on it fails. Destroying a client that
another thread is using is undefined behaviour: `crashed` may become true or not.
A write to a closed socket throws in the router thread, where nothing catches it:
`crashed`. The environment has a budget per kind of event (`EnvBudgets`).

### SessionLifecycle

The diagram of a conversation, without threads, queues or sockets: phases, the
session at xiaozhi, the link. It says that xiaozhi is asked before the device is
switched, that a refused or interrupted conversation is ended at xiaozhi too (if
the link is up), and which changes of state exist. A loss, or an error while it is being started
(`Lose`), ends a conversation wherever it is but between the session at xiaozhi and the
switch of the device. `Frontend` implements it
(`ImplementsLifecycle`) with the mapping `phase <- Phase`, `upstream <- xz`,
`link <- llm`.

### AudioPipe

Every operation runs under `mu_`, which `holder` models; the loops that drop
packets are steps of their own. A notification is sent after the lock is released
(`ring`, `Notify`), as in the code. Packets are their number of arrival and size.

### Supervisor and Service

`Supervisor` is `RunSupervisedWorkers` for any sequence of workers whose `run()` may
return or throw at any time. The thread around a worker has a step per lock section
(`RecordError`, `AnnounceError`, `CountCompleted`), the main thread one for the end
of the watch, one per `stop()`, and one for the joins.

`Service` extends it with the pipeline of `application.cpp`: the KWS server, the AEC
server and the Frontend. `conns` holds, per server, the connections its listening
socket has, the one served first; the kernel completes a connect before the server
accepts it, so a connection can wait in the backlog with audio in it. `link` is the
end the Frontend holds. The Frontend is reduced to what its sockets see: `Run`, the
event thread's reconnect, and `Stop`, which the supervisor or a failing `Run`
executes (`fs`). The servers differ where the code differs: the KWS server looks at
its flag between two reads, the AEC server only between two clients; the KWS server
writes to its client, the AEC server throws on a client that leaves inside a frame.
`history` remembers that a late thread has cleared a stop request (`"forgotten"`)
and that a socket was opened after `Frontend::Stop` had closed them (`"late"`).
The AEC server sends what it has processed to xiaozhi before it reads on, and the event thread tells xiaozhi of
sessions: either may block there (`"send"`, `Stalled`), and `StopLlm`, the `Disconnect` of
`Frontend::Stop`, waits for them.
`Service` extends `Supervisor`: the supervisor's actions appear as conjuncts of its own. That the two servers and the
Frontend are among the workers (`IsPipeline`) is checked with the run and is a hypothesis of the
theorems about the service; the supervisor itself takes any workers.

Abstractions. At most one chunk is unread per connection; a chunk that consists of
whole AEC frames changes nothing and is left out. Closing a socket delivers what was
sent before, then the end of file. `HandleClient` throws in the model where its
client's behaviour makes it throw, not on errors of the operating system.

### SoundboxLink, ResponseHub, CommandGuard

`SoundboxLink` is one client from its `Start` on. Two threads call it: `op`, the event
thread (or `Run`, which starts it), and `st`, which executes `Frontend::Stop`. What a
thread has still to do is a sequence of commands and steps, `todo`: `Start`, `Stop` and
`Restart` are such sequences, and `Fails` says what a failing command puts in the place
of the rest. Within a command, `pc` is where the thread is: deciding (`Prepare`,
`TryEnter`), making sure of the connection (`Ensure`, `OpenReset`, `OpenReplace`,
`OldEnded`, `OpenStart`, `OpenAwait`, and `CloseMove` when that fails), sending, waiting.
Each section under `conn_mu_` is one step; only the destructor that `OpenReplace` calls
keeps the lock for longer (`ConnFree`).

The library runs a thread per WebSocket (`lib`): it connects, calls the message callback
(`OnOpen`, `OnClose` with `OnCloseHub`, `OnCloseMode` and `OnCloseTell`, `OnResponse`),
connects again by itself after a loss, and ends once `stop()` or the destructor has asked
it to, both of which wait for it. This is how IXWebSocket behaves, the version whose
sources the repository carries in `third_party`. The device carries out commands in
order, answers, refuses, is late, or falls silent; a lost connection loses what is
under way. `ResponseHub` has one action per operation: each holds its mutex from
beginning to end, and `Wait` is one look under it. `CommandGuard` is the table of
decisions.

Abstractions. An id is any that is not in use. A deadline may pass at any time, within
the budget `late` if the answer is still under way. The audio pipe and the router of the
client are in `AudioPipe` and `Frontend` and left out here. Starting a WebSocket through a
null pointer ends the behaviour (`crashed`).

`SoundboxLink` is what the client of `Frontend` stands on: `UsableOrReported` and
`ClientPromise` are the assumption behind `CallSucceeds` and `CallFails`, and `CallsReturnUnlessStuck` names the case in which the other
assumption, that every call returns, does not hold.

### ClientPromise

What a `SoundBoxClient` promises to its caller, without connections, requests or threads:
how far its life has got (`phase`), the call it is in, the mode it shows, and what the device
records for. In service, a call that returns leaves behind what was asked for, `LlmWorking` with a
device in a conversation, or else `Kws` with one that waits for the wake word (`Left`); `run_shell` and
`xiaoai_exit` leave both alone, and so does everything between the calls: a late answer and a late command
too. A `llm_start` that fails turns into a call that ends in `Kws` (`Works`). If the restart of the link fails
as well the client gives up (`GivesUp`), and then does not return before the loss is reported
(`Reports`). After a loss (`LosesLink`) a call may return with any mode, but between
the calls the mode can only fall to `Stopped` (`Drifts`). Once stopped, the client is never in service again
(`Ends`); what it shows from then on is not promised. `SoundboxLink` implements it (`KeepsPromise`) with
`Phase` and `CallKind` for the first two variables; the call is named by the last step of the plan of `op`.

### LlmClient

The two TCP channels to xiaozhi. `main` connects, and stops the client once the workers
are joined and the Frontend is destroyed; `aec` and `ev` send, `stop` executes the
`Disconnect` of `Frontend::Stop`, and `audio` and `command` are the readers. `Disconnect` is
three steps (`CloseChannel` for each channel, `ClearConnected`), executed by whoever calls
it, several at a time if it so happens. A sender holds the mutex of its channel (`mu`)
while it sends, which lasts as long as xiaozhi does not read.

Descriptors are numbers, which the kernel hands out lowest first: `owner` says what a
number stands for now, `readFd` which number a reader has looked up, and `reads` which
socket it is blocked on. A reader that has looked up a number before it was closed may
read from another socket of the process (`ReaderSteals`). The callbacks point to the
Frontend; calling them after it was destroyed is undefined (`crashed`). `inbox` counts
messages, or pieces of a line; what the messages say decides between the alternatives
of `ReaderGets`. Retrying a connect is the choice between `ConnectChannel` and
`ConnectFails`.

### AudioPath

The device, the WebSocket thread (`Receive`), the queue, the thread of the router and
the caller of the client, on one connection that stays up. `device` is what the device
records: one channel after `fast_recording` and `llm_stop`, two after `llm_start`. Frames
come in order, so every chunk of the old format is in the queue, or past it, when the
answer to the switch arrives; then the caller clears the queue (`ClearPipe`) and sets the
mode (`ForceEnter`). The router pops first and reads the mode afterwards
(`RouterPop`, `RouterLook`): the chunk in its `hand` is the one that clearing misses.

`caller` is the place in `Start`, `NotifyLlmStart`, `NotifyLlmStop`, the restart after a
failure and `Stop`. `Next` has an action for every call to the pipe, the router and the
mode. A call is `Ask` and then `Answered` or `TimesOut`; the answer of a call that has
timed out may still come. Each operation of the queue is one step here: `AudioPipe` has
their insides, `SoundboxLink` the loss of the connection.

### ConfigFile and Startup

`ConfigFile` has no state: `DefaultFile` is what `WriteDefaultConfig` writes, `Load` what
`LoadConfigFile` makes of a file, one line after the other (`ReadLine`), with the section,
the subsection and the list that are open. A line is its indentation, key and value; of
the options one of each kind is kept, with the keys that set them (`Keys`, `OptionOf`), and
values are tokens (`"10"` and `"40"` for numbers).
Beside it stands what a file means by the rules of YAML, from the structure of the
whole file instead of a state (`Parent`, `Path`, `Setters`, `Meaning`), and which files obey those
rules (`WellFormed`).

`Startup` has processes that share files and paths. A process goes from `Launch` through
`Look`, `Create`, `Write`, `Read`, `Check`, `Clean` and `ConnectLlm` to its two servers, which
`Unlink` and `Bind`, and leaves by an error, a signal (`End`, `CloseServer`, `Exit`) or by being
killed (`Die`). Every access to the file system is a step of its own. `sock` is a function over
the paths where a socket lies, and says who was bound to it: a socket file whose process is gone
stays. A process id is used again
once its process is gone. `WriteDefaultConfig` tests the state of the stream before the
text is flushed, so on a full disk `Write` leaves a part of the file (`Cut`) and goes on. Two that
write at the same time both start at the beginning: of the longer text the end stays (`Overwrite`).

### NativeKws

No state: `MatchNativeTextKws` and `Handle` are what `EventDispatcher` makes of the triggers of
the configuration and of an event of the device. A text is a sequence of bytes, as in the code,
which takes out blanks, and punctuation of one to three bytes, by the length that
`Utf8CharLength` reads from the first byte of a character. Beside it stands what was meant: a text is a sequence of
characters, `Symbols` are those that do not count, and `Wanted` is the first trigger with
which the text ends, compared character by character. The alphabet is a constant, `Encoding`, of which
`EncodingAssumption` says that it is UTF-8 (`Utf8` has the ranges of the first byte from the
standard, not from `Utf8CharLength`), that no two characters have the same bytes, and that `Symbols` are those
whose bytes the code leaves out. `Joined` is the loop that appends to a string or a vector. `Startup` extends it, so that the triggers
are those that a process has read from its file.

### Gate, LocalListener and SilenceTimer

`SilenceTimer` is what the gate promises, without its thread, its lock or its condition variable.
`Gate` has one action per lock section, and steps of their own for the notification after it, for
the callbacks and for the join. `timer` is where the thread of the timeout is: in one of its three
waits, in a callback, or ended. `snap` is its copy of the deadline, `stale` whether `timeout_epoch_`
has moved since the copy was made, `woken` whether a notification is under way. Times are
ticks from now, so a `Tick` brings the deadline and the copy nearer. A wait may end for no
reason at any time. `quiet` and `why` are history.

`LocalListener` extends it with threads that bring audio (`Feeder`): `AcceptPcm` looks at the
gate, runs the engine, looks at the interval since the last trigger (`Admit`), tries the gate
(`Fire`) and notes the time (`Note`), each in a section of its own. `Matches` is the trigger.

Abstractions. The callbacks do not call `Close`: the timer thread would join itself. A hit is at
most `MaxAge` ticks on its way.

## 4. The runs

| Run | What it shows | States |
|---|---|---|
| `frontend` | `TypeOK`, `ModeMatchesSession`, `KwsLossNoticed`, `StartedHasUpstream`, `RouterKeepsItsSocket`, `ImplementsLifecycle`, `LossIsHandled`, `InterruptEndsSession`, `StopReturns` | 380 thousand |
| `audio_pipe` | `TypeOK`, `Accounted`, `WithinLimits`, `OldestLeavesFirst`, `PopperWakes` | 44 thousand |
| `service` | `TypeOK`, `NoSilentEnd`, `StopEnds`, `LinkIsServed` | 390 thousand |
| `soundbox_link` | `TypeOK`, `UsableOrReported`, `ModeMatchesDevice`, `KeepsPromise`, `CallsReturnUnlessStuck` | 210 thousand |
| `llm_client` | `TypeOK`, `OwnsItsDescriptors`, `GoneIsQuiet`, `LossTakesBoth`, `StopEnds` | 150 thousand |
| `audio_path` | `TypeOK`, `QueueMatchesMode`, `AudioGetsThrough` | 510 thousand |
| `startup` | `LoadedAsWritten`, `HeardAsConfigured`, `ServesItself` | 150 thousand |
| `gate` | `EveryChangeIsTold`, `ImplementsSilenceTimer`, `CloseReturns` | 230 thousand |
| `frontend_relink` | violated: `ReconnectCompletes` | |
| `frontend_stop` | violated: `StopEndsRun` | |
| `service_client` | violated: `KwsOutlivesClient` | |
| `audio_path_stray` | violated: `NoStrayChunk` | |

**Bounds.** `Budgets` of `MCFrontend` are ten combinations of environment events, each event
at most once per behaviour; the combinations put together the events that
interact (a failing call, `session_end`, a native wake word and a lost xiaozhi; two losses; an acknowledgement that
throws and a loss; a xiaozhi that does not read with an interrupt, a loss or a stop; a loss and a stop). One
occurrence of each is enough for every pair of threads to meet at every point; what more of one kind can do is a second
reconnect or a second conversation, which the combinations with two losses and with
two wake words contain. The safety properties are theorems for every budget besides. `AudioPipe` has two packets and four bytes
of room and chunks of one, two, three and five bytes: a chunk may fit, may displace
one or several packets, or may never fit.

`Service` has the three workers of the pipeline and, per behaviour, one of: a bind
that fails; a loss of the device and a client that does not start; a loss of the
device, a chunk of audio in flight and a send that blocks; the same without the loss, but with a signal. A signal
may come at any time in all but one of these. The backlog is
two (`listen(1)` queues two on Linux), so a third connection would wait; it takes two
reconnects in flight to fill it, and the event thread does one at a time.

`CallBudgets` of `SoundboxLink`: three calls with two late answers, a refusal and a
failing connection; two calls with a lost connection and a failing one; two calls with a
lost connection and a device that falls silent; and a stop by the other thread at any
moment of the start. Every call may fail at any of its commands and then restarts the
link, so a behaviour has up to twenty commands. Three WebSockets suffice: one in `ws_`
and one that each thread waits for. Two retained responses instead of 256 make the
eviction happen.

`LinkBudgets` of `LlmClient`: a connect that fails; two sends with a xiaozhi that stops
reading and closes a channel; two messages, a channel that is closed and another
socket that takes over its descriptor; a send with both channels closed and such a
socket. Three descriptors suffice for the two channels and that socket. A stop may come
at any time.

`AudioPath` has two conversations with a late answer, a refused command and a broken frame,
each at any time. Two frames on their way and a queue of two suffice for a chunk of the
old format at every place at once, and for the queue to drop. The second conversation
starts from the state that the first, or its failure, leaves.

`Startup` has two processes, two process ids and two files: two processes are enough for
each to be in the way of the other, or to inherit its id. `MCScenarios` are: nothing written
yet, with one file or two; a full disk; a directory set by hand that holds old sockets; and, for
a single start, every file of up to three of twelve lines and every well-formed file of
five. The twelve lines have every kind of line, each as it may follow the others;
five are enough for a nested section between two others. Process ids are symmetric. The file of
defaults is one of the well-formed files and means the defaults (`DefaultsMeanThemselves`).
`MCHeard` are all texts of one or two characters, and those with one character before and one
behind a fixed one, over an alphabet with characters of every length from one to three bytes,
punctuation of every length, and blanks: a trigger can be the whole of a text, its end, or its end but for punctuation.

`Gate` has two callers, a thread that brings audio and the timer's thread: two callers
are enough for a change to meet another between its lock section and its callback. A timeout of two
ticks has a deadline that is new, half gone and due; with an interval of two and an age of one, a hit
is too early, just in time, or older than the trigger before it.

**Deadlock** is not checked for the Frontend, the clients, the audio path, the starts and the service: once the budgets are
spent and the service is stopped, nothing more happens. It is checked for `AudioPipe`.

**Fairness.** Weak fairness for every thread of the process: each of them is
runnable unless it waits for something the model shows. Strong fairness only for
the two actions that stop a client: `AudioRouter::Stop` first tells the router to
end, after which it takes no further packet, so a router that is busy now and then
cannot keep the join waiting for ever. A write of the router to an AEC server that is blocked itself is not
forced. Nothing is assumed of the environment by the fairness. Where a property depends on a xiaozhi that reads, it says so:
`LossIsHandled` and `StopReturns`, and `StopEnds` and `LinkIsServed` of `Service`, are implications from
`XzKeepsReading`, that nobody waits in a send for ever.
`Service` assumes weak fairness of every thread and nothing of the device, of xiaozhi or of the
signal. `SoundboxLink` assumes weak fairness of the callers, of the threads of the library and
of the device, which may be late or silent within the budgets; a wait needs no
assumption on the device, since its deadline passes.
`LlmClient` assumes weak fairness of every thread and nothing of xiaozhi.
`AudioPath` assumes weak fairness of the threads and that the device goes on to answer and to
record, which `AudioGetsThrough` is about. `LocalListener` assumes that time passes, that callbacks
and the engine return, and that the timer's thread runs when it was notified or its deadline has passed;
it does not assume that a wait ends for no reason, so a forgotten notification would show.
`Startup` has no fairness: its properties are safety.
`AudioPipe` assumes that an operation which holds the mutex is carried through and
that its notification is sent.

### What the violations show

* `frontend_relink`: the event thread stores the new KWS socket before it joins the
  old reader. A reader between its look at the stop flag and its `read` enters the
  new socket, and the join waits for the KWS server to speak. No audio is routed
  meanwhile, so it never does. `LossIsHandled` therefore claims no more than that
  the session leaves service, and `StopReturns` excludes that reader.
* `frontend_stop`: `Stop` notifies without the mutex; between the predicate and the
  wait of `Run` the notification is lost, and `Run` does not return.
* `service_client`: a reconnect closes the KWS socket; the server still reads the
  audio sent before, recognises the wake word in it, and its write fails. The error
  leaves `Run`, and the service ends in the middle of an ordinary reconnect.
* `audio_path_stray`: the router has a chunk of one channel in hand when the queue is cleared and the mode
  set; it looks at the mode afterwards, and gives the chunk to the echo cancellation. The comments at the
  two calls of `Clear` (client.cpp:252 and 292) say that clearing prevents this.

### What the passing runs leave out by name

Some properties hold only with an exception, which is what the code does:

* `StopEnds` of `Service` takes a xiaozhi that goes on reading, without which `StopLlm` waits, and names three
  ways in which stopping does not end even so: a stop request
  cleared by a worker that starts late (`"forgotten"`), the notification of `frontend_stop`
  (`Overslept`), and `Stranded`: `Frontend::Stop` closes the sockets before it has waited for
  the event thread, whose reconnect then opens new ones; the AEC server reads from the
  new one and never looks at its flag, and the supervisor joins it for ever. With those
  three and the sends apart, stopping ends in all that the model has.
* `CallsReturnUnlessStuck` names one way for a call not to return (`Stuck`): a call finds the
  connection lost and opens a new one (client.cpp:392). It assigns `ws_` under `conn_mu_`, which
  destroys the old WebSocket, which waits for the thread of the library. That thread has just
  reconnected, or failed to, and its callback waits for `conn_mu_`. The run shows that there is no
  other way.
* `ImplementsSilenceTimer` is about a gate that is open: `Close` ends the timer's thread, and a gate
  that is activated after it never expires. The flag of the AI's speech survives a dismissal, so a next
  conversation that begins with it set does not expire either, until it is cleared.
* `EveryChangeIsTold` is about the number of the callbacks. They run outside the lock, so `on_arm` of
  one change may come after `after_disarm` of the next. `CloseReturns` is about the first `Close`; a
  second one returns while the first still joins.
* `LossIsHandled` covers the losses that are posted. Nothing reads from the AEC socket
  (`AecDrop`), so its end does not lead to the reconnect that the table of src/README.md:147 has for it, until
  the next write throws.
* `LossIsHandled` and `StopReturns` assume a xiaozhi that goes on reading. An event thread in a send to one that
  does not holds `command_mu_`, and the `Disconnect` of `Stop`, which by the comment at
  soundbox_frontend.cpp:360-361 is there to wake what is blocked, waits for that mutex before it could close the socket.
* `QueueMatchesMode` is about the queue. The one chunk that may be in the hand of the router is that of
  `audio_path_stray`; that it is never more than one (`OneStrayChunk`) is proved only. After a restart of the link nothing is
  claimed: `RestartSoundboxAudioLink` clears the queue before the device has stopped recording.
* `ServesItself` excludes processes with the same directory that live at the same time. That
  happens without anybody setting one: the first start writes its own process id into `apm.yaml`
  (`socket_dir`), and every later start with that file takes it from there, although the comment
  at application.cpp:209 says that the id keeps instances apart.
* `LoadedAsWritten` is about well-formed files, whoever wrote them. A file cut off by a full disk,
  which is not noticed, may be one, and is then loaded without a complaint; the options that it lost keep their defaults.
* `HeardAsConfigured` is about the text of an event. A result without a text, and without
  `is_vad_begin`, counts as a wake word by itself. The detached thread that reports it may come after a wake word
  in a later event, as `Frontend` explores.
* The interval between two triggers of the listener is looked at in one section and noted in another:
  two threads that bring audio may both pass. A chunk that was under way when the listener was
  closed still opens the gate, unless the closing is seen at `Admit`; a closed listener goes on to
  feed the engine, outside its mutex, while local_listener.hpp says that audio is ignored then and
  that the mutex guards the engine.

## 5. The proofs

Every theorem is about the specification that the runs check, for all values of its constants
that satisfy the assumptions named in its module; TLC evaluates those assumptions in the runs. Two
facts that the provers do not have are derived where they are needed: induction over the natural
numbers (`ByInduction`), for a set of numbers, from the well-foundedness of `<`; and the largest element
of a bounded set of numbers (`MaxThere`), by that induction.

`AudioPipeProofs` proves, for all limits and sizes: `TypeOK`, `Accounted`, `WithinLimits` and
`OldestLeavesFirst`. The inductive invariants
add to the properties what they need about the chunk in the hands of `Push`: it is
younger than everything queued. That the byte account is exact (`BytesExact`) rests on what
appending and taking off do to a sum over the queue, by induction over its length.

`FrontendProofs` proves, for every set of budgets:

* `TypeCorrect`: the types, one lemma per thread;
* `StartedHasUpstreamAlways`: the invariant `SInv` has five parts. `HandlerInState`
  ties the position of the event thread to `state_`; `BeforeRun` and `LoopRuns` say
  that the loop runs while there may be something to serve; `RunStops` says that a
  `Stop` executed by `Run` itself is one that Run waits for; `EndIsComing` is the
  property without its restriction to a settled session: it must also hold while the
  event thread is inside a handler, since `xz` may go idle at any of those points.
  The proof separates the steps by what they can disturb: steps of other threads
  leave the session alone (`Calm`) or leave the handler alone (`Quiet`), and only
  steps of the event thread are examined one by one (`Serving`);
* `LifecycleImplemented`: every step of every thread, the exception of the acknowledgement among them, is a step of
  `SessionLifecycle` or leaves its variables unchanged, by `HandlerInState`;
* `ModeMatchesSessionAlways`, `KwsLossNoticedAlways` and `RouterKeepsItsSocketAlways`, from the
  invariant `LInv`. Its parts follow a reconnect: `ModeExpected` names, for each point of the event
  thread, the mode its next step counts on, unless the loss of the connection is on its way
  (`LossComing`); `DownIsLoss` and `ClientCurrent` say that a broken connection is on its way, and that the
  callback that brings it still belongs to the current client; `Watched` is the KWS property
  without its restriction to a settled session, because the generation of the reader changes in the middle of
  a reconnect; `SocketsThere` and `RouterQuiet` say that the sockets are missing only while the
  router has been stopped. `FirstClient` and `NothingYet` cover the start, when `Run` and the event thread
  overlap. As for `SInv`, the steps of the other threads are dealt with in a few frame lemmas.

`AudioPathProofs` proves, for any limits and any budget, `TypeOK`, `QueueMatchesMode` and `OneStrayChunk`. The
argument goes against the stream. The request the caller waits for is the last one on the
line (`LastRequest`), so that when its answer is sent the device has nothing else to carry out;
behind that answer the wire holds only the format the device has switched to (`AnswersLast`), and that is
still so when the caller has it in hand (`AnswerIsTrue`). So once the queue was cleared only audio of the new
format can come (`ComesInFormat`, `QueueInFormat`), and a chunk of the old one can only be in
the hand of the router (`StrayOnce`).

`GateProofs` proves, for any threads, timeout, interval and keywords: `TypeOK`, which is proved only;
`EveryChangeIsTold`; and that every step of the gate and its listener is a step of `SilenceTimer` or
leaves its variables alone (`TimerStepsImplemented`). Two parts of the invariant carry
the last one: while the gate is active, the time to the deadline and the silence add up to
the timeout (`DeadlineKept`), and a copy of the deadline whose epoch is not stale is the deadline
(`WaitsForDeadline`), so the expiry finds a whole timeout of silence. `EveryChangeIsTold` is
proved as books (`Books`): how many threads are about to call which callback, and how that number changes
when one thread moves (`MovesIn`, `MovesOut`, `MovesAside`).

`ServiceProofs` proves of the supervisor, for any sequence of workers, `SupTypeOK`, `NoSilentEnd` and
`JoinedWereTold`. The invariant says that a stop has a cause (an
error is recorded or a signal has come), that a worker's thread past its record has an
error recorded or was told to stop, and that the main thread leaves the stops only when
none is left. They carry over to the service (`ServiceNeverEndsSilently`), whose steps are steps of the
supervisor or leave its variables alone by the way it is built (`ServiceIsSupervised`). Of the service it also proves, for
any budget, `TypeOK`: a listening socket holds no more
than its backlog and the connection it serves, and where the Frontend has a link that is up, or a server serves, there
is a connection.

`SoundboxLinkProofs` proves, for any number of WebSockets and any budget, `TypeOK`, `UsableOrReported`,
`ModeMatchesDevice` and `KeepsPromise`. First come the sequences a thread can have to do: `Plans` is the set of all rests
of a start, a stop, a restart and the single commands, and every step leaves a rest of the same call
(`PlanSteps`, `InCall`, `After1`). `Types`, `Places` and `Owners` tie the place of a thread to
the step it is at, and a thread of the library to `ws_` or to a thread that waits for its end. The two properties
are about a client that nobody stops (`Alone`) and whose connection is not known to be lost (`Serving`). There is then
one connection (`OneLink`): `ws_` is set while the start opens it, and up or about to report an error
ever after. Ids are fresh, so the answer that a command takes is that of its own request, which is
the last one on the line (`AnswersLast`): what the device was asked before, a late command of an earlier call
included, it has done or refused when the answer is sent. So at the end of a successful command the device is where the
command wants it, and what is still on the line does not move it (`FreeOnly`), which is what
`Agree` says between the calls. `Flags` is the part about the guard: between two calls either the client is
stopped and says so, or playback and recording are on.
The same invariant, before and after a step, gives the refinement (`PromiseKept`). A step that ends the solitude of
the client ends its life in the promise (`NotAlonePromise`, by `AloneBefore`). Of the others, a step of the library or of
the device moves neither mode nor device between the calls (`OutsideFree`), and when it notices a loss it changes nothing
else (`OutsideNotices`); a step of the calling thread that ends a call in service is one of a few (`ModeReturns`,
`OpReturns`), and `Agree` after it says what is left behind.

`StartupProofs` proves three things, for any processes, ids, files and scenarios.
`ServesItself` needs that those alive at the same time have met (`AliveHaveMet`), that a process has its options
when it touches a socket (`Stages`), and that a step touches no path but those in the directory
of its process (`SocketsTouched`); the path is free from `Unlink` to `Bind`, and then the server's own, since nobody else who lives
has that directory (`BeginsToBind`, `BeginsToListen`). `LoadedAsWritten` is a theorem about files first (`LoadIsMeaning`):
for every well-formed file, of any length, the reader that keeps a section, a subsection and a list
finds what the structure of the whole file says. The induction over the lines carries `Tracks`: after `n` lines the section
is that of the last line that is less indented than two (`InSection`), the subsection or the list that of
the last one less indented than four, and the value of an option is that of the last line so far
that sets it (`ValueAt`), with the items so far (`Upto`). A header, an entry, an item and a comment each keep it
(`HeaderTracked`, `EntryTracked`, `ItemTracked`, `CommentTracked`); that a list stays open until its last item holds because
between its key and an item of it there are only items (`OnlyItemsBetween`). The state machine adds
that a process reads nothing but files, whoever writes them meanwhile (`HasFile`), and that its
options are those of the file it has read, with the defaults of its own id (`HasLoaded`).

`HeardAsConfigured` is, after that, a theorem about texts (`HandledAsWanted`). After as many rounds as the text has
characters, the loop of `NormalizeNativeKwsText` stands behind them and has kept what is `Spoken`, whatever bytes
follow (`CharsTaken`, `TakenBy`), and the rounds that are left do nothing (`NormalizedIs`). That the suffix of the bytes
is one of characters (`SuffixesEncoded`) needs that no code ends with another one: the first byte of the shorter would be a
later byte of the longer (`NotWithin`, `LastCode`). The first trigger that a text hits among those that were kept is the first
among those that were set (`FirstKept`). The assumptions are those of `NativeKws` on the alphabet,
that the device has heard at least one character (`HeardAssumption`), and that the items of the files there at first can be spelled
(`Spelled` in `ScenariosAssumption`), which `IsKept` carries on to every file, the default one included, also when it is cut off, and
`MeaningSpelled` to the triggers that are loaded. The recursive functions are shown to
exist first (`JoiningExists`, `ScanningExists`).

`LlmClientProofs` proves `TypeOK`, `OwnsItsDescriptors` and `GoneIsQuiet`, for any number
of descriptors and any budgets. Neither is inductive as it stands: a free descriptor
must not be one that the client still holds, and an open channel must be one that
it knows (`OpenOnce`, `NoneForgotten`), which in turn rests on `Connect` running alone
(`ConnectsAlone`, `OpenedSoFar`); `StopOrder` follows the destructor. That the lowest free
descriptor exists is the well-foundedness of the natural numbers.

Every invariant of the passing runs is a theorem. Only model-checked: `DefaultsMeanThemselves`, which is an
assumption of `Startup` that TLC evaluates; and what is outside the reach of the prover, that is all liveness (`LossIsHandled`,
`InterruptEndsSession`, `StopReturns`, `PopperWakes`, `StopEnds`, `LinkIsServed`, `LossTakesBoth`, `CallsReturnUnlessStuck`, `AudioGetsThrough`,
`CloseReturns`, and the fairness that `ImplementsSilenceTimer` includes).

## 6. Not modelled

* Signal processing (`webrtc_processor`, `kws_zipformer`, the keyword files of the engine), WAV files
  and the conversion of audio frames: numbers and formats without protocol state.
* Logging, with `RateLimitedLogger` and the sink that drops repeated lines.
* The loops that carry a read or a write on over a partial result (`unix_socket.cpp`): a frame is read
  or written whole, or the connection is lost inside it. `ParseControlMessageLine`: a line is a
  `session_start` or is rejected.
* Splitting the URL and the token (`ExtractUrlAndToken`).
* Exceptions inside a handler of the event thread other than that of the acknowledgement (`SendWakeupAck`): the
  other messages are of fixed texts, and memory or threads that the system does not give are left out.
* Sending audio and speech to the device (`PlayPcm`, `SpeakText`): they change no state of the
  client. `ResetPlayback`, which nobody calls and which is two of the commands of a restart.
* Comments, quotes and lists in one line of the configuration: a line is what remains of it.
  The options that are like one of those kept.
* The callbacks of the gate and the engine of the listener: whatever they do, they return.
* Lines on the KWS socket other than `session_start`: the server writes no others.
