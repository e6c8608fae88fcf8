------------------------------ MODULE Startup -------------------------------
(***************************************************************************)
(* Starts of the service, one after the other or side by side, up to the    *)
(* point where its two servers listen, and how a process ends: main,        *)
(* ParseOptions and RunPipeline of src/src/config/application.cpp with the  *)
(* sockets of src/src/common/unix_socket.cpp.  What the workers do between  *)
(* is the subject of Service.  The processes share the configuration files  *)
(* and the directories of the sockets, and any of them may be killed.      *)
(***************************************************************************)
EXTENDS ConfigFile, NativeKws

CONSTANTS
  Proc,       (* processes, in the order of their numbers             *)
  Pids,       (* process ids, which the kernel uses again              *)
  Configs,    (* paths that --config resolves to                       *)
  Spelling,   (* the characters of the items of a list                *)
  Heard,      (* the characters of what the device may hear           *)
  Scenarios   (* what lies at some of them and at the paths of the sockets,
                 how many starts there are, and whether the disk is full *)

CustomDir == "custom"   (* a socket_dir that was written by hand *)
Names == {"frontend_kws", "frontend_aec"}
Stale == 0              (* bound by a process of an earlier boot *)
Assets == {"assets"}    (* the files of the wake word engine that exist *)

VARIABLES
  files,     (* the configuration files: lines, or None               *)
  sock,      (* the sockets that lie somewhere: who was bound to each      *)
  pc,        (* where each process is                                  *)
  pid, conf, (* its process id, and the file it uses                   *)
  options,   (* its PipelineOptions, None before they are loaded       *)
  srv,       (* its servers: off, unlinked, listening, closed          *)
  read,      (* the file that it has just read                          *)
  met,       (* history: the processes that lived at the same time     *)
  starts,    (* bound: how many processes may still be started         *)
  full       (* the disk may be full when the file is written          *)

vars == <<files, sock, pc, pid, conf, options, srv, read, met, starts, full>>

Alive == { p \in Proc : pc[p] \notin {"none", "gone"} }

Go(p, place) == pc' = [pc EXCEPT ![p] = place]

(* The process ends, and with it what it has open; what lies at the paths of  *)
(* its sockets stays there.                                                *)
Leave(p) ==
  /\ Go(p, "gone")
  /\ srv' = [srv EXCEPT ![p] = [n \in Names |-> "off"]]

Proceed(p, place) == Go(p, place) /\ UNCHANGED srv

(* DefaultPipelineOptions, DefaultSocketDir. *)
DefaultOptions(id) ==
  [socket_dir |-> id, ws_url |-> "ws", ws_token |-> "token",
   wakeup_ack_texts |-> <<"a", "b">>, native_kws_triggers |-> <<"c", "d">>,
   keywords_file |-> "assets", delay_ms |-> "40", auto_gain |-> "true",
   ns_level |-> "high"]

(* The file that the first start writes is well-formed, and means the         *)
(* defaults: what is said of well-formed files is said of that one.        *)
ASSUME DefaultsMeanThemselves ==
  \A id \in Pids :
    LET d == DefaultOptions(id)
    IN  WellFormed(DefaultFile(d)) /\ Meaning(d, DefaultFile(d)) = d

(* What the items of a list are written with: every item has a spelling.    *)
Spelled(file) ==
  \A i \in DOMAIN file :
    file[i].key \in {ItemKey, "native_kws_triggers"} =>
      file[i].value \in DOMAIN Spelling \cup {"", None}

ASSUME SpellingAssumption ==
  /\ Spelling \in [DOMAIN Spelling -> Seq(DOMAIN Encoding)]
  /\ {"a", "b", "c", "d"} \subseteq DOMAIN Spelling

(* The device has heard something: an event without a text is a wake-up.     *)
ASSUME HeardAssumption == Heard \subseteq Seq(DOMAIN Encoding) \ {<<>>}

(* What lies there at first is files, of items that can be spelled. *)
ASSUME ScenariosAssumption ==
  \A s \in Scenarios : \A c \in DOMAIN s.files :
    s.files[c] = None \/ (IsFile(s.files[c]) /\ Spelled(s.files[c]))

SocketPath(p, n) == <<options[p].socket_dir, n>>

(* Mutant: what lies at a path stays there. *)
VacateNothing(path) == UNCHANGED sock

(* What lies at a path is removed, or is the socket of p. *)
Vacate(path) == sock' = [x \in DOMAIN sock \ {path} |-> sock[x]]
BindTo(path, p) ==
  sock' = [x \in DOMAIN sock \cup {path} |-> IF x = path THEN p ELSE sock[x]]

(* What a disk that is full leaves of a file: some lines, the last of which  *)
(* may be cut off before its colon.                                        *)
Cut(file) ==
  LET kept == { SubSeq(file, 1, n) : n \in 0 .. Len(file) - 1 }
  IN  kept \cup { Append(f, Line(0, NoKey, None)) : f \in kept }

(* What becomes of a file when a text is written over it from its start: of  *)
(* a longer text, by a process with a longer id, the end of the last line    *)
(* stays.                                                                  *)
Overwrite(old, text) ==
  {text} \cup (IF full THEN Cut(text) ELSE {})
         \cup (IF old # <<>> THEN { Append(text, Line(0, NoKey, None)) } ELSE {})

-----------------------------------------------------------------------------
(* main and ParseCliOptions: an option that is unknown, removed or asks for  *)
(* help ends the process.                                                  *)
Launch(p) ==
  /\ starts > 0 /\ starts' = starts - 1
  /\ pc[p] = "none" /\ \A q \in Proc : q < p => pc[q] # "none"
  /\ \E id \in Pids \ { pid[q] : q \in Alive }, c \in DOMAIN files :
       pid' = [pid EXCEPT ![p] = id] /\ conf' = [conf EXCEPT ![p] = c]
  /\ Proceed(p, "look") \/ Leave(p)
  /\ met' = [q \in Proc |-> IF q = p THEN Alive
                            ELSE IF q \in Alive THEN met[q] \cup {p} ELSE met[q]]
  /\ UNCHANGED <<files, sock, options, read, full>>

(* ParseOptions: does the file exist? *)
Look(p) ==
  /\ pc[p] = "look"
  /\ Go(p, IF files[conf[p]] = None THEN "create" ELSE "read")
  /\ UNCHANGED <<files, sock, pid, conf, options, srv, read, met, starts, full>>

(* WriteDefaultConfig opens the file, which empties it. *)
Create(p) ==
  /\ pc[p] = "create"
  /\ \/ Proceed(p, "write") /\ files' = [files EXCEPT ![conf[p]] = <<>>]
     \/ Leave(p) /\ UNCHANGED files
  /\ UNCHANGED <<sock, pid, conf, options, read, met, starts, full>>

(* The lines reach the file when the stream is closed, after its state was   *)
(* tested: a write that fails then is not noticed.                         *)
Write(p) ==
  /\ pc[p] = "write"
  /\ \E f \in Overwrite(files[conf[p]], DefaultFile(DefaultOptions(pid[p]))) :
       files' = [files EXCEPT ![conf[p]] = f]
  /\ Go(p, "read")
  /\ UNCHANGED <<sock, pid, conf, options, srv, read, met, starts, full>>

(* LoadConfigFile *)
Read(p) ==
  /\ pc[p] = "read"
  /\ LET o == Load(DefaultOptions(pid[p]), files[conf[p]]) IN
       /\ options' = [options EXCEPT ![p] = o]
       /\ Proceed(p, "check")
  /\ read' = [read EXCEPT ![p] = files[conf[p]]]
  /\ UNCHANGED <<files, sock, pid, conf, met, starts, full>>

Valid(o) ==
  /\ o.ws_url = "ws" /\ o.ws_token # "" /\ o.keywords_file \in Assets

(* A file that could not be loaded ends the process, and so does RunPipeline  *)
(* when the options are not valid.                                         *)
Check(p) ==
  /\ pc[p] = "check"
  /\ IF options[p] # None /\ Valid(options[p]) THEN Proceed(p, "clean_kws")
                                               ELSE Leave(p)
  /\ read' = [read EXCEPT ![p] = None]
  /\ UNCHANGED <<files, sock, pid, conf, options, met, starts, full>>

(* CleanupStaleSocketFiles, one name after the other. *)
Clean(p) ==
  /\ \/ /\ pc[p] = "clean_kws" /\ Go(p, "clean_aec")
        /\ Vacate(SocketPath(p, "frontend_kws"))
     \/ /\ pc[p] = "clean_aec" /\ Go(p, "connect")
        /\ Vacate(SocketPath(p, "frontend_aec"))
  /\ UNCHANGED <<files, pid, conf, options, srv, read, met, starts, full>>

(* LlmClient::Connect throws when xiaozhi cannot be reached. *)
ConnectLlm(p) ==
  /\ pc[p] = "connect"
  /\ Proceed(p, "serve") \/ Leave(p)
  /\ UNCHANGED <<files, sock, pid, conf, options, read, met, starts, full>>

(* CreateUnixServerSocket removes what lies at the path... *)
Unlink(p, n) ==
  /\ pc[p] \in {"serve", "ending"} /\ srv[p][n] = "off"
  /\ srv' = [srv EXCEPT ![p][n] = "unlinked"]
  /\ Vacate(SocketPath(p, n))
  /\ UNCHANGED <<files, pc, pid, conf, options, read, met, starts, full>>

(* ...and binds: if there is something again, the server throws, which ends  *)
(* the service.                                                            *)
Bind(p, n) ==
  /\ pc[p] \in {"serve", "ending"} /\ srv[p][n] = "unlinked"
  /\ IF SocketPath(p, n) \notin DOMAIN sock
     THEN /\ BindTo(SocketPath(p, n), p)
          /\ srv' = [srv EXCEPT ![p][n] = "listening"] /\ UNCHANGED pc
     ELSE /\ srv' = [srv EXCEPT ![p][n] = "closed"]
          /\ Go(p, "ending") /\ UNCHANGED sock
  /\ UNCHANGED <<files, pid, conf, options, read, met, starts, full>>

(* A signal, or a worker that fails. *)
End(p) ==
  /\ pc[p] = "serve" /\ Go(p, "ending")
  /\ UNCHANGED <<files, sock, pid, conf, options, srv, read, met, starts, full>>

(* SocketPathGuard removes whatever lies at the path. *)
CloseServer(p, n) ==
  /\ pc[p] = "ending" /\ srv[p][n] = "listening"
  /\ srv' = [srv EXCEPT ![p][n] = "closed"]
  /\ Vacate(SocketPath(p, n))
  /\ UNCHANGED <<files, pc, pid, conf, options, read, met, starts, full>>

Exit(p) ==
  /\ pc[p] = "ending" /\ \A n \in Names : srv[p][n] = "closed"
  /\ Leave(p)
  /\ UNCHANGED <<files, sock, pid, conf, options, read, met, starts, full>>

(* The process is killed, or the machine stops. *)
Die(p) ==
  /\ p \in Alive /\ Leave(p)
  /\ UNCHANGED <<files, sock, pid, conf, options, read, met, starts, full>>

-----------------------------------------------------------------------------
Init ==
  /\ \E s \in Scenarios :
       /\ files = s.files /\ starts = s.starts /\ full = s.full
       /\ sock = [path \in s.left |-> Stale]
  /\ pc = [p \in Proc |-> "none"]
  /\ pid = [p \in Proc |-> None] /\ conf = [p \in Proc |-> None]
  /\ options = [p \in Proc |-> None] /\ read = [p \in Proc |-> None]
  /\ srv = [p \in Proc |-> [n \in Names |-> "off"]]
  /\ met = [p \in Proc |-> {}]

ProcessStep(p) ==
  \/ Look(p) \/ Create(p) \/ Write(p) \/ Read(p) \/ Check(p) \/ Clean(p)
  \/ ConnectLlm(p) \/ Exit(p)
  \/ \E n \in Names : Unlink(p, n) \/ Bind(p, n) \/ CloseServer(p, n)

Next == \E p \in Proc : Launch(p) \/ ProcessStep(p) \/ End(p) \/ Die(p)

Spec == Init /\ [][Next]_vars

-----------------------------------------------------------------------------
JustLoaded(p) == pc[p] = "check"

Listening(p, n) == pc[p] = "serve" /\ srv[p][n] = "listening"

(* A file that is well-formed YAML is loaded as YAML means it: every value    *)
(* gets to the option of its path, a list replaces the default one, and what *)
(* the file does not say keeps its default.                                *)
LoadedAsWritten ==
  \A p \in Proc :
    (JustLoaded(p) /\ WellFormed(read[p])) =>
      options[p] = Meaning(DefaultOptions(pid[p]), read[p])

(* Of what the device hears, a process takes for a wake-up what its file says *)
(* and no more: the first trigger of a well-formed file with which a final  *)
(* text ends, whatever blanks and punctuation either of them has, in any    *)
(* encoding of its characters.                                             *)
HeardAsConfigured ==
  \A p \in Proc :
    (JustLoaded(p) /\ WellFormed(read[p])) =>
      LET spelled(items) == [i \in DOMAIN items |-> Spelling[items[i]]]
          asked == spelled(Meaning(DefaultOptions(pid[p]), read[p]).native_kws_triggers)
          loaded == spelled(options[p].native_kws_triggers)
          triggers == NativeKwsTriggers([i \in DOMAIN loaded |-> Encoded(loaded[i])])
      IN  \A chars \in Heard, final \in BOOLEAN :
            Handle(triggers, [text |-> Encoded(chars), final |-> final, vad_begin |-> FALSE])
              = Wanted(asked, chars, final)

Shared(p) ==
  \E q \in met[p] :
    options[q] # None /\ options[q].socket_dir = options[p].socket_dir

(* Whatever other processes left behind, a server finds its path free when    *)
(* it is to bind, and is the one that a Frontend of its own process reaches,  *)
(* unless a process that lived at the same time had the same directory.     *)
ServesItself ==
  \A p \in Proc, n \in Names :
    \/ /\ srv[p][n] = "unlinked" => SocketPath(p, n) \notin DOMAIN sock
       /\ Listening(p, n) =>
            SocketPath(p, n) \in DOMAIN sock /\ sock[SocketPath(p, n)] = p
    \/ Shared(p)
=============================================================================
