--------------------------- MODULE StartupProofs ----------------------------
(***************************************************************************)
(* Startup for any processes, process ids and files: first the sockets, then *)
(* the options, for which Load is shown to give the Meaning of every file     *)
(* that is well-formed, by induction over its lines.                       *)
(***************************************************************************)
EXTENDS Startup, TLAPS, SequenceTheorems, WellFoundedInduction

Place == {"none", "look", "create", "write", "read", "check", "clean_kws", "clean_aec",
          "connect", "serve", "ending", "gone"}
ServerPlace == {"off", "unlinked", "listening", "closed"}

Types ==
  /\ pc \in [Proc -> Place] /\ srv \in [Proc -> [Names -> ServerPlace]]
  /\ met \in [Proc -> SUBSET Proc]
  /\ DOMAIN options = Proc /\ options = [p \in Proc |-> options[p]]

(* A process has its options from the moment it has read its file, and its  *)
(* servers from the moment it serves.                                      *)
Stages ==
  \A p \in Proc :
    /\ pc[p] \in {"none", "look", "create", "write", "read"} => options[p] = None
    /\ pc[p] \in {"clean_kws", "clean_aec", "connect", "serve", "ending"} =>
         options[p] # None
    /\ pc[p] \notin {"serve", "ending"} => \A n \in Names : srv[p][n] = "off"

(* Those that live know of each other. *)
AliveHaveMet == \A p, q \in Alive : p # q => q \in met[p]

ServeInv == Types /\ Stages /\ AliveHaveMet /\ ServesItself

(* What a step of process r leaves alone. *)
Others(r) ==
  /\ \A p \in Proc : p # r => /\ pc'[p] = pc[p] /\ srv'[p] = srv[p]
                              /\ options'[p] = options[p]
  /\ \A p \in Alive : met[p] \subseteq met'[p]

-----------------------------------------------------------------------------
LEMMA InitServes == Init => ServeInv
<1> SUFFICES ASSUME Init PROVE ServeInv
  OBVIOUS
<1>1. Types
  BY DEF Init, Types, Place, ServerPlace
<1>2. Stages /\ AliveHaveMet /\ ServesItself
  BY DEF Init, Stages, AliveHaveMet, Alive, ServesItself, Listening
<1> QED BY <1>1, <1>2 DEF ServeInv

(* A process that ends has no servers any more. *)
LEMMA Leaves ==
  ASSUME Types, NEW p \in Proc, Leave(p)
  PROVE  /\ pc' = [pc EXCEPT ![p] = "gone"]
         /\ srv' \in [Proc -> [Names -> ServerPlace]]
         /\ \A n \in Names : srv'[p][n] = "off"
         /\ \A q \in Proc : q # p => srv'[q] = srv[q]
  BY DEF Types, Leave, Go, ServerPlace

LEMMA LaunchKeeps ==
  ASSUME ServeInv, NEW r \in Proc, Launch(r)
  PROVE  Types' /\ Stages' /\ AliveHaveMet' /\ Others(r) /\ UNCHANGED sock
<1> USE DEF ServeInv
<1>1. /\ pc[r] = "none" /\ UNCHANGED <<sock, options>>
      /\ met' = [q \in Proc |-> IF q = r THEN Alive
                                ELSE IF q \in Alive THEN met[q] \cup {r} ELSE met[q]]
      /\ Proceed(r, "look") \/ Leave(r)
  BY DEF Launch
<1>2. r \notin Alive /\ Alive \subseteq Proc
  BY <1>1 DEF Alive
<1>3. PICK place \in {"look", "gone"} : pc' = [pc EXCEPT ![r] = place]
  BY <1>1 DEF Proceed, Leave, Go
<1>4. /\ srv' \in [Proc -> [Names -> ServerPlace]]
      /\ \A n \in Names : srv'[r][n] = "off"
      /\ \A q \in Proc : q # r => srv'[q] = srv[q]
  BY <1>1, Leaves DEF Proceed, Types, Stages
<1>5. Types'
  <2>1. pc' \in [Proc -> Place]
    BY <1>3 DEF Types, Place
  <2>2. met' \in [Proc -> SUBSET Proc]
    BY <1>1, <1>2 DEF Types
  <2>3. DOMAIN options' = Proc /\ options' = [p \in Proc |-> options'[p]]
    BY <1>1 DEF Types
  <2> QED BY <1>4, <2>1, <2>2, <2>3 DEF Types
<1>6. Others(r)
  BY <1>1, <1>2, <1>3, <1>4 DEF Others, Types
<1>7. Stages'
  BY <1>1, <1>3, <1>4 DEF Stages, Types
<1>8. AliveHaveMet'
  <2>1. Alive' \subseteq Alive \cup {r}
    BY <1>3 DEF Alive, Types
  <2>2. ASSUME NEW p \in Alive', NEW q \in Alive', p # q
        PROVE  q \in met'[p]
    <3>1. p \in Proc /\ q \in Proc
      BY <1>2, <2>1
    <3>2. CASE p = r
      BY <1>1, <2>1, <2>2, <3>2
    <3>3. CASE p # r /\ q = r
      BY <1>1, <2>1, <2>2, <3>1, <3>3
    <3>4. CASE p # r /\ q # r
      BY <1>1, <2>1, <2>2, <3>1, <3>4 DEF AliveHaveMet
    <3> QED BY <3>2, <3>3, <3>4
  <2> QED BY <2>2 DEF AliveHaveMet
<1> QED BY <1>1, <1>5, <1>6, <1>7, <1>8

(* A process that has been launched goes on, or ends, in order. *)
LEMMA Moves ==
  ASSUME ServeInv, NEW r \in Alive, NEW place \in Place, pc' = [pc EXCEPT ![r] = place],
         place # "none", UNCHANGED met,
         srv' \in [Proc -> [Names -> ServerPlace]],
         \A q \in Proc : q # r => srv'[q] = srv[q],
         place \notin {"serve", "ending"} => \A n \in Names : srv'[r][n] = "off",
         options' = options \/ (\E o : options' = [options EXCEPT ![r] = o]),
         place \in {"look", "create", "write", "read"} => options'[r] = None,
         place \in {"clean_kws", "clean_aec", "connect", "serve", "ending"} =>
           options'[r] # None
  PROVE  Types' /\ Stages' /\ AliveHaveMet' /\ Others(r)
<1> USE DEF ServeInv
<1>1. r \in Proc /\ pc \in [Proc -> Place]
  BY DEF Alive, Types
<1>2. /\ DOMAIN options' = Proc /\ options' = [p \in Proc |-> options'[p]]
      /\ \A p \in Proc : p # r => options'[p] = options[p]
  BY <1>1 DEF Types
<1>3. Types'
  BY <1>1, <1>2 DEF Types
<1>4. Others(r)
  BY <1>1, <1>2 DEF Others
<1>5. Stages'
  BY <1>1, <1>2 DEF Stages
<1>6. AliveHaveMet'
  <2>1. Alive' \subseteq Alive
    BY <1>1 DEF Alive
  <2> QED BY <2>1 DEF AliveHaveMet
<1> QED BY <1>3, <1>4, <1>5, <1>6

LEMMA StepKeeps ==
  ASSUME ServeInv, NEW r \in Proc, ProcessStep(r) \/ End(r) \/ Die(r)
  PROVE  Types' /\ Stages' /\ AliveHaveMet' /\ Others(r) /\ r \in Alive
<1> USE DEF ServeInv
<1>1. r \in Alive
  BY DEF ProcessStep, Look, Create, Write, Read, Check, Clean, ConnectLlm, Exit, Unlink,
         Bind, CloseServer, End, Die, Alive
<1>2. UNCHANGED met
  BY DEF ProcessStep, Look, Create, Write, Read, Check, Clean, ConnectLlm, Exit, Unlink,
         Bind, CloseServer, End, Die
<1>3. pc[r] \in Place /\ srv \in [Proc -> [Names -> ServerPlace]]
  BY DEF Types
<1>4. ASSUME Leave(r), UNCHANGED options
      PROVE  Types' /\ Stages' /\ AliveHaveMet' /\ Others(r)
  <2>1. /\ pc' = [pc EXCEPT ![r] = "gone"]
        /\ srv' \in [Proc -> [Names -> ServerPlace]]
        /\ \A n \in Names : srv'[r][n] = "off"
        /\ \A q \in Proc : q # r => srv'[q] = srv[q]
    BY <1>4, Leaves
  <2> QED BY <1>1, <1>2, <1>4, <2>1, Moves DEF Place
<1>5. CASE Look(r)
  <2>1. PICK place \in {"create", "read"} : pc' = [pc EXCEPT ![r] = place]
    BY <1>5 DEF Look, Go
  <2>2. pc[r] = "look" /\ UNCHANGED <<srv, options>>
    BY <1>5 DEF Look
  <2>3. options[r] = None /\ \A n \in Names : srv[r][n] = "off"
    BY <2>2 DEF Stages
  <2> QED BY <1>1, <1>2, <1>3, <2>1, <2>2, <2>3, Moves DEF Place
<1>6. CASE Create(r)
  <2>1. CASE Leave(r)
    BY <1>1, <1>4, <1>6, <2>1 DEF Create
  <2>2. CASE Proceed(r, "write")
    <3>1. pc[r] = "create" /\ pc' = [pc EXCEPT ![r] = "write"] /\ UNCHANGED <<srv, options>>
      BY <1>6, <2>2 DEF Create, Proceed, Go
    <3>2. options[r] = None /\ \A n \in Names : srv[r][n] = "off"
      BY <3>1 DEF Stages
    <3> QED BY <1>1, <1>2, <1>3, <3>1, <3>2, Moves DEF Place
  <2> QED BY <1>6, <2>1, <2>2 DEF Create
<1>7. CASE Write(r)
  <2>1. pc[r] = "write" /\ pc' = [pc EXCEPT ![r] = "read"] /\ UNCHANGED <<srv, options>>
    BY <1>7 DEF Write, Go
  <2>2. options[r] = None /\ \A n \in Names : srv[r][n] = "off"
    BY <2>1 DEF Stages
  <2> QED BY <1>1, <1>2, <1>3, <2>1, <2>2, Moves DEF Place
<1>8. CASE Read(r)
  <2>1. /\ pc[r] = "read" /\ pc' = [pc EXCEPT ![r] = "check"] /\ UNCHANGED srv
        /\ \E o : options' = [options EXCEPT ![r] = o]
    BY <1>8 DEF Read, Proceed, Go
  <2>2. \A n \in Names : srv[r][n] = "off"
    BY <2>1 DEF Stages
  <2> QED BY <1>1, <1>2, <1>3, <2>1, <2>2, Moves DEF Place
<1>9. CASE Check(r)
  <2>1. CASE Leave(r)
    BY <1>1, <1>4, <1>9, <2>1 DEF Check
  <2>2. CASE ~Leave(r)
    <3>1. /\ pc[r] = "check" /\ pc' = [pc EXCEPT ![r] = "clean_kws"] /\ options[r] # None
          /\ UNCHANGED <<srv, options>>
      BY <1>9, <2>2 DEF Check, Proceed, Go
    <3>2. \A n \in Names : srv[r][n] = "off"
      BY <3>1 DEF Stages
    <3> QED BY <1>1, <1>2, <1>3, <3>1, <3>2, Moves DEF Place
  <2> QED BY <2>1, <2>2
<1>10. CASE Clean(r)
  <2>1. PICK place \in {"clean_aec", "connect"} : pc' = [pc EXCEPT ![r] = place]
    BY <1>10 DEF Clean, Go
  <2>2. pc[r] \in {"clean_kws", "clean_aec"} /\ UNCHANGED <<srv, options>>
    BY <1>10 DEF Clean
  <2>3. options[r] # None /\ \A n \in Names : srv[r][n] = "off"
    BY <2>2 DEF Stages
  <2> QED BY <1>1, <1>2, <1>3, <2>1, <2>2, <2>3, Moves DEF Place
<1>11. CASE ConnectLlm(r)
  <2>1. CASE Leave(r)
    BY <1>1, <1>4, <1>11, <2>1 DEF ConnectLlm
  <2>2. CASE Proceed(r, "serve")
    <3>1. /\ pc[r] = "connect" /\ pc' = [pc EXCEPT ![r] = "serve"]
          /\ UNCHANGED <<srv, options>>
      BY <1>11, <2>2 DEF ConnectLlm, Proceed, Go
    <3>2. options[r] # None
      BY <3>1 DEF Stages
    <3> QED BY <1>1, <1>2, <1>3, <3>1, <3>2, Moves DEF Place
  <2> QED BY <1>11, <2>1, <2>2 DEF ConnectLlm
<1>12. CASE Exit(r) \/ Die(r)
  BY <1>1, <1>4, <1>12 DEF Exit, Die
<1>13. CASE (\E n \in Names : Unlink(r, n) \/ Bind(r, n) \/ CloseServer(r, n)) \/ End(r)
  <2>1. pc[r] \in {"serve", "ending"} /\ UNCHANGED options
    BY <1>13 DEF Unlink, Bind, CloseServer, End
  <2>2. options[r] # None
    BY <2>1 DEF Stages
  <2>3. PICK place \in {"serve", "ending"} : pc' = [pc EXCEPT ![r] = place]
    <3>1. pc' = pc \/ pc' = [pc EXCEPT ![r] = "ending"]
      BY <1>13 DEF Unlink, Bind, CloseServer, End, Go
    <3>2. pc = [pc EXCEPT ![r] = pc[r]]
      BY DEF Types
    <3> QED BY <2>1, <3>1, <3>2
  <2>4. /\ srv' \in [Proc -> [Names -> ServerPlace]]
        /\ \A q \in Proc : q # r => srv'[q] = srv[q]
    BY <1>3, <1>13 DEF Unlink, Bind, CloseServer, End, ServerPlace
  <2> QED BY <1>1, <1>2, <2>1, <2>2, <2>3, <2>4, Moves DEF Place
<1> QED
  BY <1>1, <1>5, <1>6, <1>7, <1>8, <1>9, <1>10, <1>11, <1>12, <1>13 DEF ProcessStep

-----------------------------------------------------------------------------
(* Only a process with the same directory touches the sockets of another.   *)
TouchedOnly(path) ==
  \A x \in DOMAIN sock \cup DOMAIN sock' :
    x # path => /\ x \in DOMAIN sock <=> x \in DOMAIN sock'
                /\ x \in DOMAIN sock => sock'[x] = sock[x]

LEMMA SocketsTouched ==
  ASSUME ServeInv, NEW r \in Proc, Launch(r) \/ ProcessStep(r) \/ End(r) \/ Die(r)
  PROVE  \/ UNCHANGED sock
         \/ \E n \in Names :
              /\ options[r] # None
              /\ \/ pc[r] \in {"clean_kws", "clean_aec"}
                 \/ pc[r] = "ending" /\ srv[r][n] = "listening"
                 \/ srv[r][n] = "off"
                 \/ srv[r][n] = "unlinked" /\ srv'[r][n] # "unlinked"
              /\ TouchedOnly(SocketPath(r, n))
<1> USE DEF ServeInv
<1>1. CASE \/ Launch(r) \/ Look(r) \/ Create(r) \/ Write(r) \/ Read(r) \/ Check(r)
           \/ ConnectLlm(r) \/ Exit(r) \/ End(r) \/ Die(r)
  BY <1>1 DEF Launch, Look, Create, Write, Read, Check, ConnectLlm, Exit, End, Die
<1>2. CASE Clean(r)
  <2>1. PICK n \in Names : Vacate(SocketPath(r, n))
    BY <1>2 DEF Clean, Names
  <2>2. pc[r] \in {"clean_kws", "clean_aec"} /\ options[r] # None
    BY <1>2 DEF Clean, Stages
  <2> QED BY <2>1, <2>2 DEF Vacate, TouchedOnly
<1>3. ASSUME NEW n \in Names, Unlink(r, n) \/ CloseServer(r, n)
      PROVE  /\ options[r] # None
             /\ (pc[r] = "ending" /\ srv[r][n] = "listening") \/ srv[r][n] = "off"
             /\ TouchedOnly(SocketPath(r, n))
  BY <1>3 DEF Unlink, CloseServer, Vacate, Stages, TouchedOnly
<1>4. ASSUME NEW n \in Names, Bind(r, n)
      PROVE  \/ UNCHANGED sock
             \/ /\ options[r] # None
                /\ srv[r][n] = "unlinked" /\ srv'[r][n] # "unlinked"
                /\ TouchedOnly(SocketPath(r, n))
  <2>1. options[r] # None /\ srv[r][n] = "unlinked"
    BY <1>4 DEF Bind, Stages
  <2>2. srv'[r][n] # "unlinked"
    BY <1>4 DEF Bind, Types
  <2>3. UNCHANGED sock \/ BindTo(SocketPath(r, n), r)
    BY <1>4 DEF Bind
  <2> QED BY <2>1, <2>2, <2>3 DEF BindTo, TouchedOnly
<1> QED BY <1>1, <1>2, <1>3, <1>4 DEF ProcessStep

(* A server begins to listen by binding. *)
LEMMA BeginsToListen ==
  ASSUME ServeInv, NEW r \in Proc, Launch(r) \/ ProcessStep(r) \/ End(r) \/ Die(r),
         NEW n \in Names, Listening(r, n)', ~Listening(r, n), Types', Stages'
  PROVE  SocketPath(r, n)' \in DOMAIN sock' /\ sock'[SocketPath(r, n)'] = r
<1> USE DEF ServeInv
<1>1. pc'[r] = "serve" /\ srv'[r][n] = "listening"
  BY DEF Listening
<1>2. pc[r] \in Place /\ DOMAIN pc = Proc /\ srv \in [Proc -> [Names -> ServerPlace]]
  BY DEF Types
<1>3. \A m \in Names : ~ (Launch(r) \/ Look(r) \/ Create(r) \/ Write(r) \/ Read(r)
                           \/ Check(r) \/ Clean(r) \/ Exit(r) \/ End(r) \/ Die(r)
                           \/ CloseServer(r, m))
  BY <1>1, <1>2
  DEF Launch, Look, Create, Write, Read, Check, Clean, Exit, End, Die, CloseServer, Go,
      Proceed, Leave
<1>4. ~ConnectLlm(r)
  BY <1>1, <1>2 DEF ConnectLlm, Proceed, Leave, Go, Stages
<1>5. \A m \in Names : ~Unlink(r, m)
  BY <1>1, <1>2 DEF Unlink, Listening
<1>6. PICK m \in Names : Bind(r, m)
  BY <1>3, <1>4, <1>5 DEF ProcessStep
<1>7. m = n /\ BindTo(SocketPath(r, n), r) /\ UNCHANGED options
  BY <1>1, <1>2, <1>6 DEF Bind, Listening, Go
<1> QED BY <1>7 DEF BindTo, SocketPath

(* A server is about to bind when it has removed what lay at its path. *)
LEMMA BeginsToBind ==
  ASSUME ServeInv, NEW r \in Proc, Launch(r) \/ ProcessStep(r) \/ End(r) \/ Die(r),
         NEW n \in Names, srv'[r][n] = "unlinked", srv[r][n] # "unlinked", Types', Stages'
  PROVE  SocketPath(r, n)' \notin DOMAIN sock'
<1> USE DEF ServeInv
<1>1. srv \in [Proc -> [Names -> ServerPlace]]
  BY DEF Types
<1>2. ~Leave(r) /\ srv' # srv
  BY <1>1 DEF Leave
<1>3. ~ (Launch(r) \/ Look(r) \/ Create(r) \/ Write(r) \/ Read(r) \/ Check(r) \/ Clean(r)
         \/ ConnectLlm(r) \/ Exit(r) \/ End(r) \/ Die(r))
  BY <1>2
  DEF Launch, Look, Create, Write, Read, Check, Clean, ConnectLlm, Exit, End, Die, Proceed
<1>4. \A m \in Names : ~Bind(r, m) /\ ~CloseServer(r, m)
  BY <1>1 DEF Bind, CloseServer
<1>5. PICK m \in Names : Unlink(r, m)
  BY <1>3, <1>4 DEF ProcessStep
<1>6. m = n /\ Vacate(SocketPath(r, n)) /\ UNCHANGED options
  BY <1>1, <1>5 DEF Unlink
<1> QED BY <1>6 DEF Vacate, SocketPath

LEMMA ServesKept ==
  ASSUME ServeInv, NEW r \in Proc, Launch(r) \/ ProcessStep(r) \/ End(r) \/ Die(r)
  PROVE  ServeInv'
<1> USE DEF ServeInv
<1>1. Types' /\ Stages' /\ AliveHaveMet' /\ Others(r)
  BY LaunchKeeps, StepKeeps
<1>2. \A q \in Proc : options[q] # None => options'[q] = options[q]
  BY <1>1
  DEF Others, Stages, Launch, ProcessStep, Look, Create, Write, Read, Check, Clean,
      ConnectLlm, Exit, Unlink, Bind, CloseServer, End, Die
<1> SUFFICES ASSUME NEW p \in Proc, NEW n \in Names, ~Shared(p)'
             PROVE  /\ srv'[p][n] = "unlinked" => SocketPath(p, n)' \notin DOMAIN sock'
                    /\ Listening(p, n)' =>
                         /\ SocketPath(p, n)' \in DOMAIN sock'
                         /\ sock'[SocketPath(p, n)'] = p
  BY <1>1 DEF ServesItself
(* A server that goes on: its path is left alone by itself and by all others. *)
<1>3. ASSUME srv[p][n] \in {"unlinked", "listening"}, pc[p] \in {"serve", "ending"},
             srv[p][n] = "unlinked" => srv'[p][n] = "unlinked",
             srv[p][n] = "listening" => pc[p] = "serve"
      PROVE  /\ ~Shared(p) /\ SocketPath(p, n)' = SocketPath(p, n)
             /\ SocketPath(p, n) \in DOMAIN sock' <=> SocketPath(p, n) \in DOMAIN sock
             /\ SocketPath(p, n) \in DOMAIN sock =>
                  sock'[SocketPath(p, n)] = sock[SocketPath(p, n)]
  <2>1. p \in Alive /\ options[p] # None
    BY <1>3 DEF Alive, Stages
  <2>2. met[p] \subseteq met'[p] /\ met[p] \subseteq Proc
    BY <1>1, <2>1 DEF Others, Types
  <2>3. options'[p] = options[p] /\ SocketPath(p, n)' = SocketPath(p, n)
    BY <1>2, <2>1 DEF SocketPath
  <2>4. ~Shared(p)
    BY <1>2, <2>2, <2>3 DEF Shared
  <2>5. CASE UNCHANGED sock
    BY <2>3, <2>4, <2>5
  <2>6. ASSUME NEW m \in Names, options[r] # None,
               \/ pc[r] \in {"clean_kws", "clean_aec"}
               \/ pc[r] = "ending" /\ srv[r][m] = "listening"
               \/ srv[r][m] = "off"
               \/ srv[r][m] = "unlinked" /\ srv'[r][m] # "unlinked",
               TouchedOnly(SocketPath(r, m))
        PROVE  SocketPath(p, n) # SocketPath(r, m)
    <3> SUFFICES ASSUME SocketPath(p, n) = SocketPath(r, m) PROVE FALSE
      OBVIOUS
    <3>1. options[r].socket_dir = options[p].socket_dir /\ m = n
      BY DEF SocketPath
    <3>2. r # p
      BY <1>3, <2>6, <3>1
    <3>3. r \in Alive
      BY <2>6, StepKeeps DEF Launch, Stages
    <3>4. r \in met[p]
      BY <2>1, <3>2, <3>3 DEF AliveHaveMet
    <3> QED BY <2>4, <2>6, <3>1, <3>4 DEF Shared
  <2>7. CASE ~UNCHANGED sock
    <3>1. PICK m \in Names : /\ SocketPath(p, n) # SocketPath(r, m)
                             /\ TouchedOnly(SocketPath(r, m))
      BY <2>6, <2>7, SocketsTouched
    <3>2. \/ SocketPath(p, n) \in DOMAIN sock \cup DOMAIN sock'
          \/ SocketPath(p, n) \notin DOMAIN sock /\ SocketPath(p, n) \notin DOMAIN sock'
      OBVIOUS
    <3> QED BY <2>3, <2>4, <3>1, <3>2 DEF TouchedOnly
  <2> QED BY <2>5, <2>7
<1>4. ASSUME srv'[p][n] = "unlinked"
      PROVE  SocketPath(p, n)' \notin DOMAIN sock'
  <2>1. CASE srv[p][n] # "unlinked"
    <3>1. p = r
      BY <1>1, <1>4, <2>1 DEF Others
    <3> QED BY <1>1, <1>4, <2>1, <3>1, BeginsToBind
  <2>2. CASE srv[p][n] = "unlinked"
    <3>1. pc[p] \in {"serve", "ending"}
      BY <2>2 DEF Stages
    <3>2. ~Shared(p) /\ SocketPath(p, n)' = SocketPath(p, n)
      BY <1>3, <1>4, <2>2, <3>1
    <3>3. SocketPath(p, n) \notin DOMAIN sock
      BY <2>2, <3>2 DEF ServesItself
    <3> QED BY <1>3, <1>4, <2>2, <3>1, <3>2, <3>3
  <2> QED BY <2>1, <2>2
<1>5. ASSUME Listening(p, n)'
      PROVE  SocketPath(p, n)' \in DOMAIN sock' /\ sock'[SocketPath(p, n)'] = p
  <2>1. CASE ~Listening(p, n)
    <3>1. p = r
      BY <1>1, <1>5, <2>1 DEF Others, Listening
    <3> QED BY <1>1, <1>5, <2>1, <3>1, BeginsToListen
  <2>2. CASE Listening(p, n)
    <3>1. pc[p] = "serve" /\ srv[p][n] = "listening"
      BY <2>2 DEF Listening
    <3>2. ~Shared(p) /\ SocketPath(p, n)' = SocketPath(p, n)
      BY <1>3, <3>1
    <3>3. SocketPath(p, n) \in DOMAIN sock /\ sock[SocketPath(p, n)] = p
      BY <2>2, <3>2 DEF ServesItself
    <3> QED BY <1>3, <3>1, <3>2, <3>3
  <2> QED BY <2>1, <2>2
<1> QED BY <1>4, <1>5

LEMMA ServeInvHolds == Spec => []ServeInv
<1>1. ServeInv /\ [Next]_vars => ServeInv'
  <2> SUFFICES ASSUME ServeInv, [Next]_vars PROVE ServeInv'
    OBVIOUS
  <2>1. CASE Next
    BY <2>1, ServesKept DEF Next
  <2>2. CASE UNCHANGED vars
    BY <2>2
    DEF vars, ServeInv, Types, Stages, AliveHaveMet, Alive, ServesItself, Listening,
        SocketPath, Shared
  <2> QED BY <2>1, <2>2
<1> QED BY <1>1, InitServes, PTL DEF Spec

(* Whatever the processes before it left behind, and whoever was killed when, *)
(* a server can bind and is the one that its own Frontend reaches, unless a  *)
(* process that lived at the same time had the same directory.             *)
THEOREM ServesItselfAlways == Spec => []ServesItself
  BY ServeInvHolds, PTL DEF ServeInv

-----------------------------------------------------------------------------
(* Induction over the numbers, for a set of them. *)
LEMMA ByInduction ==
  ASSUME NEW T, 0 \in T, \A n \in Nat : n \in T => n + 1 \in T
  PROVE  Nat \subseteq T
<1> SUFFICES ASSUME Nat \ T # {} PROVE FALSE
  OBVIOUS
<1>1. PICK d \in Nat \ T : \A e \in Nat \ T : <<e, d>> \notin OpToRel(<, Nat)
  <2>1. Nat \ T \subseteq Nat
    OBVIOUS
  <2> QED BY <2>1, NatLessThanWellFounded, WFMin
<1>2. \A e \in Nat \ T : ~(e < d)
  BY <1>1, Zenon DEF OpToRel
<1>3. d # 0 /\ d - 1 \in Nat /\ d - 1 < d /\ (d - 1) + 1 = d
  OBVIOUS
<1>4. d - 1 \in T
  BY <1>2, <1>3
<1>5. d \in T
  BY <1>3, <1>4
<1> QED BY <1>1, <1>5

(* Max is the greatest element, and what has a bound has one. *)
LEMMA MaxIs ==
  ASSUME NEW S \in SUBSET Nat, NEW m \in S, \A x \in S : x <= m
  PROVE  Max(S) = m
<1> DEFINE Greatest(x) == x \in S /\ \A y \in S : x >= y
<1>1. Greatest(m)
  OBVIOUS
<1>2. Max(S) = CHOOSE x : Greatest(x)
  BY Zenon DEF Max
<1>3. Greatest(Max(S))
  <2> HIDE DEF Greatest
  <2> QED BY <1>1, <1>2, Zenon
<1>4. Max(S) \in S /\ Max(S) >= m
  BY <1>3, Zenon
<1>5. Max(S) <= m /\ Max(S) \in Nat /\ m \in Nat
  BY <1>4
<1> HIDE DEF Greatest
<1> QED BY <1>4, <1>5

LEMMA MaxThere ==
  ASSUME NEW n \in Nat, NEW S \in SUBSET (0 .. n), S # {}
  PROVE  Max(S) \in S /\ \A x \in S : x <= Max(S)
<1> DEFINE T == { m \in Nat : m > n \/ \A R \in SUBSET (0 .. m) :
                                R # {} => \E x \in R : \A y \in R : y <= x }
<1>1. 0 \in T
  <2>1. ASSUME NEW R \in SUBSET (0 .. 0), R # {}
        PROVE  \E x \in R : \A y \in R : y <= x
    <3>1. 0 .. 0 = {0}
      OBVIOUS
    <3>2. 0 \in R /\ \A y \in R : y = 0
      BY <2>1, <3>1
    <3> QED BY <3>2
  <2> QED BY <2>1
<1>2. ASSUME NEW m \in Nat, m \in T
      PROVE  m + 1 \in T
  <2>1. m + 1 \in Nat
    OBVIOUS
  <2> SUFFICES ASSUME m + 1 <= n, NEW R \in SUBSET (0 .. m + 1), R # {}
               PROVE  \E x \in R : \A y \in R : y <= x
    BY <2>1
  <2>2. CASE m + 1 \in R
    BY <2>2
  <2>3. CASE m + 1 \notin R
    <3>1. R \in SUBSET (0 .. m)
      BY <2>3
    <3> QED BY <1>2, <3>1
  <2> QED BY <2>2, <2>3
<1>3. n \in T
  <2> HIDE DEF T
  <2>1. Nat \subseteq T
    BY <1>1, <1>2, ByInduction
  <2> QED BY <2>1
<1>4. PICK x \in S : \A y \in S : y <= x
  BY <1>3
<1>5. Max(S) = x
  BY <1>4, MaxIs
<1> QED BY <1>4, <1>5

(* The last line up to n that is less indented than k, or 0. *)
Below(f, n, k) == {0} \cup { j \in Lines(f) : j <= n /\ f[j].indent < k }
Encl(f, n, k) == Max(Below(f, n, k))

(* What the lines of a file are numbered with. *)
LEMMA LinesAre ==
  ASSUME NEW f, IsFile(f)
  PROVE  /\ Len(f) \in Nat /\ Lines(f) \subseteq 1 .. Len(f)
         /\ \A i \in Lines(f) : i \in Nat /\ i > 0 /\ i <= Len(f) /\ f[i].indent \in Nat
  BY DEF IsFile, Lines

(* The last line, of those up to n, that is less indented than k. *)
LEMMA EnclIs ==
  ASSUME NEW f, IsFile(f), NEW n \in Nat, NEW k \in Nat
  PROVE  /\ Encl(f, n, k) \in Nat /\ Encl(f, n, k) <= n
         /\ Encl(f, n, k) # 0 =>
              Encl(f, n, k) \in Lines(f) /\ f[Encl(f, n, k)].indent < k
         /\ \A j \in Lines(f) : j <= n /\ f[j].indent < k => j <= Encl(f, n, k)
<1>1. Below(f, n, k) \in SUBSET (0 .. n) /\ Below(f, n, k) # {}
  BY LinesAre DEF Below
<1>2. /\ Encl(f, n, k) \in Below(f, n, k)
      /\ \A x \in Below(f, n, k) : x <= Encl(f, n, k)
  BY <1>1, MaxThere DEF Encl
<1> QED BY <1>1, <1>2 DEF Below

(* It is the only one with these bounds. *)
LEMMA EnclOnly ==
  ASSUME NEW f, IsFile(f), NEW n \in Nat, NEW k \in Nat, NEW w \in Nat,
         w <= n, w # 0 => w \in Lines(f) /\ f[w].indent < k,
         \A j \in Lines(f) : j <= n /\ f[j].indent < k => j <= w
  PROVE  Encl(f, n, k) = w
<1>1. /\ Below(f, n, k) \in SUBSET Nat /\ w \in Below(f, n, k)
      /\ \A x \in Below(f, n, k) : x <= w
  BY LinesAre DEF Below
<1> QED BY <1>1, MaxIs DEF Encl

(* What the next line makes of it. *)
LEMMA EnclNext ==
  ASSUME NEW f, IsFile(f), NEW n \in Nat, NEW k \in Nat
  PROVE  Encl(f, n + 1, k) = IF n + 1 \in Lines(f) /\ f[n + 1].indent < k
                             THEN n + 1 ELSE Encl(f, n, k)
<1>1. n + 1 \in Nat
  OBVIOUS
<1>2. CASE n + 1 \in Lines(f) /\ f[n + 1].indent < k
  BY <1>1, <1>2, LinesAre, EnclOnly
<1>3. CASE ~(n + 1 \in Lines(f) /\ f[n + 1].indent < k)
  <2> DEFINE w == Encl(f, n, k)
  <2>1. /\ w \in Nat /\ w <= n
        /\ w # 0 => w \in Lines(f) /\ f[w].indent < k
        /\ \A j \in Lines(f) : j <= n /\ f[j].indent < k => j <= w
    BY EnclIs
  <2>2. \A j \in Lines(f) : j <= n + 1 /\ f[j].indent < k => j <= n
    BY <1>3, LinesAre
  <2> HIDE DEF w
  <2>3. Encl(f, n + 1, k) = w
    BY <1>1, <2>1, <2>2, EnclOnly
  <2> QED BY <1>3, <2>3 DEF w
<1> QED BY <1>2, <1>3

(* Before the first line there is none. *)
LEMMA EnclNone ==
  ASSUME NEW f, IsFile(f), NEW k \in Nat
  PROVE  Encl(f, 0, k) = 0
  BY EnclIs

(* The line that encloses a line is the last of those before it. *)
LEMMA ParentIs ==
  ASSUME NEW f, IsFile(f), NEW i \in Lines(f)
  PROVE  Parent(f, i) = Encl(f, i - 1, f[i].indent)
<1>1. i \in Nat /\ i > 0
  BY LinesAre
<1>2. \A j \in Lines(f) : j < i <=> j <= i - 1
  BY <1>1, LinesAre
<1>3. Below(f, i - 1, f[i].indent)
        = {0} \cup { j \in Lines(f) : j < i /\ f[j].indent < f[i].indent }
  BY <1>2 DEF Below
<1> QED BY <1>3 DEF Parent, Encl

-----------------------------------------------------------------------------
(* The keys of lists, and the options they set. *)
LEMMA ListKeysAre ==
  /\ \A l \in Lists : <<"soundbox", l>> \in Keys /\ OptionOf[<<"soundbox", l>>] = l
  /\ ListKeys \subseteq Keys /\ DOMAIN OptionOf = Keys
  /\ \A a, b : <<a, b>> \in ListKeys => a = "soundbox" /\ b \in Lists
  /\ \A a : <<a>> \notin ListKeys
  /\ \A a, b : <<a, b, ItemKey>> \notin Keys
<1>1. \A l \in Lists : <<"soundbox", l>> \in Keys /\ OptionOf[<<"soundbox", l>>] = l
  BY DEF Lists, Keys, OptionOf
<1>2. DOMAIN OptionOf = Keys
  BY DEF OptionOf
<1>3. \A a, b : <<a, b>> \in ListKeys => a = "soundbox" /\ b \in Lists
  BY DEF ListKeys
<1>4. \A a : <<a>> \notin ListKeys
  BY DEF ListKeys, Lists
<1>5. \A a, b : <<a, b, ItemKey>> \notin Keys
  BY DEF Keys, ItemKey
<1>6. ListKeys \subseteq Keys
  BY <1>1 DEF ListKeys
<1> QED BY <1>1, <1>2, <1>3, <1>4, <1>5, <1>6

(* The three places where a line may be. *)
AtTop(f, i) ==
  /\ f[i].indent = 0 /\ Parent(f, i) = 0 /\ Path(f, i) = <<f[i].key>>

Within(f, i, p) ==
  /\ f[i].indent = 2 /\ Parent(f, i) = p /\ p \in Lines(f) /\ p < i
  /\ f[p].value = None /\ AtTop(f, p)
  /\ Path(f, i) = <<f[p].key, f[i].key>>

Inside(f, i, p, q) ==
  /\ f[i].indent = 4 /\ Parent(f, i) = p /\ p \in Lines(f) /\ p < i
  /\ f[p].value = None /\ q \in Lines(f) /\ Within(f, p, q)
  /\ Path(f, i) = <<f[q].key, f[p].key, f[i].key>>

LEMMA ParentBefore ==
  ASSUME NEW f, IsFile(f), NEW i \in Lines(f)
  PROVE  /\ Parent(f, i) \in Nat /\ Parent(f, i) < i
         /\ Parent(f, i) # 0 =>
              Parent(f, i) \in Lines(f) /\ f[Parent(f, i)].indent < f[i].indent
<1>1. i \in Nat /\ i > 0 /\ i - 1 \in Nat /\ f[i].indent \in Nat
  BY LinesAre
<1>2. LET e == Encl(f, i - 1, f[i].indent) IN
        /\ e \in Nat /\ e <= i - 1
        /\ e # 0 => e \in Lines(f) /\ f[e].indent < f[i].indent
  BY <1>1, EnclIs
<1>3. Parent(f, i) = Encl(f, i - 1, f[i].indent)
  BY ParentIs
<1> QED BY <1>1, <1>2, <1>3

LEMMA HeaderShallow ==
  ASSUME NEW f, IsFile(f), WellFormed(f), NEW p \in Lines(f), f[p].value = None
  PROVE  AtTop(f, p) \/ \E q \in Lines(f) : Within(f, p, q)
<1>1. WellFormedLine(f, p) /\ f[p].indent \in Nat
  BY LinesAre DEF WellFormed
<1>2. f[p].indent <= 2
  BY <1>1 DEF WellFormedLine
<1>3. CASE Parent(f, p) = 0
  BY <1>1, <1>3 DEF WellFormedLine, AtTop, Path
<1>4. CASE Parent(f, p) # 0
  <2> DEFINE q == Parent(f, p)
  <2>1. q \in Lines(f) /\ q < p /\ f[q].indent \in Nat /\ f[p].indent = f[q].indent + 2
    BY <1>1, <1>4, ParentBefore, LinesAre DEF WellFormedLine
  <2>2. f[q].indent = 0 /\ f[p].indent = 2 /\ f[q].value = None
    BY <1>1, <1>2, <1>4, <2>1 DEF WellFormedLine
  <2>3. Parent(f, q) = 0
    <3>1. /\ Parent(f, q) \in Nat
          /\ Parent(f, q) # 0 =>
               Parent(f, q) \in Lines(f) /\ f[Parent(f, q)].indent < f[q].indent
      BY <2>1, ParentBefore
    <3>2. ~ (Parent(f, q) \in Lines(f) /\ f[Parent(f, q)].indent < 0)
      BY LinesAre
    <3> QED BY <2>2, <3>1, <3>2
  <2>4. AtTop(f, q) /\ Path(f, p) = <<f[q].key, f[p].key>>
    BY <1>4, <2>2, <2>3 DEF AtTop, Path
  <2> QED BY <2>1, <2>2, <2>4 DEF Within
<1> QED BY <1>3, <1>4

LEMMA Places ==
  ASSUME NEW f, IsFile(f), WellFormed(f), NEW i \in Lines(f)
  PROVE  \/ AtTop(f, i)
         \/ \E p \in Lines(f) : Within(f, i, p)
         \/ \E p \in Lines(f), q \in Lines(f) : Inside(f, i, p, q)
<1> DEFINE p == Parent(f, i)
<1>1. WellFormedLine(f, i)
  BY DEF WellFormed
<1>2. CASE p = 0
  BY <1>1, <1>2 DEF WellFormedLine, AtTop, Path
<1>3. CASE p # 0
  <2>1. p \in Lines(f) /\ p < i /\ f[p].value = None /\ f[i].indent = f[p].indent + 2
    BY <1>1, <1>3, ParentBefore DEF WellFormedLine
  <2>2. CASE AtTop(f, p)
    <3>1. Path(f, i) = <<f[p].key, f[i].key>>
      BY <1>3, <2>2 DEF AtTop, Path
    <3>2. Within(f, i, p)
      BY <2>1, <2>2, <3>1 DEF Within, AtTop
    <3> QED BY <2>1, <3>2
  <2>3. ASSUME NEW q \in Lines(f), Within(f, p, q)
        PROVE  Inside(f, i, p, q)
    <3>1. q # 0
      BY LinesAre
    <3>2. Path(f, i) = <<f[q].key, f[p].key, f[i].key>>
      BY <1>3, <2>3, <3>1 DEF Within, Path
    <3> QED BY <2>1, <2>3, <3>2 DEF Inside, Within
  <2> QED BY <2>1, <2>2, <2>3, HeaderShallow
<1> QED BY <1>2, <1>3

-----------------------------------------------------------------------------
(* The items of a list are the lines that it encloses. *)
LEMMA ItemWhere ==
  ASSUME NEW f, IsFile(f), WellFormed(f), NEW i \in Lines(f)
  PROVE  /\ f[i].key = ItemKey <=>
              Parent(f, i) # 0 /\ Path(f, Parent(f, i)) \in ListKeys
         /\ f[i].key = ItemKey => /\ f[i].value # None
                                  /\ Path(f, i) \notin Keys
                                  /\ \E p, q \in Lines(f) : Inside(f, i, p, q)
<1>1. WellFormedLine(f, i)
  BY DEF WellFormed
<1>2. f[i].key = ItemKey <=> Parent(f, i) # 0 /\ Path(f, Parent(f, i)) \in ListKeys
  BY <1>1 DEF WellFormedLine
<1>3. ASSUME f[i].key = ItemKey
      PROVE  /\ f[i].value # None /\ Path(f, i) \notin Keys
             /\ \E p, q \in Lines(f) : Inside(f, i, p, q)
  <2>1. f[i].value # None
    BY <1>1, <1>3 DEF WellFormedLine
  <2>2. ~AtTop(f, i)
    BY <1>2, <1>3 DEF AtTop
  <2>3. ~ \E p \in Lines(f) : Within(f, i, p)
    BY <1>2, <1>3, ListKeysAre DEF Within, AtTop
  <2>4. PICK p \in Lines(f), q \in Lines(f) : Inside(f, i, p, q)
    BY <2>2, <2>3, Places
  <2>5. Path(f, i) \notin Keys
    BY <1>3, <2>4, ListKeysAre DEF Inside
  <2> QED BY <2>1, <2>4, <2>5
<1> QED BY <1>2, <1>3

(* Between the key of a list and an item of it there are only items. *)
LEMMA OnlyItemsBetween ==
  ASSUME NEW f, IsFile(f), WellFormed(f), NEW n \in Nat, NEW w \in Lines(f),
         w = Encl(f, n, 4), Path(f, w) \in ListKeys,
         NEW j \in Lines(f), w < j, j <= n
  PROVE  f[j].key = ItemKey /\ Parent(f, j) = w
<1>1. j \in Nat /\ w \in Nat /\ w > 0 /\ f[j].indent \in Nat /\ j - 1 \in Nat
  BY LinesAre
<1>2. /\ f[w].indent < 4
      /\ \A m \in Lines(f) : m <= n /\ f[m].indent < 4 => m <= w
  <2>1. LET e == Encl(f, n, 4) IN
          /\ e # 0 => e \in Lines(f) /\ f[e].indent < 4
          /\ \A m \in Lines(f) : m <= n /\ f[m].indent < 4 => m <= e
    BY EnclIs, 4 \in Nat
  <2> QED BY <1>1, <2>1
<1>3. ~(f[j].indent < 4)
  BY <1>1, <1>2
<1>4. f[j].indent = 4
  BY <1>3, Places DEF AtTop, Within, Inside
<1>5. Encl(f, j - 1, 4) = w
  <2> DEFINE b == j - 1
  <2>1. \A m \in Lines(f) : m <= b /\ f[m].indent < 4 => m <= w
    BY <1>1, <1>2, LinesAre
  <2>2. w \in Nat /\ w <= b /\ b \in Nat /\ 4 \in Nat
    BY <1>1, <1>2
  <2>3. w # 0 => w \in Lines(f) /\ f[w].indent < 4
    BY <1>2
  <2> HIDE DEF Encl, b
  <2>4. Encl(f, b, 4) = w
    BY <2>1, <2>2, <2>3, EnclOnly
  <2> QED BY <2>4 DEF b
<1>6. Parent(f, j) = w
  BY <1>4, <1>5, ParentIs
<1> QED BY <1>1, <1>6, ItemWhere

-----------------------------------------------------------------------------
(* g gives the items of the list up to any line. *)
ItemsUpto(f, list, g) ==
  g = [n \in 0 .. Len(f) |->
        IF n = 0 THEN <<>>
        ELSE IF n \in Lines(f) /\ Parent(f, n) = list /\ f[n].value # ""
        THEN Append(g[n - 1], f[n].value) ELSE g[n - 1]]

Upto(f, list) == CHOOSE g : ItemsUpto(f, list, g)

(* The function that collects the items exists: it is built line by line. *)
LEMMA ItemsExist ==
  ASSUME NEW f, IsFile(f), NEW list
  PROVE  \E g : ItemsUpto(f, list, g)
<1> DEFINE Step(g, n) == IF n = 0 THEN <<>>
                         ELSE IF n \in Lines(f) /\ Parent(f, n) = list /\ f[n].value # ""
                         THEN Append(g[n - 1], f[n].value) ELSE g[n - 1]
           T == { m \in Nat : \E g : g = [n \in 0 .. m |-> Step(g, n)] }
<1>1. 0 \in T
  <2>1. 0 .. 0 = {0}
    OBVIOUS
  <2>2. [n \in 0 .. 0 |-> <<>>] = [n \in 0 .. 0 |-> Step([n_1 \in 0 .. 0 |-> <<>>], n)]
    BY <2>1
  <2> QED BY <2>2
<1>2. ASSUME NEW m \in Nat, m \in T
      PROVE  m + 1 \in T
  <2>1. PICK g : g = [n \in 0 .. m |-> Step(g, n)]
    BY <1>2
  <2> DEFINE h == [n \in 0 .. m + 1 |-> IF n = m + 1 THEN Step(g, m + 1) ELSE g[n]]
  <2>2. \A n \in 0 .. m + 1 : n # m + 1 => n \in 0 .. m /\ h[n] = g[n]
    OBVIOUS
  <2>3. \A n \in 0 .. m + 1 : n # 0 => h[n - 1] = g[n - 1]
    <3>1. \A n \in 0 .. m + 1 : n # 0 => n - 1 \in 0 .. m + 1 /\ n - 1 # m + 1
      OBVIOUS
    <3> HIDE DEF h
    <3> QED BY <2>2, <3>1
  <2>4. \A n \in 0 .. m : g[n] = Step(g, n)
    BY <2>1
  <2>5. \A n \in 0 .. m + 1 : h[n] = Step(h, n)
    BY <2>2, <2>3, <2>4 DEF Step
  <2>6. h = [n \in 0 .. m + 1 |-> Step(h, n)]
    <3> HIDE DEF Step
    <3> QED BY <2>5
  <2>7. m + 1 \in Nat
    OBVIOUS
  <2> HIDE DEF h
  <2> QED BY <2>6, <2>7
<1>3. Len(f) \in T
  <2> HIDE DEF T
  <2>1. Nat \subseteq T
    BY <1>1, <1>2, ByInduction
  <2> QED BY <2>1, LinesAre
<1> QED BY <1>3 DEF ItemsUpto

(* So every line adds its item, and at the end they are those of the list. *)
LEMMA UptoIs ==
  ASSUME NEW f, IsFile(f), NEW list
  PROVE  /\ ItemsOf(f, list) = Upto(f, list)[Len(f)]
         /\ Upto(f, list)[0] = <<>>
         /\ \A n \in Nat : n + 1 <= Len(f) =>
              Upto(f, list)[n + 1] =
                IF n + 1 \in Lines(f) /\ Parent(f, n + 1) = list /\ f[n + 1].value # ""
                THEN Append(Upto(f, list)[n], f[n + 1].value) ELSE Upto(f, list)[n]
<1>1. ItemsOf(f, list) = Upto(f, list)[Len(f)]
  BY Zenon DEF ItemsOf, Upto, ItemsUpto
<1>2. ItemsUpto(f, list, Upto(f, list))
  BY ItemsExist DEF Upto
<1>3. Upto(f, list)[0] = <<>>
  <2>1. 0 \in 0 .. Len(f)
    BY LinesAre
  <2> QED BY <1>2, <2>1 DEF ItemsUpto
<1>4. ASSUME NEW n \in Nat, n + 1 <= Len(f)
      PROVE  Upto(f, list)[n + 1] =
                IF n + 1 \in Lines(f) /\ Parent(f, n + 1) = list /\ f[n + 1].value # ""
                THEN Append(Upto(f, list)[n], f[n + 1].value) ELSE Upto(f, list)[n]
  <2>1. n + 1 \in 0 .. Len(f) /\ n + 1 # 0 /\ (n + 1) - 1 = n
    BY <1>4, LinesAre
  <2> QED BY <1>2, <2>1 DEF ItemsUpto
<1> QED BY <1>1, <1>3, <1>4

(* A list has no items before its key. *)
LEMMA NoItemsBefore ==
  ASSUME NEW f, IsFile(f), NEW i \in Lines(f)
  PROVE  Upto(f, i)[i] = <<>>
<1> DEFINE T == { m \in Nat : m <= i => Upto(f, i)[m] = <<>> }
<1>1. 0 \in T
  BY UptoIs
<1>2. ASSUME NEW m \in Nat, m \in T
      PROVE  m + 1 \in T
  <2> SUFFICES ASSUME m + 1 <= i PROVE Upto(f, i)[m + 1] = <<>>
    OBVIOUS
  <2>1. m + 1 <= Len(f) /\ m <= i /\ i \in Nat
    BY LinesAre
  <2>2. ~(m + 1 \in Lines(f) /\ Parent(f, m + 1) = i)
    BY <2>1, ParentBefore
  <2> QED BY <1>2, <2>1, <2>2, UptoIs
<1> HIDE DEF T
<1>3. Nat \subseteq T
  BY <1>1, <1>2, ByInduction
<1> QED BY <1>3, LinesAre DEF T

-----------------------------------------------------------------------------
(* What encloses a line, and what encloses the next one. *)
LEMMA EnclTop ==
  ASSUME NEW f, IsFile(f), NEW n \in Nat, n + 1 \in Lines(f), AtTop(f, n + 1)
  PROVE  Encl(f, n + 1, 2) = n + 1 /\ Encl(f, n + 1, 4) = n + 1
<1>1. f[n + 1].indent = 0 /\ 0 < 2 /\ 0 < 4 /\ 2 \in Nat /\ 4 \in Nat
  BY DEF AtTop
<1> QED BY <1>1, EnclNext

LEMMA EnclWithin ==
  ASSUME NEW f, IsFile(f), NEW n \in Nat, n + 1 \in Lines(f), NEW p, Within(f, n + 1, p)
  PROVE  /\ Encl(f, n, 2) = p /\ Encl(f, n + 1, 2) = p
         /\ Encl(f, n + 1, 4) = n + 1
<1>1. f[n + 1].indent = 2 /\ ~(2 < 2) /\ 2 < 4 /\ 2 \in Nat /\ 4 \in Nat
  BY DEF Within
<1>2. Encl(f, n, 2) = p
  <2>1. (n + 1) - 1 = n
    OBVIOUS
  <2> QED BY <1>1, <2>1, ParentIs DEF Within
<1>3. Encl(f, n + 1, 2) = Encl(f, n, 2)
  BY <1>1, EnclNext
<1>4. Encl(f, n + 1, 4) = n + 1
  BY <1>1, EnclNext
<1> QED BY <1>2, <1>3, <1>4

LEMMA EnclInside ==
  ASSUME NEW f, IsFile(f), NEW n \in Nat, n + 1 \in Lines(f), NEW p, NEW q,
         Inside(f, n + 1, p, q)
  PROVE  /\ Encl(f, n, 2) = q /\ Encl(f, n + 1, 2) = q
         /\ Encl(f, n, 4) = p /\ Encl(f, n + 1, 4) = p
<1>1. f[n + 1].indent = 4 /\ ~(4 < 2) /\ ~(4 < 4) /\ 2 \in Nat /\ 4 \in Nat
  BY DEF Inside
<1>2. Encl(f, n, 4) = p
  <2>1. (n + 1) - 1 = n
    OBVIOUS
  <2> QED BY <1>1, <2>1, ParentIs DEF Inside
<1>3. /\ p \in Lines(f) /\ q \in Lines(f) /\ q < p /\ f[p].indent = 2 /\ f[q].indent = 0
      /\ Parent(f, p) = q /\ p < n + 1
  BY DEF Inside, Within, AtTop
<1>4. p \in Nat /\ q \in Nat /\ p - 1 \in Nat /\ p - 1 < p
  BY <1>3, LinesAre
<1>5. Encl(f, p - 1, 2) = q
  BY <1>3, ParentIs
<1>6. \A j \in Lines(f) : j <= n /\ f[j].indent < 2 => j <= q
  <2> SUFFICES ASSUME NEW j \in Lines(f), j <= n, f[j].indent < 2
               PROVE  j <= q
    OBVIOUS
  <2>1. j \in Nat /\ f[j].indent \in Nat
    BY LinesAre
  <2>2. LET e == Encl(f, n, 4) IN
          \A m \in Lines(f) : m <= n /\ f[m].indent < 4 => m <= e
    BY <1>1, EnclIs
  <2>3. j <= p /\ j # p
    BY <1>2, <1>3, <2>1, <2>2
  <2>4. j <= p - 1
    BY <1>4, <2>1, <2>3
  <2>5. LET e == Encl(f, p - 1, 2) IN
          \A m \in Lines(f) : m <= p - 1 /\ f[m].indent < 2 => m <= e
    BY <1>1, <1>4, EnclIs
  <2> QED BY <1>5, <2>4, <2>5
<1>7. Encl(f, n, 2) = q
  <2>1. q <= n /\ (q # 0 => q \in Lines(f) /\ f[q].indent < 2)
    BY <1>3, <1>4
  <2> HIDE DEF Encl
  <2> QED BY <1>1, <1>4, <1>6, <2>1, EnclOnly
<1>8. Encl(f, n + 1, 2) = Encl(f, n, 2) /\ Encl(f, n + 1, 4) = Encl(f, n, 4)
  BY <1>1, EnclNext
<1> QED BY <1>2, <1>7, <1>8

LEMMA EnclComment ==
  ASSUME NEW f, IsFile(f), NEW n \in Nat, n + 1 \notin Lines(f)
  PROVE  Encl(f, n + 1, 2) = Encl(f, n, 2) /\ Encl(f, n + 1, 4) = Encl(f, n, 4)
<1>1. 2 \in Nat /\ 4 \in Nat
  OBVIOUS
<1> QED BY <1>1, EnclNext

-----------------------------------------------------------------------------
(* The value of an option by the first n lines. *)
SettersUpto(f, o, n) == { i \in Setters(f, o) : i <= n }

ValueAt(d, f, o, n) ==
  IF SettersUpto(f, o, n) = {} THEN d[o]
  ELSE LET i == Max(SettersUpto(f, o, n))
       IN  IF f[i].value = None THEN Upto(f, i)[n] ELSE Converted(o, f[i].value)

(* The last of the lines that set an option is one of them. *)
LEMMA LastSetter ==
  ASSUME NEW f, IsFile(f), NEW o, NEW n \in Nat
  PROVE  /\ SettersUpto(f, o, n) \in SUBSET Nat
         /\ SettersUpto(f, o, n) # {} =>
              Max(SettersUpto(f, o, n)) \in SettersUpto(f, o, n)
<1>1. SettersUpto(f, o, n) \in SUBSET (0 .. n)
  BY LinesAre DEF SettersUpto, Setters
<1>2. SettersUpto(f, o, n) \in SUBSET Nat
  BY <1>1
<1> QED BY <1>1, <1>2, MaxThere

(* A line that does not set an option leaves its value. *)
LEMMA ValueKept ==
  ASSUME NEW d, NEW f, IsFile(f), NEW o, NEW n \in Nat,
         n + 1 \notin Setters(f, o),
         \A i \in Setters(f, o) : f[i].value = None => Upto(f, i)[n + 1] = Upto(f, i)[n]
  PROVE  ValueAt(d, f, o, n + 1) = ValueAt(d, f, o, n)
<1>1. SettersUpto(f, o, n + 1) = SettersUpto(f, o, n)
  BY LinesAre DEF SettersUpto, Setters
<1>2. SettersUpto(f, o, n) # {} => Max(SettersUpto(f, o, n)) \in Setters(f, o)
  BY LastSetter DEF SettersUpto
<1> QED BY <1>1, <1>2 DEF ValueAt

(* Otherwise the last line that sets it gives the value. *)
LEMMA ValueOfLast ==
  ASSUME NEW d, NEW f, IsFile(f), NEW o, NEW n \in Nat, NEW w \in Setters(f, o), w <= n,
         \A j \in Setters(f, o) : j <= n => j <= w
  PROVE  ValueAt(d, f, o, n) =
           IF f[w].value = None THEN Upto(f, w)[n] ELSE Converted(o, f[w].value)
<1>1. w \in SettersUpto(f, o, n) /\ \A j \in SettersUpto(f, o, n) : j <= w
  BY DEF SettersUpto
<1>2. Max(SettersUpto(f, o, n)) = w
  BY <1>1, LastSetter, MaxIs
<1> QED BY <1>1, <1>2 DEF ValueAt

LEMMA ValueSet ==
  ASSUME NEW d, NEW f, IsFile(f), NEW o, NEW n \in Nat, n + 1 \in Setters(f, o)
  PROVE  ValueAt(d, f, o, n + 1) =
           IF f[n + 1].value = None THEN <<>> ELSE Converted(o, f[n + 1].value)
<1>1. n + 1 \in Lines(f) /\ n + 1 \in Nat
  BY DEF Setters
<1>2. Upto(f, n + 1)[n + 1] = <<>>
  BY <1>1, NoItemsBefore
<1> QED BY <1>1, <1>2, ValueOfLast

(* Which lines set an option. *)
LEMMA SetterIs ==
  ASSUME NEW f, IsFile(f), WellFormed(f), NEW i \in Lines(f), NEW o
  PROVE  /\ i \in Setters(f, o) <=>
              /\ Path(f, i) \in Keys /\ OptionOf[Path(f, i)] = o
              /\ f[i].value # None \/ Path(f, i) \in ListKeys
         /\ f[i].key = ItemKey => i \notin Setters(f, o)
<1>1. i \in Setters(f, o) <=>
        /\ Path(f, i) \in Keys /\ OptionOf[Path(f, i)] = o
        /\ f[i].value # None \/ Path(f, i) \in ListKeys
  BY ListKeysAre DEF Setters
<1> QED BY <1>1, ItemWhere

(* Only an item makes a list longer. *)
LEMMA UptoKept ==
  ASSUME NEW f, IsFile(f), WellFormed(f), NEW n \in Nat, n + 1 <= Len(f),
         n + 1 \notin Lines(f) \/ f[n + 1].key # ItemKey,
         NEW o, NEW i \in Setters(f, o), f[i].value = None
  PROVE  Upto(f, i)[n + 1] = Upto(f, i)[n]
<1>1. i \in Lines(f) /\ Path(f, i) \in ListKeys /\ i # 0
  BY LinesAre DEF Setters
<1>2. ~(n + 1 \in Lines(f) /\ Parent(f, n + 1) = i)
  BY <1>1, ItemWhere
<1> QED BY <1>2, UptoIs

-----------------------------------------------------------------------------
(* What the state of the reader says about the n lines read.                *)
InSection(f, n) ==
  LET s == Encl(f, n, 2)
  IN  IF s # 0 /\ f[s].value = None THEN f[s].key ELSE None

Fields == {"section", "subsection", "sequence", "options", "failed"}

Tracks(d, f, n, r) ==
  /\ DOMAIN r = Fields /\ r.failed = FALSE
  /\ r.section = InSection(f, n)
  /\ LET w == Encl(f, n, 4) IN
       (w # 0 /\ f[w].value = None /\ f[w].indent = 2) =>
         IF Path(f, w) \in ListKeys THEN r.sequence = f[w].key
                                    ELSE r.subsection = f[w].key
  /\ r.options = [o \in Options |-> ValueAt(d, f, o, n)]

(* How to show it, with the header that is still open named. *)
LEMMA TracksWhen ==
  ASSUME NEW d, NEW f, NEW n, NEW s, NEW w, Encl(f, n, 4) = w,
         DOMAIN s = Fields, s.failed = FALSE, s.section = InSection(f, n),
         s.options = [o \in Options |-> ValueAt(d, f, o, n)],
         (w # 0 /\ f[w].value = None /\ f[w].indent = 2) =>
            IF Path(f, w) \in ListKeys THEN s.sequence = f[w].key
                                       ELSE s.subsection = f[w].key
  PROVE  Tracks(d, f, n, s)
  BY DEF Tracks

(* A section has a name. *)
LEMMA HeaderNamed ==
  ASSUME NEW f, IsFile(f), WellFormed(f), NEW i \in Lines(f)
  PROVE  f[i].key # None /\ f[i].key # NoKey /\ f[i].key # Comment /\ i # 0
  BY LinesAre DEF WellFormed, WellFormedLine, Lines

(* What kinds of lines there are, for a reader that has not failed. *)
LEMMA ReadLineIs ==
  ASSUME NEW r, NEW line, r.failed = FALSE
  PROVE  /\ line.key = Comment => ReadLine(r, line) = r
         /\ line.key = ItemKey => ReadLine(r, line) = AddItem(r, line)
         /\ line.key \notin {Comment, ItemKey, NoKey} =>
              ReadLine(r, line) = IF line.value = None THEN Open(r, line) ELSE Entry(r, line)
  BY DEF ReadLine, Comment, ItemKey, NoKey

(* A comment changes nothing. *)
LEMMA CommentTracked ==
  ASSUME NEW d, NEW f, IsFile(f), WellFormed(f), NEW n \in Nat, n + 1 <= Len(f), NEW r,
         Tracks(d, f, n, r), n + 1 \notin Lines(f)
  PROVE  Tracks(d, f, n + 1, ReadLine(r, f[n + 1]))
<1>1. f[n + 1].key = Comment
  BY DEF Lines, IsFile
<1>2. ReadLine(r, f[n + 1]) = r
  BY <1>1, ReadLineIs DEF Tracks
<1>3. Encl(f, n + 1, 2) = Encl(f, n, 2) /\ Encl(f, n + 1, 4) = Encl(f, n, 4)
  BY EnclComment
<1>4. ASSUME NEW o
      PROVE  ValueAt(d, f, o, n + 1) = ValueAt(d, f, o, n)
  <2>1. n + 1 \notin Setters(f, o)
    BY DEF Setters
  <2> QED BY <2>1, UptoKept, ValueKept
<1> QED BY <1>2, <1>3, <1>4 DEF Tracks, InSection

(* An item gets to the list that encloses it. *)
LEMMA ItemTracked ==
  ASSUME NEW d, NEW f, IsFile(f), WellFormed(f), NEW n \in Nat, n + 1 <= Len(f), NEW r,
         Tracks(d, f, n, r), n + 1 \in Lines(f), f[n + 1].key = ItemKey
  PROVE  Tracks(d, f, n + 1, ReadLine(r, f[n + 1]))
<1> DEFINE v == f[n + 1].value
<1>1. v # None
  BY ItemWhere
<1>2. PICK p \in Lines(f), q \in Lines(f) : Inside(f, n + 1, p, q)
  BY ItemWhere
<1>3. /\ Parent(f, n + 1) = p /\ p < n + 1 /\ f[p].value = None /\ f[p].indent = 2
      /\ Path(f, p) = <<f[q].key, f[p].key>>
  BY <1>2 DEF Inside, Within
<1>4. Path(f, p) \in ListKeys
  BY <1>3, ItemWhere
<1>5. f[p].key \in Lists /\ Path(f, p) = <<"soundbox", f[p].key>>
  BY <1>3, <1>4, ListKeysAre
<1>6. Path(f, p) \in Keys /\ OptionOf[Path(f, p)] = f[p].key /\ f[p].key \in Options
  BY <1>5, ListKeysAre DEF Options
<1>7. /\ Encl(f, n, 2) = q /\ Encl(f, n + 1, 2) = q
      /\ Encl(f, n, 4) = p /\ Encl(f, n + 1, 4) = p
  BY <1>2, EnclInside
<1>8. r.sequence = f[p].key /\ f[p].key # None /\ p # 0
  BY <1>3, <1>4, <1>7, HeaderNamed DEF Tracks
<1>9. ReadLine(r, f[n + 1]) =
        IF v = "" THEN r ELSE [r EXCEPT !.options[f[p].key] = Append(@, v)]
  <2>1. r.failed = FALSE
    BY DEF Tracks
  <2>2. ReadLine(r, f[n + 1]) = AddItem(r, f[n + 1])
    BY <2>1, ReadLineIs
  <2> QED BY <1>1, <1>8, <2>2 DEF AddItem
<1>10. ASSUME NEW j \in Setters(f, f[p].key), j <= n + 1
       PROVE  j <= p
  <2>1. j \in Lines(f) /\ j \in Nat /\ p \in Nat /\ j # n + 1
    BY SetterIs, LinesAre DEF Setters
  <2>2. ~(p < j /\ j <= n)
    BY <1>4, <1>7, <2>1, OnlyItemsBetween, SetterIs
  <2> QED BY <1>10, <2>1, <2>2
<1>11. /\ ValueAt(d, f, f[p].key, n) = Upto(f, p)[n]
       /\ ValueAt(d, f, f[p].key, n + 1) = Upto(f, p)[n + 1]
  <2>1. p \in Setters(f, f[p].key) /\ p <= n /\ p <= n + 1 /\ n + 1 \in Nat
    BY <1>3, <1>4, <1>6, SetterIs, LinesAre
  <2>2. \A j \in Setters(f, f[p].key) : j <= n => j <= n + 1
    BY LinesAre DEF Setters
  <2>3. f[p].value = None
    BY <1>3
  <2>4. ValueAt(d, f, f[p].key, n) = Upto(f, p)[n]
    BY <1>10, <2>1, <2>2, <2>3, ValueOfLast
  <2>5. ValueAt(d, f, f[p].key, n + 1) = Upto(f, p)[n + 1]
    BY <1>10, <2>1, <2>3, ValueOfLast
  <2> QED BY <2>4, <2>5
<1>12. Upto(f, p)[n + 1] = IF v = "" THEN Upto(f, p)[n] ELSE Append(Upto(f, p)[n], v)
  <2>1. Upto(f, p)[n + 1] =
          IF n + 1 \in Lines(f) /\ Parent(f, n + 1) = p /\ f[n + 1].value # ""
          THEN Append(Upto(f, p)[n], f[n + 1].value) ELSE Upto(f, p)[n]
    BY UptoIs
  <2> QED BY <1>3, <2>1
<1>13. ASSUME NEW o, o # f[p].key
       PROVE  ValueAt(d, f, o, n + 1) = ValueAt(d, f, o, n)
  <2>1. n + 1 \notin Setters(f, o)
    BY SetterIs
  <2>2. ASSUME NEW i \in Setters(f, o), f[i].value = None
        PROVE  Upto(f, i)[n + 1] = Upto(f, i)[n]
    <3>1. i # p
      BY <1>6, <1>13, SetterIs
    <3>2. ~(n + 1 \in Lines(f) /\ Parent(f, n + 1) = i)
      BY <1>3, <3>1
    <3> QED BY <3>2, UptoIs
  <2> QED BY <2>1, <2>2, ValueKept
<1>14. CASE v = ""
  <2>1. \A o : ValueAt(d, f, o, n + 1) = ValueAt(d, f, o, n)
    BY <1>11, <1>12, <1>13, <1>14
  <2> QED BY <1>7, <1>9, <1>14, <2>1 DEF Tracks, InSection
<1>15. CASE v # ""
  <2> DEFINE s == [r EXCEPT !.options[f[p].key] = Append(@, v)]
  <2>1. /\ DOMAIN s = Fields /\ s.failed = FALSE /\ s.section = r.section
        /\ s.subsection = r.subsection /\ s.sequence = r.sequence
        /\ s.options = [r.options EXCEPT ![f[p].key] = Append(@, v)]
    BY DEF Tracks, Fields
  <2>2. [r.options EXCEPT ![f[p].key] = Append(@, v)]
          = [o \in Options |-> ValueAt(d, f, o, n + 1)]
    BY <1>6, <1>11, <1>12, <1>13, <1>15 DEF Tracks
  <2> HIDE DEF s
  <2>3. Tracks(d, f, n + 1, s)
    BY <1>7, <2>1, <2>2 DEF Tracks, InSection
  <2> QED BY <1>9, <1>15, <2>3 DEF s
<1> QED BY <1>14, <1>15

(* The value of an option changes with the line that sets it only.           *)
LEMMA OthersKept ==
  ASSUME NEW d, NEW f, IsFile(f), WellFormed(f), NEW n \in Nat, n + 1 <= Len(f),
         n + 1 \in Lines(f), f[n + 1].key # ItemKey, NEW o, n + 1 \notin Setters(f, o)
  PROVE  ValueAt(d, f, o, n + 1) = ValueAt(d, f, o, n)
  BY UptoKept, ValueKept

(* A line without a value opens a section, a subsection or a list. *)
LEMMA HeaderTracked ==
  ASSUME NEW d, NEW f, IsFile(f), WellFormed(f), NEW n \in Nat, n + 1 <= Len(f), NEW r,
         Tracks(d, f, n, r), n + 1 \in Lines(f), f[n + 1].key # ItemKey,
         f[n + 1].value = None
  PROVE  Tracks(d, f, n + 1, ReadLine(r, f[n + 1]))
<1> DEFINE key == f[n + 1].key
           s == ReadLine(r, f[n + 1])
<1>1. /\ f[n + 1].key \notin {Comment, ItemKey, NoKey} /\ f[n + 1].key # None
      /\ r.failed = FALSE /\ DOMAIN r = Fields /\ n + 1 # 0
  BY HeaderNamed DEF Tracks
<1>2. s = Open(r, f[n + 1])
  BY <1>1, ReadLineIs
<1>3. CASE AtTop(f, n + 1)
  <2>1. Encl(f, n + 1, 2) = n + 1 /\ Encl(f, n + 1, 4) = n + 1 /\ f[n + 1].indent = 0
    BY <1>3, EnclTop DEF AtTop
  <2>2. \A o : n + 1 \notin Setters(f, o)
    BY <1>3, SetterIs, ListKeysAre DEF AtTop
  <2>3. r.options = [o \in Options |-> ValueAt(d, f, o, n + 1)]
    BY <2>2, OthersKept DEF Tracks
  <2>4. s = [r EXCEPT !.section = key, !.subsection = None, !.sequence = None]
    BY <1>2, <2>1 DEF Open
  <2>5. /\ DOMAIN s = Fields /\ s.failed = FALSE /\ s.section = key
        /\ s.options = r.options
    BY <1>1, <2>4 DEF Fields
  <2>6. InSection(f, n + 1) = key
    BY <1>1, <2>1 DEF InSection
  <2> HIDE DEF s
  <2>7. s.options = [o \in Options |-> ValueAt(d, f, o, n + 1)]
    BY <2>3, <2>5
  <2>8. DOMAIN s = Fields /\ s.failed = FALSE /\ s.section = InSection(f, n + 1)
    BY <2>5, <2>6
  <2>9. Tracks(d, f, n + 1, s)
    <3>1. /\ Encl(f, n + 1, 4) = n + 1
          /\ ~(n + 1 # 0 /\ f[n + 1].value = None /\ f[n + 1].indent = 2)
      BY <2>1
    <3> HIDE DEF key
    <3> QED BY <2>7, <2>8, <3>1, TracksWhen
  <2> QED BY <2>9 DEF s
<1>4. ASSUME NEW p \in Lines(f), Within(f, n + 1, p)
      PROVE  Tracks(d, f, n + 1, s)
  <2>1. /\ Encl(f, n, 2) = p /\ Encl(f, n + 1, 2) = p /\ Encl(f, n + 1, 4) = n + 1
    BY <1>4, EnclWithin
  <2>2. /\ f[n + 1].indent = 2 /\ f[p].value = None /\ f[p].key # None /\ p # 0
        /\ Path(f, n + 1) = <<f[p].key, key>>
    BY <1>4, HeaderNamed DEF Within
  <2>3. r.section = f[p].key
    BY <2>1, <2>2 DEF Tracks, InSection
  <2>4. InSection(f, n + 1) = f[p].key
    BY <2>1, <2>2 DEF InSection
  <2>5. CASE Path(f, n + 1) \in ListKeys
    <3>1. key \in Lists /\ Path(f, n + 1) = <<"soundbox", key>>
      BY <2>2, <2>5, ListKeysAre
    <3>2. Path(f, n + 1) \in Keys /\ OptionOf[Path(f, n + 1)] = key /\ key \in Options
      BY <3>1, ListKeysAre DEF Options
    <3>3. s = OpenList(r, key)
      BY <1>2, <2>2, <2>3, <2>5 DEF Open
    <3>4. s = [r EXCEPT !.subsection = None, !.sequence = key, !.options[key] = <<>>]
      BY <3>3 DEF OpenList
    <3>5. /\ DOMAIN s = Fields /\ s.failed = FALSE /\ s.section = r.section
          /\ s.sequence = key /\ s.options = [r.options EXCEPT ![key] = <<>>]
      BY <1>1, <3>4 DEF Fields
    <3>6. ValueAt(d, f, key, n + 1) = <<>>
      BY <2>5, <3>2, SetterIs, ValueSet
    <3>7. \A o : o # key => ValueAt(d, f, o, n + 1) = ValueAt(d, f, o, n)
      BY <3>2, SetterIs, OthersKept
    <3> HIDE DEF s, key
    <3>8. s.options = [o \in Options |-> ValueAt(d, f, o, n + 1)]
      BY <3>2, <3>5, <3>6, <3>7 DEF Tracks
    <3> QED BY <2>1, <2>3, <2>4, <2>5, <3>5, <3>8 DEF Tracks, key
  <2>6. CASE Path(f, n + 1) \notin ListKeys
    <3>1. s = [r EXCEPT !.subsection = key, !.sequence = None]
      BY <1>2, <2>2, <2>3, <2>6 DEF Open
    <3>2. /\ DOMAIN s = Fields /\ s.failed = FALSE /\ s.section = r.section
          /\ s.subsection = key /\ s.options = r.options
      BY <1>1, <3>1 DEF Fields
    <3>3. \A o : n + 1 \notin Setters(f, o)
      BY <2>6, SetterIs
    <3>4. r.options = [o \in Options |-> ValueAt(d, f, o, n + 1)]
      BY <3>3, OthersKept DEF Tracks
    <3> HIDE DEF s
    <3> QED BY <2>1, <2>3, <2>4, <2>6, <3>2, <3>4 DEF Tracks
  <2> QED BY <2>5, <2>6
<1>5. ~ \E p, q \in Lines(f) : Inside(f, n + 1, p, q)
  <2>1. f[n + 1].indent <= 2
    BY <1>1 DEF WellFormed, WellFormedLine
  <2> QED BY <2>1 DEF Inside
<1> QED BY <1>3, <1>4, <1>5, Places

(* A line with a value sets the option of its path. *)
LEMMA EntryTracked ==
  ASSUME NEW d, NEW f, IsFile(f), WellFormed(f), NEW n \in Nat, n + 1 <= Len(f), NEW r,
         Tracks(d, f, n, r), n + 1 \in Lines(f), f[n + 1].key # ItemKey,
         f[n + 1].value # None
  PROVE  Tracks(d, f, n + 1, ReadLine(r, f[n + 1]))
<1> DEFINE l == f[n + 1]
           path == Path(f, n + 1)
           o1 == OptionOf[path]
           s == ReadLine(r, f[n + 1])
           opts == [o \in Options |-> ValueAt(d, f, o, n + 1)]
           base == IF l.indent = 0
                   THEN [r EXCEPT !.section = None, !.subsection = None, !.sequence = None]
                   ELSE [r EXCEPT !.sequence = None]
<1>1. /\ l.key \notin {Comment, ItemKey, NoKey} /\ l.key # None
      /\ r.failed = FALSE /\ DOMAIN r = Fields /\ n + 1 # 0
  BY HeaderNamed DEF Tracks
<1>2. s = Entry(r, l)
  BY <1>1, ReadLineIs
<1>3. path \in Keys /\ DOMAIN OptionOf = Keys /\ Accepted(o1, l.value) /\ o1 \in Options
  BY <1>1, ListKeysAre DEF WellFormed, WellFormedLine, Options
<1>4. /\ DOMAIN base = Fields /\ base.failed = FALSE /\ base.options = r.options
      /\ l.indent = 0 => base.section = None
      /\ l.indent # 0 => base.section = r.section /\ base.subsection = r.subsection
  BY <1>1 DEF Fields
<1>5. opts = [r.options EXCEPT ![o1] = Converted(o1, l.value)]
  <2>1. ValueAt(d, f, o1, n + 1) = Converted(o1, l.value)
    BY <1>3, SetterIs, ValueSet
  <2>2. \A o : o # o1 => ValueAt(d, f, o, n + 1) = ValueAt(d, f, o, n)
    BY <1>3, SetterIs, OthersKept
  <2> HIDE DEF o1, l
  <2> QED BY <1>3, <2>1, <2>2 DEF Tracks
<1>6. ASSUME FullKey(r, l) = path, l.indent > 0 => r.section # None
      PROVE  /\ DOMAIN s = Fields /\ s.failed = FALSE
             /\ s.section = base.section /\ s.subsection = base.subsection
             /\ s.options = opts
  <2>1. s = Apply(base, path, l.value)
    BY <1>2, <1>6 DEF Entry
  <2> HIDE DEF base, path, l, s
  <2>2. s = [base EXCEPT !.options[o1] = Converted(o1, l.value)]
    BY <1>3, <2>1 DEF Apply
  <2>3. /\ DOMAIN s = Fields /\ s.failed = FALSE
        /\ s.section = base.section /\ s.subsection = base.subsection
        /\ s.options = [base.options EXCEPT ![o1] = Converted(o1, l.value)]
    BY <1>4, <2>2 DEF Fields
  <2> QED BY <1>4, <1>5, <2>3
<1> HIDE DEF s, base, o1, opts, l, path
<1>7. CASE AtTop(f, n + 1)
  <2>1. Encl(f, n + 1, 2) = n + 1 /\ Encl(f, n + 1, 4) = n + 1 /\ l.indent = 0
    BY <1>7, EnclTop DEF AtTop, l
  <2>2. FullKey(r, l) = path
    BY <1>7, <2>1 DEF FullKey, AtTop, l, path
  <2>3. InSection(f, n + 1) = None
    BY <1>1, <2>1 DEF InSection, l
  <2>4. /\ DOMAIN s = Fields /\ s.failed = FALSE /\ s.section = None
        /\ s.options = opts
    <3>1. ~(l.indent > 0)
      BY <2>1
    <3>2. /\ DOMAIN s = Fields /\ s.failed = FALSE
          /\ s.section = base.section /\ s.options = opts
      BY <1>6, <2>2, <3>1
    <3> QED BY <1>4, <2>1, <3>2
  <2>5. Tracks(d, f, n + 1, s)
    BY <2>1, <2>3, <2>4, TracksWhen DEF l, opts
  <2> QED BY <2>5 DEF s
<1>8. ASSUME NEW p \in Lines(f), Within(f, n + 1, p)
      PROVE  Tracks(d, f, n + 1, s)
  <2>1. /\ Encl(f, n, 2) = p /\ Encl(f, n + 1, 2) = p /\ Encl(f, n + 1, 4) = n + 1
    BY <1>8, EnclWithin
  <2>2. /\ l.indent = 2 /\ f[p].value = None /\ f[p].key # None /\ p # 0
        /\ path = <<f[p].key, l.key>>
    BY <1>8, HeaderNamed DEF Within, l, path
  <2>3. r.section = f[p].key
    BY <2>1, <2>2 DEF Tracks, InSection
  <2>4. FullKey(r, l) = path
    BY <2>2, <2>3 DEF FullKey, path, l
  <2>5. InSection(f, n + 1) = f[p].key
    BY <2>1, <2>2 DEF InSection
  <2>6. /\ DOMAIN s = Fields /\ s.failed = FALSE /\ s.section = f[p].key
        /\ s.options = opts
    <3>1. l.indent > 0 => r.section # None
      BY <2>2, <2>3
    <3>2. /\ DOMAIN s = Fields /\ s.failed = FALSE
          /\ s.section = base.section /\ s.options = opts
      BY <1>6, <2>4, <3>1
    <3> QED BY <1>4, <2>2, <2>3, <3>2
  <2> QED BY <1>1, <2>1, <2>5, <2>6, TracksWhen DEF l, opts
<1>9. ASSUME NEW p \in Lines(f), NEW q \in Lines(f), Inside(f, n + 1, p, q)
      PROVE  Tracks(d, f, n + 1, s)
  <2>1. /\ Encl(f, n, 2) = q /\ Encl(f, n + 1, 2) = q
        /\ Encl(f, n, 4) = p /\ Encl(f, n + 1, 4) = p
    BY <1>9, EnclInside
  <2>2. /\ l.indent = 4 /\ f[p].value = None /\ f[q].value = None /\ f[p].indent = 2
        /\ f[p].key # None /\ f[q].key # None /\ p # 0 /\ q # 0
        /\ path = <<f[q].key, f[p].key, l.key>>
    BY <1>9, HeaderNamed DEF Inside, Within, l, path
  <2>3. Path(f, p) \notin ListKeys
    BY <1>1, <1>9, <2>2, ItemWhere DEF Inside, l
  <2>4. r.section = f[q].key /\ r.subsection = f[p].key
    BY <2>1, <2>2, <2>3 DEF Tracks, InSection
  <2>5. FullKey(r, l) = path
    BY <2>2, <2>4 DEF FullKey, path, l
  <2>6. InSection(f, n + 1) = f[q].key
    BY <2>1, <2>2 DEF InSection
  <2>7. /\ DOMAIN s = Fields /\ s.failed = FALSE
        /\ s.section = f[q].key /\ s.subsection = f[p].key
        /\ s.options = opts
    <3>1. l.indent > 0 => r.section # None
      BY <2>2, <2>4
    <3>2. /\ DOMAIN s = Fields /\ s.failed = FALSE
          /\ s.section = base.section /\ s.subsection = base.subsection
          /\ s.options = opts
      BY <1>6, <2>5, <3>1
    <3> QED BY <1>4, <2>2, <2>4, <3>2
  <2> QED BY <2>1, <2>2, <2>3, <2>6, <2>7, TracksWhen DEF opts
<1> QED BY <1>7, <1>8, <1>9, Places DEF s

(* Every line that is read keeps this. *)
LEMMA LineTracked ==
  ASSUME NEW d, NEW f, IsFile(f), WellFormed(f), NEW n \in Nat, n + 1 <= Len(f), NEW r,
         Tracks(d, f, n, r)
  PROVE  Tracks(d, f, n + 1, ReadLine(r, f[n + 1]))
  BY CommentTracked, ItemTracked, HeaderTracked, EntryTracked

(* Before the first line the options are the defaults. *)
LEMMA ReaderTracked ==
  ASSUME NEW d, NEW f, IsFile(f), d = [o \in Options |-> d[o]]
  PROVE  Tracks(d, f, 0, Reader(d))
<1> DEFINE r == Reader(d)
<1>1. /\ DOMAIN r = Fields /\ r.failed = FALSE /\ r.section = None /\ r.options = d
  BY DEF Reader, Fields
<1>2. Encl(f, 0, 2) = 0 /\ Encl(f, 0, 4) = 0
  BY EnclNone
<1>3. InSection(f, 0) = None
  BY <1>2 DEF InSection
<1>4. ASSUME NEW o
      PROVE  ValueAt(d, f, o, 0) = d[o]
  <2>1. SettersUpto(f, o, 0) = {}
    BY LinesAre DEF SettersUpto, Setters
  <2> QED BY <2>1 DEF ValueAt
<1>5. r.options = [o \in Options |-> ValueAt(d, f, o, 0)]
  BY <1>1, <1>4
<1> HIDE DEF r
<1>6. Tracks(d, f, 0, r)
  BY <1>1, <1>2, <1>3, <1>5, TracksWhen
<1> QED BY <1>6 DEF r

-----------------------------------------------------------------------------
(* g gives the state of the reader after any line. *)
ReadUpto(d, f, g) ==
  g = [n \in 0 .. Len(f) |-> IF n = 0 THEN Reader(d) ELSE ReadLine(g[n - 1], f[n])]

After(d, f) == CHOOSE g : ReadUpto(d, f, g)

(* The reader has a state after every line. *)
LEMMA ReadingExists ==
  ASSUME NEW d, NEW f, IsFile(f)
  PROVE  \E g : ReadUpto(d, f, g)
<1> DEFINE Step(g, n) == IF n = 0 THEN Reader(d) ELSE ReadLine(g[n - 1], f[n])
           T == { m \in Nat : \E g : g = [n \in 0 .. m |-> Step(g, n)] }
<1>1. 0 \in T
  <2>1. 0 .. 0 = {0}
    OBVIOUS
  <2>2. [n \in 0 .. 0 |-> Reader(d)] = [n \in 0 .. 0 |-> Step([i \in 0 .. 0 |-> Reader(d)], n)]
    BY <2>1
  <2> QED BY <2>2
<1>2. ASSUME NEW m \in Nat, m \in T
      PROVE  m + 1 \in T
  <2>1. PICK g : g = [n \in 0 .. m |-> Step(g, n)]
    BY <1>2
  <2> DEFINE h == [n \in 0 .. m + 1 |-> IF n = m + 1 THEN Step(g, m + 1) ELSE g[n]]
  <2>2. \A n \in 0 .. m + 1 : n # m + 1 => n \in 0 .. m /\ h[n] = g[n]
    OBVIOUS
  <2>3. \A n \in 0 .. m + 1 : n # 0 => h[n - 1] = g[n - 1]
    <3>1. \A n \in 0 .. m + 1 : n # 0 => n - 1 \in 0 .. m + 1 /\ n - 1 # m + 1
      OBVIOUS
    <3> HIDE DEF h
    <3> QED BY <2>2, <3>1
  <2>4. \A n \in 0 .. m : g[n] = Step(g, n)
    BY <2>1
  <2>5. \A n \in 0 .. m + 1 : h[n] = Step(h, n)
    BY <2>2, <2>3, <2>4 DEF Step
  <2>6. h = [n \in 0 .. m + 1 |-> Step(h, n)]
    <3> HIDE DEF Step
    <3> QED BY <2>5
  <2>7. m + 1 \in Nat
    OBVIOUS
  <2> HIDE DEF h
  <2> QED BY <2>6, <2>7
<1>3. Len(f) \in T
  <2> HIDE DEF T
  <2>1. Nat \subseteq T
    BY <1>1, <1>2, ByInduction
  <2> QED BY <2>1, LinesAre
<1> QED BY <1>3 DEF ReadUpto

(* The one before, with the line read; Load takes the last one. *)
LEMMA AfterIs ==
  ASSUME NEW d, NEW f, IsFile(f)
  PROVE  /\ Load(d, f) = IF After(d, f)[Len(f)].failed THEN None
                         ELSE After(d, f)[Len(f)].options
         /\ After(d, f)[0] = Reader(d)
         /\ \A n \in Nat : n + 1 <= Len(f) =>
              After(d, f)[n + 1] = ReadLine(After(d, f)[n], f[n + 1])
<1>1. Load(d, f) = IF After(d, f)[Len(f)].failed THEN None
                   ELSE After(d, f)[Len(f)].options
  BY Zenon DEF Load, After, ReadUpto
<1>2. ReadUpto(d, f, After(d, f))
  BY ReadingExists DEF After
<1>3. After(d, f)[0] = Reader(d)
  <2>1. 0 \in 0 .. Len(f)
    BY LinesAre
  <2> QED BY <1>2, <2>1 DEF ReadUpto
<1>4. ASSUME NEW n \in Nat, n + 1 <= Len(f)
      PROVE  After(d, f)[n + 1] = ReadLine(After(d, f)[n], f[n + 1])
  <2>1. n + 1 \in 0 .. Len(f) /\ n + 1 # 0 /\ (n + 1) - 1 = n
    BY <1>4, LinesAre
  <2> QED BY <1>2, <2>1 DEF ReadUpto
<1> QED BY <1>1, <1>3, <1>4

(* Reading a well-formed file gives what it means. *)
LEMMA LoadIsMeaning ==
  ASSUME NEW d, NEW f, IsFile(f), WellFormed(f), d = [o \in Options |-> d[o]]
  PROVE  Load(d, f) = Meaning(d, f)
<1> DEFINE r(n) == After(d, f)[n]
           T == { n \in Nat : n <= Len(f) => Tracks(d, f, n, r(n)) }
<1>1. 0 \in T
  BY AfterIs, ReaderTracked
<1>2. ASSUME NEW n \in Nat, n \in T
      PROVE  n + 1 \in T
  <2> SUFFICES ASSUME n + 1 <= Len(f) PROVE Tracks(d, f, n + 1, r(n + 1))
    OBVIOUS
  <2>1. n <= Len(f)
    BY LinesAre
  <2>2. Tracks(d, f, n, r(n))
    BY <1>2, <2>1
  <2>3. r(n + 1) = ReadLine(r(n), f[n + 1])
    BY AfterIs
  <2> HIDE DEF r
  <2> QED BY <2>2, <2>3, LineTracked
<1>3. Tracks(d, f, Len(f), r(Len(f)))
  <2>1. Nat \subseteq T
    <3> HIDE DEF T
    <3> QED BY <1>1, <1>2, ByInduction
  <2> QED BY <2>1, LinesAre
<1>4. /\ r(Len(f)).failed = FALSE
      /\ r(Len(f)).options = [o \in Options |-> ValueAt(d, f, o, Len(f))]
  BY <1>3 DEF Tracks
<1>5. ASSUME NEW o
      PROVE  ValueAt(d, f, o, Len(f)) =
               IF Setters(f, o) = {} THEN d[o]
               ELSE LET i == Max(Setters(f, o)) IN
                      IF f[i].value = None THEN ItemsOf(f, i) ELSE Converted(o, f[i].value)
  <2>1. SettersUpto(f, o, Len(f)) = Setters(f, o)
    BY LinesAre DEF SettersUpto, Setters
  <2>2. \A i : ItemsOf(f, i) = Upto(f, i)[Len(f)]
    BY UptoIs
  <2> QED BY <2>1, <2>2 DEF ValueAt
<1>6. Meaning(d, f) = [o \in Options |-> ValueAt(d, f, o, Len(f))]
  BY <1>5 DEF Meaning
<1>7. Load(d, f) = r(Len(f)).options
  BY <1>4, AfterIs
<1> QED BY <1>4, <1>6, <1>7

-----------------------------------------------------------------------------
(* The defaults give every option a value. *)
OptionNames == {"socket_dir", "ws_url", "ws_token", "wakeup_ack_texts",
                "native_kws_triggers", "keywords_file", "delay_ms", "auto_gain", "ns_level"}

LEMMA OptionsAre == Options = OptionNames
<1>1. DOMAIN OptionOf = Keys
  BY DEF OptionOf
<1>2. \A k \in Keys : OptionOf[k] \in OptionNames
  BY DEF Keys, OptionOf, OptionNames
<1>3. /\ <<"socket_dir">> \in Keys /\ OptionOf[<<"socket_dir">>] = "socket_dir"
      /\ <<"delay_ms">> \in Keys /\ OptionOf[<<"delay_ms">>] = "delay_ms"
  BY DEF Keys, OptionOf
<1>4. /\ <<"soundbox", "ws_url">> \in Keys /\ OptionOf[<<"soundbox", "ws_url">>] = "ws_url"
      /\ <<"soundbox", "ws_token">> \in Keys
      /\ OptionOf[<<"soundbox", "ws_token">>] = "ws_token"
  BY DEF Keys, OptionOf
<1>5. /\ <<"soundbox", "wakeup_ack_texts">> \in Keys
      /\ OptionOf[<<"soundbox", "wakeup_ack_texts">>] = "wakeup_ack_texts"
      /\ <<"soundbox", "native_kws_triggers">> \in Keys
      /\ OptionOf[<<"soundbox", "native_kws_triggers">>] = "native_kws_triggers"
  BY DEF Keys, OptionOf
<1>6. /\ <<"wakeup", "keywords_file">> \in Keys
      /\ OptionOf[<<"wakeup", "keywords_file">>] = "keywords_file"
      /\ <<"aec", "ns_level">> \in Keys /\ OptionOf[<<"aec", "ns_level">>] = "ns_level"
  BY DEF Keys, OptionOf
<1>7. /\ <<"pre_aec_auto_gain", "enabled">> \in Keys
      /\ OptionOf[<<"pre_aec_auto_gain", "enabled">>] = "auto_gain"
  BY DEF Keys, OptionOf
<1>8. Options \subseteq OptionNames
  BY <1>1, <1>2 DEF Options
<1>9. OptionNames \subseteq Options
  BY <1>1, <1>3, <1>4, <1>5, <1>6, <1>7 DEF Options, OptionNames
<1> QED BY <1>8, <1>9

LEMMA DefaultsAre ==
  ASSUME NEW id
  PROVE  DefaultOptions(id) = [o \in Options |-> DefaultOptions(id)[o]]
<1> DEFINE d == DefaultOptions(id)
<1>1. DOMAIN d = OptionNames
  BY DEF DefaultOptions, OptionNames
<1>2. d = [o \in DOMAIN d |-> d[o]]
  BY DEF DefaultOptions
<1> HIDE DEF d
<1>3. d = [o \in Options |-> d[o]]
  BY <1>1, <1>2, OptionsAre
<1> QED BY <1>3 DEF d

-----------------------------------------------------------------------------
(* Sequences of lines are files, and keep what is said of every line.        *)
IsKept(f) == IsFile(f) /\ Spelled(f)

SpelledLine(l) ==
  l.key \in {ItemKey, "native_kws_triggers"} => l.value \in DOMAIN Spelling \cup {"", None}

LEMMA SpelledIs ==
  ASSUME NEW n, NEW k, NEW v
  PROVE  SpelledLine(Line(n, k, v)) <=>
           (k \in {ItemKey, "native_kws_triggers"} => v \in DOMAIN Spelling \cup {"", None})
  BY DEF SpelledLine, Line

LEMMA SequenceIsKept ==
  ASSUME NEW R, \A l \in R : l.indent \in Nat /\ SpelledLine(l), NEW f \in Seq(R)
  PROVE  IsKept(f)
<1>1. DOMAIN f = 1 .. Len(f) /\ Len(f) \in Nat /\ \A i \in DOMAIN f : f[i] \in R
  OBVIOUS
<1> QED BY <1>1 DEF IsKept, IsFile, Spelled, SpelledLine

LEMMA NothingKept == IsKept(<<>>)
<1>1. Len(<<>>) = 0 /\ DOMAIN <<>> = {}
  OBVIOUS
<1> QED BY <1>1 DEF IsKept, IsFile, Spelled

(* The lines of a default file. *)
AnyLineOf(d) ==
  { Line(n, k, v) :
      n \in {0, 2, 4},
      k \in {Comment, NoKey, ItemKey, "socket_dir", "soundbox", "ws_url", "ws_token",
             "wakeup_ack_texts", "native_kws_triggers", "wakeup", "keywords_file", "aec",
             "delay_ms", "pre_aec_auto_gain", "enabled", "ns_level"},
      v \in {None, d.socket_dir, d.ws_url, d.ws_token, "a", "b", "c", "d",
             d.keywords_file, d.delay_ms, d.auto_gain, d.ns_level} }
LineOf(d) == { l \in AnyLineOf(d) : SpelledLine(l) }

(* What a first start writes is a file, also when it is cut off or a piece of  *)
(* another one stays.                                                      *)
LEMMA DefaultFileIs ==
  ASSUME NEW id,
         NEW old, NEW f \in Overwrite(old, DefaultFile(DefaultOptions(id)))
  PROVE  IsKept(f)
<1> DEFINE d == DefaultOptions(id)
           R == LineOf(d)
<1>1. Items(d.wakeup_ack_texts) \in Seq(R) /\ Items(d.native_kws_triggers) \in Seq(R)
  <2>1. d.wakeup_ack_texts = <<"a", "b">> /\ d.native_kws_triggers = <<"c", "d">>
    BY DEF DefaultOptions
  <2>2. \A v \in {"a", "b", "c", "d"} : Item(v) \in R
    <3>1. \A v \in {"a", "b", "c", "d"} : Item(v) \in AnyLineOf(d)
      BY DEF AnyLineOf, Item
    <3>2. \A v \in {"a", "b", "c", "d"} : SpelledLine(Item(v))
      BY SpelledIs, SpellingAssumption DEF Item
    <3> QED BY <3>1, <3>2 DEF LineOf
  <2>3. /\ Items(<<"a", "b">>) = <<Item("a"), Item("b")>>
        /\ Items(<<"c", "d">>) = <<Item("c"), Item("d")>>
    <3>1. ASSUME NEW x, NEW y
          PROVE  Items(<<x, y>>) = <<Item(x), Item(y)>>
      <4>1. DOMAIN <<x, y>> = 1 .. 2 /\ <<x, y>>[1] = x /\ <<x, y>>[2] = y
        OBVIOUS
      <4>2. Items(<<x, y>>) = [i \in 1 .. 2 |-> Item(<<x, y>>[i])]
        BY <4>1 DEF Items
      <4>3. 1 .. 2 = {1, 2}
        OBVIOUS
      <4> HIDE DEF Item
      <4> QED BY <4>1, <4>2, <4>3
    <3> QED BY <3>1, Zenon
  <2> HIDE DEF R, d
  <2>4. \A x, y \in R : <<x, y>> \in Seq(R)
    OBVIOUS
  <2>5. <<Item("a"), Item("b")>> \in Seq(R) /\ <<Item("c"), Item("d")>> \in Seq(R)
    BY <2>2, <2>4
  <2>6. Items(d.wakeup_ack_texts) \in Seq(R)
    BY <2>1, <2>3, <2>5
  <2> QED BY <2>1, <2>3, <2>5, <2>6
<1> HIDE DEF d
<1>2. DefaultFile(d) \in Seq(R)
  <2>1. /\ Line(0, Comment, None) \in R /\ Line(0, "socket_dir", d.socket_dir) \in R
        /\ Header(0, "soundbox") \in R /\ Line(2, "ws_url", d.ws_url) \in R
        /\ Line(2, "ws_token", d.ws_token) \in R /\ Header(2, "wakeup_ack_texts") \in R
    <3>1. /\ Line(0, Comment, None) \in AnyLineOf(d)
          /\ Line(0, "socket_dir", d.socket_dir) \in AnyLineOf(d)
          /\ Header(0, "soundbox") \in AnyLineOf(d)
          /\ Line(2, "ws_url", d.ws_url) \in AnyLineOf(d)
          /\ Line(2, "ws_token", d.ws_token) \in AnyLineOf(d)
          /\ Header(2, "wakeup_ack_texts") \in AnyLineOf(d)
      BY DEF AnyLineOf, Header
    <3>2. /\ SpelledLine(Line(0, Comment, None))
          /\ SpelledLine(Line(0, "socket_dir", d.socket_dir))
          /\ SpelledLine(Header(0, "soundbox"))
          /\ SpelledLine(Line(2, "ws_url", d.ws_url))
          /\ SpelledLine(Line(2, "ws_token", d.ws_token))
          /\ SpelledLine(Header(2, "wakeup_ack_texts"))
      BY SpelledIs DEF Header, ItemKey, Comment
    <3> QED BY <3>1, <3>2 DEF LineOf
  <2>2. /\ Header(2, "native_kws_triggers") \in R /\ Header(0, "wakeup") \in R
        /\ Line(2, "keywords_file", d.keywords_file) \in R /\ Header(0, "aec") \in R
        /\ Line(2, "delay_ms", d.delay_ms) \in R /\ Header(2, "pre_aec_auto_gain") \in R
        /\ Line(4, "enabled", d.auto_gain) \in R /\ Line(2, "ns_level", d.ns_level) \in R
    <3>1. /\ Header(2, "native_kws_triggers") \in AnyLineOf(d)
          /\ Header(0, "wakeup") \in AnyLineOf(d)
          /\ Line(2, "keywords_file", d.keywords_file) \in AnyLineOf(d)
          /\ Header(0, "aec") \in AnyLineOf(d)
          /\ Line(2, "delay_ms", d.delay_ms) \in AnyLineOf(d)
          /\ Header(2, "pre_aec_auto_gain") \in AnyLineOf(d)
          /\ Line(4, "enabled", d.auto_gain) \in AnyLineOf(d)
          /\ Line(2, "ns_level", d.ns_level) \in AnyLineOf(d)
      BY DEF AnyLineOf, Header
    <3>2. /\ SpelledLine(Header(2, "native_kws_triggers"))
          /\ SpelledLine(Header(0, "wakeup"))
          /\ SpelledLine(Line(2, "keywords_file", d.keywords_file))
          /\ SpelledLine(Header(0, "aec"))
          /\ SpelledLine(Line(2, "delay_ms", d.delay_ms))
          /\ SpelledLine(Header(2, "pre_aec_auto_gain"))
          /\ SpelledLine(Line(4, "enabled", d.auto_gain))
          /\ SpelledLine(Line(2, "ns_level", d.ns_level))
      BY SpelledIs DEF Header, ItemKey, Comment
    <3> QED BY <3>1, <3>2 DEF LineOf
  <2> HIDE DEF R
  <2> QED BY <1>1, <2>1, <2>2 DEF DefaultFile
<1>3. Line(0, NoKey, None) \in R /\ \A l \in R : l.indent \in Nat /\ SpelledLine(l)
  <2>1. Line(0, NoKey, None) \in AnyLineOf(d) /\ \A l \in AnyLineOf(d) : l.indent \in Nat
    BY DEF AnyLineOf, Line
  <2>2. SpelledLine(Line(0, NoKey, None))
    BY SpelledIs DEF NoKey, ItemKey
  <2> QED BY <2>1, <2>2 DEF LineOf
<1> HIDE DEF R
<1>4. Cut(DefaultFile(d)) \subseteq Seq(R)
  <2> DEFINE g == DefaultFile(d)
  <2>1. \A n \in 0 .. Len(g) - 1 : SubSeq(g, 1, n) \in Seq(R)
    <3> HIDE DEF g
    <3> SUFFICES ASSUME NEW n \in 0 .. Len(g) - 1 PROVE SubSeq(g, 1, n) \in Seq(R)
      OBVIOUS
    <3>1. g \in Seq(R)
      BY <1>2 DEF g
    <3>2. 1 \in 1 .. Len(g) + 1 /\ n \in 1 - 1 .. Len(g)
      BY <3>1
    <3> QED BY <3>1, <3>2, SubSeqProperties
  <2>2. \A h \in Seq(R) : Append(h, Line(0, NoKey, None)) \in Seq(R)
    BY <1>3
  <2> QED BY <2>1, <2>2 DEF Cut
<1>5. f \in Seq(R)
  <2>1. Append(DefaultFile(d), Line(0, NoKey, None)) \in Seq(R)
    BY <1>2, <1>3
  <2>2. f \in Overwrite(old, DefaultFile(d))
    BY DEF d
  <2> QED BY <1>2, <1>4, <2>1, <2>2 DEF Overwrite
<1> QED BY <1>3, <1>5, SequenceIsKept

-----------------------------------------------------------------------------
(* The same over the elements of sequences. *)
LEMMA ByAppending ==
  ASSUME NEW A, NEW T, <<>> \in T, \A s \in Seq(A), c \in A : s \in T => Append(s, c) \in T
  PROVE  Seq(A) \subseteq T
<1> DEFINE U == { n \in Nat : \A s \in Seq(A) : Len(s) = n => s \in T }
<1>1. 0 \in U
  OBVIOUS
<1>2. ASSUME NEW n \in Nat, n \in U
      PROVE  n + 1 \in U
  <2>1. ASSUME NEW s \in Seq(A), Len(s) = n + 1
        PROVE  s \in T
    <3> DEFINE p == SubSeq(s, 1, n)  c == s[n + 1]
    <3>1. p \in Seq(A) /\ Len(p) = n /\ c \in A
      BY <2>1
    <3>2. s = Append(p, c)
      BY <2>1
    <3>3. p \in T
      BY <1>2, <3>1
    <3> HIDE DEF p, c
    <3> QED BY <3>1, <3>2, <3>3
  <2> QED BY <2>1
<1>3. Nat \subseteq U
  <2> HIDE DEF U
  <2> QED BY <1>1, <1>2, ByInduction
<1>4. \A s \in Seq(A) : Len(s) \in U
  BY <1>3
<1> QED BY <1>4

(* What has been joined after each element. *)
JoinsTo(s, of, g) ==
  g = [n \in 0 .. Len(s) |-> IF n = 0 THEN <<>> ELSE g[n - 1] \o of[s[n]]]
JoinedTo(s, of) == CHOOSE g : JoinsTo(s, of, g)

LEMMA JoiningExists ==
  ASSUME NEW s, Len(s) \in Nat, NEW of
  PROVE  \E g : JoinsTo(s, of, g)
<1> DEFINE Step(g, n) == IF n = 0 THEN <<>> ELSE g[n - 1] \o of[s[n]]
           T == { m \in Nat : \E g : g = [n \in 0 .. m |-> Step(g, n)] }
<1>1. 0 \in T
  <2>1. 0 .. 0 = {0}
    OBVIOUS
  <2>2. [n \in 0 .. 0 |-> <<>>] = [n \in 0 .. 0 |-> Step([i \in 0 .. 0 |-> <<>>], n)]
    BY <2>1
  <2> QED BY <2>2
<1>2. ASSUME NEW m \in Nat, m \in T
      PROVE  m + 1 \in T
  <2>1. PICK g : g = [n \in 0 .. m |-> Step(g, n)]
    BY <1>2
  <2> DEFINE h == [n \in 0 .. m + 1 |-> IF n = m + 1 THEN Step(g, m + 1) ELSE g[n]]
  <2>2. \A n \in 0 .. m + 1 : n # m + 1 => n \in 0 .. m /\ h[n] = g[n]
    OBVIOUS
  <2>3. \A n \in 0 .. m + 1 : n # 0 => h[n - 1] = g[n - 1]
    <3>1. \A n \in 0 .. m + 1 : n # 0 => n - 1 \in 0 .. m + 1 /\ n - 1 # m + 1
      OBVIOUS
    <3> HIDE DEF h
    <3> QED BY <2>2, <3>1
  <2>4. \A n \in 0 .. m : g[n] = Step(g, n)
    BY <2>1
  <2>5. \A n \in 0 .. m + 1 : h[n] = Step(h, n)
    BY <2>2, <2>3, <2>4 DEF Step
  <2>6. h = [n \in 0 .. m + 1 |-> Step(h, n)]
    <3> HIDE DEF Step
    <3> QED BY <2>5
  <2>7. m + 1 \in Nat
    OBVIOUS
  <2> HIDE DEF h
  <2> QED BY <2>6, <2>7
<1>3. Len(s) \in T
  <2> HIDE DEF T
  <2> QED BY <1>1, <1>2, ByInduction
<1> QED BY <1>3 DEF JoinsTo

LEMMA JoinedToIs ==
  ASSUME NEW s, Len(s) \in Nat, NEW of
  PROVE  /\ Joined(s, of) = JoinedTo(s, of)[Len(s)]
         /\ JoinedTo(s, of)[0] = <<>>
         /\ \A n \in Nat : n + 1 <= Len(s) =>
              JoinedTo(s, of)[n + 1] = JoinedTo(s, of)[n] \o of[s[n + 1]]
<1>1. Joined(s, of) = JoinedTo(s, of)[Len(s)]
  BY Zenon DEF Joined, JoinedTo, JoinsTo
<1>2. JoinsTo(s, of, JoinedTo(s, of))
  BY JoiningExists DEF JoinedTo
<1>3. JoinedTo(s, of)[0] = <<>>
  <2>1. 0 \in 0 .. Len(s)
    OBVIOUS
  <2> QED BY <1>2, <2>1 DEF JoinsTo
<1>4. ASSUME NEW n \in Nat, n + 1 <= Len(s)
      PROVE  JoinedTo(s, of)[n + 1] = JoinedTo(s, of)[n] \o of[s[n + 1]]
  <2>1. n + 1 \in 0 .. Len(s) /\ n + 1 # 0 /\ (n + 1) - 1 = n
    BY <1>4
  <2> QED BY <1>2, <2>1 DEF JoinsTo
<1> QED BY <1>1, <1>3, <1>4

(* An element more is joined behind the others. *)
LEMMA JoinedAppend ==
  ASSUME NEW A, NEW s \in Seq(A), NEW c \in A, NEW of
  PROVE  Joined(Append(s, c), of) = Joined(s, of) \o of[c]
<1> DEFINE t == Append(s, c)
           T == { n \in Nat : n <= Len(s) => JoinedTo(t, of)[n] = JoinedTo(s, of)[n] }
<1>1. /\ Len(s) \in Nat /\ Len(t) \in Nat /\ Len(t) = Len(s) + 1 /\ t[Len(s) + 1] = c
      /\ \A n \in Nat : n + 1 <= Len(s) => t[n + 1] = s[n + 1]
  OBVIOUS
<1> HIDE DEF t
<1>8. \A n \in Nat : n + 1 <= Len(t) =>
        JoinedTo(t, of)[n + 1] = JoinedTo(t, of)[n] \o of[t[n + 1]]
  BY <1>1, JoinedToIs, Zenon
<1>2. 0 \in T
  BY <1>1, JoinedToIs
<1>3. ASSUME NEW n \in Nat, n \in T
      PROVE  n + 1 \in T
  <2> SUFFICES ASSUME n + 1 <= Len(s) PROVE JoinedTo(t, of)[n + 1] = JoinedTo(s, of)[n + 1]
    OBVIOUS
  <2>1. n <= Len(s) /\ n + 1 <= Len(t) /\ t[n + 1] = s[n + 1]
    <3>1. n <= Len(s) /\ n + 1 <= Len(s) + 1
      BY <1>1
    <3> QED BY <1>1, <3>1, Zenon
  <2>2. JoinedTo(t, of)[n] = JoinedTo(s, of)[n]
    BY <1>3, <2>1
  <2>3. JoinedTo(t, of)[n + 1] = JoinedTo(t, of)[n] \o of[t[n + 1]]
    BY <1>8, <2>1
  <2>4. JoinedTo(s, of)[n + 1] = JoinedTo(s, of)[n] \o of[s[n + 1]]
    BY <1>1, JoinedToIs
  <2> QED BY <2>1, <2>2, <2>3, <2>4
<1>4. JoinedTo(t, of)[Len(s)] = JoinedTo(s, of)[Len(s)]
  <2>1. Nat \subseteq T
    <3> HIDE DEF T
    <3> QED BY <1>2, <1>3, ByInduction
  <2> QED BY <1>1, <2>1
<1>5. JoinedTo(t, of)[Len(s) + 1] = JoinedTo(t, of)[Len(s)] \o of[t[Len(s) + 1]]
  <2>1. Len(s) + 1 <= Len(t)
    BY <1>1
  <2> QED BY <1>1, <1>8, <2>1, Zenon
<1>6. Joined(t, of) = JoinedTo(t, of)[Len(s) + 1] /\ Joined(s, of) = JoinedTo(s, of)[Len(s)]
  BY <1>1, JoinedToIs
<1>7. Joined(t, of) = Joined(s, of) \o of[c]
  BY <1>1, <1>4, <1>5, <1>6
<1> QED BY <1>7 DEF t

LEMMA JoinedNone ==
  ASSUME NEW of
  PROVE  Joined(<<>>, of) = <<>>
<1>1. Len(<<>>) = 0
  OBVIOUS
<1> QED BY <1>1, JoinedToIs

LEMMA JoinedType ==
  ASSUME NEW A, NEW B, NEW of, \A c \in A : of[c] \in Seq(B)
  PROVE  \A s \in Seq(A) : Joined(s, of) \in Seq(B)
<1> DEFINE T == { s \in Seq(A) : Joined(s, of) \in Seq(B) }
<1>1. <<>> \in T
  <2>1. <<>> \in Seq(A) /\ <<>> \in Seq(B)
    OBVIOUS
  <2> QED BY <2>1, JoinedNone, Zenon
<1>2. ASSUME NEW s \in Seq(A), NEW c \in A, s \in T
      PROVE  Append(s, c) \in T
  <2>1. Joined(Append(s, c), of) = Joined(s, of) \o of[c]
    BY JoinedAppend
  <2>2. Joined(s, of) \o of[c] \in Seq(B)
    BY <1>2
  <2>3. Append(s, c) \in Seq(A)
    OBVIOUS
  <2> QED BY <2>1, <2>2, <2>3, Zenon
<1>3. Seq(A) \subseteq T
  <2> HIDE DEF T
  <2> QED BY <1>1, <1>2, ByAppending
<1> QED BY <1>3

LEMMA JoinedTwo ==
  ASSUME NEW A, NEW s \in Seq(A), NEW v \in Seq(A),
         NEW B, NEW of, \A c \in A : of[c] \in Seq(B)
  PROVE  Joined(s \o v, of) = Joined(s, of) \o Joined(v, of)
<1> DEFINE T == { t \in Seq(A) : Joined(s \o t, of) = Joined(s, of) \o Joined(t, of) }
<1>1. <<>> \in T
  <2>1. Joined(s, of) \in Seq(B)
    BY JoinedType
  <2>2. Joined(s, of) \o <<>> = Joined(s, of) /\ s \o <<>> = s
    BY <2>1, ConcatEmptySeq
  <2>3. <<>> \in Seq(A)
    OBVIOUS
  <2> QED BY <2>2, <2>3, JoinedNone, Zenon
<1>2. ASSUME NEW t \in Seq(A), NEW c \in A, t \in T
      PROVE  Append(t, c) \in T
  <2>1. s \o Append(t, c) = Append(s \o t, c) /\ s \o t \in Seq(A) /\ Append(t, c) \in Seq(A)
    OBVIOUS
  <2>2. /\ Joined(Append(s \o t, c), of) = Joined(s \o t, of) \o of[c]
        /\ Joined(Append(t, c), of) = Joined(t, of) \o of[c]
    BY <2>1, JoinedAppend
  <2>3. Joined(s, of) \in Seq(B) /\ Joined(t, of) \in Seq(B) /\ of[c] \in Seq(B)
    BY JoinedType
  <2> DEFINE x == Joined(s, of)  y == Joined(t, of)  z == of[c]
  <2>4. (x \o y) \o z = x \o (y \o z)
    <3>1. x \in Seq(B) /\ y \in Seq(B) /\ z \in Seq(B)
      BY <2>3
    <3> HIDE DEF x, y, z, T
    <3> QED BY <3>1, SMTT(20)
  <2> QED BY <1>2, <2>1, <2>2, <2>4, Zenon
<1>3. Seq(A) \subseteq T
  <2> HIDE DEF T
  <2> QED BY <1>1, <1>2, ByAppending
<1> QED BY <1>3

-----------------------------------------------------------------------------
(* The loop of NormalizeNativeKwsText, and its state after n rounds. *)
Scan(text, s) ==
  LET last(p) == p + Utf8CharLength(text[p]) - 1
      end(p) == IF last(p) > Len(text) THEN Len(text) ELSE last(p)
      kept(ch) == IF IsIgnoredNativeKwsSymbol(ch) THEN <<>> ELSE ch
  IN  IF s.pos > Len(text) THEN s
      ELSE [pos |-> end(s.pos) + 1,
            normalized |-> s.normalized \o kept(SubSeq(text, s.pos, end(s.pos)))]

ScansTo(text, g) ==
  g = [n \in 0 .. Len(text) |-> IF n = 0 THEN [pos |-> 1, normalized |-> <<>>]
                                ELSE Scan(text, g[n - 1])]
Scanned(text) == CHOOSE g : ScansTo(text, g)

LEMMA ScanningExists ==
  ASSUME NEW text, Len(text) \in Nat
  PROVE  \E g : ScansTo(text, g)
<1> DEFINE Zero == [pos |-> 1, normalized |-> <<>>]
           Step(g, n) == IF n = 0 THEN Zero ELSE Scan(text, g[n - 1])
           T == { m \in Nat : \E g : g = [n \in 0 .. m |-> Step(g, n)] }
<1>1. 0 \in T
  <2>1. 0 .. 0 = {0}
    OBVIOUS
  <2>2. [n \in 0 .. 0 |-> Zero] = [n \in 0 .. 0 |-> Step([i \in 0 .. 0 |-> Zero], n)]
    BY <2>1
  <2> QED BY <2>2
<1>2. ASSUME NEW m \in Nat, m \in T
      PROVE  m + 1 \in T
  <2>1. PICK g : g = [n \in 0 .. m |-> Step(g, n)]
    BY <1>2
  <2> DEFINE h == [n \in 0 .. m + 1 |-> IF n = m + 1 THEN Step(g, m + 1) ELSE g[n]]
  <2>2. \A n \in 0 .. m + 1 : n # m + 1 => n \in 0 .. m /\ h[n] = g[n]
    OBVIOUS
  <2>3. \A n \in 0 .. m + 1 : n # 0 => h[n - 1] = g[n - 1]
    <3>1. \A n \in 0 .. m + 1 : n # 0 => n - 1 \in 0 .. m + 1 /\ n - 1 # m + 1
      OBVIOUS
    <3> HIDE DEF h
    <3> QED BY <2>2, <3>1
  <2>4. \A n \in 0 .. m : g[n] = Step(g, n)
    BY <2>1
  <2>5. \A n \in 0 .. m + 1 : h[n] = Step(h, n)
    BY <2>2, <2>3, <2>4 DEF Step
  <2>6. h = [n \in 0 .. m + 1 |-> Step(h, n)]
    <3> HIDE DEF Step
    <3> QED BY <2>5
  <2>7. m + 1 \in Nat
    OBVIOUS
  <2> HIDE DEF h
  <2> QED BY <2>6, <2>7
<1>3. Len(text) \in T
  <2> HIDE DEF T
  <2> QED BY <1>1, <1>2, ByInduction
<1> QED BY <1>3 DEF ScansTo

LEMMA ScannedIs ==
  ASSUME NEW text, Len(text) \in Nat
  PROVE  /\ NormalizeNativeKwsText(text) = Scanned(text)[Len(text)].normalized
         /\ Scanned(text)[0] = [pos |-> 1, normalized |-> <<>>]
         /\ \A n \in Nat : n + 1 <= Len(text) =>
              Scanned(text)[n + 1] = Scan(text, Scanned(text)[n])
<1>1. NormalizeNativeKwsText(text) = Scanned(text)[Len(text)].normalized
  BY Zenon DEF NormalizeNativeKwsText, Scanned, ScansTo, Scan
<1>2. ScansTo(text, Scanned(text))
  BY ScanningExists DEF Scanned
<1>3. Scanned(text)[0] = [pos |-> 1, normalized |-> <<>>]
  <2>1. 0 \in 0 .. Len(text)
    OBVIOUS
  <2> QED BY <1>2, <2>1 DEF ScansTo
<1>4. ASSUME NEW n \in Nat, n + 1 <= Len(text)
      PROVE  Scanned(text)[n + 1] = Scan(text, Scanned(text)[n])
  <2>1. n + 1 \in 0 .. Len(text) /\ n + 1 # 0 /\ (n + 1) - 1 = n
    BY <1>4
  <2> QED BY <1>2, <2>1 DEF ScansTo
<1> QED BY <1>1, <1>3, <1>4

Byte == 0 .. 255
Char == DOMAIN Encoding

(* What the loop takes for the length of a character is its length. *)
LEMMA CharLength ==
  ASSUME NEW code, Utf8(code)
  PROVE  /\ code \in Seq(Byte) /\ Len(code) \in 1 .. 4
         /\ Utf8CharLength(code[1]) = Len(code)
         /\ code[1] \notin 128 .. 191
<1> DEFINE lead == <<0 .. 127, 192 .. 223, 224 .. 239, 240 .. 247>>
<1>1. code \in Seq(Byte) /\ Len(code) \in DOMAIN lead /\ code[1] \in lead[Len(code)]
  BY DEF Utf8, Byte
<1>2. DOMAIN lead = 1 .. 4
  OBVIOUS
<1>3. lead[1] = 0 .. 127 /\ lead[2] = 192 .. 223 /\ lead[3] = 224 .. 239 /\ lead[4] = 240 .. 247
  OBVIOUS
<1> HIDE DEF lead
<1> DEFINE b == code[1]  n == Len(code)
<1>4. n \in 1 .. 4 /\ b \in lead[n]
  BY <1>1, <1>2
<1> HIDE DEF b, n
<1>5. n = 1 \/ n = 2 \/ n = 3 \/ n = 4
  BY <1>4
<1>6. Utf8CharLength(b) = n /\ b \notin 128 .. 191
  <2>1. CASE n = 1
    <3>1. b \in 0 .. 127
      BY <1>3, <1>4, <2>1
    <3> QED BY <2>1, <3>1 DEF Utf8CharLength
  <2>2. CASE n = 2
    <3>1. b \in 192 .. 223
      BY <1>3, <1>4, <2>2
    <3> QED BY <2>2, <3>1 DEF Utf8CharLength
  <2>3. CASE n = 3
    <3>1. b \in 224 .. 239
      BY <1>3, <1>4, <2>3
    <3> QED BY <2>3, <3>1 DEF Utf8CharLength
  <2>4. CASE n = 4
    <3>1. b \in 240 .. 247
      BY <1>3, <1>4, <2>4
    <3> QED BY <2>4, <3>1 DEF Utf8CharLength
  <2> QED BY <1>5, <2>1, <2>2, <2>3, <2>4
<1> QED BY <1>1, <1>4, <1>6 DEF b, n

(* What lies in the middle of a sequence. *)
LEMMA InTheMiddle ==
  ASSUME NEW S, NEW u \in Seq(S), NEW v \in Seq(S), NEW w \in Seq(S)
  PROVE  /\ u \o (v \o w) \in Seq(S)
         /\ Len(u \o (v \o w)) = Len(u) + Len(v) + Len(w)
         /\ \A i \in 1 .. Len(v) : (u \o (v \o w))[Len(u) + i] = v[i]
         /\ SubSeq(u \o (v \o w), Len(u) + 1, Len(u) + Len(v)) = v
<1> DEFINE t == v \o w  s == u \o t
<1>1. t \in Seq(S) /\ Len(t) = Len(v) + Len(w) /\ \A i \in 1 .. Len(v) : t[i] = v[i]
  OBVIOUS
<1>2. Len(u) \in Nat /\ Len(v) \in Nat /\ Len(w) \in Nat
  OBVIOUS
<1> HIDE DEF t
<1>3. s \in Seq(S) /\ Len(s) = Len(u) + Len(t) /\ \A i \in 1 .. Len(t) : s[Len(u) + i] = t[i]
  <2>1. t \in Seq(S)
    BY <1>1
  <2>2. s \in Seq(S) /\ Len(s) = Len(u) + Len(t)
    BY <2>1
  <2>3. \A i \in 1 .. Len(t) : s[Len(u) + i] = t[i]
    BY <2>1
  <2> QED BY <2>2, <2>3
<1>4. \A i \in 1 .. Len(v) : i \in 1 .. Len(t)
  BY <1>1, <1>2
<1>5. \A i \in 1 .. Len(v) : s[Len(u) + i] = v[i]
  BY <1>1, <1>3, <1>4, Zenon
<1> HIDE DEF s
<1>6. SubSeq(s, Len(u) + 1, Len(u) + Len(v)) = v
  <2> DEFINE m == Len(u) + 1  n == Len(u) + Len(v)  sub == SubSeq(s, m, n)
  <2>1. m \in Int /\ n \in Int /\ n - m + 1 = Len(v) /\ (m <= n \/ Len(v) = 0)
    BY <1>2
  <2>2. \A i \in m .. n : i \in 1 .. Len(s)
    BY <1>1, <1>2, <1>3
  <2>3. \A i \in m .. n : s[i] \in S
    BY <1>3, <2>2
  <2>4. \A i \in 1 .. Len(v) : m + i - 1 = Len(u) + i
    BY <1>2
  <2> HIDE DEF m, n
  <2>5. /\ sub \in Seq(S) /\ Len(sub) = IF m <= n THEN n - m + 1 ELSE 0
        /\ \A i \in 1 .. n - m + 1 : sub[i] = s[m + i - 1]
    BY <2>1, <2>3, SubSeqProperties
  <2> HIDE DEF sub
  <2>6. \A i \in 1 .. Len(v) : sub[i] = v[i]
    BY <1>5, <2>1, <2>4, <2>5, Zenon
  <2>7. Len(sub) = Len(v)
    BY <2>1, <2>5
  <2>8. sub = v
    BY <2>5, <2>6, <2>7, SeqEqual
  <2> QED BY <2>8 DEF sub, m, n
<1>7. Len(s) = Len(u) + Len(v) + Len(w)
  BY <1>1, <1>2, <1>3
<1> QED BY <1>3, <1>5, <1>6, <1>7 DEF s, t

(* One round of the loop takes one character. *)
LEMMA ScanChar ==
  ASSUME NEW u \in Seq(Byte), NEW code, Utf8(code), NEW r \in Seq(Byte), NEW x
  PROVE  Scan(u \o (code \o r), [pos |-> Len(u) + 1, normalized |-> x]) =
           [pos |-> Len(u) + Len(code) + 1,
            normalized |-> x \o (IF IsIgnoredNativeKwsSymbol(code) THEN <<>> ELSE code)]
<1> DEFINE text == u \o (code \o r)
           p == Len(u) + 1
           end == Len(u) + Len(code)
<1>0. code \in Seq(Byte) /\ Len(code) \in 1 .. 4 /\ Utf8CharLength(code[1]) = Len(code)
  BY CharLength, Zenon
<1>1. Len(u) \in Nat /\ Len(r) \in Nat
  OBVIOUS
<1>2. /\ Len(text) = Len(u) + Len(code) + Len(r)
      /\ \A i \in 1 .. Len(code) : text[Len(u) + i] = code[i]
      /\ SubSeq(text, p, end) = code
  <2>1. code \in Seq(Byte)
    BY <1>0
  <2> HIDE DEF p, end
  <2>2. /\ Len(text) = Len(u) + Len(code) + Len(r)
        /\ \A i \in 1 .. Len(code) : text[Len(u) + i] = code[i]
    BY <2>1, InTheMiddle
  <2>3. SubSeq(text, Len(u) + 1, Len(u) + Len(code)) = code
    BY <2>1, InTheMiddle
  <2> HIDE DEF text
  <2> QED BY <2>2, <2>3 DEF p, end
<1>3. 1 \in 1 .. Len(code)
  BY <1>0
<1>4. Utf8CharLength(text[p]) = Len(code)
  BY <1>0, <1>2, <1>3, Zenon
<1>6. p + Len(code) - 1 = end /\ ~(end > Len(text)) /\ ~(p > Len(text))
  BY <1>0, <1>1, <1>2
<1> DEFINE s == [pos |-> p, normalized |-> x]
<1>7. s.pos = p /\ s.normalized = x
  OBVIOUS
<1> HIDE DEF text, p, end, s
<1>8. Scan(text, s) =
        [pos |-> end + 1,
         normalized |-> x \o (IF IsIgnoredNativeKwsSymbol(code) THEN <<>> ELSE code)]
  BY <1>2, <1>4, <1>6, <1>7 DEF Scan
<1> QED BY <1>8 DEF text, p, end, s

-----------------------------------------------------------------------------
LEMMA CodeIs ==
  ASSUME NEW c \in Char
  PROVE  Utf8(Encoding[c]) /\ Encoding[c] \in Seq(Byte) /\ Len(Encoding[c]) \in 1 .. 4
<1>1. Utf8(Encoding[c])
  BY EncodingAssumption DEF Char
<1> QED BY <1>1, CharLength

(* A character more is encoded behind the others... *)
LEMMA EncodedIs ==
  ASSUME NEW s \in Seq(Char)
  PROVE  /\ Encoded(s) \in Seq(Byte)
         /\ \A c \in Char : Encoded(Append(s, c)) = Encoded(s) \o Encoding[c]
<1>1. \A c \in Char : Encoding[c] \in Seq(Byte)
  BY CodeIs
<1> QED BY <1>1, JoinedAppend, JoinedType DEF Encoded

LEMMA NothingEncoded == Encoded(<<>>) = <<>> /\ Spoken(<<>>) = <<>>
  BY JoinedNone DEF Encoded, Spoken

(* ...and spoken, unless it is a symbol. *)
LEMMA SpokenIs ==
  ASSUME NEW s \in Seq(Char)
  PROVE  /\ Spoken(s) \in Seq(Char)
         /\ \A c \in Char : Spoken(Append(s, c)) =
                             IF c \in Symbols THEN Spoken(s) ELSE Append(Spoken(s), c)
<1> DEFINE of == [c \in Char |-> IF c \in Symbols THEN <<>> ELSE <<c>>]
<1>1. \A c \in Char : /\ of[c] \in Seq(Char)
                      /\ c \in Symbols => of[c] = <<>>
                      /\ c \notin Symbols => of[c] = <<c>>
  OBVIOUS
<1>2. \A t : Spoken(t) = Joined(t, of)
  BY DEF Spoken, Char
<1> HIDE DEF of
<1>3. Spoken(s) \in Seq(Char)
  BY <1>1, <1>2, JoinedType
<1>4. ASSUME NEW c \in Char
      PROVE  Spoken(Append(s, c)) = IF c \in Symbols THEN Spoken(s) ELSE Append(Spoken(s), c)
  <2>1. Spoken(Append(s, c)) = Spoken(s) \o of[c]
    BY <1>2, JoinedAppend
  <2>2. Spoken(s) \o <<>> = Spoken(s) /\ Spoken(s) \o <<c>> = Append(Spoken(s), c)
    BY <1>3
  <2> QED BY <1>1, <2>1, <2>2
<1> QED BY <1>3, <1>4

LEMMA SpokenEncoded ==
  ASSUME NEW s \in Seq(Char), NEW c \in Char
  PROVE  Encoded(Spoken(Append(s, c))) =
           Encoded(Spoken(s))
             \o (IF IsIgnoredNativeKwsSymbol(Encoding[c]) THEN <<>> ELSE Encoding[c])
<1>1. c \in Symbols <=> IsIgnoredNativeKwsSymbol(Encoding[c])
  BY EncodingAssumption DEF Char
<1>2. Spoken(s) \in Seq(Char) /\ Encoded(Spoken(s)) \in Seq(Byte)
  BY SpokenIs, EncodedIs
<1>3. CASE c \in Symbols
  <2>1. Spoken(Append(s, c)) = Spoken(s)
    BY <1>3, SpokenIs
  <2>2. Encoded(Spoken(s)) \o <<>> = Encoded(Spoken(s))
    BY <1>2, ConcatEmptySeq
  <2> QED BY <1>1, <1>3, <2>1, <2>2
<1>4. CASE c \notin Symbols
  <2>1. Spoken(Append(s, c)) = Append(Spoken(s), c)
    BY <1>4, SpokenIs
  <2>2. Encoded(Append(Spoken(s), c)) = Encoded(Spoken(s)) \o Encoding[c]
    BY <1>2, EncodedIs
  <2> QED BY <1>1, <1>4, <2>1, <2>2
<1> QED BY <1>3, <1>4

(* After as many rounds as characters the loop has taken these, whatever      *)
(* follows.                                                                *)
TakenBy(s, r) ==
  /\ Len(s) <= Len(Encoded(s))
  /\ Scanned(Encoded(s) \o r)[Len(s)] =
       [pos |-> Len(Encoded(s)) + 1, normalized |-> Encoded(Spoken(s))]

LEMMA CharsTaken ==
  \A s \in Seq(Char) : \A r \in Seq(Byte) : TakenBy(s, r)
<1> DEFINE T == { s \in Seq(Char) : \A r \in Seq(Byte) : TakenBy(s, r) }
<1>1. <<>> \in T
  <2>1. <<>> \in Seq(Char) /\ Len(<<>>) = 0
    OBVIOUS
  <2>2. ASSUME NEW r \in Seq(Byte)
        PROVE  TakenBy(<<>>, r)
    <3>1. <<>> \o r = r /\ Len(r) \in Nat
      OBVIOUS
    <3>2. Scanned(r)[0] = [pos |-> 1, normalized |-> <<>>]
      BY <3>1, ScannedIs
    <3>3. Len(<<>>) = 0 /\ 0 <= 0 /\ 0 + 1 = 1
      OBVIOUS
    <3> QED BY <3>1, <3>2, <3>3, NothingEncoded, Zenon DEF TakenBy
  <2> QED BY <2>1, <2>2
<1>2. ASSUME NEW s \in Seq(Char), NEW c \in Char, s \in T
      PROVE  Append(s, c) \in T
  <2> DEFINE e == Encoded(s)  code == Encoding[c]  t == Append(s, c)
  <2>1. e \in Seq(Byte) /\ code \in Seq(Byte) /\ Utf8(code) /\ Len(code) \in 1 .. 4
    BY EncodedIs, CodeIs
  <2>2. Encoded(t) = e \o code /\ Len(t) = Len(s) + 1 /\ Len(s) \in Nat /\ t \in Seq(Char)
    BY EncodedIs
  <2>3. Len(Encoded(t)) = Len(e) + Len(code) /\ Len(e) \in Nat
    BY <2>1, <2>2
  <2>4. Encoded(Spoken(t)) =
          Encoded(Spoken(s)) \o (IF IsIgnoredNativeKwsSymbol(code) THEN <<>> ELSE code)
    BY SpokenEncoded
  <2>5. ASSUME NEW r \in Seq(Byte)
        PROVE  TakenBy(t, r)
    <3> DEFINE text == e \o (code \o r)  n == Len(s)
    <3> HIDE DEF code, t
    <3>0. n \in Nat /\ Len(t) = n + 1 /\ Len(code) \in Nat /\ Len(code) >= 1
      <4>1. Len(code) \in 1 .. 4
        BY <2>1
      <4>2. Len(code) \in Nat /\ Len(code) >= 1
        <5>1. \A k \in 1 .. 4 : k \in Nat /\ k >= 1
          OBVIOUS
        <5> QED BY <4>1, <5>1, Zenon
      <4> QED BY <2>2, <4>2, Zenon
    <3>1. code \o r \in Seq(Byte) /\ Len(r) \in Nat
      BY <2>1
    <3>2. TakenBy(s, code \o r)
      BY <1>2, <3>1
    <3>3. n <= Len(e) /\ Scanned(text)[n] = [pos |-> Len(e) + 1, normalized |-> Encoded(Spoken(s))]
      BY <3>2 DEF TakenBy
    <3>10. n <= Len(e) /\ Len(e) \in Nat /\ Len(Encoded(t)) = Len(e) + Len(code)
      BY <2>3, <3>3
    <3> HIDE DEF e
    <3>4. Encoded(t) \o r = text
      <4>1. (e \o code) \o r = e \o (code \o r)
        <5> HIDE DEF text, n, T
        <5> QED BY <2>1
      <4> QED BY <2>2, <4>1
    <3>5. Len(text) = Len(e) + Len(code) + Len(r)
      BY <2>1, InTheMiddle
    <3>6. Len(text) \in Nat /\ n \in Nat /\ n + 1 <= Len(text)
      <4> HIDE DEF text, n
      <4> QED BY <3>0, <3>1, <3>5, <3>10
    <3>7. Scanned(text)[n + 1] = Scan(text, Scanned(text)[n])
      <4> HIDE DEF text, n
      <4> QED BY <3>6, ScannedIs
    <3>8. Scan(text, [pos |-> Len(e) + 1, normalized |-> Encoded(Spoken(s))]) =
            [pos |-> Len(e) + Len(code) + 1, normalized |-> Encoded(Spoken(t))]
      BY <2>1, <2>4, ScanChar
    <3>9. Len(t) <= Len(Encoded(t))
      <4> HIDE DEF text, n
      <4> QED BY <3>0, <3>10
    <3> HIDE DEF text
    <3> QED BY <2>2, <2>3, <3>3, <3>4, <3>7, <3>8, <3>9 DEF TakenBy
  <2> HIDE DEF t
  <2>6. t \in T
    BY <2>2, <2>5
  <2> QED BY <2>6 DEF t
<1>3. Seq(Char) \subseteq T
  <2> HIDE DEF T
  <2> QED BY <1>1, <1>2, ByAppending
<1> QED BY <1>3

(* The rounds that are left over do nothing: what is left is spoken. *)
LEMMA NormalizedIs ==
  ASSUME NEW s \in Seq(Char)
  PROVE  NormalizeNativeKwsText(Encoded(s)) = Encoded(Spoken(s))
<1> DEFINE text == Encoded(s)
           end == [pos |-> Len(text) + 1, normalized |-> Encoded(Spoken(s))]
           T == { k \in Nat : Len(s) + k <= Len(text) => Scanned(text)[Len(s) + k] = end }
<1>1. text \in Seq(Byte) /\ Len(text) \in Nat /\ Len(s) \in Nat
  BY EncodedIs
<1>2. Len(s) <= Len(text) /\ Scanned(text)[Len(s)] = end
  <2>1. TakenBy(s, <<>>)
    <3>1. <<>> \in Seq(Byte)
      OBVIOUS
    <3> QED BY <3>1, CharsTaken
  <2>2. text \o <<>> = text
    BY <1>1, ConcatEmptySeq
  <2> QED BY <2>1, <2>2 DEF TakenBy
<1>3. Scan(text, end) = end
  <2>1. end.pos = Len(text) + 1 /\ Len(text) + 1 > Len(text)
    BY <1>1
  <2> HIDE DEF end, text
  <2> QED BY <2>1 DEF Scan
<1> HIDE DEF end, text
<1>4. 0 \in T
  BY <1>1, <1>2
<1>5. ASSUME NEW k \in Nat, k \in T
      PROVE  k + 1 \in T
  <2> SUFFICES ASSUME Len(s) + (k + 1) <= Len(text)
               PROVE  Scanned(text)[Len(s) + (k + 1)] = end
    OBVIOUS
  <2> DEFINE n == Len(s) + k
  <2>1. n \in Nat /\ n + 1 <= Len(text) /\ n <= Len(text) /\ Len(s) + (k + 1) = n + 1
    BY <1>1
  <2>2. Scanned(text)[n] = end
    BY <1>5, <2>1
  <2> HIDE DEF n
  <2>3. Scanned(text)[n + 1] = Scan(text, Scanned(text)[n])
    BY <1>1, <2>1, ScannedIs
  <2> QED BY <1>3, <2>1, <2>2, <2>3
<1>6. Nat \subseteq T
  <2> HIDE DEF T
  <2> QED BY <1>4, <1>5, ByInduction
<1>7. Scanned(text)[Len(text)] = end
  <2> DEFINE k == Len(text) - Len(s)
  <2>1. k \in Nat /\ Len(s) + k = Len(text)
    BY <1>1, <1>2
  <2> HIDE DEF k
  <2>2. k \in T
    BY <1>6, <2>1
  <2>3. Len(text) <= Len(text)
    BY <1>1
  <2> QED BY <2>1, <2>2, <2>3
<1>8. NormalizeNativeKwsText(text) = end.normalized
  BY <1>1, <1>7, ScannedIs
<1> QED BY <1>8 DEF end, text

-----------------------------------------------------------------------------
(* A suffix is what remains when something is taken from the front. *)
LEMMA ReverseIs ==
  ASSUME NEW S, NEW a \in Seq(S)
  PROVE  /\ Reverse(a) \in Seq(S) /\ Len(Reverse(a)) = Len(a)
         /\ \A i \in 1 .. Len(a) : Reverse(a)[i] = a[(Len(a) - i) + 1]
<1>1. \A i \in 1 .. Len(a) : (Len(a) - i) + 1 \in 1 .. Len(a)
  OBVIOUS
<1>2. \A i \in 1 .. Len(a) : a[(Len(a) - i) + 1] \in S
  BY <1>1
<1>3. Len(a) \in Nat
  OBVIOUS
<1> DEFINE n == Len(a)  e(i) == a[(n - i) + 1]
<1>4. [i \in 1 .. n |-> e(i)] \in Seq(S) /\ Len([i \in 1 .. n |-> e(i)]) = n
  <2> HIDE DEF n
  <2>1. n \in Nat /\ \A i \in 1 .. n : e(i) \in S
    BY <1>2, <1>3 DEF n
  <2> HIDE DEF e
  <2> QED BY <2>1
<1>5. Reverse(a) = [i \in 1 .. n |-> e(i)]
  BY Zenon DEF Reverse
<1> QED BY <1>4, <1>5

LEMMA SuffixFrom ==
  ASSUME NEW S, NEW a \in Seq(S), NEW b \in Seq(S)
  PROVE  IsSuffix(a, b) <=>
           /\ Len(a) <= Len(b)
           /\ \A i \in 1 .. Len(a) : a[i] = b[Len(b) - Len(a) + i]
<1> DEFINE m == Len(a)  n == Len(b)  ra == Reverse(a)  rb == Reverse(b)
<1>1. m \in Nat /\ n \in Nat
  OBVIOUS
<1>2. /\ ra \in Seq(S) /\ Len(ra) = m /\ \A i \in 1 .. m : ra[i] = a[(m - i) + 1]
      /\ rb \in Seq(S) /\ Len(rb) = n /\ \A i \in 1 .. n : rb[i] = b[(n - i) + 1]
  BY ReverseIs
<1>3. IsSuffix(a, b) <=> m <= n /\ SubSeq(ra, 1, m) = SubSeq(rb, 1, m)
  BY <1>2, Zenon DEF IsSuffix, IsPrefix
<1> HIDE DEF m, n, ra, rb
<1>4. ASSUME m <= n
      PROVE  SubSeq(ra, 1, m) = SubSeq(rb, 1, m) <=> \A i \in 1 .. m : ra[i] = rb[i]
  <2> DEFINE sa == SubSeq(ra, 1, m)  sb == SubSeq(rb, 1, m)
  <2>1. \A i \in 1 .. m : i \in 1 .. n
    BY <1>1, <1>4
  <2>2. /\ sa \in Seq(S) /\ Len(sa) = m /\ \A i \in 1 .. m : sa[i] = ra[i]
    BY <1>1, <1>2
  <2>3. /\ sb \in Seq(S) /\ Len(sb) = m /\ \A i \in 1 .. m : sb[i] = rb[i]
    BY <1>1, <1>2, <1>4, <2>1
  <2> HIDE DEF sa, sb
  <2>4. sa = sb <=> \A i \in 1 .. m : sa[i] = sb[i]
    BY <2>2, <2>3, SeqEqual
  <2>5. sa = sb <=> \A i \in 1 .. m : ra[i] = rb[i]
    BY <2>2, <2>3, <2>4, Zenon
  <2> QED BY <2>5 DEF sa, sb
<1>5. ASSUME m <= n
      PROVE  (\A i \in 1 .. m : ra[i] = rb[i]) <=> \A i \in 1 .. m : a[i] = b[n - m + i]
  <2>1. ASSUME \A i \in 1 .. m : ra[i] = rb[i], NEW i \in 1 .. m
        PROVE  a[i] = b[n - m + i]
    <3> DEFINE j == (m - i) + 1
    <3>1. j \in 1 .. m /\ j \in 1 .. n /\ (m - j) + 1 = i /\ (n - j) + 1 = n - m + i
      BY <1>1, <1>5
    <3> HIDE DEF j
    <3>2. ra[j] = a[i] /\ rb[j] = b[n - m + i] /\ ra[j] = rb[j]
      BY <1>2, <2>1, <3>1
    <3> QED BY <3>2
  <2>2. ASSUME \A i \in 1 .. m : a[i] = b[n - m + i], NEW i \in 1 .. m
        PROVE  ra[i] = rb[i]
    <3> DEFINE j == (m - i) + 1
    <3>1. j \in 1 .. m /\ i \in 1 .. n /\ (n - i) + 1 = n - m + j
      BY <1>1, <1>5
    <3>2. a[j] = b[n - m + j]
      BY <2>2, <3>1
    <3>3. ra[i] = a[j] /\ rb[i] = b[(n - i) + 1]
      BY <1>2, <3>1
    <3> HIDE DEF j
    <3> QED BY <3>1, <3>2, <3>3
  <2> QED BY <2>1, <2>2
<1> QED BY <1>3, <1>4, <1>5 DEF m, n

LEMMA SuffixIs ==
  ASSUME NEW S, NEW a \in Seq(S), NEW b \in Seq(S)
  PROVE  IsSuffix(a, b) <=> \E p \in Seq(S) : b = p \o a
<1> DEFINE m == Len(a)  n == Len(b)
<1>1. m \in Nat /\ n \in Nat
  OBVIOUS
<1>2. ASSUME IsSuffix(a, b)
      PROVE  \E p \in Seq(S) : b = p \o a
  <2> DEFINE p == SubSeq(b, 1, n - m)
  <2>1. m <= n /\ \A i \in 1 .. m : a[i] = b[n - m + i]
    BY <1>2, SuffixFrom
  <2>2. /\ p \in Seq(S) /\ Len(p) = n - m /\ \A i \in 1 .. n - m : p[i] = b[i]
    BY <1>1, <2>1
  <2> DEFINE q == p \o a
  <2> HIDE DEF p
  <2>3. /\ q \in Seq(S) /\ Len(q) = Len(p) + m
        /\ \A i \in 1 .. Len(p) : q[i] = p[i]
        /\ \A i \in 1 .. m : q[Len(p) + i] = a[i]
    BY <2>2
  <2> HIDE DEF q
  <2>4. Len(q) = n
    BY <1>1, <2>2, <2>3
  <2>5. ASSUME NEW i \in 1 .. n
        PROVE  b[i] = q[i]
    <3>1. CASE i <= n - m
      BY <1>1, <2>2, <2>3, <3>1
    <3>2. CASE ~(i <= n - m)
      <4> DEFINE j == i - (n - m)
      <4>1. j \in 1 .. m /\ n - m + j = i
        BY <1>1, <2>1, <3>2
      <4> HIDE DEF j
      <4>2. q[Len(p) + j] = a[j] /\ a[j] = b[n - m + j]
        BY <2>1, <2>3, <4>1
      <4> QED BY <2>2, <4>1, <4>2
    <3> QED BY <3>1, <3>2
  <2>6. b = q
    BY <2>3, <2>4, <2>5, SeqEqual
  <2> QED BY <2>2, <2>6 DEF q
<1>3. ASSUME NEW p \in Seq(S), b = p \o a
      PROVE  IsSuffix(a, b)
  <2>1. /\ n = Len(p) + m /\ Len(p) \in Nat
        /\ \A i \in 1 .. m : b[Len(p) + i] = a[i]
    BY <1>3
  <2>2. m <= n /\ n - m = Len(p)
    BY <1>1, <2>1
  <2>3. m <= n /\ \A i \in 1 .. m : a[i] = b[n - m + i]
    BY <2>1, <2>2
  <2> QED BY <2>3, SuffixFrom
<1> QED BY <1>2, <1>3

(* No code ends with another one: its bytes after the first are not a first.  *)
LEMMA NotWithin ==
  ASSUME NEW c \in Char, NEW d \in Char, NEW u \in Seq(Byte), NEW v \in Seq(Byte),
         u \o Encoding[d] = v \o Encoding[c]
  PROVE  ~(Len(Encoding[d]) < Len(Encoding[c]))
<1> SUFFICES ASSUME Len(Encoding[d]) < Len(Encoding[c]) PROVE FALSE
  OBVIOUS
<1> DEFINE C == Encoding[c]  D == Encoding[d]  w == u \o D
           k == Len(C) - Len(D) + 1
<1>1. Utf8(C) /\ Utf8(D) /\ C \in Seq(Byte) /\ D \in Seq(Byte)
  BY CodeIs
<1>2. Len(C) \in 1 .. 4 /\ Len(D) \in 1 .. 4
  BY CodeIs
<1>3. w = v \o C
  OBVIOUS
<1> HIDE DEF C, D
<1>4. Len(w) = Len(u) + Len(D) /\ \A i \in 1 .. Len(D) : w[Len(u) + i] = D[i]
  BY <1>1
<1> HIDE DEF w
<1>5. Len(w) = Len(v) + Len(C) /\ \A i \in 1 .. Len(C) : w[Len(v) + i] = C[i]
  BY <1>1, <1>3
<1>6. Len(u) \in Nat /\ Len(v) \in Nat
  OBVIOUS
<1>7. Len(D) < Len(C)
  BY DEF C, D
<1> DEFINE lc == Len(C)  ld == Len(D)  lu == Len(u)  lv == Len(v)
<1>8. lu + ld = lv + lc /\ lc \in 1 .. 4 /\ ld \in 1 .. 4 /\ lu \in Nat /\ lv \in Nat /\ ld < lc
  BY <1>2, <1>4, <1>5, <1>6, <1>7
<1> HIDE DEF lc, ld, lu, lv
<1>9. lc - ld + 1 \in 2 .. lc /\ lc - ld + 1 \in 1 .. lc /\ lv + (lc - ld + 1) = lu + 1 /\ 1 \in 1 .. ld
  BY <1>8
<1>10. k \in 2 .. Len(C) /\ k \in 1 .. Len(C) /\ Len(v) + k = Len(u) + 1 /\ 1 \in 1 .. Len(D)
  BY <1>9 DEF lc, ld, lu, lv
<1> HIDE DEF k
<1>11. C[k] = D[1]
  BY <1>4, <1>5, <1>10, Zenon
<1>12. C[k] \in 128 .. 191
  BY <1>1, <1>10, Zenon DEF Utf8
<1>13. D[1] \notin 128 .. 191
  BY <1>1, CharLength, Zenon
<1> QED BY <1>11, <1>12, <1>13, Zenon

LEMMA LastCode ==
  ASSUME NEW c \in Char, NEW d \in Char, NEW u \in Seq(Byte), NEW v \in Seq(Byte),
         u \o Encoding[d] = v \o Encoding[c]
  PROVE  u = v /\ c = d
<1> DEFINE C == Encoding[c]  D == Encoding[d]  w == u \o D
<1>1. C \in Seq(Byte) /\ D \in Seq(Byte)
  BY CodeIs
<1>2. Len(C) \in Nat /\ Len(D) \in Nat /\ Len(u) \in Nat /\ Len(v) \in Nat
  BY <1>1
<1>3. ~(Len(D) < Len(C)) /\ ~(Len(C) < Len(D))
  BY NotWithin
<1>4. w = v \o C
  OBVIOUS
<1> HIDE DEF C, D
<1>5. /\ Len(w) = Len(u) + Len(D) /\ \A i \in 1 .. Len(D) : w[Len(u) + i] = D[i]
      /\ \A i \in 1 .. Len(u) : w[i] = u[i]
  BY <1>1
<1> HIDE DEF w
<1>6. /\ Len(w) = Len(v) + Len(C) /\ \A i \in 1 .. Len(C) : w[Len(v) + i] = C[i]
      /\ \A i \in 1 .. Len(v) : w[i] = v[i]
  BY <1>1, <1>4
<1>7. Len(C) = Len(D) /\ Len(u) = Len(v)
  BY <1>2, <1>3, <1>5, <1>6
<1>8. \A i \in 1 .. Len(C) : C[i] = D[i]
  BY <1>5, <1>6, <1>7, Zenon
<1>9. C = D
  BY <1>1, <1>7, <1>8, SeqEqual
<1>10. \A i \in 1 .. Len(u) : u[i] = v[i]
  BY <1>5, <1>6, <1>7, Zenon
<1>11. u = v
  BY <1>7, <1>10, SeqEqual
<1>12. c = d
  BY <1>9, EncodingAssumption, Zenon DEF C, D, Char
<1> QED BY <1>11, <1>12

LEMMA LastOf ==
  ASSUME NEW A, NEW s \in Seq(A), s # <<>>
  PROVE  \E p \in Seq(A), c \in A : s = Append(p, c)
<1> DEFINE n == Len(s) - 1  p == SubSeq(s, 1, n)
<1>1. n \in Nat /\ Len(s) = n + 1 /\ Len(s) \in 1 .. Len(s)
  OBVIOUS
<1>2. p \in Seq(A) /\ Len(p) = n /\ s[Len(s)] \in A
  BY <1>1
<1>3. s = Append(p, s[Len(s)])
  BY <1>1
<1> QED BY <1>2, <1>3

(* A text ends with another one when its characters do. *)
LEMMA SuffixDecoded ==
  \A a \in Seq(Char) : \A b \in Seq(Char) :
    IsSuffix(Encoded(a), Encoded(b)) => IsSuffix(a, b)
<1> DEFINE T == { a \in Seq(Char) : \A b \in Seq(Char) :
                    IsSuffix(Encoded(a), Encoded(b)) => IsSuffix(a, b) }
<1>1. <<>> \in T
  <2>1. <<>> \in Seq(Char)
    OBVIOUS
  <2>2. ASSUME NEW b \in Seq(Char)
        PROVE  IsSuffix(<<>>, b)
    <3>1. b = b \o <<>>
      OBVIOUS
    <3> QED BY <2>1, <3>1, SuffixIs
  <2> QED BY <2>1, <2>2
<1>2. ASSUME NEW a \in Seq(Char), NEW c \in Char, a \in T
      PROVE  Append(a, c) \in T
  <2> DEFINE t == Append(a, c)
  <2>1. t \in Seq(Char) /\ Encoded(t) = Encoded(a) \o Encoding[c]
    BY EncodedIs
  <2>2. Encoded(a) \in Seq(Byte) /\ Encoding[c] \in Seq(Byte) /\ Len(Encoding[c]) \in 1 .. 4
    BY EncodedIs, CodeIs
  <2>3. ASSUME NEW b \in Seq(Char), IsSuffix(Encoded(t), Encoded(b))
        PROVE  IsSuffix(t, b)
    <3>1. Encoded(t) \in Seq(Byte) /\ Encoded(b) \in Seq(Byte)
      <4> HIDE DEF t
      <4> QED BY <2>1, EncodedIs
    <3>2. PICK q \in Seq(Byte) : Encoded(b) = q \o Encoded(t)
      <4> HIDE DEF t
      <4> QED BY <2>3, <3>1, SuffixIs
    <3>3. Encoded(b) = (q \o Encoded(a)) \o Encoding[c] /\ q \o Encoded(a) \in Seq(Byte)
      <4>2. Encoded(b) = q \o (Encoded(a) \o Encoding[c])
        <5> HIDE DEF t
        <5> QED BY <2>1, <3>2
      <4> DEFINE y == Encoded(a)  z == Encoding[c]
      <4>3. y \in Seq(Byte) /\ z \in Seq(Byte)
        BY <2>2
      <4> HIDE DEF y, z, t, T
      <4>4. (q \o y) \o z = q \o (y \o z) /\ q \o y \in Seq(Byte)
        BY <4>3
      <4> QED BY <4>2, <4>4 DEF y, z
    <3>4. b # <<>>
      <4>1. ASSUME b = <<>> PROVE FALSE
        <5> DEFINE x == q \o Encoded(a)  y == Encoding[c]
        <5>1. Encoded(b) = <<>>
          BY <4>1, NothingEncoded
        <5>2. x \in Seq(Byte) /\ y \in Seq(Byte) /\ x \o y = <<>>
          BY <2>2, <3>3, <5>1
        <5>3. Len(y) \in 1 .. 4
          BY <2>2
        <5> HIDE DEF x, y
        <5>4. y = <<>>
          BY <5>2
        <5> QED BY <5>3, <5>4
      <4> QED BY <4>1
    <3>5. PICK f \in Seq(Char), d \in Char : b = Append(f, d)
      BY <3>4, LastOf
    <3>6. Encoded(b) = Encoded(f) \o Encoding[d] /\ Encoded(f) \in Seq(Byte)
      BY <3>5, EncodedIs
    <3>7. Encoded(f) = q \o Encoded(a) /\ c = d
      BY <3>3, <3>6, LastCode
    <3>8. IsSuffix(Encoded(a), Encoded(f))
      BY <2>2, <3>6, <3>7, SuffixIs
    <3>9. IsSuffix(a, f)
      BY <1>2, <3>8
    <3>10. PICK p \in Seq(Char) : f = p \o a
      BY <3>9, SuffixIs
    <3>11. b = p \o t
      BY <3>5, <3>7, <3>10
    <3> HIDE DEF t
    <3> QED BY <2>1, <3>11, SuffixIs
  <2> HIDE DEF t
  <2>4. t \in T
    BY <2>1, <2>3
  <2> QED BY <2>4 DEF t
<1>3. Seq(Char) \subseteq T
  <2> HIDE DEF T
  <2> QED BY <1>1, <1>2, ByAppending
<1> QED BY <1>3

LEMMA EncodedTwo ==
  ASSUME NEW p \in Seq(Char), NEW a \in Seq(Char)
  PROVE  Encoded(p \o a) = Encoded(p) \o Encoded(a)
<1>1. \A c \in Char : Encoding[c] \in Seq(Byte)
  BY CodeIs
<1>2. \A t \in Seq(Char) : Joined(p \o t, Encoding) = Joined(p, Encoding) \o Joined(t, Encoding)
  <2> DEFINE B == Byte
  <2>1. \A c \in Char : Encoding[c] \in Seq(B)
    BY <1>1
  <2> HIDE DEF B
  <2>2. ASSUME NEW t \in Seq(Char)
        PROVE  Joined(p \o t, Encoding) = Joined(p, Encoding) \o Joined(t, Encoding)
    BY <2>1, JoinedTwo, SMTT(20)
  <2> QED BY <2>2
<1> QED BY <1>2 DEF Encoded

LEMMA SuffixesEncoded ==
  ASSUME NEW a \in Seq(Char), NEW b \in Seq(Char)
  PROVE  IsSuffix(Encoded(a), Encoded(b)) <=> IsSuffix(a, b)
<1>1. Encoded(a) \in Seq(Byte) /\ Encoded(b) \in Seq(Byte)
  BY EncodedIs
<1>2. ASSUME IsSuffix(a, b)
      PROVE  IsSuffix(Encoded(a), Encoded(b))
  <2>1. PICK p \in Seq(Char) : b = p \o a
    BY <1>2, SuffixIs
  <2>2. Encoded(p) \in Seq(Byte) /\ Encoded(b) = Encoded(p) \o Encoded(a)
    BY <2>1, EncodedTwo, EncodedIs
  <2> QED BY <1>1, <2>2, SuffixIs
<1> QED BY <1>2, SuffixDecoded

-----------------------------------------------------------------------------
LEMMA EncodedEmpty ==
  ASSUME NEW s \in Seq(Char)
  PROVE  Encoded(s) = <<>> <=> s = <<>>
<1>1. ASSUME Encoded(s) = <<>>
      PROVE  s = <<>>
  <2>1. <<>> \in Seq(Byte)
    OBVIOUS
  <2>2. TakenBy(s, <<>>)
    BY <2>1, CharsTaken
  <2>3. Len(s) <= Len(<<>>) /\ Len(<<>>) = 0
    BY <1>1, <2>2 DEF TakenBy
  <2> QED BY <2>3
<1> QED BY <1>1, NothingEncoded

(* The triggers that a text hits, in the list that was set and in the one      *)
(* that was kept of it.                                                    *)
Trigger(raw) == [raw |-> raw, normalized |-> NormalizeNativeKwsText(raw)]
KeptOf(R) == [raw \in R |-> IF Trigger(raw).normalized = <<>> THEN <<>> ELSE <<Trigger(raw)>>]
Hits(F, said) == { i \in DOMAIN F : IsSuffix(F[i].normalized, said) }
Hitting(raw, said) ==
  NormalizeNativeKwsText(raw) # <<>> /\ IsSuffix(NormalizeNativeKwsText(raw), said)
Wants(s, said) == { j \in DOMAIN s : Hitting(s[j], said) }
SameFirst(F, s, said) ==
  \/ Hits(F, said) = {} /\ Wants(s, said) = {}
  \/ \E i \in Hits(F, said), j \in Wants(s, said) :
       /\ \A k \in Hits(F, said) : i <= k
       /\ \A k \in Wants(s, said) : j <= k
       /\ F[i].raw = s[j]

(* One more at the end of a sequence. *)
LEMMA HitsAppend ==
  ASSUME NEW B, NEW F \in Seq(B), NEW x \in B, NEW said
  PROVE  /\ Hits(Append(F, x), said) =
              Hits(F, said) \cup IF IsSuffix(x.normalized, said) THEN {Len(F) + 1} ELSE {}
         /\ Hits(F, said) \subseteq 1 .. Len(F)
         /\ \A i \in 1 .. Len(F) : Append(F, x)[i] = F[i]
         /\ Append(F, x)[Len(F) + 1] = x
<1> DEFINE G == Append(F, x)  n == Len(F)
<1>1. /\ n \in Nat /\ DOMAIN F = 1 .. n /\ DOMAIN G = 1 .. n + 1
      /\ \A i \in 1 .. n : G[i] = F[i]
      /\ G[n + 1] = x
  OBVIOUS
<1> HIDE DEF G, n
<1>2. \A i : i \in 1 .. n + 1 <=> i \in 1 .. n \/ i = n + 1
  BY <1>1
<1>3. Hits(G, said) = Hits(F, said) \cup IF IsSuffix(x.normalized, said) THEN {n + 1} ELSE {}
  BY <1>1, <1>2 DEF Hits
<1>4. Hits(F, said) \subseteq 1 .. n
  BY <1>1 DEF Hits
<1> QED BY <1>1, <1>3, <1>4 DEF G, n

LEMMA WantsAppend ==
  ASSUME NEW R, NEW s \in Seq(R), NEW x \in R, NEW said
  PROVE  /\ Wants(Append(s, x), said) =
              Wants(s, said) \cup IF Hitting(x, said) THEN {Len(s) + 1} ELSE {}
         /\ Wants(s, said) \subseteq 1 .. Len(s)
         /\ \A i \in 1 .. Len(s) : Append(s, x)[i] = s[i]
         /\ Append(s, x)[Len(s) + 1] = x
<1> DEFINE G == Append(s, x)  n == Len(s)
<1>1. /\ n \in Nat /\ DOMAIN s = 1 .. n /\ DOMAIN G = 1 .. n + 1
      /\ \A i \in 1 .. n : G[i] = s[i]
      /\ G[n + 1] = x
  OBVIOUS
<1> HIDE DEF G, n
<1>2. \A i : i \in 1 .. n + 1 <=> i \in 1 .. n \/ i = n + 1
  BY <1>1
<1>3. Wants(G, said) = Wants(s, said) \cup IF Hitting(x, said) THEN {n + 1} ELSE {}
  BY <1>1, <1>2 DEF Wants
<1>4. Wants(s, said) \subseteq 1 .. n
  BY <1>1 DEF Wants
<1> QED BY <1>1, <1>3, <1>4 DEF G, n

(* The first hit of the one is the first of the other. *)
LEMMA FirstKept ==
  ASSUME NEW R, NEW said
  PROVE  \A s \in Seq(R) : SameFirst(Joined(s, KeptOf(R)), s, said)
<1> DEFINE of == KeptOf(R)
           B == { Trigger(raw) : raw \in R }
           T == { s \in Seq(R) : SameFirst(Joined(s, of), s, said) }
<1>1. \A x \in R : /\ NormalizeNativeKwsText(x) = <<>> => of[x] = <<>>
                   /\ NormalizeNativeKwsText(x) # <<>> => of[x] = <<Trigger(x)>>
                   /\ Trigger(x).normalized = NormalizeNativeKwsText(x) /\ Trigger(x).raw = x
                   /\ Trigger(x) \in B
  BY DEF KeptOf, Trigger
<1> HIDE DEF of, B
<1>2. \A x \in R : of[x] \in Seq(B)
  <2>1. \A y \in B : <<>> \in Seq(B) /\ <<y>> \in Seq(B)
    OBVIOUS
  <2> QED BY <1>1, <2>1, Zenon
<1>3. <<>> \in T
  <2>1. <<>> \in Seq(R) /\ DOMAIN <<>> = {}
    OBVIOUS
  <2>2. Hits(<<>>, said) = {} /\ Wants(<<>>, said) = {}
    BY <2>1 DEF Hits, Wants
  <2>3. Joined(<<>>, of) = <<>>
    BY JoinedNone
  <2> QED BY <2>1, <2>2, <2>3, Zenon DEF SameFirst
<1>4. ASSUME NEW s \in Seq(R), NEW x \in R, s \in T
      PROVE  Append(s, x) \in T
  <2> DEFINE F == Joined(s, of)  t == Append(s, x)  y == Trigger(x)
             m == Len(s)  n == Len(F)
  <2>1. F \in Seq(B) /\ Joined(t, of) = F \o of[x] /\ t \in Seq(R)
    <3>1. \A z \in Seq(R) : Joined(z, of) \in Seq(B)
      BY <1>2, JoinedType, Zenon
    <3>2. Joined(t, of) = F \o of[x]
      BY JoinedAppend
    <3> QED BY <3>1, <3>2
  <2>2. n \in Nat /\ m \in Nat
    <3> HIDE DEF F
    <3> QED BY <2>1
  <2>3. SameFirst(F, s, said)
    BY <1>4
  <2>4. /\ Wants(t, said) = Wants(s, said) \cup IF Hitting(x, said) THEN {m + 1} ELSE {}
        /\ Wants(s, said) \subseteq 1 .. m
        /\ \A i \in 1 .. m : t[i] = s[i]
        /\ t[m + 1] = x
    BY WantsAppend
  <2> HIDE DEF F, t, m, n, y
  <2>5. CASE NormalizeNativeKwsText(x) = <<>>
    <3>1. of[x] = <<>> /\ ~Hitting(x, said)
      BY <1>1, <2>5 DEF Hitting
    <3>2. Joined(t, of) = F
      BY <2>1, <3>1, ConcatEmptySeq
    <3>3. Wants(t, said) = Wants(s, said)
      BY <2>4, <3>1
    <3>4. \A j \in Wants(s, said) : t[j] = s[j]
      BY <2>4
    <3>5. SameFirst(F, t, said)
      BY <2>3, <3>3, <3>4 DEF SameFirst
    <3> QED BY <2>1, <3>2, <3>5 DEF t
  <2>6. CASE NormalizeNativeKwsText(x) # <<>>
    <3> DEFINE G == Append(F, y)
    <3>1. /\ of[x] = <<y>> /\ y \in B /\ y.raw = x /\ y.normalized = NormalizeNativeKwsText(x)
          /\ Hitting(x, said) <=> IsSuffix(y.normalized, said)
      BY <1>1, <2>6 DEF Hitting, y
    <3>2. Joined(t, of) = G
      <4>1. F \o <<y>> = Append(F, y)
        BY <2>1, <3>1
      <4> QED BY <2>1, <3>1, <4>1
    <3>3. /\ Hits(G, said) = Hits(F, said) \cup IF Hitting(x, said) THEN {n + 1} ELSE {}
          /\ Hits(F, said) \subseteq 1 .. n
          /\ \A i \in 1 .. n : G[i] = F[i]
          /\ G[n + 1] = y
      BY <2>1, <3>1, HitsAppend DEF n
    <3> HIDE DEF G
    <3>4. SameFirst(G, t, said)
      <4>1. CASE Hits(F, said) = {} /\ Wants(s, said) = {}
        <5>1. CASE Hitting(x, said)
          <6>1. Hits(G, said) = {n + 1} /\ Wants(t, said) = {m + 1}
            BY <2>4, <3>3, <4>1, <5>1
          <6>2. n + 1 <= n + 1 /\ m + 1 <= m + 1
            BY <2>2
          <6> QED BY <2>4, <3>1, <3>3, <6>1, <6>2 DEF SameFirst
        <5>2. CASE ~Hitting(x, said)
          <6>1. Hits(G, said) = {} /\ Wants(t, said) = {}
            BY <2>4, <3>3, <4>1, <5>2
          <6> QED BY <6>1 DEF SameFirst
        <5> QED BY <5>1, <5>2
      <4>2. ASSUME NEW i \in Hits(F, said), NEW j \in Wants(s, said),
                   \A k \in Hits(F, said) : i <= k, \A k \in Wants(s, said) : j <= k,
                   F[i].raw = s[j]
            PROVE  SameFirst(G, t, said)
        <5>1. i \in 1 .. n /\ j \in 1 .. m
          BY <2>4, <3>3
        <5>2. i <= n + 1 /\ j <= m + 1
          BY <2>2, <5>1
        <5>3. i \in Hits(G, said) /\ j \in Wants(t, said)
          BY <2>4, <3>3
        <5>4. \A k \in Hits(G, said) : i <= k
          BY <3>3, <4>2, <5>2
        <5>5. \A k \in Wants(t, said) : j <= k
          BY <2>4, <4>2, <5>2
        <5>6. G[i].raw = t[j]
          BY <2>4, <3>3, <4>2, <5>1
        <5> QED BY <5>3, <5>4, <5>5, <5>6 DEF SameFirst
      <4> QED BY <2>3, <4>1, <4>2 DEF SameFirst
    <3> QED BY <2>1, <3>2, <3>4 DEF t
  <2> QED BY <2>5, <2>6
<1>5. Seq(R) \subseteq T
  <2> HIDE DEF T
  <2> QED BY <1>3, <1>4, ByAppending
<1> QED BY <1>5 DEF of

(* The least of a set of numbers is chosen. *)
LEMMA LeastIs ==
  ASSUME NEW S \in SUBSET Nat, NEW m \in S, \A k \in S : m <= k
  PROVE  (CHOOSE i \in S : \A j \in S : i <= j) = m
<1> DEFINE c == CHOOSE i \in S : \A j \in S : i <= j
<1>1. c \in S /\ \A j \in S : c <= j
  OBVIOUS
<1> HIDE DEF c
<1>2. c <= m /\ m <= c /\ c \in Nat /\ m \in Nat
  BY <1>1
<1>3. c = m
  BY <1>2
<1> QED BY <1>3 DEF c

(* Of the characters of a text and of the triggers that are set as bytes, what *)
(* is wanted is what happens.                                              *)
LEMMA HandledAsWanted ==
  ASSUME NEW asked \in Seq(Seq(Char)), NEW chars \in Seq(Char), chars # <<>>,
         NEW final \in BOOLEAN
  PROVE  Handle(NativeKwsTriggers([i \in DOMAIN asked |-> Encoded(asked[i])]),
                [text |-> Encoded(chars), final |-> final, vad_begin |-> FALSE])
           = Wanted(asked, chars, final)
<1> DEFINE raws == [i \in DOMAIN asked |-> Encoded(asked[i])]
           R == Range(raws)
           F == NativeKwsTriggers(raws)
           text == Encoded(chars)
           said == Encoded(Spoken(chars))
           line == [text |-> text, final |-> final, vad_begin |-> FALSE]
           hits == { i \in DOMAIN F : IsSuffix(F[i].normalized, said) }
           wants == { i \in DOMAIN asked : /\ Spoken(asked[i]) # <<>>
                                           /\ IsSuffix(Spoken(asked[i]), Spoken(chars)) }
<1>1. raws \in Seq(R) /\ DOMAIN raws = DOMAIN asked /\ DOMAIN asked \subseteq Nat
  <2>1. DOMAIN asked = 1 .. Len(asked) /\ Len(asked) \in Nat
    OBVIOUS
  <2>2. DOMAIN raws = 1 .. Len(asked) /\ \A i \in 1 .. Len(asked) : raws[i] \in R
    BY <2>1 DEF Range
  <2>3. raws \in [1 .. Len(asked) -> R]
    <3>1. raws = [i \in 1 .. Len(asked) |-> raws[i]]
      BY <2>1
    <3> HIDE DEF raws, R
    <3> QED BY <2>2, <3>1
  <2> HIDE DEF raws, R
  <2> QED BY <2>1, <2>2, <2>3
<1>2. ASSUME NEW i \in DOMAIN asked
      PROVE  /\ asked[i] \in Seq(Char) /\ raws[i] = Encoded(asked[i])
             /\ NormalizeNativeKwsText(raws[i]) = Encoded(Spoken(asked[i]))
             /\ Spoken(asked[i]) \in Seq(Char)
  <2>1. asked[i] \in Seq(Char)
    OBVIOUS
  <2> QED BY <2>1, NormalizedIs, SpokenIs
<1>3. NormalizeNativeKwsText(text) = said /\ Spoken(chars) \in Seq(Char)
  BY NormalizedIs, SpokenIs
<1>4. F = Joined(raws, KeptOf(R))
  BY DEF NativeKwsTriggers, KeptOf, Trigger
<1>5. SameFirst(F, raws, said)
  <2> HIDE DEF raws, R, F, said
  <2> QED BY <1>1, <1>4, FirstKept
<1>6. hits = Hits(F, said)
  BY DEF Hits
<1>7. wants = Wants(raws, said)
  <2>1. ASSUME NEW i \in DOMAIN asked
        PROVE  Hitting(raws[i], said) <=>
                 Spoken(asked[i]) # <<>> /\ IsSuffix(Spoken(asked[i]), Spoken(chars))
    BY <1>2, <1>3, EncodedEmpty, SuffixesEncoded DEF Hitting
  <2> HIDE DEF raws
  <2> QED BY <1>1, <2>1 DEF Wants
<1>8. MatchNativeTextKws(F, text) = Wanted(asked, chars, TRUE)
  <2> DEFINE first(S) == CHOOSE i \in S : \A j \in S : i <= j
  <2>1. MatchNativeTextKws(F, text) = IF said = <<>> \/ hits = {} THEN Nothing
                                     ELSE TextKwsHeard(F[first(hits)].raw)
    BY <1>3 DEF MatchNativeTextKws
  <2>2. Wanted(asked, chars, TRUE) = IF wants = {} THEN Nothing
                                    ELSE TextKwsHeard(Encoded(asked[first(wants)]))
    BY DEF Wanted
  <2>3. said = <<>> => wants = {}
    <3>1. said = <<>> => Spoken(chars) = <<>>
      BY <1>3, EncodedEmpty
    <3>2. \A a \in Seq(Char) : a # <<>> => ~IsSuffix(a, <<>>)
      <4>1. <<>> \in Seq(Char) /\ Len(<<>>) = 0
        OBVIOUS
      <4>2. \A a \in Seq(Char) : a # <<>> => ~(Len(a) <= 0)
        OBVIOUS
      <4> QED BY <4>1, <4>2, SuffixFrom
    <3> QED BY <1>2, <3>1, <3>2
  <2>4. wants \subseteq Nat
    BY <1>1
  <2> HIDE DEF raws, F, said, hits, wants, first
  <2>5. CASE hits = {} /\ wants = {}
    BY <2>1, <2>2, <2>5
  <2>6. ASSUME NEW i \in hits, NEW j \in wants, \A k \in hits : i <= k, \A k \in wants : j <= k,
               F[i].raw = raws[j]
        PROVE  MatchNativeTextKws(F, text) = Wanted(asked, chars, TRUE)
    <3>1. hits \subseteq Nat
      <4>1. Hits(F, said) \subseteq Nat
        <5> DEFINE B == { Trigger(raw) : raw \in R }
        <5>1. F \in Seq(B)
          <6>1. \A x \in R : KeptOf(R)[x] \in Seq(B)
            <7>1. \A y \in B : <<>> \in Seq(B) /\ <<y>> \in Seq(B)
              OBVIOUS
            <7> QED BY <7>1 DEF KeptOf
          <6> HIDE DEF R, B
          <6>2. \A z \in Seq(R) : Joined(z, KeptOf(R)) \in Seq(B)
            BY <6>1, JoinedType, Zenon
          <6> QED BY <1>1, <1>4, <6>2
        <5> HIDE DEF B
        <5> QED BY <5>1 DEF Hits
      <4> QED BY <1>6, <4>1
    <3>2. first(hits) = i
      BY <2>6, <3>1, LeastIs DEF first
    <3>3. first(wants) = j
      BY <2>4, <2>6, LeastIs DEF first
    <3>4. raws[j] = Encoded(asked[j])
      BY <1>2 DEF wants
    <3>5. said # <<>>
      BY <2>3
    <3> QED BY <2>1, <2>2, <2>6, <3>2, <3>3, <3>4, <3>5
  <2> QED BY <1>5, <1>6, <1>7, <2>5, <2>6 DEF SameFirst
<1>9. text # <<>>
  BY EncodedEmpty
<1>10. Handle(F, line) = IF final THEN MatchNativeTextKws(F, text) ELSE Nothing
  <2>1. line.text = text /\ line.final = final /\ line.vad_begin = FALSE
    OBVIOUS
  <2> HIDE DEF F, text, line
  <2> QED BY <1>9, <2>1 DEF Handle
<1>11. Wanted(asked, chars, FALSE) = Nothing
  BY DEF Wanted
<1>12. Handle(F, line) = Wanted(asked, chars, final)
  <2>1. final = TRUE \/ final = FALSE
    OBVIOUS
  <2> HIDE DEF F, text, line
  <2> QED BY <1>8, <1>10, <1>11, <2>1
<1> QED BY <1>12

-----------------------------------------------------------------------------
(* What lies at the paths is files. *)
LoadTypes ==
  /\ DOMAIN pid = Proc /\ DOMAIN conf = Proc /\ DOMAIN read = Proc
  /\ \A c \in DOMAIN files : files[c] = None \/ IsKept(files[c])

(* The file of a process exists from the moment it goes on to read it.       *)
HasFile ==
  \A p \in Proc :
    /\ pc[p] # "none" => conf[p] \in DOMAIN files
    /\ pc[p] \in {"write", "read"} => IsKept(files[conf[p]])

(* The options are those of the file that was read. *)
HasLoaded ==
  \A p \in Proc :
    pc[p] = "check" => /\ IsKept(read[p])
                       /\ options[p] = Load(DefaultOptions(pid[p]), read[p])

LoadInv == LoadTypes /\ HasFile /\ HasLoaded

LEMMA InitLoads == Init => LoadInv
<1> SUFFICES ASSUME Init PROVE LoadInv
  OBVIOUS
<1>1. LoadTypes
  BY ScenariosAssumption DEF Init, LoadTypes, IsKept
<1>2. HasFile /\ HasLoaded
  BY DEF Init, HasFile, HasLoaded
<1> QED BY <1>1, <1>2 DEF LoadInv

(* A file, once there, stays a file, whoever writes it. *)
LEMMA FilesStay ==
  ASSUME LoadInv, NEW r \in Proc, Launch(r) \/ ProcessStep(r) \/ End(r) \/ Die(r)
  PROVE  /\ DOMAIN files' = DOMAIN files
         /\ \A c \in DOMAIN files : files'[c] = files[c] \/ IsKept(files'[c])
<1>1. CASE \/ Launch(r) \/ Look(r) \/ Read(r) \/ Check(r) \/ Clean(r) \/ ConnectLlm(r)
           \/ Exit(r) \/ End(r) \/ Die(r)
           \/ \E n \in Names : Unlink(r, n) \/ Bind(r, n) \/ CloseServer(r, n)
  BY <1>1
  DEF Launch, Look, Read, Check, Clean, ConnectLlm, Exit, End, Die, Unlink, Bind, CloseServer
<1>2. CASE Create(r)
  BY <1>2, NothingKept DEF Create
<1>3. CASE Write(r)
  <2>1. PICK f : IsKept(f) /\ files' = [files EXCEPT ![conf[r]] = f]
    BY <1>3, DefaultFileIs DEF Write
  <2> QED BY <2>1
<1> QED BY <1>1, <1>2, <1>3 DEF ProcessStep

(* Reading concerns the process that reads only, and the id and the file of  *)
(* a process are given when it is launched.                                *)
LEMMA OwnFile ==
  ASSUME LoadInv, NEW r \in Proc, Launch(r) \/ ProcessStep(r) \/ End(r) \/ Die(r)
  PROVE  /\ DOMAIN pid' = Proc /\ DOMAIN conf' = Proc /\ DOMAIN read' = Proc
         /\ \A p \in Proc : p # r => /\ pid'[p] = pid[p] /\ conf'[p] = conf[p]
                                     /\ read'[p] = read[p]
         /\ Launch(r) => conf'[r] \in DOMAIN files
         /\ ~Launch(r) => pid' = pid /\ conf' = conf
<1> USE DEF LoadInv, LoadTypes
<1>1. CASE Launch(r)
  BY <1>1 DEF Launch
<1>2. CASE ProcessStep(r) \/ End(r) \/ Die(r)
  <2>1. pid' = pid /\ conf' = conf
    BY <1>2
    DEF ProcessStep, Look, Create, Write, Read, Check, Clean, ConnectLlm, Exit, Unlink,
        Bind, CloseServer, End, Die
  <2>2. read' = read \/ \E f : read' = [read EXCEPT ![r] = f]
    BY <1>2
    DEF ProcessStep, Look, Create, Write, Read, Check, Clean, ConnectLlm, Exit, Unlink,
        Bind, CloseServer, End, Die
  <2>3. ~Launch(r)
    BY <1>2
    DEF Launch, ProcessStep, Look, Create, Write, Read, Check, Clean, ConnectLlm, Exit,
        Unlink, Bind, CloseServer, End, Die, Alive
  <2> QED BY <2>1, <2>2, <2>3
<1> QED BY <1>1, <1>2

(* How a process comes to where it needs its file. *)
LEMMA GoesToFile ==
  ASSUME ServeInv, NEW r \in Proc, Launch(r) \/ ProcessStep(r) \/ End(r) \/ Die(r)
  PROVE  /\ pc'[r] = "none" => FALSE
         /\ pc'[r] \in {"write", "read"} =>
              \/ Look(r) /\ files[conf[r]] # None
              \/ Create(r) /\ files' = [files EXCEPT ![conf[r]] = <<>>]
              \/ Write(r)
         /\ pc'[r] = "check" => Read(r)
         /\ ~Launch(r) => pc[r] # "none"
<1>1. DOMAIN pc = Proc
  BY DEF ServeInv, Types
<1>2. CASE Launch(r)
  BY <1>1, <1>2 DEF Launch, Proceed, Leave, Go
<1>3. CASE Look(r) \/ Create(r) \/ Write(r) \/ Read(r) \/ Check(r) \/ Clean(r)
  BY <1>1, <1>3 DEF Look, Create, Write, Read, Check, Clean, Proceed, Leave, Go
<1>4. CASE \/ ConnectLlm(r) \/ Exit(r) \/ End(r) \/ Die(r)
           \/ \E n \in Names : Unlink(r, n) \/ Bind(r, n) \/ CloseServer(r, n)
  BY <1>1, <1>4
  DEF ConnectLlm, Exit, End, Die, Unlink, Bind, CloseServer, Proceed, Leave, Go, Alive
<1> QED BY <1>2, <1>3, <1>4 DEF ProcessStep

(* Every step keeps what is said of the files. *)
LEMMA LoadKept ==
  ASSUME ServeInv, LoadInv, NEW r \in Proc,
         Launch(r) \/ ProcessStep(r) \/ End(r) \/ Die(r)
  PROVE  LoadInv'
<1>1. Others(r)
  BY LaunchKeeps, StepKeeps
<1>2. LoadTypes'
  BY FilesStay, OwnFile DEF LoadInv, LoadTypes
<1>3. ASSUME NEW p \in Proc, pc'[p] # "none"
      PROVE  conf'[p] \in DOMAIN files'
  <2>1. CASE Launch(r) /\ p = r
    BY <2>1, FilesStay, OwnFile
  <2>2. CASE ~(Launch(r) /\ p = r)
    BY <1>1, <1>3, <2>2, FilesStay, OwnFile, GoesToFile DEF Others, LoadInv, HasFile
  <2> QED BY <2>1, <2>2
<1>4. ASSUME NEW p \in Proc, pc'[p] \in {"write", "read"}
      PROVE  IsKept(files'[conf'[p]])
  <2>1. CASE p # r
    <3>1. pc[p] \in {"write", "read"} /\ conf'[p] = conf[p]
      BY <1>1, <1>4, <2>1, OwnFile DEF Others
    <3>2. IsKept(files[conf[p]]) /\ conf[p] \in DOMAIN files
      BY <3>1 DEF LoadInv, HasFile
    <3> QED BY <3>1, <3>2, FilesStay
  <2>2. CASE p = r
    <3>1. CASE Look(r) /\ files[conf[r]] # None
      <4>1. UNCHANGED <<files, conf>> /\ pc[r] # "none"
        BY <3>1 DEF Look
      <4>2. files[conf[r]] = None \/ IsKept(files[conf[r]])
        BY <4>1 DEF LoadInv, LoadTypes, HasFile
      <4> QED BY <2>2, <3>1, <4>1, <4>2
    <3>2. CASE Create(r) /\ files' = [files EXCEPT ![conf[r]] = <<>>]
      <4>1. UNCHANGED conf /\ pc[r] # "none"
        BY <3>2 DEF Create
      <4>2. conf[r] \in DOMAIN files /\ IsKept(<<>>)
        <5>1. conf[r] \in DOMAIN files
          BY <4>1 DEF LoadInv, HasFile
        <5> QED BY <5>1, NothingKept
      <4> QED BY <2>2, <3>2, <4>1, <4>2
    <3>3. CASE Write(r)
      <4>1. UNCHANGED conf /\ pc[r] # "none"
        BY <3>3 DEF Write
      <4>2. PICK f : IsKept(f) /\ files' = [files EXCEPT ![conf[r]] = f]
        BY <3>3, DefaultFileIs DEF Write
      <4>3. conf[r] \in DOMAIN files
        BY <4>1 DEF LoadInv, HasFile
      <4> QED BY <2>2, <4>1, <4>2, <4>3
    <3> QED BY <1>4, <2>2, <3>1, <3>2, <3>3, GoesToFile
  <2> QED BY <2>1, <2>2
<1>5. ASSUME NEW p \in Proc, pc'[p] = "check"
      PROVE  /\ IsKept(read'[p])
             /\ options'[p] = Load(DefaultOptions(pid'[p]), read'[p])
  <2>1. CASE p # r
    <3>1. /\ pc[p] = "check" /\ pid'[p] = pid[p] /\ read'[p] = read[p]
          /\ options'[p] = options[p]
      BY <1>1, <1>5, <2>1, OwnFile DEF Others
    <3> QED BY <3>1 DEF LoadInv, HasLoaded
  <2>2. CASE p = r
    <3>1. Read(r)
      BY <1>5, <2>2, GoesToFile
    <3>2. pc[r] = "read" /\ UNCHANGED pid
      BY <3>1 DEF Read
    <3>3. IsKept(files[conf[r]])
      BY <3>2 DEF LoadInv, HasFile
    <3>4. /\ options'[r] = Load(DefaultOptions(pid[r]), files[conf[r]])
          /\ read'[r] = files[conf[r]]
      BY <3>1 DEF Read, ServeInv, Types, LoadInv, LoadTypes
    <3> QED BY <2>2, <3>2, <3>3, <3>4
  <2> QED BY <2>1, <2>2
<1> QED BY <1>2, <1>3, <1>4, <1>5 DEF LoadInv, HasFile, HasLoaded

LEMMA LoadInvHolds == Spec => []LoadInv
<1>1. ServeInv /\ LoadInv /\ [Next]_vars => LoadInv'
  <2> SUFFICES ASSUME ServeInv, LoadInv, [Next]_vars PROVE LoadInv'
    OBVIOUS
  <2>1. CASE Next
    BY <2>1, LoadKept DEF Next
  <2>2. CASE UNCHANGED vars
    BY <2>2 DEF vars, LoadInv, LoadTypes, HasFile, HasLoaded
  <2> QED BY <2>1, <2>2
<1> QED BY <1>1, InitLoads, ServeInvHolds, PTL DEF Spec

(* Any well-formed file is loaded as YAML means it: a value gets to the        *)
(* option of its path, a list replaces the default one, of several lines for  *)
(* an option the last counts, and what no line says keeps its default.      *)
THEOREM LoadedAsWrittenAlways == Spec => []LoadedAsWritten
<1>1. LoadInv => LoadedAsWritten
  BY LoadIsMeaning, DefaultsAre DEF LoadInv, HasLoaded, IsKept, LoadedAsWritten, JustLoaded
<1> QED BY <1>1, LoadInvHolds, PTL

-----------------------------------------------------------------------------
(* What a file with items that can be spelled means can be spelled.         *)
LEMMA ItemsSpelled ==
  ASSUME NEW f, IsKept(f), WellFormed(f), NEW i \in Lines(f), Path(f, i) \in ListKeys
  PROVE  ItemsOf(f, i) \in Seq(DOMAIN Spelling)
<1> DEFINE D == DOMAIN Spelling
           T == { n \in Nat : n <= Len(f) => Upto(f, i)[n] \in Seq(D) }
<1>1. IsFile(f) /\ Len(f) \in Nat /\ i # 0
  BY LinesAre DEF IsKept
<1>2. 0 \in T
  <2>1. <<>> \in Seq(D)
    OBVIOUS
  <2> QED BY <1>1, <2>1, UptoIs
<1>3. ASSUME NEW n \in Nat, n \in T
      PROVE  n + 1 \in T
  <2> SUFFICES ASSUME n + 1 <= Len(f) PROVE Upto(f, i)[n + 1] \in Seq(D)
    OBVIOUS
  <2> DEFINE s == Upto(f, i)[n]  m == n + 1
  <2>1. n <= Len(f)
    BY <1>1
  <2>2. s \in Seq(D)
    BY <1>3, <2>1
  <2>3. Upto(f, i)[m] = IF m \in Lines(f) /\ Parent(f, m) = i /\ f[m].value # ""
                        THEN Append(s, f[m].value) ELSE s
    BY <1>1, UptoIs
  <2>4. ASSUME m \in Lines(f), Parent(f, m) = i, f[m].value # ""
        PROVE  f[m].value \in D
    <3> HIDE DEF m, D
    <3>1. WellFormedLine(f, m) /\ m \in DOMAIN f
      BY <2>4 DEF WellFormed, Lines
    <3>2. f[m].key = ItemKey /\ f[m].value # None
      BY <1>1, <2>4, <3>1 DEF WellFormedLine
    <3>3. f[m].value \in DOMAIN Spelling \cup {"", None}
      BY <3>1, <3>2 DEF IsKept, Spelled
    <3> QED BY <2>4, <3>2, <3>3 DEF D
  <2> DEFINE t == Upto(f, i)[m]  v == f[m].value
  <2> HIDE DEF m, s, t, v, D
  <2>6. \A w \in D : Append(s, w) \in Seq(D)
    BY <2>2
  <2>7. t = s \/ (v \in D /\ t = Append(s, v))
    BY <2>3, <2>4 DEF t, v
  <2>5. Upto(f, i)[m] \in Seq(D)
    BY <2>2, <2>6, <2>7 DEF t
  <2> QED BY <2>5 DEF m
<1>4. Nat \subseteq T
  <2> HIDE DEF T
  <2> QED BY <1>2, <1>3, ByInduction
<1>5. Len(f) \in T /\ Len(f) <= Len(f)
  <2> HIDE DEF T
  <2> QED BY <1>1, <1>4
<1>6. ItemsOf(f, i) = Upto(f, i)[Len(f)]
  BY <1>1, UptoIs, Zenon
<1> QED BY <1>5, <1>6

(* The one line that sets the triggers has their name.                      *)
LEMMA TriggersSetBy ==
  ASSUME NEW f, NEW i \in Setters(f, "native_kws_triggers")
  PROVE  /\ i \in Lines(f) /\ i \in DOMAIN f
         /\ f[i].value # None => f[i].key = "native_kws_triggers"
         /\ f[i].value = None => Path(f, i) \in ListKeys
<1> DEFINE k == Path(f, i)
<1>1. /\ i \in Lines(f) /\ k \in DOMAIN OptionOf /\ OptionOf[k] = "native_kws_triggers"
      /\ f[i].value # None \/ k \in ListKeys
  BY DEF Setters
<1>2. k[Len(k)] = f[i].key
  BY DEF Path
<1>3. k \in Keys
  BY <1>1 DEF OptionOf
<1> HIDE DEF k
<1>4. k[Len(k)] = "native_kws_triggers"
  BY <1>1, <1>3 DEF OptionOf
<1> QED BY <1>1, <1>2, <1>4 DEF k, Lines

LEMMA MeaningSpelled ==
  ASSUME NEW d, d.native_kws_triggers \in Seq(DOMAIN Spelling),
         NEW f, IsKept(f), WellFormed(f)
  PROVE  Meaning(d, f).native_kws_triggers \in Seq(DOMAIN Spelling)
<1> DEFINE o == "native_kws_triggers"  S == Setters(f, o)  D == DOMAIN Spelling  i == Max(S)
<1>1. o \in Options
  BY OptionsAre DEF OptionNames
<1>2. Meaning(d, f)[o] =
        IF S = {} THEN d[o]
        ELSE IF f[i].value = None THEN ItemsOf(f, i) ELSE Converted(o, f[i].value)
  BY <1>1 DEF Meaning
<1>3. ASSUME S # {}
      PROVE  /\ f[i].value = None => ItemsOf(f, i) \in Seq(D)
             /\ f[i].value # None => Converted(o, f[i].value) \in Seq(D)
  <2>1. Len(f) \in Nat /\ S \in SUBSET (0 .. Len(f))
    BY LinesAre DEF IsKept, Setters
  <2>2. i \in S
    <3> HIDE DEF S
    <3> QED BY <1>3, <2>1, MaxThere
  <2>3. /\ i \in Lines(f) /\ i \in DOMAIN f
        /\ f[i].value # None => f[i].key = o
        /\ f[i].value = None => Path(f, i) \in ListKeys
    BY <2>2, TriggersSetBy
  <2> HIDE DEF i, S
  <2>4. f[i].value = None => ItemsOf(f, i) \in Seq(D)
    BY <2>3, ItemsSpelled
  <2>5. ASSUME f[i].value # None
        PROVE  Converted(o, f[i].value) \in Seq(D)
    <3>1. f[i].value \in D \cup {""}
      BY <2>3, <2>5 DEF IsKept, Spelled
    <3>2. \A v \in D \cup {""} : Converted(o, v) = IF v = "" THEN <<>> ELSE <<v>>
      BY DEF Converted, Lists
    <3> HIDE DEF D, o
    <3>3. \A v \in D : <<v>> \in Seq(D)
      OBVIOUS
    <3>4. <<>> \in Seq(D)
      OBVIOUS
    <3> QED BY <3>1, <3>2, <3>3, <3>4
  <2> QED BY <2>4, <2>5
<1> HIDE DEF S, D, i
<1>5. d[o] \in Seq(D)
  BY DEF D
<1>6. Meaning(d, f)[o] \in Seq(D)
  BY <1>2, <1>3, <1>5
<1> QED BY <1>6 DEF D

(* What the device hears is a wake-up when the file says so: for any file     *)
(* that is well-formed, any characters of any alphabet in UTF-8 and any text *)
(* of them, bytes are compared as characters would be.                     *)
THEOREM HeardAsConfiguredAlways == Spec => []HeardAsConfigured
<1>1. LoadInv => HeardAsConfigured
  <2> SUFFICES ASSUME LoadInv, NEW p \in Proc, JustLoaded(p), WellFormed(read[p]),
                      NEW chars \in Heard, NEW final \in BOOLEAN
               PROVE  LET spelled(items) == [i \in DOMAIN items |-> Spelling[items[i]]]
                          asked == spelled(Meaning(DefaultOptions(pid[p]), read[p]).native_kws_triggers)
                          loaded == spelled(options[p].native_kws_triggers)
                          triggers == NativeKwsTriggers([i \in DOMAIN loaded |-> Encoded(loaded[i])])
                      IN  Handle(triggers, [text |-> Encoded(chars), final |-> final,
                                            vad_begin |-> FALSE])
                            = Wanted(asked, chars, final)
    BY DEF HeardAsConfigured
  <2> DEFINE d == DefaultOptions(pid[p])  f == read[p]
             items == Meaning(d, f).native_kws_triggers
             asked == [i \in DOMAIN items |-> Spelling[items[i]]]
  <2>1. IsKept(f) /\ options[p] = Load(d, f)
    BY DEF LoadInv, HasLoaded, JustLoaded
  <2>2. options[p] = Meaning(d, f)
    <3>1. d = [o \in Options |-> d[o]]
      BY DefaultsAre
    <3> HIDE DEF d, f
    <3>2. IsFile(f) /\ WellFormed(f)
      BY <2>1 DEF IsKept, f
    <3>3. Load(d, f) = Meaning(d, f)
      BY <3>1, <3>2, LoadIsMeaning
    <3> QED BY <2>1, <3>3
  <2>3. d.native_kws_triggers \in Seq(DOMAIN Spelling)
    <3>1. d.native_kws_triggers = <<"c", "d">>
      BY DEF DefaultOptions
    <3>2. "c" \in DOMAIN Spelling /\ "d" \in DOMAIN Spelling
      BY SpellingAssumption
    <3> QED BY <3>1, <3>2
  <2>4. items \in Seq(DOMAIN Spelling)
    <3> HIDE DEF d, f
    <3> QED BY <2>1, <2>3, MeaningSpelled DEF f
  <2> HIDE DEF items
  <2>5. asked \in Seq(Seq(Char))
    <3>1. /\ DOMAIN items = 1 .. Len(items) /\ Len(items) \in Nat
          /\ \A i \in 1 .. Len(items) : items[i] \in DOMAIN Spelling
      BY <2>4
    <3>2. \A i \in 1 .. Len(items) : Spelling[items[i]] \in Seq(Char)
      BY <3>1, SpellingAssumption DEF Char
    <3> QED BY <3>1, <3>2
  <2>6. chars \in Seq(Char) /\ chars # <<>>
    BY HeardAssumption DEF Char
  <2> DEFINE triggers == NativeKwsTriggers([i \in DOMAIN asked |-> Encoded(asked[i])])
  <2>7. Handle(triggers, [text |-> Encoded(chars), final |-> final, vad_begin |-> FALSE])
          = Wanted(asked, chars, final)
    <3> HIDE DEF asked
    <3> QED BY <2>5, <2>6, HandledAsWanted
  <2>8. options[p].native_kws_triggers = items
    BY <2>2 DEF items
  <2> HIDE DEF d, f
  <2> QED BY <2>7, <2>8, Zenon DEF items, d, f
<1> QED BY <1>1, LoadInvHolds, PTL

=============================================================================
