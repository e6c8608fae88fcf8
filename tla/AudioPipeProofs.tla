-------------------------- MODULE AudioPipeProofs ---------------------------
(***************************************************************************)
(* AudioPipe for every limit, every chunk size and every number of chunks:  *)
(* the account of the packets and bytes, both limits, and the order in      *)
(* which the packets leave.                                                *)
(***************************************************************************)
EXTENDS AudioPipe, TLAPS, WellFoundedInduction

-----------------------------------------------------------------------------
(* The bytes of a queue.  BytesIn is recursive: that its recursion has a    *)
(* solution, and only one, is shown by induction over the length, and       *)
(* induction by the well-foundedness of the natural numbers.               *)

(* A set with 0 that contains with a number the next one has them all.      *)
LEMMA ByInduction ==
  ASSUME NEW T, 0 \in T, \A n \in Nat : n \in T => n + 1 \in T
  PROVE  Nat \subseteq T
<1> SUFFICES ASSUME Nat \ T # {} PROVE FALSE
  OBVIOUS
<1>1. PICK d \in Nat \ T : \A e \in Nat \ T : <<e, d>> \notin OpToRel(<, Nat)
  <2>1. Nat \ T \subseteq Nat
    OBVIOUS
  <2> QED BY <2>1, NatLessThanWellFounded, WFMin
<1>2. \A e \in Nat \ T : ~(e < d)
  BY <1>1, Zenon DEF OpToRel
<1>3. d # 0 /\ d - 1 \in Nat /\ d - 1 < d /\ (d - 1) + 1 = d
  OBVIOUS
<1>4. d - 1 \in T
  BY <1>2, <1>3
<1>5. d \in T
  BY <1>3, <1>4
<1> QED BY <1>1, <1>5

(* f gives the sizes of the first n packets of q, for every n.              *)
Sums(q, f) ==
  f = [n \in 0 .. Len(q) |-> IF n = 0 THEN 0 ELSE f[n - 1] + q[n].size]

(* The sizes are numbers. *)
LEMMA SizesOf ==
  ASSUME NEW q \in Seq(Packet)
  PROVE  Len(q) \in Nat /\ \A n \in 1 .. Len(q) : q[n].size \in Nat
<1>1. \A n \in 1 .. Len(q) : q[n] \in Packet
  OBVIOUS
<1> QED BY <1>1 DEF Packet

(* There are such sums... *)
LEMMA SumsExist ==
  ASSUME NEW q \in Seq(Packet)
  PROVE  \E f : Sums(q, f)
<1> DEFINE Upto(n, f) == f = [i \in 0 .. n |-> IF i = 0 THEN 0 ELSE f[i - 1] + q[i].size]
           T == { n \in Nat : \E f : Upto(n, f) }
<1>1. 0 \in T
  <2>1. Upto(0, [i \in 0 .. 0 |-> 0])
    OBVIOUS
  <2> QED BY <2>1
<1>2. ASSUME NEW n \in Nat, n \in T
      PROVE  n + 1 \in T
  <2>1. PICK f : Upto(n, f)
    BY <1>2
  <2> DEFINE g == [i \in 0 .. n + 1 |-> IF i = n + 1 THEN f[n] + q[i].size ELSE f[i]]
             h == [i \in 0 .. n + 1 |-> IF i = 0 THEN 0 ELSE g[i - 1] + q[i].size]
  <2>2. ASSUME NEW i \in 0 .. n + 1
        PROVE  g[i] = h[i]
    <3>1. CASE i = 0
      <4>1. f[0] = 0
        BY <2>1
      <4> QED BY <3>1, <4>1
    <3>2. CASE i \in 1 .. n
      <4>1. i \in 0 .. n /\ i # 0 /\ i # n + 1 /\ i - 1 \in 0 .. n + 1 /\ i - 1 # n + 1
        BY <3>2
      <4>2. f[i] = f[i - 1] + q[i].size
        BY <2>1, <4>1
      <4>3. g[i] = f[i] /\ g[i - 1] = f[i - 1]
        BY <4>1
      <4>4. h[i] = g[i - 1] + q[i].size
        BY <4>1
      <4> QED BY <4>2, <4>3, <4>4
    <3>3. CASE i = n + 1
      <4>1. i # 0 /\ i - 1 = n /\ n \in 0 .. n + 1 /\ n # n + 1
        BY <3>3
      <4>2. g[i] = f[n] + q[i].size /\ g[n] = f[n]
        BY <3>3, <4>1
      <4> QED BY <4>1, <4>2
    <3> QED BY <3>1, <3>2, <3>3
  <2>3. g = h
    BY <2>2
  <2>4. Upto(n + 1, g)
    BY <2>3
  <2> HIDE DEF Upto, g
  <2>5. \E e : Upto(n + 1, e)
    BY <2>4
  <2> QED BY <2>5
<1> HIDE DEF T
<1>3. Nat \subseteq T
  BY <1>1, <1>2, ByInduction
<1>4. Len(q) \in T
  BY <1>3, SizesOf
<1> QED BY <1>4 DEF Sums, T

(* ...and they are the only ones. *)
LEMMA SumsUnique ==
  ASSUME NEW q \in Seq(Packet), NEW f, NEW g, Sums(q, f),
         g \in [0 .. Len(q) -> Int], g[0] = 0,
         \A n \in 1 .. Len(q) : g[n] = g[n - 1] + q[n].size
  PROVE  f[Len(q)] = g[Len(q)]
<1> DEFINE T == { n \in Nat : n <= Len(q) => f[n] = g[n] }
<1>1. Len(q) \in Nat
  BY SizesOf
<1>2. f[0] = 0 /\ \A n \in 1 .. Len(q) : f[n] = f[n - 1] + q[n].size
  BY <1>1 DEF Sums
<1>3. 0 \in T
  BY <1>2
<1>4. ASSUME NEW n \in Nat, n \in T
      PROVE  n + 1 \in T
  <2> SUFFICES ASSUME n + 1 <= Len(q) PROVE f[n + 1] = g[n + 1]
    OBVIOUS
  <2>1. n + 1 \in 1 .. Len(q) /\ (n + 1) - 1 = n /\ n <= Len(q)
    BY <1>1
  <2>2. f[n] = g[n]
    BY <1>4, <2>1
  <2>3. f[n + 1] = f[n] + q[n + 1].size /\ g[n + 1] = g[n] + q[n + 1].size
    BY <1>2, <2>1
  <2> QED BY <2>2, <2>3
<1> HIDE DEF T
<1>5. Nat \subseteq T
  BY <1>3, <1>4, ByInduction
<1> QED BY <1>1, <1>5 DEF T

(* Whoever adds up the sizes one by one gets BytesIn. *)
LEMMA BytesInIs ==
  ASSUME NEW q \in Seq(Packet), NEW g \in [0 .. Len(q) -> Int], g[0] = 0,
         \A n \in 1 .. Len(q) : g[n] = g[n - 1] + q[n].size
  PROVE  BytesIn(q) = g[Len(q)]
<1> DEFINE s == CHOOSE f : Sums(q, f)
<1>1. BytesIn(q) = s[Len(q)]
  BY Zenon DEF BytesIn, Sums
<1>2. Sums(q, s)
  BY SumsExist
<1> HIDE DEF s
<1> QED BY <1>1, <1>2, SumsUnique

(* The numbers of the sums themselves. *)
LEMMA BytesInSums ==
  ASSUME NEW q \in Seq(Packet)
  PROVE  \E g \in [0 .. Len(q) -> Nat] :
           /\ g[0] = 0 /\ \A n \in 1 .. Len(q) : g[n] = g[n - 1] + q[n].size
           /\ BytesIn(q) = g[Len(q)]
<1>1. PICK f : Sums(q, f)
  BY SumsExist
<1>2. Len(q) \in Nat /\ \A n \in 1 .. Len(q) : q[n].size \in Nat
  BY SizesOf
<1>3. f[0] = 0 /\ \A n \in 1 .. Len(q) : f[n] = f[n - 1] + q[n].size
  BY <1>1, <1>2 DEF Sums
<1> DEFINE T == { n \in Nat : n <= Len(q) => f[n] \in Nat }
<1>4. 0 \in T
  BY <1>3
<1>5. ASSUME NEW n \in Nat, n \in T
      PROVE  n + 1 \in T
  <2> SUFFICES ASSUME n + 1 <= Len(q) PROVE f[n + 1] \in Nat
    OBVIOUS
  <2>1. n + 1 \in 1 .. Len(q) /\ (n + 1) - 1 = n /\ n <= Len(q)
    BY <1>2
  <2>2. f[n] \in Nat /\ q[n + 1].size \in Nat
    BY <1>2, <1>5, <2>1
  <2>3. f[n + 1] = f[n] + q[n + 1].size
    BY <1>3, <2>1
  <2> QED BY <2>2, <2>3
<1> HIDE DEF T
<1>6. Nat \subseteq T
  BY <1>4, <1>5, ByInduction
<1>7. \A n \in 0 .. Len(q) : f[n] \in Nat
  BY <1>2, <1>6 DEF T
<1>8. DOMAIN f = 0 .. Len(q) /\ f = [n \in 0 .. Len(q) |-> f[n]]
  BY <1>1 DEF Sums
<1>9. f \in [0 .. Len(q) -> Nat] /\ f \in [0 .. Len(q) -> Int]
  BY <1>7, <1>8
<1>10. BytesIn(q) = f[Len(q)]
  BY <1>3, <1>9, BytesInIs
<1> QED BY <1>3, <1>9, <1>10

(* A queue without packets has no bytes. *)
LEMMA BytesOfNone == BytesIn(<<>>) = 0
<1>1. <<>> \in Seq(Packet) /\ Len(<<>>) = 0
  OBVIOUS
<1>2. PICK g \in [0 .. Len(<<>>) -> Nat] : g[0] = 0 /\ BytesIn(<<>>) = g[Len(<<>>)]
  BY <1>1, BytesInSums
<1> QED BY <1>1, <1>2

(* The newest packet brings its bytes. *)
LEMMA BytesOfAppend ==
  ASSUME NEW q \in Seq(Packet), NEW p \in Packet
  PROVE  BytesIn(Append(q, p)) = BytesIn(q) + p.size
<1>1. PICK g \in [0 .. Len(q) -> Nat] :
        /\ g[0] = 0 /\ \A n \in 1 .. Len(q) : g[n] = g[n - 1] + q[n].size
        /\ BytesIn(q) = g[Len(q)]
  BY BytesInSums
<1> DEFINE r == Append(q, p)
           h == [n \in 0 .. Len(r) |-> IF n = Len(r) THEN g[Len(q)] + p.size ELSE g[n]]
<1>2. /\ r \in Seq(Packet) /\ Len(q) \in Nat /\ Len(r) = Len(q) + 1
      /\ r[Len(r)] = p /\ \A n \in 1 .. Len(q) : r[n] = q[n]
  OBVIOUS
<1>3. p.size \in Nat
  BY DEF Packet
<1> HIDE DEF r
<1>4. h \in [0 .. Len(r) -> Int] /\ h[0] = 0 /\ h[Len(r)] = g[Len(q)] + p.size
  BY <1>1, <1>2, <1>3
<1>5. ASSUME NEW n \in 1 .. Len(r)
      PROVE  h[n] = h[n - 1] + r[n].size
  <2>1. CASE n = Len(r)
    <3>1. n - 1 = Len(q) /\ n - 1 \in 0 .. Len(r) /\ n - 1 # Len(r)
      BY <1>2, <2>1
    <3>2. h[n - 1] = g[Len(q)]
      BY <3>1
    <3> QED BY <1>2, <1>4, <2>1, <3>2
  <2>2. CASE n # Len(r)
    <3>1. /\ n \in 1 .. Len(q) /\ n \in 0 .. Len(r) /\ n - 1 \in 0 .. Len(r)
          /\ n - 1 # Len(r)
      BY <1>2, <2>2
    <3>2. h[n] = g[n] /\ h[n - 1] = g[n - 1]
      BY <2>2, <3>1
    <3> QED BY <1>1, <1>2, <3>1, <3>2
  <2> QED BY <2>1, <2>2
<1> HIDE DEF h
<1>6. BytesIn(r) = h[Len(r)]
  BY <1>2, <1>4, <1>5, BytesInIs
<1> QED BY <1>1, <1>4, <1>6 DEF r

(* The oldest packet takes its bytes along. *)
LEMMA BytesOfTail ==
  ASSUME NEW q \in Seq(Packet), q # <<>>
  PROVE  BytesIn(Tail(q)) = BytesIn(q) - Head(q).size
<1>1. PICK g \in [0 .. Len(q) -> Nat] :
        /\ g[0] = 0 /\ \A n \in 1 .. Len(q) : g[n] = g[n - 1] + q[n].size
        /\ BytesIn(q) = g[Len(q)]
  BY BytesInSums
<1> DEFINE r == Tail(q)
           h == [n \in 0 .. Len(r) |-> g[n + 1] - Head(q).size]
<1>2. /\ r \in Seq(Packet) /\ Len(q) \in Nat \ {0} /\ Len(r) = Len(q) - 1
      /\ Head(q) = q[1] /\ Head(q) \in Packet
      /\ \A n \in 1 .. Len(r) : r[n] = q[n + 1]
  OBVIOUS
<1>3. Head(q).size \in Nat
  BY <1>2 DEF Packet
<1> HIDE DEF r
<1>4. g[1] = Head(q).size
  <2>1. 1 \in 1 .. Len(q) /\ 1 - 1 = 0
    BY <1>2
  <2>2. g[1] = g[0] + q[1].size
    BY <1>1, <2>1
  <2> QED BY <1>1, <1>2, <1>3, <2>2
<1>5. \A n \in 0 .. Len(r) : n + 1 \in 0 .. Len(q) /\ g[n + 1] \in Nat
  BY <1>2
<1>6. h \in [0 .. Len(r) -> Int] /\ h[0] = 0
  <2>1. h[0] = g[1] - Head(q).size
    BY <1>2
  <2> QED BY <1>3, <1>4, <1>5, <2>1
<1>7. ASSUME NEW n \in 1 .. Len(r)
      PROVE  h[n] = h[n - 1] + r[n].size
  <2>1. /\ n + 1 \in 1 .. Len(q) /\ (n + 1) - 1 = n /\ (n - 1) + 1 = n
        /\ n \in 0 .. Len(r) /\ n - 1 \in 0 .. Len(r)
    BY <1>2
  <2>2. g[n + 1] = g[n] + q[n + 1].size
    BY <1>1, <2>1
  <2>3. h[n] = g[n + 1] - Head(q).size /\ h[n - 1] = g[n] - Head(q).size
    BY <2>1
  <2>4. g[n] \in Nat /\ q[n + 1].size \in Nat /\ r[n] = q[n + 1]
    BY <1>2, <2>1, SizesOf
  <2> QED BY <1>3, <2>2, <2>3, <2>4
<1>8. h[Len(r)] = g[Len(q)] - Head(q).size
  BY <1>2
<1> HIDE DEF h
<1>9. BytesIn(r) = h[Len(r)]
  BY <1>2, <1>6, <1>7, BytesInIs
<1> QED BY <1>1, <1>8, <1>9 DEF r

-----------------------------------------------------------------------------
(* The invariant. *)


(* Push holds a chunk exactly while it holds the lock, and it is the newest. *)
ChunkOK ==
  /\ holder # "push" => chunk = NoChunk
  /\ holder = "push" => chunk.id = received

Arrived ==
  /\ gone <= received
  /\ \A i \in 1 .. Len(queue) :
       queue[i].id <= received /\ (holder = "push" => queue[i].id < chunk.id)
  /\ holder = "push" => gone < chunk.id

(* The account that the byte limit is checked against is exact.             *)
BytesExact == queuedBytes = BytesIn(queue) /\ queuedBytes <= MaxBytes

IInv ==
  /\ TypeOK /\ Accounted /\ CountWithinLimit /\ OldestLeavesFirst
  /\ ChunkOK /\ Arrived /\ BytesExact

(* What the head and the tail of a queue of packets are.                    *)
LEMMA TailOfQueue ==
  ASSUME NEW q \in Seq(Packet), q # <<>>
  PROVE  /\ Head(q) \in Packet /\ Head(q) = q[1]
         /\ Tail(q) \in Seq(Packet) /\ Len(Tail(q)) = Len(q) - 1
         /\ Len(q) \in Nat \ {0}
         /\ \A i \in 1 .. Len(Tail(q)) : Tail(q)[i] = q[i + 1] /\ i + 1 \in 1 .. Len(q)
  OBVIOUS

(* The numbers behind the types. *)
LEMMA Numbers ==
  ASSUME TypeOK
  PROVE  /\ received \in Nat /\ dropped \in Nat /\ receivedBytes \in Nat
         /\ droppedBytes \in Nat /\ queuedBytes \in Int
         /\ outPackets \in Nat /\ outBytes \in Nat /\ gone \in Nat
         /\ Len(queue) \in Nat
         /\ chunk.id \in Nat /\ chunk.size \in Nat
<1>1. queue \in Seq(Packet) /\ chunk \in Packet
  BY DEF TypeOK
<1>2. Len(queue) \in Nat
  BY <1>1
<1>3. chunk.id \in Nat /\ chunk.size \in Nat
  BY <1>1 DEF Packet
<1> QED BY <1>2, <1>3 DEF TypeOK

LEMMA Ids ==
  ASSUME TypeOK
  PROVE  \A i \in 1 .. Len(queue) : queue[i].id \in Nat
<1>1. queue \in Seq(Packet)
  BY DEF TypeOK
<1>2. \A i \in 1 .. Len(queue) : queue[i] \in Packet
  BY <1>1
<1>3. \A p \in Packet : p.id \in Nat
  BY DEF Packet
<1> QED BY <1>2, <1>3

LEMMA InitEstablishes == Init => IInv
<1> SUFFICES ASSUME Init PROVE IInv
  OBVIOUS
<1>1. queue \in Seq(Packet) /\ chunk \in Packet
  BY DEF Init, NoChunk, Packet
<1>2. running \in BOOLEAN /\ ring \in BOOLEAN
  BY DEF Init
<1>3. /\ received \in Nat /\ dropped \in Nat
      /\ receivedBytes \in Nat /\ droppedBytes \in Nat /\ queuedBytes \in Int
      /\ outPackets \in Nat /\ outBytes \in Nat /\ gone \in Nat
  BY DEF Init
<1>4. holder \in {"free", "push", "stop", "clear"} /\ popper \in {"idle", "check", "asleep"}
  BY DEF Init
<1>5. TypeOK
  BY <1>1, <1>2, <1>3, <1>4 DEF TypeOK
<1>6. Len(queue) = 0 /\ chunk.size = 0
  BY DEF Init, NoChunk
<1>7. Accounted /\ CountWithinLimit
  BY <1>6, LimitsAssumption DEF Init, Accounted, CountWithinLimit, Placing
<1>8. OldestLeavesFirst /\ ChunkOK /\ Arrived
  BY <1>6 DEF Init, OldestLeavesFirst, ChunkOK, Arrived
<1>9. BytesExact
  BY BytesOfNone, LimitsAssumption DEF Init, BytesExact
<1> QED BY <1>5, <1>7, <1>8, <1>9 DEF IInv

(* What an oldest packet that leaves the queue does to the order. *)
LEMMA TakeOldestKeeps ==
  ASSUME IInv, TakeOldest, UNCHANGED <<received, chunk, holder>>
  PROVE  /\ Head(queue).size \in Nat /\ Head(queue).id \in Nat
         /\ queue' \in Seq(Packet) /\ Len(queue') = Len(queue) - 1
         /\ queuedBytes' = queuedBytes - Head(queue).size
         /\ gone' = Head(queue).id
         /\ CountWithinLimit' /\ OldestLeavesFirst' /\ ChunkOK' /\ Arrived'
         /\ BytesExact'
<1>1. /\ TypeOK /\ CountWithinLimit /\ OldestLeavesFirst /\ ChunkOK /\ Arrived
      /\ BytesExact
  BY DEF IInv
<1>2. /\ Head(queue) \in Packet /\ Head(queue) = queue[1]
      /\ Tail(queue) \in Seq(Packet) /\ Len(Tail(queue)) = Len(queue) - 1
      /\ Len(queue) \in Nat \ {0}
      /\ \A i \in 1 .. Len(Tail(queue)) :
           Tail(queue)[i] = queue[i + 1] /\ i + 1 \in 1 .. Len(queue)
  BY <1>1, TailOfQueue DEF TypeOK, TakeOldest
<1>3. Head(queue).size \in Nat /\ Head(queue).id \in Nat
  BY <1>2 DEF Packet
<1>4. /\ queue' = Tail(queue) /\ gone' = Head(queue).id
      /\ queuedBytes' = queuedBytes - Head(queue).size
  BY DEF TakeOldest
<1>5. CountWithinLimit'
  BY <1>1, <1>2, <1>4, LimitsAssumption DEF CountWithinLimit
<1>6. OldestLeavesFirst'
  BY <1>1, <1>2, <1>4 DEF OldestLeavesFirst
<1>7. ChunkOK'
  BY <1>1 DEF ChunkOK
<1>8. Arrived'
  <2>1. gone' <= received'
    BY <1>1, <1>2, <1>4 DEF Arrived
  <2>2. holder' = "push" => gone' < chunk'.id
    BY <1>1, <1>2, <1>4 DEF Arrived
  <2>3. \A i \in 1 .. Len(queue') :
          queue'[i].id <= received' /\ (holder' = "push" => queue'[i].id < chunk'.id)
    BY <1>1, <1>2, <1>4 DEF Arrived
  <2> QED BY <2>1, <2>2, <2>3 DEF Arrived
<1>9. BytesExact'
  <2>1. BytesIn(Tail(queue)) = BytesIn(queue) - Head(queue).size
    BY <1>1, BytesOfTail DEF TypeOK, TakeOldest
  <2>2. queuedBytes \in Int /\ queuedBytes = BytesIn(queue) /\ queuedBytes <= MaxBytes
    BY <1>1 DEF TypeOK, BytesExact
  <2>3. queuedBytes' = BytesIn(queue') /\ queuedBytes' <= MaxBytes
    BY <1>3, <1>4, <2>1, <2>2, LimitsAssumption
  <2> QED BY <2>3 DEF BytesExact
<1> QED BY <1>2, <1>3, <1>4, <1>5, <1>6, <1>7, <1>8, <1>9

(* Dropping the oldest packet moves it from the queue to the dropped ones.   *)
LEMMA DropKeeps ==
  ASSUME IInv, DropOldestLocked,
         UNCHANGED <<running, received, receivedBytes, holder, chunk, ring, popper, out>>
  PROVE  IInv'
<1>1. TypeOK /\ Accounted
  BY DEF IInv
<1>2. /\ Head(queue).size \in Nat /\ Head(queue).id \in Nat
      /\ queue' \in Seq(Packet) /\ Len(queue') = Len(queue) - 1
      /\ queuedBytes' = queuedBytes - Head(queue).size
      /\ gone' = Head(queue).id
      /\ CountWithinLimit' /\ OldestLeavesFirst' /\ ChunkOK' /\ Arrived'
      /\ BytesExact'
  BY TakeOldestKeeps DEF DropOldestLocked
<1>3. dropped' = dropped + 1 /\ droppedBytes' = droppedBytes + Head(queue).size
  BY DEF DropOldestLocked, CountDrop
<1>4. outPackets' = outPackets /\ outBytes' = outBytes
  BY DEF out
<1>5. TypeOK'
  BY <1>1, <1>2, <1>3, <1>4 DEF TypeOK
<1>6. Accounted'
  <2>1. /\ received \in Nat /\ dropped \in Nat /\ receivedBytes \in Nat
        /\ droppedBytes \in Nat /\ queuedBytes \in Int
        /\ outPackets \in Nat /\ outBytes \in Nat
        /\ Len(queue) \in Nat /\ chunk.size \in Nat
    BY <1>1, Numbers
  <2>2. received' = dropped' + outPackets' + Len(queue') + Placing'
    BY <1>1, <1>2, <1>3, <1>4, <2>1 DEF Accounted, Placing
  <2>3. receivedBytes' = droppedBytes' + outBytes' + queuedBytes' + chunk'.size
    <3>1. receivedBytes = droppedBytes + outBytes + queuedBytes + chunk.size
      BY <1>1 DEF Accounted
    <3>2. receivedBytes' = receivedBytes /\ chunk'.size = chunk.size
      OBVIOUS
    <3>3. \A h \in Nat : receivedBytes
            = (droppedBytes + h) + outBytes + (queuedBytes - h) + chunk.size
      BY <2>1, <3>1
    <3> QED BY <1>2, <1>3, <1>4, <3>2, <3>3
  <2> QED BY <2>2, <2>3 DEF Accounted
<1> QED BY <1>2, <1>5, <1>6 DEF IInv

(* A new chunk is numbered after everything that has arrived before it. *)
LEMMA PushKeeps ==
  ASSUME IInv, NEW size \in Sizes, Push(size)
  PROVE  IInv'
<1>1. /\ TypeOK /\ Accounted /\ CountWithinLimit /\ OldestLeavesFirst /\ ChunkOK
      /\ Arrived /\ BytesExact
  BY DEF IInv
<1>2. size \in Nat
  BY LimitsAssumption
<1>3. /\ holder = "free" /\ chunk = NoChunk /\ chunk.size = 0
      /\ received' = received + 1 /\ receivedBytes' = receivedBytes + size
      /\ UNCHANGED <<queue, running, queuedBytes, ring, popper, outPackets, outBytes, gone>>
  BY <1>1 DEF Push, Unlocked, ChunkOK, NoChunk, out
<1>4. \/ /\ holder' = "push" /\ chunk' \in Packet
         /\ chunk'.id = received' /\ chunk'.size = size
         /\ UNCHANGED <<dropped, droppedBytes>>
      \/ /\ dropped' = dropped + 1 /\ droppedBytes' = droppedBytes + size
         /\ UNCHANGED <<holder, chunk>>
  BY <1>1, <1>2, <1>3, Numbers, SMTT(20) DEF Push, Packet, CountDrop
<1>5. TypeOK'
  BY <1>1, <1>2, <1>3, <1>4 DEF TypeOK
<1>6. Accounted'
  <2>1. /\ received \in Nat /\ dropped \in Nat /\ receivedBytes \in Nat
        /\ droppedBytes \in Nat /\ queuedBytes \in Int
        /\ outPackets \in Nat /\ outBytes \in Nat
        /\ Len(queue) \in Nat /\ chunk.size \in Nat
    BY <1>1, Numbers
  <2>2. received' = dropped' + outPackets' + Len(queue') + Placing'
    BY <1>1, <1>3, <1>4, <2>1 DEF Accounted, Placing
  <2>3. receivedBytes' = droppedBytes' + outBytes' + queuedBytes' + chunk'.size
    BY <1>1, <1>2, <1>3, <1>4, <2>1 DEF Accounted
  <2> QED BY <2>2, <2>3 DEF Accounted
<1>7. CountWithinLimit' /\ OldestLeavesFirst' /\ ChunkOK'
  BY <1>1, <1>3, <1>4 DEF CountWithinLimit, OldestLeavesFirst, ChunkOK
<1>8. Arrived'
  <2>1. received \in Nat /\ gone \in Nat /\ received' = received + 1
    BY <1>1, <1>3, Numbers
  <2>2. \A i \in 1 .. Len(queue) : queue[i].id \in Nat
    BY <1>1, Ids
  <2>3. holder' = "push" => chunk'.id = received'
    BY <1>3, <1>4
  <2>4. gone < received' /\ \A i \in 1 .. Len(queue) : queue[i].id < received'
    BY <1>1, <2>1, <2>2 DEF Arrived
  <2> QED BY <1>3, <2>1, <2>2, <2>3, <2>4 DEF Arrived
<1>9. BytesExact'
  BY <1>1, <1>3 DEF BytesExact
<1> QED BY <1>5, <1>6, <1>7, <1>8, <1>9 DEF IInv

(* The chunk goes behind everything that is queued. *)
LEMMA QueueKeeps ==
  ASSUME IInv, PushQueues
  PROVE  IInv'
<1>1. /\ TypeOK /\ Accounted /\ CountWithinLimit /\ OldestLeavesFirst /\ ChunkOK
      /\ Arrived /\ BytesExact
  BY DEF IInv
<1>2. /\ holder = "push" /\ holder' = "free" /\ chunk' = NoChunk /\ chunk' \in Packet
      /\ chunk'.size = 0 /\ ring' = TRUE /\ queuedBytes' = queuedBytes + chunk.size
      /\ UNCHANGED <<running, received, dropped, receivedBytes, droppedBytes, popper,
                     outPackets, outBytes, gone>>
  BY DEF PushQueues, NoChunk, Packet, out
<1>3. /\ queue' \in Seq(Packet) /\ Len(queue') = Len(queue) + 1
      /\ \A i \in 1 .. Len(queue') :
           \/ i \in 1 .. Len(queue) /\ queue'[i] = queue[i]
           \/ i = Len(queue) + 1 /\ queue'[i] = chunk
  <2>1. queue \in Seq(Packet) /\ chunk \in Packet /\ queue' = Append(queue, chunk)
    BY <1>1 DEF TypeOK, PushQueues
  <2> QED BY <2>1
<1>4. Len(queue) < MaxPackets
  <2>1. CASE queue = <<>>
    BY <2>1, LimitsAssumption
  <2>2. CASE queue # <<>>
    BY <1>1, <2>2, Numbers, LimitsAssumption DEF PushQueues, MustDrop
  <2> QED BY <2>1, <2>2
<1>5. TypeOK'
  BY <1>1, <1>2, <1>3, Numbers DEF TypeOK
<1>6. Accounted'
  <2>1. /\ received \in Nat /\ dropped \in Nat /\ receivedBytes \in Nat
        /\ droppedBytes \in Nat /\ queuedBytes \in Int
        /\ outPackets \in Nat /\ outBytes \in Nat
        /\ Len(queue) \in Nat /\ chunk.size \in Nat
    BY <1>1, Numbers
  <2>2. /\ received = dropped + outPackets + Len(queue) + 1
        /\ receivedBytes = droppedBytes + outBytes + queuedBytes + chunk.size
    BY <1>1, <1>2 DEF Accounted, Placing
  <2>3. Len(queue') = Len(queue) + 1 /\ Placing' = 0
    BY <1>2, <1>3 DEF Placing
  <2>4. /\ UNCHANGED <<received, dropped, receivedBytes, droppedBytes, outPackets,
                       outBytes>>
        /\ queuedBytes' = queuedBytes + chunk.size /\ chunk'.size = 0
    BY <1>2
  <2>5. received' = dropped' + outPackets' + Len(queue') + Placing'
    BY ONLY <2>1, <2>2, <2>3, <2>4
  <2>6. receivedBytes' = droppedBytes' + outBytes' + queuedBytes' + chunk'.size
    BY ONLY <2>1, <2>2, <2>4
  <2> QED BY <2>5, <2>6 DEF Accounted
<1>7. CountWithinLimit'
  BY <1>1, <1>3, <1>4, Numbers, LimitsAssumption DEF CountWithinLimit
<1>8. ChunkOK'
  BY <1>2 DEF ChunkOK
<1>9. \A i \in 1 .. Len(queue) : queue[i].id < chunk.id
  BY <1>1, <1>2 DEF Arrived
<1>10. OldestLeavesFirst'
  <2>1. \A i \in 1 .. Len(queue') : gone' < queue'[i].id
    BY <1>1, <1>2, <1>3 DEF OldestLeavesFirst, Arrived
  <2>2. ASSUME NEW i \in 1 .. Len(queue'), NEW j \in 1 .. Len(queue'), i < j
        PROVE  queue'[i].id < queue'[j].id
    <3>1. i \in 1 .. Len(queue) /\ queue'[i] = queue[i]
      BY <1>1, <1>3, <2>2, Numbers
    <3>2. CASE j \in 1 .. Len(queue) /\ queue'[j] = queue[j]
      BY <1>1, <2>2, <3>1, <3>2 DEF OldestLeavesFirst
    <3>3. CASE j = Len(queue) + 1 /\ queue'[j] = chunk
      BY <1>9, <3>1, <3>3
    <3> QED BY <1>3, <3>2, <3>3
  <2> QED BY <2>1, <2>2 DEF OldestLeavesFirst
<1>11. Arrived'
  BY <1>1, <1>2, <1>3, Numbers DEF Arrived, ChunkOK
<1>12. BytesExact'
  <2>1. queue' = Append(queue, chunk) /\ chunk.size \in Nat /\ queuedBytes \in Int
    BY <1>1, Numbers DEF PushQueues
  <2>2. BytesIn(queue') = BytesIn(queue) + chunk.size
    BY <1>1, <2>1, BytesOfAppend DEF TypeOK
  <2>3. queuedBytes = BytesIn(queue)
    BY <1>1 DEF BytesExact
  <2>4. queuedBytes + chunk.size <= MaxBytes
    <3>1. CASE queue = <<>>
      BY <2>1, <2>3, <3>1, BytesOfNone DEF PushQueues
    <3>2. CASE queue # <<>>
      BY <2>1, <3>2, LimitsAssumption DEF PushQueues, MustDrop
    <3> QED BY <3>1, <3>2
  <2> QED BY <1>2, <2>2, <2>3, <2>4 DEF BytesExact
<1> QED BY <1>5, <1>6, <1>7, <1>8, <1>10, <1>11, <1>12 DEF IInv

(* A chunk above the byte limit is refused; the queue has been emptied. *)
LEMMA TooLargeKeeps ==
  ASSUME IInv, PushTooLarge
  PROVE  IInv'
<1>1. /\ TypeOK /\ Accounted /\ CountWithinLimit /\ OldestLeavesFirst /\ ChunkOK
      /\ Arrived /\ BytesExact
  BY DEF IInv
<1>2. /\ holder = "push" /\ holder' = "free" /\ chunk' = NoChunk /\ chunk' \in Packet
      /\ chunk'.size = 0
      /\ dropped' = dropped + 1 /\ droppedBytes' = droppedBytes + chunk.size
      /\ UNCHANGED <<queue, running, received, receivedBytes, queuedBytes, ring,
                     popper, outPackets, outBytes, gone>>
  BY DEF PushTooLarge, CountDrop, NoChunk, Packet, out
<1>3. TypeOK'
  BY <1>1, <1>2, Numbers DEF TypeOK
<1>4. Accounted'
  <2>1. /\ received \in Nat /\ dropped \in Nat /\ receivedBytes \in Nat
        /\ droppedBytes \in Nat /\ queuedBytes \in Int
        /\ outPackets \in Nat /\ outBytes \in Nat
        /\ Len(queue) \in Nat /\ chunk.size \in Nat
    BY <1>1, Numbers
  <2>2. received' = dropped' + outPackets' + Len(queue') + Placing'
    BY <1>1, <1>2, <2>1 DEF Accounted, Placing
  <2>3. receivedBytes' = droppedBytes' + outBytes' + queuedBytes' + chunk'.size
    BY <1>1, <1>2, <2>1 DEF Accounted
  <2> QED BY <2>2, <2>3 DEF Accounted
<1>5. CountWithinLimit' /\ OldestLeavesFirst' /\ ChunkOK' /\ Arrived' /\ BytesExact'
  BY <1>1, <1>2 DEF CountWithinLimit, OldestLeavesFirst, ChunkOK, Arrived, BytesExact
<1> QED BY <1>3, <1>4, <1>5 DEF IInv

(* What Pop returns moves from the queue to the history. *)
LEMMA TakeKeeps ==
  ASSUME IInv, PopTakes
  PROVE  IInv'
<1>1. TypeOK /\ Accounted
  BY DEF IInv
<1>2. /\ Head(queue).size \in Nat /\ Head(queue).id \in Nat
      /\ queue' \in Seq(Packet) /\ Len(queue') = Len(queue) - 1
      /\ queuedBytes' = queuedBytes - Head(queue).size
      /\ gone' = Head(queue).id
      /\ CountWithinLimit' /\ OldestLeavesFirst' /\ ChunkOK' /\ Arrived'
      /\ BytesExact'
  BY TakeOldestKeeps DEF PopTakes
<1>3. /\ outPackets' = outPackets + 1 /\ outBytes' = outBytes + Head(queue).size
      /\ popper' = "idle"
      /\ UNCHANGED <<running, received, dropped, receivedBytes, droppedBytes, holder,
                     chunk, ring>>
  BY DEF PopTakes
<1>4. TypeOK'
  BY <1>1, <1>2, <1>3, Numbers DEF TypeOK
<1>5. Accounted'
  <2>1. /\ received \in Nat /\ dropped \in Nat /\ receivedBytes \in Nat
        /\ droppedBytes \in Nat /\ queuedBytes \in Int
        /\ outPackets \in Nat /\ outBytes \in Nat
        /\ Len(queue) \in Nat /\ chunk.size \in Nat
    BY <1>1, Numbers
  <2>2. received' = dropped' + outPackets' + Len(queue') + Placing'
    BY <1>1, <1>2, <1>3, <2>1 DEF Accounted, Placing
  <2>3. receivedBytes' = droppedBytes' + outBytes' + queuedBytes' + chunk'.size
    <3>1. receivedBytes = droppedBytes + outBytes + queuedBytes + chunk.size
      BY <1>1 DEF Accounted
    <3>2. receivedBytes' = receivedBytes /\ chunk'.size = chunk.size
      BY <1>3
    <3>3. \A h \in Nat : receivedBytes
            = droppedBytes + (outBytes + h) + (queuedBytes - h) + chunk.size
      BY <2>1, <3>1
    <3> QED BY <1>2, <1>3, <3>2, <3>3
  <2> QED BY <2>2, <2>3 DEF Accounted
<1> QED BY <1>2, <1>4, <1>5 DEF IInv

(* Steps that only move the lock and the two threads. *)
LEMMA ControlKeeps ==
  ASSUME IInv,
         Start \/ Stop \/ Clear \/ DrainDone \/ Notify \/ Pop \/ PopSleeps
           \/ PopReturnsNothing \/ UNCHANGED vars
  PROVE  IInv'
<1>1. /\ TypeOK /\ Accounted /\ CountWithinLimit /\ OldestLeavesFirst /\ ChunkOK
      /\ Arrived /\ BytesExact
  BY DEF IInv
<1>2. UNCHANGED <<queue, received, dropped, receivedBytes, droppedBytes, queuedBytes,
                  chunk, outPackets, outBytes, gone>>
  BY DEF Start, Stop, Clear, DrainDone, Notify, Pop, PopSleeps, PopReturnsNothing,
         vars, stats, out
<1>3. TypeOK'
  BY <1>1, <1>2
  DEF TypeOK, Start, Stop, Clear, DrainDone, Notify, Pop, PopSleeps,
      PopReturnsNothing, vars
<1>4. (holder = "push") <=> (holder' = "push")
  BY DEF Start, Stop, Clear, DrainDone, Notify, Pop, PopSleeps, PopReturnsNothing,
         vars, Unlocked
<1>5. Accounted' /\ CountWithinLimit'
  BY <1>1, <1>2, <1>4 DEF Accounted, CountWithinLimit, Placing
<1>6. OldestLeavesFirst' /\ ChunkOK' /\ Arrived' /\ BytesExact'
  BY <1>1, <1>2, <1>4 DEF OldestLeavesFirst, ChunkOK, Arrived, BytesExact
<1> QED BY <1>3, <1>5, <1>6 DEF IInv

(* Every step of the pipe keeps the invariant. *)
LEMMA NextKeeps == IInv /\ [Next]_vars => IInv'
<1> SUFFICES ASSUME IInv, [Next]_vars PROVE IInv'
  OBVIOUS
<1>1. CASE \E size \in Sizes : Push(size)
  BY <1>1, PushKeeps
<1>2. CASE DrainOne \/ PushDropsOldest
  BY <1>2, DropKeeps DEF DrainOne, PushDropsOldest
<1>3. CASE PushTooLarge
  BY <1>3, TooLargeKeeps
<1>4. CASE PushQueues
  BY <1>4, QueueKeeps
<1>5. CASE PopTakes
  BY <1>5, TakeKeeps
<1>6. CASE Start \/ Stop \/ Clear \/ DrainDone \/ Notify \/ Pop \/ PopSleeps
             \/ PopReturnsNothing \/ UNCHANGED vars
  BY <1>6, ControlKeeps
<1> QED
  BY <1>1, <1>2, <1>3, <1>4, <1>5, <1>6 DEF Next, PipeStep, PopStep

LEMMA InvariantHolds == Spec => []IInv
  BY InitEstablishes, NextKeeps, PTL DEF Spec

(* Every variable of the pipe stays within its type. *)
THEOREM TypeCorrect == Spec => []TypeOK
  BY InvariantHolds, PTL DEF IInv

(* No packet and no byte is lost or counted twice, whatever the interleaving *)
(* of Push, Pop, Stop and Clear (the statistics of AudioPipe).              *)
THEOREM AccountedAlways == Spec => []Accounted
  BY InvariantHolds, PTL DEF IInv

(* The queue never holds more than max_packets_ packets or max_bytes_ bytes,  *)
(* and the account that Push looks at is the sum of the sizes queued.       *)
THEOREM WithinLimitsAlways == Spec => []WithinLimits
<1>1. IInv => WithinLimits
  BY DEF IInv, BytesExact, WithinLimits
<1> QED BY <1>1, InvariantHolds, PTL

(* Packets leave in the order of their arrival, the oldest ones first, also   *)
(* when they are dropped.                                                  *)
THEOREM OldestLeavesFirstAlways == Spec => []OldestLeavesFirst
  BY InvariantHolds, PTL DEF IInv

=============================================================================
