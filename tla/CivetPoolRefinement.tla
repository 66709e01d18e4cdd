------------------------- MODULE CivetPoolRefinement -------------------------
(***************************************************************************)
(* The threads of a CivetWeb server implement ConnectionService, for every *)
(* number of worker threads, every size of the queue and any clients: the  *)
(* ring buffer is a queue, and a connection is in one place at a time.     *)
(***************************************************************************)
EXTENDS CivetPoolProofs, SequenceTheorems

(* A connection is with the master, waits or is with a worker, and in one  *)
(* of these places only.                                                   *)
ConnInv ==
  /\ mconn # NoClient <=> mpc \in {"produce", "waitEmpty"}
  /\ mconn # NoClient => mconn \in accepted
  /\ \A i \in 1 .. Filled : Waiting[i] \in accepted /\ Waiting[i] # mconn
  /\ \A i, j \in 1 .. Filled : Waiting[i] = Waiting[j] => i = j
  /\ \A w \in Workers : wconn[w] # NoClient =>
       /\ wconn[w] \in accepted /\ wconn[w] # mconn
       /\ wpc[w] \in {"return", "serve"}
       /\ \A i \in 1 .. Filled : Waiting[i] # wconn[w]
  /\ \A v, w \in Workers : (wconn[v] = wconn[w] /\ wconn[w] # NoClient) => v = w

(* An index into the ring buffer is wrapped at most once. *)
LEMMA Wrap ==
  ASSUME NEW x \in 0 .. (2 * SqSize - 1)
  PROVE  x % SqSize = IF x < SqSize THEN x ELSE x - SqSize
<1>1. SqSize \in Nat /\ SqSize > 0
  BY PoolAssumption
<1>2. CASE x < SqSize
  <2>1. x \div SqSize = 0 /\ x % SqSize = x
    BY <1>1, <1>2
  <2>2. QED
    BY <1>2, <2>1
<1>3. CASE x >= SqSize
  <2>1. PICK y \in Nat : y < SqSize /\ x = SqSize + y
    BY <1>1, <1>3
  <2>2. (SqSize + y) % SqSize = y
    BY <1>1, <2>1
  <2>3. QED
    BY <1>1, <1>3, <2>1, <2>2
<1>4. QED
  BY <1>1, <1>2, <1>3

(* A part of a ring buffer, from its tail, as a sequence. *)
Window(q, tail, n) == [i \in 1 .. n |-> q[(tail + i - 1) % SqSize]]

(* It has a connection for each place. *)
LEMMA WindowSeq ==
  ASSUME NEW q \in [Slots -> Clients \cup {NoClient}], NEW tail \in 0 .. SqSize, NEW n \in 0 .. SqSize
  PROVE  /\ Window(q, tail, n) \in Seq(Clients \cup {NoClient})
         /\ Len(Window(q, tail, n)) = n /\ DOMAIN Window(q, tail, n) = 1 .. n
         /\ \A i \in 1 .. n : Window(q, tail, n)[i] = q[(tail + i - 1) % SqSize]
<1>1. n \in Nat /\ tail \in Nat
  BY PoolAssumption
<1>2. \A i \in 1 .. n : q[(tail + i - 1) % SqSize] \in Clients \cup {NoClient}
  <2>1. SUFFICES ASSUME NEW i \in 1 .. n
                 PROVE  q[(tail + i - 1) % SqSize] \in Clients \cup {NoClient}
    OBVIOUS
  <2>2. tail + i - 1 \in Nat
    BY <1>1
  <2>3. QED
    BY <2>2, SlotIndex
<1>3. Window(q, tail, n) \in [1 .. n -> Clients \cup {NoClient}]
  BY <1>2 DEF Window
<1>4. Window(q, tail, n) \in Seq(Clients \cup {NoClient})
  BY <1>1, <1>3, SeqDef
<1>5. \A i \in 1 .. n : Window(q, tail, n)[i] = q[(tail + i - 1) % SqSize]
  BY DEF Window
<1>6. QED
  BY <1>1, <1>3, <1>4, <1>5, LenProperties

(* The connections that wait are such a sequence, before a step ... *)
LEMMA WaitingSeq ==
  ASSUME PoolTypeOK
  PROVE  /\ Waiting \in Seq(Clients \cup {NoClient}) /\ Len(Waiting) = Filled
         /\ Filled \in Nat /\ DOMAIN Waiting = 1 .. Filled
         /\ \A i \in 1 .. Filled : Waiting[i] = squeue[(sq_tail + i - 1) % SqSize]
<1>1. /\ squeue \in [Slots -> Clients \cup {NoClient}] /\ sq_tail \in 0 .. SqSize
      /\ Filled \in 0 .. SqSize /\ Filled \in Nat
  BY PoolAssumption DEF PoolTypeOK
<1>2. Waiting = Window(squeue, sq_tail, Filled)
  BY DEF Waiting, Window
<1>3. QED
  BY <1>1, <1>2, WindowSeq

(* ... and after it. *)
LEMMA WaitingSeqNext ==
  ASSUME PoolTypeOK'
  PROVE  /\ Waiting' \in Seq(Clients \cup {NoClient}) /\ Len(Waiting') = Filled'
         /\ Filled' \in Nat /\ DOMAIN Waiting' = 1 .. Filled'
         /\ \A i \in 1 .. Filled' : Waiting'[i] = squeue'[(sq_tail' + i - 1) % SqSize]
<1>1. /\ squeue' \in [Slots -> Clients \cup {NoClient}] /\ sq_tail' \in 0 .. SqSize
      /\ Filled' \in 0 .. SqSize /\ Filled' \in Nat
  BY PoolAssumption DEF PoolTypeOK
<1>2. Waiting' = Window(squeue', sq_tail', Filled')
  BY DEF Waiting, Window
<1>3. QED
  BY <1>1, <1>2, WindowSeq

(* A socket put into the ring buffer comes behind those that wait. *)
LEMMA RingFill ==
  ASSUME PoolTypeOK, PoolTypeOK', Filled < SqSize, NEW c \in Clients,
         squeue' = [squeue EXCEPT ![sq_head % SqSize] = c],
         sq_head' = sq_head + 1, sq_tail' = sq_tail
  PROVE  Waiting' = Append(Waiting, c) /\ Filled' = Filled + 1
<1>1. /\ SqSize \in Nat /\ SqSize > 0 /\ sq_tail \in Nat /\ sq_tail <= SqSize
      /\ Filled \in Nat /\ sq_head = sq_tail + Filled
  BY PoolAssumption DEF PoolTypeOK, Filled
<1>2. Filled' = Filled + 1
  BY <1>1 DEF PoolTypeOK, Filled
<1>3. \A i \in 1 .. Filled : (sq_tail + i - 1) % SqSize # sq_head % SqSize
  <2>1. SUFFICES ASSUME NEW i \in 1 .. Filled PROVE (sq_tail + i - 1) % SqSize # sq_head % SqSize
    OBVIOUS
  <2>2. PICK x \in 0 .. 2 * SqSize - 1 : x = sq_tail + i - 1
    BY <1>1
  <2>3. PICK y \in 0 .. 2 * SqSize - 1 : y = sq_head
    BY <1>1
  <2>4. x % SqSize = IF x < SqSize THEN x ELSE x - SqSize
    BY Wrap
  <2>5. y % SqSize = IF y < SqSize THEN y ELSE y - SqSize
    BY Wrap
  <2>6. x % SqSize # y % SqSize
    BY <1>1, <2>2, <2>3, <2>4, <2>5
  <2>7. QED
    BY <2>2, <2>3, <2>6
<1>4. /\ Waiting \in Seq(Clients \cup {NoClient}) /\ Len(Waiting) = Filled
      /\ \A i \in 1 .. Filled : Waiting[i] = squeue[(sq_tail + i - 1) % SqSize]
  BY WaitingSeq
<1>5. /\ Waiting' \in Seq(Clients \cup {NoClient}) /\ Len(Waiting') = Filled + 1
      /\ \A i \in 1 .. Filled + 1 : Waiting'[i] = squeue'[(sq_tail + i - 1) % SqSize]
  <2>1. /\ Waiting' \in Seq(Clients \cup {NoClient}) /\ Len(Waiting') = Filled'
        /\ \A i \in 1 .. Filled' : Waiting'[i] = squeue'[(sq_tail' + i - 1) % SqSize]
    BY WaitingSeqNext
  <2>2. QED
    BY <1>2, <2>1
<1>6. /\ Append(Waiting, c) \in Seq(Clients \cup {NoClient})
      /\ Len(Append(Waiting, c)) = Filled + 1
      /\ \A i \in 1 .. Filled : Append(Waiting, c)[i] = Waiting[i]
      /\ Append(Waiting, c)[Filled + 1] = c
  BY <1>4, AppendProperties
<1>7. \A i \in 1 .. Filled : Waiting'[i] = Waiting[i]
  <2>1. SUFFICES ASSUME NEW i \in 1 .. Filled PROVE Waiting'[i] = Waiting[i]
    OBVIOUS
  <2>2. i \in 1 .. Filled + 1 /\ sq_tail + i - 1 \in Nat
    BY <1>1
  <2>3. (sq_tail + i - 1) % SqSize \in Slots /\ (sq_tail + i - 1) % SqSize # sq_head % SqSize
    BY <1>3, <2>2, SlotIndex
  <2>4. squeue'[(sq_tail + i - 1) % SqSize] = squeue[(sq_tail + i - 1) % SqSize]
    BY <2>3 DEF PoolTypeOK
  <2>5. QED
    BY <1>4, <1>5, <2>2, <2>4
<1>8. Waiting'[Filled + 1] = c
  <2>1. Filled + 1 \in 1 .. Filled + 1 /\ sq_tail + (Filled + 1) - 1 = sq_head /\ sq_head \in Nat
    BY <1>1
  <2>2. sq_head % SqSize \in Slots
    BY <2>1, SlotIndex
  <2>3. QED
    BY <1>5, <2>1, <2>2 DEF PoolTypeOK
<1>9. \A i \in 1 .. Filled + 1 : i \in 1 .. Filled \/ i = Filled + 1
  BY <1>1
<1>10. QED
  <2>1. \A i \in 1 .. Filled + 1 : Waiting'[i] = Append(Waiting, c)[i]
    BY <1>6, <1>7, <1>8, <1>9
  <2>2. QED
    BY <1>2, <1>5, <1>6, <2>1, SeqEqual

(* The socket taken from the ring buffer is the one that waits longest. *)
LEMMA RingDrain ==
  ASSUME PoolTypeOK, PoolTypeOK', Filled > 0, AdvanceTail, squeue' = squeue
  PROVE  /\ Waiting' = Tail(Waiting) /\ Filled' = Filled - 1
         /\ Waiting # << >> /\ Head(Waiting) = squeue[sq_tail % SqSize]
<1>1. /\ SqSize \in Nat /\ SqSize > 0 /\ sq_tail \in Nat /\ sq_tail <= SqSize
      /\ Filled \in Nat /\ Filled <= SqSize /\ sq_head = sq_tail + Filled
  BY PoolAssumption DEF PoolTypeOK, Filled
<1>2. \/ sq_tail' = sq_tail + 1 /\ sq_head' = sq_head
      \/ sq_tail = SqSize /\ sq_tail' = 1 /\ sq_head' = sq_head - SqSize
  BY <1>1 DEF AdvanceTail
<1>3. Filled' = Filled - 1
  BY <1>1, <1>2 DEF Filled
<1>4. /\ Waiting \in Seq(Clients \cup {NoClient}) /\ Len(Waiting) = Filled
      /\ \A i \in 1 .. Filled : Waiting[i] = squeue[(sq_tail + i - 1) % SqSize]
  BY WaitingSeq
<1>5. /\ Waiting' \in Seq(Clients \cup {NoClient}) /\ Len(Waiting') = Filled - 1
      /\ \A i \in 1 .. Filled - 1 : Waiting'[i] = squeue[(sq_tail' + i - 1) % SqSize]
  <2>1. /\ Waiting' \in Seq(Clients \cup {NoClient}) /\ Len(Waiting') = Filled'
        /\ \A i \in 1 .. Filled' : Waiting'[i] = squeue'[(sq_tail' + i - 1) % SqSize]
    BY WaitingSeqNext
  <2>2. QED
    BY <1>3, <2>1
<1>6. Waiting # << >> /\ Head(Waiting) = squeue[sq_tail % SqSize]
  <2>1. 1 \in 1 .. Filled /\ sq_tail + 1 - 1 = sq_tail
    BY <1>1
  <2>2. Waiting # << >> /\ Head(Waiting) = Waiting[1]
    BY <1>1, <1>4, HeadTailProperties, EmptySeq
  <2>3. QED
    BY <1>4, <2>1, <2>2
<1>7. /\ Tail(Waiting) \in Seq(Clients \cup {NoClient}) /\ Len(Tail(Waiting)) = Filled - 1
      /\ \A i \in 1 .. Filled - 1 : Tail(Waiting)[i] = Waiting[i + 1]
  BY <1>4, <1>6, HeadTailProperties
<1>8. \A i \in 1 .. Filled - 1 : Waiting'[i] = Tail(Waiting)[i]
  <2>1. SUFFICES ASSUME NEW i \in 1 .. Filled - 1 PROVE Waiting'[i] = Tail(Waiting)[i]
    OBVIOUS
  <2>2. i + 1 \in 1 .. Filled /\ sq_tail + (i + 1) - 1 = sq_tail + i
    BY <1>1
  <2>3. (sq_tail' + i - 1) % SqSize = (sq_tail + i) % SqSize
    <3>1. CASE sq_tail' = sq_tail + 1
      <4>1. sq_tail' + i - 1 = sq_tail + i
        BY <1>1, <3>1
      <4>2. QED
        BY <4>1
    <3>2. CASE sq_tail = SqSize /\ sq_tail' = 1
      <4>1. PICK x \in 0 .. 2 * SqSize - 1 : x = sq_tail + i
        BY <1>1
      <4>2. i \in 0 .. 2 * SqSize - 1 /\ sq_tail' + i - 1 = i
        BY <1>1, <3>2
      <4>3. x % SqSize = IF x < SqSize THEN x ELSE x - SqSize
        BY Wrap
      <4>4. i % SqSize = IF i < SqSize THEN i ELSE i - SqSize
        BY <4>2, Wrap
      <4>5. x % SqSize = i % SqSize
        BY <1>1, <3>2, <4>1, <4>3, <4>4
      <4>6. QED
        BY <4>1, <4>2, <4>5
    <3>3. QED
      BY <1>2, <3>1, <3>2
  <2>4. QED
    BY <1>4, <1>5, <1>7, <2>2, <2>3
<1>9. QED
  BY <1>3, <1>5, <1>6, <1>7, <1>8, SeqEqual

-----------------------------------------------------------------------------
(* A step that moves no connection keeps ConnInv. *)
LEMMA ConnSame ==
  ASSUME ConnInv, UNCHANGED <<sq_head, sq_tail, squeue, wconn, accepted, mconn>>,
         mpc \in {"produce", "waitEmpty"} <=> mpc' \in {"produce", "waitEmpty"},
         \A w \in Workers : wpc[w] \in {"return", "serve"} => wpc'[w] \in {"return", "serve"}
  PROVE  ConnInv'
<1>1. Waiting' = Waiting /\ Filled' = Filled
  BY DEF Waiting, Filled
<1>2. QED
  BY <1>1 DEF ConnInv

(* A step of a worker that gives up the connection it may have had. *)
LEMMA ConnGiveUp ==
  ASSUME PoolTypeOK, ConnInv, NEW w \in Workers, NEW s \in WorkerSteps, WGoto(w, s),
         wconn' = [wconn EXCEPT ![w] = NoClient],
         UNCHANGED <<sq_head, sq_tail, squeue, accepted, mconn, mpc>>
  PROVE  ConnInv'
<1>1. Waiting' = Waiting /\ Filled' = Filled
  BY DEF Waiting, Filled
<1>2. /\ wconn'[w] = NoClient
      /\ \A v \in Workers : v # w => wconn'[v] = wconn[v] /\ wpc'[v] = wpc[v]
  BY DEF PoolTypeOK, WGoto
<1>3. \A v \in Workers : wconn'[v] # NoClient => v # w
  BY <1>2
<1>4. QED
  BY <1>1, <1>2, <1>3 DEF ConnInv

(* Signalling sq_full changes nothing for a worker with a connection. *)
LEMMA SignalKeeps ==
  ASSUME PoolTypeOK, SignalFull, NEW w \in Workers, wpc[w] \in {"return", "serve"}
  PROVE  wpc'[w] = wpc[w]
BY DEF PoolTypeOK, SignalFull, WGoto

(* The connection the master has comes to the end of the queue. *)
LEMMA ConnProduce ==
  ASSUME PoolTypeOK, PoolTypeOK', ConnInv, Produce
  PROVE  ConnInv'
<1>1. /\ mpc = "produce" /\ mconn # NoClient /\ mconn \in Clients /\ mconn \in accepted
      /\ mpc' = "spawn" /\ mconn' = NoClient /\ wconn' = wconn /\ accepted' = accepted
  BY DEF Produce, MGoto, ConnInv, PoolTypeOK
<1>2. Waiting' = Append(Waiting, mconn) /\ Filled' = Filled + 1
  BY <1>1, RingFill DEF Produce
<1>3. /\ Filled \in Nat
      /\ \A i \in 1 .. Filled : Waiting'[i] = Waiting[i]
      /\ Waiting'[Filled + 1] = mconn
  <2>1. /\ Waiting \in Seq(Clients \cup {NoClient}) /\ Len(Waiting) = Filled /\ Filled \in Nat
        /\ mconn \in Clients \cup {NoClient}
    BY <1>1, WaitingSeq
  <2>2. QED
    BY <1>2, <2>1, AppendProperties
<1>4. \A i \in 1 .. Filled + 1 : i \in 1 .. Filled \/ i = Filled + 1
  BY <1>3
<1>5. NoClient \notin accepted
  BY PoolAssumption DEF PoolTypeOK
<1>6. \A i \in 1 .. Filled + 1 : Waiting'[i] \in accepted /\ Waiting'[i] # NoClient
  BY <1>1, <1>3, <1>4, <1>5 DEF ConnInv
<1>7. \A i, j \in 1 .. Filled + 1 : Waiting'[i] = Waiting'[j] => i = j
  <2>1. SUFFICES ASSUME NEW i \in 1 .. Filled + 1, NEW j \in 1 .. Filled + 1, Waiting'[i] = Waiting'[j]
                 PROVE  i = j
    OBVIOUS
  <2>2. CASE i \in 1 .. Filled /\ j \in 1 .. Filled
    BY <1>3, <2>1, <2>2 DEF ConnInv
  <2>3. CASE i \in 1 .. Filled /\ j = Filled + 1
    BY <1>1, <1>3, <2>1, <2>3 DEF ConnInv
  <2>4. CASE j \in 1 .. Filled /\ i = Filled + 1
    BY <1>1, <1>3, <2>1, <2>4 DEF ConnInv
  <2>5. QED
    BY <1>4, <2>2, <2>3, <2>4
<1>8. ASSUME NEW w \in Workers, wconn'[w] # NoClient
      PROVE  /\ wconn'[w] \in accepted' /\ wpc'[w] \in {"return", "serve"}
             /\ \A i \in 1 .. Filled + 1 : Waiting'[i] # wconn'[w]
  <2>1. /\ wconn[w] \in accepted /\ wconn[w] # mconn /\ wpc[w] \in {"return", "serve"}
        /\ \A i \in 1 .. Filled : Waiting[i] # wconn[w]
    BY <1>1, <1>8 DEF ConnInv
  <2>2. wpc'[w] = wpc[w]
    BY <2>1, SignalKeeps DEF Produce
  <2>3. QED
    BY <1>1, <1>3, <1>4, <2>1, <2>2
<1>9. QED
  BY <1>1, <1>2, <1>6, <1>7, <1>8 DEF ConnInv

(* The connection at the head of the queue comes to a worker. *)
LEMMA ConnConsume ==
  ASSUME PoolTypeOK, PoolTypeOK', ConnInv, NEW w \in Workers, Consume(w)
  PROVE  ConnInv'
<1>1. /\ wpc[w] \notin {"return", "serve"} /\ wconn[w] = NoClient
      /\ mconn' = mconn /\ accepted' = accepted
      /\ mpc \in {"produce", "waitEmpty"} <=> mpc' \in {"produce", "waitEmpty"}
  BY DEF Consume, SignalEmpty, ConnInv
<1>2. Filled > 0 /\ Filled \in Nat
  BY WaitingSeq DEF Consume
<1>3. Waiting' = Tail(Waiting) /\ Filled' = Filled - 1 /\ wconn' = [wconn EXCEPT ![w] = Waiting[1]]
  <2>1. /\ Waiting' = Tail(Waiting) /\ Filled' = Filled - 1
        /\ Waiting # << >> /\ Head(Waiting) = squeue[sq_tail % SqSize]
    BY RingDrain DEF Consume
  <2>2. Head(Waiting) = Waiting[1]
    BY <2>1, WaitingSeq, HeadTailProperties
  <2>3. QED
    BY <2>1, <2>2 DEF Consume
<1>4. \A i \in 1 .. Filled - 1 : Waiting'[i] = Waiting[i + 1] /\ i + 1 \in 1 .. Filled /\ i + 1 # 1
  <2>1. Waiting \in Seq(Clients \cup {NoClient}) /\ Len(Waiting) = Filled /\ Waiting # << >>
    BY <1>2, WaitingSeq, EmptySeq
  <2>2. \A i \in 1 .. Filled - 1 : Tail(Waiting)[i] = Waiting[i + 1]
    BY <2>1, HeadTailProperties
  <2>3. SUFFICES ASSUME NEW n \in Nat, n = Filled, NEW i \in 1 .. n - 1
                 PROVE  Waiting'[i] = Waiting[i + 1] /\ i + 1 \in 1 .. n /\ i + 1 # 1
    BY <1>2
  <2>4. i + 1 \in 1 .. n /\ i + 1 # 1
    BY <2>3
  <2>5. Waiting'[i] = Waiting[i + 1]
    BY <1>3, <2>2, <2>3
  <2>6. QED
    BY <2>4, <2>5
<1>5. 1 \in 1 .. Filled /\ Waiting[1] \in accepted /\ Waiting[1] # mconn
  BY <1>2 DEF ConnInv
<1>6. /\ wconn'[w] = Waiting[1] /\ wpc'[w] = "return"
      /\ \A v \in Workers : v # w => wconn'[v] = wconn[v] /\ wpc'[v] = wpc[v]
  BY <1>3 DEF Consume, WGoto, PoolTypeOK
<1>7. \A i \in 1 .. Filled - 1 : Waiting'[i] \in accepted /\ Waiting'[i] # mconn
  BY <1>4 DEF ConnInv
<1>8. \A i, j \in 1 .. Filled - 1 : Waiting'[i] = Waiting'[j] => i = j
  <2>1. SUFFICES ASSUME NEW i \in 1 .. Filled - 1, NEW j \in 1 .. Filled - 1, Waiting'[i] = Waiting'[j]
                 PROVE  i = j
    OBVIOUS
  <2>2. i + 1 = j + 1
    BY <1>4, <2>1 DEF ConnInv
  <2>3. QED
    BY <1>2, <2>2
<1>9. ASSUME NEW v \in Workers, wconn'[v] # NoClient
      PROVE  /\ wconn'[v] \in accepted /\ wconn'[v] # mconn /\ wpc'[v] \in {"return", "serve"}
             /\ \A i \in 1 .. Filled - 1 : Waiting'[i] # wconn'[v]
  <2>1. CASE v = w
    <3>1. \A i \in 1 .. Filled - 1 : Waiting'[i] # Waiting[1]
      BY <1>4, <1>5 DEF ConnInv
    <3>2. QED
      BY <1>5, <1>6, <2>1, <3>1
  <2>2. CASE v # w
    BY <1>4, <1>6, <1>9, <2>2 DEF ConnInv
  <2>3. QED
    BY <2>1, <2>2
<1>10. ASSUME NEW u \in Workers, NEW v \in Workers, wconn'[u] = wconn'[v], wconn'[v] # NoClient
       PROVE  u = v
  <2>1. ASSUME NEW x \in Workers, x # w, wconn'[x] = Waiting[1] PROVE FALSE
    <3>1. wconn[x] = Waiting[1] /\ wconn[x] # NoClient
      BY <1>5, <1>6, <2>1, PoolAssumption DEF PoolTypeOK
    <3>2. QED
      BY <1>5, <3>1 DEF ConnInv
  <2>2. CASE u # w /\ v # w
    BY <1>6, <1>10, <2>2 DEF ConnInv
  <2>3. QED
    BY <1>6, <1>10, <2>1, <2>2
<1>11. QED
  BY <1>1, <1>3, <1>7, <1>8, <1>9, <1>10 DEF ConnInv

(* Every step keeps each connection in one place. *)
LEMMA ConnStep ==
  ASSUME PoolInv, PoolInv', ConnInv, PoolNext
  PROVE  ConnInv'
<1>0. PoolTypeOK /\ PoolTypeOK' /\ SlotInv
  BY DEF PoolInv
<1> USE <1>0 DEF MGoto, WGoto, ringVars
<1>1. ASSUME NEW c \in Clients, AcceptConnection(c) PROVE ConnInv'
  <2>1. /\ mconn = NoClient /\ mconn' = c /\ mpc' = "produce" /\ c # NoClient
        /\ wpc' = wpc /\ wconn' = wconn /\ c \notin accepted /\ accepted' = accepted \cup {c}
    BY <1>1, PoolAssumption DEF AcceptConnection, ConnInv
  <2>2. Waiting' = Waiting /\ Filled' = Filled
    BY <1>1 DEF AcceptConnection, Waiting, Filled
  <2>3. QED
    BY <2>1, <2>2 DEF ConnInv
<1>2. CASE ProduceWait
  BY <1>2, ConnSame DEF ProduceWait
<1>3. CASE Produce
  BY <1>3, ConnProduce
<1>4. CASE ProduceDrop
  <2>1. /\ mconn # NoClient /\ mconn' = NoClient /\ mpc' = "spawn"
        /\ wconn' = wconn /\ accepted' = accepted
    BY <1>4 DEF ProduceDrop, ConnInv
  <2>2. Waiting' = Waiting /\ Filled' = Filled
    BY <1>4 DEF ProduceDrop, Waiting, Filled
  <2>3. \A w \in Workers : wpc[w] \in {"return", "serve"} => wpc'[w] = wpc[w]
    BY <1>4, SignalKeeps DEF ProduceDrop
  <2>4. NoClient \notin accepted
    BY PoolAssumption DEF PoolTypeOK
  <2>5. QED
    BY <2>1, <2>2, <2>3, <2>4 DEF ConnInv
<1>5. CASE StartWorker \/ CreateThreadFails \/ RollBack \/ JoinWorkers \/ SetStop \/ FreeContext
  BY <1>5, ConnSame DEF StartWorker, CreateThreadFails, RollBack, JoinWorkers, SetStop, FreeContext
<1>6. CASE CreateThread
  <2>1. spawned_worker_threads + 1 \in Workers => wpc[spawned_worker_threads + 1] = "none"
    BY DEF SlotInv, PoolTypeOK, Workers
  <2>2. \A w \in Workers : wpc[w] \in {"return", "serve"} => wpc'[w] = wpc[w]
    BY <1>6, <2>1 DEF CreateThread, PoolTypeOK
  <2>3. QED
    BY <1>6, <2>2, ConnSame DEF CreateThread
<1>7. CASE StopAccepting
  BY <1>7, ConnSame DEF StopAccepting
<1>8. ASSUME NEW w \in Workers, ConsumeWait(w) \/ ConsumeNothing(w) PROVE ConnInv'
  <2>1. wpc[w] \notin {"return", "serve"}
    BY <1>8 DEF ConsumeWait, ConsumeNothing
  <2>2. \A v \in Workers : wpc[v] \in {"return", "serve"} => wpc'[v] = wpc[v]
    BY <1>8, <2>1 DEF ConsumeWait, ConsumeNothing, PoolTypeOK
  <2>3. mpc \in {"produce", "waitEmpty"} <=> mpc' \in {"produce", "waitEmpty"}
    BY <1>8 DEF ConsumeWait, ConsumeNothing, SignalEmpty
  <2>4. QED
    BY <1>8, <2>2, <2>3, ConnSame DEF ConsumeWait, ConsumeNothing
<1>9. ASSUME NEW w \in Workers, Consume(w) PROVE ConnInv'
  BY <1>9, ConnConsume
<1>10. ASSUME NEW w \in Workers, ConsumeReturn(w) PROVE ConnInv'
  <2>1. CASE stop_flag = 0
    <3>1. \A v \in Workers : wpc[v] \in {"return", "serve"} => wpc'[v] \in {"return", "serve"}
      BY <1>10, <2>1 DEF ConsumeReturn, PoolTypeOK
    <3>2. QED
      BY <1>10, <2>1, <3>1, ConnSame DEF ConsumeReturn
  <2>2. CASE stop_flag # 0
    BY <1>10, <2>2, ConnGiveUp DEF ConsumeReturn, WorkerSteps
  <2>3. QED
    BY <2>1, <2>2
<1>11. ASSUME NEW w \in Workers, ServeConnection(w) PROVE ConnInv'
  BY <1>11, ConnGiveUp DEF ServeConnection, WorkerSteps
<1>12. QED
  BY <1>1, <1>2, <1>3, <1>4, <1>5, <1>6, <1>7, <1>8, <1>9, <1>10, <1>11
     DEF PoolNext, MasterStep, WorkerStep

(* In every reachable state each connection is in one place. *)
LEMMA ConnInvariant == PoolSpec => [](PoolInv /\ ConnInv)
<1>1. PoolInit => ConnInv
  <2>1. PoolInit => Filled = 0
    BY DEF PoolInit, Filled
  <2>2. QED
    BY <2>1 DEF PoolInit, ConnInv
<1>2. PoolInv /\ PoolInv' /\ ConnInv /\ [PoolNext]_poolVars => ConnInv'
  <2> SUFFICES ASSUME PoolInv, PoolInv', ConnInv, [PoolNext]_poolVars PROVE ConnInv'
    OBVIOUS
  <2>1. CASE PoolNext
    BY <2>1, ConnStep
  <2>2. CASE UNCHANGED poolVars
    BY <2>2, ConnSame DEF poolVars
  <2>3. QED
    BY <2>1, <2>2
<1>3. QED
  BY <1>1, <1>2, PoolInvariant, PTL DEF PoolSpec
-----------------------------------------------------------------------------
inService == {wconn[w] : w \in Workers} \ {NoClient}
opened == IF mconn = NoClient THEN accepted ELSE accepted \ {mconn}

(* A step that moves no connection is a stutter of the service. *)
LEMMA ServiceStutter ==
  ASSUME UNCHANGED <<sq_head, sq_tail, squeue, wconn, accepted, mconn>>,
         stop_flag # 0 <=> stop_flag' # 0
  PROVE  UNCHANGED Service!serviceVars
BY DEF Service!serviceVars, Waiting, Filled

(* A worker that has no connection is not counted: there is room for one.  *)
LEMMA ServiceRoom ==
  ASSUME PoolTypeOK, NEW w \in Workers, wconn[w] = NoClient
  PROVE  Cardinality(inService) < MaxWorkers
<1> DEFINE Busy == {v \in Workers : wconn[v] # NoClient}
           conn == [v \in Busy |-> wconn[v]]
<1>1. IsFiniteSet(Workers) /\ Cardinality(Workers) = MaxWorkers /\ MaxWorkers \in Nat /\ MaxWorkers > 0
  BY FS_Interval, PoolAssumption DEF Workers
<1>2. IsFiniteSet(Workers \ {w}) /\ Cardinality(Workers \ {w}) = MaxWorkers - 1
  BY <1>1, FS_RemoveElement
<1>3. Busy \in SUBSET (Workers \ {w})
  OBVIOUS
<1>4. IsFiniteSet(Busy) /\ Cardinality(Busy) <= MaxWorkers - 1 /\ Cardinality(Busy) \in Nat
  BY <1>2, <1>3, FS_Subset, FS_CardinalityType
<1>5. conn \in Surjection(Busy, inService)
  BY DEF Surjection, inService
<1>6. IsFiniteSet(inService) /\ Cardinality(inService) <= Cardinality(Busy)
  BY <1>4, <1>5, FS_Surjection
<1>7. Cardinality(inService) \in Nat
  BY <1>6, FS_CardinalityType
<1>8. QED
  BY <1>1, <1>4, <1>6, <1>7

(* A worker that gives up its connection finishes its service. *)
LEMMA ServiceFinish ==
  ASSUME PoolTypeOK, ConnInv, NEW w \in Workers, wconn' = [wconn EXCEPT ![w] = NoClient],
         UNCHANGED <<sq_head, sq_tail, squeue, accepted, mconn, stop_flag>>
  PROVE  Service!Next \/ UNCHANGED Service!serviceVars
<1>1. CASE wconn[w] = NoClient
  <2>1. wconn' = wconn
    BY <1>1 DEF PoolTypeOK
  <2>2. QED
    BY <2>1, ServiceStutter
<1>2. CASE wconn[w] # NoClient
  <2>1. wconn[w] \in Clients /\ wconn[w] \in inService
    BY <1>2 DEF PoolTypeOK, inService
  <2>2. inService' = inService \ {wconn[w]}
    <3>1. wconn'[w] = NoClient /\ \A v \in Workers : v # w => wconn'[v] = wconn[v]
      BY DEF PoolTypeOK
    <3>2. \A v \in Workers : v # w => wconn[v] # wconn[w]
      BY <1>2 DEF ConnInv
    <3>3. QED
      BY <1>2, <3>1, <3>2 DEF inService
  <2>3. Waiting' = Waiting
    BY DEF Waiting, Filled
  <2>4. PICK c \in Clients : c = wconn[w]
    BY <2>1
  <2>5. Service!Finish(c)
    BY <2>1, <2>2, <2>3, <2>4 DEF Service!Finish, inService
  <2>6. QED
    BY <2>5 DEF Service!Next
<1>3. QED
  BY <1>1, <1>2

(* The master puts its connection into the queue: it is admitted. *)
LEMMA ServiceAdmit ==
  ASSUME PoolTypeOK, PoolTypeOK', ConnInv, Produce
  PROVE  Service!Next
<1>1. /\ mpc = "produce" /\ mconn # NoClient /\ mconn \in Clients /\ mconn \in accepted
      /\ mconn' = NoClient /\ wconn' = wconn /\ accepted' = accepted /\ stop_flag' = stop_flag
  BY DEF Produce, ConnInv, PoolTypeOK
<1>2. Waiting' = Append(Waiting, mconn)
  BY <1>1, RingFill DEF Produce
<1>3. Len(Waiting) < SqSize
  BY WaitingSeq DEF Produce
<1>4. opened = accepted \ {mconn} /\ opened' = opened \cup {mconn}
  BY <1>1 DEF opened
<1>5. inService' = inService /\ (stop_flag # 0 <=> stop_flag' # 0)
  BY <1>1 DEF inService
<1>6. Service!Admit(mconn)
  BY <1>2, <1>3, <1>4, <1>5 DEF Service!Admit, inService, opened
<1>7. \E c \in Clients : Service!Admit(c)
  BY <1>1, <1>6, Zenon
<1>8. QED
  BY <1>7 DEF Service!Next

(* The master forgets its connection: it is turned away. *)
LEMMA ServiceTurnAway ==
  ASSUME PoolTypeOK, ConnInv, ProduceDrop
  PROVE  Service!Next
<1>1. /\ mpc = "produce" /\ mconn # NoClient /\ mconn \in Clients /\ mconn \in accepted
      /\ mconn' = NoClient /\ wconn' = wconn /\ accepted' = accepted
      /\ stop_flag' = stop_flag /\ stop_flag # 0
  BY DEF ProduceDrop, ConnInv, PoolTypeOK
<1>2. Waiting' = Waiting
  BY DEF ProduceDrop, ringVars, Waiting, Filled
<1>3. opened = accepted \ {mconn} /\ opened' = opened \cup {mconn}
  BY <1>1 DEF opened
<1>4. inService' = inService
  BY <1>1 DEF inService
<1>5. Service!TurnAway(mconn)
  BY <1>1, <1>2, <1>3, <1>4 DEF Service!TurnAway, inService, opened
<1>6. \E c \in Clients : Service!TurnAway(c)
  BY <1>1, <1>5, Zenon
<1>7. QED
  BY <1>6 DEF Service!Next

(* A worker takes the oldest connection into service. *)
LEMMA ServiceTake ==
  ASSUME PoolTypeOK, PoolTypeOK', ConnInv, NEW w \in Workers, Consume(w)
  PROVE  Service!Next
<1>1. /\ wpc[w] \notin {"return", "serve"} /\ wconn[w] = NoClient /\ Filled > 0
      /\ wconn' = [wconn EXCEPT ![w] = squeue[sq_tail % SqSize]]
      /\ UNCHANGED <<mconn, accepted, stop_flag>>
  BY DEF Consume, ConnInv
<1>2. /\ Waiting' = Tail(Waiting) /\ Waiting # << >>
      /\ Head(Waiting) = squeue[sq_tail % SqSize]
  BY RingDrain DEF Consume
<1>3. Head(Waiting) # NoClient
  <2>1. Head(Waiting) = Waiting[1] /\ 1 \in 1 .. Filled
    BY <1>1, <1>2, WaitingSeq, HeadTailProperties
  <2>2. NoClient \notin accepted
    BY PoolAssumption DEF PoolTypeOK
  <2>3. QED
    BY <2>1, <2>2 DEF ConnInv
<1>4. inService' = inService \cup {Head(Waiting)}
  <2>1. /\ wconn'[w] = Head(Waiting)
        /\ \A v \in Workers : v # w => wconn'[v] = wconn[v]
    BY <1>1, <1>2 DEF PoolTypeOK
  <2>2. QED
    BY <1>1, <1>3, <2>1 DEF inService
<1>5. Cardinality(inService) < MaxWorkers
  BY <1>1, ServiceRoom
<1>6. opened' = opened
  BY <1>1 DEF opened
<1>7. Service!Take
  BY <1>1, <1>2, <1>4, <1>5, <1>6 DEF Service!Take, inService, opened, Service!Cardinality, Cardinality
<1>8. QED
  BY <1>7 DEF Service!Next

(* Every step of the pool is a step of the service or a stutter. *)
LEMMA ServiceStep ==
  ASSUME PoolInv, PoolInv', ConnInv, PoolNext
  PROVE  Service!Next \/ UNCHANGED Service!serviceVars
<1>0. PoolTypeOK /\ PoolTypeOK' /\ StopInv
  BY DEF PoolInv
<1>1. ASSUME NEW c \in Clients, AcceptConnection(c) PROVE UNCHANGED Service!serviceVars
  <2>1. /\ mconn = NoClient /\ mconn' = c /\ c # NoClient
        /\ c \notin accepted /\ accepted' = accepted \cup {c}
        /\ UNCHANGED <<sq_head, sq_tail, squeue, wconn, stop_flag>>
    BY <1>1, PoolAssumption DEF AcceptConnection, ringVars, ConnInv
  <2>2. Waiting' = Waiting
    BY <2>1 DEF Waiting, Filled
  <2>3. opened' = opened
    BY <2>1 DEF opened
  <2>4. QED
    BY <2>1, <2>2, <2>3 DEF Service!serviceVars, opened
<1>2. CASE Produce
  BY <1>0, <1>2, ServiceAdmit
<1>3. CASE ProduceDrop
  BY <1>0, <1>3, ServiceTurnAway
<1>4. CASE ProduceWait \/ StartWorker \/ CreateThread \/ CreateThreadFails \/ RollBack
           \/ StopAccepting \/ FreeContext
  BY <1>4, ServiceStutter
     DEF ProduceWait, StartWorker, CreateThread, CreateThreadFails, RollBack, StopAccepting,
         FreeContext, ringVars
<1>5. CASE JoinWorkers
  BY <1>0, <1>5, ServiceStutter DEF JoinWorkers, StopInv, ringVars
<1>6. CASE SetStop
  <2>1. /\ UNCHANGED <<sq_head, sq_tail, squeue, wconn, accepted, mconn>>
        /\ stop_flag' = 1
    BY <1>6 DEF SetStop, ringVars
  <2>2. Waiting' = Waiting
    BY <2>1 DEF Waiting, Filled
  <2>3. Service!Stop
    BY <2>1, <2>2 DEF Service!Stop
  <2>4. QED
    BY <2>3 DEF Service!Next
<1>7. ASSUME NEW w \in Workers, ConsumeWait(w) \/ ConsumeNothing(w)
      PROVE  UNCHANGED Service!serviceVars
  BY <1>7, ServiceStutter DEF ConsumeWait, ConsumeNothing, ringVars
<1>8. ASSUME NEW w \in Workers, Consume(w) PROVE Service!Next
  BY <1>0, <1>8, ServiceTake
<1>9. ASSUME NEW w \in Workers, ConsumeReturn(w) \/ ServeConnection(w)
      PROVE  Service!Next \/ UNCHANGED Service!serviceVars
  <2>1. CASE wconn' = wconn
    BY <1>9, <2>1, ServiceStutter DEF ConsumeReturn, ServeConnection, ringVars
  <2>2. CASE wconn' = [wconn EXCEPT ![w] = NoClient]
    BY <1>0, <1>9, <2>2, ServiceFinish DEF ConsumeReturn, ServeConnection, ringVars
  <2>3. QED
    BY <1>9, <2>1, <2>2 DEF ConsumeReturn, ServeConnection
<1>10. QED
  BY <1>1, <1>2, <1>3, <1>4, <1>5, <1>6, <1>7, <1>8, <1>9
     DEF PoolNext, MasterStep, WorkerStep

(* Connections are taken into service in the order of arrival, each at     *)
(* most once, for any number of threads and any size of the queue.         *)
THEOREM ServiceRefinement == PoolSpec => ImplementsService
<1>1. PoolInit => Service!Init
  <2> SUFFICES ASSUME PoolInit PROVE Service!Init
    OBVIOUS
  <2>1. Filled = 0 /\ \A w \in Workers : wconn[w] = NoClient
    BY DEF PoolInit, Filled
  <2>2. Waiting = << >>
    BY <2>1 DEF Waiting
  <2>3. QED
    BY <2>1, <2>2 DEF PoolInit, Service!Init
<1>2. PoolInv /\ PoolInv' /\ ConnInv /\ [PoolNext]_poolVars => [Service!Next]_(Service!serviceVars)
  <2> SUFFICES ASSUME PoolInv, PoolInv', ConnInv, [PoolNext]_poolVars
               PROVE  Service!Next \/ UNCHANGED Service!serviceVars
    OBVIOUS
  <2>1. CASE PoolNext
    BY <2>1, ServiceStep
  <2>2. CASE UNCHANGED poolVars
    BY <2>2, ServiceStutter DEF poolVars
  <2>3. QED
    BY <2>1, <2>2
<1>3. QED
  BY <1>1, <1>2, ConnInvariant, PTL DEF PoolSpec, ImplementsService, Service!Spec
=============================================================================
