----------------------------- MODULE ProxyProofs -----------------------------
(***************************************************************************)
(* Proofs about Proxy for every set of threads and requests, every choice  *)
(* of faults and ends, and any number of lives.                            *)
(***************************************************************************)
EXTENDS ProxyInductive, SequenceTheorems, TLAPS

(* The initial states satisfy the inductive invariant. *)
LEMMA InitInv == ProxyInit => ProxyInv
<1> SUFFICES ASSUME ProxyInit PROVE ProxyInv
  OBVIOUS
<1> USE DEF ProxyInit, ValkeyInit, NoTicket
<1>2. ProxyTypeOK
  <2>1. requests \in Seq(Items) /\ pushLog \in Seq(Items)
    OBVIOUS
  <2>2. ticket \in [Requests -> [life : Nat, id : Nat]]
    OBVIOUS
  <2>3. pc \in [Threads -> Steps] /\ cur \in [Threads -> Requests \cup {NoRequest}]
    BY DEF Steps
  <2>4. body \in [Requests -> Bodies]
    BY DEF Bodies
  <2>5. QED
    BY <2>1, <2>2, <2>3, <2>4 DEF ProxyTypeOK
<1>3. ThreadInv
  BY ProxyAssumption DEF ThreadInv, NoHandlerAfterFree, MutexHolder
<1>4. TicketInv
  BY DEF TicketInv, UniqueIds
<1>5. PushInv
  BY DEF PushInv, PushedOnce
<1>6. LagInv
  BY DEF LagInv
<1>7. BodyInv
  BY DEF BodyInv, AnsweredWholeBody
<1>8. ReplyInv
  BY DEF ReplyInv, AnsweredIsPushed
<1>9. QED
  BY <1>2, <1>3, <1>4, <1>5, <1>6, <1>7, <1>8 DEF ProxyInv

(* Every step of the proxy keeps the types of its variables. *)
LEMMA TypeStep ==
  ASSUME ProxyTypeOK, ThreadInv, ProxyNext
  PROVE  ProxyTypeOK'
<1> USE DEF ProxyTypeOK, Goto, valkeyVars, Steps, Bodies
<1>1. ASSUME NEW o \in Outcomes(FALSE), Start(o) PROVE ProxyTypeOK'
  BY <1>1 DEF Start, Breaks
<1>2. CASE Signal
  BY <1>2 DEF Signal
<1>3. CASE StopServer
  BY <1>3 DEF StopServer
<1>4. CASE FreeContext \/ StopHangs
  BY <1>4 DEF FreeContext, StopHangs
<1>5. CASE DestroyHandler
  BY <1>5 DEF DestroyHandler, ProcessGone
<1>6. CASE Crash
  BY <1>6 DEF Crash, ProcessGone
<1>7. ASSUME NEW t \in Threads, NEW r \in Requests, Accept(t, r) PROVE ProxyTypeOK'
  BY <1>7 DEF Accept
<1>8. ASSUME NEW t \in Threads, ThreadStep(t) PROVE ProxyTypeOK'
  <2>0. pc[t] # "idle" => cur[t] \in Requests
    BY DEF ThreadInv
  <2>1. CASE ReadRequest(t)
    <3>1. PICK b \in BodiesRead(cur[t]) : body' = [body EXCEPT ![cur[t]] = b]
      BY <2>1 DEF ReadRequest
    <3>2. b \in Bodies
      BY DEF BodiesRead
    <3>3. QED
      BY <2>1, <3>1, <3>2 DEF ReadRequest
  <2>2. CASE DropConnection(t)
    BY <2>2 DEF DropConnection
  <2>3. CASE GenerateId(t)
    <3>1. [life |-> lives, id |-> counter + 1] \in [life : Nat, id : Nat]
      OBVIOUS
    <3>2. ticket' \in [Requests -> [life : Nat, id : Nat]]
      BY <2>3, <3>1 DEF GenerateId
    <3>3. QED
      BY <2>3, <3>2 DEF GenerateId
  <2>4. CASE CheckErr(t)
    BY <2>4 DEF CheckErr
  <2>5. CASE Lock(t)
    BY <2>5 DEF Lock
  <2>6. ASSUME NEW o \in Outcomes(redisErr), Rpush(t, o) PROVE ProxyTypeOK'
    <3>1. Item(cur[t]) \in Items
      BY <2>0, <2>6 DEF Rpush, Item, Items, Method
    <3>2. requests' \in Seq(Items) /\ pushLog' \in Seq(Items)
      <4>1. CASE Executed(o)
        <5>1. requests' = Append(requests, Item(cur[t])) /\ pushLog' = Append(pushLog, Item(cur[t]))
          BY <2>6, <4>1 DEF Rpush, RPush
        <5>2. QED
          BY <3>1, <5>1, AppendProperties
      <4>2. CASE ~Executed(o)
        BY <2>6, <4>2 DEF Rpush, RPush
      <4>3. QED
        BY <4>1, <4>2
    <3>3. QED
      BY <2>6, <3>2 DEF Rpush, Breaks
  <2>7. ASSUME NEW o \in Outcomes(redisErr), IncrWrites(t, o) PROVE ProxyTypeOK'
    BY <2>7 DEF IncrWrites, IncrKey, Breaks
  <2>8. CASE Reply(t)
    BY <2>0, <2>8 DEF Reply
  <2>9. CASE Trace(t)
    BY <2>9 DEF Trace
  <2>10. QED
    BY <1>8, <2>1, <2>2, <2>3, <2>4, <2>5, <2>6, <2>7, <2>8, <2>9 DEF ThreadStep
<1>9. QED
  BY <1>1, <1>2, <1>3, <1>4, <1>5, <1>6, <1>7, <1>8 DEF ProxyNext, ShutdownStep

(* Every step keeps threads and requests paired, one holder of the mutex,  *)
(* and no handler after redisFree.                                          *)
LEMMA ThreadInvStep ==
  ASSUME ProxyTypeOK, ThreadInv, ProxyNext
  PROVE  ThreadInv'
<1> USE ProxyAssumption DEF ProxyTypeOK, ThreadInv, NoHandlerAfterFree, MutexHolder, Goto
<1>1. ASSUME NEW o \in Outcomes(FALSE), Start(o) PROVE ThreadInv'
  BY <1>1 DEF Start
<1>2. CASE Signal
  BY <1>2 DEF Signal
<1>3. CASE StopServer
  BY <1>3 DEF StopServer
<1>4. CASE FreeContext \/ StopHangs
  BY <1>4 DEF FreeContext, StopHangs
<1>5. CASE DestroyHandler
  BY <1>5 DEF DestroyHandler, ProcessGone
<1>6. CASE Crash
  BY <1>6 DEF Crash, ProcessGone
<1>7. ASSUME NEW t \in Threads, NEW r \in Requests, Accept(t, r) PROVE ThreadInv'
  BY <1>7 DEF Accept
<1>8. ASSUME NEW t \in Threads, ThreadStep(t) PROVE ThreadInv'
  <2>1. CASE ReadRequest(t)
    BY <2>1 DEF ReadRequest
  <2>2. CASE DropConnection(t)
    BY <2>2 DEF DropConnection
  <2>3. CASE GenerateId(t)
    BY <2>3 DEF GenerateId
  <2>4. CASE CheckErr(t)
    BY <2>4 DEF CheckErr
  <2>5. CASE Lock(t)
    BY <2>5 DEF Lock
  <2>6. ASSUME NEW o \in Outcomes(redisErr), Rpush(t, o) PROVE ThreadInv'
    BY <2>6 DEF Rpush
  <2>7. ASSUME NEW o \in Outcomes(redisErr), IncrWrites(t, o) PROVE ThreadInv'
    BY <2>7 DEF IncrWrites
  <2>8. CASE Reply(t)
    BY <2>8 DEF Reply
  <2>9. CASE Trace(t)
    BY <2>9 DEF Trace
  <2>10. QED
    BY <1>8, <2>1, <2>2, <2>3, <2>4, <2>5, <2>6, <2>7, <2>8, <2>9 DEF ThreadStep
<1>9. QED
  BY <1>1, <1>2, <1>3, <1>4, <1>5, <1>6, <1>7, <1>8 DEF ProxyNext, ShutdownStep

(* Every step keeps the ids of a life distinct and not ahead of the        *)
(* counter.                                                                *)
LEMMA TicketInvStep ==
  ASSUME ProxyTypeOK, ThreadInv, TicketInv, ProxyNext
  PROVE  TicketInv'
<1> USE DEF ProxyTypeOK, TicketInv, UniqueIds
<1>1. ASSUME NEW o \in Outcomes(FALSE), Start(o) PROVE TicketInv'
  BY <1>1 DEF Start
<1>2. CASE Signal
  BY <1>2 DEF Signal
<1>3. CASE StopServer
  BY <1>3 DEF StopServer
<1>4. CASE FreeContext \/ StopHangs
  BY <1>4 DEF FreeContext, StopHangs
<1>5. CASE DestroyHandler
  BY <1>5 DEF DestroyHandler, ProcessGone
<1>6. CASE Crash
  BY <1>6 DEF Crash, ProcessGone
<1>7. ASSUME NEW t \in Threads, NEW r \in Requests, Accept(t, r) PROVE TicketInv'
  BY <1>7 DEF Accept
<1>8. ASSUME NEW t \in Threads, ThreadStep(t) PROVE TicketInv'
  <2>1. CASE ReadRequest(t)
    BY <2>1 DEF ReadRequest
  <2>2. CASE DropConnection(t)
    BY <2>2 DEF DropConnection
  <2>3. CASE GenerateId(t)
    <3>1. /\ cur[t] \in Requests /\ lives' = lives /\ life' = life /\ life # "down"
          /\ counter' = counter + 1
          /\ ticket' = [ticket EXCEPT ![cur[t]] = [life |-> lives, id |-> counter + 1]]
      BY <2>3 DEF GenerateId, ThreadInv, NoHandlerAfterFree
    <3>2. ticket'[cur[t]] = [life |-> lives, id |-> counter + 1]
      BY <3>1
    <3>3. \A r \in Requests : r # cur[t] => ticket'[r] = ticket[r]
      BY <3>1
    <3>4. \A r \in Requests : ticket[r].life \in Nat /\ ticket[r].id \in Nat
      OBVIOUS
    <3>5. \A r \in Requests : ticket'[r].life <= lives' /\ (ticket'[r].life = lives' => ticket'[r].id <= counter')
      BY <3>1, <3>2, <3>3, <3>4
    <3>6. ASSUME NEW r \in Requests, NEW s \in Requests, r # s,
                 ticket'[r].life = ticket'[s].life, ticket'[r].life # 0
          PROVE  ticket'[r].id # ticket'[s].id
      <4>1. CASE r = cur[t]
        BY <3>1, <3>2, <3>3, <3>4, <3>6, <4>1
      <4>2. CASE s = cur[t]
        BY <3>1, <3>2, <3>3, <3>4, <3>6, <4>2
      <4>3. CASE r # cur[t] /\ s # cur[t]
        BY <3>3, <3>6, <4>3
      <4>4. QED
        BY <4>1, <4>2, <4>3
    <3>7. QED
      BY <3>5, <3>6
  <2>4. CASE CheckErr(t)
    BY <2>4 DEF CheckErr
  <2>5. CASE Lock(t)
    BY <2>5 DEF Lock
  <2>6. ASSUME NEW o \in Outcomes(redisErr), Rpush(t, o) PROVE TicketInv'
    BY <2>6 DEF Rpush
  <2>7. ASSUME NEW o \in Outcomes(redisErr), IncrWrites(t, o) PROVE TicketInv'
    BY <2>7 DEF IncrWrites
  <2>8. CASE Reply(t)
    BY <2>8 DEF Reply
  <2>9. CASE Trace(t)
    BY <2>9 DEF Trace
  <2>10. QED
    BY <1>8, <2>1, <2>2, <2>3, <2>4, <2>5, <2>6, <2>7, <2>8, <2>9 DEF ThreadStep
<1>9. QED
  BY <1>1, <1>2, <1>3, <1>4, <1>5, <1>6, <1>7, <1>8 DEF ProxyNext, ShutdownStep

(* What a successful RPUSH does to the history of the queue. *)
LEMMA PushLogAppend ==
  ASSUME ProxyTypeOK, ThreadInv, NEW t \in Threads, NEW o, Rpush(t, o), Executed(o)
  PROVE  /\ pushLog' = Append(pushLog, Item(cur[t]))
         /\ Item(cur[t]) \in Items
         /\ Item(cur[t]).req = cur[t]
         /\ DOMAIN pushLog = 1 .. Len(pushLog)
         /\ DOMAIN pushLog' = 1 .. Len(pushLog) + 1
         /\ Len(pushLog) \in Nat /\ Len(pushLog') = Len(pushLog) + 1
         /\ \A i \in 1 .. Len(pushLog) : pushLog'[i] = pushLog[i]
         /\ pushLog'[Len(pushLog) + 1] = Item(cur[t])
<1>1. pushLog' = Append(pushLog, Item(cur[t]))
  BY DEF Rpush, RPush
<1>2. cur[t] \in Requests
  BY DEF ProxyTypeOK, ThreadInv, Rpush
<1>3. Item(cur[t]) \in Items /\ Item(cur[t]).req = cur[t]
  BY <1>2 DEF ProxyTypeOK, Item, Items, Method
<1>4. pushLog \in Seq(Items)
  BY DEF ProxyTypeOK
<1>5. QED
  BY <1>1, <1>3, <1>4, AppendProperties

(* Every step keeps the queue's history true to its requests: one entry    *)
(* each, with the id and body the request still has.                       *)
LEMMA PushInvStep ==
  ASSUME ProxyTypeOK, ThreadInv, PushInv, ProxyNext
  PROVE  PushInv'
<1> USE DEF ProxyTypeOK, PushInv, PushedOnce, Goto, valkeyVars, Item
<1>1. ASSUME NEW o \in Outcomes(FALSE), Start(o) PROVE PushInv'
  BY <1>1 DEF Start
<1>2. CASE Signal
  BY <1>2 DEF Signal
<1>3. CASE StopServer
  BY <1>3 DEF StopServer
<1>4. CASE FreeContext \/ StopHangs
  BY <1>4 DEF FreeContext, StopHangs
<1>5. CASE DestroyHandler
  BY <1>5 DEF DestroyHandler, ProcessGone
<1>6. CASE Crash
  BY <1>6 DEF Crash, ProcessGone
<1>7. ASSUME NEW t \in Threads, NEW r \in Requests, Accept(t, r) PROVE PushInv'
  BY <1>7 DEF Accept
<1>8. ASSUME NEW t \in Threads, ThreadStep(t) PROVE PushInv'
  <2>1. CASE ReadRequest(t)
    BY <2>1 DEF ReadRequest
  <2>2. CASE DropConnection(t)
    BY <2>2 DEF DropConnection
  <2>3. CASE GenerateId(t)
    BY <2>3 DEF GenerateId
  <2>4. CASE CheckErr(t)
    BY <2>4 DEF CheckErr
  <2>5. CASE Lock(t)
    BY <2>5 DEF Lock
  <2>6. ASSUME NEW o \in Outcomes(redisErr), Rpush(t, o) PROVE PushInv'
    <3>1. /\ UNCHANGED <<arrived, cur, ticket, body>>
          /\ pc' = [pc EXCEPT ![t] = "incr"] /\ pc[t] = "rpush"
      BY <2>6 DEF Rpush
    <3>2. CASE ~Executed(o)
      <4>1. pushLog' = pushLog
        BY <2>6, <3>2 DEF Rpush, RPush
      <4>2. QED
        BY <3>1, <4>1
    <3>3. CASE Executed(o)
      <4> DEFINE n == Len(pushLog)
      <4>1. /\ n \in Nat /\ DOMAIN pushLog = 1 .. n /\ DOMAIN pushLog' = 1 .. n + 1
            /\ \A i \in 1 .. n : pushLog'[i] = pushLog[i]
            /\ pushLog'[n + 1] = Item(cur[t]) /\ Item(cur[t]).req = cur[t]
        BY <2>6, <3>3, PushLogAppend
      <4>2. \A i \in 1 .. n + 1 : i \in 1 .. n \/ i = n + 1
        BY <4>1
      <4>3. /\ cur[t] \in Requests /\ cur[t] \in arrived
            /\ \A u \in Threads : (u # t /\ pc[u] # "idle") => cur[u] # cur[t]
        BY <3>1 DEF ThreadInv
      <4>4. /\ \A i \in 1 .. n : pushLog[i] = Item(pushLog[i].req) /\ pushLog[i].req \in Requests
            /\ \A i \in 1 .. n : pushLog[i].req # cur[t]
            /\ \A i, j \in 1 .. n : pushLog[i].req = pushLog[j].req => i = j
        BY <3>1, <4>1
      <4> HIDE DEF n
      <4>5. PushedOnce'
        <5>1. \A i \in 1 .. n + 1 : pushLog'[i] = Item(pushLog'[i].req)
          BY <4>1, <4>2, <4>4
        <5>2. ASSUME NEW i \in 1 .. n + 1, NEW j \in 1 .. n + 1,
                     pushLog'[i].req = pushLog'[j].req
              PROVE  i = j
          <6>1. \A k \in 1 .. n : pushLog'[k].req = pushLog[k].req /\ pushLog'[k].req # cur[t]
            BY <4>1, <4>4
          <6>2. pushLog'[n + 1].req = cur[t]
            BY <4>1
          <6>3. QED
            BY <4>2, <4>4, <5>2, <6>1, <6>2
        <5>3. QED
          BY <3>1, <4>1, <5>1, <5>2 DEF PushedOnce
      <4>6. \A i \in 1 .. n + 1 : pushLog'[i].req \in arrived'
        BY <3>1, <4>1, <4>2, <4>3
      <4>7. \A u \in Threads :
              pc'[u] \in {"read", "id", "check", "lock", "rpush"} =>
                \A i \in 1 .. n + 1 : pushLog'[i].req # cur'[u]
        <5>1. ASSUME NEW u \in Threads, pc'[u] \in {"read", "id", "check", "lock", "rpush"},
                     NEW i \in 1 .. n + 1
              PROVE  pushLog'[i].req # cur'[u]
          <6>1. u # t /\ pc'[u] = pc[u] /\ cur'[u] = cur[u]
            BY <3>1, <5>1
          <6>2. CASE i \in 1 .. n
            <7>1. pushLog'[i] = pushLog[i] /\ i \in DOMAIN pushLog
              BY <4>1, <6>2
            <7>2. pc[u] \in {"read", "id", "check", "lock", "rpush"}
              BY <5>1, <6>1
            <7>3. pushLog[i].req # cur[u]
              BY <7>1, <7>2
            <7>4. QED
              BY <6>1, <7>1, <7>3
          <6>3. CASE i = n + 1
            BY <4>1, <4>3, <5>1, <6>1, <6>3
          <6>4. QED
            BY <4>2, <6>2, <6>3
        <5>2. QED
          BY <5>1
      <4>8. QED
        BY <4>1, <4>5, <4>6, <4>7
    <3>4. QED
      BY <3>2, <3>3
  <2>7. ASSUME NEW o \in Outcomes(redisErr), IncrWrites(t, o) PROVE PushInv'
    BY <2>7 DEF IncrWrites
  <2>8. CASE Reply(t)
    BY <2>8 DEF Reply
  <2>9. CASE Trace(t)
    BY <2>9 DEF Trace
  <2>10. QED
    BY <1>8, <2>1, <2>2, <2>3, <2>4, <2>5, <2>6, <2>7, <2>8, <2>9 DEF ThreadStep
<1>9. QED
  BY <1>1, <1>2, <1>3, <1>4, <1>5, <1>6, <1>7, <1>8 DEF ProxyNext, ShutdownStep

(* Every step keeps stats:redis_writes within one push per life of the     *)
(* queue's history.                                                        *)
LEMMA LagInvStep ==
  ASSUME ProxyTypeOK, ThreadInv, LagInv, ProxyNext
  PROVE  LagInv'
<1> USE DEF ProxyTypeOK, LagInv, Goto, valkeyVars, Breaks, Executed, Outcomes
<1>1. ASSUME NEW o \in Outcomes(FALSE), Start(o) PROVE LagInv'
  BY <1>1 DEF Start, ThreadInv, NoHandlerAfterFree
<1>2. CASE Signal
  BY <1>2 DEF Signal
<1>3. CASE StopServer
  BY <1>3 DEF StopServer
<1>4. CASE FreeContext \/ StopHangs
  BY <1>4 DEF FreeContext, StopHangs
<1>5. CASE DestroyHandler
  BY <1>5 DEF DestroyHandler, ProcessGone
<1>6. CASE Crash
  BY <1>6 DEF Crash, ProcessGone
<1>7. ASSUME NEW t \in Threads, NEW r \in Requests, Accept(t, r) PROVE LagInv'
  BY <1>7 DEF Accept
<1>8. ASSUME NEW t \in Threads, ThreadStep(t) PROVE LagInv'
  <2>1. CASE ReadRequest(t)
    BY <2>1 DEF ReadRequest
  <2>2. CASE DropConnection(t)
    BY <2>2 DEF DropConnection
  <2>3. CASE GenerateId(t)
    BY <2>3 DEF GenerateId
  <2>4. CASE CheckErr(t)
    BY <2>4 DEF CheckErr
  <2>5. CASE Lock(t)
    BY <2>5 DEF Lock
  <2>6. ASSUME NEW o \in Outcomes(redisErr), Rpush(t, o) PROVE LagInv'
    <3> SUFFICES ASSUME "error" \notin Faults PROVE LagInv'
      BY DEF LagInv
    <3>1. /\ UNCHANGED <<lives, life, writes>>
          /\ pc' = [pc EXCEPT ![t] = "incr"] /\ pc[t] = "rpush"
          /\ redisErr' = (redisErr \/ Breaks(o))
      BY <2>6 DEF Rpush
    <3>2. \A u \in Threads : pc[u] # "incr"
      BY <3>1 DEF ThreadInv, MutexHolder
    <3>3. life # "down"
      BY <3>1 DEF ThreadInv, NoHandlerAfterFree
    <3>4. pc'[t] = "incr"
      BY <3>1
    <3>5. Len(pushLog) \in Nat
      BY LenProperties
    <3>6. CASE ~Executed(o)
      <4>1. pushLog' = pushLog
        BY <2>6, <3>6 DEF Rpush, RPush
      <4>2. redisErr'
        BY <2>6, <3>1, <3>6, FaultsAssumption
      <4>3. QED
        BY <3>1, <3>4, <4>1, <4>2
    <3>7. CASE Executed(o)
      <4>1. Len(pushLog') = Len(pushLog) + 1
        BY <2>6, <3>7, PushLogAppend
      <4>2. ~redisErr
        BY <3>7
      <4>3. Len(pushLog) < writes + lives
        BY <3>2, <3>3, <4>2
      <4>4. QED
        BY <3>1, <3>4, <3>5, <4>1, <4>3
    <3>8. QED
      BY <3>6, <3>7
  <2>7. ASSUME NEW o \in Outcomes(redisErr), IncrWrites(t, o) PROVE LagInv'
    <3> SUFFICES ASSUME "error" \notin Faults PROVE LagInv'
      BY DEF LagInv
    <3>1. /\ UNCHANGED <<lives, life, pushLog>>
          /\ pc' = [pc EXCEPT ![t] = "reply"] /\ pc[t] = "incr"
          /\ redisErr' = (redisErr \/ Breaks(o))
          /\ writes' = IncrKey(o, writes)
      BY <2>7 DEF IncrWrites
    <3>2. \A u \in Threads : pc'[u] # "incr"
      BY <3>1 DEF ThreadInv, MutexHolder
    <3>3. Len(pushLog) \in Nat
      BY LenProperties
    <3>4. CASE ~Executed(o)
      <4>1. writes' = writes
        BY <3>1, <3>4 DEF IncrKey
      <4>2. redisErr'
        BY <2>7, <3>1, <3>4, FaultsAssumption
      <4>3. QED
        BY <3>1, <3>2, <4>1, <4>2
    <3>5. CASE Executed(o)
      <4>1. writes' = writes + 1
        BY <3>1, <3>5 DEF IncrKey
      <4>2. ~redisErr
        BY <3>5
      <4>3. writes < Len(pushLog)
        BY <3>1, <4>2
      <4>4. QED
        BY <3>1, <3>2, <3>3, <4>1, <4>3
    <3>6. QED
      BY <3>4, <3>5
  <2>8. CASE Reply(t)
    BY <2>8 DEF Reply
  <2>9. CASE Trace(t)
    BY <2>9 DEF Trace
  <2>10. QED
    BY <1>8, <2>1, <2>2, <2>3, <2>4, <2>5, <2>6, <2>7, <2>8, <2>9 DEF ThreadStep
<1>9. QED
  BY <1>1, <1>2, <1>3, <1>4, <1>5, <1>6, <1>7, <1>8 DEF ProxyNext, ShutdownStep

(* Every step keeps the bodies of answered requests whole.                 *)
LEMMA BodyInvStep ==
  ASSUME ProxyTypeOK, ThreadInv, BodyInv, ProxyNext
  PROVE  BodyInv'
<1> USE DEF ProxyTypeOK, ThreadInv, BodyInv, AnsweredWholeBody, Goto
<1>1. ASSUME NEW o \in Outcomes(FALSE), Start(o) PROVE BodyInv'
  BY <1>1 DEF Start, NoHandlerAfterFree
<1>2. CASE Signal
  BY <1>2 DEF Signal
<1>3. CASE StopServer
  BY <1>3 DEF StopServer
<1>4. CASE FreeContext \/ StopHangs
  BY <1>4 DEF FreeContext, StopHangs
<1>5. CASE DestroyHandler
  BY <1>5 DEF DestroyHandler, ProcessGone
<1>6. CASE Crash
  BY <1>6 DEF Crash, ProcessGone
<1>7. ASSUME NEW t \in Threads, NEW r \in Requests, Accept(t, r) PROVE BodyInv'
  BY <1>7 DEF Accept
<1>8. ASSUME NEW t \in Threads, ThreadStep(t) PROVE BodyInv'
  <2>1. CASE ReadRequest(t)
    BY <2>1 DEF ReadRequest, BodiesRead, SentBody
  <2>2. CASE DropConnection(t)
    BY <2>2 DEF DropConnection
  <2>3. CASE GenerateId(t)
    BY <2>3 DEF GenerateId
  <2>4. CASE CheckErr(t)
    BY <2>4 DEF CheckErr
  <2>5. CASE Lock(t)
    BY <2>5 DEF Lock
  <2>6. ASSUME NEW o \in Outcomes(redisErr), Rpush(t, o) PROVE BodyInv'
    BY <2>6 DEF Rpush
  <2>7. ASSUME NEW o \in Outcomes(redisErr), IncrWrites(t, o) PROVE BodyInv'
    BY <2>7 DEF IncrWrites
  <2>8. CASE Reply(t)
    BY <2>8 DEF Reply
  <2>9. CASE Trace(t)
    BY <2>9 DEF Trace
  <2>10. QED
    BY <1>8, <2>1, <2>2, <2>3, <2>4, <2>5, <2>6, <2>7, <2>8, <2>9 DEF ThreadStep
<1>9. QED
  BY <1>1, <1>2, <1>3, <1>4, <1>5, <1>6, <1>7, <1>8 DEF ProxyNext, ShutdownStep

(* Every step keeps who passed RPUSH on a whole connection queued.         *)
LEMMA ReplyInvStep ==
  ASSUME ProxyTypeOK, ThreadInv, TicketInv, BodyInv, ReplyInv, ProxyNext
  PROVE  ReplyInv'
<1> USE DEF ProxyTypeOK, ReplyInv, AnsweredIsPushed, Pushed, Goto, valkeyVars, Outcomes, Breaks
<1>1. ASSUME NEW o \in Outcomes(FALSE), Start(o) PROVE ReplyInv'
  <2>1. life = "down" /\ lives' = lives + 1 /\ UNCHANGED <<pc, ticket, answered>>
    BY <1>1 DEF Start
  <2>2. \A u \in Threads : pc'[u] = "idle"
    BY <2>1 DEF ThreadInv, NoHandlerAfterFree
  <2>3. \A r \in Requests : ticket[r].life \in Nat /\ ticket[r].life <= lives
    BY DEF TicketInv
  <2>4. \A r \in answered' : ticket'[r].life # lives'
    BY <2>1, <2>3
  <2>5. QED
    BY <2>2, <2>4
<1>2. CASE Signal
  BY <1>2 DEF Signal
<1>3. CASE StopServer
  BY <1>3 DEF StopServer
<1>4. CASE FreeContext \/ StopHangs
  BY <1>4 DEF FreeContext, StopHangs
<1>5. CASE DestroyHandler
  BY <1>5 DEF DestroyHandler, ProcessGone
<1>6. CASE Crash
  BY <1>6 DEF Crash, ProcessGone
<1>7. ASSUME NEW t \in Threads, NEW r \in Requests, Accept(t, r) PROVE ReplyInv'
  BY <1>7 DEF Accept
<1>8. ASSUME NEW t \in Threads, ThreadStep(t) PROVE ReplyInv'
  <2>1. CASE ReadRequest(t)
    BY <2>1 DEF ReadRequest
  <2>2. CASE DropConnection(t)
    BY <2>2 DEF DropConnection
  <2>3. CASE GenerateId(t)
    <3>1. /\ pc[t] = "id" /\ UNCHANGED <<life, lives, redisErr, cur, answered, pushLog>>
          /\ pc' = [pc EXCEPT ![t] = "check"]
          /\ \A r \in Requests : r # cur[t] => ticket'[r] = ticket[r]
      BY <2>3 DEF GenerateId
    <3>2. cur[t] \notin answered
      BY <3>1 DEF BodyInv
    <3>3. \A r \in answered : ticket'[r] = ticket[r]
      BY <3>1, <3>2
    <3>4. \A u \in Threads :
            pc'[u] \in {"incr", "reply", "trace"} => pc'[u] = pc[u] /\ cur'[u] = cur[u]
      BY <3>1
    <3>5. QED
      BY <3>1, <3>3, <3>4
  <2>4. CASE CheckErr(t)
    BY <2>4 DEF CheckErr
  <2>5. CASE Lock(t)
    BY <2>5 DEF Lock
  <2>6. ASSUME NEW o \in Outcomes(redisErr), Rpush(t, o) PROVE ReplyInv'
    <3> SUFFICES ASSUME "error" \notin Faults, life' # "down", ~redisErr' PROVE ReplyInv'
      BY DEF ReplyInv
    <3>1. o = "ok" /\ ~redisErr /\ life # "down"
      BY <2>6, FaultsAssumption DEF Rpush
    <3>2. Executed(o)
      BY <3>1 DEF Executed
    <3>3. /\ UNCHANGED <<cur, answered, life, lives, ticket>> /\ ~redisErr'
          /\ pc' = [pc EXCEPT ![t] = "incr"] /\ pc[t] = "rpush"
      BY <2>6, <3>1 DEF Rpush
    <3> DEFINE n == Len(pushLog)
    <3>4. /\ n \in Nat /\ DOMAIN pushLog = 1 .. n /\ DOMAIN pushLog' = 1 .. n + 1
          /\ \A i \in 1 .. n : pushLog'[i] = pushLog[i]
          /\ pushLog'[n + 1].req = cur[t]
      BY <2>6, <3>2, PushLogAppend
    <3> HIDE DEF n
    <3>5. \A r : Pushed(r) => Pushed(r)'
      BY <3>4
    <3>6. Pushed(cur[t])'
      <4>1. n + 1 \in DOMAIN pushLog' /\ pushLog'[n + 1].req = cur'[t]
        BY <3>3, <3>4
      <4>2. QED
        BY <4>1
    <3>7. ASSUME NEW u \in Threads, pc'[u] \in {"incr", "reply", "trace"}
          PROVE  Pushed(cur[u])'
      <4>1. CASE u = t
        BY <3>6, <4>1
      <4>2. CASE u # t
        <5>1. pc[u] \in {"incr", "reply", "trace"}
          BY <3>3, <3>7, <4>2
        <5>2. Pushed(cur[u])
          BY <3>1, <5>1
        <5>3. QED
          BY <3>3, <3>5, <5>2
      <4>3. QED
        BY <4>1, <4>2
    <3>8. \A r \in answered' : ticket'[r].life = lives' => Pushed(r)'
      BY <3>1, <3>3, <3>5
    <3>9. QED
      BY <3>7, <3>8
  <2>7. ASSUME NEW o \in Outcomes(redisErr), IncrWrites(t, o) PROVE ReplyInv'
    BY <2>7 DEF IncrWrites
  <2>8. CASE Reply(t)
    BY <2>8 DEF Reply
  <2>9. CASE Trace(t)
    BY <2>9 DEF Trace
  <2>10. QED
    BY <1>8, <2>1, <2>2, <2>3, <2>4, <2>5, <2>6, <2>7, <2>8, <2>9 DEF ThreadStep
<1>9. QED
  BY <1>1, <1>2, <1>3, <1>4, <1>5, <1>6, <1>7, <1>8 DEF ProxyNext, ShutdownStep

(* The invariant is inductive and holds in every reachable state. *)
THEOREM ProxyInvariance == ProxySpec => []ProxyInv
<1>1. ProxyInit => ProxyInv
  BY InitInv
<1>2. ProxyInv /\ [ProxyNext]_<<proxyVars, valkeyVars>> => ProxyInv'
  <2> SUFFICES ASSUME ProxyInv, [ProxyNext]_<<proxyVars, valkeyVars>> PROVE ProxyInv'
    OBVIOUS
  <2> USE DEF ProxyInv
  <2>1. CASE ProxyNext
    BY <2>1, TypeStep, ThreadInvStep, TicketInvStep, PushInvStep, LagInvStep, BodyInvStep, ReplyInvStep
  <2>2. CASE UNCHANGED <<proxyVars, valkeyVars>>
    <3>1. ProxyTypeOK' /\ ThreadInv' /\ TicketInv'
      BY <2>2 DEF proxyVars, valkeyVars, ProxyTypeOK, ThreadInv, NoHandlerAfterFree, MutexHolder,
                  TicketInv, UniqueIds
    <3>2. PushInv' /\ LagInv'
      BY <2>2 DEF proxyVars, valkeyVars, PushInv, PushedOnce, Item, LagInv
    <3>3. BodyInv' /\ ReplyInv'
      BY <2>2 DEF proxyVars, valkeyVars, BodyInv, AnsweredWholeBody, ReplyInv, AnsweredIsPushed, Pushed
    <3>4. QED
      BY <3>1, <3>2, <3>3
  <2>3. QED
    BY <2>1, <2>2
<1>3. QED
  BY <1>1, <1>2, PTL DEF ProxySpec

(* The variables keep their types. *)
THEOREM TypeCorrect == ProxySpec => []ProxyTypeOK
BY ProxyInvariance, PTL DEF ProxyInv

(* Exactly the holder of the mutex is between RPUSH and INCR. *)
THEOREM MutualExclusion == ProxySpec => []MutexHolder
<1>1. ProxyInv => MutexHolder
  BY DEF ProxyInv, ThreadInv
<1>2. QED
  BY <1>1, ProxyInvariance, PTL

(* No handler runs on the freed context. *)
THEOREM ContextOutlivesHandlers == ProxySpec => []NoHandlerAfterFree
<1>1. ProxyInv => NoHandlerAfterFree
  BY DEF ProxyInv, ThreadInv
<1>2. QED
  BY <1>1, ProxyInvariance, PTL

(* Ids are unique within a life of the process. *)
THEOREM IdsUnique == ProxySpec => []UniqueIds
<1>1. ProxyInv => UniqueIds
  BY DEF ProxyInv, TicketInv
<1>2. QED
  BY <1>1, ProxyInvariance, PTL

(* Nothing is pushed twice and what is pushed stays as it was pushed. *)
THEOREM PushesOnce == ProxySpec => []PushedOnce
<1>1. ProxyInv => PushedOnce
  BY DEF ProxyInv, PushInv
<1>2. QED
  BY <1>1, ProxyInvariance, PTL

(* The write count is off by at most one push for each life. *)
THEOREM WritesBound == ProxySpec => []WritesTrackPushes
<1>1. ProxyInv => WritesTrackPushes
  BY DEF ProxyInv, LagInv, WritesTrackPushes
<1>2. QED
  BY <1>1, ProxyInvariance, PTL

(* A stop cuts the body of no client that gets a 200: all of it was read,  *)
(* unless it was chunked or contained a NUL byte.                          *)
THEOREM AnsweredBodies == ProxySpec => []AnsweredWholeBody
<1>1. ProxyInv => AnsweredWholeBody
  BY DEF ProxyInv, BodyInv
<1>2. QED
  BY <1>1, ProxyInvariance, PTL

(* While the connection is whole, who is answered is queued. *)
THEOREM AnsweredQueued == ProxySpec => []AnsweredIsPushed
<1>1. ProxyInv => AnsweredIsPushed
  BY DEF ProxyInv, ReplyInv, AnsweredIsPushed
<1>2. QED
  BY <1>1, ProxyInvariance, PTL
=============================================================================
