---------------------------- MODULE SystemProofs ----------------------------
(***************************************************************************)
(* Proofs about the deployed system with a Valkey that restarts, for every *)
(* set of threads and requests, every choice of faults and ends, and any   *)
(* number of lives and restarts.                                           *)
(***************************************************************************)
EXTENDS SystemInductive, ProxyProofs, FiniteSetTheorems

(* Appending to a list. *)
LEMMA AppendElements ==
  ASSUME NEW S, NEW s \in Seq(S), NEW e \in S
  PROVE  /\ Append(s, e) \in Seq(S)
         /\ Len(s) \in Nat /\ Len(Append(s, e)) = Len(s) + 1
         /\ DOMAIN s = 1 .. Len(s) /\ DOMAIN Append(s, e) = 1 .. Len(s) + 1
         /\ \A i \in DOMAIN s : Append(s, e)[i] = s[i]
         /\ Append(s, e)[Len(s) + 1] = e
         /\ \A i \in DOMAIN Append(s, e) : i \in DOMAIN s \/ i = Len(s) + 1
<1>1. Len(s) \in Nat /\ DOMAIN s = 1 .. Len(s)
  BY LenProperties
<1>2. /\ Append(s, e) \in Seq(S) /\ Len(Append(s, e)) = Len(s) + 1
      /\ \A i \in 1 .. Len(s) : Append(s, e)[i] = s[i]
      /\ Append(s, e)[Len(s) + 1] = e
  BY AppendProperties
<1>3. DOMAIN Append(s, e) = 1 .. Len(s) + 1
  BY <1>2, LenProperties
<1>4. \A i \in 1 .. Len(s) + 1 : i \in 1 .. Len(s) \/ i = Len(s) + 1
  BY <1>1
<1>5. QED
  BY <1>1, <1>2, <1>3, <1>4

(* Taking the first element of a list. *)
LEMMA TailElements ==
  ASSUME NEW S, NEW s \in Seq(S), s # << >>
  PROVE  /\ Tail(s) \in Seq(S)
         /\ Len(s) \in Nat /\ Len(s) > 0 /\ Len(Tail(s)) = Len(s) - 1
         /\ 1 \in DOMAIN s /\ Head(s) = s[1] /\ Head(s) \in S
         /\ \A i \in DOMAIN Tail(s) :
              i \in Nat /\ i > 0 /\ i + 1 \in DOMAIN s /\ Tail(s)[i] = s[i + 1]
<1>1. Len(s) \in Nat \ {0} /\ DOMAIN s = 1 .. Len(s)
  BY EmptySeq, LenProperties
<1>2. /\ Tail(s) \in Seq(S) /\ Len(Tail(s)) = Len(s) - 1 /\ Head(s) \in S
      /\ \A i \in 1 .. Len(Tail(s)) : Tail(s)[i] = s[i + 1]
  BY HeadTailProperties
<1>3. DOMAIN Tail(s) = 1 .. Len(s) - 1
  BY <1>2, LenProperties
<1>4. Head(s) = s[1]
  BY <1>1
<1>5. QED
  BY <1>1, <1>2, <1>3, <1>4

(* What a step of the proxy may do to the keys it shares with the worker:  *)
(* nothing, or one push.                                                   *)
LEMMA ProxyFrame ==
  ASSUME ProxyNext
  PROVE  /\ UNCHANGED <<reads, responses>>
         /\ \/ UNCHANGED <<requests, pushLog>>
            \/ \E t \in Threads :
                 /\ pc[t] = "rpush" /\ pc' = [pc EXCEPT ![t] = "incr"]
                 /\ UNCHANGED <<life, lives, cur, arrived, ticket, body, writes>>
                 /\ requests' = Append(requests, Item(cur[t]))
                 /\ pushLog' = Append(pushLog, Item(cur[t]))
<1> USE DEF valkeyVars
<1>1. ASSUME NEW t \in Threads, NEW o \in Outcomes(redisErr), Rpush(t, o)
      PROVE  /\ UNCHANGED <<reads, responses>>
             /\ \/ UNCHANGED <<requests, pushLog>>
                \/ /\ pc[t] = "rpush" /\ pc' = [pc EXCEPT ![t] = "incr"]
                   /\ UNCHANGED <<life, lives, cur, arrived, ticket, body, writes>>
                   /\ requests' = Append(requests, Item(cur[t]))
                   /\ pushLog' = Append(pushLog, Item(cur[t]))
  BY <1>1 DEF Rpush, RPush, Goto
<1>2. ASSUME NEW t \in Threads, ThreadStep(t),
             ~(\E o \in Outcomes(redisErr) : Rpush(t, o))
      PROVE  UNCHANGED <<reads, responses, requests, pushLog>>
  BY <1>2 DEF ThreadStep, ReadRequest, DropConnection, GenerateId, CheckErr, Lock, IncrWrites,
              Reply, Trace
<1>3. ASSUME NEW t \in Threads, NEW r \in Requests, Accept(t, r)
      PROVE  UNCHANGED <<reads, responses, requests, pushLog>>
  BY <1>3 DEF Accept
<1>4. CASE \E t \in Threads : ThreadStep(t)
  BY <1>1, <1>2, <1>4
<1>5. CASE ~(\E t \in Threads : ThreadStep(t))
  BY <1>3, <1>5 DEF ProxyNext, Start, Signal, ShutdownStep, StopServer, FreeContext,
                    StopHangs, DestroyHandler, Crash, ProcessGone
<1>6. QED
  BY <1>4, <1>5

(* A step of the proxy changes no request that is settled. *)
LEMMA SettledStep ==
  ASSUME ProxyTypeOK, ThreadInv, ProxyNext
  PROVE  /\ Settled \subseteq Settled'
         /\ \A r \in Settled : r \in Requests /\ ticket'[r] = ticket[r] /\ body'[r] = body[r]
<1> USE DEF ProxyTypeOK, Settled, BeforePush, Goto
<1> DEFINE Keeps == /\ Settled \subseteq Settled'
                    /\ \A r \in Settled : ticket'[r] = ticket[r] /\ body'[r] = body[r]
<1>0. \A r \in Settled : r \in Requests
  OBVIOUS
<1>1. ASSUME NEW o \in Outcomes(FALSE), Start(o) PROVE Keeps
  BY <1>1 DEF Start
<1>2. CASE Signal
  BY <1>2 DEF Signal
<1>3. CASE StopServer
  BY <1>3 DEF StopServer
<1>4. CASE FreeContext \/ StopHangs
  BY <1>4 DEF FreeContext, StopHangs
<1>5. CASE DestroyHandler
  BY <1>5 DEF DestroyHandler, ProcessGone
<1>6. CASE Crash
  BY <1>6 DEF Crash, ProcessGone
<1>7. ASSUME NEW t \in Threads, NEW r \in Requests, Accept(t, r) PROVE Keeps
  BY <1>7 DEF Accept
<1>8. ASSUME NEW t \in Threads, ThreadStep(t) PROVE Keeps
  <2>0. pc[t] # "idle" => cur[t] \in Requests
    BY DEF ThreadInv
  <2>1. CASE ReadRequest(t)
    BY <2>0, <2>1 DEF ReadRequest
  <2>2. CASE DropConnection(t)
    BY <2>2 DEF DropConnection
  <2>3. CASE GenerateId(t)
    BY <2>0, <2>3 DEF GenerateId
  <2>4. CASE CheckErr(t)
    BY <2>4 DEF CheckErr
  <2>5. CASE Lock(t)
    BY <2>5 DEF Lock
  <2>6. ASSUME NEW o \in Outcomes(redisErr), Rpush(t, o) PROVE Keeps
    BY <2>6 DEF Rpush
  <2>7. ASSUME NEW o \in Outcomes(redisErr), IncrWrites(t, o) PROVE Keeps
    BY <2>7 DEF IncrWrites
  <2>8. CASE Reply(t)
    BY <2>8 DEF Reply
  <2>9. CASE Trace(t)
    BY <2>9 DEF Trace
  <2>10. QED
    BY <1>8, <2>1, <2>2, <2>3, <2>4, <2>5, <2>6, <2>7, <2>8, <2>9 DEF ThreadStep
<1>9. QED
  BY <1>0, <1>1, <1>2, <1>3, <1>4, <1>5, <1>6, <1>7, <1>8 DEF ProxyNext, ShutdownStep

(* So what is final stays final. *)
LEMMA FinalStep ==
  ASSUME ProxyTypeOK, ThreadInv, ProxyNext
  PROVE  FinalItems \subseteq FinalItems'
BY SettledStep DEF FinalItems, Item

(* Whoever is about to push has an id of this life. *)
LEMMA IdInvStep ==
  ASSUME ProxyTypeOK, ThreadInv, IdInv, ProxyNext
  PROVE  IdInv'
<1> USE DEF ProxyTypeOK, IdInv, Goto
<1>1. ASSUME NEW o \in Outcomes(FALSE), Start(o) PROVE IdInv'
  BY <1>1 DEF Start
<1>2. CASE Signal
  BY <1>2 DEF Signal
<1>3. CASE StopServer
  BY <1>3 DEF StopServer
<1>4. CASE FreeContext \/ StopHangs
  BY <1>4 DEF FreeContext, StopHangs
<1>5. CASE DestroyHandler
  BY <1>5 DEF DestroyHandler, ProcessGone
<1>6. CASE Crash
  BY <1>6 DEF Crash, ProcessGone
<1>7. ASSUME NEW t \in Threads, NEW r \in Requests, Accept(t, r) PROVE IdInv'
  BY <1>7 DEF Accept
<1>8. ASSUME NEW t \in Threads, ThreadStep(t) PROVE IdInv'
  <2>0. pc[t] # "idle" => cur[t] \in Requests
    BY DEF ThreadInv
  <2>1. CASE ReadRequest(t)
    BY <2>1 DEF ReadRequest
  <2>2. CASE DropConnection(t)
    BY <2>2 DEF DropConnection
  <2>3. CASE GenerateId(t)
    <3>1. lives # 0
      BY <2>3 DEF GenerateId, ThreadInv, NoHandlerAfterFree
    <3>2. QED
      BY <2>0, <2>3, <3>1 DEF GenerateId, ThreadInv
  <2>4. CASE CheckErr(t)
    BY <2>4 DEF CheckErr
  <2>5. CASE Lock(t)
    BY <2>5 DEF Lock
  <2>6. ASSUME NEW o \in Outcomes(redisErr), Rpush(t, o) PROVE IdInv'
    BY <2>6 DEF Rpush
  <2>7. ASSUME NEW o \in Outcomes(redisErr), IncrWrites(t, o) PROVE IdInv'
    BY <2>7 DEF IncrWrites
  <2>8. CASE Reply(t)
    BY <2>8 DEF Reply
  <2>9. CASE Trace(t)
    BY <2>9 DEF Trace
  <2>10. QED
    BY <1>8, <2>1, <2>2, <2>3, <2>4, <2>5, <2>6, <2>7, <2>8, <2>9 DEF ThreadStep
<1>9. QED
  BY <1>1, <1>2, <1>3, <1>4, <1>5, <1>6, <1>7, <1>8 DEF ProxyNext, ShutdownStep

(* A push makes its item final, and its request was not settled before. *)
LEMMA PushSettles ==
  ASSUME ProxyTypeOK, ThreadInv, IdInv,
         NEW t \in Threads, pc[t] = "rpush", pc' = [pc EXCEPT ![t] = "incr"],
         UNCHANGED <<life, lives, cur, arrived, ticket, body, writes>>
  PROVE  /\ Item(cur[t]) \in Items /\ Item(cur[t]).req = cur[t]
         /\ Item(cur[t]) \in FinalItems' /\ cur[t] \notin Settled
<1>1. cur[t] \in arrived /\ cur[t] \in Requests
  BY DEF ProxyTypeOK, ThreadInv
<1>2. Item(cur[t]) \in Items /\ Item(cur[t]).req = cur[t]
  BY <1>1 DEF ProxyTypeOK, Item, Items, Method
<1>3. cur[t] \notin Settled
  BY DEF Settled, BeforePush
<1>4. cur[t] \in Settled'
  <2>1. \A u \in Threads : (u # t /\ pc[u] # "idle") => cur[u] # cur[t]
    BY DEF ThreadInv
  <2>2. \A u \in Threads : pc'[u] \in BeforePush => cur'[u] # cur[t]
    BY <2>1 DEF ProxyTypeOK, BeforePush
  <2>3. QED
    BY <1>1, <2>2 DEF Settled, IdInv
<1>5. Item(cur[t])' = Item(cur[t])
  BY DEF Item
<1>6. QED
  BY <1>2, <1>3, <1>4, <1>5 DEF FinalItems, Item

(* What does not touch the proxy's processes keeps what is said of them. *)
LEMMA ProcessKept ==
  ASSUME UNCHANGED <<life, lives, counter, mutex, pc, cur, arrived, ticket, body>>
  PROVE  /\ ThreadInv => ThreadInv'
         /\ TicketInv => TicketInv'
         /\ IdInv => IdInv'
         /\ Settled' = Settled
         /\ FinalItems' = FinalItems
<1>1. ThreadInv => ThreadInv'
  BY DEF ThreadInv, NoHandlerAfterFree, MutexHolder
<1>2. TicketInv => TicketInv'
  BY DEF TicketInv, UniqueIds
<1>3. IdInv => IdInv'
  BY DEF IdInv
<1>4. Settled' = Settled
  BY DEF Settled
<1>5. FinalItems' = FinalItems
  BY <1>4 DEF FinalItems, Item
<1>6. QED
  BY <1>1, <1>2, <1>3, <1>4, <1>5

Call == [req : Requests, method : {"GET", "POST"}, body : Bodies \cup {"stale"}]

(* What the L2 server is sent is a call. *)
LEMMA L2CallType ==
  ASSUME NEW item \in Items
  PROVE  L2Call(item) \in Call /\ L2Call(item).req = item.req
BY DEF L2Call, Items, Call

(* What a step of the worker may do to the keys and to the L2 server's log.*)
LEMMA WorkerFrame ==
  ASSUME TypeOK, WorkerNext
  PROVE  /\ UNCHANGED <<writes, savedCounter, pushLog>>
         /\ requests' \in Seq(Items)
         /\ \/ requests' = requests
            \/ requests # << >> /\ requests' = Tail(requests)
         /\ \/ l2log' = l2log
            \/ wpc = "curl" /\ l2log' = Append(l2log, L2Call(witem))
<1> USE DEF valkeyVars
<1>1. requests \in Seq(Items)
  BY DEF TypeOK, ProxyTypeOK
<1>2. requests # << >> => Tail(requests) \in Seq(Items)
  BY <1>1, TailElements
<1>3. ASSUME WorkerStep
      PROVE  /\ UNCHANGED <<writes, savedCounter, pushLog>>
             /\ \/ requests' = requests
                \/ requests # << >> /\ requests' = Tail(requests)
             /\ \/ l2log' = l2log
                \/ wpc = "curl" /\ l2log' = Append(l2log, L2Call(witem))
  BY <1>3 DEF WorkerStep, WExit, WorkerGone, EnterPoll, PollItem, PollTimeout, PollError, PollBroken,
              CallL2, StoreResponse, WTrace, IncrReads
<1>4. QED
  BY <1>1, <1>2, <1>3
     DEF WorkerNext, WStart, WSignal, WCrash, WorkerGone, OrphanPop, OrphanClosed

(* The counts of refused commands are numbers. *)
LEMMA RefusalTypes ==
  ASSUME TypeOK, CountRefusals
  PROVE  /\ refusedWrites' \in Nat /\ refusedReads' \in Nat
         /\ refusedWrites' = refusedWrites \/ refusedWrites' = refusedWrites + 1
         /\ refusedReads' = refusedReads \/ refusedReads' = refusedReads + 1
BY DEF TypeOK, CountRefusals

(* A step of the worker keeps the types. *)
LEMMA WorkerTypeStep ==
  ASSUME TypeOK, Handling => witem \in Items, OfWorker(WorkerNext)
  PROVE  TypeOK'
<1>1. ProxyTypeOK'
  <2>1. UNCHANGED proxyVars /\ UNCHANGED <<writes, savedCounter, pushLog>> /\ requests' \in Seq(Items)
    BY WorkerFrame DEF OfWorker
  <2>2. QED
    BY <2>1 DEF TypeOK, ProxyTypeOK, proxyVars
<1>2. refusedWrites' \in Nat /\ refusedReads' \in Nat
  BY RefusalTypes DEF OfWorker
<1>3. l2log' \in Seq(Call)
  <2>1. l2log \in Seq(Call)
    BY DEF TypeOK, Call
  <2>2. CASE wpc = "curl" /\ l2log' = Append(l2log, L2Call(witem))
    BY <2>1, <2>2, L2CallType, AppendElements DEF Handling
  <2>3. QED
    BY <2>1, <2>2, WorkerFrame DEF OfWorker
<1> DEFINE Rest == /\ wpc' \in WorkerSteps /\ wlives' \in Nat
                   /\ wshutdown' \in BOOLEAN /\ werr' \in BOOLEAN
                   /\ witem' \in Items \cup {NoItem} /\ wresult' \in {"ok", "error"}
                   /\ curl' \in {"fresh", "post"} /\ orphanPolls' \in Nat /\ reads' \in Nat
                   /\ DOMAIN responses' \subseteq Nat
                   /\ \A id \in DOMAIN responses' :
                        responses'[id] \in [req : Requests, result : {"ok", "error"}]
<1> USE DEF TypeOK, WorkerSteps, WGoto, valkeyVars
<1>4. ASSUME WorkerStep PROVE Rest
  <2>1. CASE WExit \/ EnterPoll \/ PollTimeout \/ PollError \/ WTrace
    BY <2>1 DEF WExit, WorkerGone, EnterPoll, PollTimeout, PollError, WTrace
  <2>2. CASE PollItem
    <3>1. Head(requests) \in Items
      BY <2>2, TailElements DEF PollItem, ProxyTypeOK
    <3>2. QED
      BY <2>2, <3>1 DEF PollItem
  <2>3. ASSUME NEW o \in Outcomes(werr), PollBroken(o) PROVE Rest
    BY <2>3 DEF PollBroken
  <2>4. ASSUME NEW o \in {"ok"} \cup L2Faults, CallL2(o) PROVE Rest
    BY <2>4 DEF CallL2
  <2>5. ASSUME NEW o \in Outcomes(werr), StoreResponse(o) PROVE Rest
    <3>1. witem \in Items
      BY <2>5 DEF StoreResponse, Handling
    <3>2. witem.id \in Nat /\ [req |-> witem.req, result |-> wresult] \in [req : Requests, result : {"ok", "error"}]
      BY <3>1 DEF Items
    <3>3. QED
      BY <2>5, <3>2 DEF StoreResponse, SetEx, Breaks
  <2>6. ASSUME NEW o \in Outcomes(werr), IncrReads(o) PROVE Rest
    BY <2>6 DEF IncrReads, IncrKey, Breaks
  <2>7. QED
    BY <1>4, <2>1, <2>2, <2>3, <2>4, <2>5, <2>6 DEF WorkerStep
<1>5. Rest
  <2>1. CASE WStart \/ WSignal
    <3>1. UNCHANGED <<werr, witem, wresult, curl, orphanPolls, reads, responses>>
      BY <2>1 DEF WStart, WSignal
    <3>2. wpc' \in WorkerSteps /\ wlives' \in Nat
      BY <2>1 DEF WStart, WSignal
    <3>3. wshutdown' \in BOOLEAN
      BY <2>1 DEF WStart, WSignal
    <3>4. QED
      BY <3>1, <3>2, <3>3
  <2>2. CASE WCrash
    <3>1. wpc' \in WorkerSteps /\ wlives' \in Nat
      BY <2>2 DEF WCrash, WorkerGone
    <3>2. wshutdown' \in BOOLEAN /\ werr' \in BOOLEAN
      BY <2>2 DEF WCrash, WorkerGone
    <3>3. witem' \in Items \cup {NoItem} /\ wresult' \in {"ok", "error"}
      BY <2>2 DEF WCrash, WorkerGone
    <3>4. curl' \in {"fresh", "post"} /\ orphanPolls' \in Nat /\ reads' \in Nat
      BY <2>2 DEF WCrash, WorkerGone
    <3>5. responses' = responses
      BY <2>2 DEF WCrash, WorkerGone
    <3>6. QED
      BY <3>1, <3>2, <3>3, <3>4, <3>5
  <2>3. CASE OrphanPop \/ OrphanClosed
    BY <2>3 DEF OrphanPop, OrphanClosed
  <2>4. QED
    BY <1>4, <2>1, <2>2, <2>3 DEF OfWorker, WorkerNext
<1>6. l2log' \in Seq([req : Requests, method : {"GET", "POST"}, body : Bodies \cup {"stale"}])
  BY <1>3 DEF Call
<1>7. QED
  BY <1>1, <1>2, <1>5, <1>6

(* Every step keeps the types. *)
LEMMA SystemTypeStep ==
  ASSUME TypeOK, DurableTypeOK, ThreadInv, Handling => witem \in Items, RestartNext
  PROVE  TypeOK' /\ DurableTypeOK'
<1>1. CASE OfProxy(ProxyNext) /\ UNCHANGED restartVars
  <2>1. ProxyTypeOK'
    BY <1>1, TypeStep DEF TypeOK, OfProxy
  <2>2. refusedWrites' \in Nat /\ refusedReads' \in Nat
    BY <1>1, RefusalTypes DEF OfProxy
  <2>3. UNCHANGED workerVars /\ UNCHANGED <<reads, responses>>
    BY <1>1, ProxyFrame DEF OfProxy
  <2>4. DurableTypeOK'
    BY <1>1 DEF DurableTypeOK, restartVars
  <2>5. QED
    BY <2>1, <2>2, <2>3, <2>4 DEF TypeOK, workerVars
<1>2. CASE OfWorker(WorkerNext) /\ UNCHANGED restartVars
  BY <1>2, WorkerTypeStep DEF DurableTypeOK, restartVars
<1>3. ASSUME NEW id \in DOMAIN responses, Expire(id),
             UNCHANGED <<proxyVars, workerVars, refusedWrites, refusedReads>>, UNCHANGED restartVars
      PROVE  TypeOK' /\ DurableTypeOK'
  <2>1. DurableTypeOK'
    BY <1>3 DEF DurableTypeOK, restartVars
  <2>2. ProxyTypeOK'
    BY <1>3 DEF TypeOK, ProxyTypeOK, proxyVars, Expire
  <2>3. QED
    BY <1>3, <2>1, <2>2 DEF TypeOK, workerVars, Expire
<1>4. CASE Fsync
  <2>1. UNCHANGED vars /\ durable' = Keys /\ restarts' = restarts
    BY <1>4 DEF Fsync
  <2>2. TypeOK'
    BY <2>1 DEF TypeOK, ProxyTypeOK, vars, proxyVars, workerVars, valkeyVars
  <2>3. QED
    BY <2>1, <2>2 DEF DurableTypeOK, Keys, TypeOK, ProxyTypeOK, vars
<1>5. CASE Restart
  <2>1. ProxyTypeOK'
    BY <1>5 DEF Restart, TypeOK, ProxyTypeOK, DurableTypeOK
  <2>2. DurableTypeOK'
    BY <1>5 DEF Restart, DurableTypeOK
  <2>3. QED
    BY <1>5, <2>1, <2>2 DEF Restart, TypeOK, DurableTypeOK
<1>6. QED
  BY <1>1, <1>2, <1>3, <1>4, <1>5 DEF RestartNext, Next

(* A list of final items stays one when its first item is taken ... *)
LEMMA TailFinal ==
  ASSUME NEW s \in Seq(Items), s # << >>,
         \A i \in DOMAIN s : s[i] \in FinalItems, Distinct(s)
  PROVE  /\ Head(s) \in FinalItems
         /\ \A i \in DOMAIN Tail(s) : Tail(s)[i] \in FinalItems
         /\ Distinct(Tail(s))
         /\ \A i \in DOMAIN Tail(s) : Tail(s)[i].req # Head(s).req
<1>1. /\ 1 \in DOMAIN s /\ Head(s) = s[1]
      /\ \A i \in DOMAIN Tail(s) :
           i \in Nat /\ i > 0 /\ i + 1 \in DOMAIN s /\ Tail(s)[i] = s[i + 1]
  BY TailElements
<1>2. ASSUME NEW i \in DOMAIN Tail(s) PROVE Tail(s)[i].req # Head(s).req
  BY <1>1 DEF Distinct
<1>3. ASSUME NEW i \in DOMAIN Tail(s), NEW j \in DOMAIN Tail(s), Tail(s)[i].req = Tail(s)[j].req
      PROVE  i = j
  <2>1. i + 1 = j + 1
    BY <1>1, <1>3 DEF Distinct
  <2>2. QED
    BY <1>1, <2>1
<1>4. QED
  BY <1>1, <1>2, <1>3 DEF Distinct

(* ... and when an item of a new request is appended. *)
LEMMA AppendDistinct ==
  ASSUME NEW s \in Seq(Items), \A i \in DOMAIN s : s[i] \in FinalItems, Distinct(s),
         NEW e \in Items, e.req \notin Settled
  PROVE  /\ \A i \in DOMAIN Append(s, e) : Append(s, e)[i] \in FinalItems \/ Append(s, e)[i] = e
         /\ Distinct(Append(s, e))
<1>1. /\ \A i \in DOMAIN s : Append(s, e)[i] = s[i] /\ s[i].req # e.req
      /\ Append(s, e)[Len(s) + 1] = e
      /\ \A i \in DOMAIN Append(s, e) : i \in DOMAIN s \/ i = Len(s) + 1
  BY AppendElements DEF FinalItems
<1>2. QED
  BY <1>1 DEF Distinct

(* The worker holds an item because it held it or has popped it. *)
LEMMA HandFrame ==
  ASSUME WorkerNext, Handling'
  PROVE  \/ Handling /\ witem' = witem
         \/ /\ wpc = "blpop" /\ requests # << >>
            /\ witem' = Head(requests) /\ requests' = Tail(requests)
<1> USE DEF Handling, WGoto
<1>1. ASSUME NEW o \in Outcomes(werr), PollBroken(o) PROVE FALSE
  BY <1>1 DEF PollBroken
<1>2. ASSUME NEW o \in {"ok"} \cup L2Faults, CallL2(o) PROVE Handling /\ witem' = witem
  BY <1>2 DEF CallL2
<1>3. ASSUME NEW o \in Outcomes(werr), StoreResponse(o) PROVE Handling /\ witem' = witem
  BY <1>3 DEF StoreResponse
<1>4. ASSUME NEW o \in Outcomes(werr), IncrReads(o) PROVE FALSE
  BY <1>4 DEF IncrReads
<1>5. QED
  BY <1>1, <1>2, <1>3, <1>4
     DEF WorkerNext, WorkerStep, WStart, WSignal, WCrash, WExit, WorkerGone, EnterPoll, PollItem,
         PollTimeout, PollError, WTrace, OrphanPop, OrphanClosed

(* Every step keeps all items final and all lists free of repetition. *)
LEMMA ItemInvStep ==
  ASSUME TypeOK, DurableTypeOK, ThreadInv, IdInv, ItemInv, RestartNext
  PROVE  ItemInv'
<1>0. requests \in Seq(Items) /\ pushLog \in Seq(Items)
  BY DEF TypeOK, ProxyTypeOK
<1>1. CASE OfProxy(ProxyNext) /\ UNCHANGED restartVars
  <2>1. FinalItems \subseteq FinalItems'
    BY <1>1, FinalStep DEF OfProxy, TypeOK
  <2>2. durable' = durable /\ witem' = witem /\ wpc' = wpc
    BY <1>1 DEF OfProxy, workerVars, restartVars
  <2>3. CASE UNCHANGED <<requests, pushLog>>
    BY <2>1, <2>2, <2>3 DEF ItemInv, Distinct, Handling
  <2>4. ASSUME NEW t \in Threads, pc[t] = "rpush", pc' = [pc EXCEPT ![t] = "incr"],
               UNCHANGED <<life, lives, cur, arrived, ticket, body, writes>>,
               requests' = Append(requests, Item(cur[t])),
               pushLog' = Append(pushLog, Item(cur[t]))
        PROVE  ItemInv'
    <3>1. /\ Item(cur[t]) \in Items /\ Item(cur[t]) \in FinalItems'
          /\ Item(cur[t]).req \notin Settled
      BY <2>4, PushSettles DEF TypeOK
    <3>2. /\ \A i \in DOMAIN requests' : requests'[i] \in FinalItems \/ requests'[i] = Item(cur[t])
          /\ Distinct(Append(requests, Item(cur[t])))
      BY <1>0, <2>4, <3>1, AppendDistinct DEF ItemInv
    <3>3. /\ \A i \in DOMAIN pushLog' : pushLog'[i] \in FinalItems \/ pushLog'[i] = Item(cur[t])
          /\ Distinct(Append(pushLog, Item(cur[t])))
      BY <1>0, <2>4, <3>1, AppendDistinct DEF ItemInv
    <3>4. QED
      BY <2>1, <2>2, <2>4, <3>1, <3>2, <3>3 DEF ItemInv, Distinct, Handling
  <2>5. QED
    BY <1>1, <2>3, <2>4, ProxyFrame DEF OfProxy
<1>2. CASE OfWorker(WorkerNext) /\ UNCHANGED restartVars
  <2>1. FinalItems' = FinalItems /\ durable' = durable /\ pushLog' = pushLog
    BY <1>2, ProcessKept, WorkerFrame DEF OfWorker, proxyVars, restartVars
  <2>2. /\ \A i \in DOMAIN requests' : requests'[i] \in FinalItems
        /\ Distinct(requests')
    BY <1>0, <1>2, WorkerFrame, TailFinal DEF OfWorker, ItemInv
  <2>3. Handling' => witem' \in FinalItems
    BY <1>0, <1>2, HandFrame, TailFinal DEF OfWorker, ItemInv
  <2>4. QED
    BY <2>1, <2>2, <2>3 DEF ItemInv, Distinct
<1>3. ASSUME NEW id \in DOMAIN responses, Expire(id),
             UNCHANGED <<proxyVars, workerVars, refusedWrites, refusedReads>>, UNCHANGED restartVars
      PROVE  ItemInv'
  <2>1. FinalItems' = FinalItems
    BY <1>3, ProcessKept DEF proxyVars
  <2>2. UNCHANGED <<requests, pushLog, durable, witem, wpc>>
    BY <1>3 DEF Expire, workerVars, restartVars
  <2>3. QED
    BY <2>1, <2>2 DEF ItemInv, Distinct, Handling
<1>4. CASE Fsync
  <2>1. FinalItems' = FinalItems
    BY <1>4, ProcessKept DEF Fsync, vars, proxyVars
  <2>2. /\ UNCHANGED <<requests, pushLog, witem, wpc>>
        /\ durable'.requests = requests /\ durable'.pushLog = pushLog
    BY <1>4 DEF Fsync, Keys, vars, workerVars, valkeyVars
  <2>3. QED
    BY <2>1, <2>2 DEF ItemInv, Distinct, Handling
<1>5. CASE Restart
  <2>1. FinalItems' = FinalItems
    BY <1>5, ProcessKept DEF Restart
  <2>2. /\ UNCHANGED <<durable, witem, wpc>>
        /\ requests' = durable.requests /\ pushLog' = durable.pushLog
    BY <1>5 DEF Restart
  <2>3. QED
    BY <2>1, <2>2 DEF ItemInv, Distinct, Handling
<1>6. QED
  BY <1>1, <1>2, <1>3, <1>4, <1>5 DEF RestartNext, Next

(* The log of the L2 server only grows, by the call for the item in hand. *)
LEMMA CallLogStep ==
  ASSUME TypeOK, ItemInv, WorkerNext
  PROVE  /\ \A i \in DOMAIN l2log : i \in DOMAIN l2log' /\ l2log'[i] = l2log[i]
         /\ \A i \in DOMAIN l2log' :
              \/ i \in DOMAIN l2log
              \/ wpc = "curl" /\ witem \in FinalItems /\ l2log'[i] = L2Call(witem)
         /\ \/ l2log' = l2log
            \/ /\ wpc = "curl" /\ witem \in FinalItems
               /\ \E i \in DOMAIN l2log' : l2log'[i].req = witem.req
<1>1. l2log \in Seq(Call)
  BY DEF TypeOK, Call
<1>2. CASE l2log' = l2log
  BY <1>2
<1>3. CASE wpc = "curl" /\ l2log' = Append(l2log, L2Call(witem))
  <2>1. witem \in FinalItems /\ witem \in Items
    BY <1>3 DEF ItemInv, Handling, FinalItems
  <2>2. L2Call(witem) \in Call /\ L2Call(witem).req = witem.req
    BY <2>1, L2CallType
  <2>3. /\ Len(l2log) \in Nat
        /\ DOMAIN l2log = 1 .. Len(l2log) /\ DOMAIN l2log' = 1 .. Len(l2log) + 1
        /\ \A i \in DOMAIN l2log : l2log'[i] = l2log[i]
        /\ l2log'[Len(l2log) + 1] = L2Call(witem)
        /\ \A i \in DOMAIN l2log' : i \in DOMAIN l2log \/ i = Len(l2log) + 1
    BY <1>1, <1>3, <2>2, AppendElements
  <2>4. \A i \in DOMAIN l2log : i \in DOMAIN l2log'
    BY <2>3
  <2>5. Len(l2log) + 1 \in DOMAIN l2log'
    BY <2>3
  <2>6. QED
    BY <1>3, <2>1, <2>2, <2>3, <2>4, <2>5
<1>4. QED
  BY <1>2, <1>3, WorkerFrame

(* Every step keeps the L2 server's log true to the requests. *)
LEMMA CallInvStep ==
  ASSUME TypeOK, ThreadInv, ItemInv, CallInv, RestartNext
  PROVE  CallInv'
<1>1. CASE OfProxy(ProxyNext)
  <2>1. l2log' = l2log
    BY <1>1 DEF OfProxy, workerVars
  <2>2. /\ Settled \subseteq Settled'
        /\ \A r \in Settled : body'[r] = body[r]
    BY <1>1, SettledStep DEF OfProxy, TypeOK
  <2>3. QED
    BY <2>1, <2>2 DEF CallInv, BodiesReachL2
<1>2. CASE OfWorker(WorkerNext)
  <2>1. Settled' = Settled /\ body' = body
    BY <1>2, ProcessKept DEF OfWorker, proxyVars
  <2>2. \A i \in DOMAIN l2log' :
          \/ i \in DOMAIN l2log /\ l2log'[i] = l2log[i]
          \/ witem \in FinalItems /\ l2log'[i] = L2Call(witem)
    BY <1>2, CallLogStep DEF OfWorker
  <2>3. ASSUME witem \in FinalItems
        PROVE  /\ L2Call(witem).req \in Settled
               /\ LET r == L2Call(witem).req IN
                    body[r] # "none" => L2Call(witem).method = "POST" /\ L2Call(witem).body = body[r]
    BY <2>3 DEF FinalItems, Item, L2Call
  <2>4. QED
    BY <2>1, <2>2, <2>3 DEF CallInv, BodiesReachL2
<1>3. CASE UNCHANGED <<life, lives, counter, mutex, pc, cur, arrived, ticket, body, l2log>>
  BY <1>3, ProcessKept DEF CallInv, BodiesReachL2
<1>4. QED
  BY <1>1, <1>2, <1>3 DEF RestartNext, Next, workerVars, Fsync, Restart, vars, proxyVars

(* What a step of the worker may do to the responses. *)
LEMMA ResponseFrame ==
  ASSUME WorkerNext
  PROVE  /\ \/ responses' = responses
            \/ /\ wpc = "setex" /\ l2log' = l2log
               /\ responses' = [k \in DOMAIN responses \cup {witem.id} |->
                                  IF k = witem.id THEN [req |-> witem.req, result |-> wresult]
                                  ELSE responses[k]]
         /\ (wpc' = "setex" /\ wresult' = "ok") =>
              /\ witem' = witem
              /\ \/ wpc = "setex" /\ wresult = "ok" /\ l2log' = l2log
                 \/ wpc = "curl" /\ l2log' = Append(l2log, L2Call(witem))
<1> USE DEF WGoto, valkeyVars
<1>1. ASSUME NEW o \in Outcomes(werr), PollBroken(o)
      PROVE  responses' = responses /\ wpc' # "setex"
  BY <1>1 DEF PollBroken
<1>2. ASSUME NEW o \in {"ok"} \cup L2Faults, CallL2(o)
      PROVE  /\ responses' = responses /\ witem' = witem /\ wpc = "curl"
             /\ wresult' = "ok" => l2log' = Append(l2log, L2Call(witem))
  <2>1. o = "ok" => l2log' = Append(l2log, L2Call(witem))
    BY <1>2 DEF CallL2
  <2>2. wresult' = "ok" => o = "ok"
    BY <1>2 DEF CallL2
  <2>3. QED
    BY <1>2, <2>1, <2>2 DEF CallL2
<1>3. ASSUME NEW o \in Outcomes(werr), StoreResponse(o)
      PROVE  /\ wpc = "setex" /\ wpc' # "setex" /\ l2log' = l2log
             /\ \/ responses' = responses
                \/ responses' = [k \in DOMAIN responses \cup {witem.id} |->
                                   IF k = witem.id THEN [req |-> witem.req, result |-> wresult]
                                   ELSE responses[k]]
  BY <1>3 DEF StoreResponse, SetEx
<1>4. ASSUME NEW o \in Outcomes(werr), IncrReads(o)
      PROVE  responses' = responses /\ wpc' # "setex"
  BY <1>4 DEF IncrReads
<1>5. ASSUME \/ WStart \/ WSignal \/ WCrash \/ WExit \/ EnterPoll \/ PollItem \/ PollTimeout
             \/ PollError \/ WTrace \/ OrphanPop \/ OrphanClosed
      PROVE  /\ responses' = responses
             /\ wpc' = "setex" => UNCHANGED <<wpc, wresult, witem, l2log>>
  BY <1>5 DEF WStart, WSignal, WCrash, WExit, WorkerGone, EnterPoll, PollItem, PollTimeout,
              PollError, WTrace, OrphanPop, OrphanClosed
<1>6. QED
  BY <1>1, <1>2, <1>3, <1>4, <1>5 DEF WorkerNext, WorkerStep

(* Every step keeps each response under its id and behind its call. *)
LEMMA ResponseInvStep ==
  ASSUME TypeOK, DurableTypeOK, ThreadInv, ItemInv, ResponseInv, RestartNext
  PROVE  ResponseInv'
<1> USE DEF ResponseInv, StoredMeansCalled, ReachedL2
<1>1. CASE OfProxy(ProxyNext) /\ UNCHANGED restartVars
  <2>1. /\ Settled \subseteq Settled'
        /\ \A r \in Settled : ticket'[r] = ticket[r]
    BY <1>1, SettledStep DEF OfProxy, TypeOK
  <2>2. UNCHANGED <<responses, durable, l2log, wpc, wresult, witem>>
    BY <1>1, ProxyFrame DEF OfProxy, workerVars, restartVars
  <2>3. QED
    BY <2>1, <2>2
<1>2. CASE OfWorker(WorkerNext) /\ UNCHANGED restartVars
  <2>1. Settled' = Settled /\ ticket' = ticket /\ durable' = durable
    BY <1>2, ProcessKept DEF OfWorker, proxyVars, restartVars
  <2>2. \A r : ReachedL2(r) => ReachedL2(r)'
    BY <1>2, CallLogStep DEF OfWorker
  <2>3. \A id \in DOMAIN responses' :
          \/ id \in DOMAIN responses /\ responses'[id] = responses[id]
          \/ /\ wpc = "setex" /\ id = witem.id
             /\ responses'[id] = [req |-> witem.req, result |-> wresult]
    BY <1>2, ResponseFrame DEF OfWorker
  <2>4. wpc = "setex" => witem.req \in Settled /\ ticket[witem.req].id = witem.id
    BY DEF ItemInv, Handling, FinalItems, Item
  <2>5. (wpc' = "setex" /\ wresult' = "ok") => ReachedL2(witem.req)' /\ witem' = witem
    <3>1. SUFFICES ASSUME wpc' = "setex", wresult' = "ok"
                   PROVE  ReachedL2(witem.req)' /\ witem' = witem
      OBVIOUS
    <3>2. witem' = witem
      BY <1>2, <3>1, ResponseFrame DEF OfWorker
    <3>3. CASE wpc = "setex" /\ wresult = "ok" /\ l2log' = l2log
      BY <3>2, <3>3
    <3>4. CASE wpc = "curl" /\ l2log' = Append(l2log, L2Call(witem))
      <4>1. l2log \in Seq(Call) /\ witem \in Items
        BY <3>4 DEF TypeOK, Call, ItemInv, Handling, FinalItems
      <4>2. L2Call(witem) \in Call /\ L2Call(witem).req = witem.req
        BY <4>1, L2CallType
      <4>3. /\ Len(l2log) + 1 \in DOMAIN l2log'
            /\ l2log'[Len(l2log) + 1].req = witem.req
        BY <3>4, <4>1, <4>2, AppendElements
      <4>4. QED
        BY <3>2, <4>3
    <3>5. QED
      BY <1>2, <3>1, <3>3, <3>4, ResponseFrame DEF OfWorker
  <2>6. \A id \in DOMAIN responses' :
          responses'[id].req \in Settled /\ ticket[responses'[id].req].id = id
    BY <2>3, <2>4
  <2>7. \A id \in DOMAIN responses' :
          responses'[id].result = "ok" => ReachedL2(responses'[id].req)
    BY <2>3
  <2>8. \A id \in DOMAIN responses' :
          responses'[id].result = "ok" =>
            \E i \in DOMAIN l2log' : l2log'[i].req = responses'[id].req
    BY <2>2, <2>7
  <2>9. QED
    BY <2>1, <2>2, <2>5, <2>6, <2>8
<1>3. ASSUME NEW id \in DOMAIN responses, Expire(id),
             UNCHANGED <<proxyVars, workerVars, refusedWrites, refusedReads>>, UNCHANGED restartVars
      PROVE  ResponseInv'
  <2>1. Settled' = Settled /\ ticket' = ticket
    BY <1>3, ProcessKept DEF proxyVars
  <2>2. UNCHANGED <<durable, l2log, wpc, wresult, witem>>
    BY <1>3 DEF workerVars, restartVars
  <2>3. \A k \in DOMAIN responses' : k \in DOMAIN responses /\ responses'[k] = responses[k]
    BY <1>3 DEF Expire
  <2>4. QED
    BY <2>1, <2>2, <2>3
<1>4. CASE Fsync
  <2>1. Settled' = Settled /\ ticket' = ticket
    BY <1>4, ProcessKept DEF Fsync, vars, proxyVars
  <2>2. /\ UNCHANGED <<responses, l2log, wpc, wresult, witem>>
        /\ durable'.responses = responses
    BY <1>4 DEF Fsync, Keys, vars, workerVars, valkeyVars
  <2>3. QED
    BY <2>1, <2>2
<1>5. CASE Restart
  <2>1. Settled' = Settled /\ ticket' = ticket
    BY <1>5, ProcessKept DEF Restart
  <2>2. /\ UNCHANGED <<durable, l2log, wpc, wresult, witem>>
        /\ responses' = durable.responses
    BY <1>5 DEF Restart
  <2>3. QED
    BY <2>1, <2>2
<1>6. QED
  BY <1>1, <1>2, <1>3, <1>4, <1>5 DEF RestartNext, Next

(* The worker's steps that neither pop nor count nor end anything. *)
QuietStep ==
  /\ UNCHANGED <<requests, pushLog, reads, orphanPolls>>
  /\ wlives' = wlives \/ wlives' = wlives + 1
  /\ wpc' # "down" /\ ~werr' /\ wpc' \notin {"curl", "setex", "trace", "incr"} =>
       \/ wpc # "down" /\ ~werr /\ ~Handling
       \/ wlives' = wlives + 1
  /\ wpc' \in {"curl", "setex", "trace", "incr"} /\ ~werr' => Handling /\ ~werr

(* The steps of the worker that neither pop an item nor send an INCR are   *)
(* quiet.                                                                  *)
LEMMA QuietSteps ==
  ASSUME TypeOK,
         \/ WStart \/ WSignal \/ EnterPoll \/ PollTimeout \/ PollError \/ WTrace
         \/ \E o \in {"ok"} \cup L2Faults : CallL2(o)
         \/ \E o \in Outcomes(werr) : StoreResponse(o)
  PROVE  QuietStep
<1> USE DEF QuietStep, Handling, WGoto, valkeyVars, TypeOK
<1>1. CASE WStart
  BY <1>1 DEF WStart
<1>2. CASE WSignal \/ EnterPoll \/ PollTimeout \/ PollError \/ WTrace
  BY <1>2 DEF WSignal, EnterPoll, PollTimeout, PollError, WTrace
<1>3. ASSUME NEW o \in {"ok"} \cup L2Faults, CallL2(o) PROVE QuietStep
  BY <1>3 DEF CallL2
<1>4. ASSUME NEW o \in Outcomes(werr), StoreResponse(o) PROVE QuietStep
  BY <1>4 DEF StoreResponse
<1>5. QED
  BY <1>1, <1>2, <1>3, <1>4

(* Every step keeps stats:redis_reads within its bounds. *)
LEMMA ReadsInvStep ==
  ASSUME TypeOK, DurableTypeOK, ThreadInv, IdInv, ReadsInv, RestartNext
  PROVE  ReadsInv'
<1>0. /\ requests \in Seq(Items) /\ pushLog \in Seq(Items)
      /\ Len(requests) \in Nat /\ Len(pushLog) \in Nat
      /\ Len(durable.requests) \in Nat /\ Len(durable.pushLog) \in Nat
  BY LenProperties DEF TypeOK, ProxyTypeOK, DurableTypeOK
<1>n. /\ Popped \in Int /\ SavedPopped \in Int
      /\ reads \in Nat /\ wlives \in Nat /\ orphanPolls \in Nat /\ refusedReads \in Nat
      /\ durable.reads \in Nat
  BY <1>0 DEF Popped, SavedPopped, TypeOK, DurableTypeOK
<1> USE DEF ReadsInv
<1>1. CASE OfProxy(ProxyNext) /\ UNCHANGED restartVars
  <2>1. /\ UNCHANGED <<reads, wlives, werr, wpc, orphanPolls, durable>>
        /\ refusedReads' = refusedReads \/ refusedReads' = refusedReads + 1
    BY <1>1, ProxyFrame, RefusalTypes DEF OfProxy, workerVars, restartVars
  <2>2. Popped' = Popped
    <3>1. ASSUME NEW t \in Threads, pc[t] = "rpush", pc' = [pc EXCEPT ![t] = "incr"],
                 UNCHANGED <<life, lives, cur, arrived, ticket, body, writes>>,
                 requests' = Append(requests, Item(cur[t])),
                 pushLog' = Append(pushLog, Item(cur[t]))
          PROVE  Popped' = Popped
      <4>1. Item(cur[t]) \in Items
        BY <3>1, PushSettles DEF TypeOK
      <4>2. Len(pushLog') = Len(pushLog) + 1 /\ Len(requests') = Len(requests) + 1
        BY <1>0, <3>1, <4>1, AppendElements
      <4>3. QED
        BY <1>0, <4>2 DEF Popped
    <3>2. QED
      BY <1>1, <3>1, ProxyFrame DEF OfProxy, Popped
  <2>3. SavedPopped' = SavedPopped
    BY <2>1 DEF SavedPopped
  <2>4. QED
    BY <1>n, <2>1, <2>2, <2>3 DEF Handling
<1>2. CASE OfWorker(WorkerNext) /\ UNCHANGED restartVars
  <2>0. /\ durable' = durable /\ pushLog' = pushLog /\ SavedPopped' = SavedPopped
        /\ refusedReads' = refusedReads \/ refusedReads' = refusedReads + 1
    BY <1>2, WorkerFrame, RefusalTypes DEF OfWorker, restartVars, SavedPopped
  <2>a. requests' = requests => Popped' = Popped
    BY <2>0 DEF Popped
  <2>b. (requests # << >> /\ requests' = Tail(requests)) => Popped' = Popped + 1
    BY <1>0, <2>0, TailElements DEF Popped
  <2>1. CASE QuietStep
    <3>1. Popped' = Popped
      BY <2>1, <2>a DEF QuietStep
    <3>2. QED
      BY <1>n, <2>0, <2>1, <3>1 DEF QuietStep, Handling
  <2>2. CASE WCrash \/ WExit
    <3>1. /\ UNCHANGED <<requests, reads, wlives>> /\ wpc' = "down"
          /\ orphanPolls' = IF wpc = "blpop" /\ ~werr THEN orphanPolls + 1 ELSE orphanPolls
      BY <2>2 DEF WCrash, WExit, WorkerGone, WGoto, valkeyVars
    <3>2. QED
      BY <1>n, <2>0, <2>a, <3>1 DEF Handling
  <2>3. CASE PollItem
    <3>1. /\ requests # << >> /\ requests' = Tail(requests)
          /\ UNCHANGED <<reads, wlives, orphanPolls, werr>> /\ wpc = "blpop" /\ ~werr
          /\ wpc' \in {"curl", "incr"}
      BY <2>3 DEF PollItem, Outcomes, WGoto
    <3>2. QED
      BY <1>n, <2>0, <2>b, <3>1 DEF Handling
  <2>4. ASSUME NEW o \in Outcomes(werr), PollBroken(o) PROVE ReadsInv'
    <3>1. /\ UNCHANGED <<reads, wlives>> /\ werr' /\ wpc = "blpop" /\ wpc' = "loop"
          /\ ~werr \/ ~Executed(o)
      BY <2>4 DEF PollBroken, Outcomes, Executed, WGoto
    <3>2. CASE Executed(o) /\ requests # << >>
      <4>1. requests' = Tail(requests) /\ orphanPolls' = orphanPolls
        BY <2>4, <3>2 DEF PollBroken
      <4>2. QED
        BY <1>n, <2>0, <2>b, <3>1, <3>2, <4>1 DEF Handling
    <3>3. CASE Executed(o) /\ requests = << >>
      <4>1. requests' = requests /\ orphanPolls' = orphanPolls + 1
        BY <2>4, <3>3 DEF PollBroken
      <4>2. QED
        BY <1>n, <2>0, <2>a, <3>1, <3>3, <4>1 DEF Handling
    <3>4. CASE ~Executed(o)
      <4>1. requests' = requests /\ orphanPolls' = orphanPolls
        BY <2>4, <3>4 DEF PollBroken
      <4>2. QED
        BY <1>n, <2>0, <2>a, <3>1, <4>1 DEF Handling
    <3>5. QED
      BY <3>2, <3>3, <3>4
  <2>5. ASSUME NEW o \in Outcomes(werr), IncrReads(o) PROVE ReadsInv'
    <3>1. /\ UNCHANGED <<requests, wlives, orphanPolls>> /\ wpc = "incr" /\ wpc' = "loop"
          /\ reads' = IncrKey(o, reads) /\ werr' = (werr \/ Breaks(o))
      BY <2>5 DEF IncrReads, WGoto
    <3>2. CASE Executed(o)
      <4>1. reads' = reads + 1 /\ ~werr
        BY <3>1, <3>2 DEF IncrKey, Outcomes, Executed
      <4>2. QED
        BY <1>n, <2>0, <2>a, <3>1, <4>1 DEF Handling
    <3>3. CASE o = "error"
      <4>1. reads' = reads /\ ~werr
        BY <3>1, <3>3 DEF IncrKey, Executed, Outcomes
      <4>2. ~werr'
        BY <3>1, <3>3, <4>1 DEF Breaks
      <4>3. refusedReads' = refusedReads + 1
        BY <1>2, <3>1, <4>1, <4>2 DEF OfWorker, CountRefusals, RefusesRead
      <4>4. QED
        BY <1>n, <2>0, <2>a, <3>1, <4>1, <4>2, <4>3 DEF Handling
    <3>4. CASE o = "unsent"
      <4>1. reads' = reads /\ werr'
        BY <3>1, <3>4 DEF IncrKey, Executed, Breaks
      <4>2. QED
        BY <1>n, <2>0, <2>a, <3>1, <4>1 DEF Handling
    <3>5. QED
      BY <3>2, <3>3, <3>4, FaultsAssumption DEF Outcomes, Executed
  <2>6. CASE OrphanPop
    <3>1. /\ requests # << >> /\ requests' = Tail(requests) /\ orphanPolls' = orphanPolls - 1
          /\ UNCHANGED <<reads, wlives, wpc, werr>>
      BY <2>6 DEF OrphanPop
    <3>2. QED
      BY <1>n, <2>0, <2>b, <3>1 DEF Handling
  <2>7. CASE OrphanClosed
    <3>1. /\ requests' = requests /\ orphanPolls' = orphanPolls - 1
          /\ UNCHANGED <<reads, wlives, wpc, werr>>
      BY <2>7 DEF OrphanClosed, valkeyVars
    <3>2. QED
      BY <1>n, <2>0, <2>a, <3>1 DEF Handling
  <2>8. QED
    BY <1>2, <2>1, <2>2, <2>3, <2>4, <2>5, <2>6, <2>7, QuietSteps DEF OfWorker, WorkerNext, WorkerStep
<1>3. ASSUME NEW id \in DOMAIN responses, Expire(id),
             UNCHANGED <<proxyVars, workerVars, refusedWrites, refusedReads>>, UNCHANGED restartVars
      PROVE  ReadsInv'
  BY <1>3 DEF Expire, workerVars, restartVars, Handling, Popped, SavedPopped
<1>4. CASE Fsync
  <2>1. /\ UNCHANGED <<reads, wlives, wpc, werr, orphanPolls, refusedReads>>
        /\ Popped' = Popped /\ SavedPopped' = Popped /\ durable'.reads = reads
    BY <1>4 DEF Fsync, Keys, vars, workerVars, valkeyVars, Popped, SavedPopped
  <2>2. QED
    BY <1>n, <2>1 DEF Handling
<1>5. CASE Restart
  <2>1. /\ UNCHANGED <<durable, wpc, wlives, refusedReads>>
        /\ Popped' = SavedPopped /\ SavedPopped' = SavedPopped /\ reads' = durable.reads
        /\ werr' = (wpc # "down") /\ orphanPolls' = 0
    BY <1>5 DEF Restart, Popped, SavedPopped
  <2>2. ~(wpc' # "down" /\ ~werr')
    BY <2>1
  <2>3. Handling' => wpc' # "down"
    BY DEF Handling
  <2>4. Popped' + orphanPolls'
          + (IF wpc' # "down" /\ ~werr' /\ ~Handling' THEN 1 ELSE 0) = SavedPopped
    BY <1>n, <2>1, <2>2
  <2>5. QED
    BY <1>n, <2>1, <2>2, <2>3, <2>4
<1>6. QED
  BY <1>1, <1>2, <1>3, <1>4, <1>5 DEF RestartNext, Next

(* The proxy's steps that neither push nor count. *)
QuietProxyStep ==
  /\ UNCHANGED <<pushLog, writes>>
  /\ lives' = lives \/ lives' = lives + 1
  /\ MayLoseWrite' => MayLoseWrite \/ lives' = lives + 1

(* All steps of the proxy but a thread's RPUSH and its INCR are quiet.     *)
LEMMA QuietProxySteps ==
  ASSUME ProxyTypeOK, ProxyNext
  PROVE  \/ QuietProxyStep
         \/ \E t \in Threads, o \in Outcomes(redisErr) : Rpush(t, o) \/ IncrWrites(t, o)
<1> USE DEF QuietProxyStep, MayLoseWrite, Goto, valkeyVars, ProxyTypeOK
<1>1. ASSUME NEW o \in Outcomes(FALSE), Start(o) PROVE QuietProxyStep
  BY <1>1 DEF Start
<1>2. CASE Signal
  BY <1>2 DEF Signal
<1>3. CASE StopServer
  BY <1>3 DEF StopServer
<1>4. CASE FreeContext \/ StopHangs
  BY <1>4 DEF FreeContext, StopHangs
<1>5. CASE DestroyHandler
  BY <1>5 DEF DestroyHandler, ProcessGone
<1>6. CASE Crash
  BY <1>6 DEF Crash, ProcessGone
<1>7. ASSUME NEW t \in Threads, NEW r \in Requests, Accept(t, r) PROVE QuietProxyStep
  BY <1>7 DEF Accept
<1>8. ASSUME NEW t \in Threads,
             \/ ReadRequest(t) \/ DropConnection(t) \/ GenerateId(t) \/ CheckErr(t) \/ Lock(t)
             \/ Reply(t) \/ Trace(t)
      PROVE  QuietProxyStep
  <2>1. /\ UNCHANGED <<pushLog, writes, lives, life, redisErr>>
        /\ pc[t] # "incr"
        /\ \E s \in Steps : pc' = [pc EXCEPT ![t] = s]
    BY <1>8 DEF ReadRequest, DropConnection, GenerateId, CheckErr, Lock, Reply, Trace, Steps
  <2>2. (\A u \in Threads : pc'[u] # "incr") => \A u \in Threads : pc[u] # "incr"
    BY <2>1
  <2>3. QED
    BY <2>1, <2>2
<1>9. QED
  BY <1>1, <1>2, <1>3, <1>4, <1>5, <1>6, <1>7, <1>8 DEF ProxyNext, ShutdownStep, ThreadStep

(* Every step keeps stats:redis_writes within its bounds. *)
LEMMA WritesInvStep ==
  ASSUME TypeOK, DurableTypeOK, ThreadInv, IdInv, WritesInv, RestartNext
  PROVE  WritesInv'
<1>n. /\ Len(pushLog) \in Nat /\ Len(durable.pushLog) \in Nat
      /\ writes \in Nat /\ lives \in Nat /\ refusedWrites \in Nat /\ durable.writes \in Nat
  BY LenProperties DEF TypeOK, ProxyTypeOK, DurableTypeOK
<1> USE DEF WritesInv
<1>1. CASE OfProxy(ProxyNext) /\ UNCHANGED restartVars
  <2>0. /\ durable' = durable
        /\ refusedWrites' = refusedWrites \/ refusedWrites' = refusedWrites + 1
    BY <1>1, RefusalTypes DEF OfProxy, restartVars
  <2>1. CASE QuietProxyStep
    <3>1. CASE lives' = lives
      BY <1>n, <2>0, <2>1, <3>1 DEF QuietProxyStep
    <3>2. CASE lives' = lives + 1
      BY <1>n, <2>0, <2>1, <3>2 DEF QuietProxyStep
    <3>3. QED
      BY <2>1, <3>1, <3>2 DEF QuietProxyStep
  <2>2. ASSUME NEW t \in Threads, NEW o \in Outcomes(redisErr), Rpush(t, o) PROVE WritesInv'
    <3>1. /\ UNCHANGED <<writes, lives>> /\ ~MayLoseWrite'
          /\ pc[t] = "rpush"
      BY <2>2 DEF Rpush, Goto, MayLoseWrite, TypeOK, ProxyTypeOK
    <3>2. CASE Executed(o)
      <4>1. Len(pushLog') = Len(pushLog) + 1
        BY <2>2, <3>2, PushLogAppend DEF TypeOK
      <4>2. MayLoseWrite
        <5>1. ~redisErr
          BY <3>2 DEF Outcomes, Executed
        <5>2. life # "down" /\ \A u \in Threads : pc[u] # "incr"
          BY <3>1 DEF ThreadInv, NoHandlerAfterFree, MutexHolder
        <5>3. QED
          BY <5>1, <5>2 DEF MayLoseWrite
      <4>3. QED
        BY <1>n, <2>0, <3>1, <4>1, <4>2
    <3>3. CASE ~Executed(o)
      <4>1. pushLog' = pushLog
        BY <2>2, <3>3 DEF Rpush, RPush
      <4>2. QED
        BY <1>n, <2>0, <3>1, <4>1
    <3>4. QED
      BY <3>2, <3>3
  <2>3. ASSUME NEW t \in Threads, NEW o \in Outcomes(redisErr), IncrWrites(t, o) PROVE WritesInv'
    <3>1. /\ UNCHANGED <<pushLog, lives>> /\ ~MayLoseWrite
          /\ pc[t] = "incr" /\ pc'[t] = "reply"
          /\ writes' = IncrKey(o, writes) /\ redisErr' = (redisErr \/ Breaks(o))
      BY <2>3 DEF IncrWrites, Goto, MayLoseWrite, TypeOK, ProxyTypeOK
    <3>2. CASE Executed(o)
      <4>1. writes' = writes + 1 /\ UNCHANGED <<pushLog, lives>> /\ ~MayLoseWrite
        BY <3>1, <3>2 DEF IncrKey
      <4>2. QED
        BY <1>n, <2>0, <4>1
    <3>3. CASE o = "error"
      <4>1. writes' = writes /\ ~redisErr
        BY <3>1, <3>3 DEF IncrKey, Executed, Outcomes
      <4>2. ~redisErr'
        BY <3>1, <3>3, <4>1 DEF Breaks
      <4>3. refusedWrites' = refusedWrites + 1
        BY <1>1, <3>1, <4>1, <4>2 DEF OfProxy, CountRefusals, RefusesWrite
      <4>4. QED
        BY <1>n, <2>0, <3>1, <4>1, <4>3
    <3>4. CASE o = "unsent"
      <4>1. writes' = writes
        BY <3>1, <3>4 DEF IncrKey, Executed
      <4>2. redisErr'
        BY <3>1, <3>4 DEF Breaks
      <4>3. ~MayLoseWrite'
        BY <4>2 DEF MayLoseWrite
      <4>4. QED
        BY <1>n, <2>0, <3>1, <4>1, <4>3
    <3>5. QED
      BY <3>2, <3>3, <3>4, FaultsAssumption DEF Outcomes, Executed
  <2>4. QED
    BY <1>1, <2>1, <2>2, <2>3, QuietProxySteps DEF OfProxy, TypeOK
<1>2. CASE OfWorker(WorkerNext) /\ UNCHANGED restartVars
  <2>1. /\ UNCHANGED <<durable, pushLog, writes, lives>> /\ MayLoseWrite' = MayLoseWrite
        /\ refusedWrites' = refusedWrites \/ refusedWrites' = refusedWrites + 1
    BY <1>2, WorkerFrame, RefusalTypes DEF OfWorker, restartVars, proxyVars, MayLoseWrite
  <2>2. QED
    BY <1>n, <2>1
<1>3. ASSUME NEW id \in DOMAIN responses, Expire(id),
             UNCHANGED <<proxyVars, workerVars, refusedWrites, refusedReads>>, UNCHANGED restartVars
      PROVE  WritesInv'
  BY <1>3 DEF Expire, proxyVars, restartVars, MayLoseWrite
<1>4. CASE Fsync
  <2>1. /\ UNCHANGED <<pushLog, writes, lives, refusedWrites>> /\ MayLoseWrite' = MayLoseWrite
        /\ durable'.pushLog = pushLog /\ durable'.writes = writes
    BY <1>4 DEF Fsync, Keys, vars, proxyVars, valkeyVars, MayLoseWrite
  <2>2. QED
    BY <1>n, <2>1
<1>5. CASE Restart
  <2>1. /\ UNCHANGED <<durable, lives, refusedWrites>>
        /\ pushLog' = durable.pushLog /\ writes' = durable.writes /\ ~MayLoseWrite'
    BY <1>5 DEF Restart, MayLoseWrite
  <2>2. QED
    BY <1>n, <2>1
<1>6. QED
  BY <1>1, <1>2, <1>3, <1>4, <1>5 DEF RestartNext, Next

(* What a step of the worker may do to what is queued, in hand and called. *)
LEMMA DeliveryFrame ==
  ASSUME TypeOK, WorkerNext
  PROVE  \/ /\ l2log' = l2log /\ requests' = requests
            /\ wpc' = "curl" => wpc = "curl" /\ witem' = witem
         \/ /\ l2log' = l2log
            /\ requests # << >> /\ requests' = Tail(requests)
            /\ wpc' = "curl" <=> wpc = "curl"
            /\ wpc = "curl" => witem' = witem
         \/ /\ l2log' = l2log
            /\ requests # << >> /\ requests' = Tail(requests)
            /\ wpc = "blpop" /\ wpc' = "curl" /\ witem' = Head(requests)
         \/ /\ wpc = "curl" /\ wpc' # "curl"
            /\ requests' = requests /\ l2log' = Append(l2log, L2Call(witem))
<1> USE DEF WGoto, valkeyVars
<1>1. CASE PollItem
  BY <1>1 DEF PollItem
<1>2. ASSUME NEW o \in {"ok"} \cup L2Faults, CallL2(o)
      PROVE  /\ wpc = "curl" /\ wpc' # "curl" /\ requests' = requests
             /\ l2log' = l2log \/ l2log' = Append(l2log, L2Call(witem))
  BY <1>2 DEF CallL2
<1>3. ASSUME NEW o \in Outcomes(werr), PollBroken(o)
      PROVE  /\ wpc # "curl" /\ wpc' # "curl" /\ l2log' = l2log
             /\ requests' = requests \/ (requests # << >> /\ requests' = Tail(requests))
  BY <1>3 DEF PollBroken
<1>4. ASSUME NEW o \in Outcomes(werr), StoreResponse(o) \/ IncrReads(o)
      PROVE  wpc' # "curl" /\ l2log' = l2log /\ requests' = requests
  BY <1>4 DEF StoreResponse, IncrReads
<1>5. CASE OrphanPop
  BY <1>5 DEF OrphanPop
<1>6. ASSUME \/ WStart \/ WSignal \/ WCrash \/ WExit \/ EnterPoll \/ PollTimeout
             \/ PollError \/ WTrace \/ OrphanClosed
      PROVE  l2log' = l2log /\ requests' = requests /\ (wpc' = "curl" => wpc = "curl" /\ witem' = witem)
  BY <1>6 DEF WStart, WSignal, WCrash, WExit, WorkerGone, EnterPoll, PollTimeout,
              PollError, WTrace, OrphanClosed
<1>7. QED
  BY <1>1, <1>2, <1>3, <1>4, <1>5, <1>6 DEF WorkerNext, WorkerStep

(* How often a request was delivered is a number. *)
LEMMA DeliveriesCount ==
  ASSUME TypeOK, NEW r
  PROVE  IsFiniteSet(Deliveries(r)) /\ Cardinality(Deliveries(r)) \in Nat
<1>1. l2log \in Seq(Call)
  BY DEF TypeOK, Call
<1>2. Len(l2log) \in Nat /\ DOMAIN l2log = 1 .. Len(l2log)
  BY <1>1, LenProperties
<1>3. IsFiniteSet(1 .. Len(l2log))
  BY <1>2, FS_Interval
<1>4. Deliveries(r) \in SUBSET (1 .. Len(l2log))
  BY <1>2 DEF Deliveries
<1>5. IsFiniteSet(Deliveries(r))
  BY <1>3, <1>4, FS_Subset
<1>6. QED
  BY <1>5, FS_CardinalityType

(* A call delivers its request once more and no other. *)
LEMMA CallDelivers ==
  ASSUME TypeOK, witem \in Items, l2log' = Append(l2log, L2Call(witem)), NEW r
  PROVE  Cardinality(Deliveries(r)') =
           IF witem.req = r THEN Cardinality(Deliveries(r)) + 1 ELSE Cardinality(Deliveries(r))
<1>1. l2log \in Seq(Call)
  BY DEF TypeOK, Call
<1>2. /\ Len(l2log) \in Nat /\ DOMAIN l2log = 1 .. Len(l2log)
      /\ DOMAIN l2log' = 1 .. Len(l2log) + 1
      /\ \A i \in DOMAIN l2log : l2log'[i] = l2log[i]
      /\ l2log'[Len(l2log) + 1].req = witem.req
  BY <1>1, L2CallType, AppendElements
<1> DEFINE n == Len(l2log) + 1
<1>3. n \notin DOMAIN l2log /\ DOMAIN l2log' = DOMAIN l2log \cup {n}
  BY <1>2
<1>4. IsFiniteSet(Deliveries(r)) /\ n \notin Deliveries(r)
  BY <1>3, DeliveriesCount DEF Deliveries
<1>5. CASE witem.req = r
  <2>1. Deliveries(r)' = Deliveries(r) \cup {n}
    BY <1>2, <1>3, <1>5 DEF Deliveries
  <2>2. Cardinality(Deliveries(r) \cup {n}) = Cardinality(Deliveries(r)) + 1
    BY <1>4, FS_AddElement
  <2>3. QED
    BY <1>5, <2>1, <2>2
<1>6. CASE witem.req # r
  <2>1. Deliveries(r)' = Deliveries(r)
    BY <1>2, <1>3, <1>6 DEF Deliveries
  <2>2. QED
    BY <1>6, <2>1
<1>7. QED
  BY <1>5, <1>6

(* Every step keeps the number of deliveries within its bound. *)
LEMMA DeliveryInvStep ==
  ASSUME TypeOK, DurableTypeOK, ThreadInv, IdInv, ItemInv, CallInv, DeliveryInv, RestartNext
  PROVE  DeliveryInv'
<1> SUFFICES ASSUME NEW r \in Requests
             PROVE  (Cardinality(Deliveries(r)) + (IF InQueue(r) THEN 1 ELSE 0)
                       + (IF InHand(r) THEN 1 ELSE 0) <= 1 + restarts)'
  BY DEF DeliveryInv
<1> DEFINE C == Cardinality(Deliveries(r))
           Q == InQueue(r)
           H == InHand(r)
<1>n. /\ C \in Nat /\ restarts \in Nat
      /\ C + (IF Q THEN 1 ELSE 0) + (IF H THEN 1 ELSE 0) <= 1 + restarts
  BY DeliveriesCount DEF DeliveryInv, DurableTypeOK
<1>s. /\ requests \in Seq(Items) /\ l2log \in Seq(Call)
  BY DEF TypeOK, ProxyTypeOK, Call
<1>c. l2log' = l2log => C' = C
  BY DEF Deliveries
<1>q. requests' = requests => Q' = Q
  BY DEF InQueue
<1>t. (requests # << >> /\ requests' = Tail(requests)) => (Q' => Q)
  BY <1>s, TailElements DEF InQueue
<1>1. CASE OfProxy(ProxyNext) /\ UNCHANGED restartVars
  <2>1. C' = C /\ H' = H /\ restarts' = restarts
    BY <1>1, <1>c DEF OfProxy, workerVars, restartVars, InHand
  <2>2. CASE requests' = requests
    <3>1. Q' = Q
      BY <2>2, <1>q
    <3>2. QED
      BY <1>n, <2>1, <3>1
  <2>3. ASSUME NEW t \in Threads, pc[t] = "rpush", pc' = [pc EXCEPT ![t] = "incr"],
               UNCHANGED <<life, lives, cur, arrived, ticket, body, writes>>,
               requests' = Append(requests, Item(cur[t]))
        PROVE  C' + (IF Q' THEN 1 ELSE 0) + (IF H' THEN 1 ELSE 0) <= 1 + restarts'
    <3>1. Item(cur[t]) \in Items /\ Item(cur[t]).req = cur[t] /\ cur[t] \notin Settled
      BY <2>3, PushSettles DEF TypeOK
    <3>2. CASE r = cur[t]
      <4>1. Deliveries(r) = {}
        BY <3>1, <3>2 DEF Deliveries, CallInv
      <4>2. C = 0
        BY <4>1, FS_EmptySet
      <4>3. ~H
        BY <3>1, <3>2 DEF InHand, ItemInv, Handling, FinalItems
      <4>4. QED
        BY <1>n, <2>1, <4>2, <4>3
    <3>3. CASE r # cur[t]
      <4>1. Q' => Q
        BY <1>s, <2>3, <3>1, <3>3, AppendElements DEF InQueue
      <4>2. QED
        BY <1>n, <2>1, <4>1
    <3>4. QED
      BY <3>2, <3>3
  <2>4. QED
    BY <1>1, <2>2, <2>3, ProxyFrame DEF OfProxy
<1>2. CASE OfWorker(WorkerNext) /\ UNCHANGED restartVars
  <2>0. restarts' = restarts
    BY <1>2 DEF restartVars
  <2>1. CASE /\ l2log' = l2log
             /\ requests' = requests \/ (requests # << >> /\ requests' = Tail(requests))
             /\ wpc' = "curl" => wpc = "curl" /\ witem' = witem
    <3>1. C' = C /\ (Q' => Q) /\ (H' => H)
      BY <2>1, <1>c, <1>q, <1>t DEF InHand
    <3>2. QED
      BY <1>n, <2>0, <3>1
  <2>2. CASE /\ l2log' = l2log
             /\ requests # << >> /\ requests' = Tail(requests)
             /\ wpc = "blpop" /\ wpc' = "curl" /\ witem' = Head(requests)
    <3>1. C' = C /\ (Q' => Q) /\ ~H
      BY <2>2, <1>c, <1>t DEF InHand
    <3>2. H' => Q
      BY <1>s, <2>2, TailElements DEF InHand, InQueue
    <3>3. H' => ~Q'
      BY <1>s, <2>2, TailFinal DEF InHand, InQueue, ItemInv
    <3>4. QED
      BY <1>n, <2>0, <3>1, <3>2, <3>3
  <2>3. CASE /\ wpc = "curl" /\ wpc' # "curl"
             /\ requests' = requests /\ l2log' = Append(l2log, L2Call(witem))
    <3>1. witem \in Items
      BY <2>3 DEF ItemInv, Handling, FinalItems
    <3>2. C' = IF H THEN C + 1 ELSE C
      BY <2>3, <3>1, CallDelivers DEF InHand
    <3>3. Q' = Q /\ ~H'
      BY <2>3, <1>q DEF InHand
    <3>4. QED
      BY <1>n, <2>0, <3>2, <3>3
  <2>4. QED
    BY <1>2, <2>1, <2>2, <2>3, DeliveryFrame DEF OfWorker
<1>3. ASSUME NEW id \in DOMAIN responses, Expire(id),
             UNCHANGED <<proxyVars, workerVars, refusedWrites, refusedReads>>, UNCHANGED restartVars
      PROVE  C' + (IF Q' THEN 1 ELSE 0) + (IF H' THEN 1 ELSE 0) <= 1 + restarts'
  <2>1. C' = C /\ Q' = Q /\ H' = H /\ restarts' = restarts
    BY <1>3, <1>c, <1>q DEF Expire, workerVars, restartVars, InHand
  <2>2. QED
    BY <1>n, <2>1
<1>4. CASE Fsync
  <2>1. C' = C /\ Q' = Q /\ H' = H /\ restarts' = restarts
    BY <1>4, <1>c, <1>q DEF Fsync, vars, workerVars, valkeyVars, InHand
  <2>2. QED
    BY <1>n, <2>1
<1>5. CASE Restart
  <2>1. C' = C /\ H' = H /\ restarts' = restarts + 1
    BY <1>5, <1>c DEF Restart, InHand
  <2>2. QED
    BY <1>n, <2>1
<1>6. QED
  BY <1>1, <1>2, <1>3, <1>4, <1>5 DEF RestartNext, Next

(* The initial states satisfy the inductive invariant. *)
LEMMA SystemInit == RestartInit => SystemInv
<1> SUFFICES ASSUME RestartInit PROVE SystemInv
  OBVIOUS
<1> USE DEF RestartInit, Init
<1>1. ProxyTypeOK /\ ThreadInv /\ TicketInv
  BY InitInv DEF ProxyInv
<1>2. /\ requests = << >> /\ pushLog = << >> /\ writes = 0 /\ reads = 0 /\ savedCounter = 0
      /\ responses = << >> /\ lives = 0 /\ life = "down" /\ pc = [t \in Threads |-> "idle"]
  BY DEF ProxyInit, ValkeyInit
<1>3. /\ wpc = "down" /\ wlives = 0 /\ wshutdown = FALSE /\ werr = FALSE /\ witem = NoItem
      /\ wresult = "ok" /\ curl = "fresh" /\ l2log = << >> /\ orphanPolls = 0
      /\ refusedWrites = 0 /\ refusedReads = 0 /\ restarts = 0
  BY DEF WorkerInit
<1>4. /\ durable.requests = << >> /\ durable.pushLog = << >> /\ durable.writes = 0
      /\ durable.reads = 0 /\ durable.savedCounter = 0 /\ durable.responses = << >>
  BY <1>2 DEF Keys
<1>5. Len(<< >>) = 0 /\ DOMAIN << >> = {}
  OBVIOUS
<1>6. TypeOK
  <2>1. l2log \in Seq([req : Requests, method : {"GET", "POST"}, body : Bodies \cup {"stale"}])
    BY <1>3
  <2>2. /\ DOMAIN responses \subseteq Nat
        /\ \A id \in DOMAIN responses : responses[id] \in [req : Requests, result : {"ok", "error"}]
    BY <1>2, <1>5
  <2>3. werr \in BOOLEAN /\ wshutdown \in BOOLEAN
    BY <1>3
  <2>4. QED
    BY <1>1, <1>2, <1>3, <2>1, <2>2, <2>3 DEF TypeOK, WorkerSteps
<1>7. DurableTypeOK
  BY <1>3, <1>4 DEF DurableTypeOK
<1>8. IdInv
  BY <1>2 DEF IdInv
<1>9. ItemInv /\ CallInv
  BY <1>2, <1>3, <1>4, <1>5 DEF ItemInv, CallInv, BodiesReachL2, Distinct, Handling
<1>10. ResponseInv
  BY <1>2, <1>3, <1>4, <1>5 DEF ResponseInv, StoredMeansCalled
<1>11. Popped = 0 /\ SavedPopped = 0
  BY <1>2, <1>4, <1>5 DEF Popped, SavedPopped
<1>12. ReadsInv
  BY <1>2, <1>3, <1>4, <1>11 DEF ReadsInv, Handling
<1>13. WritesInv
  BY <1>2, <1>3, <1>4, <1>5 DEF WritesInv, MayLoseWrite
<1>14. DeliveryInv
  <2>1. \A r \in Requests : Deliveries(r) = {} /\ ~InQueue(r) /\ ~InHand(r)
    BY <1>2, <1>3, <1>5 DEF Deliveries, InQueue, InHand
  <2>2. \A r \in Requests : Cardinality(Deliveries(r)) = 0
    BY <2>1, FS_EmptySet
  <2>3. QED
    BY <1>3, <2>1, <2>2 DEF DeliveryInv
<1>15. QED
  BY <1>1, <1>6, <1>7, <1>8, <1>9, <1>10, <1>12, <1>13, <1>14 DEF SystemInv

(* Every step preserves the inductive invariant. *)
LEMMA SystemStep == SystemInv /\ [RestartNext]_allVars => SystemInv'
<1> SUFFICES ASSUME SystemInv, [RestartNext]_allVars PROVE SystemInv'
  OBVIOUS
<1> USE DEF SystemInv
<1>1. CASE RestartNext
  <2>1. TypeOK' /\ DurableTypeOK'
    BY <1>1, SystemTypeStep DEF ItemInv, FinalItems
  <2>2. ThreadInv' /\ TicketInv' /\ IdInv'
    <3>1. CASE OfProxy(ProxyNext)
      BY <3>1, ThreadInvStep, TicketInvStep, IdInvStep DEF OfProxy, TypeOK
    <3>2. CASE UNCHANGED <<life, lives, counter, mutex, pc, cur, arrived, ticket, body>>
      BY <3>2, ProcessKept
    <3>3. QED
      BY <1>1, <3>1, <3>2 DEF RestartNext, Next, OfWorker, Fsync, Restart, vars, proxyVars
  <2>3. ItemInv' /\ CallInv' /\ ResponseInv'
    BY <1>1, ItemInvStep, CallInvStep, ResponseInvStep
  <2>4. ReadsInv' /\ WritesInv' /\ DeliveryInv'
    BY <1>1, ReadsInvStep, WritesInvStep, DeliveryInvStep
  <2>5. QED
    BY <2>1, <2>2, <2>3, <2>4
<1>2. CASE UNCHANGED allVars
  <2> USE <1>2 DEF allVars, vars, restartVars, proxyVars, workerVars, valkeyVars
  <2>1. TypeOK' /\ DurableTypeOK'
    BY DEF TypeOK, ProxyTypeOK, DurableTypeOK
  <2>2. ThreadInv' /\ TicketInv' /\ IdInv' /\ Settled' = Settled /\ FinalItems' = FinalItems
    BY ProcessKept
  <2>3. ItemInv' /\ CallInv'
    BY <2>2 DEF ItemInv, CallInv, BodiesReachL2, Distinct, Handling
  <2>4. ResponseInv'
    BY <2>2 DEF ResponseInv, StoredMeansCalled, ReachedL2
  <2>5. ReadsInv' /\ WritesInv'
    BY DEF ReadsInv, WritesInv, Popped, SavedPopped, Handling, MayLoseWrite
  <2>6. DeliveryInv'
    BY DEF DeliveryInv, Deliveries, InQueue, InHand
  <2>7. QED
    BY <2>1, <2>2, <2>3, <2>4, <2>5, <2>6
<1>3. QED
  BY <1>1, <1>2

(* The inductive invariant holds, across crashes, restarts and faults. *)
THEOREM SystemInvariance == RestartSpec => []SystemInv
BY SystemInit, SystemStep, PTL DEF RestartSpec

(* All variables of the system keep their types. *)
THEOREM SystemTypes == RestartSpec => []TypeOK
<1>1. SystemInv => TypeOK
  BY DEF SystemInv
<1>2. QED
  BY <1>1, SystemInvariance, PTL

(* The read count is behind the items taken off the queue by at most one   *)
(* for each life of the worker and one for each refused INCR, never ahead. *)
THEOREM ReadsBound == RestartSpec => []ReadsTrackPops
<1>1. SystemInv => ReadsTrackPops
  <2> SUFFICES ASSUME SystemInv PROVE ReadsTrackPops
    OBVIOUS
  <2> USE DEF SystemInv
  <2>1. /\ Popped \in Int /\ reads \in Nat /\ wlives \in Nat
        /\ orphanPolls \in Nat /\ refusedReads \in Nat
    BY LenProperties DEF TypeOK, ProxyTypeOK, Popped
  <2>2. QED
    BY <2>1 DEF ReadsInv, ReadsTrackPops
<1>2. QED
  BY <1>1, SystemInvariance, PTL

(* The worker's count passes the proxy's by at most one for each life of   *)
(* the proxy and one for each refused INCR.                                *)
THEOREM ReadsWritesBound == RestartSpec => []ReadsBehindWrites
<1>1. SystemInv => ReadsBehindWrites
  <2> SUFFICES ASSUME SystemInv PROVE ReadsBehindWrites
    OBVIOUS
  <2> USE DEF SystemInv
  <2>1. /\ Len(pushLog) \in Nat /\ Len(requests) \in Nat
        /\ reads \in Nat /\ writes \in Nat /\ lives \in Nat /\ refusedWrites \in Nat
    BY LenProperties DEF TypeOK, ProxyTypeOK
  <2>2. reads <= Len(pushLog)
    BY <2>1 DEF ReadsInv, Popped
  <2>3. Len(pushLog) <= writes + lives + refusedWrites
    BY <2>1 DEF WritesInv
  <2>4. QED
    BY <2>1, <2>2, <2>3 DEF ReadsBehindWrites
<1>2. QED
  BY <1>1, SystemInvariance, PTL

(* A stored response answers no other request of the same life. *)
THEOREM ResponsesMatch == RestartSpec => []ResponseOfSameLife
<1>1. SystemInv => ResponseOfSameLife
  <2> SUFFICES ASSUME SystemInv, NEW r \in Requests, ticket[r].id \in DOMAIN responses,
                      responses[ticket[r].id].req # r
               PROVE  ticket[responses[ticket[r].id].req].life # ticket[r].life
    BY DEF ResponseOfSameLife
  <2> DEFINE s == responses[ticket[r].id].req
  <2>1. s \in Settled /\ ticket[s].id = ticket[r].id
    BY DEF SystemInv, ResponseInv
  <2>2. s \in Requests /\ ticket[s].life # 0
    BY <2>1 DEF Settled, SystemInv, TypeOK, ProxyTypeOK
  <2>3. QED
    BY <2>1, <2>2 DEF SystemInv, TicketInv, UniqueIds
<1>2. QED
  BY <1>1, SystemInvariance, PTL

(* A stored response that is no error has its call behind it. *)
THEOREM StoredAfterCall == RestartSpec => []StoredMeansCalled
<1>1. SystemInv => StoredMeansCalled
  BY DEF SystemInv, ResponseInv
<1>2. QED
  BY <1>1, SystemInvariance, PTL

(* A body that is queued is the body that is posted. *)
THEOREM BodiesForwarded == RestartSpec => []BodiesReachL2
<1>1. SystemInv => BodiesReachL2
  BY DEF SystemInv, CallInv
<1>2. QED
  BY <1>1, SystemInvariance, PTL

(* The L2 server sees a request once, and once more for each restart. *)
THEOREM DeliveredOnce == RestartSpec => []OncePerRestart
<1>1. SystemInv => OncePerRestart
  <2> SUFFICES ASSUME SystemInv, NEW r \in Requests
               PROVE  Cardinality(Deliveries(r)) <= 1 + restarts
    BY DEF OncePerRestart
  <2>1. Cardinality(Deliveries(r)) \in Nat /\ restarts \in Nat
    BY DeliveriesCount DEF SystemInv, DurableTypeOK
  <2>2. QED
    BY <2>1 DEF SystemInv, DeliveryInv
<1>2. QED
  BY <1>1, SystemInvariance, PTL

(* Nothing lies on the queue twice or other than its request still is,     *)
(* also when Valkey has been set back.                                     *)
THEOREM PushesOnceRestart == RestartSpec => []PushedOnce
<1>1. SystemInv => PushedOnce
  BY DEF SystemInv, ItemInv, FinalItems, Distinct, PushedOnce
<1>2. QED
  BY <1>1, SystemInvariance, PTL

(* The requests of a list of items. *)
LEMMA ReqsOf ==
  ASSUME NEW S, \A e \in S : e.req \in Requests, NEW s \in Seq(S)
  PROVE  /\ Reqs(s) \in Seq(Requests) /\ Len(Reqs(s)) = Len(s)
         /\ Len(s) \in Nat /\ DOMAIN s = 1 .. Len(s) /\ DOMAIN Reqs(s) = 1 .. Len(s)
         /\ \A i \in 1 .. Len(s) : Reqs(s)[i] = s[i].req
         /\ s # << >> => Reqs(s) # << >>
<1>1. Len(s) \in Nat /\ DOMAIN s = 1 .. Len(s) /\ \A i \in 1 .. Len(s) : s[i] \in S
  BY LenProperties
<1>2. \A i \in 1 .. Len(s) : s[i].req \in Requests
  BY <1>1
<1>3. Reqs(s) = [i \in 1 .. Len(s) |-> s[i].req]
  BY <1>1 DEF Reqs
<1>4. Reqs(s) \in Seq(Requests) /\ Len(Reqs(s)) = Len(s)
  BY <1>1, <1>2, <1>3
<1>5. s # << >> => Len(s) # 0
  BY EmptySeq
<1>6. Len(<< >>) = 0
  OBVIOUS
<1>7. QED
  BY <1>1, <1>3, <1>4, <1>5, <1>6

(* The requests of a queue of items, when an item is added to it.          *)
LEMMA ReqsAppend ==
  ASSUME NEW S, \A e \in S : e.req \in Requests, NEW s \in Seq(S), NEW e \in S
  PROVE  Reqs(Append(s, e)) = Append(Reqs(s), e.req)
<1>1. /\ Append(s, e) \in Seq(S)
      /\ Len(s) \in Nat /\ Len(Append(s, e)) = Len(s) + 1
      /\ \A i \in 1 .. Len(s) : Append(s, e)[i] = s[i]
      /\ Append(s, e)[Len(s) + 1] = e
  BY AppendElements
<1>2. e.req \in Requests
  OBVIOUS
<1>3. /\ Reqs(s) \in Seq(Requests) /\ Len(Reqs(s)) = Len(s)
      /\ \A i \in 1 .. Len(s) : Reqs(s)[i] = s[i].req
  BY ReqsOf
<1>4. /\ Append(Reqs(s), e.req) \in Seq(Requests)
      /\ Len(Append(Reqs(s), e.req)) = Len(s) + 1
      /\ \A i \in 1 .. Len(s) : Append(Reqs(s), e.req)[i] = Reqs(s)[i]
      /\ Append(Reqs(s), e.req)[Len(s) + 1] = e.req
  BY <1>2, <1>3, AppendProperties
<1>5. /\ Reqs(Append(s, e)) \in Seq(Requests)
      /\ Len(Reqs(Append(s, e))) = Len(s) + 1
      /\ \A i \in 1 .. Len(s) + 1 : Reqs(Append(s, e))[i] = Append(s, e)[i].req
  BY <1>1, ReqsOf
<1>6. \A i \in 1 .. Len(s) + 1 : Reqs(Append(s, e))[i] = Append(Reqs(s), e.req)[i]
  <2>1. \A i \in 1 .. Len(s) + 1 : i \in 1 .. Len(s) \/ i = Len(s) + 1
    BY <1>1
  <2>2. \A i \in 1 .. Len(s) : i \in 1 .. Len(s) + 1
    BY <1>1
  <2>3. Len(s) + 1 \in 1 .. Len(s) + 1
    BY <1>1
  <2>4. \A i \in 1 .. Len(s) : Reqs(Append(s, e))[i] = Append(Reqs(s), e.req)[i]
    BY <1>1, <1>3, <1>4, <1>5, <2>2
  <2>5. Reqs(Append(s, e))[Len(s) + 1] = Append(Reqs(s), e.req)[Len(s) + 1]
    BY <1>1, <1>4, <1>5, <2>3
  <2>6. QED
    BY <2>1, <2>4, <2>5
<1>7. QED
  BY <1>4, <1>5, <1>6, SeqEqual

(* The requests of a queue of items, when its first item is taken.         *)
LEMMA ReqsTail ==
  ASSUME NEW s \in Seq(Items), s # << >>
  PROVE  /\ Reqs(s) # << >>
         /\ Reqs(Tail(s)) = Tail(Reqs(s)) /\ Head(Reqs(s)) = Head(s).req
<1>0. \A e \in Items : e.req \in Requests
  BY DEF Items
<1>1. /\ Tail(s) \in Seq(Items)
      /\ Len(s) \in Nat /\ Len(s) > 0 /\ Len(Tail(s)) = Len(s) - 1
      /\ Head(s) = s[1]
      /\ \A i \in 1 .. Len(s) - 1 : Tail(s)[i] = s[i + 1]
  <2>1. DOMAIN Tail(s) = 1 .. Len(Tail(s))
    BY TailElements, LenProperties
  <2>2. QED
    BY <2>1, TailElements
<1>2. /\ Reqs(s) \in Seq(Requests) /\ Len(Reqs(s)) = Len(s) /\ Reqs(s) # << >>
      /\ \A i \in 1 .. Len(s) : Reqs(s)[i] = s[i].req
  BY <1>0, ReqsOf
<1>3. /\ Tail(Reqs(s)) \in Seq(Requests) /\ Len(Tail(Reqs(s))) = Len(s) - 1
      /\ \A i \in 1 .. Len(s) - 1 : Tail(Reqs(s))[i] = Reqs(s)[i + 1]
      /\ Head(Reqs(s)) = Reqs(s)[1]
  BY <1>2, HeadTailProperties, TailElements
<1>4. /\ Reqs(Tail(s)) \in Seq(Requests) /\ Len(Reqs(Tail(s))) = Len(s) - 1
      /\ \A i \in 1 .. Len(s) - 1 : Reqs(Tail(s))[i] = Tail(s)[i].req
  BY <1>0, <1>1, ReqsOf
<1>5. \A i \in 1 .. Len(s) - 1 : i + 1 \in 1 .. Len(s)
  BY <1>1
<1>6. \A i \in 1 .. Len(s) - 1 : Reqs(Tail(s))[i] = Tail(Reqs(s))[i]
  BY <1>1, <1>2, <1>3, <1>4, <1>5
<1>7. Reqs(Tail(s)) = Tail(Reqs(s))
  BY <1>3, <1>4, <1>6, SeqEqual
<1>8. 1 \in 1 .. Len(s)
  BY <1>1
<1>9. QED
  BY <1>1, <1>2, <1>3, <1>7, <1>8

(* The initial states are initial states of RequestDelivery. *)
LEMMA DeliveryInit == RestartInit => Delivery!Init
<1> SUFFICES ASSUME RestartInit PROVE Delivery!Init
  OBVIOUS
<1>1. requests = << >> /\ pushLog = << >> /\ wpc = "down" /\ l2log = << >>
      /\ durable.requests = << >> /\ durable.pushLog = << >>
  BY DEF RestartInit, Init, ProxyInit, ValkeyInit, WorkerInit, Keys
<1>2. Reqs(<< >>) = << >> /\ PushedIn(<< >>) = {}
  BY DEF Reqs, PushedIn
<1>3. QED
  BY <1>1, <1>2 DEF Delivery!Init

(* Every step of the system is a step of RequestDelivery or changes        *)
(* nothing of it.                                                          *)
LEMMA DeliveryStep ==
  ASSUME SystemInv, RestartNext
  PROVE  Delivery!Next \/ UNCHANGED Delivery!deliveryVars
<1> DEFINE queue     == Reqs(requests)
           submitted == PushedIn(pushLog)
           hand      == IF wpc = "curl" THEN witem.req ELSE NoRequest
           delivered == Reqs(l2log)
           saved     == [queue |-> Reqs(durable.requests), submitted |-> PushedIn(durable.pushLog)]
<1>t. /\ requests \in Seq(Items) /\ pushLog \in Seq(Items) /\ l2log \in Seq(Call)
      /\ \A e \in Items \cup Call : e.req \in Requests
  BY DEF SystemInv, TypeOK, ProxyTypeOK, Call, Items
<1>h. wpc = "curl" => witem \in Items /\ hand \in Requests /\ hand # NoRequest
  BY ProxyAssumption DEF SystemInv, ItemInv, Handling, FinalItems, Items
<1>1. CASE OfProxy(ProxyNext) /\ UNCHANGED restartVars
  <2>1. UNCHANGED <<hand, delivered, saved>>
    BY <1>1 DEF OfProxy, workerVars, restartVars
  <2>2. CASE UNCHANGED <<requests, pushLog>>
    BY <2>1, <2>2 DEF Delivery!deliveryVars
  <2>3. ASSUME NEW t \in Threads, pc[t] = "rpush", pc' = [pc EXCEPT ![t] = "incr"],
               UNCHANGED <<life, lives, cur, arrived, ticket, body, writes>>,
               requests' = Append(requests, Item(cur[t])),
               pushLog' = Append(pushLog, Item(cur[t]))
        PROVE  Delivery!Next
    <3>1. /\ Item(cur[t]) \in Items /\ Item(cur[t]).req = cur[t] /\ cur[t] \notin Settled
          /\ cur[t] \in Requests
      <4>1. Item(cur[t]) \in Items /\ Item(cur[t]).req = cur[t] /\ cur[t] \notin Settled
        BY <2>3, PushSettles DEF SystemInv, TypeOK
      <4>2. QED
        BY <1>t, <4>1
    <3>2. queue' = Append(queue, cur[t])
      BY <1>t, <2>3, <3>1, ReqsAppend
    <3>3. submitted' = submitted \cup {cur[t]}
      <4>1. /\ \A i \in DOMAIN pushLog : i \in DOMAIN pushLog' /\ pushLog'[i] = pushLog[i]
            /\ Len(pushLog) + 1 \in DOMAIN pushLog' /\ pushLog'[Len(pushLog) + 1].req = cur[t]
            /\ \A i \in DOMAIN pushLog' : i \in DOMAIN pushLog \/ i = Len(pushLog) + 1
        <5>1. /\ Len(pushLog) \in Nat
              /\ DOMAIN pushLog = 1 .. Len(pushLog) /\ DOMAIN pushLog' = 1 .. Len(pushLog) + 1
              /\ \A i \in DOMAIN pushLog : pushLog'[i] = pushLog[i]
              /\ pushLog'[Len(pushLog) + 1] = Item(cur[t])
              /\ \A i \in DOMAIN pushLog' : i \in DOMAIN pushLog \/ i = Len(pushLog) + 1
          BY <1>t, <2>3, <3>1, AppendElements
        <5>2. \A i \in 1 .. Len(pushLog) : i \in 1 .. Len(pushLog) + 1
          BY <5>1
        <5>3. Len(pushLog) + 1 \in 1 .. Len(pushLog) + 1
          BY <5>1
        <5>4. QED
          BY <3>1, <5>1, <5>2, <5>3
      <4>2. QED
        BY <4>1 DEF PushedIn
    <3>4. cur[t] \notin submitted
      BY <3>1 DEF PushedIn, SystemInv, ItemInv, FinalItems
    <3>5. Delivery!Submit(cur[t])
      BY <2>1, <3>2, <3>3, <3>4 DEF Delivery!Submit
    <3>6. QED
      BY <3>1, <3>5 DEF Delivery!Next
  <2>4. QED
    BY <1>1, <2>2, <2>3, ProxyFrame DEF OfProxy
<1>2. CASE OfWorker(WorkerNext) /\ UNCHANGED restartVars
  <2>0. UNCHANGED <<pushLog, durable>>
    BY <1>2, WorkerFrame DEF OfWorker, restartVars, SystemInv
  <2>1. CASE /\ l2log' = l2log /\ requests' = requests
             /\ wpc' = "curl" => wpc = "curl" /\ witem' = witem
    <3>1. CASE wpc = "curl" /\ wpc' # "curl"
      <4>1. Delivery!LoseInHand
        BY <1>h, <2>0, <2>1, <3>1 DEF Delivery!LoseInHand
      <4>2. QED
        BY <4>1 DEF Delivery!Next
    <3>2. CASE ~(wpc = "curl" /\ wpc' # "curl")
      BY <2>0, <2>1, <3>2 DEF Delivery!deliveryVars
    <3>3. QED
      BY <3>1, <3>2
  <2>2. CASE /\ l2log' = l2log
             /\ requests # << >> /\ requests' = Tail(requests)
             /\ wpc' = "curl" <=> wpc = "curl"
             /\ wpc = "curl" => witem' = witem
    <3>1. queue # << >> /\ queue' = Tail(queue)
      BY <1>t, <2>2, ReqsTail
    <3>2. UNCHANGED <<submitted, hand, delivered, saved>>
      BY <2>0, <2>2
    <3>3. Delivery!LoseQueued
      BY <3>1, <3>2 DEF Delivery!LoseQueued
    <3>4. QED
      BY <3>3 DEF Delivery!Next
  <2>3. CASE /\ l2log' = l2log
             /\ requests # << >> /\ requests' = Tail(requests)
             /\ wpc = "blpop" /\ wpc' = "curl" /\ witem' = Head(requests)
    <3>1. queue # << >> /\ queue' = Tail(queue) /\ hand' = Head(queue)
      BY <1>t, <2>3, ReqsTail
    <3>2. UNCHANGED <<submitted, delivered, saved>> /\ hand = NoRequest
      BY <2>0, <2>3
    <3>3. Delivery!Take
      BY <3>1, <3>2 DEF Delivery!Take
    <3>4. QED
      BY <3>3 DEF Delivery!Next
  <2>4. CASE /\ wpc = "curl" /\ wpc' # "curl"
             /\ requests' = requests /\ l2log' = Append(l2log, L2Call(witem))
    <3>1. L2Call(witem) \in Call /\ L2Call(witem).req = witem.req
      BY <1>h, <2>4, L2CallType
    <3>2. delivered' = Append(delivered, hand)
      BY <1>t, <2>4, <3>1, ReqsAppend
    <3>3. UNCHANGED <<queue, submitted, saved>> /\ hand # NoRequest /\ hand' = NoRequest
      BY <1>h, <2>0, <2>4
    <3>4. Delivery!Deliver
      BY <3>2, <3>3 DEF Delivery!Deliver
    <3>5. QED
      BY <3>4 DEF Delivery!Next
  <2>5. QED
    BY <1>2, <2>1, <2>2, <2>3, <2>4, DeliveryFrame DEF OfWorker, SystemInv
<1>3. ASSUME NEW id \in DOMAIN responses, Expire(id),
             UNCHANGED <<proxyVars, workerVars, refusedWrites, refusedReads>>, UNCHANGED restartVars
      PROVE  UNCHANGED Delivery!deliveryVars
  BY <1>3 DEF Expire, workerVars, restartVars, Delivery!deliveryVars
<1>4. CASE Fsync
  <2>1. /\ UNCHANGED <<requests, pushLog, wpc, witem, l2log>>
        /\ durable'.requests = requests /\ durable'.pushLog = pushLog
    BY <1>4 DEF Fsync, Keys, vars, workerVars, valkeyVars
  <2>2. Delivery!Save
    BY <2>1 DEF Delivery!Save
  <2>3. QED
    BY <2>2 DEF Delivery!Next
<1>5. CASE Restart
  <2>1. /\ UNCHANGED <<durable, wpc, witem, l2log>>
        /\ requests' = durable.requests /\ pushLog' = durable.pushLog
    BY <1>5 DEF Restart
  <2>2. Delivery!SetBack
    BY <2>1 DEF Delivery!SetBack
  <2>3. QED
    BY <2>2 DEF Delivery!Next
<1>6. QED
  BY <1>1, <1>2, <1>3, <1>4, <1>5 DEF RestartNext, Next

(* The system implements RequestDelivery: the L2 server sees the requests  *)
(* in queue order and none twice but for what a restart puts back.         *)
THEOREM DeliveryRefinement == RestartSpec => ImplementsDelivery
<1>1. RestartInit => Delivery!Init
  BY DeliveryInit
<1>2. SystemInv /\ [RestartNext]_allVars => [Delivery!Next]_(Delivery!deliveryVars)
  <2> SUFFICES ASSUME SystemInv, [RestartNext]_allVars
               PROVE  Delivery!Next \/ UNCHANGED Delivery!deliveryVars
    OBVIOUS
  <2>1. CASE RestartNext
    BY <2>1, DeliveryStep
  <2>2. CASE UNCHANGED allVars
    BY <2>2 DEF allVars, vars, restartVars, workerVars, valkeyVars, Delivery!deliveryVars
  <2>3. QED
    BY <2>1, <2>2
<1>3. QED
  BY <1>1, <1>2, SystemInvariance, PTL DEF RestartSpec, ImplementsDelivery, Delivery!Spec
=============================================================================
