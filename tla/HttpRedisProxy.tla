--------------------------- MODULE HttpRedisProxy ---------------------------
(***************************************************************************)
(* The deployed system of docker-compose.yml: one proxy process and one    *)
(* worker process that share nothing but the keys of Valkey.  Their steps  *)
(* interleave in any order; each may be started, stopped and killed on its *)
(* own.  Valkey itself stays up.                                           *)
(***************************************************************************)
EXTENDS Proxy, Worker

VARIABLES
  refusedWrites,  \* history: the INCRs of stats:redis_writes the server refused
  refusedReads    \* history: the INCRs of stats:redis_reads it refused

vars == <<proxyVars, workerVars, valkeyVars, refusedWrites, refusedReads>>

Init == ProxyInit /\ WorkerInit /\ refusedWrites = 0 /\ refusedReads = 0

(* The step is an INCR the server answered with an error. *)
RefusesWrite ==
  /\ \E t \in Threads : pc[t] = "incr" /\ pc'[t] = "reply"
  /\ writes' = writes /\ ~redisErr'

RefusesRead == wpc = "incr" /\ wpc' = "loop" /\ reads' = reads /\ ~werr'

CountRefusals ==
  /\ refusedWrites' = IF RefusesWrite THEN refusedWrites + 1 ELSE refusedWrites
  /\ refusedReads' = IF RefusesRead THEN refusedReads + 1 ELSE refusedReads

(* A step of one process leaves the variables of the other alone. *)
OfProxy(A) == A /\ UNCHANGED workerVars /\ CountRefusals
OfWorker(A) == A /\ UNCHANGED proxyVars /\ CountRefusals

Next ==
  \/ OfProxy(ProxyNext)
  \/ OfWorker(WorkerNext)
  \/ \E id \in DOMAIN responses :
       Expire(id) /\ UNCHANGED <<proxyVars, workerVars, refusedWrites, refusedReads>>

Spec == Init /\ [][Next]_vars

(* Both schedulers run what can run and every command returns; a BLPOP     *)
(* does not block for ever because it has a timeout, and a call of the L2  *)
(* server has one, too.  Valkey does not refuse BLPOPs for ever.  A step   *)
(* of one process changes none of the other's variables, so each fairness  *)
(* condition is about the variables of its own process.                    *)
Fairness ==
  /\ ProxyFairness
  /\ WF_workerVars(WorkerStep)
  /\ SF_workerVars(PollItem)

FairSpec == Spec /\ Fairness
-----------------------------------------------------------------------------
(* The types of the worker's variables and of the keys it writes. *)
TypeOK ==
  /\ ProxyTypeOK
  /\ wpc \in WorkerSteps
  /\ wlives \in Nat
  /\ wshutdown \in BOOLEAN
  /\ werr \in BOOLEAN
  /\ witem \in Items \cup {NoItem}
  /\ wresult \in {"ok", "error"}
  /\ curl \in {"fresh", "post"}
  /\ l2log \in Seq([req : Requests, method : {"GET", "POST"}, body : Bodies \cup {"stale"}])
  /\ orphanPolls \in Nat
  /\ reads \in Nat /\ refusedWrites \in Nat /\ refusedReads \in Nat
  /\ DOMAIN responses \subseteq Nat
  /\ \A id \in DOMAIN responses :
       responses[id] \in [req : Requests, result : {"ok", "error"}]

(* How many items have left the queue. *)
Popped == Len(pushLog) - Len(requests)

(* stats:redis_reads follows the items that left the queue: it never       *)
(* counts one that did not, and but for the INCRs the server refused it    *)
(* misses at most one for each life of the worker, the one a broken        *)
(* connection or a crash cut off (main.cpp:687-698).                       *)
ReadsTrackPops ==
  /\ reads <= Popped
  /\ Popped <= reads + wlives + refusedReads

(* The two numbers /stats shows: the worker may count an item before the   *)
(* proxy has, but, save for refused INCRs, only by one for each life of    *)
(* the proxy (main.cpp:356-370, 693-698).                                  *)
ReadsBehindWrites == reads <= writes + lives + refusedWrites

(* A stored response never answers another request of the same life of the *)
(* proxy: who finds http:response:<id> under the id of its 200 finds its   *)
(* own response or that of a request of another life (main.cpp:644).       *)
ResponseOfSameLife ==
  \A r \in Requests :
    (ticket[r].id \in DOMAIN responses /\ responses[ticket[r].id].req # r)
      => ticket[responses[ticket[r].id].req].life # ticket[r].life

(* A response is stored only after the L2 server was called for it: if the *)
(* stored result is not an error, the call arrived (main.cpp:617-650).     *)
StoredMeansCalled ==
  \A id \in DOMAIN responses :
    responses[id].result = "ok" =>
      \E i \in DOMAIN l2log : l2log[i].req = responses[id].req

(* A request with a body reaches the L2 server as a POST of the very bytes *)
(* the proxy queued, whatever the handle was used for before               *)
(* (main.cpp:559-586).                                                     *)
BodiesReachL2 ==
  \A i \in DOMAIN l2log :
    LET r == l2log[i].req IN
      body[r] # "none" => l2log[i].method = "POST" /\ l2log[i].body = body[r]

InQueue(r) == \E i \in DOMAIN requests : requests[i].req = r
ReachedL2(r) == \E i \in DOMAIN l2log : l2log[i].req = r

(* A queued POST reaches the L2 server, or the call for it fails, whatever *)
(* is queued before it and whatever the proxy does meanwhile, unless the   *)
(* worker ends or loses its connection, or a dead connection of an earlier *)
(* worker steals it (main.cpp:682-708).                                    *)
PostsReachL2 ==
  \A r \in Posts \cup EmptyPosts :
    (InQueue(r) /\ orphanPolls = 0) ~>
      \/ ReachedL2(r)
      \/ wpc = "setex" /\ witem.req = r /\ wresult = "error"
      \/ wpc = "down" \/ werr

(* A signalled worker ends, whether it waits in BLPOP or processes. *)
WorkerShutdownCompletes == wshutdown ~> wpc = "down"

(* What README.md:219 says, read for the bodies: the L2 server gets what   *)
(* the client sent, the body of the request it is called for and not that  *)
(* of another (main.cpp:570-577).                                          *)
L2GetsOwnBody == \A i \in DOMAIN l2log : l2log[i].body = body[l2log[i].req]
=============================================================================
