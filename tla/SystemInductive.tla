--------------------------- MODULE SystemInductive ---------------------------
(***************************************************************************)
(* The inductive invariant of ValkeyRestart: what has to be known of the   *)
(* queue, of the worker and of what a restart will load, besides the       *)
(* threads and the ids of the proxy, so that each step preserves the       *)
(* properties of HttpRedisProxy and ValkeyRestart.                         *)
(***************************************************************************)
EXTENDS ValkeyRestart, ProxyInductive

(* The worker has popped an item and not yet counted it. *)
Handling == wpc \in {"curl", "setex", "trace", "incr"}

(* What a thread does with its request until it is pushed. *)
BeforePush == {"read", "id", "check", "lock", "rpush"}

(* The requests that have an id and are past their push: no step gives     *)
(* them another id or another body.                                        *)
Settled ==
  {r \in arrived :
     ticket[r].life # 0 /\ \A t \in Threads : pc[t] \in BeforePush => cur[t] # r}

(* The items that are what their request will be for ever. *)
FinalItems == {item \in Items : item.req \in Settled /\ item = Item(item.req)}

Distinct(log) == \A i, j \in DOMAIN log : log[i].req = log[j].req => i = j

(* The types of what a restart loads. *)
DurableTypeOK ==
  /\ durable.requests \in Seq(Items) /\ durable.pushLog \in Seq(Items)
  /\ durable.writes \in Nat /\ durable.reads \in Nat /\ durable.savedCounter \in Nat
  /\ DOMAIN durable.responses \subseteq Nat
  /\ \A id \in DOMAIN durable.responses :
       durable.responses[id] \in [req : Requests, result : {"ok", "error"}]
  /\ restarts \in Nat

(* Only a running process gives out ids, and a thread that has none yet    *)
(* does not push.                                                          *)
IdInv ==
  /\ life # "down" => lives # 0
  /\ \A t \in Threads : pc[t] \in {"check", "lock", "rpush"} => ticket[cur[t]].life # 0

(* Wherever an item lies it is final, and no request lies twice in a list, *)
(* also in what a restart will load.                                       *)
ItemInv ==
  /\ \A i \in DOMAIN pushLog : pushLog[i] \in FinalItems
  /\ \A i \in DOMAIN requests : requests[i] \in FinalItems
  /\ \A i \in DOMAIN durable.pushLog : durable.pushLog[i] \in FinalItems
  /\ \A i \in DOMAIN durable.requests : durable.requests[i] \in FinalItems
  /\ Distinct(pushLog) /\ Distinct(requests)
  /\ Distinct(durable.pushLog) /\ Distinct(durable.requests)
  /\ Handling => witem \in FinalItems

(* What the L2 server got is what its request will be for ever. *)
CallInv ==
  /\ \A i \in DOMAIN l2log : l2log[i].req \in Settled
  /\ BodiesReachL2

(* A response lies under the id of its request, and a good one, also one   *)
(* that is yet to be stored or loaded, has its call behind it.             *)
ResponseInv ==
  /\ \A id \in DOMAIN responses :
       responses[id].req \in Settled /\ ticket[responses[id].req].id = id
  /\ \A id \in DOMAIN durable.responses :
       durable.responses[id].req \in Settled /\ ticket[durable.responses[id].req].id = id
  /\ StoredMeansCalled
  /\ \A id \in DOMAIN durable.responses :
       durable.responses[id].result = "ok" => ReachedL2(durable.responses[id].req)
  /\ (wpc = "setex" /\ wresult = "ok") => ReachedL2(witem.req)

(* How many items had left the queue that a restart will load. *)
SavedPopped == Len(durable.pushLog) - Len(durable.requests)

(* How far stats:redis_reads may be behind: by the items the server may    *)
(* still pop for a dead connection, and by one that this life of the       *)
(* worker may yet lose as long as its connection is whole.                 *)
ReadsInv ==
  /\ reads <= Popped
  /\ (Handling /\ ~werr) => reads < Popped
  /\ Popped + orphanPolls + (IF wpc # "down" /\ ~werr /\ ~Handling THEN 1 ELSE 0)
       <= reads + wlives + refusedReads
  /\ durable.reads <= SavedPopped
  /\ SavedPopped <= durable.reads + wlives + refusedReads

(* This life of the proxy may yet lose the count of a push: its connection *)
(* is whole, and no push waits to be counted.                              *)
MayLoseWrite == life # "down" /\ ~redisErr /\ \A t \in Threads : pc[t] # "incr"

(* How far stats:redis_writes may be behind, in the same way. *)
WritesInv ==
  /\ Len(pushLog) + (IF MayLoseWrite THEN 1 ELSE 0) <= writes + lives + refusedWrites
  /\ Len(durable.pushLog) <= durable.writes + lives + refusedWrites

(* The call for a request that the worker is about to make. *)
InHand(r) == wpc = "curl" /\ witem.req = r

(* A request that is queued or in hand may be delivered once more. *)
DeliveryInv ==
  \A r \in Requests :
    Cardinality(Deliveries(r)) + (IF InQueue(r) THEN 1 ELSE 0) + (IF InHand(r) THEN 1 ELSE 0)
      <= 1 + restarts

(* The inductive invariant of the system. *)
SystemInv ==
  /\ TypeOK /\ DurableTypeOK /\ ThreadInv /\ TicketInv /\ IdInv
  /\ ItemInv /\ CallInv /\ ResponseInv /\ ReadsInv /\ WritesInv /\ DeliveryInv
=============================================================================
