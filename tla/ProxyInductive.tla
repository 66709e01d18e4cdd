--------------------------- MODULE ProxyInductive ---------------------------
(***************************************************************************)
(* The inductive invariant of Proxy: what has to be known besides the      *)
(* properties of module Proxy so that each step preserves them.            *)
(***************************************************************************)
EXTENDS Proxy

Pushed(r) == \E i \in DOMAIN pushLog : pushLog[i].req = r

(* A thread has a request exactly while it is busy, no two threads have    *)
(* the same, and nobody is busy when the server does not run.              *)
ThreadInv ==
  /\ \A t \in Threads : pc[t] = "idle" <=> cur[t] = NoRequest
  /\ \A t \in Threads : pc[t] # "idle" => cur[t] \in arrived
  /\ \A t, u \in Threads : (t # u /\ pc[t] # "idle") => cur[t] # cur[u]
  /\ NoHandlerAfterFree
  /\ MutexHolder

(* Every ticket is of this life or of an earlier one, and those of this    *)
(* life are not ahead of the counter.                                      *)
TicketInv ==
  /\ \A r \in Requests : ticket[r].life <= lives
  /\ \A r \in Requests : (ticket[r].life = lives /\ life # "down") => ticket[r].id <= counter
  /\ UniqueIds

(* What was pushed has passed its RPUSH: its id and its body are final. *)
PushInv ==
  /\ PushedOnce
  /\ \A i \in DOMAIN pushLog : pushLog[i].req \in arrived
  /\ \A t \in Threads :
       pc[t] \in {"read", "id", "check", "lock", "rpush"} =>
         \A i \in DOMAIN pushLog : pushLog[i].req # cur[t]

(* The push that this life may still fail to count has not happened while  *)
(* the connection is whole and nobody is between RPUSH and INCR; while     *)
(* somebody is, there is a push to count.                                  *)
LagInv ==
  "error" \notin Faults =>
    /\ writes <= Len(pushLog)
    /\ Len(pushLog) <= writes + lives
    /\ (life # "down" /\ ~redisErr /\ \A t \in Threads : pc[t] # "incr")
         => Len(pushLog) < writes + lives
    /\ (~redisErr /\ \E t \in Threads : pc[t] = "incr") => writes < Len(pushLog)

(* While the server serves, every body that handlePost can read is read    *)
(* whole; and no request is answered before its thread replies.            *)
BodyInv ==
  /\ answered \subseteq arrived
  /\ \A t \in Threads : pc[t] \notin {"idle", "trace"} => cur[t] \notin answered
  /\ (~ShortReads /\ life = "serving") =>
       \A t \in Threads :
         (pc[t] \notin {"idle", "read"} /\ cur[t] \notin Curtailed) => body[cur[t]] = SentBody(cur[t])
  /\ AnsweredWholeBody

(* While the connection is whole, who passed RPUSH is queued. *)
ReplyInv ==
  ("error" \notin Faults /\ life # "down" /\ ~redisErr) =>
    /\ \A t \in Threads : pc[t] \in {"incr", "reply", "trace"} => Pushed(cur[t])
    /\ AnsweredIsPushed

(* The inductive invariant of the proxy. *)
ProxyInv ==
  ProxyTypeOK /\ ThreadInv /\ TicketInv /\ PushInv /\ LagInv /\ BodyInv /\ ReplyInv
=============================================================================
