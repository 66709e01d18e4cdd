---------------------------- MODULE ValkeyRestart ----------------------------
(***************************************************************************)
(* HttpRedisProxy with a Valkey that may be killed and started again.      *)
(* valkey.conf sets appendonly yes and appendfsync everysec: what it loads *)
(* is a state it was in before, not necessarily the last one.  The history *)
(* of pushes is set back with the queue it is the history of.              *)
(*                                                                         *)
(* hiredis sees that a connection is cut when the next command is sent on  *)
(* it; nothing else happens on it before, so err is set here at once.  The *)
(* time while Valkey is away is the time in which all commands fail.       *)
(***************************************************************************)
EXTENDS HttpRedisProxy, FiniteSets

CONSTANT MaxRestarts  \* bound: how often Valkey is killed

ASSUME RestartAssumption == MaxRestarts \in Nat

VARIABLES
  durable,   \* what the next start of Valkey will load
  synced,    \* bound: the state to load is chosen once for each restart
  restarts   \* how often Valkey was restarted

restartVars == <<durable, synced, restarts>>

Keys == [requests |-> requests, writes |-> writes, reads |-> reads,
         savedCounter |-> savedCounter, responses |-> responses, pushLog |-> pushLog]

RestartInit == Init /\ durable = Keys /\ synced = FALSE /\ restarts = 0

(* The append-only file is written and synced up to here. *)
Fsync ==
  /\ restarts < MaxRestarts /\ ~synced
  /\ durable' = Keys
  /\ synced' = TRUE
  /\ UNCHANGED <<vars, restarts>>

(* Wrong variant: the file is loaded twice over. *)
RestartUncounted ==
  /\ restarts < MaxRestarts
  /\ requests' = durable.requests \o durable.requests
  /\ pushLog' = durable.pushLog
  /\ writes' = durable.writes /\ reads' = durable.reads
  /\ savedCounter' = durable.savedCounter /\ responses' = durable.responses
  /\ redisErr' = (life # "down")
  /\ werr' = (wpc # "down")
  /\ orphanPolls' = 0
  /\ synced' = FALSE
  /\ restarts' = restarts + 1
  /\ UNCHANGED <<durable, refusedWrites, refusedReads,
                 life, lives, shutdown, counter, mutex, pc, cur, arrived, ticket, body, answered,
                 wpc, wlives, wshutdown, witem, wresult, curl, l2log>>

(* Valkey is killed, started and loads its file; every connection and      *)
(* every BLPOP that waited is gone.                                        *)
Restart ==
  /\ restarts < MaxRestarts
  /\ requests' = durable.requests /\ pushLog' = durable.pushLog
  /\ writes' = durable.writes /\ reads' = durable.reads
  /\ savedCounter' = durable.savedCounter /\ responses' = durable.responses
  /\ redisErr' = (life # "down")
  /\ werr' = (wpc # "down")
  /\ orphanPolls' = 0
  /\ synced' = FALSE
  /\ restarts' = restarts + 1
  /\ UNCHANGED <<durable, refusedWrites, refusedReads,
                 life, lives, shutdown, counter, mutex, pc, cur, arrived, ticket, body, answered,
                 wpc, wlives, wshutdown, witem, wresult, curl, l2log>>

RestartNext ==
  \/ Next /\ UNCHANGED restartVars
  \/ Fsync
  \/ Restart

allVars == <<vars, restartVars>>

RestartSpec == RestartInit /\ [][RestartNext]_allVars
-----------------------------------------------------------------------------
Deliveries(r) == {i \in DOMAIN l2log : l2log[i].req = r}

(* A restart may put back what had been taken, so the L2 server can get a  *)
(* request again, but only once more for each restart (main.cpp:687,       *)
(* valkey.conf:19-21).                                                     *)
OncePerRestart == \A r \in Requests : Cardinality(Deliveries(r)) <= 1 + restarts

Reqs(s) == [i \in DOMAIN s |-> s[i].req]

PushedIn(log) == {log[i].req : i \in DOMAIN log}

(* The worker has a request in hand until it has called the L2 server; an  *)
(* item it skips (no POST) leaves the queue without being taken.           *)
Delivery == INSTANCE RequestDelivery WITH
  Nobody    <- NoRequest,
  queue     <- Reqs(requests),
  submitted <- PushedIn(pushLog),
  inHand    <- IF wpc = "curl" THEN witem.req ELSE NoRequest,
  delivered <- Reqs(l2log),
  saved     <- [queue |-> Reqs(durable.requests), submitted |-> PushedIn(durable.pushLog)]

(* The system delivers requests as RequestDelivery says: in queue order,   *)
(* none twice but for what a restart of Valkey puts back, across crashes   *)
(* and restarts of both processes (main.cpp:356-358, 687-691).             *)
ImplementsDelivery == Delivery!Spec
=============================================================================
