------------------------------- MODULE Worker -------------------------------
(***************************************************************************)
(* The process started with MODE=worker: L2Worker (main.cpp:521-725), one  *)
(* thread that pops an item from http:requests, forwards it to the L2      *)
(* server with one reused curl handle, stores the response under           *)
(* http:response:<id> and counts it.  docker-compose.yml runs one worker.  *)
(*                                                                         *)
(* The L2 server is external: l2log is what has reached it.  Items are     *)
(* records with the fields req, id, method and body (Proxy's Item); they   *)
(* are written by a JSON writer, so the worker's parse always succeeds.    *)
(***************************************************************************)
EXTENDS Valkey

CONSTANTS
  NoItem,          \* the item of a worker that holds none
  MaxWorkerLives,  \* bound: how often the container is started
  WorkerEnds,      \* how the process may be ended: "signal", "crash"
  WorkerTracing,   \* is a tracer compiled in and configured?
  L2Faults,        \* how a call of the L2 server may fail
  PollRefused      \* option: Valkey may refuse a BLPOP

ASSUME WorkerAssumption ==
  /\ MaxWorkerLives \in Nat
  /\ WorkerEnds \subseteq {"signal", "crash"}
  /\ WorkerTracing \in BOOLEAN /\ PollRefused \in BOOLEAN
  /\ L2Faults \subseteq {"timeout", "refused"}

VARIABLES
  wpc,         \* "down", or what the thread is about to do
  wlives,      \* how often the process was started
  wshutdown,   \* shutdown_flag
  werr,        \* redisContext.err
  witem,       \* the item being processed
  wresult,     \* what call_l2_server returned: "ok" or "error"
  curl,        \* the handle's sticky options: "fresh", or "post" after a call with a body
  l2log,       \* history: the calls that reached the L2 server, in order
  orphanPolls  \* how many BLPOPs the server still holds whose connection is gone

workerVars == <<wpc, wlives, wshutdown, werr, witem, wresult, curl, l2log, orphanPolls>>

WorkerSteps == {"down", "loop", "blpop", "curl", "setex", "trace", "incr"}

WorkerInit ==
  /\ wpc = "down"
  /\ wlives = 0
  /\ wshutdown = FALSE
  /\ werr = FALSE
  /\ witem = NoItem
  /\ wresult = "ok"
  /\ curl = "fresh"
  /\ l2log = << >>
  /\ orphanPolls = 0

WGoto(s) == wpc' = s
-----------------------------------------------------------------------------
(* L2Worker's constructor: a fresh connection and a fresh curl handle.     *)
(* When either fails the process exits and is down as before.              *)
WStart ==
  /\ wpc = "down" /\ wlives < MaxWorkerLives
  /\ wlives' = wlives + 1
  /\ WGoto("loop")
  /\ UNCHANGED <<wshutdown, werr, witem, wresult, curl, l2log, orphanPolls, valkeyVars>>

WSignal ==
  /\ "signal" \in WorkerEnds
  /\ wpc # "down" /\ ~wshutdown
  /\ wshutdown' = TRUE
  /\ UNCHANGED <<wpc, wlives, werr, witem, wresult, curl, l2log, orphanPolls, valkeyVars>>

(* The process ends: its connection and its memory are gone.  A BLPOP the  *)
(* server still waits on stays there until it notices.                     *)
WorkerGone ==
  /\ WGoto("down")
  /\ wshutdown' = FALSE
  /\ werr' = FALSE
  /\ witem' = NoItem
  /\ wresult' = "ok"
  /\ curl' = "fresh"
  /\ orphanPolls' = IF wpc = "blpop" /\ ~werr THEN orphanPolls + 1 ELSE orphanPolls
  /\ UNCHANGED <<wlives, l2log, valkeyVars>>

(* while (!shutdown_flag) ends, run() returns, ~L2Worker. *)
WExit ==
  /\ wpc = "loop" /\ wshutdown
  /\ WorkerGone

WCrash ==
  /\ "crash" \in WorkerEnds
  /\ wpc # "down"
  /\ WorkerGone

(* Wrong variant: while (true). *)
EnterPollAlways ==
  /\ wpc = "loop"
  /\ WGoto("blpop")
  /\ UNCHANGED <<wlives, wshutdown, werr, witem, wresult, curl, l2log, orphanPolls, valkeyVars>>

(* The loop condition is read; the next read of it is after the BLPOP. *)
EnterPoll ==
  /\ wpc = "loop" /\ ~wshutdown
  /\ WGoto("blpop")
  /\ UNCHANGED <<wlives, wshutdown, werr, witem, wresult, curl, l2log, orphanPolls, valkeyVars>>

(* BLPOP answers with an item.  process_request returns at once for        *)
(* anything but a POST, and run() then counts the read all the same.       *)
PollItem ==
  /\ wpc = "blpop" /\ "ok" \in Outcomes(werr)
  /\ requests # << >>
  /\ witem' = Head(requests)
  /\ requests' = Tail(requests)
  /\ WGoto(IF Head(requests).method = "POST" THEN "curl" ELSE "incr")
  /\ UNCHANGED <<wlives, wshutdown, werr, wresult, curl, l2log, orphanPolls,
                 writes, reads, savedCounter, responses, pushLog>>

(* Wrong variant: the INCR of the read count stands outside the if. *)
PollTimeoutCounts ==
  /\ wpc = "blpop" /\ "ok" \in Outcomes(werr)
  /\ requests = << >>
  /\ reads' = reads + 1
  /\ WGoto("loop")
  /\ UNCHANGED <<wlives, wshutdown, werr, witem, wresult, curl, l2log, orphanPolls,
                 requests, writes, savedCounter, responses, pushLog>>

(* BLPOP answers nil when its 10 seconds are over and the list is empty. *)
PollTimeout ==
  /\ wpc = "blpop" /\ "ok" \in Outcomes(werr)
  /\ requests = << >>
  /\ WGoto("loop")
  /\ UNCHANGED <<wlives, wshutdown, werr, witem, wresult, curl, l2log, orphanPolls, valkeyVars>>

(* BLPOP answers with an error reply: it is a write, and Valkey refuses    *)
(* those while it cannot write its append-only file.                       *)
PollError ==
  /\ wpc = "blpop" /\ PollRefused /\ "ok" \in Outcomes(werr)
  /\ WGoto("loop")
  /\ UNCHANGED <<wlives, wshutdown, werr, witem, wresult, curl, l2log, orphanPolls, valkeyVars>>

(* BLPOP returns NULL.  The server may have popped an item for it, may     *)
(* still hold it blocked, or never got it.                                 *)
PollBroken(o) ==
  /\ wpc = "blpop"
  /\ o \in Outcomes(werr) /\ Breaks(o)
  /\ requests' = IF Executed(o) /\ requests # << >> THEN Tail(requests) ELSE requests
  /\ orphanPolls' = IF Executed(o) /\ requests = << >> THEN orphanPolls + 1 ELSE orphanPolls
  /\ werr' = TRUE
  /\ WGoto("loop")
  /\ UNCHANGED <<wlives, wshutdown, witem, wresult, curl, l2log,
                 writes, reads, savedCounter, responses, pushLog>>

(* Wrong variant: POSTFIELDS is set for the first call with a body only. *)
L2CallSetOnce(item) ==
  [req |-> item.req,
   method |-> IF item.body # "none" \/ curl = "post" THEN "POST" ELSE "GET",
   body |-> IF curl = "post" THEN "stale" ELSE item.body]

(* The body the L2 server gets.  A request with a body sets the POST       *)
(* options of the handle; one without leaves them as the last call set     *)
(* them: a GET on a fresh handle, else a POST of the bytes at an address   *)
(* that held the last body.                                                *)
L2Call(item) ==
  [req |-> item.req,
   method |-> IF item.body # "none" \/ curl = "post" THEN "POST" ELSE "GET",
   body |-> IF item.body # "none" THEN item.body
            ELSE IF curl = "post" THEN "stale" ELSE "none"]

(* Wrong variant: the CURLcode is not looked at. *)
CallL2Unchecked(o) ==
  /\ wpc = "curl"
  /\ o \in {"ok"} \cup L2Faults
  /\ \/ o \in {"ok", "timeout"} /\ l2log' = Append(l2log, L2Call(witem))
     \/ o \in {"timeout", "refused"} /\ UNCHANGED l2log
  /\ wresult' = "ok"
  /\ curl' = IF witem.body # "none" THEN "post" ELSE curl
  /\ WGoto("setex")
  /\ UNCHANGED <<wlives, wshutdown, werr, witem, orphanPolls, valkeyVars>>

(* Wrong variant: nothing is sent for a request without a body. *)
CallL2WithBodyOnly(o) ==
  /\ wpc = "curl"
  /\ o \in {"ok"} \cup L2Faults
  /\ l2log' = IF witem.body # "none" THEN Append(l2log, L2Call(witem)) ELSE l2log
  /\ wresult' = "ok"
  /\ curl' = IF witem.body # "none" THEN "post" ELSE curl
  /\ WGoto("setex")
  /\ UNCHANGED <<wlives, wshutdown, werr, witem, orphanPolls, valkeyVars>>

(* call_l2_server.  After a timeout the call may have arrived or not. *)
CallL2(o) ==
  /\ wpc = "curl"
  /\ o \in {"ok"} \cup L2Faults
  /\ \/ o \in {"ok", "timeout"} /\ l2log' = Append(l2log, L2Call(witem))
     \/ o \in {"timeout", "refused"} /\ UNCHANGED l2log
  /\ wresult' = IF o = "ok" THEN "ok" ELSE "error"
  /\ curl' = IF witem.body # "none" THEN "post" ELSE curl
  /\ WGoto("setex")
  /\ UNCHANGED <<wlives, wshutdown, werr, witem, orphanPolls, valkeyVars>>

(* SETEX http:response:<id> 60: status_code 200 even when the call failed. *)
StoreResponse(o) ==
  /\ wpc = "setex"
  /\ o \in Outcomes(werr)
  /\ SetEx(o, witem.id, [req |-> witem.req, result |-> wresult])
  /\ werr' = (werr \/ Breaks(o))
  /\ WGoto(IF WorkerTracing THEN "trace" ELSE "incr")
  /\ UNCHANGED <<wlives, wshutdown, witem, wresult, curl, l2log, orphanPolls,
                 requests, writes, reads, savedCounter, pushLog>>

(* tracer->send_span posts the span from the worker's only thread. *)
WTrace ==
  /\ wpc = "trace"
  /\ WGoto("incr")
  /\ UNCHANGED <<wlives, wshutdown, werr, witem, wresult, curl, l2log, orphanPolls, valkeyVars>>

(* INCR stats:redis_reads *)
IncrReads(o) ==
  /\ wpc = "incr"
  /\ o \in Outcomes(werr)
  /\ reads' = IncrKey(o, reads)
  /\ werr' = (werr \/ Breaks(o))
  /\ witem' = NoItem
  /\ WGoto("loop")
  /\ UNCHANGED <<wlives, wshutdown, wresult, curl, l2log, orphanPolls,
                 requests, writes, savedCounter, responses, pushLog>>
-----------------------------------------------------------------------------
(* The server serves a BLPOP of a connection that is gone: the item is     *)
(* popped and the reply goes nowhere.                                      *)
OrphanPop ==
  /\ orphanPolls > 0 /\ requests # << >>
  /\ requests' = Tail(requests)
  /\ orphanPolls' = orphanPolls - 1
  /\ UNCHANGED <<wpc, wlives, wshutdown, werr, witem, wresult, curl, l2log,
                 writes, reads, savedCounter, responses, pushLog>>

(* The server notices that the connection is gone. *)
OrphanClosed ==
  /\ orphanPolls > 0
  /\ orphanPolls' = orphanPolls - 1
  /\ UNCHANGED <<wpc, wlives, wshutdown, werr, witem, wresult, curl, l2log, valkeyVars>>
-----------------------------------------------------------------------------
(* What the worker's thread does on its own. *)
WorkerStep ==
  \/ WExit
  \/ EnterPoll
  \/ PollItem
  \/ PollTimeout
  \/ PollError
  \/ \E o \in Outcomes(werr) : PollBroken(o)
  \/ \E o \in {"ok"} \cup L2Faults : CallL2(o)
  \/ \E o \in Outcomes(werr) : StoreResponse(o)
  \/ WTrace
  \/ \E o \in Outcomes(werr) : IncrReads(o)

WorkerNext ==
  \/ WStart
  \/ WSignal
  \/ WCrash
  \/ WorkerStep
  \/ OrphanPop
  \/ OrphanClosed
=============================================================================
