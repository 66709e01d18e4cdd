--------------------------- MODULE WorkerMetrics ---------------------------
(***************************************************************************)
(* The Prometheus counters l2_worker_redis_operations_total and            *)
(* l2_worker_redis_errors_total of the worker, superposed on Worker: every *)
(* action of the worker that sends a command also updates the counters.    *)
(* The proxy is reduced to the items it has left on the queue.             *)
(***************************************************************************)
EXTENDS Worker

CONSTANTS
  Queue,  \* the items on http:requests when the worker starts
  MaxOps  \* bound on the number of commands

VARIABLES
  operations,  \* l2_worker_redis_operations_total
  errors,      \* l2_worker_redis_errors_total
  failures     \* history: the commands that ended with an error or with NULL

metricsVars == <<operations, errors, failures>>

MetricsInit ==
  /\ WorkerInit
  /\ requests = Queue /\ pushLog = Queue
  /\ writes = Len(Queue) /\ reads = 0 /\ savedCounter = 0 /\ responses = << >>
  /\ operations = 0 /\ errors = 0 /\ failures = 0

(* A command was counted; counted and failed say whether it raised the     *)
(* error counter and whether it failed.                                    *)
Count(counted, failed) ==
  /\ operations < MaxOps
  /\ operations' = operations + 1
  /\ errors' = IF counted THEN errors + 1 ELSE errors
  /\ failures' = IF failed THEN failures + 1 ELSE failures

(* else if (reply && reply->type != REDIS_REPLY_ARRAY): a nil reply counts *)
(* as an error, a NULL reply does not.                                     *)
CountPoll ==
  \/ PollItem /\ Count(FALSE, FALSE)
  \/ PollTimeout /\ Count(TRUE, FALSE)
  \/ PollError /\ Count(TRUE, TRUE)
  \/ \E o \in Outcomes(werr) : PollBroken(o) /\ Count(FALSE, TRUE)

(* if (reply && reply->type != REDIS_REPLY_STATUS): a NULL reply does not count. *)
CountStore(o) == StoreResponse(o) /\ Count(o = "error", o # "ok")

(* if (!(incr_reply && ...)): every failure counts. *)
CountIncr(o) == IncrReads(o) /\ Count(o # "ok", o # "ok")

MetricsNext ==
  \/ (WStart \/ WSignal \/ WExit \/ EnterPoll \/ WTrace \/ OrphanPop \/ OrphanClosed)
     /\ UNCHANGED metricsVars
  \/ \E o \in {"ok"} \cup L2Faults : CallL2(o) /\ UNCHANGED metricsVars
  \/ CountPoll
  \/ \E o \in Outcomes(werr) : CountStore(o) \/ CountIncr(o)

MetricsSpec == MetricsInit /\ [][MetricsNext]_<<workerVars, valkeyVars, metricsVars>>
-----------------------------------------------------------------------------
(* README.md:96: l2_worker_redis_errors_total counts Redis operation       *)
(* errors, so it counts nothing else (main.cpp:648, 695, 699).             *)
OnlyFailuresCounted == errors <= failures
=============================================================================
