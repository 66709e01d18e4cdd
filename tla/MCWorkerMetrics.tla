-------------------------- MODULE MCWorkerMetrics --------------------------
(***************************************************************************)
(* Model-checking instance of WorkerMetrics: a POST with a body, a GET and *)
(* a POST without a body wait on the queue.                                *)
(***************************************************************************)
EXTENDS WorkerMetrics

ThreeItems ==
  << [req |-> "p1", id |-> 1, method |-> "POST", body |-> "full"],
     [req |-> "g1", id |-> 2, method |-> "GET",  body |-> "none"],
     [req |-> "e1", id |-> 3, method |-> "POST", body |-> "none"] >>

(* Not part of the program: the bound on the commands is reached, or the   *)
(* worker has ended.                                                       *)
Exhausted ==
  /\ operations = MaxOps \/ wpc = "down"
  /\ UNCHANGED <<workerVars, valkeyVars, metricsVars>>

MCMetricsSpec ==
  MetricsInit /\ [][MetricsNext \/ Exhausted]_<<workerVars, valkeyVars, metricsVars>>
=============================================================================
