------------------------------ MODULE MCSummary ------------------------------
(* Instances of Summary: the quantiles of the exposer's latency summary,   *)
(* and coarse ones whose samples are compressed after few observations.    *)
EXTENDS Summary

(* {0.5, 0.05}, {0.9, 0.01}, {0.99, 0.001} (handler.cc:48), in 1/99000. *)
LatencyQuantiles ==
  <<[num |-> 1, den |-> 2, error |-> 4950, u |-> 19800, v |-> 19800],
    [num |-> 9, den |-> 10, error |-> 990, u |-> 19800, v |-> 2200],
    [num |-> 99, den |-> 100, error |-> 99, u |-> 19800, v |-> 200]>>

(* {0.5, 0.5} and {0.75, 0.25}, in 1/12. *)
CoarseQuantiles ==
  <<[num |-> 1, den |-> 2, error |-> 6, u |-> 24, v |-> 24],
    [num |-> 3, den |-> 4, error |-> 3, u |-> 24, v |-> 8]>>

OnlyLatency == {LatencyQuantiles}
OnlyCoarse == {CoarseQuantiles}

(* The bounds of the instance are used up. *)
Exhausted ==
  /\ now = MaxTime /\ Len(observed) = MaxObservations
  /\ UNCHANGED summaryVars

MCSummarySpec == SummaryInit /\ [][SummaryNext \/ Exhausted]_summaryVars
=============================================================================
