-------------------------- MODULE MCHttpRedisProxy --------------------------
(***************************************************************************)
(* Model-checking instance of the deployed system.                         *)
(***************************************************************************)
EXTENDS ValkeyRestart, TLC

(* Not part of the program: the proxy has nothing left to do and the last  *)
(* life of the worker is over.                                             *)
Exhausted ==
  /\ \A t \in Threads : pc[t] = "idle"
  /\ arrived = Requests \/ life = "stuck" \/ (life = "down" /\ lives = MaxLives)
  /\ wpc = "down" /\ wlives = MaxWorkerLives
  /\ restarts = MaxRestarts
  /\ UNCHANGED allVars

MCSpec == RestartInit /\ [][RestartNext \/ Exhausted]_allVars
MCFairSpec == MCSpec /\ Fairness

Symmetry == Permutations(Threads) \cup Permutations(Posts \ Curtailed)
=============================================================================
