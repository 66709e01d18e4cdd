------------------------------- MODULE MCProxy -------------------------------
(***************************************************************************)
(* Model-checking instance of Proxy: symmetry of the threads and of the    *)
(* requests of a kind, and the legitimate ends of a behaviour, so that     *)
(* every other state without a successor is reported as a deadlock.        *)
(***************************************************************************)
EXTENDS ProxyInductive, FiniteSets, TLC

(* Not part of the program: every client was served, mg_stop hangs, or the *)
(* last life is over.                                                      *)
Exhausted ==
  /\ \A t \in Threads : pc[t] = "idle"
  /\ arrived = Requests \/ life = "stuck" \/ (life = "down" /\ lives = MaxLives)
  /\ UNCHANGED <<proxyVars, valkeyVars>>

MCNext == ProxyNext \/ Exhausted

MCSpec == ProxyInit /\ [][MCNext]_<<proxyVars, valkeyVars>>
MCFairSpec == MCSpec /\ ProxyFairness

Symmetry == Permutations(Threads) \cup Permutations(Posts \ Curtailed)
=============================================================================
