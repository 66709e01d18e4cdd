---------------------------- MODULE MCCivetPool ----------------------------
(***************************************************************************)
(* Model-checking instance of CivetPool: the legitimate ends of a          *)
(* behaviour.                                                              *)
(***************************************************************************)
EXTENDS CivetPool

(* Not part of the program: every client was served and nobody stops the   *)
(* server, or the context is freed.                                        *)
Exhausted ==
  /\ \/ mpc = "freed"
     \/ /\ mpc = "poll" /\ accepted = Clients /\ Filled = 0 /\ ~MayStop
        /\ \A w \in Workers : wpc[w] \in {"none", "wait"}
  /\ UNCHANGED poolVars

(* The master waits for a place in the queue and there is no worker left   *)
(* that could make one: the state StopWakesMaster is about.                *)
MasterStuck ==
  /\ mpc = "waitEmpty"
  /\ \A w \in Workers : wpc[w] \in {"none", "exited"}
  /\ stop_flag # 0 \/ ~MayStop
  /\ UNCHANGED poolVars

MCPoolSpec == PoolInit /\ [][PoolNext \/ Exhausted \/ MasterStuck]_poolVars
MCPoolFairSpec == MCPoolSpec /\ PoolFairness
=============================================================================
