-------------------------- MODULE MCHandlerRegistry --------------------------
(* Instances of HandlerRegistry: the two owners the program has, run_proxy *)
(* with its three handlers and the Exposer with its endpoint.              *)
EXTENDS HandlerRegistry

AddIt(u) == [op |-> "add", uri |-> u]
RemoveIt(u) == [op |-> "remove", uri |-> u]
DestroyIt(u) == [op |-> "destroy", uri |-> u]

(* run_proxy: the server stops at the end of the try block, the handlers   *)
(* are destroyed when the function returns.                                *)
ProxyProgram ==
  <<AddIt("/health"), AddIt("/stats"), AddIt("/"), [op |-> "run"], [op |-> "stop"],
    DestroyIt("/stats"), DestroyIt("/"), DestroyIt("/health")>>

(* The Exposer's endpoints are destroyed before its server.                *)
ExposerProgram ==
  <<AddIt("/metrics"), [op |-> "run"], RemoveIt("/metrics"), DestroyIt("/metrics"), [op |-> "stop"]>>

BothPrograms == {ProxyProgram, ExposerProgram}

(* The end of the owner's program, or of its progress in mg_stop, so that  *)
(* TLC sees no deadlock there.                                             *)
Exhausted == (program = << >> \/ server = "hung") /\ UNCHANGED registryVars

MCRegistrySpec == Init /\ [][Next \/ Exhausted]_registryVars /\ Fairness
=============================================================================
