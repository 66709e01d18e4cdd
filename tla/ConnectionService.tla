------------------------- MODULE ConnectionService -------------------------
(***************************************************************************)
(* What a server promises about the connections it accepts: they are taken *)
(* into service in the order in which they were accepted, each at most     *)
(* once, no more than Capacity of them wait and no more than Limit are in  *)
(* service.  Once the server is told to stop it may turn a connection away.*)
(***************************************************************************)
EXTENDS Naturals, Sequences, FiniteSets

CONSTANTS Connections, Capacity, Limit

VARIABLES
  waiting,    \* the connections that wait, oldest first
  inService,  \* the connections a thread has taken
  opened,     \* the connections that were ever accepted
  stopping    \* the server was told to stop

serviceVars == <<waiting, inService, opened, stopping>>

Init ==
  /\ waiting = << >>
  /\ inService = {}
  /\ opened = {}
  /\ stopping = FALSE

Admit(c) ==
  /\ c \notin opened
  /\ Len(waiting) < Capacity
  /\ opened' = opened \cup {c}
  /\ waiting' = Append(waiting, c)
  /\ UNCHANGED <<inService, stopping>>

TurnAway(c) ==
  /\ stopping
  /\ c \notin opened
  /\ opened' = opened \cup {c}
  /\ UNCHANGED <<waiting, inService, stopping>>

Take ==
  /\ waiting # << >>
  /\ Cardinality(inService) < Limit
  /\ inService' = inService \cup {Head(waiting)}
  /\ waiting' = Tail(waiting)
  /\ UNCHANGED <<opened, stopping>>

Finish(c) ==
  /\ c \in inService
  /\ inService' = inService \ {c}
  /\ UNCHANGED <<waiting, opened, stopping>>

Stop ==
  /\ stopping' = TRUE
  /\ UNCHANGED <<waiting, inService, opened>>

Next ==
  \/ \E c \in Connections : Admit(c) \/ TurnAway(c) \/ Finish(c)
  \/ Take
  \/ Stop

Spec == Init /\ [][Next]_serviceVars
=============================================================================
