-------------------------- MODULE RequestDelivery --------------------------
(***************************************************************************)
(* What the system promises about the requests it forwards: they reach the *)
(* L2 server in the order in which they were queued, each at most once     *)
(* since the queue was last set back to an earlier state.  It does not     *)
(* promise that they arrive: a request that was taken from the queue may   *)
(* be lost.                                                                *)
(***************************************************************************)
EXTENDS Naturals, Sequences

CONSTANTS Requests, Nobody

VARIABLES
  queue,      \* the requests that wait, oldest first
  submitted,  \* the requests that were ever queued
  inHand,     \* the request that is being forwarded, or Nobody
  delivered,  \* the requests the L2 server has seen, in order
  saved       \* the earlier state the queue may be set back to

deliveryVars == <<queue, submitted, inHand, delivered, saved>>

Init ==
  /\ queue = << >>
  /\ submitted = {}
  /\ inHand = Nobody
  /\ delivered = << >>
  /\ saved = [queue |-> << >>, submitted |-> {}]

Submit(r) ==
  /\ r \notin submitted
  /\ submitted' = submitted \cup {r}
  /\ queue' = Append(queue, r)
  /\ UNCHANGED <<inHand, delivered, saved>>

Take ==
  /\ inHand = Nobody
  /\ queue # << >>
  /\ inHand' = Head(queue)
  /\ queue' = Tail(queue)
  /\ UNCHANGED <<submitted, delivered, saved>>

Deliver ==
  /\ inHand # Nobody
  /\ delivered' = Append(delivered, inHand)
  /\ inHand' = Nobody
  /\ UNCHANGED <<queue, submitted, saved>>

(* The oldest request is lost, from the queue or from the hand. *)
LoseQueued ==
  /\ queue # << >>
  /\ queue' = Tail(queue)
  /\ UNCHANGED <<submitted, inHand, delivered, saved>>

LoseInHand ==
  /\ inHand # Nobody
  /\ inHand' = Nobody
  /\ UNCHANGED <<queue, submitted, delivered, saved>>

Save ==
  /\ saved' = [queue |-> queue, submitted |-> submitted]
  /\ UNCHANGED <<queue, submitted, inHand, delivered>>

SetBack ==
  /\ queue' = saved.queue
  /\ submitted' = saved.submitted
  /\ UNCHANGED <<inHand, delivered, saved>>

Next ==
  \/ \E r \in Requests : Submit(r)
  \/ Take \/ Deliver \/ LoseQueued \/ LoseInHand
  \/ Save \/ SetBack

Spec == Init /\ [][Next]_deliveryVars
=============================================================================
