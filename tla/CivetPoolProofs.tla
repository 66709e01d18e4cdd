-------------------------- MODULE CivetPoolProofs --------------------------
(***************************************************************************)
(* Proofs about CivetPool for every number of worker threads, every size   *)
(* of the queue and any number of clients.                                 *)
(***************************************************************************)
EXTENDS CivetPool, FiniteSetTheorems, TLAPS

(* The set of the idle workers is finite. *)
LEMMA IdleFinite ==
  /\ IsFiniteSet(IdleWorkers)
  /\ Cardinality(IdleWorkers) \in Nat
<1>1. IsFiniteSet(Workers)
  BY FS_Interval, PoolAssumption DEF Workers
<1>2. IdleWorkers \in SUBSET Workers
  BY DEF IdleWorkers
<1>3. QED
  BY <1>1, <1>2, FS_Subset, FS_CardinalityType

(* A step that takes no worker into or out of the idle ones keeps their    *)
(* number.                                                                 *)
LEMMA IdleSame ==
  ASSUME \A w \in Workers :
           wpc[w] \in {"first", "wait", "woken"} <=> wpc'[w] \in {"first", "wait", "woken"}
  PROVE  Cardinality(IdleWorkers') = Cardinality(IdleWorkers)
<1>1. IdleWorkers' = IdleWorkers
  BY DEF IdleWorkers
<1>2. QED
  BY <1>1

(* A worker that becomes idle adds one, one that leaves takes one away. *)
LEMMA IdleMove ==
  ASSUME PoolTypeOK, NEW w \in Workers, NEW s \in WorkerSteps, WGoto(w, s)
  PROVE  /\ (wpc[w] \notin {"first", "wait", "woken"} /\ s \in {"first", "wait", "woken"})
              => Cardinality(IdleWorkers') = Cardinality(IdleWorkers) + 1
         /\ (wpc[w] \in {"first", "wait", "woken"} /\ s \notin {"first", "wait", "woken"})
              => Cardinality(IdleWorkers') = Cardinality(IdleWorkers) - 1
         /\ (wpc[w] \in {"first", "wait", "woken"} <=> s \in {"first", "wait", "woken"})
              => Cardinality(IdleWorkers') = Cardinality(IdleWorkers)
<1>0. wpc' = [wpc EXCEPT ![w] = s] /\ wpc \in [Workers -> WorkerSteps]
  BY DEF WGoto, PoolTypeOK
<1>1. ASSUME wpc[w] \notin {"first", "wait", "woken"}, s \in {"first", "wait", "woken"}
      PROVE  Cardinality(IdleWorkers') = Cardinality(IdleWorkers) + 1
  <2>1. IdleWorkers' = IdleWorkers \cup {w} /\ w \notin IdleWorkers
    BY <1>0, <1>1 DEF IdleWorkers
  <2>2. QED
    BY <2>1, IdleFinite, FS_AddElement
<1>2. ASSUME wpc[w] \in {"first", "wait", "woken"}, s \notin {"first", "wait", "woken"}
      PROVE  Cardinality(IdleWorkers') = Cardinality(IdleWorkers) - 1
  <2>1. IdleWorkers' = IdleWorkers \ {w} /\ w \in IdleWorkers
    BY <1>0, <1>2 DEF IdleWorkers
  <2>2. QED
    BY <2>1, IdleFinite, FS_RemoveElement
<1>3. ASSUME wpc[w] \in {"first", "wait", "woken"} <=> s \in {"first", "wait", "woken"}
      PROVE  Cardinality(IdleWorkers') = Cardinality(IdleWorkers)
  BY <1>0, <1>3, IdleSame
<1>4. QED
  BY <1>1, <1>2, <1>3

(* Signalling sq_full moves one worker from the wait to its next look. *)
LEMMA SignalSame ==
  ASSUME PoolTypeOK, SignalFull
  PROVE  /\ Cardinality(IdleWorkers') = Cardinality(IdleWorkers)
         /\ wpc' \in [Workers -> WorkerSteps]
         /\ \A w \in Workers : wpc'[w] = "none" <=> wpc[w] = "none"
<1> USE DEF PoolTypeOK, WorkerSteps
<1>1. ASSUME NEW w \in Workers, wpc[w] = "wait", WGoto(w, "woken")
      PROVE  /\ Cardinality(IdleWorkers') = Cardinality(IdleWorkers)
             /\ wpc' \in [Workers -> WorkerSteps]
             /\ \A v \in Workers : wpc'[v] = "none" <=> wpc[v] = "none"
  <2>1. Cardinality(IdleWorkers') = Cardinality(IdleWorkers)
    BY <1>1, IdleMove
  <2>2. QED
    BY <1>1, <2>1 DEF WGoto
<1>2. CASE UNCHANGED wpc
  BY <1>2, IdleSame
<1>3. QED
  BY <1>1, <1>2 DEF SignalFull

(* The pool as it starts has the invariant. *)
LEMMA InitInv == PoolInit => PoolInv
<1> SUFFICES ASSUME PoolInit PROVE PoolInv
  OBVIOUS
<1> USE PoolAssumption DEF PoolInit
<1>1. PoolTypeOK
  BY DEF PoolTypeOK, Filled, Slots, MasterSteps, WorkerSteps
<1>2. SlotInv
  BY DEF SlotInv, Workers
<1>3. IdleCountExact
  <2>1. IdleWorkers = {}
    BY DEF IdleWorkers
  <2>2. QED
    BY <2>1, FS_EmptySet DEF IdleCountExact
<1>4. CoverInv
  BY DEF CoverInv, Filled
<1>5. StopInv
  BY DEF StopInv, NoThreadAfterFree
<1>6. QED
  BY <1>1, <1>2, <1>3, <1>4, <1>5 DEF PoolInv

(* A slot of the ring buffer is chosen modulo its size. *)
LEMMA SlotIndex ==
  ASSUME NEW i \in Nat
  PROVE  i % SqSize \in Slots
BY PoolAssumption DEF Slots

(* Every step keeps the types. *)
LEMMA TypeStep ==
  ASSUME PoolTypeOK, SlotInv, PoolNext
  PROVE  PoolTypeOK'
<1> USE PoolAssumption DEF PoolTypeOK, Filled, MasterSteps, WorkerSteps, MGoto, WGoto, ringVars
<1>1. ASSUME NEW c \in Clients, AcceptConnection(c) PROVE PoolTypeOK'
  BY <1>1 DEF AcceptConnection
<1>2. CASE ProduceWait
  BY <1>2 DEF ProduceWait
<1>3. CASE Produce
  <2>1. wpc' \in [Workers -> WorkerSteps]
    BY <1>3, SignalSame DEF Produce
  <2>2. sq_head' \in 0..(2 * SqSize) /\ Filled' \in 0..SqSize
    BY <1>3 DEF Produce
  <2>3. squeue' \in [Slots -> Clients \cup {NoClient}]
    BY <1>3 DEF Produce
  <2>4. QED
    BY <1>3, <2>1, <2>2, <2>3 DEF Produce
<1>4. CASE ProduceDrop
  <2>1. wpc' \in [Workers -> WorkerSteps]
    BY <1>4, SignalSame DEF ProduceDrop
  <2>2. QED
    BY <1>4, <2>1 DEF ProduceDrop
<1>5. CASE StartWorker
  BY <1>5 DEF StartWorker
<1>6. CASE CreateThread
  <2>1. spawned_worker_threads' \in 0..MaxWorkers
    BY <1>6 DEF CreateThread, SlotInv
  <2>2. wpc' \in [Workers -> WorkerSteps]
    BY <1>6 DEF CreateThread
  <2>3. QED
    BY <1>6, <2>1, <2>2 DEF CreateThread
<1>7. CASE CreateThreadFails
  BY <1>7 DEF CreateThreadFails
<1>8. CASE RollBack
  BY <1>8 DEF RollBack
<1>9. CASE StopAccepting
  BY <1>9 DEF StopAccepting
<1>10. CASE JoinWorkers
  BY <1>10 DEF JoinWorkers
<1>11. ASSUME NEW w \in Workers, WorkerStep(w) PROVE PoolTypeOK'
  <2>1. CASE ConsumeWait(w)
    BY <2>1 DEF ConsumeWait, CountedIdle
  <2>2. CASE Consume(w)
    <3>1. sq_tail' \in 0..SqSize /\ sq_head' \in 0..(2 * SqSize) /\ Filled' \in 0..SqSize
      BY <2>2 DEF Consume, AdvanceTail
    <3>2. squeue[sq_tail % SqSize] \in Clients \cup {NoClient}
      BY SlotIndex
    <3>3. wconn' \in [Workers -> Clients \cup {NoClient}]
      BY <2>2, <3>2 DEF Consume
    <3>4. idle_worker_thread_count' \in Int /\ mpc' \in MasterSteps
      BY <2>2 DEF Consume, CountedIdle, SignalEmpty
    <3>5. wpc' \in [Workers -> WorkerSteps]
      BY <2>2 DEF Consume
    <3>6. QED
      BY <2>2, <3>1, <3>3, <3>4, <3>5 DEF Consume
  <2>3. CASE ConsumeNothing(w)
    BY <2>3 DEF ConsumeNothing, CountedIdle, SignalEmpty
  <2>4. CASE ConsumeReturn(w)
    BY <2>4 DEF ConsumeReturn
  <2>5. CASE ServeConnection(w)
    BY <2>5 DEF ServeConnection
  <2>6. QED
    BY <1>11, <2>1, <2>2, <2>3, <2>4, <2>5 DEF WorkerStep
<1>12. CASE SetStop
  BY <1>12 DEF SetStop
<1>13. CASE FreeContext
  BY <1>13 DEF FreeContext
<1>14. QED
  BY <1>1, <1>2, <1>3, <1>4, <1>5, <1>6, <1>7, <1>8, <1>9, <1>10, <1>11, <1>12, <1>13
     DEF PoolNext, MasterStep

(* Every step keeps what the slots and the threads hold. *)
LEMMA SlotStep ==
  ASSUME PoolTypeOK, SlotInv, PoolNext
  PROVE  SlotInv'
<1> USE PoolAssumption DEF PoolTypeOK, SlotInv, MGoto, WGoto, WorkerSteps
<1>1. ASSUME NEW c \in Clients, AcceptConnection(c) PROVE SlotInv'
  BY <1>1 DEF AcceptConnection
<1>2. CASE ProduceWait
  BY <1>2 DEF ProduceWait
<1>3. CASE Produce
  BY <1>3, SignalSame DEF Produce
<1>4. CASE ProduceDrop
  BY <1>4, SignalSame DEF ProduceDrop
<1>5. CASE StartWorker
  BY <1>5 DEF StartWorker
<1>6. CASE CreateThread
  BY <1>6 DEF CreateThread, Workers
<1>7. CASE CreateThreadFails
  BY <1>7 DEF CreateThreadFails
<1>8. CASE RollBack
  BY <1>8 DEF RollBack
<1>9. CASE StopAccepting
  BY <1>9 DEF StopAccepting
<1>10. CASE JoinWorkers
  BY <1>10 DEF JoinWorkers
<1>11. ASSUME NEW w \in Workers, WorkerStep(w) PROVE SlotInv'
  BY <1>11 DEF WorkerStep, ConsumeWait, Consume, ConsumeNothing, ConsumeReturn, ServeConnection,
               SignalEmpty
<1>12. CASE SetStop
  BY <1>12 DEF SetStop
<1>13. CASE FreeContext
  BY <1>13 DEF FreeContext
<1>14. QED
  BY <1>1, <1>2, <1>3, <1>4, <1>5, <1>6, <1>7, <1>8, <1>9, <1>10, <1>11, <1>12, <1>13
     DEF PoolNext, MasterStep

(* Every step keeps the count of the idle workers exact. *)
LEMMA IdleStep ==
  ASSUME PoolTypeOK, SlotInv, IdleCountExact, PoolNext
  PROVE  IdleCountExact'
<1> DEFINE Coming == IF mpc \in {"create", "rollback"} THEN 1 ELSE 0
<1>0. /\ idle_worker_thread_count = Cardinality(IdleWorkers) + Coming
      /\ Cardinality(IdleWorkers) \in Nat
  BY IdleFinite DEF IdleCountExact
<1> SUFFICES idle_worker_thread_count' = Cardinality(IdleWorkers') + Coming'
  BY DEF IdleCountExact
<1> USE DEF MGoto
<1>1. ASSUME NEW c \in Clients, AcceptConnection(c)
      PROVE  idle_worker_thread_count' = Cardinality(IdleWorkers') + Coming'
  BY <1>0, <1>1, IdleSame DEF AcceptConnection
<1>2. CASE ProduceWait
  BY <1>0, <1>2, IdleSame DEF ProduceWait
<1>3. CASE Produce
  BY <1>0, <1>3, SignalSame DEF Produce
<1>4. CASE ProduceDrop
  BY <1>0, <1>4, SignalSame DEF ProduceDrop
<1>5. CASE StartWorker
  BY <1>0, <1>5, IdleSame DEF StartWorker
<1>6. CASE CreateThread
  <2>1. spawned_worker_threads + 1 \in Workers /\ wpc[spawned_worker_threads + 1] = "none"
    BY <1>6, PoolAssumption DEF CreateThread, SlotInv, PoolTypeOK, Workers
  <2>2. Cardinality(IdleWorkers') = Cardinality(IdleWorkers) + 1
    BY <1>6, <2>1, IdleMove DEF CreateThread, WorkerSteps
  <2>3. QED
    BY <1>0, <1>6, <2>2 DEF CreateThread
<1>7. CASE CreateThreadFails
  BY <1>0, <1>7, IdleSame DEF CreateThreadFails
<1>8. CASE RollBack
  BY <1>0, <1>8, IdleSame DEF RollBack
<1>9. CASE StopAccepting
  <2>1. Cardinality(IdleWorkers') = Cardinality(IdleWorkers)
    BY <1>9, IdleSame DEF StopAccepting
  <2>2. QED
    BY <1>0, <1>9, <2>1 DEF StopAccepting
<1>10. CASE JoinWorkers
  BY <1>0, <1>10, IdleSame DEF JoinWorkers
<1>11. ASSUME NEW w \in Workers, WorkerStep(w)
       PROVE  idle_worker_thread_count' = Cardinality(IdleWorkers') + Coming'
  <2>1. CASE ConsumeWait(w)
    <3>1. \/ wpc[w] = "next" /\ Cardinality(IdleWorkers') = Cardinality(IdleWorkers) + 1
          \/ wpc[w] \in {"first", "woken"} /\ Cardinality(IdleWorkers') = Cardinality(IdleWorkers)
      BY <2>1, IdleMove DEF ConsumeWait, WorkerSteps
    <3>2. QED
      BY <1>0, <2>1, <3>1 DEF ConsumeWait, CountedIdle
  <2>2. ASSUME Consume(w) \/ ConsumeNothing(w)
        PROVE  idle_worker_thread_count' = Cardinality(IdleWorkers') + Coming'
    <3>1. \/ wpc[w] = "next" /\ Cardinality(IdleWorkers') = Cardinality(IdleWorkers)
          \/ /\ wpc[w] \in {"first", "woken"}
             /\ Cardinality(IdleWorkers') = Cardinality(IdleWorkers) - 1
      BY <2>2, IdleMove DEF Consume, ConsumeNothing, WorkerSteps
    <3>2. Coming' = Coming
      BY <2>2 DEF Consume, ConsumeNothing, SignalEmpty
    <3>3. idle_worker_thread_count' = CountedIdle(w) - 1
      BY <2>2 DEF Consume, ConsumeNothing
    <3>4. QED
      BY <1>0, <3>1, <3>2, <3>3 DEF CountedIdle
  <2>3. CASE ConsumeReturn(w)
    <3>1. Cardinality(IdleWorkers') = Cardinality(IdleWorkers)
      BY <2>3, IdleMove DEF ConsumeReturn, WorkerSteps
    <3>2. QED
      BY <1>0, <2>3, <3>1 DEF ConsumeReturn
  <2>4. CASE ServeConnection(w)
    <3>1. Cardinality(IdleWorkers') = Cardinality(IdleWorkers)
      BY <2>4, IdleMove DEF ServeConnection, WorkerSteps
    <3>2. QED
      BY <1>0, <2>4, <3>1 DEF ServeConnection
  <2>5. QED
    BY <1>11, <2>1, <2>2, <2>3, <2>4 DEF WorkerStep
<1>12. CASE SetStop
  BY <1>0, <1>12, IdleSame DEF SetStop
<1>13. CASE FreeContext
  BY <1>0, <1>13, IdleSame DEF FreeContext
<1>14. QED
  BY <1>1, <1>2, <1>3, <1>4, <1>5, <1>6, <1>7, <1>8, <1>9, <1>10, <1>11, <1>12, <1>13
     DEF PoolNext, MasterStep

(* Every step keeps the waiting connections covered by idle threads. *)
LEMMA CoverStep ==
  ASSUME PoolTypeOK, SlotInv, CoverInv, PoolNext
  PROVE  CoverInv'
<1> USE PoolAssumption DEF PoolTypeOK, CoverInv, Filled, MGoto, ringVars
<1>1. ASSUME NEW c \in Clients, AcceptConnection(c) PROVE CoverInv'
  BY <1>1 DEF AcceptConnection
<1>2. CASE ProduceWait
  BY <1>2 DEF ProduceWait
<1>3. CASE Produce
  BY <1>3 DEF Produce
<1>4. CASE ProduceDrop
  BY <1>4 DEF ProduceDrop
<1>5. CASE StartWorker
  BY <1>5 DEF StartWorker
<1>6. CASE CreateThread
  BY <1>6 DEF CreateThread, SlotInv
<1>7. CASE CreateThreadFails
  BY <1>7 DEF CreateThreadFails
<1>8. CASE RollBack
  BY <1>8 DEF RollBack
<1>9. CASE StopAccepting
  BY <1>9 DEF StopAccepting
<1>10. CASE JoinWorkers
  BY <1>10 DEF JoinWorkers
<1>11. ASSUME NEW w \in Workers, WorkerStep(w) PROVE CoverInv'
  <2>1. CASE ConsumeWait(w)
    BY <2>1 DEF ConsumeWait, CountedIdle
  <2>2. CASE Consume(w)
    <3>1. Filled' = Filled - 1
      BY <2>2 DEF Consume, AdvanceTail
    <3>2. idle_worker_thread_count' >= idle_worker_thread_count - 1
      BY <2>2 DEF Consume, CountedIdle
    <3>3. QED
      BY <2>2, <3>1, <3>2 DEF Consume, SignalEmpty, MasterSteps
  <2>3. CASE ConsumeNothing(w)
    BY <2>3 DEF ConsumeNothing
  <2>4. CASE ConsumeReturn(w)
    BY <2>4 DEF ConsumeReturn
  <2>5. CASE ServeConnection(w)
    BY <2>5 DEF ServeConnection
  <2>6. QED
    BY <1>11, <2>1, <2>2, <2>3, <2>4, <2>5 DEF WorkerStep
<1>12. CASE SetStop
  BY <1>12 DEF SetStop
<1>13. CASE FreeContext
  BY <1>13 DEF FreeContext
<1>14. QED
  BY <1>1, <1>2, <1>3, <1>4, <1>5, <1>6, <1>7, <1>8, <1>9, <1>10, <1>11, <1>12, <1>13
     DEF PoolNext, MasterStep

(* Every step keeps stop_flag and the ends of the threads together. *)
LEMMA StopStep ==
  ASSUME PoolTypeOK, SlotInv, StopInv, PoolNext
  PROVE  StopInv'
<1> USE DEF PoolTypeOK, StopInv, NoThreadAfterFree, MGoto, WGoto
<1>1. ASSUME NEW c \in Clients, AcceptConnection(c) PROVE StopInv'
  BY <1>1 DEF AcceptConnection
<1>2. CASE ProduceWait
  BY <1>2 DEF ProduceWait
<1>3. CASE Produce
  BY <1>3 DEF Produce
<1>4. CASE ProduceDrop
  BY <1>4 DEF ProduceDrop
<1>5. CASE StartWorker
  BY <1>5 DEF StartWorker
<1>6. CASE CreateThread
  BY <1>6 DEF CreateThread
<1>7. CASE CreateThreadFails
  BY <1>7 DEF CreateThreadFails
<1>8. CASE RollBack
  BY <1>8 DEF RollBack
<1>9. CASE StopAccepting
  BY <1>9 DEF StopAccepting
<1>10. CASE JoinWorkers
  <2>1. ASSUME NEW w \in Workers PROVE wpc[w] \in {"none", "exited"}
    <3>1. CASE w > spawned_worker_threads
      BY <3>1 DEF SlotInv
    <3>2. CASE w <= spawned_worker_threads
      BY <1>10, <3>2 DEF JoinWorkers, Workers
    <3>3. QED
      BY <3>1, <3>2, PoolAssumption DEF Workers
  <2>2. QED
    BY <1>10, <2>1 DEF JoinWorkers
<1>11. ASSUME NEW w \in Workers, WorkerStep(w) PROVE StopInv'
  <2>1. mpc \notin {"ended", "freed"}
    BY <1>11 DEF WorkerStep, ConsumeWait, Consume, ConsumeNothing, ConsumeReturn, ServeConnection
  <2>2. stop_flag' = stop_flag /\ (mpc' = mpc \/ (mpc = "waitEmpty" /\ mpc' = "produce"))
    BY <1>11 DEF WorkerStep, ConsumeWait, Consume, ConsumeNothing, ConsumeReturn, ServeConnection,
                 SignalEmpty
  <2>3. QED
    BY <2>1, <2>2
<1>12. CASE SetStop
  BY <1>12 DEF SetStop
<1>13. CASE FreeContext
  BY <1>13 DEF FreeContext
<1>14. QED
  BY <1>1, <1>2, <1>3, <1>4, <1>5, <1>6, <1>7, <1>8, <1>9, <1>10, <1>11, <1>12, <1>13
     DEF PoolNext, MasterStep
-----------------------------------------------------------------------------
(* The inductive invariant holds for every number of threads and clients   *)
(* and every size of the queue (civetweb.c:20167-20256, 21142-21181).      *)
THEOREM PoolInvariant == PoolSpec => []PoolInv
<1>1. PoolInv /\ [PoolNext]_poolVars => PoolInv'
  <2> SUFFICES ASSUME PoolInv, [PoolNext]_poolVars PROVE PoolInv'
    OBVIOUS
  <2>1. CASE PoolNext
    BY <2>1, TypeStep, SlotStep, IdleStep, CoverStep, StopStep DEF PoolInv
  <2>2. CASE UNCHANGED poolVars
    <3>1. Cardinality(IdleWorkers') = Cardinality(IdleWorkers)
      BY <2>2, IdleSame DEF poolVars
    <3>2. QED
      BY <2>2, <3>1 DEF poolVars, PoolInv, PoolTypeOK, SlotInv, IdleCountExact, CoverInv, StopInv,
                        NoThreadAfterFree, Filled
  <2>3. QED
    BY <2>1, <2>2
<1>2. QED
  BY <1>1, InitInv, PTL DEF PoolSpec

(* The pool's state is well typed: its counters stay in their ranges and   *)
(* every slot, thread and client is in one of its states, however master,  *)
(* workers and mg_stop interleave (civetweb.c:20167-20256, 20949-20994).   *)
THEOREM PoolTypes == PoolSpec => []PoolTypeOK
<1>1. PoolInv => PoolTypeOK
  BY DEF PoolInv
<1>2. QED
  BY <1>1, PoolInvariant, PTL

(* The idle count never wraps below zero and is exact. *)
THEOREM IdleCount == PoolSpec => []IdleCountExact
<1>1. PoolInv => IdleCountExact
  BY DEF PoolInv
<1>2. QED
  BY <1>1, PoolInvariant, PTL

(* While threads can be created no connection waits behind a request. *)
THEOREM WaitingCovered == PoolSpec => []NoWaitBehindService
<1>1. PoolInv => NoWaitBehindService
  <2> SUFFICES ASSUME PoolInv, mpc = "poll", stop_flag = 0, spawned_worker_threads # MaxWorkers
               PROVE  Filled <= Cardinality(IdleWorkers) + failures
    BY DEF NoWaitBehindService
  <2>1. Filled <= idle_worker_thread_count + failures
    BY DEF PoolInv, CoverInv
  <2>2. idle_worker_thread_count = Cardinality(IdleWorkers)
    BY IdleFinite DEF PoolInv, IdleCountExact
  <2>3. QED
    BY <2>1, <2>2
<1>2. QED
  BY <1>1, PoolInvariant, PTL

(* The context is freed after the last thread has ended. *)
THEOREM FreedAfterThreads == PoolSpec => []NoThreadAfterFree
<1>1. PoolInv => NoThreadAfterFree
  BY DEF PoolInv, StopInv
<1>2. QED
  BY <1>1, PoolInvariant, PTL
-----------------------------------------------------------------------------
(* The sets of the workers that are and will be woken are finite. *)
LEMMA WokenFinite ==
  /\ IsFiniteSet(Woken) /\ Cardinality(Woken) \in Nat
  /\ IsFiniteSet(Woken') /\ Cardinality(Woken') \in Nat
<1>1. IsFiniteSet(Workers) /\ Woken \in SUBSET Workers /\ Woken' \in SUBSET Workers
  BY FS_Interval, PoolAssumption DEF Workers, Woken
<1>2. QED
  BY <1>1, FS_Subset, FS_CardinalityType

(* The number of woken workers when one of them goes on. *)
LEMMA WokenMove ==
  ASSUME PoolTypeOK, NEW w \in Workers, NEW s \in WorkerSteps, WGoto(w, s)
  PROVE  /\ Cardinality(Woken') =
              Cardinality(Woken) + (IF s = "woken" THEN 1 ELSE 0)
                                 - (IF wpc[w] = "woken" THEN 1 ELSE 0)
         /\ s # "wait" => \A v \in Workers : wpc'[v] = "wait" => wpc[v] = "wait"
<1>0. wpc' = [wpc EXCEPT ![w] = s] /\ wpc \in [Workers -> WorkerSteps]
  BY DEF WGoto, PoolTypeOK
<1>1. CASE wpc[w] # "woken" /\ s = "woken"
  <2>1. Woken' = Woken \cup {w} /\ w \notin Woken
    BY <1>0, <1>1 DEF Woken
  <2>2. Cardinality(Woken') = Cardinality(Woken) + 1
    BY <2>1, WokenFinite, FS_AddElement
  <2>3. QED
    BY <1>0, <1>1, <2>2, WokenFinite
<1>2. CASE wpc[w] = "woken" /\ s # "woken"
  <2>1. Woken' = Woken \ {w} /\ w \in Woken
    BY <1>0, <1>2 DEF Woken
  <2>2. Cardinality(Woken') = Cardinality(Woken) - 1
    BY <2>1, WokenFinite, FS_RemoveElement
  <2>3. QED
    BY <1>0, <1>2, <2>2, WokenFinite
<1>3. CASE wpc[w] = "woken" <=> s = "woken"
  <2>1. Woken' = Woken
    BY <1>0, <1>3 DEF Woken
  <2>2. QED
    BY <1>0, <1>3, <2>1, WokenFinite
<1>4. QED
  BY <1>1, <1>2, <1>3

(* A signal of sq_full makes up for one more connection.                   *)
LEMMA SignalWakes ==
  ASSUME PoolTypeOK, NoLostWakeup, SignalFull, Filled' <= Filled + 1, Filled' \in Int,
         NEW v \in Workers, wpc'[v] = "wait"
  PROVE  Filled' <= Cardinality(Woken')
<1>0. Filled \in Int
  BY DEF PoolTypeOK
<1>1. PICK w \in Workers : wpc[w] = "wait" /\ WGoto(w, "woken")
  BY DEF SignalFull
<1>2. Cardinality(Woken') = Cardinality(Woken) + 1
  BY <1>1, WokenMove, WokenFinite DEF WorkerSteps
<1>3. Filled <= Cardinality(Woken)
  BY <1>1 DEF NoLostWakeup
<1>4. QED
  BY <1>0, <1>2, <1>3, WokenFinite

(* Every step keeps the sleepers covered.                                  *)
LEMMA WakeupStep ==
  ASSUME PoolTypeOK, PoolTypeOK', SlotInv, NoLostWakeup, PoolNext
  PROVE  NoLostWakeup'
<1>0. Filled \in 0..SqSize /\ Filled' \in 0..SqSize /\ Cardinality(Woken) \in Nat /\ SqSize \in Nat
  BY WokenFinite, PoolAssumption DEF PoolTypeOK
<1>1. ASSUME NEW c \in Clients, AcceptConnection(c) PROVE NoLostWakeup'
  BY <1>1 DEF AcceptConnection, NoLostWakeup, Woken, Filled, ringVars, MGoto
<1>2. CASE ProduceWait
  <2>1. Filled' = Filled /\ Filled = SqSize /\ UNCHANGED wpc
    BY <1>0, <1>2 DEF ProduceWait, Filled, ringVars
  <2>2. QED
    BY <2>1 DEF NoLostWakeup, Woken
<1>3. CASE Produce \/ ProduceDrop
  <2>1. SignalFull /\ Filled' <= Filled + 1 /\ mpc' = "spawn"
    <3>1. CASE Produce
      BY <3>1 DEF Produce, Filled, MGoto, PoolTypeOK
    <3>2. CASE ProduceDrop
      BY <1>0, <3>2 DEF ProduceDrop, Filled, ringVars, MGoto
    <3>3. QED
      BY <1>3, <3>1, <3>2
  <2>2. \A v \in Workers : wpc'[v] = "wait" => Filled' <= Cardinality(Woken')
    <3>1. Filled' \in Int
      BY <1>0
    <3>2. QED
      BY <2>1, <3>1, SignalWakes
  <2>3. QED
    BY <2>1, <2>2 DEF NoLostWakeup
<1>4. CASE CreateThread
  <2>1. spawned_worker_threads + 1 \in Workers /\ wpc[spawned_worker_threads + 1] = "none"
    BY <1>4, PoolAssumption DEF CreateThread, SlotInv, PoolTypeOK, Workers
  <2>2. /\ Cardinality(Woken') = Cardinality(Woken)
        /\ \A v \in Workers : wpc'[v] = "wait" => wpc[v] = "wait"
    BY <1>0, <1>4, <2>1, WokenMove DEF CreateThread, WorkerSteps
  <2>3. Filled' = Filled /\ mpc' = "poll"
    BY <1>4 DEF CreateThread, Filled, ringVars, MGoto
  <2>4. QED
    BY <2>2, <2>3 DEF NoLostWakeup
<1>5. CASE StartWorker \/ CreateThreadFails \/ RollBack \/ JoinWorkers \/ FreeContext
  <2>1. UNCHANGED wpc /\ Filled' = Filled /\ mpc' # "waitEmpty"
    BY <1>5 DEF StartWorker, CreateThreadFails, RollBack, JoinWorkers, FreeContext, Filled, ringVars, MGoto
  <2>2. QED
    BY <2>1 DEF NoLostWakeup, Woken
<1>6. CASE StopAccepting
  <2>1. (\A w \in Workers : wpc'[w] # "wait") /\ mpc' = "join"
    BY <1>6 DEF StopAccepting, MGoto
  <2>2. QED
    BY <2>1 DEF NoLostWakeup
<1>7. ASSUME NEW w \in Workers, ConsumeWait(w) PROVE NoLostWakeup'
  <2>1. Filled = 0 /\ Filled' = Filled /\ mpc' = mpc
    BY <1>7 DEF ConsumeWait, Filled, ringVars
  <2>2. Cardinality(Woken') \in Nat
    BY WokenFinite
  <2>3. Cardinality(Woken') >= Filled'
    BY <2>1, <2>2
  <2>4. QED
    BY <2>1, <2>3 DEF NoLostWakeup
<1>8. ASSUME NEW w \in Workers, Consume(w) PROVE NoLostWakeup'
  <2>1. Filled' = Filled - 1
    <3>1. AdvanceTail /\ sq_tail \in Int /\ sq_head \in Int
      BY <1>8 DEF Consume, PoolTypeOK
    <3>2. QED
      BY <1>0, <3>1 DEF AdvanceTail, Filled
  <2>2. mpc' # "waitEmpty" /\ WGoto(w, "return") /\ "return" \in WorkerSteps
    BY <1>8 DEF Consume, SignalEmpty, WorkerSteps
  <2>4. /\ Cardinality(Woken') = Cardinality(Woken) - (IF wpc[w] = "woken" THEN 1 ELSE 0)
        /\ \A v \in Workers : wpc'[v] = "wait" => wpc[v] = "wait"
    BY <1>0, <2>2, WokenMove
  <2>5. Cardinality(Woken') >= Cardinality(Woken) - 1
    BY <1>0, <2>4
  <2>3. QED
    BY <1>0, <2>1, <2>2, <2>4, <2>5, WokenFinite DEF NoLostWakeup
<1>9. ASSUME NEW w \in Workers, ConsumeNothing(w) PROVE NoLostWakeup'
  <2>1. Filled' = 0 /\ mpc' # "waitEmpty"
    BY <1>9 DEF ConsumeNothing, Filled, ringVars, SignalEmpty
  <2>2. Cardinality(Woken') >= 0
    BY WokenFinite
  <2>3. QED
    BY <2>1, <2>2 DEF NoLostWakeup
<1>10. ASSUME NEW w \in Workers, ConsumeReturn(w) \/ ServeConnection(w) PROVE NoLostWakeup'
  <2>1. Filled' = Filled /\ mpc' = mpc
    BY <1>10 DEF ConsumeReturn, ServeConnection, Filled, ringVars
  <2>2. /\ Cardinality(Woken') = Cardinality(Woken)
        /\ \A v \in Workers : wpc'[v] = "wait" => wpc[v] = "wait"
    <3>1. /\ wpc[w] \in {"return", "serve"}
          /\ WGoto(w, "serve") \/ WGoto(w, "exited") \/ WGoto(w, "next")
      BY <1>10 DEF ConsumeReturn, ServeConnection
    <3>2. PICK s \in {"serve", "exited", "next"} : WGoto(w, s)
      BY <3>1
    <3>3. s \in WorkerSteps /\ s # "woken" /\ s # "wait"
      BY <3>2 DEF WorkerSteps
    <3>4. QED
      BY <1>0, <3>1, <3>2, <3>3, WokenMove
  <2>3. QED
    BY <2>1, <2>2 DEF NoLostWakeup
<1>11. CASE SetStop
  BY <1>11 DEF SetStop, NoLostWakeup, Woken, Filled, ringVars
<1>12. QED
  BY <1>1, <1>2, <1>3, <1>4, <1>5, <1>6, <1>7, <1>8, <1>9, <1>10, <1>11
     DEF PoolNext, MasterStep, WorkerStep

(* No signal is lost between the two condition variables, whatever master, *)
(* workers and mg_stop do: the safety half of WaitingIsTaken               *)
(* (civetweb.c:20182-20206, 20223-20251).                                  *)
THEOREM WakeupsKept == PoolSpec => []NoLostWakeup
<1>1. PoolInit => NoLostWakeup
  BY DEF PoolInit, NoLostWakeup
<1>2. PoolInv /\ PoolInv' /\ NoLostWakeup /\ [PoolNext]_poolVars => NoLostWakeup'
  <2> SUFFICES ASSUME PoolInv, PoolInv', NoLostWakeup, [PoolNext]_poolVars PROVE NoLostWakeup'
    OBVIOUS
  <2>1. CASE PoolNext
    BY <2>1, WakeupStep DEF PoolInv
  <2>2. CASE UNCHANGED poolVars
    BY <2>2 DEF poolVars, NoLostWakeup, Woken, Filled
  <2>3. QED
    BY <2>1, <2>2
<1>3. QED
  BY <1>1, <1>2, PoolInvariant, PTL DEF PoolSpec
=============================================================================
