----------------------------- MODULE CivetPool -----------------------------
(***************************************************************************)
(* The threads of a CivetWeb server (civetweb.c, NO_ALTERNATIVE_QUEUE): a  *)
(* master thread accepts connections and puts them into a ring buffer, up  *)
(* to num_threads worker threads, created when they are needed, take them  *)
(* from it, and mg_stop ends them all.  The proxy has two such servers,    *)
(* one on port 8888 and the exposer's on port 9090.                        *)
(*                                                                         *)
(* Code between a lock and the next unlock or wait of thread_mutex is one  *)
(* step: what it shares with others it shares under this mutex, except for *)
(* stop_flag, which consume_socket reads once more after its unlock; that  *)
(* read is a step of its own.  What a worker does with a connection is     *)
(* left to Proxy and HandlerRegistry.  A worker that dies without memory   *)
(* and spurious wakeups, which the loops tolerate, are left out.           *)
(***************************************************************************)
EXTENDS Integers, Sequences, FiniteSets

CONSTANTS
  MaxWorkers,        \* cfg_max_worker_threads (num_threads)
  SqSize,            \* sq_size (connection_queue)
  Clients,           \* the clients, each of which connects at most once
  NoClient,          \* the connection of a thread that has none
  MaxSpawnFailures,  \* bound: how often pthread_create may fail
  MayStop            \* is mg_stop ever called?

ASSUME PoolAssumption ==
  /\ MaxWorkers \in Nat \ {0}
  /\ SqSize \in Nat \ {0}
  /\ NoClient \notin Clients
  /\ MaxSpawnFailures \in Nat
  /\ MayStop \in BOOLEAN

Workers == 1..MaxWorkers
Slots == 0..(SqSize - 1)

VARIABLES
  stop_flag,   \* 0 runs, 1 stop, 2 the master has ended
  sq_head,     \* the ring buffer of accepted sockets: next slot to fill,
  sq_tail,     \* next slot to empty, both modulo sq_size,
  squeue,      \* and the slots
  idle_worker_thread_count,
  spawned_worker_threads,
  mpc,         \* what the master is about to do
  mconn,       \* the connection it has accepted and not yet queued
  wpc,         \* what each worker is about to do
  wconn,       \* the connection each worker has taken
  accepted,    \* history: the connections the master accepted
  failures     \* history: how often pthread_create failed

poolVars == <<stop_flag, sq_head, sq_tail, squeue, idle_worker_thread_count,
              spawned_worker_threads, mpc, mconn, wpc, wconn, accepted, failures>>

ringVars == <<sq_head, sq_tail, squeue>>

MasterSteps == {"poll", "produce", "waitEmpty", "spawn", "create", "rollback", "join", "ended", "freed"}
WorkerSteps == {"none", "first", "wait", "woken", "return", "serve", "next", "exited"}

Filled == sq_head - sq_tail

MGoto(s) == mpc' = s
WGoto(w, s) == wpc' = [wpc EXCEPT ![w] = s]

(* mg_start2: nothing is spawned before it is needed (prespawn_threads 0). *)
PoolInit ==
  /\ stop_flag = 0
  /\ sq_head = 0 /\ sq_tail = 0
  /\ squeue = [i \in Slots |-> NoClient]
  /\ idle_worker_thread_count = 0
  /\ spawned_worker_threads = 0
  /\ mpc = "poll" /\ mconn = NoClient
  /\ wpc = [w \in Workers |-> "none"]
  /\ wconn = [w \in Workers |-> NoClient]
  /\ accepted = {}
  /\ failures = 0
-----------------------------------------------------------------------------
(* master_thread_run polls; accept_new_connection accepts. *)
AcceptConnection(c) ==
  /\ mpc = "poll" /\ stop_flag = 0
  /\ c \notin accepted
  /\ accepted' = accepted \cup {c}
  /\ mconn' = c
  /\ MGoto("produce")
  /\ UNCHANGED <<stop_flag, ringVars, idle_worker_thread_count, spawned_worker_threads,
                 wpc, wconn, failures>>

(* pthread_cond_signal(&sq_full): one of the workers that wait, if any. *)
SignalFull ==
  \/ \E w \in Workers : wpc[w] = "wait" /\ WGoto(w, "woken")
  \/ (\A w \in Workers : wpc[w] # "wait") /\ UNCHANGED wpc

(* produce_socket: wait while the queue is full, unless the server stops.  *)
ProduceWait ==
  /\ mpc = "produce"
  /\ stop_flag = 0 /\ Filled >= SqSize
  /\ MGoto("waitEmpty")
  /\ UNCHANGED <<stop_flag, ringVars, idle_worker_thread_count, spawned_worker_threads,
                 mconn, wpc, wconn, accepted, failures>>

(* Wrong variants: nobody is told of the new socket; or the queue is not   *)
(* looked at again.                                                        *)
ProduceSilently ==
  /\ mpc = "produce"
  /\ Filled < SqSize
  /\ squeue' = [squeue EXCEPT ![sq_head % SqSize] = mconn]
  /\ sq_head' = sq_head + 1
  /\ mconn' = NoClient
  /\ MGoto("spawn")
  /\ UNCHANGED <<stop_flag, sq_tail, idle_worker_thread_count, spawned_worker_threads,
                 wpc, wconn, accepted, failures>>

ProduceOverfull ==
  /\ mpc = "produce"
  /\ squeue' = [squeue EXCEPT ![sq_head % SqSize] = mconn]
  /\ sq_head' = sq_head + 1
  /\ mconn' = NoClient
  /\ SignalFull
  /\ MGoto("spawn")
  /\ UNCHANGED <<stop_flag, sq_tail, idle_worker_thread_count, spawned_worker_threads,
                 wconn, accepted, failures>>

(* ... or put the socket into the queue and wake a worker. *)
Produce ==
  /\ mpc = "produce"
  /\ Filled < SqSize
  /\ squeue' = [squeue EXCEPT ![sq_head % SqSize] = mconn]
  /\ sq_head' = sq_head + 1
  /\ mconn' = NoClient
  /\ SignalFull
  /\ MGoto("spawn")
  /\ UNCHANGED <<stop_flag, sq_tail, idle_worker_thread_count, spawned_worker_threads,
                 wconn, accepted, failures>>

(* ... or, the server being stopped with a full queue, forget the socket. *)
ProduceDrop ==
  /\ mpc = "produce"
  /\ stop_flag # 0 /\ Filled >= SqSize
  /\ mconn' = NoClient
  /\ SignalFull
  /\ MGoto("spawn")
  /\ UNCHANGED <<stop_flag, ringVars, idle_worker_thread_count, spawned_worker_threads,
                 wconn, accepted, failures>>

(* Wrong variant: any idle thread is enough. *)
StartWorkerIfNoneIdle ==
  /\ mpc = "spawn"
  /\ IF spawned_worker_threads >= MaxWorkers \/ idle_worker_thread_count > 0
     THEN MGoto("poll") /\ UNCHANGED idle_worker_thread_count
     ELSE MGoto("create") /\ idle_worker_thread_count' = idle_worker_thread_count + 1
  /\ UNCHANGED <<stop_flag, ringVars, spawned_worker_threads, mconn, wpc, wconn, accepted, failures>>

(* mg_start_worker_thread: no new thread beyond the limit, and none while  *)
(* more threads are idle than connections wait.  The new one counts as     *)
(* idle from here on.                                                      *)
StartWorker ==
  /\ mpc = "spawn"
  /\ IF spawned_worker_threads >= MaxWorkers \/ idle_worker_thread_count > Filled
     THEN MGoto("poll") /\ UNCHANGED idle_worker_thread_count
     ELSE MGoto("create") /\ idle_worker_thread_count' = idle_worker_thread_count + 1
  /\ UNCHANGED <<stop_flag, ringVars, spawned_worker_threads, mconn, wpc, wconn, accepted, failures>>

CreateThread ==
  /\ mpc = "create"
  /\ spawned_worker_threads' = spawned_worker_threads + 1
  /\ WGoto(spawned_worker_threads + 1, "first")
  /\ MGoto("poll")
  /\ UNCHANGED <<stop_flag, ringVars, idle_worker_thread_count, mconn, wconn, accepted, failures>>

CreateThreadFails ==
  /\ mpc = "create"
  /\ failures < MaxSpawnFailures
  /\ failures' = failures + 1
  /\ MGoto("rollback")
  /\ UNCHANGED <<stop_flag, ringVars, idle_worker_thread_count, spawned_worker_threads,
                 mconn, wpc, wconn, accepted>>

RollBack ==
  /\ mpc = "rollback"
  /\ idle_worker_thread_count' = idle_worker_thread_count - 1
  /\ MGoto("poll")
  /\ UNCHANGED <<stop_flag, ringVars, spawned_worker_threads, mconn, wpc, wconn, accepted, failures>>

(* The accept loop ends: close the listeners, pthread_cond_broadcast.      *)
StopAccepting ==
  /\ mpc = "poll" /\ stop_flag # 0
  /\ wpc' = [w \in Workers |-> IF wpc[w] = "wait" THEN "woken" ELSE wpc[w]]
  /\ MGoto("join")
  /\ UNCHANGED <<stop_flag, ringVars, idle_worker_thread_count, spawned_worker_threads,
                 mconn, wconn, accepted, failures>>

(* All spawned threads are joined, then mg_stop is told. *)
JoinWorkers ==
  /\ mpc = "join"
  /\ \A w \in 1..spawned_worker_threads : wpc[w] = "exited"
  /\ stop_flag' = 2
  /\ MGoto("ended")
  /\ UNCHANGED <<ringVars, idle_worker_thread_count, spawned_worker_threads, mconn, wpc, wconn,
                 accepted, failures>>
-----------------------------------------------------------------------------
(* pthread_cond_signal(&sq_empty): only the master ever waits for it, and  *)
(* then it looks at the queue again.                                       *)
SignalEmpty == mpc' = IF mpc = "waitEmpty" THEN "produce" ELSE mpc

(* Wrong variant: the thread counts itself on its first call, too. *)
CountedTwice(w) ==
  IF wpc[w] # "woken" THEN idle_worker_thread_count + 1 ELSE idle_worker_thread_count

(* idle_worker_thread_count while worker w holds the mutex: the worker     *)
(* counts itself, but for its first call and when it has waited.           *)
CountedIdle(w) ==
  IF wpc[w] = "next" THEN idle_worker_thread_count + 1 ELSE idle_worker_thread_count

(* consume_socket: nothing to take, wait for sq_full. *)
ConsumeWait(w) ==
  /\ wpc[w] \in {"first", "next", "woken"}
  /\ Filled = 0 /\ stop_flag = 0
  /\ idle_worker_thread_count' = CountedIdle(w)
  /\ WGoto(w, "wait")
  /\ UNCHANGED <<stop_flag, ringVars, spawned_worker_threads, mpc, mconn, wconn, accepted, failures>>

(* Wrong variant: only the tail is wrapped. *)
AdvanceTailOnly ==
  /\ sq_tail' = IF sq_tail + 1 > SqSize THEN sq_tail + 1 - SqSize ELSE sq_tail + 1
  /\ UNCHANGED sq_head

(* sq_tail++, and both pointers are wrapped. *)
AdvanceTail ==
  IF sq_tail + 1 > SqSize
  THEN sq_tail' = sq_tail + 1 - SqSize /\ sq_head' = sq_head - SqSize
  ELSE sq_tail' = sq_tail + 1 /\ UNCHANGED sq_head

(* ... or take the oldest socket. *)
Consume(w) ==
  /\ wpc[w] \in {"first", "next", "woken"}
  /\ Filled > 0
  /\ wconn' = [wconn EXCEPT ![w] = squeue[sq_tail % SqSize]]
  /\ AdvanceTail
  /\ SignalEmpty
  /\ idle_worker_thread_count' = CountedIdle(w) - 1
  /\ WGoto(w, "return")
  /\ UNCHANGED <<stop_flag, squeue, spawned_worker_threads, mconn, accepted, failures>>

(* ... or leave empty-handed when the server stops. *)
ConsumeNothing(w) ==
  /\ wpc[w] \in {"first", "next", "woken"}
  /\ Filled = 0 /\ stop_flag # 0
  /\ SignalEmpty
  /\ idle_worker_thread_count' = CountedIdle(w) - 1
  /\ WGoto(w, "return")
  /\ UNCHANGED <<stop_flag, ringVars, spawned_worker_threads, mconn, wconn, accepted, failures>>

(* Wrong variant: consume_socket always returns 1. *)
ReturnAlways(w) ==
  /\ wpc[w] = "return"
  /\ WGoto(w, "serve")
  /\ UNCHANGED <<stop_flag, ringVars, idle_worker_thread_count, spawned_worker_threads,
                 mpc, mconn, wconn, accepted, failures>>

(* return STOP_FLAG_IS_ZERO: after the unlock.  A worker that leaves does  *)
(* not close the connection it has just taken.                             *)
ConsumeReturn(w) ==
  /\ wpc[w] = "return"
  /\ IF stop_flag = 0
     THEN WGoto(w, "serve") /\ UNCHANGED wconn
     ELSE WGoto(w, "exited") /\ wconn' = [wconn EXCEPT ![w] = NoClient]
  /\ UNCHANGED <<stop_flag, ringVars, idle_worker_thread_count, spawned_worker_threads,
                 mpc, mconn, accepted, failures>>

(* process_new_connection returns; the connection is closed. *)
ServeConnection(w) ==
  /\ wpc[w] = "serve"
  /\ wconn' = [wconn EXCEPT ![w] = NoClient]
  /\ WGoto(w, "next")
  /\ UNCHANGED <<stop_flag, ringVars, idle_worker_thread_count, spawned_worker_threads,
                 mpc, mconn, accepted, failures>>
-----------------------------------------------------------------------------
(* mg_stop, called by ~CivetServer: set the flag without the mutex, wait   *)
(* for the master, free the context.                                       *)
SetStop ==
  /\ MayStop /\ stop_flag = 0
  /\ stop_flag' = 1
  /\ UNCHANGED <<ringVars, idle_worker_thread_count, spawned_worker_threads, mpc, mconn, wpc,
                 wconn, accepted, failures>>

FreeContext ==
  /\ mpc = "ended" /\ stop_flag = 2
  /\ MGoto("freed")
  /\ UNCHANGED <<stop_flag, ringVars, idle_worker_thread_count, spawned_worker_threads, mconn,
                 wpc, wconn, accepted, failures>>

MasterStep ==
  \/ ProduceWait \/ Produce \/ ProduceDrop
  \/ StartWorker \/ CreateThread \/ CreateThreadFails \/ RollBack
  \/ StopAccepting \/ JoinWorkers

WorkerStep(w) ==
  ConsumeWait(w) \/ Consume(w) \/ ConsumeNothing(w) \/ ConsumeReturn(w) \/ ServeConnection(w)

PoolNext ==
  \/ \E c \in Clients : AcceptConnection(c)
  \/ MasterStep
  \/ \E w \in Workers : WorkerStep(w)
  \/ SetStop
  \/ FreeContext

PoolSpec == PoolInit /\ [][PoolNext]_poolVars

(* The scheduler runs every thread that can run, the mutex is not held     *)
(* across a blocking call, and every handler returns.  Nobody owes the     *)
(* server a client or a stop.                                              *)
PoolFairness ==
  /\ WF_poolVars(MasterStep)
  /\ \A w \in Workers : WF_poolVars(WorkerStep(w))
  /\ WF_poolVars(FreeContext)

PoolFairSpec == PoolSpec /\ PoolFairness
-----------------------------------------------------------------------------
IdleWorkers == {w \in Workers : wpc[w] \in {"first", "wait", "woken"}}

(* The waiting connections, oldest first. *)
Waiting == [i \in 1..Filled |-> squeue[(sq_tail + i - 1) % SqSize]]

PoolTypeOK ==
  /\ stop_flag \in 0..2
  /\ sq_tail \in 0..SqSize /\ sq_head \in 0..(2 * SqSize)
  /\ Filled \in 0..SqSize
  /\ squeue \in [Slots -> Clients \cup {NoClient}]
  /\ idle_worker_thread_count \in Int
  /\ spawned_worker_threads \in 0..MaxWorkers
  /\ mpc \in MasterSteps
  /\ mconn \in Clients \cup {NoClient}
  /\ wpc \in [Workers -> WorkerSteps]
  /\ wconn \in [Workers -> Clients \cup {NoClient}]
  /\ accepted \subseteq Clients
  /\ failures \in Nat

(* idle_worker_thread_count is exact: it counts the workers that are in    *)
(* consume_socket and have taken nothing, and the one the master is about  *)
(* to create.  It is unsigned, so an update too many would wrap it         *)
(* (civetweb.c:20176-20205, 21154-21178).                                  *)
IdleCountExact ==
  idle_worker_thread_count =
    Cardinality(IdleWorkers) + (IF mpc \in {"create", "rollback"} THEN 1 ELSE 0)

(* While the server can still create threads, no connection waits behind a *)
(* request in service: whenever the master is back in its poll, every      *)
(* waiting connection has an idle worker of its own, but for the threads   *)
(* that could not be created (civetweb.c:20253, 21144-21162).              *)
NoWaitBehindService ==
  (mpc = "poll" /\ stop_flag = 0) =>
    \/ spawned_worker_threads = MaxWorkers
    \/ Filled <= Cardinality(IdleWorkers) + failures

Woken == {w \in Workers : wpc[w] = "woken"}

(* No wakeup is lost: while a worker sleeps, each waiting connection has   *)
(* one that was woken and has still to look, although others may take the  *)
(* connections it was woken for; and the master sleeps only while there is *)
(* no place in the queue (civetweb.c:20182-20206, 20223-20251).            *)
NoLostWakeup ==
  /\ (\E w \in Workers : wpc[w] = "wait") => Filled <= Cardinality(Woken)
  /\ mpc = "waitEmpty" => Filled = SqSize

(* mg_stop frees the context only when no thread uses it any more          *)
(* (civetweb.c:20754-20760, 20979-20993).                                  *)
NoThreadAfterFree ==
  mpc \in {"ended", "freed"} => \A w \in Workers : wpc[w] \in {"none", "exited"}

(* The first spawned_worker_threads slots hold the threads that exist, and *)
(* there is a slot for the one that is being created.                      *)
SlotInv ==
  /\ \A w \in Workers : wpc[w] = "none" <=> w > spawned_worker_threads
  /\ mpc = "create" => spawned_worker_threads < MaxWorkers

(* How far the connections that wait may exceed the idle threads, at each  *)
(* step of the master: by the one it has just queued, but for the threads  *)
(* that could not be created.                                              *)
CoverInv ==
  (stop_flag = 0 /\ spawned_worker_threads # MaxWorkers) =>
    /\ mpc \in {"poll", "produce", "waitEmpty", "create"} =>
         Filled <= idle_worker_thread_count + failures
    /\ mpc = "spawn" => Filled <= idle_worker_thread_count + failures + 1
    /\ mpc = "rollback" => Filled <= idle_worker_thread_count + failures - 1

(* The flag is 2 when the master has ended, and then no worker is left. *)
StopInv ==
  /\ stop_flag = 2 <=> mpc \in {"ended", "freed"}
  /\ mpc = "join" => stop_flag # 0
  /\ NoThreadAfterFree

(* The inductive invariant of the pool. *)
PoolInv == PoolTypeOK /\ SlotInv /\ IdleCountExact /\ CoverInv /\ StopInv

(* Connections are served as ConnectionService says. *)
Service == INSTANCE ConnectionService WITH
  Connections <- Clients,
  Capacity    <- SqSize,
  Limit       <- MaxWorkers,
  waiting     <- Waiting,
  inService   <- {wconn[w] : w \in Workers} \ {NoClient},
  opened      <- IF mconn = NoClient THEN accepted ELSE accepted \ {mconn},
  stopping    <- stop_flag # 0

(* In the order of arrival, each at most once, whatever the workers and    *)
(* the master do concurrently with the ring buffer (civetweb.c:20167-20256)*)
ImplementsService == Service!Spec

InQueue(c) == \E i \in 1..Filled : Waiting[i] = c

(* No wakeup is lost: a waiting connection is taken once there is a worker *)
(* at all, unless the server stops (civetweb.c:20183-20203, 20236-20250).  *)
WaitingIsTaken ==
  \A c \in Clients :
    (InQueue(c) /\ spawned_worker_threads > 0)
      ~> ((\E w \in Workers : wconn[w] = c) \/ stop_flag # 0)

(* mg_stop returns when it is called while the master does not wait for a  *)
(* place in the queue: threads that wait are woken, threads that serve     *)
(* come back, none begins to wait again, and none is left when the context *)
(* is freed (civetweb.c:20740-20806, 20979-20993).                         *)
StopCompletes ==
  (stop_flag = 1 /\ mpc # "waitEmpty")
    ~> (mpc = "freed" /\ \A w \in Workers : wpc[w] \in {"none", "exited"})

(* The comment at civetweb.c:20330: workers call consume_socket even while *)
(* the server stops, so that it signals sq_empty and wakes up the master   *)
(* that waits in produce_socket.                                           *)
StopWakesMaster == (stop_flag = 1 /\ mpc = "waitEmpty") ~> (mpc # "waitEmpty")
=============================================================================
