# Verification of http-redis-proxy

TLA+ models of the C++ service in `src/cpp/l2-proxy` (one binary, two roles: the HTTP proxy and the
L2 worker) and of the parts of CivetWeb and prometheus-cpp it runs on, the TLC runs that check them
on small instances, and TLAPS proofs of their safety properties for every value of the constants.
Line numbers are those of `src/cpp/l2-proxy/main.cpp` unless another file is named.

## 1. The system

```
client --HTTP--> CivetWeb pool --> RequestHandler --RPUSH/INCR--> Valkey <--BLPOP/SETEX/INCR-- L2Worker --HTTP--> L2 server
                              \--> HealthHandler, StatsHandler (same redisContext)
Prometheus --GET /metrics--> a second CivetWeb pool --> MetricsHandler --> registry, counters, summary
```

The two processes share nothing but keys of Valkey: the list `http:requests`, the counters
`stats:redis_writes` and `stats:redis_reads`, the responses `http:response:<id>` (60 s) and the id
counter `request_id_counter`, which the proxy loads at its start and tries to save at its end.

### Inventory

| component | code | state | operations | what makes it correct |
|---|---|---|---|---|
| Proxy request path | `RequestHandler`, 231-414 | id counter, mutex, `redis->err` | read the body, draw an id, push, count, answer, trace | ids unique in a life, a request queued at most once and with its own id and body, count follows the queue, a 200 means queued on a whole connection, no call on a freed context |
| Proxy life cycle | `run_proxy`, 417-472, `main`, `signal_handler` | life of the process, `shutdown_flag` | start, load counter, serve, stop, save counter, free | stops after a signal; ids continue in the next life (they do not) |
| Health and stats | `HealthHandler`, `StatsHandler`, 169-229 | the proxy's `redisContext` | PING, two GETs | their replies are their own (they are not always) |
| L2 worker | `L2Worker`, `run_worker`, 521-725 | item in hand, curl handle with sticky options, `redis->err` | BLPOP, call the L2 server, SETEX, trace, INCR | in order and at most once, right body, response under the right id, count follows the pops, stops after a signal |
| Valkey | external, `valkey.conf` | the keys, the append-only file | the commands; kill and reload | what is left of the above after a restart that loses a second of writes |
| Metrics of the worker | 476-519 and the loop | counters | increment | the error counter counts errors (it counts idle polls, too) |
| Metrics of the proxy | 83-167 | counters | increment | as above |
| Tracing | `trace_loger.hpp`, `base64_encode` | none | build a span and post it, in the calling thread | does not stall the caller |
| CivetWeb threads (vendored) | `civetweb.c` 20139-21180 | ring buffer of sockets, idle and spawned counts, two condition variables, `stop_flag` | accept, queue, take, create a thread, stop | order of arrival, no lost wakeup, threads when they are needed, a stop that returns and leaves no thread |
| CivetWeb handlers (vendored) | `civetweb.c` 14690-15450, `CivetServer.cpp` | list of handlers with reference counts, connections | add, look up, release, remove, free | no handler destroyed under a call, the right handler also while they are being added, removal not starved |
| prometheus-cpp pull (vendored) | `exposer.cc`, `endpoint.cc`, `handler.cc` | endpoints, metrics of scrapes | serve a scrape, destroy an endpoint | as for handlers |
| prometheus-cpp core (vendored) | `gauge.cc`, `counter.cc`, `summary.cc`, `time_window_quantiles.cc`, `ckms_quantiles.cc`; registry and families | atomics, sliding window, samples | increment, observe, collect | no lost increment, the window slides, no rank lost, quantiles within their error (they are not) |
| jsoncpp, nlohmann/json, sqlite (vendored) | | none kept by the program | | not the project's logic; sqlite is not built |
| scripts and deployment | `test.py`, `benchmark.py`, `docker-compose.yml`, `valkey.conf` | | | they fix that there are one proxy, one worker, one Valkey |

Interactions. A CivetWeb service thread calls a handler method and stays in it until the client is
answered and the span is exported. The handlers call Valkey through blocking `redisCommand`s without
a timeout on one context. The worker has a single thread and a connection of its own. Neither
process reconnects: once `redis->err` is set it stays set for the rest of that life. Each process
has a second CivetWeb server, the exposer's, on port 9090.

### What is hard here

* Service threads interleave between the id's critical section and the push's (267, 353), and
  `redis->err` is read before the lock is taken (352).
* RPUSH and INCR, BLPOP, SETEX and INCR are separate commands: a crash or a broken connection falls
  between any two, and a command whose reply is lost may have been executed.
* Valkey itself may be killed and come back with an earlier state while both processes run on.
* The order of the end of `run_proxy`: server, `redisFree`, then the handler's destructor, which
  sends a SET (305, 470).
* Three handlers use one context under three different mutexes (169-251, 427-429).
* A BLPOP of a worker that died may still take an item; an item is popped before it is processed.
* The curl handle is reused and its POST options are set but never reset (570).
* The master and the workers of a CivetWeb server share a bounded queue, two condition variables and
  a stop flag that is set without the mutex and read once more after it is released.
* Handlers are added to a server that already serves, and endpoints are removed while scrapes run.
* A counter's compare-and-swap may fail spuriously; the buckets of a summary rotate late, several
  at a time, and in the middle of a collect.

`PROJECT.json` lists these and the others at their lines, each with the properties aimed at it or the
reason why there is none.

## 2. The modules

| module | what it is | corresponds to |
|---|---|---|
| `RedisClient` | how a `redisCommand` can end: `ok`, an error reply, executed with the reply lost, not sent. The last two set `err`, and then every later command is unsent. `Faults` names those that may happen. | hiredis (external) |
| `Valkey` | the keys, the effect of each command on them, and the history `pushLog` of everything ever pushed | Valkey (external) |
| `Proxy` | any number of service threads through `handleGet`/`handlePost` and `handle_request`, and the main thread through `run_proxy` | 231-472, `mg_stop`, `consume_socket`, `mg_read` of CivetWeb |
| `Worker` | `L2Worker` and what Valkey does with BLPOPs of dead connections | 521-725 |
| `HttpRedisProxy` | both processes over the same keys; key expiry; fairness; system properties | `docker-compose.yml` |
| `ValkeyRestart` | the same with a Valkey that syncs its file, is killed and loads it; the refinement mapping onto `RequestDelivery` | `valkey.conf` |
| `RequestDelivery` | the abstract promise: a lossy FIFO that delivers in order, each request at most once but for what is set back | - |
| `WorkerMetrics` | the worker's operation and error counters, superposed on its actions | 486-494, 643-703 |
| `SharedContext` | inside `redisCommand`: the output buffer and the reader of the one context used by three handlers | 169-251, 352-371, 427-429 |
| `CivetPool` | master and worker threads, the ring buffer of accepted sockets, threads created on demand, `mg_stop` | `civetweb.c` 20139-21180 |
| `ConnectionService` | the abstract promise of the pool: connections are taken in the order of arrival, each at most once, with bounds on those that wait and those in service | - |
| `HandlerRegistry` | the list of URI handlers, its reference counts, the connections of `CivetServer`, the life of an endpoint, the scrape counter | `civetweb.c` 14690-15450, `CivetServer.cpp`, `endpoint.cc`, `gauge.cc` |
| `CKMSQuantiles` | the quantile estimator as operators: insert, merge, compress, get | `ckms_quantiles.cc` |
| `Summary` | a summary with its sliding window of estimators, observed and collected | `summary.cc`, `time_window_quantiles.cc` |
| `ProxyInductive`, `SystemInductive` | inductive invariants (those of the other components are in their modules) | - |
| `ProxyProofs`, `SystemProofs`, `SharedContextProofs`, `CivetPoolProofs`, `CivetPoolRefinement`, `HandlerRegistryProofs`, `SummaryProofs` | the theorems and their proofs | - |
| `DataLemmas` | lemmas about numbers, sequences and folds for the last two | - |
| `MC*` | constants, terminal stuttering and symmetry for TLC | - |

### Proxy

`pc[t]` is where a service thread is: `idle`, `read` (the request head and body), `id`
(`generate_sequential_id`), `check` (`redis && !redis->err`), `lock` (the `lock_guard`), `rpush`,
`incr`, `reply`, `trace`. `cur[t]` is its request, `ticket[r]` the id drawn for request r and the
life that drew it, `body[r]` what `handlePost` read (`full`, `short`, `none`), `answered` the
requests whose 200 was written. `life` is the process: `down`, `serving`, `stopping` (`mg_stop` joins
the threads), `freed` (after `redisFree`). A request is a model value; the JSON of `request_data` is
the record `Item(r)`. A failed RPUSH does not skip the INCR, and neither changes the answer: that is
what the code does (357-400).

The id's critical section is a single step, because nothing inside it can be seen from outside.
`DestroyHandler` does not store the counter: it runs after `redisFree`, so its SET goes to a context
whose socket is closed; whether the call fails or kills the process, the server never sees it, and
the process is gone either way. Once the server stops, CivetWeb truncates reads and writes nothing,
so `ReadRequest` may leave a short body and `Reply` answers nobody. Two kinds of body are never kept
whole, however fast the client: `handlePost` reads only when `content_length` is positive, so a chunked
body counts as empty (`Chunked`, 315), and `std::string(buffer)` ends at the first NUL (`WithNul`, 320).
Both are queued and answered with a 200; `AnsweredWholeBody` is about the other bodies. `mg_stop` either
returns, and `FreeContext` follows, or it waits for ever for its master thread, as `CivetPool` shows:
`StopHangs` leaves the process with no handler in it and the context allocated (`life` is `stuck`), and
only a kill ends it. What happens to requests before
`addHandler` has run (451-456) is in `HandlerRegistry`.

### Worker, system and restarts of Valkey

`wpc` walks `loop`, `blpop`, `curl`, `setex`, `trace`, `incr`. Anything but a POST goes from BLPOP
straight to `incr` (605): GETs are queued, counted and skipped by the worker, although README.md:219
of the repository says that requests are sent to the l2-server. `curl` says whether the handle has
been used with a body; `L2Call` is what the L2 server then gets. After a timeout the call may have
arrived. `orphanPolls` are BLPOPs that wait on the server for a connection that is gone: until it
notices, the server may pop an item for them. `HttpRedisProxy` interleaves both processes; each
starts, stops and crashes on its own.

`ValkeyRestart` adds `Fsync`, which records the keys, and `Restart`, which sets them back to what was
recorded and breaks both connections. `pushLog`, the history of pushes, is set back with the queue:
it is the history of the queue that exists. A request answered with a 200 may be lost by this;
nothing in the repository promises otherwise.

### SharedContext

`redisCommand` appends the command to the output buffer; `redisGetReply` looks for a reply in the
reader, else writes the buffer, trims what it wrote, blocks in `read()`, and takes the oldest reply.
Each of these accesses is an action. Accesses of one handler's threads are ordered by its mutex. When
two handlers are in the context at once their accesses race; what a race leaves in the two buffers is
`TornAccess`, any stretch of what was there (a crash of the process is left out). `overlapped` records
that calls of two handlers have met. Until then RequestHandler's mutex justifies that `Proxy` takes a
`redisCommand` as one step (`OwnReplies`, `SentOnce`, `ReplyOnItsWay`, `CommandsReturn`). Afterwards
nothing is claimed: replies are swapped, lost or taken twice, and two threads that find the same
output buffer both write it, so an RPUSH may be executed twice. `ContextHang` shows that a thread may
never return even when no access is torn (`Races` is FALSE there). The theorems about `Proxy` and the
system are therefore about a proxy whose `/health` and `/stats` are not called while requests are
served.

### CivetPool

What is between a lock and the next unlock or wait of `thread_mutex` is one step; the read of
`stop_flag` after the unlock of `consume_socket` is another (`ConsumeReturn`). `mpc` is where the
master is: `poll`, `produce`, `waitEmpty` (waits for `sq_empty`), `spawn` (`mg_start_worker_thread`),
`create` and `rollback` (around `pthread_create`), `join`, `ended`, `freed`. `wpc[w]` is where worker
w is; `first` differs from `next` because the creator has counted the new thread as idle already. A
signal wakes one of the threads that wait, a broadcast all of them; spurious wakeups are left out,
the loops tolerate them. `sq_head` and `sq_tail` grow and are wrapped together as in the code, and
`Waiting` is the queue they stand for. How long a connection is served is up to its client;
`Proxy` and `HandlerRegistry` say what happens in it.

Two consequences of the code are not errors by anything it promises, and no property forbids them:
a socket that is accepted or dequeued while the server stops is dropped without being closed, and
when the very first `pthread_create` fails the connection waits until another one arrives.

### HandlerRegistry

An owner thread runs a program: `run_proxy`'s (three `addHandler`s to a running server, stop, destroy)
or the Exposer's (add, remove, destroy, stop). A service thread looks a handler up in the three passes
of `get_request_handler` (exact, directory, prefix), takes a reference, is noted in
`CivetServer::connections`, handles, gives the reference back and closes. Removal marks an entry that
is in use and looks again; a marked entry is as good as none. `WellBehaved` is what the owners of the
repository satisfy and what the proofs assume: no URI is added twice, and a handler object is
destroyed only after it is out of the list; `CatchAllLast`, that `/health` and `/stats` are added
before `/` and never removed, as in `run_proxy` (main.cpp:454-456). PUT stands for the methods no handler implements: the
request then goes on to the step that looks for a file, with `handler_info` still set; the
`DEBUG_ASSERT` there would fail in a debug build (civetweb.c, step 6.2.1 of `handle_request`). `held[t]`
is the reference of thread t, not that variable: `Release` ends the reference, while `handler_info`
keeps its value and is not used again. `check_authorization` (15390), which would give the reference
back and return, always passes: the program names no password file. `CloseHangs` is `mg_stop` that does
not return, as for the proxy.

### Summary and CKMSQuantiles

Estimators are records; a quantile's target is a fraction, its error and the constructor's `u` and `v`
are integers over a common denominator `Scale`, so that the comparisons of doubles are comparisons of
integers (`Quantile` demands that `u` and `v` are exact). `Merge` is one turn of `insertBatch`'s loop,
`Absorb` one of `compress`'s; both loops are folds. `Observe` is one step, `Collect` a step for each
quantile, because it reads the clock for each: the quantiles of one scrape may come from different
windows (summary.cc:28-36). `observed` is the history that the window is compared with, and a collected
result notes when, of how many observations and from how many items it was taken.

`QuantilesMonotone` is about results of one moment and of one sample. Both conditions are needed. Each
`get` compresses the sample once more, also when nothing was inserted, so two quantiles of one `Collect`
may come from samples of different size: with the quantiles {0.5, 0.25} and {0.51, 0.25}, a buffer of 4,
the observation 1, a `Collect`, and then the observations 1, 10, 5, 4, 9, 5, 10, the next `Collect`
reports 5 for the 0.5-quantile from a sample of 5 items and 4 for the 0.51-quantile from the 4 that the
second `get` leaves. Nothing in the repository promises the order, so this is no finding.

## 3. The runs

Model values stand for threads, requests and clients; symmetry is used only where no liveness is
checked. State counts are distinct states.

| run | bounds | what it shows |
|---|---|---|
| `System` (5.0 M) | 2 threads, 2 POSTs, one with a NUL in its body, 2 lives of the proxy, 1 of the worker, lost replies, an L2 server that times out, signals and crashes | ids unique in a life; nothing pushed twice; who was answered had the whole body read (but for the NUL) and, on a whole connection, is queued; both counts are bounded by the queue they count; a response never answers another request of its life, and a good one has its call behind it; a body arrives as it was queued; refinement of `RequestDelivery` |
| `SystemRestart` (715 k) | 2 threads, a chunked POST and a GET, 2 lives of the worker, a restart of Valkey, refused BLPOPs | a request reaches the L2 server once and at most once more for each restart; the refinement holds with the restart; every queued POST is called for unless the worker ends or loses its connection, and a GET in front does not hold it up; after a signal every handler returns and both processes end, unless `mg_stop` hangs with no handler left |
| `ContextHandlers` (303 k) | a thread of `/health`, 2 of RequestHandler, a call each, torn buffers | until calls of two handlers meet every command gets its own reply, is sent once, never reads without a reply on its way and returns |
| `ServerPool` (437 k) | 2 workers, a queue of 2, 5 clients, a thread creation that fails, `mg_stop` at any moment | the idle count is exact; no connection waits behind a request while a thread can be created; refinement of `ConnectionService`; no wakeup is lost, and who waits is taken; `mg_stop` returns unless the master waits for a place in the queue |
| `Handlers` (175 k) | 2 threads, both owners, 5 URIs, 3 scrapes | no handler is destroyed under a call; exact reference counts; no request meets a handler it is not meant for while handlers are being added; no connection forgotten, no scrape lost; a marked entry only loses holders; teardown completes although clients keep asking, unless `mg_stop` hangs |
| `Summary` (2.70 M) | 3 age buckets of 2 ticks, 4 observations of 3 values, 8 ticks, a buffer of 4, the quantiles {0.5, 0.5} and {0.75, 0.25} | the window slides as documented; merging and compressing lose no rank; quantiles of one sample are in order |

Six runs end in a violation, each of one statement made about the program:

| run | statement | what the code does |
|---|---|---|
| `ProxyIds` | 288, "Load counter from Redis": a new life continues the ids | the counter is saved only after `redisFree` (305, 470): ids start again, and responses of requests of different lives share a key |
| `SystemStaleBody` | README.md:219, requests "get queued, processed by the worker, and sent to the l2-server" | a POST without a body after one with a body is sent with the pointer and size of the former's body (570) |
| `MetricsIdle` | README.md:96, "Redis operation errors" | a BLPOP that times out on an empty list counts as an error (699) |
| `ContextHang` | README.md:219, requests "get queued" | the reply of an RPUSH is read into the reader by `/health`; the pushing thread blocks in `read()` with RequestHandler's mutex held |
| `ServerStop` | the comment at civetweb.c:20330: a stopping worker calls `consume_socket` once more to wake the master | a worker that has read `stop_flag` after its dequeue leaves at once; with a full queue nobody signals `sq_empty` and `mg_stop` waits for ever |
| `SummaryError` | summary.h:50-53, a quantile is returned within its error | `insertBatch` compares `idx + 1` with the size before the insertion (ckms_quantiles.cc:116), so a new greatest item gets the uncertainty 1 of a middle one, and the scan of `get` stops before it: the 0.9-quantile of 1, 1, 2, 2 is 1. Nothing is compressed in it |

Why the bounds are enough. Two threads give every interleaving of two critical sections, and a third
adds only another waiter for the same mutex. Two POSTs are needed for an id clash, a swapped order or
a reused curl handle. Two lives show what a restart keeps. `ContextHandlers` leaves out StatsHandler,
whose two commands have the shape of RequestHandler's; the theorems cover it. In `ServerPool` five
clients fill the queue, both workers and the master's hand, and let the ring wrap; in `Handlers` the
threads meet at one entry while it is added, removed and destroyed. In `Summary` a buffer of four is
flushed both by the fourth observation and by a `Collect` before it, the coarse errors let a sample
shrink after few observations, also between the two gets of one `Collect`, and eight ticks let a window
of six pass. The theorems remove the bounds of every run. `MaxLives`, `MaxWorkerLives`, `MaxRestarts`, `Calls`, `MaxOps`,
`MaxSpawnFailures`, `MaxScrapes`, `MaxObservations` and `MaxTime` bound what would otherwise go on.

`MC*` modules add one stuttering action, `Exhausted`, for the end of the bounded behaviour (the pool's
also allows the end that `ServerStop` shows), so that deadlock is checked everywhere but in
`ContextHandlers` and `ContextHang`, where it is real. `SystemRestart` checks `System`'s refinement
again because there it includes the restart; `WritesTrackPushes` and
`AnsweredIsPushed` are stated for a Valkey that stays up and are checked in `System`, where
`MaxRestarts` is 0. GETs occur in `SystemRestart` only.

### Fairness

`ProxyFairness`: weak fairness of each thread's own steps and of the main thread's shutdown steps (that `mg_stop` returns is not among the assumptions: `StopHangs` may come first).
It says that the scheduler runs what can run and that every `redisCommand` and every span export
returns. The second is an assumption about Valkey: the code sets no timeout, so a server that hangs
stops the proxy. Weak fairness is enough for the mutex because each life serves finitely many
requests here. `Fairness` of the system adds the worker's steps and strong fairness of `PollItem`: a
BLPOP may time out now and then, but not always just before an item comes. A step of one process
changes no variable of the other, so each condition is about the variables of its own process. That
Valkey ever notices a dead connection is not assumed. Starts, signals, crashes, faults and client requests are never fair.

`PoolFairness`: the master's and each worker's steps and the freeing of the context; it includes that
a request in service ends. Neither clients nor a stop are owed to the server. `FairSpec` of
`HandlerRegistry`: the owner goes on but for the end of its run, threads serve what they have, and
`compare_exchange_weak` does not fail for ever (strong fairness of a swap that succeeds). `FairSpec`
of `SharedContext`: a thread in `redisCommand` that can go on does.

### Mutants

Next to some actions stands an operator marked "Wrong variant": the same step with a plausible
mistake in it (a dropped guard, a swapped order, a missing reset). `PROJECT.json` pairs each property
of each run that passes with one of them; with the action replaced by its wrong variant the run ends
in a violation of that property. They are never used otherwise.

## 4. What is proved

For every value of the constants that satisfies the modules' named assumptions (which TLC evaluates on
every run). Each theorem `Spec => []P` follows from an inductive invariant; the invariants are proved,
not only checked.

**Proxy** (`ProxyProofs`). `TypeCorrect`, `MutualExclusion`, `IdsUnique`, `PushesOnce`, `WritesBound`,
`AnsweredBodies`, `AnsweredQueued`, `ContextOutlivesHandlers`, from `ProxyInv`:

* `ThreadInv` - a thread has a request exactly while it is busy and no two have the same; nobody is
  busy while the server does not run; the mutex's holder is the thread at `rpush` or `incr`. Without
  distinct requests `UniqueIds` and `PushedOnce` are not inductive.
* `TicketInv` - no ticket of the current life is ahead of the counter: so the next id is new.
* `PushInv` - a request whose thread has not passed RPUSH is not in the history.
* `LagInv` - the bound on the lag of `stats:redis_writes`, sharpened: a life that has not lost a
  count yet has that miss in hand, and between a push and its INCR the count is strictly behind.
* `BodyInv`, `ReplyInv` - what was read is whole while the server serves, but for a chunked body or a NUL; on a whole connection a
  thread past RPUSH has its request queued.

**The whole system** (`SystemProofs`), over any number of lives of both processes and of restarts of
Valkey: `SystemTypes`, `ReadsBound`, `ReadsWritesBound`, `ResponsesMatch`, `StoredAfterCall`,
`BodiesForwarded`, `DeliveredOnce`, `PushesOnceRestart`, from `SystemInv`. Its idea is `Settled`, the
requests that have an id and are past their push: nothing changes them any more, so an item, a
response or a call that is about a settled request is right for ever, wherever it lies - in the queue,
in the history, in the worker's hand or in the file a restart will load (`ItemInv`, `CallInv`,
`ResponseInv`). `ReadsInv` and `WritesInv` charge each missed count to a life, a refused INCR or a poll
of a dead connection that is still to come; `DeliveryInv` counts how often a request may yet be
delivered. `DeliveryRefinement` then shows, action by action, that every step is a step of
`RequestDelivery` or a stutter: the whole system, with its crashes, broken connections and restarts,
is a FIFO that delivers a request at most once but for what a restart puts back.

**The shared context** (`SharedContextProofs`), any number of threads of the three handlers:
`RepliesAreOwn`, `CommandsOnce`, from `ContextInv`, with or without torn buffers. `CallMutex` says
that each handler's mutex has one holder; `SoloInv` that until handlers overlap a single thread is in
the context, and describes for each of its steps what is in the output buffer, on the wire and in the
reader; `ExecutedInv` what the server has executed for finished and unfinished calls. From the same
invariant follows what `CommandsReturn` needs besides fairness: `ReadsAreAnswered`, a thread that blocks
in `read()` has a reply on its way, and `CallsGoOn`, every step of a call lowers `StepsLeft`.

**The thread pool** (`CivetPoolProofs`), any number of workers and any size of the queue: `PoolTypes`, `IdleCount`,
`WaitingCovered`, `FreedAfterThreads`, `WakeupsKept`, from `PoolInv`. `SlotInv` says that the first
`spawned_worker_threads` slots hold threads; `CoverInv` how far the waiting connections may exceed the
idle count at each step of the master, with the creations that failed; `StopInv` that the flag is 2
exactly when the master has ended. `WakeupsKept` is the safety half of `WaitingIsTaken`: a waiting
connection may lose the worker that was woken for it to one that was not asleep, but as long as
anybody sleeps there are as many woken workers as waiting connections (`WokenMove`, `SignalWakes`).

**The pool as a service** (`CivetPoolRefinement`): `ServiceRefinement`, the pool implements
`ConnectionService`. `RingFill` and `RingDrain` are the heart: writing a slot and advancing a head or
tail that is reduced modulo `sq_size` is `Append` and `Tail` of the queue it stands for, also when
both are wrapped. `ConnInv` says that a connection is with the master, in the queue or with a worker,
and in one place only; `ServiceRoom` counts the workers to see that there is room for one more.

**The handler registry** (`HandlerRegistryProofs`), any number of threads and any owner as assumed in section 2:
`RegistryTypes`, `ReferencesExact`, `HandlersOutlive`, `ConnectionsKnown`, `ScrapesCounted` from
`RegistryInv`, and `NeverMisdirected` from `RegistryInv` and `OrderInv`. `UniqueInv` says that a URI has one entry; `ProgramInv` that what the owner still has to
do fits the list (`Fits`): it adds nothing that is there and destroys nothing it has not taken out.
Together with exact reference counts this is why a handler that is held is alive. `OrderInv` says that
the catch-all comes after the handlers it would stand in for, in the list and in the owner's program:
the order of the three `addHandler` calls, and that new entries go to the end of the list, is why
no health check is ever queued as a request. `RemovalDrains` is the safety half of `TeardownCompletes`:
a marked entry gets no new holder, and since a URI is added once no other entry takes its place
(`Follows`).

**The summary** (`SummaryProofs`), any list of quantiles, number of buckets, size of the buffer, values and
observations: `SummaryTyped`, `RanksCovered`, `WindowSliding` from `SummaryInv`, and `QuantilesInOrder`
from `SummaryInv` and `GatheredInv`.

* `BucketInv` says of each bucket when it was reset - which follows from its distance to the current
  bucket and from `last_rotation` (`ResetAt`) - and that it stands for exactly the observations made
  since: it has as many, each of its values is one of theirs, its sample is sorted and its ranks add up.
  It is the whole point of the ring that the current bucket is always the oldest.
* `ClockInv` says that `last_rotation` is not more than an interval behind any observation. Without it
  a rotation that is done late could reset a bucket with observations that are too young.
* A result stays right while its `Collect` goes on (`WindowSlides` is part of `SummaryInv`), because the
  summary's mutex keeps observations out.
* `GatheredInv` says that what was gathered from the present window came from the current estimator,
  which has at most been compressed since, and that while it has as many items it is the same. So
  results with equal `items` are the answers of one estimator, and `GetOrder` applies: for a greater
  quantile the desired rank is not less (`RankOrder`), nor is the bound that ranks are compared with
  (`BoundOrder`), so the scan does not stop earlier in a sorted sample. The bound contains the allowed
  error, which falls where a rank rises below a quantile; it falls by at most `u` for each rank, half
  of it counts, and so `u` must not exceed 2. That is `ModestErrors`: an error of at most 1 - q, which
  the handler's quantiles (handler.cc:48) keep by far.

The loops of `insertBatch` and `compress` and the sum of ranks are folds over data of any length. The
library's induction theorems take a predicate as a parameter and cannot be used; `DataLemmas` states
induction and the least element for *sets* of numbers instead (`SetInduction`, `LeastNatural`, from
`WFMin`), unrolls a fold into the function of its intermediate values (`IsFold`, `FoldValues`), and a
lemma about a loop (`MergeFold`, `MergesCover`, `CompressedSample`, `SortedSeq`, `RankFold`) is then an
induction over these. `AbsorbStep` and `MergeStep` are what one turn does, the first also when
the sample has shrunk below the index. All parts of `SummaryInv` and `GatheredInv` were checked
by TLC on the instance of the run before they were proved.

Every safety property of a run that passes - invariant or action property - is stated by a theorem.
`NoLostWakeup`, `ReplyOnItsWay` and `MarkedDrains` are the safety halves of the liveness properties of
their runs. `CallsAdvance` and the theorems about inductive invariants are of formulas no run lists.
Only model-checked: all liveness (the
prover has no fairness and no ENABLED), and what the violation runs say. What a quantile's error really is has no theorem, as the documented bound does not hold.

## 5. What is not modelled

* The duration and the contents of spans, `base64_encode`, JSON text, HTTP headers. That the export
  of a span blocks the service thread (up to 5 s, `trace_loger.hpp:183-229`), although README.md:256
  says that it does not, is in the models as a step of the thread; no property is about time.
* The metrics of the proxy, and the worker's counters of bytes, calls and processed requests: each is
  one increment beside a step that is modelled, and the increment is in `HandlerRegistry`.
* Authorization and websocket handlers and password files of CivetWeb: the program has none.
* prometheus-cpp's registry, families and histogram: `main.cpp` registers its metrics before any
  thread exists, never removes one and has no histogram. The serializer is text.
* CivetWeb's HTTP parser, files, TLS, Lua, WebDAV and forms; jsoncpp and nlohmann/json: text and I/O
  of third parties, most of it compiled out or not reached. What the handlers see of it, short reads
  and dropped writes, is in `Proxy`.
* The sqlite amalgamation: 236,000 of the repository's 305,000 lines, and not built.

Of the lines counted as implementation more than nine tenths belong to the last two items. What is
left - `main.cpp`, the thread and handler code of CivetWeb, prometheus-cpp's metrics - is what
the modules map.

## 6. State of the plan

Done, in this order: `RedisClient`, `Valkey`, `Proxy` with its proofs, `Worker`, `HttpRedisProxy` over
`RequestDelivery`, `SharedContext`, `WorkerMetrics`; then `CivetPool` over `ConnectionService`,
`HandlerRegistry`, `ValkeyRestart`, `CKMSQuantiles` and `Summary`; and the proofs of the system, of the
shared context, of the pool with its refinement, of the registry and of the summary.

Left, in order of what it could reveal:

1. The composition of `CivetPool` and `Proxy`: a stop of the proxy is then the stop of its pool, and
   `StopHangs` happens only when the pool hangs.
2. `Registry::Collect` and `Histogram::Observe` for a program that registers metrics while it is
   scraped, should main.cpp come to do so; the remaining counters superposed on `Proxy` and `Worker`.
3. `base64_encode` against a reference definition.
