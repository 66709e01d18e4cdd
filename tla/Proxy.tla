------------------------------- MODULE Proxy -------------------------------
(***************************************************************************)
(* The process started with MODE=proxy: run_proxy() and its RequestHandler *)
(* (main.cpp:248-471).  A pool of CivetWeb threads runs handle_request();  *)
(* the threads share one redisContext, one mutex and one id counter with   *)
(* each other, and the object dies with the process.                       *)
(*                                                                         *)
(* A client is named by its request: each request arrives at most once.    *)
(* The 100 ms sleep before the reply, timestamps and the JSON texts are    *)
(* left out.  /health and /stats use the same redisContext under mutexes   *)
(* of their own: this module is the proxy while no such call is in flight. *)
(***************************************************************************)
EXTENDS Valkey

CONSTANTS
  Threads,     \* CivetWeb's service threads (NUM_THREADS)
  Posts,       \* POST requests with a body
  EmptyPosts,  \* POST requests without a body
  Gets,        \* GET requests
  Chunked,     \* the posts sent with Transfer-Encoding: chunked
  WithNul,     \* the posts whose body contains a NUL byte
  NoThread,    \* holder of a free mutex
  NoRequest,   \* the request of an idle thread
  MaxLives,    \* bound: how often the container is started
  Ends,        \* how the process may be ended: "signal", "crash" (kill -9, out of memory)
  ShortReads,  \* may mg_read() return less than content_length (timeout)?
  Tracing      \* is a tracer compiled in and configured?

Requests == Posts \cup EmptyPosts \cup Gets

ASSUME ProxyAssumption ==
  /\ Posts \cap EmptyPosts = {} /\ Posts \cap Gets = {} /\ EmptyPosts \cap Gets = {}
  /\ Chunked \subseteq Posts /\ WithNul \subseteq Posts
  /\ NoThread \notin Threads
  /\ NoRequest \notin Requests
  /\ MaxLives \in Nat
  /\ Ends \subseteq {"signal", "crash"}
  /\ ShortReads \in BOOLEAN /\ Tracing \in BOOLEAN

VARIABLES
  life,      \* "down", "serving", "stopping" (mg_stop runs), "stuck" (it never
             \* returns), "freed" (after redisFree)
  lives,     \* how often the process was started
  shutdown,  \* shutdown_flag
  redisErr,  \* redisContext.err
  counter,   \* request_id_counter
  mutex,     \* RequestHandler::redis_mutex: the holding thread, or NoThread
  pc,        \* what each thread of the pool is about to do
  cur,       \* the request each thread serves
  arrived,   \* history: requests whose connection a thread has taken
  ticket,    \* history: the id each request was given, and in which life
  body,      \* the body handlePost read: "none", "full" or "short"
  answered   \* history: requests whose client was sent the 200

proxyVars == <<life, lives, shutdown, redisErr, counter, mutex, pc, cur,
               arrived, ticket, body, answered>>

Steps == {"idle", "read", "id", "check", "lock", "rpush", "incr", "reply", "trace"}
NoTicket == [life |-> 0, id |-> 0]
Bodies == {"none", "full", "short"}

Method(r) == IF r \in Gets THEN "GET" ELSE "POST"

(* The body the client sent. *)
SentBody(r) == IF r \in Posts THEN "full" ELSE "none"

(* The posts whose body handlePost does not keep whole, however much of it *)
(* mg_read returns.                                                        *)
Curtailed == Chunked \cup WithNul

(* request_data, as pushed on http:requests *)
Item(r) == [req |-> r, id |-> ticket[r].id, method |-> Method(r), body |-> body[r]]
Items == [req : Requests, id : Nat, method : {"GET", "POST"}, body : Bodies]
-----------------------------------------------------------------------------
(* The state of a process that does not run. *)
ProcessGone ==
  /\ life' = "down"
  /\ shutdown' = FALSE
  /\ redisErr' = FALSE
  /\ counter' = 0
  /\ mutex' = NoThread
  /\ pc' = [t \in Threads |-> "idle"]
  /\ cur' = [t \in Threads |-> NoRequest]
  /\ UNCHANGED <<lives, arrived, ticket, body, answered>>

ProxyInit ==
  /\ ValkeyInit
  /\ life = "down"
  /\ lives = 0
  /\ shutdown = FALSE
  /\ redisErr = FALSE
  /\ counter = 0
  /\ mutex = NoThread
  /\ pc = [t \in Threads |-> "idle"]
  /\ cur = [t \in Threads |-> NoRequest]
  /\ arrived = {}
  /\ ticket = [r \in Requests |-> NoTicket]
  /\ body = [r \in Requests |-> "none"]
  /\ answered = {}

(* run_proxy() up to addHandler: connect, load the counter with GET, start *)
(* the server.  When the connection fails run_proxy returns and the        *)
(* process is down as before.  When the CivetServer constructor throws the *)
(* catch block falls through to redisFree.                                 *)
Start(o) ==
  /\ life = "down" /\ lives < MaxLives
  /\ o \in Outcomes(FALSE)
  /\ lives' = lives + 1
  /\ counter' = IF o = "ok" THEN savedCounter ELSE 0
  /\ redisErr' = Breaks(o)
  /\ life' \in {"serving", "freed"}
  /\ UNCHANGED <<shutdown, mutex, pc, cur, arrived, ticket, body, answered, valkeyVars>>

(* signal_handler: SIGTERM or SIGINT.  A second signal changes nothing. *)
Signal ==
  /\ "signal" \in Ends
  /\ life = "serving" /\ ~shutdown
  /\ shutdown' = TRUE
  /\ UNCHANGED <<life, lives, redisErr, counter, mutex, pc, cur, arrived, ticket, body,
                 answered, valkeyVars>>

(* The main thread leaves its sleep loop and ~CivetServer begins mg_stop. *)
StopServer ==
  /\ life = "serving" /\ shutdown
  /\ life' = "stopping"
  /\ UNCHANGED <<lives, shutdown, redisErr, counter, mutex, pc, cur, arrived, ticket, body,
                 answered, valkeyVars>>

(* mg_stop has joined the service threads; run_proxy calls redisFree. *)
FreeContext ==
  /\ life = "stopping"
  /\ \A t \in Threads : pc[t] = "idle"
  /\ life' = "freed"
  /\ UNCHANGED <<lives, shutdown, redisErr, counter, mutex, pc, cur, arrived, ticket, body,
                 answered, valkeyVars>>

(* ... or mg_stop waits for ever: the master thread sleeps on a full       *)
(* socket queue, and the last service thread has gone without waking it    *)
(* (CivetPool shows how).  Every handler has returned; only the main       *)
(* thread's wait for the master is left of the process.                    *)
StopHangs ==
  /\ life = "stopping"
  /\ \A t \in Threads : pc[t] = "idle"
  /\ life' = "stuck"
  /\ UNCHANGED <<lives, shutdown, redisErr, counter, mutex, pc, cur, arrived, ticket, body,
                 answered, valkeyVars>>

(* ~RequestHandler runs after redisFree: save_counter sends SET on a freed *)
(* context whose socket is closed.  Whether that call returns NULL or      *)
(* kills the process, the server never sees the SET and the process ends.  *)
DestroyHandler ==
  /\ life = "freed"
  /\ ProcessGone
  /\ UNCHANGED valkeyVars

Crash ==
  /\ "crash" \in Ends
  /\ life # "down"
  /\ ProcessGone
  /\ UNCHANGED valkeyVars
-----------------------------------------------------------------------------
(* Thread t goes on to step s; nothing else of the process changes but what *)
(* the caller names.                                                        *)
Goto(t, s) == pc' = [pc EXCEPT ![t] = s]

(* worker_thread_run gets a connection from consume_socket. *)
Accept(t, r) ==
  /\ life = "serving"
  /\ pc[t] = "idle"
  /\ r \notin arrived
  /\ arrived' = arrived \cup {r}
  /\ cur' = [cur EXCEPT ![t] = r]
  /\ Goto(t, "read")
  /\ UNCHANGED <<life, lives, shutdown, redisErr, counter, mutex, ticket, body, answered,
                 valkeyVars>>

(* What handlePost can leave in the body string.  It reads only when there *)
(* is a positive content_length, which a chunked request has not, and the  *)
(* string it makes of the buffer ends at the first NUL.  Once stop_flag is *)
(* set, or when the peer is slow, mg_read returns fewer bytes or none, and *)
(* handlePost takes what it got for the whole body.                        *)
BodiesRead(r) ==
  {b \in Bodies :
     /\ b # "none" => r \in Posts \ Chunked
     /\ b = "full" => r \notin WithNul
     /\ b # SentBody(r) => r \in Curtailed \/ ShortReads \/ life = "stopping"}

(* The request head is read and handleGet or handlePost called. *)
ReadRequest(t) ==
  /\ pc[t] = "read"
  /\ \E b \in BodiesRead(cur[t]) : body' = [body EXCEPT ![cur[t]] = b]
  /\ Goto(t, "id")
  /\ UNCHANGED <<life, lives, shutdown, redisErr, counter, mutex, cur, arrived, ticket,
                 answered, valkeyVars>>

(* The request head is not complete when stop_flag is set (or the client   *)
(* goes away before): the connection is closed, no handler runs.           *)
DropConnection(t) ==
  /\ pc[t] = "read"
  /\ life = "stopping" \/ ShortReads
  /\ cur' = [cur EXCEPT ![t] = NoRequest]
  /\ Goto(t, "idle")
  /\ UNCHANGED <<life, lives, shutdown, redisErr, counter, mutex, arrived, ticket, body,
                 answered, valkeyVars>>

(* Wrong variant: the incremented value is returned and not stored. *)
GenerateIdUnstored(t) ==
  /\ pc[t] = "id"
  /\ mutex = NoThread
  /\ ticket' = [ticket EXCEPT ![cur[t]] = [life |-> lives, id |-> counter + 1]]
  /\ Goto(t, "check")
  /\ UNCHANGED <<life, lives, shutdown, redisErr, counter, mutex, cur, arrived, body, answered,
                 valkeyVars>>

(* generate_sequential_id: lock, increment, unlock.  Nothing in between    *)
(* can be seen from outside, so it is one step that waits for the mutex.   *)
GenerateId(t) ==
  /\ pc[t] = "id"
  /\ mutex = NoThread
  /\ counter' = counter + 1
  /\ ticket' = [ticket EXCEPT ![cur[t]] = [life |-> lives, id |-> counter + 1]]
  /\ Goto(t, "check")
  /\ UNCHANGED <<life, lives, shutdown, redisErr, mutex, cur, arrived, body, answered,
                 valkeyVars>>

(* Wrong variant: the negation is missing. *)
CheckErrInverted(t) ==
  /\ pc[t] = "check"
  /\ Goto(t, IF redisErr THEN "lock" ELSE "reply")
  /\ UNCHANGED <<life, lives, shutdown, redisErr, counter, mutex, cur, arrived, ticket, body,
                 answered, valkeyVars>>

(* if (redis && !redis->err), read without the mutex. *)
CheckErr(t) ==
  /\ pc[t] = "check"
  /\ Goto(t, IF redisErr THEN "reply" ELSE "lock")
  /\ UNCHANGED <<life, lives, shutdown, redisErr, counter, mutex, cur, arrived, ticket, body,
                 answered, valkeyVars>>

Lock(t) ==
  /\ pc[t] = "lock"
  /\ mutex = NoThread
  /\ mutex' = t
  /\ Goto(t, "rpush")
  /\ UNCHANGED <<life, lives, shutdown, redisErr, counter, cur, arrived, ticket, body,
                 answered, valkeyVars>>

(* Wrong variant: a push that failed gives its id back. *)
RpushRollback(t, o) ==
  /\ pc[t] = "rpush"
  /\ o \in Outcomes(redisErr)
  /\ RPush(o, Item(cur[t]))
  /\ redisErr' = (redisErr \/ Breaks(o))
  /\ counter' = IF o = "ok" THEN counter ELSE counter - 1
  /\ Goto(t, "incr")
  /\ UNCHANGED <<life, lives, shutdown, mutex, cur, arrived, ticket, body, answered,
                 writes, reads, savedCounter, responses>>

(* RPUSH http:requests; a failure does not skip the INCR that follows. *)
Rpush(t, o) ==
  /\ pc[t] = "rpush"
  /\ o \in Outcomes(redisErr)
  /\ RPush(o, Item(cur[t]))
  /\ redisErr' = (redisErr \/ Breaks(o))
  /\ Goto(t, "incr")
  /\ UNCHANGED <<life, lives, shutdown, counter, mutex, cur, arrived, ticket, body, answered,
                 writes, reads, savedCounter, responses>>

(* Wrong variant: the INCR is repeated, under the mutex, until it has a    *)
(* reply.                                                                  *)
IncrWritesRetried(t, o) ==
  /\ pc[t] = "incr"
  /\ o \in Outcomes(redisErr)
  /\ writes' = IncrKey(o, writes)
  /\ redisErr' = (redisErr \/ Breaks(o))
  /\ mutex' = IF Breaks(o) THEN mutex ELSE NoThread
  /\ Goto(t, IF Breaks(o) THEN "incr" ELSE "reply")
  /\ UNCHANGED <<life, lives, shutdown, counter, cur, arrived, ticket, body, answered,
                 requests, reads, savedCounter, responses, pushLog>>

(* INCR stats:redis_writes, then the lock_guard goes out of scope. *)
IncrWrites(t, o) ==
  /\ pc[t] = "incr"
  /\ o \in Outcomes(redisErr)
  /\ writes' = IncrKey(o, writes)
  /\ redisErr' = (redisErr \/ Breaks(o))
  /\ mutex' = NoThread
  /\ Goto(t, "reply")
  /\ UNCHANGED <<life, lives, shutdown, counter, cur, arrived, ticket, body, answered,
                 requests, reads, savedCounter, responses, pushLog>>

(* Wrong variant: the 200 goes out also when the server is stopping. *)
ReplyAlways(t) ==
  /\ pc[t] = "reply"
  /\ answered' = answered \cup {cur[t]}
  /\ Goto(t, IF Tracing THEN "trace" ELSE "idle")
  /\ cur' = IF Tracing THEN cur ELSE [cur EXCEPT ![t] = NoRequest]
  /\ UNCHANGED <<life, lives, shutdown, redisErr, counter, mutex, arrived, ticket, body,
                 valkeyVars>>

(* Wrong variant: the handler leaves the status CivetServer::requestHandler *)
(* looks at unset, and is called a second time.                             *)
ReplyAgain(t) ==
  /\ pc[t] = "reply"
  /\ answered' = IF life = "serving" THEN answered \cup {cur[t]} ELSE answered
  /\ Goto(t, IF cur[t] \in answered THEN "idle" ELSE "id")
  /\ cur' = IF cur[t] \in answered THEN [cur EXCEPT ![t] = NoRequest] ELSE cur
  /\ UNCHANGED <<life, lives, shutdown, redisErr, counter, mutex, arrived, ticket, body,
                 valkeyVars>>

(* mg_printf of the 200, whatever became of the push.  CivetWeb writes     *)
(* nothing once stop_flag is set.                                          *)
Reply(t) ==
  /\ pc[t] = "reply"
  /\ answered' = IF life = "serving" THEN answered \cup {cur[t]} ELSE answered
  /\ Goto(t, IF Tracing THEN "trace" ELSE "idle")
  /\ cur' = IF Tracing THEN cur ELSE [cur EXCEPT ![t] = NoRequest]
  /\ UNCHANGED <<life, lives, shutdown, redisErr, counter, mutex, arrived, ticket, body,
                 valkeyVars>>

(* tracer->log_request posts the span from the service thread and waits    *)
(* for the collector or for its timeout.                                   *)
Trace(t) ==
  /\ pc[t] = "trace"
  /\ cur' = [cur EXCEPT ![t] = NoRequest]
  /\ Goto(t, "idle")
  /\ UNCHANGED <<life, lives, shutdown, redisErr, counter, mutex, arrived, ticket, body,
                 answered, valkeyVars>>
-----------------------------------------------------------------------------
(* What thread t does once it has a connection. *)
ThreadStep(t) ==
  \/ ReadRequest(t)
  \/ DropConnection(t)
  \/ GenerateId(t)
  \/ CheckErr(t)
  \/ Lock(t)
  \/ \E o \in Outcomes(redisErr) : Rpush(t, o)
  \/ \E o \in Outcomes(redisErr) : IncrWrites(t, o)
  \/ Reply(t)
  \/ Trace(t)

(* What the main thread does between the signal and the end. *)
ShutdownStep == StopServer \/ FreeContext \/ DestroyHandler

ProxyNext ==
  \/ \E o \in Outcomes(FALSE) : Start(o)
  \/ Signal
  \/ ShutdownStep
  \/ StopHangs
  \/ Crash
  \/ \E t \in Threads : \/ \E r \in Requests : Accept(t, r)
                        \/ ThreadStep(t)

ProxySpec == ProxyInit /\ [][ProxyNext]_<<proxyVars, valkeyVars>>

(* The scheduler runs every thread that can run, and every redisCommand    *)
(* returns.  Nobody owes the system a start, a request or a signal.        *)
ProxyFairness ==
  /\ \A t \in Threads : WF_proxyVars(ThreadStep(t))
  /\ WF_proxyVars(ShutdownStep)

ProxyFairSpec == ProxySpec /\ ProxyFairness
-----------------------------------------------------------------------------
(* The types of the proxy's variables and of the keys it writes. *)
ProxyTypeOK ==
  /\ life \in {"down", "serving", "stopping", "stuck", "freed"}
  /\ lives \in Nat
  /\ shutdown \in BOOLEAN
  /\ redisErr \in BOOLEAN
  /\ counter \in Nat
  /\ mutex \in Threads \cup {NoThread}
  /\ pc \in [Threads -> Steps]
  /\ cur \in [Threads -> Requests \cup {NoRequest}]
  /\ arrived \subseteq Requests
  /\ ticket \in [Requests -> [life : Nat, id : Nat]]
  /\ body \in [Requests -> Bodies]
  /\ answered \subseteq Requests
  /\ requests \in Seq(Items)
  /\ pushLog \in Seq(Items)
  /\ writes \in Nat
  /\ savedCounter \in Nat

(* The two commands of a push are never interleaved with those of another  *)
(* thread, and no id is drawn between them: exactly the mutex's holder is  *)
(* between its RPUSH and the end of its INCR (main.cpp:353-370).           *)
MutexHolder == \A t \in Threads : (pc[t] \in {"rpush", "incr"}) <=> (mutex = t)

(* Two requests of one life of the process never get the same id, however  *)
(* the threads interleave (generate_sequential_id, main.cpp:267-271).      *)
UniqueIds ==
  \A r, s \in Requests :
    (r # s /\ ticket[r].life = ticket[s].life /\ ticket[r].life # 0)
      => ticket[r].id # ticket[s].id

(* What lies on the queue is what its request still is: no later step of   *)
(* any thread gives a request that was pushed another id or another body,  *)
(* and no request is pushed twice (handle_request, main.cpp:338-358).      *)
PushedOnce ==
  \A i \in DOMAIN pushLog :
    /\ pushLog[i] = Item(pushLog[i].req)
    /\ \A j \in DOMAIN pushLog : pushLog[i].req = pushLog[j].req => i = j

(* stats:redis_writes follows the queue.  While the server refuses no      *)
(* command it never counts a push that did not happen, and it misses at    *)
(* most one push for each life of the process: the one whose INCR was cut  *)
(* off by a broken connection or a crash (main.cpp:356-370).               *)
WritesTrackPushes ==
  "error" \notin Faults =>
    /\ writes <= Len(pushLog)
    /\ Len(pushLog) <= writes + lives

(* A stop cuts no body behind a client's back: mg_read truncates once      *)
(* stop_flag is set, and then mg_printf sends nothing, so a client that    *)
(* got its 200 had its body read whole, on whichever side of the signal    *)
(* its handler ran.  That holds for the bodies handlePost can read: who    *)
(* sends a chunked one, or one with a NUL byte, gets a 200 for an empty or *)
(* a cut body (main.cpp:312-326, 400).                                     *)
AnsweredWholeBody ==
  ~ShortReads => \A r \in answered \ Curtailed : body[r] = SentBody(r)

(* While the server refuses no command and the connection of this life is  *)
(* whole, every client this life answered with its 200 is on the queue:    *)
(* the push that precedes the 200 is skipped or fails only on a broken     *)
(* connection (main.cpp:352-363, 400).                                     *)
AnsweredIsPushed ==
  ("error" \notin Faults /\ life # "down" /\ ~redisErr) =>
    \A r \in answered :
      ticket[r].life = lives => \E i \in DOMAIN pushLog : pushLog[i].req = r

(* No service thread is in a handler when the context has been freed       *)
(* (run_proxy, main.cpp:451-470: the server's scope ends before redisFree).*)
NoHandlerAfterFree ==
  life \in {"freed", "down"} => \A t \in Threads : pc[t] = "idle"

(* After a signal every handler that is running returns, whatever its      *)
(* thread and the other threads are doing, also when Valkey went away      *)
(* under the mutex of one of them, and the process ends; unless mg_stop    *)
(* waits for ever: then it hangs with no handler in it (main.cpp:352-372,  *)
(* 447-470, civetweb.c:20979-20991).                                       *)
ShutdownCompletes ==
  shutdown ~> (life = "down" \/ (life = "stuck" /\ \A t \in Threads : pc[t] = "idle"))

(* The comment "Load counter from Redis" (main.cpp:288): a life of the     *)
(* process that follows a graceful end and whose GET succeeds continues    *)
(* the ids of the lives before it.                                         *)
IdsContinue ==
  [][(life = "down" /\ life' = "serving") => \A r \in Requests : ticket[r].id <= counter']_<<proxyVars, valkeyVars>>
=============================================================================
