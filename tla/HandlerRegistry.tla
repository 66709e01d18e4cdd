--------------------------- MODULE HandlerRegistry ---------------------------
(***************************************************************************)
(* The URI handlers of a CivetWeb server (civetweb.c) and of the C++       *)
(* wrapper CivetServer around it, while the server starts, serves and is   *)
(* torn down.  An owner thread adds handlers to a running server, may      *)
(* remove one and destroys the handler objects; service threads look a     *)
(* handler up for each request, hold a reference to it while it runs, and  *)
(* keep an entry in CivetServer::connections.  The list, the reference     *)
(* counts and the connections are guarded by the context's lock, so each   *)
(* access is one step.                                                     *)
(*                                                                         *)
(* The handler of /metrics is prometheus-cpp's MetricsHandler: it collects *)
(* its registry and counts its own scrapes with Counter::Increment, a loop *)
(* around a compare-and-swap.                                              *)
(*                                                                         *)
(* No program here adds a URI twice, installs an authorization handler,    *)
(* configures a password file or speaks websocket: those branches are left *)
(* out, and with them the release of the reference of a request that       *)
(* check_authorization refuses.  A handler is looked up only after         *)
(* CivetServer has saved its context, for addHandler needs it.             *)
(***************************************************************************)
EXTENDS Naturals, Sequences, FiniteSets, SequencesExt

CONSTANTS
  Threads,     \* service threads
  NoURI,       \* the URI of a thread without a request, or without a handler
  Programs,    \* what the owner of a server does with it: sequences of Ops
  Requests,    \* the URIs clients ask for: a subset of KnownRequests
  MaxScrapes   \* bound: how many GETs of /metrics are served

(* The handlers of main.cpp and of the exposer, named by their URIs. *)
Handlers == {"/health", "/stats", "/", "/metrics"}

(* One URI for each way a request can match a handler. *)
KnownRequests == {"/health", "/healthz", "/stats/x", "/orders", "/metrics"}

Ops == [op : {"add", "remove", "destroy"}, uri : Handlers] \cup {[op |-> "run"], [op |-> "stop"]}

(* The operations that take the handler of URI u out of the list. *)
Ends(o, u) == o.op = "stop" \/ (o.op = "remove" /\ o.uri = u)

(* No URI is added twice, and a handler object that was added is destroyed *)
(* only after it is out of the list again.                                 *)
WellBehaved(p) ==
  \A j, k \in DOMAIN p :
    (p[j].op = "add" /\ p[k].op \in {"add", "destroy"} /\ p[j].uri = p[k].uri) =>
      \/ p[k].op = "add" /\ j = k
      \/ p[k].op = "destroy" /\ \E i \in (j + 1)..(k - 1) : Ends(p[i], p[j].uri)

(* Handlers whose requests the catch-all "/" would take, too.  They are    *)
(* added before it, with nothing else in between, and never removed.       *)
Specific == {"/health", "/stats"}

CatchAllLast(p) ==
  /\ \A k \in DOMAIN p : (p[k].op = "add" /\ p[k].uri = "/") =>
       /\ \A j \in 1..k : p[j].op = "add"
       /\ \A u \in Specific : \E j \in 1..(k - 1) : p[j].uri = u
  /\ \A k \in DOMAIN p : p[k].op = "remove" => p[k].uri \notin Specific

ASSUME RegistryAssumption ==
  /\ IsFiniteSet(Threads)
  /\ Programs \subseteq Seq(Ops)
  /\ \A p \in Programs : WellBehaved(p) /\ CatchAllLast(p)
  /\ Requests \subseteq KnownRequests
  /\ NoURI \notin Handlers \cup KnownRequests
  /\ MaxScrapes \in Nat

Methods == {"GET", "PUT"}

VARIABLES
  program,     \* what the owner still has to do
  handlers,    \* phys_ctx->dd.handlers, in list order
  alive,       \* the handler objects that are not destroyed
  server,      \* "open", "stopping" (mg_stop waits), "hung" (for ever), "closed"
  step,        \* what each service thread is about to do
  uri,         \* the URI of its request
  method,      \* the method of its request
  held,        \* the entry it holds a reference to: handler_info, from the lookup
               \* that counted the reference to release_handler_ref
  connections, \* CivetServer::connections: the threads whose connection is in it
  scrapes,     \* exposer_scrapes_total: the atomic value of the counter
  current,     \* the value each thread has loaded from it
  arrived,     \* history: how many GETs of /metrics there were
  counted      \* history: how many Increments of the counter have returned

registryVars == <<program, handlers, alive, server, step, uri, method, held, connections,
                  scrapes, current, arrived, counted>>

ThreadSteps == {"idle", "lookup", "enter", "handle", "load", "cas", "release", "file", "close"}

Init ==
  /\ program \in Programs
  /\ handlers = << >>
  /\ alive = Handlers
  /\ server = "open"
  /\ step = [t \in Threads |-> "idle"]
  /\ uri = [t \in Threads |-> NoURI]
  /\ method = [t \in Threads |-> "GET"]
  /\ held = [t \in Threads |-> NoURI]
  /\ connections = {}
  /\ scrapes = 0
  /\ current = [t \in Threads |-> 0]
  /\ arrived = 0 /\ counted = 0

Goto(t, s) == step' = [step EXCEPT ![t] = s]
-----------------------------------------------------------------------------
(* How get_request_handler's three passes match a URI: exactly, as a       *)
(* directory, as a prefix pattern.                                         *)
Matches(pass, pattern, u) ==
  CASE pass = 1 -> pattern = u
    [] pass = 2 -> <<pattern, u>> = <<"/stats", "/stats/x">>
    [] pass = 3 -> pattern = "/" \/ <<pattern, u>> = <<"/health", "/healthz">>

(* The places of the list that match in a pass. *)
Candidates(pass, u) == {i \in DOMAIN handlers : Matches(pass, handlers[i].uri, u)}

(* Place i is the first match of the first pass that has one. *)
IsFound(i, u) ==
  \E pass \in 1..3 :
    /\ i \in Candidates(pass, u)
    /\ \A j \in Candidates(pass, u) : i <= j
    /\ \A earlier \in 1..(pass - 1) : Candidates(earlier, u) = {}

(* A client's request reaches a service thread. *)
Arrive(t, u, m) ==
  /\ server = "open" /\ step[t] = "idle"
  /\ (u = "/metrics" /\ m = "GET") => arrived < MaxScrapes
  /\ arrived' = IF u = "/metrics" /\ m = "GET" THEN arrived + 1 ELSE arrived
  /\ uri' = [uri EXCEPT ![t] = u]
  /\ method' = [method EXCEPT ![t] = m]
  /\ Goto(t, "lookup")
  /\ UNCHANGED <<program, handlers, alive, server, held, connections, scrapes, current, counted>>

(* A handler that is being removed is as good as none. *)
NothingFound(t) ==
  /\ \A i \in DOMAIN handlers : IsFound(i, uri[t]) => handlers[i].removing
  /\ Goto(t, "file")
  /\ UNCHANGED <<held, handlers>>

(* Wrong variant: no reference is taken. *)
LookupUncounted(t) ==
  /\ step[t] = "lookup"
  /\ \/ NothingFound(t)
     \/ \E i \in DOMAIN handlers :
          /\ IsFound(i, uri[t]) /\ ~handlers[i].removing
          /\ held' = [held EXCEPT ![t] = handlers[i].uri]
          /\ Goto(t, "enter")
          /\ UNCHANGED handlers
  /\ UNCHANGED <<program, alive, server, uri, method, connections, scrapes, current,
                 arrived, counted>>

(* Wrong variant: the mark of an entry that is being removed is not read. *)
LookupMarked(t) ==
  /\ step[t] = "lookup"
  /\ \/ NothingFound(t)
     \/ \E i \in DOMAIN handlers :
          /\ IsFound(i, uri[t])
          /\ handlers' = [handlers EXCEPT ![i].refcount = @ + 1]
          /\ held' = [held EXCEPT ![t] = handlers[i].uri]
          /\ Goto(t, "enter")
  /\ UNCHANGED <<program, alive, server, uri, method, connections, scrapes, current,
                 arrived, counted>>

(* get_request_handler: take a reference to the handler that is found. *)
Lookup(t) ==
  /\ step[t] = "lookup"
  /\ \/ NothingFound(t)
     \/ \E i \in DOMAIN handlers :
          /\ IsFound(i, uri[t]) /\ ~handlers[i].removing
          /\ handlers' = [handlers EXCEPT ![i].refcount = @ + 1]
          /\ held' = [held EXCEPT ![t] = handlers[i].uri]
          /\ Goto(t, "enter")
  /\ UNCHANGED <<program, alive, server, uri, method, connections, scrapes, current,
                 arrived, counted>>

(* CivetServer::requestHandler notes the connection and calls the handler. *)
Enter(t) ==
  /\ step[t] = "enter"
  /\ connections' = connections \cup {t}
  /\ Goto(t, "handle")
  /\ UNCHANGED <<program, handlers, alive, server, uri, method, held, scrapes, current,
                 arrived, counted>>

(* The handler's method.  None of the four implements PUT.  MetricsHandler *)
(* has collected and answered when it comes to count the scrape.           *)
Handle(t) ==
  /\ step[t] = "handle"
  /\ Goto(t, IF held[t] = "/metrics" /\ method[t] = "GET" THEN "load" ELSE "release")
  /\ UNCHANGED <<program, handlers, alive, server, uri, method, held, connections, scrapes,
                 current, arrived, counted>>

(* Gauge::Change: load the value ... *)
LoadValue(t) ==
  /\ step[t] = "load"
  /\ current' = [current EXCEPT ![t] = scrapes]
  /\ Goto(t, "cas")
  /\ UNCHANGED <<program, handlers, alive, server, uri, method, held, connections, scrapes,
                 arrived, counted>>

(* Wrong variant: a store in place of the compare-and-swap. *)
StoreValue(t) ==
  /\ step[t] = "cas"
  /\ scrapes' = current[t] + 1
  /\ counted' = counted + 1
  /\ Goto(t, "release")
  /\ UNCHANGED <<program, handlers, alive, server, uri, method, held, connections, arrived,
                 current>>

(* ... and swap it; a failure, also a spurious one, loads it again. *)
SwapValue(t) ==
  /\ step[t] = "cas"
  /\ \/ /\ scrapes = current[t]
        /\ scrapes' = current[t] + 1
        /\ counted' = counted + 1
        /\ Goto(t, "release")
        /\ UNCHANGED current
     \/ /\ current' = [current EXCEPT ![t] = scrapes]
        /\ UNCHANGED <<step, scrapes, counted>>
  /\ UNCHANGED <<program, handlers, alive, server, uri, method, held, connections, arrived>>

(* release_handler_ref: the thread's reference is gone.  handler_info keeps*)
(* its value; handle_request does not use it again but in an assertion of  *)
(* debug builds.  When the handler did not serve the request,              *)
(* handle_request goes on to look for a file.                              *)
Release(t) ==
  /\ step[t] = "release"
  /\ handlers' = [i \in DOMAIN handlers |->
                    IF handlers[i].uri = held[t]
                    THEN [handlers[i] EXCEPT !.refcount = @ - 1]
                    ELSE handlers[i]]
  /\ held' = [held EXCEPT ![t] = NoURI]
  /\ Goto(t, IF method[t] = "GET" THEN "close" ELSE "file")
  /\ UNCHANGED <<program, alive, server, uri, method, connections, scrapes, current,
                 arrived, counted>>

(* No document root: the client gets an error. *)
NoFile(t) ==
  /\ step[t] = "file"
  /\ Goto(t, "close")
  /\ UNCHANGED <<program, handlers, alive, server, uri, method, held, connections, scrapes,
                 current, arrived, counted>>

(* Wrong variant: only connections that were served are forgotten. *)
CloseServed(t) ==
  /\ step[t] = "close"
  /\ connections' = IF method[t] = "GET" THEN connections \ {t} ELSE connections
  /\ uri' = [uri EXCEPT ![t] = NoURI]
  /\ method' = [method EXCEPT ![t] = "GET"]
  /\ Goto(t, "idle")
  /\ UNCHANGED <<program, handlers, alive, server, held, scrapes, current, arrived, counted>>

(* close_connection calls CivetServer::closeHandler. *)
Close(t) ==
  /\ step[t] = "close"
  /\ connections' = connections \ {t}
  /\ uri' = [uri EXCEPT ![t] = NoURI]
  /\ method' = [method EXCEPT ![t] = "GET"]
  /\ current' = [current EXCEPT ![t] = 0]
  /\ Goto(t, "idle")
  /\ UNCHANGED <<program, handlers, alive, server, held, scrapes, arrived, counted>>
-----------------------------------------------------------------------------
(* The owner is at an operation, and at which URI. *)
At(op) == program # << >> /\ Head(program).op = op
This == Head(program).uri
Done == program' = Tail(program)

threadVars == <<step, uri, method, held, connections, scrapes, current, arrived, counted>>

(* Wrong variant: the new entry becomes the first of the list. *)
AddHandlerFirst ==
  /\ At("add")
  /\ handlers' = <<[uri |-> This, refcount |-> 0, removing |-> FALSE]>> \o handlers
  /\ Done
  /\ UNCHANGED <<alive, server, threadVars>>

(* mg_set_handler_type: a new entry at the end of the list. *)
AddHandler ==
  /\ At("add")
  /\ handlers' = Append(handlers, [uri |-> This, refcount |-> 0, removing |-> FALSE])
  /\ Done
  /\ UNCHANGED <<alive, server, threadVars>>

EntriesInUse == {i \in DOMAIN handlers : handlers[i].uri = This /\ handlers[i].refcount > 0}

(* Wrong variant: the entry is not marked while its removal waits. *)
MarkNothing ==
  /\ At("remove")
  /\ EntriesInUse # {}
  /\ UNCHANGED registryVars

(* ... to remove one that is in use: mark it, sleep and look again. *)
MarkRemoving ==
  /\ At("remove")
  /\ EntriesInUse # {}
  /\ handlers' = [i \in DOMAIN handlers |->
                    IF i \in EntriesInUse THEN [handlers[i] EXCEPT !.removing = TRUE] ELSE handlers[i]]
  /\ UNCHANGED <<program, alive, server, threadVars>>

(* One entry with the URI leaves the list, if there is one. *)
Unlink ==
  \/ \E i \in DOMAIN handlers : handlers[i].uri = This /\ handlers' = RemoveAt(handlers, i)
  \/ (\A i \in DOMAIN handlers : handlers[i].uri # This) /\ UNCHANGED handlers

(* Wrong variant: the entry is removed although it is in use. *)
RemoveAnyway ==
  /\ At("remove")
  /\ Unlink
  /\ Done
  /\ UNCHANGED <<alive, server, threadVars>>

(* ... to remove one that is not: unlink and free it. *)
RemoveHandler ==
  /\ At("remove")
  /\ EntriesInUse = {}
  /\ Unlink
  /\ Done
  /\ UNCHANGED <<alive, server, threadVars>>

(* The handler object goes out of scope: ~Endpoint, or the end of run_proxy. *)
DestroyHandler ==
  /\ At("destroy")
  /\ alive' = alive \ {This}
  /\ Done
  /\ UNCHANGED <<handlers, server, threadVars>>

(* The owner has set up its server and waits for the end of the process. *)
EndRun ==
  /\ At("run")
  /\ Done
  /\ UNCHANGED <<handlers, alive, server, threadVars>>

(* mg_stop: no more requests; the threads are joined, the list is freed. *)
StopServer ==
  /\ At("stop") /\ server = "open"
  /\ server' = "stopping"
  /\ UNCHANGED <<program, handlers, alive, threadVars>>

CloseServer ==
  /\ At("stop") /\ server = "stopping"
  /\ \A t \in Threads : step[t] = "idle"
  /\ server' = "closed"
  /\ handlers' = << >>
  /\ Done
  /\ UNCHANGED <<alive, threadVars>>

(* ... or mg_stop waits for ever for a master that nobody wakes (CivetPool  *)
(* shows how); the threads have gone, the list and the handlers stay.      *)
CloseHangs ==
  /\ At("stop") /\ server = "stopping"
  /\ \A t \in Threads : step[t] = "idle"
  /\ server' = "hung"
  /\ UNCHANGED <<program, handlers, alive, threadVars>>

OwnerStep ==
  \/ AddHandler \/ MarkRemoving \/ RemoveHandler \/ DestroyHandler
  \/ StopServer \/ CloseServer

ThreadStep(t) ==
  \/ Lookup(t) \/ Enter(t) \/ Handle(t) \/ LoadValue(t) \/ SwapValue(t)
  \/ Release(t) \/ NoFile(t) \/ Close(t)

Next ==
  \/ OwnerStep
  \/ EndRun
  \/ CloseHangs
  \/ \E t \in Threads : \/ \E u \in Requests, m \in Methods : Arrive(t, u, m)
                        \/ ThreadStep(t)

Spec == Init /\ [][Next]_registryVars

(* The owner goes on but for the end of its run; a thread that has a       *)
(* request serves it.  compare_exchange_weak does not fail for ever.       *)
Fairness ==
  /\ WF_registryVars(OwnerStep)
  /\ \A t \in Threads : WF_registryVars(ThreadStep(t)) /\ SF_registryVars(SwapValue(t) /\ step'[t] # step[t])

FairSpec == Spec /\ Fairness
-----------------------------------------------------------------------------
Holders(u) == {t \in Threads : held[t] = u}

TypeOK ==
  /\ program \in Seq(Ops)
  /\ handlers \in Seq([uri : Handlers, refcount : Nat, removing : BOOLEAN])
  /\ alive \subseteq Handlers
  /\ server \in {"open", "stopping", "hung", "closed"}
  /\ step \in [Threads -> ThreadSteps]
  /\ uri \in [Threads -> Requests \cup {NoURI}]
  /\ method \in [Threads -> Methods]
  /\ held \in [Threads -> Handlers \cup {NoURI}]
  /\ connections \subseteq Threads
  /\ scrapes \in Nat /\ arrived \in Nat /\ counted \in Nat
  /\ current \in [Threads -> Nat]

(* No handler object is destroyed while a service thread is about to call  *)
(* it or is in it: removal waits for the references, mg_stop for the       *)
(* threads (civetweb.c:14734-14743, endpoint.cc:22-27, main.cpp:451-470).  *)
HandlersOutliveCalls ==
  \A t \in Threads : held[t] # NoURI => held[t] \in alive

(* The reference count of an entry is the number of threads that hold it,  *)
(* and an entry somebody holds is in the list, so that giving the          *)
(* reference back finds it (civetweb.c:14963-14965, 15029-15038).          *)
RefcountExact ==
  /\ \A i \in DOMAIN handlers : handlers[i].refcount = Cardinality(Holders(handlers[i].uri))
  /\ \A t \in Threads : held[t] # NoURI => \E i \in DOMAIN handlers : handlers[i].uri = held[t]

(* A thread holds a reference from the lookup to the release.  There is    *)
(* one entry for a URI.  What the owner still has to do fits the list: it  *)
(* adds no URI that is there, and destroys no handler that is in the list  *)
(* or still to be added before it has taken it out.                        *)
HolderInv ==
  \A t \in Threads :
    held[t] # NoURI <=> step[t] \in {"enter", "handle", "load", "cas", "release"}

UniqueInv ==
  \A i, j \in DOMAIN handlers : handlers[i].uri = handlers[j].uri => i = j

Fits(u, p) ==
  \A k \in DOMAIN p :
    /\ p[k].op = "add" => p[k].uri # u
    /\ (p[k].op = "destroy" /\ p[k].uri = u) => \E j \in 1..(k - 1) : Ends(p[j], u)

ProgramInv ==
  /\ WellBehaved(program)
  /\ \A i \in DOMAIN handlers : handlers[i].uri \in alive /\ Fits(handlers[i].uri, program)
  /\ \A k \in DOMAIN program : program[k].op = "add" => program[k].uri \in alive

(* The catch-all comes after the handlers it would stand in for, in the    *)
(* list and in what the owner still has to do.                             *)
OrderInv ==
  /\ \A i \in DOMAIN handlers : handlers[i].uri = "/" =>
       \A u \in Specific : \E j \in DOMAIN handlers : j < i /\ handlers[j].uri = u
  /\ \A k \in DOMAIN program : (program[k].op = "add" /\ program[k].uri = "/") =>
       /\ \A j \in 1..k : program[j].op = "add"
       /\ \A u \in Specific : \/ \E j \in DOMAIN handlers : handlers[j].uri = u
                             \/ \E j \in 1..(k - 1) : program[j].uri = u
  /\ \A k \in DOMAIN program : program[k].op = "remove" => program[k].uri \notin Specific

(* The handlers a URI may be meant for: on the proxy's port and on the     *)
(* exposer's.                                                              *)
Meant(u) ==
  CASE u \in {"/health", "/healthz"} -> {"/health"}
    [] u = "/stats/x" -> {"/stats"}
    [] u = "/orders" -> {"/"}
    [] u = "/metrics" -> {"/", "/metrics"}

(* While the owner adds its handlers one by one to a server that already   *)
(* serves, a request meets the handler it is meant for or none: never is a *)
(* health check queued as a request (main.cpp:452-456, civetweb.c:14927).  *)
NeverElsewhere ==
  \A t \in Threads : held[t] # NoURI => held[t] \in Meant(uri[t])

(* CivetServer knows exactly the connections that are being served: none   *)
(* is forgotten, and none is left when its thread has gone                 *)
(* (CivetServer.cpp:225-227, 479-495).                                     *)
ConnectionsTracked ==
  /\ \A t \in connections : step[t] # "idle"
  /\ \A t \in Threads : step[t] \in {"handle", "load", "cas", "release"} => t \in connections

(* No scrape that was counted is lost, however the threads interleave in   *)
(* the compare-and-swap loop (gauge.cc:19-30).                             *)
NoLostScrape == scrapes = counted

(* The inductive invariant of the registry. *)
RegistryInv ==
  /\ TypeOK /\ HolderInv /\ UniqueInv /\ ProgramInv
  /\ RefcountExact /\ ConnectionsTracked /\ NoLostScrape

(* An entry that is marked stays so and its count only falls, as long as   *)
(* it is in the list: however many requests arrive, removal is not starved *)
(* (civetweb.c:14737, 14957-14965, 15029-15038).                           *)
MarkedDrains ==
  [][\A i \in DOMAIN handlers : handlers[i].removing =>
       \A j \in DOMAIN handlers' : handlers'[j].uri = handlers[i].uri =>
         handlers'[j].removing /\ handlers'[j].refcount <= handlers[i].refcount]_registryVars

(* The server closes and its owner comes to the end of its program, unless *)
(* mg_stop hangs, with no request in service.  On the way removeHandler    *)
(* returns although clients keep asking for the URI: nobody takes a        *)
(* reference to a marked entry (civetweb.c:14737, 14957, 20979-20991).     *)
TeardownCompletes ==
  (program # << >> /\ ~At("add") /\ ~At("run"))
    ~> (program = << >> \/ (server = "hung" /\ \A t \in Threads : step[t] = "idle"))
=============================================================================
