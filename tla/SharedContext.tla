--------------------------- MODULE SharedContext ---------------------------
(***************************************************************************)
(* One redisContext, three handlers.  run_proxy gives HealthHandler,       *)
(* StatsHandler and RequestHandler the same context, and each of them      *)
(* guards it with a mutex of its own (main.cpp:169-251, 427-429).  This    *)
(* module opens up redisCommand, which Proxy takes as one step, at the     *)
(* granularity of its accesses to the two buffers of the context: append   *)
(* the command to the output buffer, look for a reply in the reader, write *)
(* the output buffer, trim it, read the socket into the reader, take the   *)
(* oldest reply.  hiredis is external: these steps are its blocking        *)
(* redisGetReply.  The server answers every command and the connection     *)
(* holds.                                                                  *)
(*                                                                         *)
(* hiredis does not synchronise these accesses.  Those of one handler are  *)
(* ordered by its mutex; when two handlers are in the context at once they *)
(* race, and what a race leaves in the buffers is TornAccess.              *)
(***************************************************************************)
EXTENDS Naturals, Sequences

CONSTANTS
  HealthThreads,   \* service threads that serve /health
  StatsThreads,    \* ... that serve /stats
  RequestThreads,  \* ... that are in handle_request
  NoThread,        \* holder of a free mutex
  Calls,           \* bound: how many HTTP calls each thread serves
  Races            \* do accesses of two handlers at once tear the buffers?

Threads == HealthThreads \cup StatsThreads \cup RequestThreads

ASSUME ContextAssumption ==
  /\ HealthThreads \cap StatsThreads = {} /\ HealthThreads \cap RequestThreads = {}
  /\ StatsThreads \cap RequestThreads = {}
  /\ NoThread \notin Threads
  /\ Calls \in Nat
  /\ Races \in BOOLEAN

Handlers == {"health", "stats", "request"}

Handler(t) ==
  IF t \in HealthThreads THEN "health" ELSE IF t \in StatsThreads THEN "stats" ELSE "request"

(* The commands of one call of a handler's method, in order. *)
Script(h) ==
  CASE h = "health"  -> <<"PING">>
    [] h = "stats"   -> <<"GET writes", "GET reads">>
    [] h = "request" -> <<"RPUSH", "INCR writes">>

VARIABLES
  redis_mutex,  \* the mutex of each handler object
  step,         \* where each thread is
  served,       \* how many calls each thread has served
  command,      \* which command of the script the thread is at
  written,      \* how much of the output buffer the thread has just written
  obuf,         \* redisContext.obuf: commands not yet written
  wire,         \* replies on their way to the proxy
  reader,       \* redisContext.reader: replies read and not taken
  executed,     \* history: the commands the server executed
  got,          \* the replies each thread's commands returned, in this call
  overlapped    \* history: calls of two handlers have been in the context at once

vars ==
  <<redis_mutex, step, served, command, written, obuf, wire, reader, executed, got, overlapped>>

Steps == {"idle", "append", "look", "write", "trim", "read", "take"}

Init ==
  /\ redis_mutex = [h \in Handlers |-> NoThread]
  /\ step = [t \in Threads |-> "idle"]
  /\ served = [t \in Threads |-> 0]
  /\ command = [t \in Threads |-> 1]
  /\ written = [t \in Threads |-> 0]
  /\ obuf = << >> /\ wire = << >> /\ reader = << >>
  /\ executed = << >>
  /\ got = [t \in Threads |-> << >>]
  /\ overlapped = FALSE

(* What thread t sends: its call, the command, and t itself. *)
Sent(t) == [by |-> t, call |-> served[t], cmd |-> Script(Handler(t))[command[t]]]

Goto(t, s) == step' = [step EXCEPT ![t] = s]
(* Only the lock_guards order the calls: one of another handler may be in  *)
(* the middle of its commands when t's call begins.                        *)
NoteOverlap(t) ==
  overlapped' = (overlapped \/ \E u \in Threads : Handler(u) # Handler(t) /\ step[u] # "idle")
-----------------------------------------------------------------------------
(* Wrong variant: no lock_guard. *)
LockFree(t) ==
  /\ step[t] = "idle" /\ served[t] < Calls
  /\ redis_mutex' = [redis_mutex EXCEPT ![Handler(t)] = t]
  /\ served' = [served EXCEPT ![t] = @ + 1]
  /\ command' = [command EXCEPT ![t] = 1]
  /\ got' = [got EXCEPT ![t] = << >>]
  /\ Goto(t, "append")
  /\ NoteOverlap(t)
  /\ UNCHANGED <<written, obuf, wire, reader, executed>>

(* The handler's lock_guard; the context is not broken. *)
Lock(t) ==
  /\ step[t] = "idle" /\ served[t] < Calls
  /\ redis_mutex[Handler(t)] = NoThread
  /\ redis_mutex' = [redis_mutex EXCEPT ![Handler(t)] = t]
  /\ served' = [served EXCEPT ![t] = @ + 1]
  /\ command' = [command EXCEPT ![t] = 1]
  /\ got' = [got EXCEPT ![t] = << >>]
  /\ Goto(t, "append")
  /\ NoteOverlap(t)
  /\ UNCHANGED <<written, obuf, wire, reader, executed>>

AppendCommand(t) ==
  /\ step[t] = "append"
  /\ obuf' = Append(obuf, Sent(t))
  /\ Goto(t, "look")
  /\ UNCHANGED <<redis_mutex, served, command, written, wire, reader, executed, got, overlapped>>

(* redisCommand returns the oldest reply of the reader; the thread goes on *)
(* to its next command or unlocks and replies to its client.               *)
TakeReply(t) ==
  /\ reader # << >>
  /\ got' = [got EXCEPT ![t] = Append(@, Head(reader))]
  /\ reader' = Tail(reader)
  /\ IF command[t] < Len(Script(Handler(t)))
     THEN /\ command' = [command EXCEPT ![t] = @ + 1]
          /\ Goto(t, "append")
          /\ UNCHANGED redis_mutex
     ELSE /\ redis_mutex' = [redis_mutex EXCEPT ![Handler(t)] = NoThread]
          /\ Goto(t, "idle")
          /\ UNCHANGED command
  /\ UNCHANGED <<served, written, obuf, wire, executed, overlapped>>

(* Wrong variant: wait for the reply without writing the command. *)
LookOnly(t) ==
  /\ step[t] = "look"
  /\ TakeReply(t) \/ (reader = << >> /\ UNCHANGED vars)

(* Before it writes, redisGetReply takes a reply that is there already. *)
Look(t) ==
  /\ step[t] = "look"
  /\ \/ TakeReply(t)
     \/ /\ reader = << >>
        /\ Goto(t, "write")
        /\ UNCHANGED <<redis_mutex, served, command, written, obuf, wire, reader, executed, got, overlapped>>

(* The socket takes the whole output buffer and the server executes it. *)
Write(t) ==
  /\ step[t] = "write"
  /\ executed' = executed \o obuf
  /\ wire' = wire \o obuf
  /\ written' = [written EXCEPT ![t] = Len(obuf)]
  /\ Goto(t, "trim")
  /\ UNCHANGED <<redis_mutex, served, command, obuf, reader, got, overlapped>>

(* Wrong variant: what was written stays in the buffer. *)
TrimNothing(t) ==
  /\ step[t] = "trim"
  /\ Goto(t, "read")
  /\ UNCHANGED <<redis_mutex, served, command, written, obuf, wire, reader, executed, got, overlapped>>

(* Cut what was written; write again unless the buffer is now empty. *)
Trim(t) ==
  /\ step[t] = "trim"
  /\ obuf' = SubSeq(obuf, written[t] + 1, Len(obuf))
  /\ Goto(t, IF obuf' = << >> THEN "read" ELSE "write")
  /\ UNCHANGED <<redis_mutex, served, command, written, wire, reader, executed, got, overlapped>>

(* read() blocks until there is something. *)
Read(t) ==
  /\ step[t] = "read"
  /\ wire # << >>
  /\ reader' = reader \o wire
  /\ wire' = << >>
  /\ Goto(t, "take")
  /\ UNCHANGED <<redis_mutex, served, command, written, obuf, executed, got, overlapped>>

Take(t) ==
  /\ step[t] = "take"
  /\ \/ TakeReply(t)
     \/ /\ reader = << >>
        /\ Goto(t, "read")
        /\ UNCHANGED <<redis_mutex, served, command, written, obuf, wire, reader, executed, got, overlapped>>

RedisCommand(t) ==
  AppendCommand(t) \/ Look(t) \/ Write(t) \/ Trim(t) \/ Read(t) \/ Take(t)

(* What is left of a buffer whose bookkeeping was torn. *)
Remains(buffer) == {SubSeq(buffer, i, j) : i \in 1..(Len(buffer) + 1), j \in 0..Len(buffer)}

(* Two threads of different handlers are in the context at once.  Neither  *)
(* buffer is guarded against that: commands and replies in it may be lost. *)
(* (The process may also die of it; then none of this matters any more.)   *)
TornAccess ==
  /\ Races
  /\ \E t, u \in Threads : Handler(t) # Handler(u) /\ step[t] # "idle" /\ step[u] # "idle"
  /\ obuf' \in Remains(obuf)
  /\ reader' \in Remains(reader)
  /\ UNCHANGED <<redis_mutex, step, served, command, written, wire, executed, got, overlapped>>

(* Every thread has served its calls. *)
Served ==
  /\ \A t \in Threads : step[t] = "idle" /\ served[t] = Calls
  /\ UNCHANGED vars

Next == (\E t \in Threads : Lock(t) \/ RedisCommand(t)) \/ TornAccess \/ Served

Spec == Init /\ [][Next]_vars

(* A thread that can go on does; whether a client calls is its own affair. *)
FairSpec == Spec /\ \A t \in Threads : WF_vars(RedisCommand(t))
-----------------------------------------------------------------------------
Finished(t) == step[t] = "idle" /\ served[t] > 0

(* As long as calls of different handlers have not met, every redisCommand *)
(* returns the reply of its own command: RequestHandler's mutex, taken     *)
(* around both of its commands (main.cpp:353-371), is enough for itself.   *)
OwnReplies ==
  ~overlapped =>
    \A t \in Threads : \A i \in DOMAIN got[t] :
      got[t][i] = [by |-> t, call |-> served[t], cmd |-> Script(Handler(t))[i]]

(* Until then no command reaches the server twice (a push would enqueue a  *)
(* request twice), and none of a finished call is left in the buffer.      *)
SentOnce ==
  ~overlapped =>
    /\ \A i, j \in DOMAIN executed : executed[i] = executed[j] => i = j
    /\ \A t \in Threads : Finished(t) =>
         \A i \in DOMAIN Script(Handler(t)) :
           \E j \in DOMAIN executed :
             executed[j] = [by |-> t, call |-> served[t], cmd |-> Script(Handler(t))[i]]

(* How many steps a thread in a call is from its end when it meets nobody. *)
StepsLeft(t) ==
  IF step[t] = "idle" THEN 0
  ELSE 6 * (Len(Script(Handler(t))) - command[t])
       + (CASE step[t] = "append" -> 6 [] step[t] = "look" -> 5 [] step[t] = "write" -> 4
            [] step[t] = "trim" -> 3 [] step[t] = "read" -> 2 [] step[t] = "take" -> 1)

(* Until then no thread blocks in read() without a reply on its way to it  *)
(* (main.cpp:353-371).                                                     *)
ReplyOnItsWay == ~overlapped => \A t \in Threads : step[t] = "read" => wire # << >>

(* Until then each step in redisCommand brings the thread nearer to the    *)
(* end of its call: it never goes back to write or to read once more       *)
(* (main.cpp:353-371).                                                     *)
CallsAdvance ==
  [][~overlapped => \A t \in Threads : RedisCommand(t) => StepsLeft(t)' < StepsLeft(t)]_vars

(* Until then a thread that is in redisCommand comes out of it and frees   *)
(* the handler's mutex.                                                    *)
CommandsReturn ==
  \A t \in Threads : (step[t] # "idle" /\ ~overlapped) ~> (step[t] = "idle" \/ overlapped)

(* What the three mutexes are there for: every thread comes out, whatever  *)
(* the other handlers do meanwhile (main.cpp:169-251).                     *)
EveryCommandReturns == \A t \in Threads : step[t] # "idle" ~> step[t] = "idle"
=============================================================================
