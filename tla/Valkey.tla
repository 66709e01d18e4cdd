------------------------------- MODULE Valkey -------------------------------
(***************************************************************************)
(* The keys of the Valkey server that the proxy and the worker share, and  *)
(* the commands they send.  The server is external: the operators are      *)
(* derived from the commands main.cpp formats.  Every operator takes the   *)
(* outcome o of the call (module RedisClient) and says what the server     *)
(* does; what the caller does with the reply is in Proxy and Worker.       *)
(***************************************************************************)
EXTENDS RedisClient, Naturals, Sequences

VARIABLES
  requests,      \* list   http:requests
  writes,        \* number stats:redis_writes
  reads,         \* number stats:redis_reads
  savedCounter,  \* number request_id_counter (an absent key loads as 0)
  responses,     \* the keys http:response:<id>, a function from the ids that have one
  pushLog        \* history: every item ever pushed on http:requests, in push order

valkeyVars == <<requests, writes, reads, savedCounter, responses, pushLog>>

ValkeyInit ==
  /\ requests = << >>
  /\ writes = 0
  /\ reads = 0
  /\ savedCounter = 0
  /\ responses = << >>      \* the function with the empty domain
  /\ pushLog = << >>

(* Wrong variant: LPUSH in place of RPUSH. *)
LPush(o, item) ==
  IF Executed(o)
  THEN /\ requests' = <<item>> \o requests
       /\ pushLog' = Append(pushLog, item)
  ELSE UNCHANGED <<requests, pushLog>>

(* RPUSH http:requests item *)
RPush(o, item) ==
  IF Executed(o)
  THEN /\ requests' = Append(requests, item)
       /\ pushLog' = Append(pushLog, item)
  ELSE UNCHANGED <<requests, pushLog>>

(* Wrong variant: DECR in place of INCR. *)
DecrKey(o, key) == IF Executed(o) THEN key - 1 ELSE key

(* Wrong variant: a client that sends again what got no reply. *)
IncrKeyRetried(o, key) == IF o = "lostReply" THEN key + 2 ELSE IF Executed(o) THEN key + 1 ELSE key

(* INCR stats:redis_writes and INCR stats:redis_reads *)
IncrKey(o, key) == IF Executed(o) THEN key + 1 ELSE key

(* SETEX http:response:id 60 response: replaces what the key held. *)
SetEx(o, id, response) ==
  responses' = IF Executed(o)
               THEN [k \in DOMAIN responses \cup {id} |->
                       IF k = id THEN response ELSE responses[k]]
               ELSE responses

(* The server drops a response when its 60 seconds are over. *)
Expire(id) ==
  /\ id \in DOMAIN responses
  /\ responses' = [k \in DOMAIN responses \ {id} |-> responses[k]]
  /\ UNCHANGED <<requests, writes, reads, savedCounter, pushLog>>
=============================================================================
