---------------------------- MODULE RedisClient ----------------------------
(***************************************************************************)
(* What redisCommand() of hiredis gives its caller, as main.cpp uses it.   *)
(* hiredis is not part of the repository: this module is external and is   *)
(* derived from the calls.  A call ends in one of four ways:               *)
(*                                                                         *)
(*   "ok"        the server executed the command, the reply has the type   *)
(*               the caller expects;                                       *)
(*   "error"     the server answered with an error reply (out of memory,   *)
(*               loading, wrong type ...) and changed nothing; the         *)
(*               connection stays usable;                                  *)
(*   "lostReply" the server executed the command and the connection broke  *)
(*               before the reply arrived: NULL, redisContext.err is set;  *)
(*   "unsent"    the command never reached the server: NULL, err is set.   *)
(*                                                                         *)
(* redisContext.err is sticky.  Nothing in main.cpp reconnects, so once it *)
(* is set every later command on that context is "unsent".                 *)
(***************************************************************************)

CONSTANT Faults  \* the outcomes other than "ok" that the network and the server may produce

ASSUME FaultsAssumption == Faults \subseteq {"error", "lostReply", "unsent"}

(* The outcomes of a command on a context whose err field is err. *)
Outcomes(err) == IF err THEN {"unsent"} ELSE {"ok"} \cup Faults

(* The server executed the command. *)
Executed(o) == o \in {"ok", "lostReply"}

(* The command leaves redisContext.err set. *)
Breaks(o) == o \in {"lostReply", "unsent"}
=============================================================================
