------------------------- MODULE SharedContextProofs -------------------------
(***************************************************************************)
(* Proofs about SharedContext for any number of threads of each handler    *)
(* and any number of calls.                                                *)
(***************************************************************************)
EXTENDS SharedContext, SequenceTheorems, TLAPS

Commands == {"PING", "GET writes", "GET reads", "RPUSH", "INCR writes"}
Messages == [by : Threads, call : Nat, cmd : Commands]

(* How many commands a call of thread t sends, and the k-th of them. *)
Last(t) == Len(Script(Handler(t)))
Entry(t, k) == [by |-> t, call |-> served[t], cmd |-> Script(Handler(t))[k]]

ContextTypeOK ==
  /\ redis_mutex \in [Handlers -> Threads \cup {NoThread}]
  /\ step \in [Threads -> Steps]
  /\ served \in [Threads -> Nat]
  /\ command \in [Threads -> Nat] /\ \A t \in Threads : command[t] \in 1 .. Last(t)
  /\ written \in [Threads -> Nat]
  /\ obuf \in Seq(Messages) /\ wire \in Seq(Messages) /\ reader \in Seq(Messages)
  /\ executed \in Seq(Messages)
  /\ got \in [Threads -> Seq(Messages)]
  /\ overlapped \in BOOLEAN

(* Exactly the threads in a call hold the mutex of their handler. *)
CallMutex == \A t \in Threads : step[t] # "idle" <=> redis_mutex[Handler(t)] = t

(* Where the command of a thread is that has the context for itself. *)
InCommand(t) ==
  /\ obuf = IF step[t] \in {"look", "write", "trim"} THEN <<Sent(t)>> ELSE << >>
  /\ wire = IF step[t] \in {"trim", "read"} THEN <<Sent(t)>> ELSE << >>
  /\ reader = IF step[t] = "take" THEN <<Sent(t)>> ELSE << >>
  /\ step[t] = "trim" => written[t] = 1
  /\ Len(got[t]) = command[t] - 1

(* Until calls of two handlers meet, one thread at most is in a call and   *)
(* the buffers hold its command and nothing else.                          *)
SoloInv ==
  ~overlapped =>
    /\ \A t, u \in Threads : (t # u /\ step[t] # "idle") => step[u] = "idle"
    /\ (\A t \in Threads : step[t] = "idle") => obuf = << >> /\ wire = << >> /\ reader = << >>
    /\ \A t \in Threads : step[t] # "idle" => InCommand(t)
    /\ \A t \in Threads : \A i \in DOMAIN got[t] : got[t][i] = Entry(t, i)

(* How many commands of its call the server has executed for thread t. *)
Done(t) ==
  IF step[t] = "idle" THEN Last(t)
  ELSE IF step[t] \in {"trim", "read", "take"} THEN command[t] ELSE command[t] - 1

(* No command was executed twice. *)
NoRepeat == \A i, j \in DOMAIN executed : executed[i] = executed[j] => i = j

(* Of t's current call only commands it has sent were executed. *)
OnlySent(t) ==
  \A i \in DOMAIN executed : executed[i].by = t =>
    /\ executed[i].call <= served[t]
    /\ executed[i].call = served[t] =>
         \E k \in 1 .. Done(t) : executed[i].cmd = Script(Handler(t))[k]

(* All that it has sent were. *)
AllSent(t) ==
  served[t] > 0 => \A k \in 1 .. Done(t) : \E j \in DOMAIN executed : executed[j] = Entry(t, k)

(* Until then the server has executed exactly those, once each. *)
ExecutedInv ==
  ~overlapped =>
    /\ NoRepeat
    /\ \A t \in Threads : OnlySent(t) /\ AllSent(t) /\ (step[t] # "idle" => served[t] > 0)

ContextInv == ContextTypeOK /\ CallMutex /\ SoloInv /\ ExecutedInv

(* The scripts: one or two different commands each. *)
LEMMA Scripts ==
  /\ \A t \in Threads :
       /\ Last(t) \in {1, 2}
       /\ \A i \in 1 .. Last(t) : Script(Handler(t))[i] \in Commands
       /\ \A i, j \in 1 .. Last(t) : Script(Handler(t))[i] = Script(Handler(t))[j] => i = j
  /\ \A t \in Threads : Handler(t) \in Handlers
<1>1. \A t \in Threads : Handler(t) \in Handlers
  BY DEF Handler, Handlers
<1>2. /\ Script("health") = <<"PING">>
      /\ Script("stats") = <<"GET writes", "GET reads">>
      /\ Script("request") = <<"RPUSH", "INCR writes">>
  BY DEF Script
<1>3. ASSUME NEW h \in Handlers
      PROVE  /\ Len(Script(h)) \in {1, 2}
             /\ \A i \in 1 .. Len(Script(h)) : Script(h)[i] \in Commands
             /\ \A i, j \in 1 .. Len(Script(h)) : Script(h)[i] = Script(h)[j] => i = j
  <2>1. ASSUME NEW a, NEW b, a # b, a \in Commands, b \in Commands, Script(h) = <<a, b>>
        PROVE  /\ Len(Script(h)) \in {1, 2}
               /\ \A i \in 1 .. Len(Script(h)) : Script(h)[i] \in Commands
               /\ \A i, j \in 1 .. Len(Script(h)) : Script(h)[i] = Script(h)[j] => i = j
    <3>1. Len(<<a, b>>) = 2 /\ <<a, b>>[1] = a /\ <<a, b>>[2] = b
      OBVIOUS
    <3>2. \A i \in 1 .. 2 : i = 1 \/ i = 2
      OBVIOUS
    <3>3. QED
      BY <2>1, <3>1, <3>2, Zenon
  <2>2. CASE h = "health"
    <3>1. Len(<<"PING">>) = 1 /\ <<"PING">>[1] = "PING"
      OBVIOUS
    <3>2. \A i \in 1 .. 1 : i = 1
      OBVIOUS
    <3>3. Script(h) = <<"PING">> /\ "PING" \in Commands
      BY <1>2, <2>2 DEF Commands
    <3>4. QED
      BY <3>1, <3>2, <3>3, Zenon
  <2>3. CASE h = "stats"
    <3>1. Script(h) = <<"GET writes", "GET reads">>
      BY <1>2, <2>3
    <3>2. "GET writes" # "GET reads" /\ "GET writes" \in Commands /\ "GET reads" \in Commands
      BY DEF Commands
    <3>3. QED
      BY <2>1, <3>1, <3>2
  <2>5. CASE h = "request"
    <3>1. Script(h) = <<"RPUSH", "INCR writes">>
      BY <1>2, <2>5
    <3>2. "RPUSH" # "INCR writes" /\ "RPUSH" \in Commands /\ "INCR writes" \in Commands
      BY DEF Commands
    <3>3. QED
      BY <2>1, <3>1, <3>2
  <2>4. QED
    BY <2>2, <2>3, <2>5 DEF Handlers
<1>4. QED
  BY <1>1, <1>3 DEF Last

(* What a thread sends is a message. *)
LEMMA SentMessage ==
  ASSUME ContextTypeOK, NEW t \in Threads
  PROVE  Sent(t) \in Messages /\ Sent(t) = Entry(t, command[t])
BY Scripts DEF ContextTypeOK, Sent, Entry, Messages

(* A list of one element. *)
LEMMA OneElement ==
  ASSUME NEW S, NEW x \in S
  PROVE  /\ <<x>> \in Seq(S) /\ Len(<<x>>) = 1 /\ <<x>> # << >>
         /\ Append(<< >>, x) = <<x>> /\ << >> \o <<x>> = <<x>>
         /\ Head(<<x>>) = x /\ Tail(<<x>>) = << >>
         /\ SubSeq(<<x>>, 2, 1) = << >>
<1>1. <<x>> \in Seq(S) /\ Len(<<x>>) = 1 /\ <<x>> # << >>
  OBVIOUS
<1>2. Append(<< >>, x) = <<x>>
  OBVIOUS
<1>3. << >> \o <<x>> = <<x>>
  BY <1>1, ConcatEmptySeq
<1>4. Head(<<x>>) = x /\ Tail(<<x>>) = << >>
  OBVIOUS
<1>5. SubSeq(<<x>>, 2, 1) = << >>
  BY SubSeqEmpty
<1>6. QED
  BY <1>1, <1>2, <1>3, <1>4, <1>5

(* A thread is at one of the commands of its script. *)
LEMMA CommandRange ==
  ASSUME ContextTypeOK
  PROVE  \A u \in Threads : command[u] \in Nat /\ command[u] \in 1 .. Last(u)
BY DEF ContextTypeOK

(* What a race leaves in a buffer is still a list of messages. *)
LEMMA RemainsMessages ==
  ASSUME NEW b \in Seq(Messages), NEW r \in Remains(b)
  PROVE  r \in Seq(Messages)
<1>1. PICK i \in 1..(Len(b) + 1), j \in 0..Len(b) : r = SubSeq(b, i, j)
  BY DEF Remains
<1>2. Len(b) \in Nat /\ \A k \in 1..Len(b) : b[k] \in Messages
  BY LenProperties, ElementOfSeq
<1>3. i \in Nat /\ j \in Nat /\ \A k \in i..j : k \in 1..Len(b)
  BY <1>2
<1>4. QED
  BY <1>1, <1>2, <1>3, SubSeqProperties

(* Two threads race only after their calls have met. *)
LEMMA RacersMeet ==
  ASSUME SoloInv, TornAccess
  PROVE  overlapped
<1>1. PICK t \in Threads, u \in Threads : Handler(t) # Handler(u) /\ step[t] # "idle" /\ step[u] # "idle"
  BY DEF TornAccess
<1>2. t # u
  BY <1>1
<1>3. QED
  BY <1>1, <1>2 DEF SoloInv

(* Every step keeps the types. *)
LEMMA ContextTypeStep ==
  ASSUME ContextTypeOK, Next
  PROVE  ContextTypeOK'
<1> USE DEF ContextTypeOK, Steps, Goto, Last
<1>0. \A t \in Threads : 1 \in 1 .. Last(t) /\ Handler(t) \in Handlers
  BY Scripts
<1>1. ASSUME NEW t \in Threads, Lock(t) PROVE ContextTypeOK'
  <2>1. << >> \in Seq(Messages)
    OBVIOUS
  <2>2. overlapped' \in BOOLEAN
    BY <1>1 DEF Lock, NoteOverlap
  <2>3. QED
    BY <1>0, <1>1, <2>1, <2>2 DEF Lock
<1>2. ASSUME NEW t \in Threads, AppendCommand(t) PROVE ContextTypeOK'
  <2>1. obuf' \in Seq(Messages)
    BY <1>2, SentMessage, AppendProperties DEF AppendCommand
  <2>2. QED
    BY <1>2, <2>1 DEF AppendCommand
<1>3. ASSUME NEW t \in Threads, TakeReply(t) PROVE ContextTypeOK'
  <2>1. Head(reader) \in Messages /\ reader' \in Seq(Messages)
    BY <1>3, HeadTailProperties DEF TakeReply
  <2>2. got' \in [Threads -> Seq(Messages)]
    BY <1>3, <2>1, AppendProperties DEF TakeReply
  <2>3. command' \in [Threads -> Nat] /\ \A u \in Threads : command'[u] \in 1 .. Last(u)
    <3>1. \A u \in Threads : Last(u) \in {1, 2}
      BY Scripts
    <3>2. \/ command' = command
          \/ command[t] < Last(t) /\ command' = [command EXCEPT ![t] = @ + 1]
      BY <1>3 DEF TakeReply
    <3>3. DOMAIN command' = Threads /\ command' = [u \in Threads |-> command'[u]]
      BY <3>2
    <3>4. \A u \in Threads : command'[u] \in Nat /\ command'[u] \in 1 .. Last(u)
      <4>1. SUFFICES ASSUME NEW u \in Threads, NEW l, l = Last(u), NEW c, c = command[u]
                     PROVE  command'[u] \in Nat /\ command'[u] \in 1 .. l
        BY Zenon
      <4>2. l \in {1, 2}
        BY <3>1, <4>1, Zenon
      <4>3. c \in Nat /\ c \in 1 .. l
        BY <4>1, CommandRange, Zenon
      <4>4. command'[u] = c \/ (c < l /\ command'[u] = c + 1)
        BY <3>2, <4>1
      <4>5. QED
        BY <4>2, <4>3, <4>4, SMTT(30)
    <3>5. QED
      BY <3>3, <3>4
  <2>4. redis_mutex' \in [Handlers -> Threads \cup {NoThread}] /\ step' \in [Threads -> Steps]
    BY <1>3 DEF TakeReply
  <2>5. QED
    BY <1>3, <2>1, <2>2, <2>3, <2>4 DEF TakeReply
<1>4. ASSUME NEW t \in Threads, Look(t) PROVE ContextTypeOK'
  BY <1>3, <1>4 DEF Look
<1>5. ASSUME NEW t \in Threads, Write(t) PROVE ContextTypeOK'
  <2>1. executed' \in Seq(Messages) /\ wire' \in Seq(Messages)
    BY <1>5, ConcatProperties DEF Write
  <2>2. Len(obuf) \in Nat
    BY LenProperties
  <2>3. QED
    BY <1>5, <2>1, <2>2 DEF Write
<1>6. ASSUME NEW t \in Threads, Trim(t) PROVE ContextTypeOK'
  <2>1. Len(obuf) \in Nat
    BY LenProperties
  <2>2. \A i \in written[t] + 1 .. Len(obuf) : obuf[i] \in Messages
    <3>1. \A i \in written[t] + 1 .. Len(obuf) : i \in 1 .. Len(obuf)
      BY <2>1
    <3>2. QED
      BY <3>1, ElementOfSeq
  <2>3. obuf' \in Seq(Messages)
    BY <1>6, <2>1, <2>2, SubSeqProperties DEF Trim
  <2>4. QED
    BY <1>6, <2>3 DEF Trim
<1>7. ASSUME NEW t \in Threads, Read(t) PROVE ContextTypeOK'
  <2>1. reader' \in Seq(Messages) /\ << >> \in Seq(Messages)
    BY <1>7, ConcatProperties DEF Read
  <2>2. QED
    BY <1>7, <2>1 DEF Read
<1>8. ASSUME NEW t \in Threads, Take(t) PROVE ContextTypeOK'
  BY <1>3, <1>8 DEF Take
<1>9. CASE Served
  BY <1>9 DEF Served, vars
<1>10. CASE TornAccess
  BY <1>10, RemainsMessages DEF TornAccess
<1>11. QED
  BY <1>1, <1>2, <1>4, <1>5, <1>6, <1>7, <1>8, <1>9, <1>10 DEF Next, RedisCommand

(* Every step keeps the mutexes with the threads that are in a call. *)
LEMMA CallMutexStep ==
  ASSUME ContextTypeOK, CallMutex, Next
  PROVE  CallMutex'
<1> USE ContextAssumption DEF ContextTypeOK, CallMutex, Goto
<1>0. \A t \in Threads : Handler(t) \in Handlers /\ t # NoThread
  BY Scripts
<1>1. ASSUME NEW t \in Threads, Lock(t) PROVE CallMutex'
  BY <1>0, <1>1 DEF Lock
<1>2. ASSUME NEW t \in Threads, step[t] # "idle", TakeReply(t) PROVE CallMutex'
  BY <1>0, <1>2, SMTT(30) DEF TakeReply
<1>3. ASSUME NEW t \in Threads, RedisCommand(t), ~TakeReply(t) PROVE CallMutex'
  BY <1>3 DEF RedisCommand, AppendCommand, Look, Write, Trim, Read, Take
<1>4. ASSUME NEW t \in Threads, RedisCommand(t), TakeReply(t) PROVE step[t] # "idle"
  BY <1>4 DEF RedisCommand, AppendCommand, Look, Write, Trim, Read, Take
<1>5. CASE Served
  BY <1>5 DEF Served, vars
<1>6. CASE TornAccess
  BY <1>6 DEF TornAccess
<1>7. QED
  BY <1>1, <1>2, <1>3, <1>4, <1>5, <1>6 DEF Next

(* Until an overlap, a thread in a call has the context for itself. *)
LEMMA SoloCall ==
  ASSUME SoloInv, ~overlapped, NEW t \in Threads, step[t] # "idle"
  PROVE  /\ InCommand(t)
         /\ \A u \in Threads : u # t => step[u] = "idle"
         /\ \A u \in Threads : \A i \in DOMAIN got[u] : got[u][i] = Entry(u, i)
BY DEF SoloInv

(* A step of the one thread in a call keeps SoloInv if it leaves the       *)
(* buffers as InCommand says.                                              *)
LEMMA SoloKept ==
  ASSUME ContextTypeOK, SoloInv, ~overlapped, NEW t \in Threads, step[t] # "idle",
         served' = served,
         \A u \in Threads : u # t => step'[u] = step[u] /\ got'[u] = got[u],
         step'[t] # "idle" => InCommand(t)',
         step'[t] = "idle" => obuf' = << >> /\ wire' = << >> /\ reader' = << >>,
         \A i \in DOMAIN got'[t] : got'[t][i] = Entry(t, i)
  PROVE  SoloInv'
<1>1. \A u \in Threads : u # t => step'[u] = "idle"
  BY SoloCall
<1>2. \A u \in Threads : step'[u] # "idle" => InCommand(u)'
  BY <1>1
<1>3. \A u \in Threads, i \in Nat : Entry(u, i)' = Entry(u, i)
  BY DEF Entry
<1>4. \A u \in Threads : \A i \in DOMAIN got'[u] : got'[u][i] = (Entry(u, i))'
  <2>1. SUFFICES ASSUME NEW u \in Threads, NEW i \in DOMAIN got'[u]
                 PROVE  got'[u][i] = Entry(u, i)
    BY DEF Entry
  <2>2. CASE u = t
    BY <2>2
  <2>3. CASE u # t
    BY <2>3, SoloCall
  <2>4. QED
    BY <2>2, <2>3
<1>5. QED
  BY <1>1, <1>2, <1>4 DEF SoloInv

(* A step that leaves got alone, and the buffers as InCommand says. *)
LEMMA SoloStep ==
  ASSUME ContextTypeOK, SoloInv, ~overlapped, NEW t \in Threads, step[t] # "idle",
         NEW s \in Steps \ {"idle"}, Goto(t, s), UNCHANGED <<served, got>>,
         InCommand(t)'
  PROVE  SoloInv'
<1>1. \A u \in Threads : u # t => step'[u] = step[u] /\ got'[u] = got[u]
  BY DEF Goto, ContextTypeOK
<1>2. step'[t] # "idle"
  BY DEF Goto, ContextTypeOK
<1>3. \A i \in DOMAIN got'[t] : got'[t][i] = Entry(t, i)
  BY SoloCall
<1>4. QED
  BY <1>1, <1>2, <1>3, SoloKept

(* Until an overlap the thread with the context takes the reply of its     *)
(* own command, and only after it has read it.                             *)
LEMMA SoloTake ==
  ASSUME ContextTypeOK, SoloInv, ~overlapped, NEW t \in Threads, step[t] \in {"look", "take"},
         TakeReply(t)
  PROVE  SoloInv'
<1> USE DEF ContextTypeOK
<1>1. step[t] # "idle" /\ InCommand(t)
  BY SoloCall
<1>2. step[t] = "take" /\ reader = <<Sent(t)>> /\ obuf = << >> /\ wire = << >>
  BY <1>1 DEF InCommand, TakeReply
<1>3. Sent(t) \in Messages /\ Sent(t) = Entry(t, command[t])
  BY SentMessage
<1>4. Head(reader) = Sent(t) /\ Tail(reader) = << >>
  BY <1>2, <1>3, OneElement
<1>5. obuf' = << >> /\ wire' = << >> /\ reader' = << >> /\ served' = served
  BY <1>2, <1>4 DEF TakeReply
<1>6. got' = [got EXCEPT ![t] = Append(@, Sent(t))]
  BY <1>4 DEF TakeReply
<1>7. /\ got[t] \in Seq(Messages) /\ Len(got[t]) = command[t] - 1 /\ command[t] \in Nat
      /\ Len(got[t]) \in Nat
  BY <1>1, CommandRange, LenProperties DEF InCommand
<1>8. Len(got'[t]) = command[t]
  BY <1>3, <1>6, <1>7, AppendProperties
<1>9. \A i \in DOMAIN got'[t] : got'[t][i] = Entry(t, i)
  <2>1. SUFFICES ASSUME NEW i \in DOMAIN got'[t] PROVE got'[t][i] = Entry(t, i)
    OBVIOUS
  <2>2. got'[t] = Append(got[t], Sent(t)) /\ DOMAIN got[t] = 1 .. Len(got[t])
    BY <1>6, <1>7, LenProperties
  <2>3. i \in 1 .. command[t]
    BY <1>3, <1>7, <2>2, AppendProperties
  <2>4. CASE i = command[t]
    BY <1>3, <1>7, <2>2, <2>4, AppendProperties
  <2>5. CASE i # command[t]
    <3>1. i \in DOMAIN got[t]
      BY <1>7, <2>2, <2>3, <2>5
    <3>2. got'[t][i] = got[t][i]
      BY <1>3, <1>7, <2>2, <3>1, AppendProperties
    <3>3. QED
      BY <1>1, <3>1, <3>2, SoloCall
  <2>6. QED
    BY <2>4, <2>5
<1>10. \A u \in Threads : u # t => step'[u] = step[u] /\ got'[u] = got[u]
  BY <1>6 DEF TakeReply, Goto
<1>11. step'[t] # "idle" => InCommand(t)'
  <2>1. SUFFICES ASSUME step'[t] # "idle" PROVE InCommand(t)'
    OBVIOUS
  <2>2. step'[t] = "append" /\ command'[t] = command[t] + 1
    BY <1>7, <2>1 DEF TakeReply, Goto
  <2>3. Len(got'[t]) = command'[t] - 1
    BY <1>7, <1>8, <2>2
  <2>4. QED
    BY <1>5, <2>2, <2>3 DEF InCommand
<1>12. QED
  BY <1>1, <1>5, <1>9, <1>10, <1>11, SoloKept

(* Every step keeps the context with one thread until calls overlap. *)
LEMMA SoloInvStep ==
  ASSUME ContextTypeOK, CallMutex, SoloInv, Next
  PROVE  SoloInv'
<1> USE DEF ContextTypeOK, Goto
<1>1. ASSUME NEW t \in Threads, Lock(t), ~overlapped' PROVE SoloInv'
  <2>1. ~overlapped /\ \A u \in Threads : Handler(u) # Handler(t) => step[u] = "idle"
    BY <1>1 DEF Lock, NoteOverlap
  <2>2. \A u \in Threads : Handler(u) = Handler(t) => step[u] = "idle"
    BY <1>1, ContextAssumption DEF Lock, CallMutex
  <2>3. \A u \in Threads : step[u] = "idle"
    BY <2>1, <2>2
  <2>4. obuf' = << >> /\ wire' = << >> /\ reader' = << >>
    BY <1>1, <2>1, <2>3 DEF Lock, SoloInv
  <2>5. step'[t] = "append" /\ command'[t] = 1 /\ got'[t] = << >>
    BY <1>1 DEF Lock
  <2>6. \A u \in Threads : u # t => /\ step'[u] = "idle" /\ got'[u] = got[u]
                                    /\ served'[u] = served[u]
    BY <1>1, <2>3 DEF Lock
  <2>7. InCommand(t)'
    <3>1. Len(got'[t]) = command'[t] - 1
      BY <2>5
    <3>2. QED
      BY <2>4, <2>5, <3>1 DEF InCommand
  <2>8. \A u \in Threads : \A i \in DOMAIN got'[u] : got'[u][i] = (Entry(u, i))'
    <3>1. SUFFICES ASSUME NEW u \in Threads, NEW i \in DOMAIN got'[u]
                   PROVE  got'[u][i] = (Entry(u, i))'
      OBVIOUS
    <3>2. u # t
      BY <2>5, <3>1
    <3>3. got[u][i] = Entry(u, i)
      BY <2>1, <2>6, <3>2 DEF SoloInv
    <3>4. QED
      BY <2>6, <3>2, <3>3 DEF Entry
  <2>9. QED
    BY <2>4, <2>5, <2>6, <2>7, <2>8 DEF SoloInv
<1>2. ASSUME NEW t \in Threads, RedisCommand(t), ~overlapped PROVE SoloInv'
  <2>1. step[t] # "idle"
    BY <1>2 DEF RedisCommand, AppendCommand, Look, Write, Trim, Read, Take
  <2>2. InCommand(t) /\ Sent(t) \in Messages
    BY <1>2, <2>1, SoloCall, SentMessage
  <2>3. /\ Append(<< >>, Sent(t)) = <<Sent(t)>> /\ << >> \o <<Sent(t)>> = <<Sent(t)>>
        /\ Len(<<Sent(t)>>) = 1 /\ SubSeq(<<Sent(t)>>, 2, 1) = << >>
        /\ <<Sent(t)>> # << >>
    BY <2>2, OneElement
  <2>4. CASE AppendCommand(t)
    <3>1. InCommand(t)'
      BY <2>2, <2>3, <2>4 DEF AppendCommand, InCommand, Sent
    <3>2. QED
      BY <1>2, <2>1, <2>4, <3>1, SoloStep DEF AppendCommand, Steps
  <2>5. CASE Look(t)
    <3>1. CASE TakeReply(t)
      BY <1>2, <2>5, <3>1, SoloTake DEF Look
    <3>2. CASE ~TakeReply(t)
      <4>1. InCommand(t)'
        BY <2>2, <2>3, <2>5, <3>2 DEF Look, InCommand, Sent
      <4>2. QED
        BY <1>2, <2>1, <2>5, <3>2, <4>1, SoloStep DEF Look, Steps
    <3>3. QED
      BY <3>1, <3>2
  <2>6. CASE Write(t)
    <3>1. InCommand(t)'
      BY <2>2, <2>3, <2>6 DEF Write, InCommand, Sent
    <3>2. QED
      BY <1>2, <2>1, <2>6, <3>1, SoloStep DEF Write, Steps
  <2>7. CASE Trim(t)
    <3>1. obuf' = << >>
      BY <2>2, <2>3, <2>7 DEF Trim, InCommand
    <3>2. InCommand(t)'
      BY <2>2, <2>3, <2>7, <3>1 DEF Trim, InCommand, Sent
    <3>3. QED
      BY <1>2, <2>1, <2>7, <3>1, <3>2, SoloStep DEF Trim, Steps
  <2>8. CASE Read(t)
    <3>1. InCommand(t)'
      BY <2>2, <2>3, <2>8 DEF Read, InCommand, Sent
    <3>2. QED
      BY <1>2, <2>1, <2>8, <3>1, SoloStep DEF Read, Steps
  <2>9. CASE Take(t)
    <3>1. reader # << >>
      BY <2>2, <2>3, <2>9 DEF Take, InCommand
    <3>2. QED
      BY <1>2, <2>9, <3>1, SoloTake DEF Take
  <2>10. QED
    BY <1>2, <2>4, <2>5, <2>6, <2>7, <2>8, <2>9 DEF RedisCommand
<1>3. ASSUME NEW t \in Threads, RedisCommand(t) PROVE overlapped' = overlapped
  BY <1>3 DEF RedisCommand, AppendCommand, Look, Write, Trim, Read, Take, TakeReply
<1>4. CASE Served
  BY <1>4 DEF Served, vars, SoloInv, InCommand, Sent, Entry
<1>5. CASE overlapped'
  BY <1>5 DEF SoloInv
<1>6. CASE TornAccess
  BY <1>5, <1>6, RacersMeet DEF TornAccess
<1>7. QED
  BY <1>1, <1>2, <1>3, <1>4, <1>5, <1>6 DEF Next

(* A step after which the server has executed the same commands of the     *)
(* same calls keeps ExecutedInv.                                           *)
LEMMA ExecutedKept ==
  ASSUME ExecutedInv, ~overlapped, UNCHANGED <<executed, served>>,
         \A t \in Threads : Done(t)' = Done(t),
         \A t \in Threads : step'[t] # "idle" => step[t] # "idle"
  PROVE  ExecutedInv'
<1>1. NoRepeat'
  BY DEF ExecutedInv, NoRepeat
<1>2. ASSUME NEW t \in Threads PROVE OnlySent(t)' /\ AllSent(t)'
  BY <1>2 DEF ExecutedInv, OnlySent, AllSent, Entry
<1>3. \A t \in Threads : step'[t] # "idle" => served'[t] > 0
  BY DEF ExecutedInv
<1>4. QED
  BY <1>1, <1>2, <1>3 DEF ExecutedInv

(* A call that begins has sent nothing. *)
LEMMA ExecutedLock ==
  ASSUME ContextTypeOK, ExecutedInv, NEW t \in Threads, Lock(t), ~overlapped'
  PROVE  ExecutedInv'
<1> USE DEF ContextTypeOK, Goto
<1>1. ~overlapped /\ executed' = executed
  BY DEF Lock, NoteOverlap
<1>2. /\ served[t] \in Nat /\ served'[t] = served[t] + 1 /\ step[t] = "idle"
      /\ step'[t] = "append" /\ command'[t] = 1
  BY DEF Lock
<1>3. \A u \in Threads : u # t => step'[u] = step[u] /\ served'[u] = served[u] /\ command'[u] = command[u]
  BY DEF Lock
<1>4. NoRepeat'
  BY <1>1 DEF ExecutedInv, NoRepeat
<1>5. ASSUME NEW u \in Threads, u # t PROVE OnlySent(u)' /\ AllSent(u)'
  <2>1. Done(u)' = Done(u)
    BY <1>3, <1>5 DEF Done, Last
  <2>2. OnlySent(u) /\ AllSent(u)
    BY <1>1 DEF ExecutedInv
  <2>3. QED
    BY <1>1, <1>3, <1>5, <2>1, <2>2 DEF OnlySent, AllSent, Entry
<1>6. OnlySent(t)'
  <2>1. SUFFICES ASSUME NEW i \in DOMAIN executed, executed[i].by = t,
                        NEW c, c = executed[i].call
                 PROVE  c <= served'[t] /\ c # served'[t]
    BY <1>1 DEF OnlySent
  <2>2. executed[i] \in Messages
    BY ElementOfSeq, LenProperties
  <2>3. c \in Nat /\ c <= served[t]
    BY <1>1, <2>1, <2>2 DEF ExecutedInv, OnlySent, Messages
  <2>4. QED
    BY <1>2, <2>3
<1>7. AllSent(t)'
  <2>1. Done(t)' = 0
    BY <1>2 DEF Done
  <2>2. QED
    BY <2>1 DEF AllSent
<1>8. \A u \in Threads : step'[u] # "idle" => served'[u] > 0
  <2>1. served'[t] > 0
    BY <1>2
  <2>2. \A u \in Threads : step[u] # "idle" => served[u] > 0
    BY <1>1 DEF ExecutedInv
  <2>3. QED
    BY <1>3, <2>1, <2>2, Zenon
<1>9. QED
  BY <1>4, <1>5, <1>6, <1>7, <1>8 DEF ExecutedInv

(* The command that is written is a new one, and the next of its call. *)
LEMMA ExecutedWrite ==
  ASSUME ContextTypeOK, SoloInv, ExecutedInv, ~overlapped, NEW t \in Threads, Write(t)
  PROVE  ExecutedInv'
<1> USE DEF ContextTypeOK, Goto
<1>1. /\ step[t] = "write" /\ step'[t] = "trim" /\ obuf = <<Sent(t)>>
      /\ Sent(t) \in Messages /\ Sent(t) = Entry(t, command[t])
  BY SoloCall, SentMessage DEF Write, InCommand
<1>2. executed' = Append(executed, Sent(t)) /\ Len(executed) \in Nat
  BY <1>1, AppendIsConcat, LenProperties DEF Write
<1>3. /\ executed' \in Seq(Messages) /\ DOMAIN executed' = 1 .. Len(executed) + 1
      /\ DOMAIN executed = 1 .. Len(executed)
      /\ \A i \in DOMAIN executed : executed'[i] = executed[i]
      /\ executed'[Len(executed) + 1] = Sent(t)
  BY <1>1, <1>2, AppendProperties, LenProperties
<1>4. served' = served /\ command' = command
      /\ \A u \in Threads : u # t => step'[u] = step[u]
  BY DEF Write
<1>5. \A i \in DOMAIN executed' : i \in DOMAIN executed \/ i = Len(executed) + 1
  <2>1. SUFFICES ASSUME NEW l, l = Len(executed), NEW i, i \in 1 .. l + 1
                 PROVE  i \in 1 .. l \/ i = l + 1
    BY <1>3, Zenon
  <2>2. l \in Nat
    BY <1>2, <2>1, Zenon
  <2>3. QED
    BY <2>1, <2>2
<1>6. Done(t) = command[t] - 1 /\ Done(t)' = command[t] /\ command[t] \in Nat
  BY <1>1, <1>4, CommandRange DEF Done
<1>7. \A i \in DOMAIN executed : executed[i] # Sent(t)
  <2>1. SUFFICES ASSUME NEW i \in DOMAIN executed, executed[i] = Sent(t) PROVE FALSE
    OBVIOUS
  <2>2. executed[i].by = t /\ executed[i].call = served[t]
        /\ executed[i].cmd = Script(Handler(t))[command[t]]
    BY <2>1 DEF Sent
  <2>3. PICK k \in 1 .. Done(t) : executed[i].cmd = Script(Handler(t))[k]
    BY <2>2 DEF ExecutedInv, OnlySent
  <2>4. Last(t) \in {1, 2} /\ command[t] \in 1 .. Last(t)
    BY Scripts, CommandRange
  <2>5. k \in 1 .. Last(t) /\ k # command[t]
    BY <1>6, <2>3, <2>4
  <2>6. QED
    BY <2>2, <2>3, <2>4, <2>5, Scripts, ZenonT(40)
<1>8. NoRepeat'
  <2>1. NoRepeat
    BY DEF ExecutedInv
  <2>2. SUFFICES ASSUME NEW i \in DOMAIN executed', NEW j \in DOMAIN executed',
                        executed'[i] = executed'[j]
                 PROVE  i = j
    BY DEF NoRepeat
  <2>3. CASE i \in DOMAIN executed /\ j \in DOMAIN executed
    BY <1>3, <2>1, <2>2, <2>3 DEF NoRepeat
  <2>4. CASE i = Len(executed) + 1 /\ j \in DOMAIN executed
    BY <1>3, <1>7, <2>2, <2>4
  <2>5. CASE j = Len(executed) + 1 /\ i \in DOMAIN executed
    BY <1>3, <1>7, <2>2, <2>5
  <2>6. QED
    BY <1>5, <2>3, <2>4, <2>5
<1>9. OnlySent(t)'
  <2>1. OnlySent(t)
    BY DEF ExecutedInv
  <2>2. SUFFICES ASSUME NEW i \in DOMAIN executed', executed'[i].by = t
                 PROVE  /\ executed'[i].call <= served[t]
                        /\ executed'[i].call = served[t] =>
                             \E k \in 1 .. command[t] : executed'[i].cmd = Script(Handler(t))[k]
    BY <1>4, <1>6 DEF OnlySent
  <2>3. CASE i \in DOMAIN executed
    <3>1. \A k \in 1 .. Done(t) : k \in 1 .. command[t]
      BY <1>6
    <3>2. QED
      BY <1>3, <2>1, <2>2, <2>3, <3>1 DEF OnlySent
  <2>4. CASE i = Len(executed) + 1
    <3>1. executed'[i].call = served[t] /\ executed'[i].cmd = Script(Handler(t))[command[t]]
      BY <1>3, <2>4 DEF Sent
    <3>2. served[t] \in Nat /\ command[t] \in 1 .. command[t]
      BY <1>6, CommandRange
    <3>3. QED
      BY <3>1, <3>2
  <2>5. QED
    BY <1>5, <2>3, <2>4
<1>10. AllSent(t)'
  <2>1. AllSent(t) /\ served[t] > 0
    BY <1>1 DEF ExecutedInv
  <2>2. SUFFICES ASSUME NEW k \in 1 .. command[t]
                 PROVE  \E j \in DOMAIN executed' : executed'[j] = Entry(t, k)
    BY <1>4, <1>6 DEF AllSent, Entry
  <2>3. CASE k = command[t]
    <3>1. Len(executed) + 1 \in DOMAIN executed'
      BY <1>2, <1>3
    <3>2. QED
      BY <1>1, <1>3, <2>3, <3>1
  <2>4. CASE k # command[t]
    <3>1. k \in 1 .. Done(t)
      BY <1>6, <2>2, <2>4
    <3>2. PICK j \in DOMAIN executed : executed[j] = Entry(t, k)
      BY <2>1, <3>1 DEF AllSent
    <3>3. j \in DOMAIN executed' /\ executed'[j] = Entry(t, k)
      BY <1>2, <1>3, <3>2
    <3>4. QED
      BY <3>3
  <2>5. QED
    BY <2>3, <2>4
<1>11. ASSUME NEW u \in Threads, u # t PROVE OnlySent(u)' /\ AllSent(u)'
  <2>1. Done(u)' = Done(u)
    BY <1>4, <1>11 DEF Done, Last
  <2>2. OnlySent(u) /\ AllSent(u)
    BY DEF ExecutedInv
  <2>3. executed'[Len(executed) + 1].by = t
    BY <1>3 DEF Sent
  <2>4. OnlySent(u)'
    <3>1. SUFFICES ASSUME NEW i \in DOMAIN executed', executed'[i].by = u
                   PROVE  /\ executed'[i].call <= served'[u]
                          /\ executed'[i].call = served'[u] =>
                               \E k \in 1 .. Done(u)' : executed'[i].cmd = Script(Handler(u))[k]
      BY DEF OnlySent
    <3>2. i \in DOMAIN executed
      BY <1>5, <1>11, <2>3, <3>1, Zenon
    <3>3. executed'[i] = executed[i]
      BY <1>3, <3>2, Zenon
    <3>4. /\ executed[i].call <= served[u]
          /\ executed[i].call = served[u] =>
               \E k \in 1 .. Done(u) : executed[i].cmd = Script(Handler(u))[k]
      <4>1. executed[i].by = u
        BY <3>1, <3>3, Zenon
      <4>2. QED
        BY <2>2, <3>2, <4>1, Zenon DEF OnlySent
    <3>5. QED
      BY <1>4, <2>1, <3>3, <3>4, Zenon
  <2>5. \A j \in DOMAIN executed : j \in DOMAIN executed'
    BY <1>2, <1>3
  <2>6. AllSent(u)'
    BY <1>3, <1>4, <2>1, <2>2, <2>5 DEF AllSent, Entry
  <2>7. QED
    BY <2>4, <2>6
<1>12. \A u \in Threads : step'[u] # "idle" => served'[u] > 0
  BY <1>1, <1>4 DEF ExecutedInv
<1>13. QED
  BY <1>8, <1>9, <1>10, <1>11, <1>12 DEF ExecutedInv

(* Every other step leaves what was executed and what was to be executed.  *)
LEMMA ExecutedInvStep ==
  ASSUME ContextTypeOK, SoloInv, ExecutedInv, Next
  PROVE  ExecutedInv'
<1> USE DEF ContextTypeOK, Goto
<1>1. ASSUME NEW t \in Threads, RedisCommand(t) PROVE overlapped' = overlapped /\ step[t] # "idle"
  BY <1>1 DEF RedisCommand, AppendCommand, Look, Write, Trim, Read, Take, TakeReply
<1>2. ASSUME NEW t \in Threads, ~overlapped, RedisCommand(t), ~Write(t) PROVE ExecutedInv'
  <2>1. /\ UNCHANGED <<executed, served>>
        /\ \A u \in Threads : u # t => step'[u] = step[u] /\ command'[u] = command[u]
    BY <1>2 DEF RedisCommand, AppendCommand, Look, Trim, Read, Take, TakeReply
  <2>2. \A u \in Threads : u # t => Done(u)' = Done(u)
    BY <2>1 DEF Done, Last
  <2>3. InCommand(t) /\ Sent(t) \in Messages
    BY <1>1, <1>2, SoloCall, SentMessage
  <2>4. ASSUME step[t] \in {"look", "take"}, TakeReply(t) PROVE Done(t)' = Done(t)
    <3>1. step[t] = "take" /\ Done(t) = command[t]
      BY <2>3, <2>4 DEF InCommand, TakeReply, Done
    <3>2. command[t] \in Nat /\ command[t] \in 1 .. Last(t) /\ Last(t) \in {1, 2} /\ Last(t)' = Last(t)
      BY CommandRange, Scripts DEF Last
    <3>3. CASE command[t] < Last(t)
      <4>1. step'[t] = "append" /\ command'[t] = command[t] + 1
        BY <2>4, <3>3 DEF TakeReply, Last
      <4>2. Done(t)' = command'[t] - 1
        BY <4>1 DEF Done
      <4>3. QED
        BY <3>1, <3>2, <4>1, <4>2
    <3>4. CASE ~(command[t] < Last(t))
      <4>1. step'[t] = "idle"
        BY <2>4, <3>4 DEF TakeReply, Last
      <4>2. Done(t)' = Last(t)
        BY <3>2, <4>1 DEF Done
      <4>3. command[t] = Last(t)
        BY <3>2, <3>4
      <4>4. QED
        BY <3>1, <4>2, <4>3
    <3>5. QED
      BY <3>3, <3>4
  <2>5. Done(t)' = Done(t)
    <3>1. CASE AppendCommand(t)
      BY <3>1 DEF AppendCommand, Done
    <3>2. CASE Look(t)
      BY <2>4, <3>2 DEF Look, Done
    <3>3. CASE Trim(t)
      <4>1. obuf' = << >>
        BY <2>3, <3>3, OneElement DEF Trim, InCommand
      <4>2. QED
        BY <3>3, <4>1 DEF Trim, Done
    <3>4. CASE Read(t)
      BY <3>4 DEF Read, Done
    <3>5. CASE Take(t)
      BY <2>4, <3>5 DEF Take, Done
    <3>6. QED
      BY <1>2, <3>1, <3>2, <3>3, <3>4, <3>5 DEF RedisCommand
  <2>6. QED
    BY <1>1, <1>2, <2>1, <2>2, <2>5, ExecutedKept
<1>3. CASE Served
  BY <1>3, ExecutedKept DEF Served, vars, Done, Last, ExecutedInv
<1>4. CASE overlapped'
  BY <1>4 DEF ExecutedInv
<1>5. CASE TornAccess
  BY <1>4, <1>5, RacersMeet DEF TornAccess
<1>6. QED
  BY <1>1, <1>2, <1>3, <1>4, <1>5, ExecutedLock, ExecutedWrite DEF Next

(* The inductive invariant holds at the start. *)
LEMMA ContextInit ==
  Init => ContextInv
<1> SUFFICES ASSUME Init PROVE ContextInv
  OBVIOUS
<1> USE DEF Init
<1>1. << >> \in Seq(Messages)
  OBVIOUS
<1>2. ContextTypeOK
  <2>1. command \in [Threads -> Nat] /\ \A t \in Threads : command[t] \in 1 .. Last(t)
    <3>1. \A t \in Threads : command[t] = 1 /\ Last(t) \in {1, 2}
      BY Scripts
    <3>2. \A l \in {1, 2} : 1 \in 1 .. l
      OBVIOUS
    <3>3. QED
      BY <3>1, <3>2
  <2>2. redis_mutex \in [Handlers -> Threads \cup {NoThread}] /\ step \in [Threads -> Steps]
    BY DEF Steps
  <2>3. served \in [Threads -> Nat] /\ written \in [Threads -> Nat]
    OBVIOUS
  <2>4. got \in [Threads -> Seq(Messages)]
    BY <1>1
  <2>5. QED
    BY <1>1, <2>1, <2>2, <2>3, <2>4 DEF ContextTypeOK
<1>3. CallMutex
  BY ContextAssumption, Scripts DEF CallMutex
<1>4. SoloInv
  BY DEF SoloInv
<1>5. ExecutedInv
  BY DEF ExecutedInv, NoRepeat, OnlySent, AllSent
<1>6. QED
  BY <1>2, <1>3, <1>4, <1>5 DEF ContextInv

(* ... and is kept by every step. *)
LEMMA ContextStep ==
  ContextInv /\ [Next]_vars => ContextInv'
<1>1. ContextInv /\ Next => ContextInv'
  BY ContextTypeStep, CallMutexStep, SoloInvStep, ExecutedInvStep DEF ContextInv
<1>2. ASSUME ContextInv, UNCHANGED vars PROVE ContextInv'
  <2>1. ContextTypeOK' /\ CallMutex'
    BY <1>2 DEF ContextInv, ContextTypeOK, CallMutex, vars, Last
  <2>2. SoloInv'
    BY <1>2 DEF ContextInv, SoloInv, InCommand, Sent, Entry, vars
  <2>3. ExecutedInv'
    BY <1>2 DEF ContextInv, ExecutedInv, NoRepeat, OnlySent, AllSent, Done, Last, Entry, vars
  <2>4. QED
    BY <2>1, <2>2, <2>3 DEF ContextInv
<1>3. QED
  BY <1>1, <1>2

(* For any number of threads and calls, the conjunction of the parts above *)
(* holds of every state of the three handlers of main.cpp:169-371.         *)
THEOREM ContextInvariance == Spec => []ContextInv
BY ContextInit, ContextStep, PTL DEF Spec

(* Until calls of two handlers overlap, each command of a call returns its *)
(* own reply: a handler's mutex is enough for that handler alone.          *)
THEOREM RepliesAreOwn == Spec => []OwnReplies
<1>1. ContextInv => OwnReplies
  BY DEF ContextInv, SoloInv, OwnReplies, Entry
<1>2. QED
  BY <1>1, ContextInvariance, PTL

(* Until then the server executes each command of a finished call once:    *)
(* RequestHandler enqueues a request once (main.cpp:357-371).              *)
THEOREM CommandsOnce == Spec => []SentOnce
<1>1. ASSUME ContextInv PROVE SentOnce
  <2>1. SUFFICES ASSUME ~overlapped PROVE SentOnce
    BY DEF SentOnce
  <2>2. NoRepeat /\ \A t \in Threads : AllSent(t)
    BY <1>1, <2>1 DEF ContextInv, ExecutedInv
  <2>3. ASSUME NEW t \in Threads, Finished(t), NEW i \in DOMAIN Script(Handler(t))
        PROVE  \E j \in DOMAIN executed : executed[j] = Entry(t, i)
    <3>1. i \in 1 .. Done(t)
      <4>1. Script(Handler(t)) \in Seq(Commands)
        <5>1. /\ <<"PING">> \in Seq(Commands)
              /\ <<"GET writes", "GET reads">> \in Seq(Commands)
              /\ <<"RPUSH", "INCR writes">> \in Seq(Commands)
          <6>1. ASSUME NEW a \in Commands, NEW b \in Commands
                PROVE  <<a>> \in Seq(Commands) /\ <<a, b>> \in Seq(Commands)
            OBVIOUS
          <6>2. /\ "PING" \in Commands /\ "GET writes" \in Commands /\ "GET reads" \in Commands
                /\ "RPUSH" \in Commands /\ "INCR writes" \in Commands
            BY DEF Commands
          <6>3. QED
            BY <6>1, <6>2
        <5>2. Handler(t) \in {"health", "stats", "request"}
          BY DEF Handler
        <5>3. QED
          BY <5>1, <5>2 DEF Script
      <4>2. Done(t) = Last(t)
        BY <2>3 DEF Done, Finished
      <4>3. QED
        BY <2>3, <4>1, <4>2, LenProperties DEF Last
    <3>2. QED
      BY <2>2, <2>3, <3>1 DEF AllSent, Finished
  <2>4. QED
    BY <2>2, <2>3 DEF SentOnce, NoRepeat, Entry
<1>2. QED
  BY <1>1, ContextInvariance, PTL

(* Until then a thread that reads has a reply on its way: the safety half  *)
(* of CommandsReturn (main.cpp:353-371).                                   *)
THEOREM ReadsAreAnswered == Spec => []ReplyOnItsWay
<1>1. ASSUME ContextInv PROVE ReplyOnItsWay
  <2>1. SUFFICES ASSUME ~overlapped, NEW t \in Threads, step[t] = "read" PROVE wire # << >>
    BY DEF ReplyOnItsWay
  <2>2. wire = <<Sent(t)>>
    BY <1>1, <2>1, SoloCall DEF ContextInv, InCommand
  <2>3. QED
    BY <1>1, <2>2, SentMessage, OneElement DEF ContextInv
<1>2. QED
  BY <1>1, ContextInvariance, PTL

(* A step that leaves the command alone and goes on within it. *)
LEMMA StepOn ==
  ASSUME ContextTypeOK, NEW t \in Threads, NEW s \in Steps, Goto(t, s), command'[t] = command[t],
         \/ step[t] = "append" /\ s = "look"
         \/ step[t] = "look" /\ s = "write"
         \/ step[t] = "write" /\ s = "trim"
         \/ step[t] = "trim" /\ s = "read"
         \/ step[t] = "read" /\ s = "take"
  PROVE  StepsLeft(t)' < StepsLeft(t)
<1>1. /\ Last(t) \in {1, 2} /\ command[t] \in Nat
      /\ step'[t] = s
  BY Scripts, CommandRange DEF ContextTypeOK, Goto
<1>2. PICK d \in Int : d = 6 * (Last(t) - command[t])
  BY <1>1
<1>3. StepsLeft(t) = d + (CASE step[t] = "append" -> 6 [] step[t] = "look" -> 5 [] step[t] = "write" -> 4
                           [] step[t] = "trim" -> 3 [] step[t] = "read" -> 2 [] step[t] = "take" -> 1)
  BY <1>2 DEF StepsLeft, Last
<1>4. StepsLeft(t)' = d + (CASE s = "append" -> 6 [] s = "look" -> 5 [] s = "write" -> 4
                            [] s = "trim" -> 3 [] s = "read" -> 2 [] s = "take" -> 1)
  BY <1>1, <1>2 DEF StepsLeft, Last
<1>5. QED
  BY <1>2, <1>3, <1>4

(* The step that takes the reply of the command. *)
LEMMA StepTaken ==
  ASSUME ContextTypeOK, NEW t \in Threads, step[t] = "take", TakeReply(t)
  PROVE  StepsLeft(t)' < StepsLeft(t)
<1>1. PICK l \in {1, 2} : l = Last(t)
  BY Scripts
<1>2. PICK c \in 1 .. l : c = command[t]
  BY <1>1, CommandRange
<1>3. StepsLeft(t) = 6 * (l - c) + 1
  BY <1>1, <1>2 DEF StepsLeft, Last
<1>4. CASE c < l
  <2>1. step'[t] = "append" /\ command'[t] = c + 1
    BY <1>1, <1>2, <1>4 DEF TakeReply, Last, Goto, ContextTypeOK
  <2>2. StepsLeft(t)' = 6 * (l - (c + 1)) + 6
    BY <1>1, <2>1 DEF StepsLeft, Last
  <2>3. QED
    BY <1>3, <1>4, <2>2
<1>5. CASE ~(c < l)
  <2>1. step'[t] = "idle"
    BY <1>1, <1>2, <1>5 DEF TakeReply, Last, Goto, ContextTypeOK
  <2>2. StepsLeft(t)' = 0
    BY <2>1 DEF StepsLeft
  <2>3. QED
    BY <1>3, <1>5, <2>2
<1>6. QED
  BY <1>4, <1>5

(* Until then each step of a call brings it nearer to its end, so that     *)
(* CommandsReturn needs no more than that the thread is scheduled          *)
(* (main.cpp:353-371).                                                     *)
THEOREM CallsGoOn == Spec => CallsAdvance
<1>1. ASSUME ContextInv, ~overlapped, NEW t \in Threads, RedisCommand(t)
      PROVE  StepsLeft(t)' < StepsLeft(t)
  <2>1. ContextTypeOK /\ step[t] # "idle"
    BY <1>1 DEF ContextInv, RedisCommand, AppendCommand, Look, Write, Trim, Read, Take
  <2>2. InCommand(t) /\ Sent(t) \in Messages
    BY <1>1, <2>1, SoloCall, SentMessage DEF ContextInv
  <2>3. CASE AppendCommand(t)
    BY <2>1, <2>3, StepOn DEF AppendCommand, Steps
  <2>4. CASE Look(t)
    <3>1. reader = << >> /\ step[t] = "look"
      BY <2>2, <2>4 DEF InCommand, Look
    <3>2. Goto(t, "write") /\ command' = command
      BY <2>4, <3>1 DEF Look, TakeReply
    <3>3. QED
      BY <2>1, <3>1, <3>2, StepOn DEF Steps
  <2>5. CASE Write(t)
    BY <2>1, <2>5, StepOn DEF Write, Steps
  <2>6. CASE Trim(t)
    <3>1. obuf' = << >>
      BY <2>2, <2>6, OneElement DEF Trim, InCommand
    <3>2. step[t] = "trim" /\ Goto(t, "read") /\ command' = command
      BY <2>6, <3>1 DEF Trim
    <3>3. QED
      BY <2>1, <3>2, StepOn DEF Steps
  <2>7. CASE Read(t)
    BY <2>1, <2>7, StepOn DEF Read, Steps
  <2>8. CASE Take(t)
    <3>1. reader # << >> /\ step[t] = "take"
      BY <2>2, <2>8, OneElement DEF InCommand, Take
    <3>2. TakeReply(t)
      BY <2>8, <3>1 DEF Take
    <3>3. QED
      BY <2>1, <3>1, <3>2, StepTaken
  <2>9. QED
    BY <1>1, <2>3, <2>4, <2>5, <2>6, <2>7, <2>8 DEF RedisCommand
<1>2. ContextInv /\ [Next]_vars =>
        [~overlapped => \A t \in Threads : RedisCommand(t) => StepsLeft(t)' < StepsLeft(t)]_vars
  BY <1>1
<1>3. QED
  BY <1>2, ContextInvariance, PTL DEF Spec, CallsAdvance
=============================================================================
