------------------------ MODULE HandlerRegistryProofs ------------------------
(***************************************************************************)
(* The inductive invariant of HandlerRegistry holds for every number of    *)
(* service threads and every well-behaved owner: no handler is destroyed   *)
(* under a thread that uses it, reference counts are exact, no connection  *)
(* is forgotten and no scrape is lost.                                     *)
(***************************************************************************)
EXTENDS HandlerRegistry, DataLemmas, FiniteSetTheorems

Entries == [uri : Handlers, refcount : Nat, removing : BOOLEAN]

(* The places of the program that is left are the later ones of the program.*)
LEMMA TailPlaces ==
  ASSUME NEW S, NEW p \in Seq(S), p # << >>
  PROVE  /\ Head(p) = p[1] /\ 1 \in DOMAIN p /\ Head(p) \in S
         /\ Tail(p) \in Seq(S)
         /\ \A k \in DOMAIN Tail(p) : k \in Nat /\ k + 1 \in DOMAIN p /\ Tail(p)[k] = p[k + 1]
         /\ \A k \in DOMAIN p : k \in Nat /\ (k > 1 => k - 1 \in DOMAIN Tail(p) /\ Tail(p)[k - 1] = p[k])
<1>1. /\ Len(p) \in Nat /\ Len(p) > 0 /\ DOMAIN p = 1 .. Len(p)
      /\ Tail(p) \in Seq(S) /\ Len(Tail(p)) = Len(p) - 1 /\ DOMAIN Tail(p) = 1 .. (Len(p) - 1)
      /\ \A k \in 1 .. (Len(p) - 1) : Tail(p)[k] = p[k + 1]
  BY LenProperties, HeadTailProperties, EmptySeq
<1>2. ASSUME NEW k \in DOMAIN p, k > 1
      PROVE  k - 1 \in DOMAIN Tail(p) /\ Tail(p)[k - 1] = p[k]
  <2>1. k - 1 \in 1 .. (Len(p) - 1) /\ k - 1 + 1 = k
    BY <1>1, <1>2
  <2>2. QED
    BY <1>1, <2>1
<1>3. Head(p) = p[1] /\ Head(p) \in S
  BY HeadTailProperties
<1>4. QED
  BY <1>1, <1>2, <1>3

-----------------------------------------------------------------------------
(* What is left of a well-behaved program is well-behaved. *)
LEMMA TailWellBehaved ==
  ASSUME NEW S, NEW p \in Seq(S), p # << >>, WellBehaved(p)
  PROVE  WellBehaved(Tail(p))
<1>1. /\ \A k \in DOMAIN Tail(p) : k \in Nat /\ k + 1 \in DOMAIN p /\ Tail(p)[k] = p[k + 1]
      /\ DOMAIN p = 1 .. Len(p) /\ Len(p) \in Nat /\ DOMAIN Tail(p) = 1 .. (Len(p) - 1)
  BY TailPlaces, LenProperties, HeadTailProperties
<1>2. SUFFICES ASSUME NEW j \in DOMAIN Tail(p), NEW k \in DOMAIN Tail(p),
                      Tail(p)[j].op = "add", Tail(p)[k].op \in {"add", "destroy"},
                      Tail(p)[j].uri = Tail(p)[k].uri
               PROVE  \/ Tail(p)[k].op = "add" /\ j = k
                      \/ /\ Tail(p)[k].op = "destroy"
                         /\ \E i \in (j + 1) .. (k - 1) : Ends(Tail(p)[i], Tail(p)[j].uri)
  BY DEF WellBehaved
<1>3. /\ j \in Nat /\ k \in Nat /\ j + 1 \in DOMAIN p /\ k + 1 \in DOMAIN p
      /\ Tail(p)[j] = p[j + 1] /\ Tail(p)[k] = p[k + 1]
  BY <1>1
<1>4. \/ p[k + 1].op = "add" /\ j + 1 = k + 1
      \/ /\ p[k + 1].op = "destroy"
         /\ \E i \in (j + 1 + 1) .. (k + 1 - 1) : Ends(p[i], p[j + 1].uri)
  BY <1>2, <1>3 DEF WellBehaved
<1>5. CASE p[k + 1].op = "add" /\ j + 1 = k + 1
  BY <1>3, <1>5
<1>6. ASSUME NEW i \in (j + 1 + 1) .. (k + 1 - 1), Ends(p[i], p[j + 1].uri)
      PROVE  \E m \in (j + 1) .. (k - 1) : Ends(Tail(p)[m], Tail(p)[j].uri)
  <2>1. i - 1 \in (j + 1) .. (k - 1) /\ i - 1 \in DOMAIN Tail(p) /\ i - 1 + 1 = i
    BY <1>1, <1>3
  <2>2. Tail(p)[i - 1] = p[i]
    BY <1>1, <2>1
  <2>3. QED
    BY <1>3, <1>6, <2>1, <2>2
<1>7. QED
  BY <1>3, <1>4, <1>5, <1>6

(* What is left still fits an entry that the first operation leaves alone. *)
LEMMA TailFits ==
  ASSUME NEW S, NEW p \in Seq(S), p # << >>, NEW u, Fits(u, p), ~Ends(Head(p), u)
  PROVE  Fits(u, Tail(p))
<1>1. /\ \A k \in DOMAIN Tail(p) : k \in Nat /\ k + 1 \in DOMAIN p /\ Tail(p)[k] = p[k + 1]
      /\ Head(p) = p[1]
      /\ DOMAIN Tail(p) = 1 .. (Len(p) - 1) /\ Len(p) \in Nat
  BY TailPlaces, LenProperties, HeadTailProperties
<1>2. SUFFICES ASSUME NEW k \in DOMAIN Tail(p)
               PROVE  /\ Tail(p)[k].op = "add" => Tail(p)[k].uri # u
                      /\ (Tail(p)[k].op = "destroy" /\ Tail(p)[k].uri = u) =>
                           \E j \in 1 .. (k - 1) : Ends(Tail(p)[j], u)
  BY DEF Fits
<1>3. /\ k \in Nat /\ k + 1 \in DOMAIN p /\ Tail(p)[k] = p[k + 1] /\ k + 1 - 1 = k
  BY <1>1
<1>4. Tail(p)[k].op = "add" => Tail(p)[k].uri # u
  BY <1>3 DEF Fits
<1>5. ASSUME Tail(p)[k].op = "destroy", Tail(p)[k].uri = u
      PROVE  \E j \in 1 .. (k - 1) : Ends(Tail(p)[j], u)
  <2>0. PICK m \in DOMAIN p : m = k + 1 /\ p[m].op = "destroy" /\ p[m].uri = u
    BY <1>3, <1>5
  <2>1. PICK j \in 1 .. (m - 1) : Ends(p[j], u)
    BY <2>0 DEF Fits
  <2>2. j # 1
    BY <1>1, <2>1
  <2>3. j - 1 \in 1 .. (k - 1) /\ j - 1 \in DOMAIN Tail(p) /\ j - 1 + 1 = j
    BY <1>1, <1>3, <2>0, <2>2
  <2>4. QED
    BY <1>1, <2>1, <2>3
<1>6. QED
  BY <1>4, <1>5

(* What is left fits the entry that the first operation adds. *)
LEMMA TailFitsAdded ==
  ASSUME NEW S, NEW p \in Seq(S), p # << >>, WellBehaved(p), Head(p).op = "add"
  PROVE  Fits(Head(p).uri, Tail(p))
<1> DEFINE u == Head(p).uri
<1>1. /\ \A k \in DOMAIN Tail(p) : k \in Nat /\ k + 1 \in DOMAIN p /\ Tail(p)[k] = p[k + 1]
      /\ Head(p) = p[1] /\ 1 \in DOMAIN p
      /\ DOMAIN Tail(p) = 1 .. (Len(p) - 1) /\ Len(p) \in Nat
  BY TailPlaces, LenProperties, HeadTailProperties
<1>2. SUFFICES ASSUME NEW k \in DOMAIN Tail(p)
               PROVE  /\ Tail(p)[k].op = "add" => Tail(p)[k].uri # u
                      /\ (Tail(p)[k].op = "destroy" /\ Tail(p)[k].uri = u) =>
                           \E j \in 1 .. (k - 1) : Ends(Tail(p)[j], u)
  BY DEF Fits
<1>3. /\ k \in 1 .. (Len(p) - 1) /\ k \in Nat /\ k + 1 \in DOMAIN p /\ Tail(p)[k] = p[k + 1]
      /\ k + 1 - 1 = k /\ k + 1 # 1
  BY <1>1
<1>4. (p[k + 1].op \in {"add", "destroy"} /\ p[k + 1].uri = u) =>
        p[k + 1].op = "destroy" /\ \E i \in (1 + 1) .. (k + 1 - 1) : Ends(p[i], u)
  BY <1>1, <1>3 DEF WellBehaved
<1>5. Tail(p)[k].op = "add" => Tail(p)[k].uri # u
  BY <1>3, <1>4
<1>6. ASSUME Tail(p)[k].op = "destroy", Tail(p)[k].uri = u
      PROVE  \E j \in 1 .. (k - 1) : Ends(Tail(p)[j], u)
  <2>1. PICK i \in 2 .. k : Ends(p[i], u)
    BY <1>3, <1>4, <1>6
  <2>2. i - 1 \in 1 .. (k - 1) /\ i - 1 \in DOMAIN Tail(p) /\ i - 1 + 1 = i
    BY <1>1, <1>3
  <2>3. QED
    BY <1>1, <2>1, <2>2
<1>7. QED
  BY <1>5, <1>6

-----------------------------------------------------------------------------
(* Steps of service threads keep the URIs of the list at their places.     *)
SameURIs ==
  /\ DOMAIN handlers' = DOMAIN handlers
  /\ \A i \in DOMAIN handlers : handlers'[i].uri = handlers[i].uri

(* What holds of the list and of the program still holds when the list     *)
(* keeps its URIs in their places and the owner does not go on.            *)
LEMMA SameList ==
  ASSUME TypeOK, UniqueInv, ProgramInv, SameURIs, UNCHANGED <<program, alive>>
  PROVE  UniqueInv' /\ ProgramInv'
BY DEF UniqueInv, ProgramInv, SameURIs

(* The owner goes on and takes nothing new into the list. *)
LEMMA ListAdvance ==
  ASSUME TypeOK, ProgramInv, program # << >>, Done,
         alive' = IF Head(program).op = "destroy" THEN alive \ {This} ELSE alive,
         \A i \in DOMAIN handlers' :
           /\ \E m \in DOMAIN handlers : handlers'[i].uri = handlers[m].uri
           /\ ~Ends(Head(program), handlers'[i].uri)
  PROVE  ProgramInv'
<1>1. program \in Seq(Ops)
  BY DEF TypeOK
<1>2. /\ Head(program) = program[1] /\ 1 \in DOMAIN program
      /\ \A k \in DOMAIN Tail(program) :
           k \in Nat /\ k + 1 \in DOMAIN program /\ Tail(program)[k] = program[k + 1]
  BY <1>1, TailPlaces
<1>3. WellBehaved(Tail(program))
  BY <1>1, TailWellBehaved DEF ProgramInv
<1>4. ASSUME NEW i \in DOMAIN handlers'
      PROVE  handlers'[i].uri \in alive' /\ Fits(handlers'[i].uri, Tail(program))
  <2>1. PICK m \in DOMAIN handlers : handlers'[i].uri = handlers[m].uri
    BY <1>4
  <2>2. handlers'[i].uri \in alive /\ Fits(handlers'[i].uri, program)
    BY <2>1 DEF ProgramInv
  <2>3. Fits(handlers'[i].uri, Tail(program))
    BY <1>1, <2>2, TailFits
  <2>4. Head(program).op = "destroy" => This # handlers'[i].uri
    BY <1>2, <2>2 DEF Fits, This
  <2>5. QED
    BY <2>2, <2>3, <2>4
<1>5. ASSUME NEW k \in DOMAIN Tail(program), Tail(program)[k].op = "add"
      PROVE  Tail(program)[k].uri \in alive'
  <2>1. /\ k \in Nat /\ k + 1 \in DOMAIN program /\ Tail(program)[k] = program[k + 1]
    BY <1>2
  <2>2. program[k + 1].op = "add" /\ program[k + 1].uri \in alive
    BY <1>5, <2>1 DEF ProgramInv
  <2>3. Head(program).op = "destroy" => This # program[k + 1].uri
    <3>1. ASSUME program[1].op = "destroy", program[k + 1].uri = program[1].uri
          PROVE  \E i \in (k + 1 + 1) .. (1 - 1) : Ends(program[i], program[k + 1].uri)
      BY <1>2, <2>1, <2>2, <3>1 DEF ProgramInv, WellBehaved
    <3>2. (k + 1 + 1) .. (1 - 1) = {}
      BY <2>1
    <3>3. QED
      BY <1>2, <3>1, <3>2 DEF This
  <2>4. QED
    BY <2>1, <2>2, <2>3
<1>6. QED
  BY <1>3, <1>4, <1>5 DEF ProgramInv, Done

(* The owner adds an entry at the end of the list. *)
LEMMA ListAdd ==
  ASSUME TypeOK, UniqueInv, ProgramInv, AddHandler
  PROVE  UniqueInv' /\ ProgramInv'
<1>1. /\ program \in Seq(Ops) /\ program # << >> /\ Head(program).op = "add"
      /\ handlers \in Seq(Entries) /\ This = Head(program).uri
      /\ program' = Tail(program) /\ alive' = alive
  BY DEF TypeOK, AddHandler, At, This, Done, Entries
<1>2. /\ Head(program) = program[1] /\ 1 \in DOMAIN program /\ Head(program) \in Ops
      /\ \A k \in DOMAIN Tail(program) :
           k \in Nat /\ k + 1 \in DOMAIN program /\ Tail(program)[k] = program[k + 1]
  BY <1>1, TailPlaces
<1>3. /\ Len(handlers) \in Nat /\ DOMAIN handlers = 1 .. Len(handlers)
      /\ DOMAIN handlers' = 1 .. (Len(handlers) + 1)
      /\ \A i \in DOMAIN handlers : handlers'[i] = handlers[i]
      /\ handlers'[Len(handlers) + 1].uri = This
  <2>1. [uri |-> This, refcount |-> 0, removing |-> FALSE] \in Entries
    BY <1>1, <1>2 DEF Ops, Entries
  <2>2. QED
    BY <1>1, <2>1, LenProperties, AppendProperties DEF AddHandler
<1>4. \A i \in DOMAIN handlers' : i \in DOMAIN handlers \/ i = Len(handlers) + 1
  BY <1>3
<1>5. \A i \in DOMAIN handlers : handlers[i].uri # This
  BY <1>1, <1>2 DEF ProgramInv, Fits
<1>6. UniqueInv'
  BY <1>3, <1>4, <1>5 DEF UniqueInv
<1>7. ASSUME NEW i \in DOMAIN handlers'
      PROVE  handlers'[i].uri \in alive /\ Fits(handlers'[i].uri, Tail(program))
  <2>1. CASE i \in DOMAIN handlers
    <3>1. handlers[i].uri \in alive /\ Fits(handlers[i].uri, program)
      BY <2>1 DEF ProgramInv
    <3>2. ~Ends(Head(program), handlers[i].uri)
      BY <1>1 DEF Ends
    <3>3. QED
      BY <1>1, <1>3, <2>1, <3>1, <3>2, TailFits
  <2>2. CASE i = Len(handlers) + 1
    <3>1. This \in alive
      BY <1>1, <1>2 DEF ProgramInv
    <3>2. Fits(This, Tail(program))
      BY <1>1, TailFitsAdded DEF ProgramInv
    <3>3. QED
      BY <1>3, <2>2, <3>1, <3>2
  <2>3. QED
    BY <1>4, <2>1, <2>2
<1>8. WellBehaved(Tail(program))
  BY <1>1, TailWellBehaved DEF ProgramInv
<1>9. QED
  BY <1>1, <1>2, <1>6, <1>7, <1>8 DEF ProgramInv

-----------------------------------------------------------------------------
HoldingSteps == {"enter", "handle", "load", "cas", "release"}

(* The threads for which a function has a value: Holders for held. *)
Users(f, u) == {t \in Threads : f[t] = u}

(* The threads that hold an entry are finitely many. *)
LEMMA UsersFinite ==
  ASSUME NEW f, NEW u
  PROVE  IsFiniteSet(Users(f, u)) /\ Cardinality(Users(f, u)) \in Nat
<1>1. Users(f, u) \in SUBSET Threads
  BY DEF Users
<1>2. QED
  BY <1>1, RegistryAssumption, FS_Subset, FS_CardinalityType

(* A thread that takes a reference is one holder more of one entry. *)
LEMMA UsersTake ==
  ASSUME NEW f \in [Threads -> Handlers \cup {NoURI}], NEW t \in Threads, f[t] = NoURI,
         NEW v \in Handlers, NEW u \in Handlers
  PROVE  Cardinality(Users([f EXCEPT ![t] = v], u)) = Cardinality(Users(f, u)) + (IF u = v THEN 1 ELSE 0)
<1>1. t \notin Users(f, u)
  BY RegistryAssumption DEF Users
<1>2. Users([f EXCEPT ![t] = v], u) = IF u = v THEN Users(f, u) \cup {t} ELSE Users(f, u)
  BY <1>1 DEF Users
<1>3. Cardinality(Users(f, u) \cup {t}) = Cardinality(Users(f, u)) + 1
  BY <1>1, UsersFinite, FS_AddElement
<1>4. QED
  BY <1>2, <1>3, UsersFinite

(* A thread that gives its reference back is one holder less. *)
LEMMA UsersGive ==
  ASSUME NEW f \in [Threads -> Handlers \cup {NoURI}], NEW t \in Threads, f[t] # NoURI,
         NEW u \in Handlers
  PROVE  /\ Cardinality(Users([f EXCEPT ![t] = NoURI], u))
              = Cardinality(Users(f, u)) - (IF u = f[t] THEN 1 ELSE 0)
         /\ u = f[t] => Cardinality(Users(f, u)) > 0
<1>1. Users([f EXCEPT ![t] = NoURI], u) = IF u = f[t] THEN Users(f, u) \ {t} ELSE Users(f, u)
  BY RegistryAssumption DEF Users
<1>2. u = f[t] => t \in Users(f, u)
  BY DEF Users
<1>3. t \in Users(f, u) => Cardinality(Users(f, u) \ {t}) = Cardinality(Users(f, u)) - 1
  BY UsersFinite, FS_RemoveElement
<1>4. t \in Users(f, u) => Cardinality(Users(f, u)) # 0
  BY UsersFinite, FS_EmptySet
<1>5. QED
  BY <1>1, <1>2, <1>3, <1>4, UsersFinite

(* RefcountExact, now and after a step, in these terms. *)
LEMMA RefcountNow ==
  ASSUME RefcountExact
  PROVE  \A i \in DOMAIN handlers : handlers[i].refcount = Cardinality(Users(held, handlers[i].uri))
BY DEF RefcountExact, Holders, Users

(* Exact reference counts, put back together from counts per URI.          *)
LEMMA RefcountNext ==
  ASSUME \A i \in DOMAIN handlers' : handlers'[i].refcount = Cardinality(Users(held', handlers'[i].uri)),
         \A t \in Threads : held'[t] # NoURI => \E i \in DOMAIN handlers' : handlers'[i].uri = held'[t]
  PROVE  RefcountExact'
BY DEF RefcountExact, Holders, Users

(* A step of a thread that touches neither the list nor its reference.     *)
LEMMA QuietStep ==
  ASSUME RegistryInv, NEW t \in Threads,
         \/ \E u \in Requests, m \in Methods : Arrive(t, u, m)
         \/ Enter(t) \/ Handle(t) \/ LoadValue(t) \/ SwapValue(t) \/ NoFile(t) \/ Close(t)
  PROVE  RegistryInv'
<1>1. UNCHANGED <<program, handlers, alive, server, held>>
  BY DEF Arrive, Enter, Handle, LoadValue, SwapValue, NoFile, Close
<1>2. UniqueInv' /\ ProgramInv' /\ RefcountExact'
  BY <1>1 DEF RegistryInv, UniqueInv, ProgramInv, RefcountExact, Holders
<1>3. PICK s \in ThreadSteps : step' = [step EXCEPT ![t] = s]
  BY DEF RegistryInv, TypeOK, Arrive, Enter, Handle, LoadValue, SwapValue, NoFile, Close, Goto,
         ThreadSteps
<1>4. step[t] \in HoldingSteps <=> step'[t] \in HoldingSteps
  BY DEF RegistryInv, TypeOK, Arrive, Enter, Handle, LoadValue, SwapValue, NoFile, Close, Goto,
         HoldingSteps
<1>5. HolderInv'
  BY <1>1, <1>3, <1>4 DEF RegistryInv, TypeOK, HolderInv, HoldingSteps
<1>6. TypeOK'
  <2>1. step' \in [Threads -> ThreadSteps]
    BY <1>3 DEF RegistryInv, TypeOK
  <2>2. connections' \subseteq Threads
    BY DEF RegistryInv, TypeOK, Arrive, Enter, Handle, LoadValue, SwapValue, NoFile, Close
  <2>3. uri' \in [Threads -> Requests \cup {NoURI}] /\ method' \in [Threads -> Methods]
    BY ZenonT(40) DEF RegistryInv, TypeOK, Arrive, Enter, Handle, LoadValue, SwapValue, NoFile, Close, Methods
  <2>4. /\ scrapes' \in Nat /\ arrived' \in Nat /\ counted' \in Nat
        /\ current' \in [Threads -> Nat]
    BY DEF RegistryInv, TypeOK, Arrive, Enter, Handle, LoadValue, SwapValue, NoFile, Close
  <2>5. QED
    BY <1>1, <2>1, <2>2, <2>3, <2>4 DEF RegistryInv, TypeOK
<1>7. ConnectionsTracked'
  <2>1. /\ step'[t] = "idle" => t \notin connections'
        /\ step'[t] \in {"handle", "load", "cas", "release"} => t \in connections'
    BY DEF RegistryInv, TypeOK, ConnectionsTracked, Arrive, Enter, Handle, LoadValue, SwapValue,
           NoFile, Close, Goto
  <2>2. \A v \in Threads : v # t => step'[v] = step[v] /\ (v \in connections' <=> v \in connections)
    BY <1>3 DEF RegistryInv, TypeOK, Arrive, Enter, Handle, LoadValue, SwapValue, NoFile, Close
  <2>3. QED
    BY <1>6, <2>1, <2>2 DEF RegistryInv, TypeOK, ConnectionsTracked
<1>8. NoLostScrape'
  BY DEF RegistryInv, NoLostScrape, Arrive, Enter, Handle, LoadValue, SwapValue, NoFile, Close
<1>9. QED
  BY <1>2, <1>5, <1>6, <1>7, <1>8 DEF RegistryInv

(* A thread takes a reference, or finds nothing. *)
LEMMA LookupStep ==
  ASSUME RegistryInv, NEW t \in Threads, Lookup(t)
  PROVE  RegistryInv'
<1>0. TypeOK /\ HolderInv /\ UniqueInv /\ ProgramInv /\ RefcountExact /\ ConnectionsTracked /\ NoLostScrape
  BY DEF RegistryInv
<1>1. /\ UNCHANGED <<program, alive, server, uri, method, connections, scrapes, current, arrived, counted>>
      /\ step[t] = "lookup" /\ held[t] = NoURI
  BY <1>0 DEF Lookup, HolderInv, TypeOK
<1>2. CASE NothingFound(t)
  <2>1. step' = [step EXCEPT ![t] = "file"] /\ UNCHANGED <<held, handlers>>
    BY <1>2 DEF NothingFound, Goto
  <2>2. TypeOK'
    BY <1>0, <1>1, <2>1 DEF TypeOK, ThreadSteps
  <2>3. HolderInv' /\ ConnectionsTracked'
    BY <1>0, <1>1, <2>1 DEF TypeOK, HolderInv, ConnectionsTracked
  <2>4. UniqueInv' /\ ProgramInv' /\ RefcountExact' /\ NoLostScrape'
    BY <1>0, <1>1, <2>1 DEF UniqueInv, ProgramInv, RefcountExact, Holders, NoLostScrape
  <2>5. QED
    BY <2>2, <2>3, <2>4 DEF RegistryInv
<1>3. ASSUME NEW i \in DOMAIN handlers,
             handlers' = [handlers EXCEPT ![i].refcount = @ + 1],
             held' = [held EXCEPT ![t] = handlers[i].uri],
             step' = [step EXCEPT ![t] = "enter"]
      PROVE  RegistryInv'
  <2>1. /\ handlers \in Seq(Entries) /\ Len(handlers) \in Nat /\ DOMAIN handlers = 1 .. Len(handlers)
        /\ \A j \in DOMAIN handlers : handlers[j] \in Entries
    BY <1>0, LenProperties, ElementOfSeq DEF TypeOK, Entries
  <2>2. /\ DOMAIN handlers' = DOMAIN handlers
        /\ \A j \in DOMAIN handlers :
             /\ handlers'[j] \in Entries /\ handlers'[j].uri = handlers[j].uri
             /\ handlers'[j].refcount = handlers[j].refcount + (IF j = i THEN 1 ELSE 0)
    BY <1>3, <2>1, SMTT(30) DEF Entries
  <2>3. handlers' \in Seq(Entries)
    <3>1. handlers' \in [1 .. Len(handlers) -> Entries]
      BY <1>3, <2>1, <2>2
    <3>2. QED
      BY <2>1, <3>1, IntervalSeq
  <2>4. handlers[i].uri \in Handlers /\ handlers[i].uri # NoURI
    BY <2>1, RegistryAssumption DEF Entries
  <2>5. TypeOK'
    BY <1>0, <1>1, <1>3, <2>3, <2>4 DEF TypeOK, ThreadSteps, Entries
  <2>6. HolderInv' /\ ConnectionsTracked'
    BY <1>0, <1>1, <1>3, <2>4 DEF TypeOK, HolderInv, ConnectionsTracked
  <2>7. UniqueInv' /\ ProgramInv'
    BY <1>0, <1>1, <2>2, SameList DEF SameURIs
  <2>8. ASSUME NEW j \in DOMAIN handlers'
        PROVE  handlers'[j].refcount = Cardinality(Users(held', handlers'[j].uri))
    <3>1. handlers[j].uri \in Handlers /\ handlers[j].refcount = Cardinality(Users(held, handlers[j].uri))
      BY <1>0, <2>1, <2>2, RefcountNow DEF Entries
    <3>2. handlers[j].uri = handlers[i].uri <=> j = i
      BY <1>0, <2>2 DEF UniqueInv
    <3>3. Cardinality(Users(held', handlers[j].uri))
            = Cardinality(Users(held, handlers[j].uri)) + (IF handlers[j].uri = handlers[i].uri THEN 1 ELSE 0)
      BY <1>0, <1>1, <1>3, <2>4, <3>1, UsersTake DEF TypeOK
    <3>4. QED
      BY <2>2, <3>1, <3>2, <3>3
  <2>9. RefcountExact'
    <3>1. ASSUME NEW v \in Threads, held'[v] # NoURI
          PROVE  \E j \in DOMAIN handlers' : handlers'[j].uri = held'[v]
      BY <1>0, <1>3, <2>2, <3>1 DEF TypeOK, RefcountExact
    <3>2. QED
      BY <2>8, <3>1, RefcountNext
  <2>10. QED
    BY <1>0, <1>1, <2>5, <2>6, <2>7, <2>9 DEF RegistryInv, NoLostScrape
<1>4. QED
  BY <1>2, <1>3 DEF Lookup, Goto

(* A thread gives its reference back to the entry it took it from. *)
LEMMA ReleaseStep ==
  ASSUME RegistryInv, NEW t \in Threads, Release(t)
  PROVE  RegistryInv'
<1>0. TypeOK /\ HolderInv /\ UniqueInv /\ ProgramInv /\ RefcountExact /\ ConnectionsTracked /\ NoLostScrape
  BY DEF RegistryInv
<1>1. /\ UNCHANGED <<program, alive, server, uri, method, connections, scrapes, current, arrived, counted>>
      /\ step[t] = "release" /\ held[t] # NoURI /\ held[t] \in Handlers
      /\ held' = [held EXCEPT ![t] = NoURI]
  BY <1>0 DEF Release, HolderInv, TypeOK
<1>2. PICK s \in {"close", "file"} : step' = [step EXCEPT ![t] = s]
  BY DEF Release, Goto
<1>3. /\ handlers \in Seq(Entries) /\ Len(handlers) \in Nat /\ DOMAIN handlers = 1 .. Len(handlers)
      /\ \A j \in DOMAIN handlers : handlers[j] \in Entries
  BY <1>0, LenProperties, ElementOfSeq DEF TypeOK, Entries
<1>4. ASSUME NEW j \in DOMAIN handlers
      PROVE  /\ handlers[j].uri \in Handlers
             /\ handlers[j].refcount = Cardinality(Users(held, handlers[j].uri))
             /\ handlers[j].uri = held[t] => handlers[j].refcount > 0
             /\ Cardinality(Users(held', handlers[j].uri))
                  = handlers[j].refcount - (IF handlers[j].uri = held[t] THEN 1 ELSE 0)
  <2>1. handlers[j].uri \in Handlers
    BY <1>3 DEF Entries
  <2>2. handlers[j].refcount = Cardinality(Users(held, handlers[j].uri))
    BY <1>0, RefcountNow
  <2>3. held \in [Threads -> Handlers \cup {NoURI}]
    BY <1>0 DEF TypeOK
  <2>4. /\ Cardinality(Users(held', handlers[j].uri))
             = Cardinality(Users(held, handlers[j].uri)) - (IF handlers[j].uri = held[t] THEN 1 ELSE 0)
        /\ handlers[j].uri = held[t] => Cardinality(Users(held, handlers[j].uri)) > 0
    BY <1>1, <2>1, <2>3, UsersGive
  <2>5. QED
    BY <2>1, <2>2, <2>4
<1>5. /\ DOMAIN handlers' = DOMAIN handlers
      /\ \A j \in DOMAIN handlers :
           /\ handlers'[j] \in Entries /\ handlers'[j].uri = handlers[j].uri
           /\ handlers'[j].refcount = handlers[j].refcount - (IF handlers[j].uri = held[t] THEN 1 ELSE 0)
  <2>1. DOMAIN handlers' = DOMAIN handlers
    BY DEF Release
  <2>2. ASSUME NEW j \in DOMAIN handlers
        PROVE  /\ handlers'[j] \in Entries /\ handlers'[j].uri = handlers[j].uri
               /\ handlers'[j].refcount = handlers[j].refcount - (IF handlers[j].uri = held[t] THEN 1 ELSE 0)
    <3>1. handlers'[j] = IF handlers[j].uri = held[t]
                         THEN [handlers[j] EXCEPT !.refcount = @ - 1]
                         ELSE handlers[j]
      BY DEF Release
    <3>2. CASE handlers[j].uri = held[t]
      <4>1. handlers[j].refcount - 1 \in Nat
        BY <1>3, <1>4, <3>2 DEF Entries
      <4>2. QED
        BY <1>3, <3>1, <3>2, <4>1 DEF Entries
    <3>3. CASE handlers[j].uri # held[t]
      BY <1>3, <3>1, <3>3 DEF Entries
    <3>4. QED
      BY <3>2, <3>3
  <2>3. QED
    BY <2>1, <2>2
<1>6. handlers' \in Seq(Entries)
  <2>1. handlers' \in [1 .. Len(handlers) -> Entries]
    <3>1. handlers' = [j \in DOMAIN handlers |-> handlers'[j]]
      BY DEF Release
    <3>2. QED
      BY <1>3, <1>5, <3>1
  <2>2. QED
    BY <1>3, <2>1, IntervalSeq
<1>7. TypeOK'
  BY <1>0, <1>1, <1>2, <1>6 DEF TypeOK, ThreadSteps, Entries
<1>8. HolderInv' /\ ConnectionsTracked'
  BY <1>0, <1>1, <1>2 DEF TypeOK, HolderInv, ConnectionsTracked
<1>9. UniqueInv' /\ ProgramInv'
  BY <1>0, <1>1, <1>5, SameList DEF SameURIs
<1>10. RefcountExact'
  <2>1. \A j \in DOMAIN handlers' : handlers'[j].refcount = Cardinality(Users(held', handlers'[j].uri))
    BY <1>4, <1>5
  <2>2. ASSUME NEW v \in Threads, held'[v] # NoURI
        PROVE  \E j \in DOMAIN handlers' : handlers'[j].uri = held'[v]
    BY <1>0, <1>1, <1>5, <2>2 DEF TypeOK, RefcountExact
  <2>3. QED
    BY <2>1, <2>2, RefcountNext
<1>11. QED
  BY <1>0, <1>1, <1>7, <1>8, <1>9, <1>10 DEF RegistryInv, NoLostScrape
-----------------------------------------------------------------------------
(* A step of the owner that leaves the threads alone keeps all but the     *)
(* facts about the list.                                                   *)
LEMMA OwnerKeeps ==
  ASSUME RegistryInv, UNCHANGED threadVars, program' \in Seq(Ops), handlers' \in Seq(Entries),
         alive' \subseteq alive, server' \in {"open", "stopping", "hung", "closed"},
         UniqueInv', ProgramInv', RefcountExact'
  PROVE  RegistryInv'
<1>1. TypeOK'
  BY DEF RegistryInv, TypeOK, threadVars, Entries
<1>2. HolderInv' /\ ConnectionsTracked' /\ NoLostScrape'
  BY DEF RegistryInv, threadVars, HolderInv, ConnectionsTracked, NoLostScrape
<1>3. QED
  BY <1>1, <1>2 DEF RegistryInv

(* The owner adds a handler. *)
LEMMA AddStep ==
  ASSUME RegistryInv, AddHandler
  PROVE  RegistryInv'
<1>0. TypeOK /\ UniqueInv /\ ProgramInv /\ RefcountExact
  BY DEF RegistryInv
<1>1. UniqueInv' /\ ProgramInv'
  BY <1>0, ListAdd
<1>2. /\ program \in Seq(Ops) /\ program # << >> /\ Head(program).op = "add"
      /\ handlers \in Seq(Entries) /\ This = Head(program).uri
      /\ program' = Tail(program) /\ UNCHANGED <<alive, server, threadVars>>
  BY <1>0 DEF TypeOK, AddHandler, At, This, Done, Entries
<1>3. Head(program) = program[1] /\ 1 \in DOMAIN program /\ Head(program) \in Ops /\ program' \in Seq(Ops)
  BY <1>2, TailPlaces
<1>4. [uri |-> This, refcount |-> 0, removing |-> FALSE] \in Entries
  BY <1>2, <1>3 DEF Ops, Entries
<1>5. /\ Len(handlers) \in Nat /\ DOMAIN handlers = 1 .. Len(handlers)
      /\ DOMAIN handlers' = 1 .. (Len(handlers) + 1) /\ handlers' \in Seq(Entries)
      /\ \A i \in DOMAIN handlers : handlers'[i] = handlers[i]
      /\ handlers'[Len(handlers) + 1] = [uri |-> This, refcount |-> 0, removing |-> FALSE]
  BY <1>2, <1>4, LenProperties, AppendProperties DEF AddHandler
<1>6. held' = held
  BY <1>2 DEF threadVars
<1>7. Cardinality(Users(held, This)) = 0
  <2>1. \A i \in DOMAIN handlers : handlers[i].uri # This
    BY <1>0, <1>2, <1>3 DEF ProgramInv, Fits
  <2>2. This # NoURI
    BY <1>4, RegistryAssumption DEF Entries
  <2>3. Users(held, This) = {}
    BY <1>0, <2>1, <2>2 DEF RefcountExact, Users
  <2>4. QED
    BY <2>3, FS_EmptySet
<1>8. RefcountExact'
  <2>1. ASSUME NEW i \in DOMAIN handlers'
        PROVE  handlers'[i].refcount = Cardinality(Users(held', handlers'[i].uri))
    <3>1. CASE i \in DOMAIN handlers
      BY <1>0, <1>5, <1>6, <3>1, RefcountNow
    <3>2. CASE i = Len(handlers) + 1
      BY <1>5, <1>6, <1>7, <3>2
    <3>3. QED
      BY <1>5, <3>1, <3>2
  <2>2. ASSUME NEW t \in Threads, held'[t] # NoURI
        PROVE  \E i \in DOMAIN handlers' : handlers'[i].uri = held'[t]
    <3>1. PICK i \in DOMAIN handlers : handlers[i].uri = held[t]
      BY <1>0, <1>6, <2>2 DEF RefcountExact
    <3>2. i \in DOMAIN handlers'
      BY <1>5, <3>1
    <3>3. QED
      BY <1>5, <1>6, <3>1, <3>2
  <2>3. QED
    BY <2>1, <2>2, RefcountNext
<1>9. QED
  BY <1>0, <1>1, <1>2, <1>3, <1>5, <1>8, OwnerKeeps DEF TypeOK

(* The owner marks entries that are in use. *)
LEMMA MarkStep ==
  ASSUME RegistryInv, MarkRemoving
  PROVE  RegistryInv'
<1>0. TypeOK /\ UniqueInv /\ ProgramInv /\ RefcountExact
  BY DEF RegistryInv
<1>1. UNCHANGED <<program, alive, server>> /\ UNCHANGED threadVars
  BY DEF MarkRemoving
<1>2. /\ handlers \in Seq(Entries) /\ Len(handlers) \in Nat /\ DOMAIN handlers = 1 .. Len(handlers)
      /\ \A j \in DOMAIN handlers : handlers[j] \in Entries
  BY <1>0, LenProperties, ElementOfSeq DEF TypeOK, Entries
<1>3. /\ DOMAIN handlers' = DOMAIN handlers
      /\ handlers' = [i \in DOMAIN handlers |-> handlers'[i]]
      /\ \A j \in DOMAIN handlers :
           /\ handlers'[j] \in Entries /\ handlers'[j].uri = handlers[j].uri
           /\ handlers'[j].refcount = handlers[j].refcount
  BY <1>2 DEF MarkRemoving, Entries
<1>4. handlers' \in Seq(Entries)
  <2>1. handlers' \in [1 .. Len(handlers) -> Entries]
    BY <1>2, <1>3
  <2>2. QED
    BY <1>2, <2>1, IntervalSeq
<1>5. UniqueInv' /\ ProgramInv'
  BY <1>0, <1>1, <1>3, SameList DEF SameURIs
<1>6. RefcountExact'
  <2>1. held' = held
    BY <1>1 DEF threadVars
  <2>2. \A i \in DOMAIN handlers' : handlers'[i].refcount = Cardinality(Users(held', handlers'[i].uri))
    BY <1>0, <1>3, <2>1, RefcountNow
  <2>3. \A t \in Threads : held'[t] # NoURI => \E i \in DOMAIN handlers' : handlers'[i].uri = held'[t]
    BY <1>0, <1>3, <2>1 DEF RefcountExact
  <2>4. QED
    BY <2>2, <2>3, RefcountNext
<1>7. QED
  BY <1>0, <1>1, <1>4, <1>5, <1>6, OwnerKeeps DEF TypeOK

(* The owner takes a handler that nobody holds out of the list. *)
LEMMA RemoveStep ==
  ASSUME RegistryInv, RemoveHandler
  PROVE  RegistryInv'
<1>0. TypeOK /\ UniqueInv /\ ProgramInv /\ RefcountExact
  BY DEF RegistryInv
<1>1. /\ UNCHANGED <<alive, server, threadVars>> /\ Done
      /\ program \in Seq(Ops) /\ program # << >> /\ Head(program).op = "remove"
      /\ This = Head(program).uri /\ held' = held
  BY <1>0 DEF RemoveHandler, At, This, TypeOK, threadVars
<1>2. program' \in Seq(Ops)
  BY <1>1, TailPlaces DEF Done
<1>3. /\ handlers \in Seq(Entries) /\ Len(handlers) \in Nat /\ DOMAIN handlers = 1 .. Len(handlers)
      /\ \A j \in DOMAIN handlers : handlers[j] \in Entries
  BY <1>0, LenProperties, ElementOfSeq DEF TypeOK, Entries
<1>4. ASSUME handlers' \in Seq(Entries), UniqueInv',
             \A i \in DOMAIN handlers' :
               handlers'[i].uri # This /\ \E m \in DOMAIN handlers : handlers'[i] = handlers[m],
             \A m \in DOMAIN handlers :
               handlers[m].uri # This => \E i \in DOMAIN handlers' : handlers'[i] = handlers[m]
      PROVE  RegistryInv'
  <2>1. ProgramInv'
    BY <1>0, <1>1, <1>4, ListAdvance DEF Ends
  <2>2. ASSUME NEW i \in DOMAIN handlers'
        PROVE  handlers'[i].refcount = Cardinality(Users(held', handlers'[i].uri))
    <3>1. PICK m \in DOMAIN handlers : handlers'[i] = handlers[m]
      BY <1>4, <2>2
    <3>2. handlers[m].refcount = Cardinality(Users(held, handlers[m].uri))
      BY <1>0, <3>1, RefcountNow
    <3>3. QED
      BY <1>1, <3>1, <3>2
  <2>3. ASSUME NEW t \in Threads, held'[t] # NoURI
        PROVE  \E i \in DOMAIN handlers' : handlers'[i].uri = held'[t]
    <3>1. PICK m \in DOMAIN handlers : handlers[m].uri = held[t]
      BY <1>0, <1>1, <2>3 DEF RefcountExact
    <3>2. handlers[m].uri # This
      <4>1. t \in Users(held, handlers[m].uri)
        BY <3>1 DEF Users
      <4>2. handlers[m].refcount # 0
        BY <1>0, <4>1, RefcountNow, UsersFinite, FS_EmptySet
      <4>3. handlers[m].refcount > 0
        BY <1>3, <4>2 DEF Entries
      <4>4. QED
        BY <4>3 DEF RemoveHandler, EntriesInUse
    <3>3. QED
      BY <1>1, <1>4, <3>1, <3>2
  <2>4. RefcountExact'
    BY <2>2, <2>3, RefcountNext
  <2>5. QED
    BY <1>0, <1>1, <1>2, <1>4, <2>1, <2>4, OwnerKeeps DEF TypeOK
<1>5. ASSUME NEW i \in DOMAIN handlers, handlers[i].uri = This, handlers' = RemoveAt(handlers, i)
      PROVE  RegistryInv'
  <2>1. i \in 1 .. Len(handlers)
    BY <1>3
  <2>2. /\ handlers' \in Seq(Entries) /\ DOMAIN handlers' = 1 .. (Len(handlers) - 1)
        /\ \A k \in 1 .. (Len(handlers) - 1) :
             handlers'[k] = IF k < i THEN handlers[k] ELSE handlers[k + 1]
    BY <1>3, <1>5, RemoveAtPlaces, LenProperties
  <2>3. ASSUME NEW k \in DOMAIN handlers'
        PROVE  \E m \in DOMAIN handlers :
                 m # i /\ handlers'[k] = handlers[m] /\ m = IF k < i THEN k ELSE k + 1
    <3>1. (IF k < i THEN k ELSE k + 1) \in DOMAIN handlers /\ (IF k < i THEN k ELSE k + 1) # i
      BY <1>3, <2>1, <2>2
    <3>2. handlers'[k] = handlers[IF k < i THEN k ELSE k + 1]
      BY <2>2
    <3>3. QED
      BY <3>1, <3>2
  <2>4. ASSUME NEW m \in DOMAIN handlers, handlers[m].uri # This
        PROVE  \E k \in DOMAIN handlers' : handlers'[k] = handlers[m]
    <3>1. m # i
      BY <1>5, <2>4
    <3>2. CASE m < i
      <4>1. m \in 1 .. (Len(handlers) - 1)
        BY <1>3, <2>1, <3>2
      <4>2. QED
        BY <2>2, <3>2, <4>1
    <3>3. CASE m > i
      <4>1. m - 1 \in 1 .. (Len(handlers) - 1) /\ ~(m - 1 < i) /\ m - 1 + 1 = m
        BY <1>3, <2>1, <3>3
      <4>2. handlers'[m - 1] = handlers[m - 1 + 1]
        BY <2>2, <4>1
      <4>3. QED
        BY <2>2, <4>1, <4>2
    <3>4. QED
      BY <1>3, <2>1, <3>1, <3>2, <3>3
  <2>5. UniqueInv'
    <3>1. SUFFICES ASSUME NEW k \in DOMAIN handlers', NEW n \in DOMAIN handlers',
                          handlers'[k].uri = handlers'[n].uri
                   PROVE  k = n
      BY DEF UniqueInv
    <3>2. PICK a \in DOMAIN handlers : handlers'[k] = handlers[a] /\ a = IF k < i THEN k ELSE k + 1
      BY <2>3
    <3>3. PICK b \in DOMAIN handlers : handlers'[n] = handlers[b] /\ b = IF n < i THEN n ELSE n + 1
      BY <2>3
    <3>4. a = b
      BY <1>0, <3>1, <3>2, <3>3 DEF UniqueInv
    <3>5. QED
      BY <1>3, <2>1, <2>2, <3>2, <3>3, <3>4
  <2>6. \A k \in DOMAIN handlers' :
          handlers'[k].uri # This /\ \E m \in DOMAIN handlers : handlers'[k] = handlers[m]
    BY <1>0, <1>5, <2>3 DEF UniqueInv
  <2>7. QED
    BY <1>4, <2>2, <2>4, <2>5, <2>6
<1>6. CASE (\A i \in DOMAIN handlers : handlers[i].uri # This) /\ UNCHANGED handlers
  BY <1>0, <1>3, <1>4, <1>6 DEF UniqueInv
<1>7. QED
  BY <1>5, <1>6 DEF RemoveHandler, Unlink

(* The owner destroys a handler, goes on, or stops and closes its server.  *)
LEMMA OtherOwnerStep ==
  ASSUME RegistryInv, DestroyHandler \/ EndRun \/ StopServer \/ CloseServer \/ CloseHangs
  PROVE  RegistryInv'
<1>0. TypeOK /\ HolderInv /\ UniqueInv /\ ProgramInv /\ RefcountExact
  BY DEF RegistryInv
<1>1. program \in Seq(Ops) /\ handlers \in Seq(Entries) /\ UNCHANGED threadVars /\ held' = held
  BY <1>0 DEF TypeOK, Entries, DestroyHandler, EndRun, StopServer, CloseServer, CloseHangs, threadVars
<1>2. CASE DestroyHandler \/ EndRun
  <2>1. /\ UNCHANGED <<handlers, server>> /\ program # << >> /\ Done
        /\ Head(program).op \in {"destroy", "run"}
        /\ alive' = IF Head(program).op = "destroy" THEN alive \ {This} ELSE alive
    BY <1>2 DEF DestroyHandler, EndRun, At
  <2>2. program' \in Seq(Ops) /\ alive' \subseteq alive
    BY <1>1, <2>1, TailPlaces DEF Done
  <2>3. ProgramInv'
    BY <1>0, <2>1, ListAdvance DEF Ends
  <2>4. UniqueInv' /\ RefcountExact'
    BY <1>0, <1>1, <2>1 DEF UniqueInv, RefcountExact, Holders
  <2>5. QED
    BY <1>0, <1>1, <2>1, <2>2, <2>3, <2>4, OwnerKeeps DEF TypeOK
<1>3. CASE StopServer \/ CloseHangs
  <2>1. UNCHANGED <<program, handlers, alive>> /\ server' \in {"stopping", "hung"}
    BY <1>3 DEF StopServer, CloseHangs
  <2>2. UniqueInv' /\ ProgramInv' /\ RefcountExact'
    BY <1>0, <1>1, <2>1 DEF UniqueInv, ProgramInv, RefcountExact, Holders
  <2>3. QED
    BY <1>1, <2>1, <2>2, OwnerKeeps
<1>4. CASE CloseServer
  <2>1. /\ handlers' = << >> /\ program # << >> /\ Done /\ Head(program).op = "stop"
        /\ alive' = alive /\ server' = "closed" /\ \A t \in Threads : step[t] = "idle"
    BY <1>4 DEF CloseServer, At
  <2>2. program' \in Seq(Ops)
    BY <1>1, <2>1, TailPlaces DEF Done
  <2>3. DOMAIN handlers' = {} /\ handlers' \in Seq(Entries)
    BY <2>1, EmptySeq
  <2>4. ProgramInv' /\ UniqueInv'
    BY <1>0, <2>1, <2>3, ListAdvance DEF UniqueInv
  <2>5. \A t \in Threads : held[t] = NoURI
    BY <1>0, <2>1 DEF HolderInv
  <2>6. RefcountExact'
    BY <1>1, <2>3, <2>5 DEF RefcountExact
  <2>7. QED
    BY <1>1, <2>1, <2>2, <2>3, <2>4, <2>6, OwnerKeeps
<1>5. QED
  BY <1>2, <1>3, <1>4
-----------------------------------------------------------------------------
(* Every step preserves the invariant. *)
LEMMA RegistryStep == RegistryInv /\ [Next]_registryVars => RegistryInv'
<1> SUFFICES ASSUME RegistryInv, [Next]_registryVars PROVE RegistryInv'
  OBVIOUS
<1>1. CASE OwnerStep \/ EndRun \/ CloseHangs
  BY <1>1, AddStep, MarkStep, RemoveStep, OtherOwnerStep DEF OwnerStep
<1>2. ASSUME NEW t \in Threads,
             (\E u \in Requests, m \in Methods : Arrive(t, u, m)) \/ ThreadStep(t)
      PROVE  RegistryInv'
  BY <1>2, QuietStep, LookupStep, ReleaseStep DEF ThreadStep
<1>3. CASE UNCHANGED registryVars
  <2>1. TypeOK' /\ UniqueInv' /\ ProgramInv'
    BY <1>3 DEF registryVars, RegistryInv, TypeOK, UniqueInv, ProgramInv
  <2>2. HolderInv' /\ ConnectionsTracked' /\ NoLostScrape'
    BY <1>3 DEF registryVars, RegistryInv, HolderInv, ConnectionsTracked, NoLostScrape
  <2>3. RefcountExact'
    BY <1>3 DEF registryVars, RegistryInv, RefcountExact, Holders
  <2>4. QED
    BY <2>1, <2>2, <2>3 DEF RegistryInv
<1>4. QED
  BY <1>1, <1>2, <1>3 DEF Next

(* The invariant holds in every reachable state. *)
THEOREM RegistryInvariance == Spec => []RegistryInv
<1>1. Init => RegistryInv
  <2> SUFFICES ASSUME Init PROVE RegistryInv
    OBVIOUS
  <2>1. /\ handlers = << >> /\ DOMAIN handlers = {} /\ handlers \in Seq(Entries)
    BY EmptySeq DEF Init
  <2>2. program \in Seq(Ops) /\ WellBehaved(program)
    BY RegistryAssumption DEF Init
  <2>3. ASSUME NEW k \in DOMAIN program, program[k].op = "add"
        PROVE  program[k].uri \in alive
    <3>1. program[k] \in Ops
      BY <2>2, LenProperties, ElementOfSeq
    <3>2. QED
      BY <2>3, <3>1 DEF Ops, Init
  <2>4. TypeOK
    BY <2>1, <2>2 DEF Init, TypeOK, Entries, ThreadSteps, Methods
  <2>5. UniqueInv /\ ProgramInv
    BY <2>1, <2>2, <2>3 DEF UniqueInv, ProgramInv
  <2>6. HolderInv /\ RefcountExact /\ ConnectionsTracked /\ NoLostScrape
    BY <2>1 DEF Init, HolderInv, RefcountExact, ConnectionsTracked, NoLostScrape
  <2>7. QED
    BY <2>4, <2>5, <2>6 DEF RegistryInv
<1>2. QED
  BY <1>1, RegistryStep, PTL DEF Spec

(* The variables of the registry keep their types. *)
THEOREM RegistryTypes == Spec => []TypeOK
<1>1. RegistryInv => TypeOK
  BY DEF RegistryInv
<1>2. QED
  BY <1>1, RegistryInvariance, PTL

(* Reference counts are exact, and who holds an entry finds it again.      *)
THEOREM ReferencesExact == Spec => []RefcountExact
<1>1. RegistryInv => RefcountExact
  BY DEF RegistryInv
<1>2. QED
  BY <1>1, RegistryInvariance, PTL

(* No handler object is destroyed under a service thread: the reference    *)
(* keeps the entry in the list, and an owner destroys no handler whose     *)
(* entry is in the list.                                                   *)
THEOREM HandlersOutlive == Spec => []HandlersOutliveCalls
<1>1. RegistryInv => HandlersOutliveCalls
  BY DEF RegistryInv, HandlersOutliveCalls, RefcountExact, ProgramInv
<1>2. QED
  BY <1>1, RegistryInvariance, PTL

(* CivetServer knows exactly the connections in service. *)
THEOREM ConnectionsKnown == Spec => []ConnectionsTracked
<1>1. RegistryInv => ConnectionsTracked
  BY DEF RegistryInv
<1>2. QED
  BY <1>1, RegistryInvariance, PTL

(* No increment of a counter is lost. *)
THEOREM ScrapesCounted == Spec => []NoLostScrape
<1>1. RegistryInv => NoLostScrape
  BY DEF RegistryInv
<1>2. QED
  BY <1>1, RegistryInvariance, PTL

-----------------------------------------------------------------------------
(* The order of the list is kept when no entry comes or goes. *)
LEMMA OrderSame ==
  ASSUME OrderInv, SameURIs, UNCHANGED program
  PROVE  OrderInv'
BY DEF OrderInv, SameURIs

(* Once the owner does something other than adding it adds no catch-all.   *)
LEMMA OrderAdvance ==
  ASSUME OrderInv, program \in Seq(Ops), program # << >>, Head(program).op # "add", Done
  PROVE  /\ \A k \in DOMAIN program' : ~(program'[k].op = "add" /\ program'[k].uri = "/")
         /\ \A k \in DOMAIN program' : program'[k].op = "remove" => program'[k].uri \notin Specific
<1>1. /\ Head(program) = program[1]
      /\ \A k \in DOMAIN program' :
           k \in Nat /\ k + 1 \in DOMAIN program /\ program'[k] = program[k + 1]
  BY TailPlaces DEF Done
<1>2. ASSUME NEW k \in DOMAIN program', program'[k].op = "add", program'[k].uri = "/"
      PROVE  FALSE
  <2>1. PICK m \in DOMAIN program : m = k + 1 /\ program[m].op = "add" /\ program[m].uri = "/"
    BY <1>1, <1>2
  <2>2. \A j \in 1 .. m : program[j].op = "add"
    BY <2>1 DEF OrderInv
  <2>3. 1 \in 1 .. m
    BY <1>1, <2>1
  <2>4. QED
    BY <1>1, <2>2, <2>3
<1>3. \A k \in DOMAIN program' : program'[k].op = "remove" => program'[k].uri \notin Specific
  BY <1>1 DEF OrderInv
<1>4. QED
  BY <1>2, <1>3

(* A handler that is added comes last. *)
LEMMA OrderAdd ==
  ASSUME TypeOK, OrderInv, AddHandler
  PROVE  OrderInv'
<1>1. /\ program \in Seq(Ops) /\ program # << >> /\ Head(program).op = "add"
      /\ handlers \in Seq(Entries) /\ This = Head(program).uri /\ program' = Tail(program)
  BY DEF TypeOK, AddHandler, At, This, Done, Entries
<1>2. /\ Head(program) = program[1] /\ 1 \in DOMAIN program /\ Head(program) \in Ops
      /\ \A k \in DOMAIN program' :
           k \in Nat /\ k + 1 \in DOMAIN program /\ program'[k] = program[k + 1]
      /\ \A k \in DOMAIN program : k > 1 => k - 1 \in DOMAIN program' /\ program'[k - 1] = program[k]
      /\ Len(program) \in Nat /\ DOMAIN program = 1 .. Len(program)
  BY <1>1, TailPlaces, LenProperties
<1>3. /\ Len(handlers) \in Nat /\ DOMAIN handlers = 1 .. Len(handlers)
      /\ DOMAIN handlers' = 1 .. (Len(handlers) + 1)
      /\ \A i \in DOMAIN handlers : handlers'[i] = handlers[i]
      /\ handlers'[Len(handlers) + 1].uri = This
  <2>1. [uri |-> This, refcount |-> 0, removing |-> FALSE] \in Entries
    BY <1>1, <1>2 DEF Ops, Entries
  <2>2. QED
    BY <1>1, <2>1, LenProperties, AppendProperties DEF AddHandler
<1>4. DOMAIN handlers \subseteq DOMAIN handlers' /\ Len(handlers) + 1 \in DOMAIN handlers'
  BY <1>3
<1>5. ASSUME NEW i \in DOMAIN handlers', handlers'[i].uri = "/", NEW u \in Specific
      PROVE  \E j \in DOMAIN handlers' : j < i /\ handlers'[j].uri = u
  <2>1. CASE i \in DOMAIN handlers
    <3>1. PICK j \in DOMAIN handlers : j < i /\ handlers[j].uri = u
      BY <1>3, <1>5, <2>1 DEF OrderInv
    <3>2. QED
      BY <1>3, <1>4, <3>1
  <2>2. CASE i = Len(handlers) + 1
    <3>1. program[1].op = "add" /\ program[1].uri = "/"
      BY <1>1, <1>2, <1>3, <1>5, <2>2
    <3>2. PICK j \in DOMAIN handlers : handlers[j].uri = u
      <4>1. \/ \E j \in DOMAIN handlers : handlers[j].uri = u
            \/ \E j \in 1 .. (1 - 1) : program[j].uri = u
        BY <1>2, <3>1 DEF OrderInv
      <4>2. QED
        BY <4>1
    <3>3. j < i
      BY <1>3, <2>2
    <3>4. QED
      BY <1>3, <1>4, <3>2, <3>3
  <2>3. QED
    BY <1>3, <2>1, <2>2
<1>6. ASSUME NEW k \in DOMAIN program', program'[k].op = "add", program'[k].uri = "/"
      PROVE  /\ \A j \in 1 .. k : program'[j].op = "add"
             /\ \A u \in Specific : \/ \E j \in DOMAIN handlers' : handlers'[j].uri = u
                                    \/ \E j \in 1 .. (k - 1) : program'[j].uri = u
  <2>1. PICK m \in DOMAIN program : m = k + 1 /\ program[m].op = "add" /\ program[m].uri = "/"
    BY <1>2, <1>6
  <2>2. /\ \A j \in 1 .. m : program[j].op = "add"
        /\ \A u \in Specific : \/ \E j \in DOMAIN handlers : handlers[j].uri = u
                               \/ \E j \in 1 .. (m - 1) : program[j].uri = u
    BY <2>1 DEF OrderInv
  <2>3. ASSUME NEW j \in 1 .. k PROVE program'[j].op = "add"
    <3>1. j + 1 \in 1 .. m /\ j + 1 \in DOMAIN program /\ j + 1 > 1 /\ j + 1 - 1 = j
      BY <1>2, <2>1
    <3>2. program'[j + 1 - 1] = program[j + 1]
      BY <1>2, <3>1
    <3>3. program'[j] = program[j + 1] /\ program[j + 1].op = "add"
      BY <2>2, <3>1, <3>2
    <3>4. QED
      BY <3>3
  <2>4. ASSUME NEW u \in Specific
        PROVE  \/ \E j \in DOMAIN handlers' : handlers'[j].uri = u
               \/ \E j \in 1 .. (k - 1) : program'[j].uri = u
    <3>1. CASE \E j \in DOMAIN handlers : handlers[j].uri = u
      BY <1>3, <1>4, <3>1
    <3>2. ASSUME NEW j \in 1 .. (m - 1), program[j].uri = u
          PROVE  \/ \E i \in DOMAIN handlers' : handlers'[i].uri = u
                 \/ \E i \in 1 .. (k - 1) : program'[i].uri = u
      <4>1. CASE j = 1
        BY <1>1, <1>2, <1>3, <1>4, <3>2, <4>1
      <4>2. CASE j # 1
        <5>1. j - 1 \in 1 .. (k - 1) /\ j \in DOMAIN program /\ j > 1
          BY <1>2, <2>1, <4>2
        <5>2. QED
          BY <1>2, <3>2, <5>1
      <4>3. QED
        BY <4>1, <4>2
    <3>3. QED
      BY <2>2, <3>1, <3>2
  <2>5. QED
    BY <2>3, <2>4
<1>7. \A k \in DOMAIN program' : program'[k].op = "remove" => program'[k].uri \notin Specific
  BY <1>2 DEF OrderInv
<1>8. QED
  BY <1>5, <1>6, <1>7 DEF OrderInv

(* Removing an entry keeps the order of the others. *)
LEMMA OrderRemove ==
  ASSUME TypeOK, OrderInv, RemoveHandler
  PROVE  OrderInv'
<1>1. /\ program \in Seq(Ops) /\ program # << >> /\ Head(program).op = "remove" /\ Done
      /\ This = Head(program).uri
      /\ handlers \in Seq(Entries) /\ Len(handlers) \in Nat /\ DOMAIN handlers = 1 .. Len(handlers)
  BY LenProperties DEF TypeOK, Entries, RemoveHandler, At, This
<1>2. This \notin Specific
  BY <1>1, TailPlaces DEF OrderInv
<1>3. /\ \A k \in DOMAIN program' : ~(program'[k].op = "add" /\ program'[k].uri = "/")
      /\ \A k \in DOMAIN program' : program'[k].op = "remove" => program'[k].uri \notin Specific
  BY <1>1, OrderAdvance
<1>4. ASSUME NEW i \in DOMAIN handlers, handlers[i].uri = This, handlers' = RemoveAt(handlers, i),
             NEW k \in DOMAIN handlers', handlers'[k].uri = "/", NEW u \in Specific
      PROVE  \E j \in DOMAIN handlers' : j < k /\ handlers'[j].uri = u
  <2>1. /\ handlers' \in Seq(Entries) /\ DOMAIN handlers' = 1 .. (Len(handlers) - 1)
        /\ \A n \in 1 .. (Len(handlers) - 1) :
             handlers'[n] = IF n < i THEN handlers[n] ELSE handlers[n + 1]
    BY <1>1, <1>4, RemoveAtPlaces, LenProperties, ZenonT(40)
  <2>2. PICK m \in DOMAIN handlers : handlers'[k] = handlers[m] /\ m = IF k < i THEN k ELSE k + 1
    <3>1. (IF k < i THEN k ELSE k + 1) \in DOMAIN handlers
      BY <1>1, <2>1
    <3>2. handlers'[k] = handlers[IF k < i THEN k ELSE k + 1]
      BY <2>1
    <3>3. QED
      BY <3>1, <3>2
  <2>3. PICK j \in DOMAIN handlers : j < m /\ handlers[j].uri = u
    BY <1>4, <2>2 DEF OrderInv
  <2>4. j # i
    BY <1>2, <1>4, <2>3
  <2>5. CASE j < i
    <3>1. j \in 1 .. (Len(handlers) - 1) /\ j < k
      BY <1>1, <2>1, <2>2, <2>3, <2>5
    <3>2. QED
      BY <2>1, <2>3, <2>5, <3>1
  <2>6. CASE j > i
    <3>1. j - 1 \in 1 .. (Len(handlers) - 1) /\ j - 1 < k /\ ~(j - 1 < i) /\ j - 1 + 1 = j
      BY <1>1, <2>1, <2>2, <2>3, <2>6
    <3>2. handlers'[j - 1] = handlers[j - 1 + 1]
      BY <2>1, <3>1
    <3>3. QED
      BY <2>1, <2>3, <3>1, <3>2
  <2>7. QED
    BY <1>1, <2>4, <2>5, <2>6
<1>5. \A k \in DOMAIN handlers' : handlers'[k].uri = "/" =>
        \A u \in Specific : \E j \in DOMAIN handlers' : j < k /\ handlers'[j].uri = u
  BY <1>4 DEF RemoveHandler, Unlink, OrderInv
<1>6. QED
  BY <1>3, <1>5 DEF OrderInv

(* A lookup changes no URI of the list, whatever it finds. *)
LEMMA LookupURIs ==
  ASSUME TypeOK, NEW t \in Threads, Lookup(t)
  PROVE  SameURIs
<1>1. CASE handlers' = handlers
  BY <1>1 DEF SameURIs
<1>2. ASSUME NEW i \in DOMAIN handlers, handlers' = [handlers EXCEPT ![i].refcount = @ + 1]
      PROVE  SameURIs
  <2>1. /\ DOMAIN handlers = 1 .. Len(handlers)
        /\ \A j \in DOMAIN handlers : handlers[j] \in Entries
    BY LenProperties, ElementOfSeq DEF TypeOK, Entries
  <2>2. QED
    BY <1>2, <2>1 DEF Entries, SameURIs
<1>3. QED
  BY <1>1, <1>2 DEF Lookup, NothingFound

(* The catch-all stays behind the handlers it would stand in for.          *)
LEMMA OrderInvariance == Spec => []OrderInv
<1>1. Init => OrderInv
  <2> SUFFICES ASSUME Init PROVE OrderInv
    OBVIOUS
  <2>1. DOMAIN handlers = {} /\ CatchAllLast(program)
    BY RegistryAssumption DEF Init
  <2>2. QED
    BY <2>1 DEF OrderInv, CatchAllLast
<1>2. RegistryInv /\ OrderInv /\ [Next]_registryVars => OrderInv'
  <2> SUFFICES ASSUME RegistryInv, OrderInv, [Next]_registryVars PROVE OrderInv'
    OBVIOUS
  <2>0. TypeOK
    BY DEF RegistryInv
  <2>1. CASE AddHandler
    BY <2>0, <2>1, OrderAdd
  <2>2. CASE RemoveHandler
    BY <2>0, <2>2, OrderRemove
  <2>3. CASE MarkRemoving
    BY <2>3, OrderSame DEF MarkRemoving, SameURIs
  <2>4. CASE DestroyHandler \/ EndRun
    <3>1. /\ program # << >> /\ Head(program).op # "add" /\ Done /\ handlers' = handlers
          /\ program \in Seq(Ops)
      BY <2>0, <2>4 DEF DestroyHandler, EndRun, At, TypeOK
    <3>2. QED
      BY <3>1, OrderAdvance DEF OrderInv
  <2>5. CASE StopServer \/ CloseHangs
    BY <2>5, OrderSame DEF StopServer, CloseHangs, SameURIs
  <2>6. CASE CloseServer
    <3>1. /\ program # << >> /\ Head(program).op # "add" /\ Done /\ DOMAIN handlers' = {}
          /\ program \in Seq(Ops)
      BY <2>0, <2>6 DEF CloseServer, At, TypeOK
    <3>2. QED
      BY <3>1, OrderAdvance DEF OrderInv
  <2>7. ASSUME NEW t \in Threads,
               (\E u \in Requests, m \in Methods : Arrive(t, u, m)) \/ ThreadStep(t)
        PROVE  OrderInv'
    <3>1. program' = program
      BY <2>7 DEF ThreadStep, Arrive, Lookup, Enter, Handle, LoadValue, SwapValue, Release, NoFile, Close
    <3>2. CASE ~Lookup(t) /\ ~Release(t)
      BY <2>7, <3>1, <3>2, OrderSame
         DEF ThreadStep, Arrive, Enter, Handle, LoadValue, SwapValue, NoFile, Close, SameURIs
    <3>3. CASE Release(t)
      BY <3>1, <3>3, OrderSame DEF Release, SameURIs
    <3>4. CASE Lookup(t)
      BY <2>0, <3>1, <3>4, LookupURIs, OrderSame
    <3>5. QED
      BY <3>2, <3>3, <3>4
  <2>8. CASE UNCHANGED registryVars
    BY <2>8, OrderSame DEF registryVars, SameURIs
  <2>9. QED
    BY <2>1, <2>2, <2>3, <2>4, <2>5, <2>6, <2>7, <2>8 DEF Next, OwnerStep
<1>3. QED
  BY <1>1, <1>2, RegistryInvariance, PTL DEF Spec

(* What a lookup finds is a handler the URI is meant for.                  *)
LEMMA FoundIsMeant ==
  ASSUME TypeOK, OrderInv, NEW u \in KnownRequests, NEW i \in DOMAIN handlers, IsFound(i, u)
  PROVE  handlers[i].uri \in Meant(u)
<1>1. /\ DOMAIN handlers \subseteq Nat
      /\ handlers[i].uri \in Handlers
  <2>1. handlers \in Seq(Entries) /\ Len(handlers) \in Nat /\ DOMAIN handlers = 1 .. Len(handlers)
    BY LenProperties DEF TypeOK, Entries
  <2>2. handlers[i] \in Entries
    BY <2>1, ElementOfSeq
  <2>3. QED
    BY <2>1, <2>2 DEF Entries
<1>2. PICK pass \in 1 .. 3 :
        /\ Matches(pass, handlers[i].uri, u)
        /\ \A j \in DOMAIN handlers : Matches(pass, handlers[j].uri, u) => i <= j
        /\ \A earlier \in 1 .. (pass - 1), j \in DOMAIN handlers : ~Matches(earlier, handlers[j].uri, u)
  BY DEF IsFound, Candidates
<1>3. CASE pass = 1
  BY <1>1, <1>2, <1>3 DEF Matches, Meant, Handlers, KnownRequests
<1>4. CASE pass = 2
  BY <1>1, <1>2, <1>4 DEF Matches, Meant
<1>5. CASE pass = 3
  <2>1. \A j \in DOMAIN handlers : ~Matches(1, handlers[j].uri, u) /\ ~Matches(2, handlers[j].uri, u)
    BY <1>2, <1>5
  <2>2. CASE handlers[i].uri # "/"
    BY <1>2, <1>5, <2>2 DEF Matches, Meant
  <2>3. CASE handlers[i].uri = "/"
    <3>1. PICK j \in DOMAIN handlers : j < i /\ handlers[j].uri = "/health"
      BY <2>3 DEF OrderInv, Specific
    <3>2. PICK k \in DOMAIN handlers : k < i /\ handlers[k].uri = "/stats"
      BY <2>3 DEF OrderInv, Specific
    <3>3. u # "/health"
      BY <2>1, <3>1 DEF Matches
    <3>4. u # "/healthz"
      BY <1>1, <1>2, <1>5, <3>1 DEF Matches
    <3>5. u # "/stats/x"
      BY <2>1, <3>2 DEF Matches
    <3>6. QED
      BY <2>3, <3>3, <3>4, <3>5 DEF KnownRequests, Meant
  <2>4. QED
    BY <2>2, <2>3
<1>6. QED
  BY <1>2, <1>3, <1>4, <1>5

(* A thread at work has a request, and holds a handler it is meant for. *)
ServedInv ==
  \A t \in Threads :
    /\ step[t] # "idle" => uri[t] # NoURI
    /\ held[t] # NoURI => held[t] \in Meant(uri[t])

(* The thread that takes a step keeps to its request. *)
LEMMA ServedStep ==
  ASSUME RegistryInv, OrderInv, ServedInv, NEW t \in Threads,
         (\E u \in Requests, m \in Methods : Arrive(t, u, m)) \/ ThreadStep(t)
  PROVE  ServedInv'
<1>1. TypeOK /\ HolderInv
  BY DEF RegistryInv
<1>2. \A v \in Threads : v # t => step'[v] = step[v] /\ uri'[v] = uri[v] /\ held'[v] = held[v]
  BY <1>1 DEF TypeOK, ThreadStep, Arrive, Lookup, NothingFound, Enter, Handle, LoadValue, SwapValue,
              Release, NoFile, Close, Goto
<1>3. CASE \E u \in Requests, m \in Methods : Arrive(t, u, m)
  <2>1. uri'[t] \in Requests /\ held'[t] = NoURI
    BY <1>1, <1>3 DEF Arrive, TypeOK, HolderInv
  <2>2. uri'[t] # NoURI
    BY <2>1, RegistryAssumption
  <2>3. QED
    BY <1>2, <2>1, <2>2 DEF ServedInv
<1>4. CASE Lookup(t)
  <2>1. step[t] = "lookup" /\ uri' = uri /\ held[t] = NoURI /\ uri[t] # NoURI
    BY <1>1, <1>4 DEF Lookup, HolderInv, ServedInv
  <2>2. uri[t] \in KnownRequests
    BY <1>1, <2>1, RegistryAssumption DEF TypeOK
  <2>3. CASE NothingFound(t)
    BY <1>2, <2>1, <2>3 DEF NothingFound, ServedInv
  <2>4. ASSUME NEW i \in DOMAIN handlers, IsFound(i, uri[t]),
               held' = [held EXCEPT ![t] = handlers[i].uri]
        PROVE  ServedInv'
    <3>1. held'[t] \in Meant(uri[t])
      BY <1>1, <2>2, <2>4, FoundIsMeant DEF TypeOK
    <3>2. QED
      BY <1>2, <2>1, <3>1 DEF ServedInv
  <2>5. QED
    BY <1>4, <2>3, <2>4 DEF Lookup
<1>5. CASE Enter(t) \/ Handle(t) \/ LoadValue(t) \/ SwapValue(t) \/ NoFile(t)
  <2>1. uri' = uri /\ held' = held /\ step[t] # "idle"
    BY <1>5 DEF Enter, Handle, LoadValue, SwapValue, NoFile
  <2>2. QED
    BY <1>2, <2>1 DEF ServedInv
<1>6. CASE Release(t)
  <2>1. uri' = uri /\ held'[t] = NoURI /\ step[t] # "idle"
    BY <1>1, <1>6 DEF Release, TypeOK
  <2>2. QED
    BY <1>2, <2>1 DEF ServedInv
<1>7. CASE Close(t)
  <2>1. step'[t] = "idle" /\ held'[t] = NoURI
    BY <1>1, <1>7 DEF Close, Goto, TypeOK, HolderInv
  <2>2. QED
    BY <1>2, <2>1 DEF ServedInv
<1>8. QED
  BY <1>3, <1>4, <1>5, <1>6, <1>7 DEF ThreadStep

(* While the owner adds its handlers one by one to a server that already   *)
(* serves, a request meets the handler it is meant for or none.            *)
THEOREM NeverMisdirected == Spec => []NeverElsewhere
<1>1. Init => ServedInv
  BY DEF Init, ServedInv
<1>2. RegistryInv /\ OrderInv /\ ServedInv /\ [Next]_registryVars => ServedInv'
  <2> SUFFICES ASSUME RegistryInv, OrderInv, ServedInv, [Next]_registryVars PROVE ServedInv'
    OBVIOUS
  <2>1. CASE UNCHANGED threadVars
    BY <2>1 DEF threadVars, ServedInv
  <2>2. CASE \E t \in Threads : (\E u \in Requests, m \in Methods : Arrive(t, u, m)) \/ ThreadStep(t)
    BY <2>2, ServedStep
  <2>3. CASE OwnerStep \/ EndRun \/ CloseHangs \/ UNCHANGED registryVars
    BY <2>1, <2>3 DEF OwnerStep, AddHandler, MarkRemoving, RemoveHandler, DestroyHandler, StopServer,
                      CloseServer, CloseHangs, EndRun, registryVars, threadVars
  <2>4. QED
    BY <2>2, <2>3 DEF Next
<1>3. ServedInv => NeverElsewhere
  BY DEF ServedInv, NeverElsewhere
<1>4. QED
  BY <1>1, <1>2, <1>3, RegistryInvariance, OrderInvariance, PTL DEF Spec
-----------------------------------------------------------------------------
(* The j-th entry of the next list is an entry of this one, marked still   *)
(* and with no more holders if that is marked; or its URI is new.          *)
Follows(j) ==
  \/ \E m \in DOMAIN handlers :
       /\ handlers[m].uri = handlers'[j].uri
       /\ handlers[m].removing => handlers'[j].removing /\ handlers'[j].refcount <= handlers[m].refcount
  \/ \A m \in DOMAIN handlers : handlers[m].uri # handlers'[j].uri

(* Threads take and give references, the owner marks: the places stay. *)
LEMMA PlacesFollow ==
  ASSUME RegistryInv, MarkRemoving \/ \E t \in Threads : Lookup(t) \/ Release(t),
         NEW j \in DOMAIN handlers'
  PROVE  Follows(j)
<1>0. handlers[j] \in Entries /\ j \in DOMAIN handlers
  <2>1. \A i \in DOMAIN handlers : handlers[i] \in Entries
    BY LenProperties, ElementOfSeq DEF RegistryInv, TypeOK, Entries
  <2>2. j \in DOMAIN handlers
    BY DEF Lookup, NothingFound, Release, MarkRemoving
  <2>3. QED
    BY <2>1, <2>2
<1>1. CASE handlers' = handlers
  <2>1. handlers'[j].refcount <= handlers[j].refcount
    BY <1>0, <1>1 DEF Entries
  <2>2. QED
    BY <1>0, <1>1, <2>1 DEF Follows
<1>2. ASSUME NEW i \in DOMAIN handlers, ~handlers[i].removing,
             handlers' = [handlers EXCEPT ![i].refcount = @ + 1]
      PROVE  Follows(j)
  <2>1. CASE j = i
    <3>1. handlers'[j].uri = handlers[j].uri /\ ~handlers[j].removing
      BY <1>0, <1>2, <2>1 DEF Entries
    <3>2. QED
      BY <1>0, <3>1 DEF Follows
  <2>2. CASE j # i
    <3>1. handlers'[j] = handlers[j] /\ handlers'[j].refcount <= handlers[j].refcount
      BY <1>0, <1>2, <2>2 DEF Entries
    <3>2. QED
      BY <1>0, <3>1 DEF Follows
  <2>3. QED
    BY <2>1, <2>2
<1>3. ASSUME NEW t \in Threads, Release(t) PROVE Follows(j)
  <2>1. handlers'[j] = IF handlers[j].uri = held[t]
                       THEN [handlers[j] EXCEPT !.refcount = @ - 1]
                       ELSE handlers[j]
    BY <1>0, <1>3 DEF Release
  <2>2. /\ handlers'[j].uri = handlers[j].uri /\ handlers'[j].removing = handlers[j].removing
        /\ handlers'[j].refcount <= handlers[j].refcount
    BY <1>0, <2>1 DEF Entries
  <2>3. QED
    BY <1>0, <2>2 DEF Follows
<1>4. CASE MarkRemoving
  <2>1. handlers'[j] = IF j \in EntriesInUse THEN [handlers[j] EXCEPT !.removing = TRUE] ELSE handlers[j]
    BY <1>0, <1>4 DEF MarkRemoving
  <2>2. /\ handlers'[j].uri = handlers[j].uri
        /\ handlers[j].removing => handlers'[j].removing
        /\ handlers'[j].refcount <= handlers[j].refcount
    BY <1>0, <2>1 DEF Entries
  <2>3. QED
    BY <1>0, <2>2 DEF Follows
<1>5. QED
  BY <1>1, <1>2, <1>3, <1>4 DEF Lookup, NothingFound

(* The places of a list and of the list with one element more. *)
LEMMA AppendPlaces ==
  ASSUME NEW S, NEW s \in Seq(S), NEW e \in S
  PROVE  /\ DOMAIN Append(s, e) = 1 .. (Len(s) + 1)
         /\ \A i \in 1 .. Len(s) : Append(s, e)[i] = s[i]
         /\ Append(s, e)[Len(s) + 1] = e
BY AppendProperties, LenProperties

(* The owner adds a URI that is not there, or takes entries out. *)
LEMMA ListFollows ==
  ASSUME RegistryInv, AddHandler \/ RemoveHandler \/ CloseServer \/ UNCHANGED handlers,
         NEW j \in DOMAIN handlers'
  PROVE  Follows(j)
<1>0. /\ TypeOK /\ ProgramInv /\ handlers \in Seq(Entries)
      /\ Len(handlers) \in Nat /\ DOMAIN handlers = 1 .. Len(handlers)
      /\ \A i \in DOMAIN handlers : handlers[i] \in Entries
  BY LenProperties, ElementOfSeq DEF RegistryInv, TypeOK, Entries
<1>1. ASSUME NEW m \in DOMAIN handlers, handlers'[j] = handlers[m] PROVE Follows(j)
  <2>1. handlers[m] \in Entries /\ handlers'[j].refcount <= handlers[m].refcount
    BY <1>0, <1>1 DEF Entries
  <2>2. QED
    BY <1>1, <2>1 DEF Follows
<1>2. CASE AddHandler
  <2>1. /\ program \in Seq(Ops) /\ program # << >> /\ Head(program).op = "add"
        /\ This = Head(program).uri
    BY <1>0, <1>2 DEF TypeOK, AddHandler, At, This
  <2>2. Head(program) = program[1] /\ 1 \in DOMAIN program /\ Head(program) \in Ops
    BY <2>1, TailPlaces
  <2>3. [uri |-> This, refcount |-> 0, removing |-> FALSE] \in Entries
    BY <2>1, <2>2 DEF Ops, Entries
  <2>4. /\ DOMAIN handlers' = 1 .. (Len(handlers) + 1)
        /\ \A i \in DOMAIN handlers : handlers'[i] = handlers[i]
        /\ handlers'[Len(handlers) + 1].uri = This
    <3>1. PICK e \in Entries : handlers' = Append(handlers, e) /\ e.uri = This
      BY <1>2, <2>3 DEF AddHandler
    <3>2. /\ DOMAIN handlers' = 1 .. (Len(handlers) + 1)
          /\ \A i \in 1 .. Len(handlers) : handlers'[i] = handlers[i]
          /\ handlers'[Len(handlers) + 1] = e
      <4>1. handlers \in Seq(Entries)
        BY <1>0
      <4>2. QED
        BY <3>1, <4>1, AppendPlaces
    <3>3. QED
      BY <1>0, <3>1, <3>2, Zenon
  <2>5. \A i \in DOMAIN handlers : handlers[i].uri # This
    BY <1>0, <2>1, <2>2 DEF ProgramInv, Fits
  <2>6. CASE j \in DOMAIN handlers
    BY <1>1, <2>4, <2>6
  <2>7. CASE j = Len(handlers) + 1
    BY <2>4, <2>5, <2>7 DEF Follows
  <2>8. QED
    BY <1>0, <2>4, <2>6, <2>7
<1>3. ASSUME NEW i \in DOMAIN handlers, handlers' = RemoveAt(handlers, i) PROVE Follows(j)
  <2>1. /\ DOMAIN handlers' = 1 .. (Len(handlers) - 1)
        /\ \A k \in 1 .. (Len(handlers) - 1) :
             handlers'[k] = IF k < i THEN handlers[k] ELSE handlers[k + 1]
    BY <1>0, <1>3, RemoveAtPlaces, LenProperties
  <2>2. j \in DOMAIN handlers /\ j + 1 \in DOMAIN handlers
    BY <1>0, <2>1
  <2>3. handlers'[j] = handlers[j] \/ handlers'[j] = handlers[j + 1]
    BY <2>1
  <2>4. QED
    BY <1>1, <2>2, <2>3
<1>4. CASE UNCHANGED handlers
  BY <1>1, <1>4
<1>5. CASE CloseServer
  BY <1>5, EmptySeq DEF CloseServer
<1>6. QED
  BY <1>2, <1>3, <1>4, <1>5 DEF RemoveHandler, Unlink

(* An entry that is marked for removal stays so until it leaves the list,  *)
(* and loses holders only: however many requests arrive, removeHandler is  *)
(* not starved, the safety half of TeardownCompletes                       *)
(* (civetweb.c:14737, 14957-14965, 15029-15038).                           *)
THEOREM RemovalDrains == Spec => MarkedDrains
<1> DEFINE Drains == \A i \in DOMAIN handlers : handlers[i].removing =>
                       \A j \in DOMAIN handlers' : handlers'[j].uri = handlers[i].uri =>
                         handlers'[j].removing /\ handlers'[j].refcount <= handlers[i].refcount
<1>1. RegistryInv /\ [Next]_registryVars => [Drains]_registryVars
  <2> SUFFICES ASSUME RegistryInv, Next PROVE Drains
    OBVIOUS
  <2>1. ASSUME NEW j \in DOMAIN handlers' PROVE Follows(j)
    <3>1. CASE OwnerStep \/ EndRun \/ CloseHangs
      <4>1. CASE MarkRemoving
        BY <2>1, <4>1, PlacesFollow
      <4>2. CASE ~MarkRemoving
        BY <2>1, <3>1, <4>2, ListFollows
           DEF OwnerStep, DestroyHandler, StopServer, EndRun, CloseHangs
      <4>3. QED
        BY <4>1, <4>2
    <3>2. ASSUME NEW t \in Threads,
                 (\E u \in Requests, m \in Methods : Arrive(t, u, m)) \/ ThreadStep(t)
          PROVE  Follows(j)
      <4>1. CASE Lookup(t) \/ Release(t)
        BY <2>1, <4>1, PlacesFollow
      <4>2. CASE ~(Lookup(t) \/ Release(t))
        <5>1. UNCHANGED handlers
          BY <3>2, <4>2 DEF ThreadStep, Arrive, Enter, Handle, LoadValue, SwapValue, NoFile, Close
        <5>2. QED
          BY <2>1, <5>1, ListFollows
      <4>3. QED
        BY <4>1, <4>2
    <3>3. QED
      BY <3>1, <3>2 DEF Next
  <2>2. SUFFICES ASSUME NEW i \in DOMAIN handlers, handlers[i].removing,
                        NEW j \in DOMAIN handlers', handlers'[j].uri = handlers[i].uri
                 PROVE  handlers'[j].removing /\ handlers'[j].refcount <= handlers[i].refcount
    OBVIOUS
  <2>3. PICK m \in DOMAIN handlers :
          /\ handlers[m].uri = handlers'[j].uri
          /\ handlers[m].removing => handlers'[j].removing /\ handlers'[j].refcount <= handlers[m].refcount
    BY <2>1, <2>2 DEF Follows
  <2>4. m = i
    BY <2>2, <2>3 DEF RegistryInv, UniqueInv
  <2>5. QED
    BY <2>2, <2>3, <2>4
<1>2. QED
  BY <1>1, RegistryInvariance, PTL DEF Spec, MarkedDrains
=============================================================================
