------------------------------ MODULE DataLemmas ------------------------------
(***************************************************************************)
(* Facts about numbers, sequences and folds that the proofs share.         *)
(*                                                                         *)
(* Induction is stated for a set and not for a predicate, so that a proof  *)
(* can cite it: it shows {n \in Nat : P(n)} to be all of Nat.              *)
(***************************************************************************)
EXTENDS Integers, Sequences, SequencesExt, FiniteSetsExt, SequenceTheorems, WellFoundedInduction, TLAPS

(* A nonempty set of natural numbers has a least element. *)
LEMMA LeastNatural ==
  ASSUME NEW T \in SUBSET Nat, T # {}
  PROVE  \E x \in T : \A y \in T : x <= y
<1> DEFINE Less == {p \in Nat \X Nat : p[1] < p[2]}
<1>1. IsWellFoundedOn(Less, Nat)
  BY NatLessThanWellFounded DEF OpToRel
<1>2. PICK x \in T : \A y \in T : <<y, x>> \notin Less
  <2> HIDE DEF Less
  <2> QED
    BY <1>1, WFMin
<1>3. \A y \in T : y \in Nat /\ ~(y < x)
  BY <1>2
<1>4. QED
  BY <1>3

(* Induction over the natural numbers. *)
LEMMA SetInduction ==
  ASSUME NEW S, 0 \in S, \A n \in Nat : n \in S => n + 1 \in S
  PROVE  Nat \subseteq S
<1> SUFFICES ASSUME Nat \ S # {} PROVE FALSE
  OBVIOUS
<1>1. PICK x \in Nat \ S : \A y \in Nat \ S : x <= y
  BY LeastNatural
<1>2. x - 1 \in Nat /\ x - 1 + 1 = x /\ ~(x <= x - 1)
  BY <1>1
<1>3. QED
  BY <1>1, <1>2

(* The least element of a set of natural numbers. *)
LEMMA MinNatural ==
  ASSUME NEW T \in SUBSET Nat, T # {}
  PROVE  Min(T) \in T /\ \A y \in T : Min(T) <= y
BY LeastNatural DEF Min

(* An interval from 1, its greatest element, and what is left without it. *)
LEMMA Interval ==
  ASSUME NEW n \in Nat \ {0}
  PROVE  1 .. n # {} /\ Max(1 .. n) = n /\ (1 .. n) \ {n} = 1 .. (n - 1)
BY DEF Max

(* A function on an interval from 1 is a sequence. *)
LEMMA IntervalSeq ==
  ASSUME NEW S, NEW n \in Nat, NEW f \in [1 .. n -> S]
  PROVE  f \in Seq(S) /\ Len(f) = n
BY SeqDef

(* The greatest element of a nonempty set of numbers up to n. *)
LEMMA MaxUpTo ==
  ASSUME NEW n \in Nat, NEW T \in SUBSET (1 .. n), T # {}
  PROVE  Max(T) \in T /\ \A y \in T : Max(T) >= y
<1> DEFINE U == {k \in Nat : \A y \in T : y <= k}
<1>1. U \in SUBSET Nat /\ n \in U
  OBVIOUS
<1>2. PICK k \in U : \A j \in U : k <= j
  BY <1>1, LeastNatural
<1>3. k \in T
  <2> SUFFICES ASSUME k \notin T PROVE FALSE
    OBVIOUS
  <2>1. k \in Nat /\ \A y \in T : y \in Nat /\ y # 0 /\ y <= k /\ y # k
    OBVIOUS
  <2>2. PICK y \in T : y \in Nat /\ y # 0 /\ y <= k
    BY <2>1
  <2>3. k - 1 \in Nat /\ ~(k <= k - 1)
    BY <2>1, <2>2
  <2>4. \A z \in T : z <= k - 1
    BY <2>1
  <2>5. k - 1 \in U
    BY <2>3, <2>4
  <2>6. QED
    BY <1>2, <2>3, <2>5
<1>4. \E x \in T : \A y \in T : x >= y
  BY <1>3
<1>5. QED
  BY <1>4 DEF Max

(* All of a sequence is the sequence.                                     *)
LEMMA WholeSeq ==
  ASSUME NEW S, NEW s \in Seq(S)
  PROVE  SubSeq(s, 1, Len(s)) = s
<1>1. Len(s) \in Nat /\ \A j \in 1 .. Len(s) : s[j] \in S
  BY LenProperties, ElementOfSeq
<1>2. /\ SubSeq(s, 1, Len(s)) \in Seq(S)
      /\ Len(SubSeq(s, 1, Len(s))) = IF 1 <= Len(s) THEN Len(s) - 1 + 1 ELSE 0
      /\ \A j \in 1 .. Len(s) - 1 + 1 : SubSeq(s, 1, Len(s))[j] = s[1 + j - 1]
  BY <1>1, SubSeqProperties
<1>3. Len(SubSeq(s, 1, Len(s))) = Len(s) /\ \A j \in 1 .. Len(s) : SubSeq(s, 1, Len(s))[j] = s[j]
  BY <1>1, <1>2
<1>4. QED
  BY <1>2, <1>3, SeqEqual

(* One more element in a sequence is one more in its range.                *)
LEMMA RangeAppend ==
  ASSUME NEW S, NEW s \in Seq(S), NEW e
  PROVE  Range(Append(s, e)) = Range(s) \cup {e}
<1>1. s \in Seq(S \cup {e})
  <2>1. Seq(S) \subseteq Seq(S \cup {e})
    BY SeqDef
  <2>2. QED
    BY <2>1
<1>2. /\ Len(s) \in Nat /\ DOMAIN s = 1 .. Len(s)
      /\ DOMAIN Append(s, e) = 1 .. (Len(s) + 1)
      /\ Append(s, e)[Len(s) + 1] = e
      /\ \A k \in 1 .. Len(s) : Append(s, e)[k] = s[k]
  BY <1>1, AppendProperties, LenProperties
<1>3. 1 .. (Len(s) + 1) = (1 .. Len(s)) \cup {Len(s) + 1}
  BY <1>2
<1>4. QED
  BY <1>2, <1>3 DEF Range

(* What is left when a place is taken out of a sequence. *)
LEMMA RemoveAtPlaces ==
  ASSUME NEW S, NEW s \in Seq(S), NEW i \in DOMAIN s
  PROVE  /\ RemoveAt(s, i) \in Seq(S)
         /\ Len(RemoveAt(s, i)) = Len(s) - 1
         /\ \A k \in 1 .. (Len(s) - 1) : RemoveAt(s, i)[k] = IF k < i THEN s[k] ELSE s[k + 1]
<1>1. Len(s) \in Nat /\ i \in 1 .. Len(s) /\ i \in Nat /\ \A k \in 1 .. Len(s) : s[k] \in S
  BY LenProperties, ElementOfSeq
<1> DEFINE a == SubSeq(s, 1, i - 1)
           b == SubSeq(s, i + 1, Len(s))
<1>2. /\ a \in Seq(S) /\ Len(a) = i - 1
      /\ \A k \in 1 .. (i - 1) : a[k] = s[k]
  <2>1. \A k \in 1 .. (i - 1) : s[k] \in S
    BY <1>1
  <2>2. /\ a \in Seq(S) /\ Len(a) = IF 1 <= i - 1 THEN i - 1 - 1 + 1 ELSE 0
        /\ \A k \in 1 .. i - 1 - 1 + 1 : a[k] = s[1 + k - 1]
    BY <1>1, <2>1, SubSeqProperties
  <2>3. i - 1 - 1 + 1 = i - 1 /\ \A k \in 1 .. (i - 1) : 1 + k - 1 = k
    BY <1>1
  <2>4. QED
    BY <1>1, <2>2, <2>3
<1>3. /\ b \in Seq(S) /\ Len(b) = Len(s) - i
      /\ \A k \in 1 .. (Len(s) - i) : b[k] = s[i + k]
  <2>1. \A k \in (i + 1) .. Len(s) : s[k] \in S
    BY <1>1
  <2>2. /\ b \in Seq(S) /\ Len(b) = IF i + 1 <= Len(s) THEN Len(s) - (i + 1) + 1 ELSE 0
        /\ \A k \in 1 .. Len(s) - (i + 1) + 1 : b[k] = s[i + 1 + k - 1]
    BY <1>1, <2>1, SubSeqProperties
  <2>3. Len(s) - (i + 1) + 1 = Len(s) - i /\ \A k \in 1 .. (Len(s) - i) : i + 1 + k - 1 = i + k
    BY <1>1
  <2>4. QED
    BY <1>1, <2>2, <2>3
<1> HIDE DEF a, b
<1>4. /\ a \o b \in Seq(S) /\ Len(a \o b) = Len(s) - 1
      /\ \A k \in 1 .. (Len(s) - 1) :
           (a \o b)[k] = IF k <= i - 1 THEN a[k] ELSE b[k - (i - 1)]
  <2>1. Len(a) + Len(b) = Len(s) - 1
    BY <1>1, <1>2, <1>3
  <2>2. /\ a \o b \in Seq(S) /\ Len(a \o b) = Len(a) + Len(b)
        /\ \A k \in 1 .. Len(a) + Len(b) :
             (a \o b)[k] = IF k <= Len(a) THEN a[k] ELSE b[k - Len(a)]
    BY <1>2, <1>3, ConcatProperties
  <2>3. QED
    BY <1>2, <2>1, <2>2
<1>5. ASSUME NEW k \in 1 .. (Len(s) - 1)
      PROVE  (a \o b)[k] = IF k < i THEN s[k] ELSE s[k + 1]
  <2>1. CASE k < i
    BY <1>1, <1>2, <1>4, <2>1
  <2>2. CASE ~(k < i)
    <3>1. k - (i - 1) \in 1 .. (Len(s) - i) /\ i + (k - (i - 1)) = k + 1 /\ ~(k <= i - 1)
      BY <1>1, <2>2
    <3>2. (a \o b)[k] = b[k - (i - 1)]
      BY <1>4, <3>1
    <3>3. b[k - (i - 1)] = s[i + (k - (i - 1))]
      BY <1>3, <3>1
    <3>4. QED
      BY <2>2, <3>1, <3>2, <3>3
  <2>3. QED
    BY <2>1, <2>2
<1>6. RemoveAt(s, i) = a \o b
  BY DEF RemoveAt, a, b
<1>7. QED
  BY <1>4, <1>5, <1>6

(* An element put into a sequence at a place. *)
LEMMA InsertAtPlaces ==
  ASSUME NEW S, NEW s \in Seq(S), NEW i \in 1 .. (Len(s) + 1), NEW e \in S
  PROVE  /\ InsertAt(s, i, e) \in Seq(S)
         /\ Len(InsertAt(s, i, e)) = Len(s) + 1
         /\ \A k \in 1 .. (Len(s) + 1) :
              InsertAt(s, i, e)[k] = IF k < i THEN s[k] ELSE IF k = i THEN e ELSE s[k - 1]
<1>1. Len(s) \in Nat /\ i \in Nat /\ i >= 1 /\ i <= Len(s) + 1 /\ \A k \in 1 .. Len(s) : s[k] \in S
  BY LenProperties, ElementOfSeq
<1> DEFINE a == SubSeq(s, 1, i - 1)
           b == SubSeq(s, i, Len(s))
<1>2. /\ a \in Seq(S) /\ Len(a) = i - 1
      /\ \A k \in 1 .. (i - 1) : a[k] = s[k]
  <2>1. \A k \in 1 .. (i - 1) : s[k] \in S
    BY <1>1
  <2>2. /\ a \in Seq(S) /\ Len(a) = IF 1 <= i - 1 THEN i - 1 - 1 + 1 ELSE 0
        /\ \A k \in 1 .. i - 1 - 1 + 1 : a[k] = s[1 + k - 1]
    BY <1>1, <2>1, SubSeqProperties
  <2>3. i - 1 - 1 + 1 = i - 1 /\ \A k \in 1 .. (i - 1) : 1 + k - 1 = k
    BY <1>1
  <2>4. QED
    BY <1>1, <2>2, <2>3
<1>3. /\ b \in Seq(S) /\ Len(b) = Len(s) - i + 1
      /\ \A k \in 1 .. (Len(s) - i + 1) : b[k] = s[i + k - 1]
  <2>1. \A k \in i .. Len(s) : s[k] \in S
    BY <1>1
  <2>2. QED
    BY <1>1, <2>1, SubSeqProperties
<1> HIDE DEF a, b
<1>4. /\ <<e>> \in Seq(S) /\ Len(<<e>>) = 1 /\ <<e>>[1] = e
  OBVIOUS
<1> DEFINE c == a \o <<e>>
<1>5. /\ c \in Seq(S) /\ Len(c) = i
      /\ \A k \in 1 .. i : c[k] = IF k < i THEN s[k] ELSE e
  <2>1. /\ c \in Seq(S) /\ Len(c) = Len(a) + Len(<<e>>)
        /\ \A k \in 1 .. Len(a) + Len(<<e>>) : c[k] = IF k <= Len(a) THEN a[k] ELSE <<e>>[k - Len(a)]
    BY <1>2, <1>4, ConcatProperties
  <2> HIDE DEF c
  <2>2. Len(a) + Len(<<e>>) = i /\ i - Len(a) = 1
    BY <1>1, <1>2, <1>4
  <2>3. \A k \in 1 .. i : k <= Len(a) \/ k = i
    BY <1>1, <1>2
  <2>4. QED
    BY <1>1, <1>2, <1>4, <2>1, <2>2, <2>3
<1> HIDE DEF c
<1>6. /\ c \o b \in Seq(S) /\ Len(c \o b) = Len(s) + 1
      /\ \A k \in 1 .. (Len(s) + 1) : (c \o b)[k] = IF k <= i THEN c[k] ELSE b[k - i]
  <2>1. i + Len(b) = Len(s) + 1
    BY <1>1, <1>3
  <2>2. /\ c \o b \in Seq(S) /\ Len(c \o b) = Len(c) + Len(b)
        /\ \A k \in 1 .. Len(c) + Len(b) : (c \o b)[k] = IF k <= Len(c) THEN c[k] ELSE b[k - Len(c)]
    BY <1>3, <1>5, ConcatProperties
  <2>3. QED
    BY <1>5, <2>1, <2>2
<1>7. ASSUME NEW k \in 1 .. (Len(s) + 1), k > i
      PROVE  b[k - i] = s[k - 1]
  <2>1. k - i \in 1 .. (Len(s) - i + 1) /\ i + (k - i) - 1 = k - 1
    BY <1>1, <1>7
  <2>2. b[k - i] = s[i + (k - i) - 1]
    BY <1>3, <2>1
  <2>3. QED
    BY <2>1, <2>2
<1>8. InsertAt(s, i, e) = c \o b
  BY DEF InsertAt, a, b, c
<1>9. ASSUME NEW k \in 1 .. (Len(s) + 1)
      PROVE  (c \o b)[k] = IF k < i THEN s[k] ELSE IF k = i THEN e ELSE s[k - 1]
  <2>1. CASE k <= i
    <3>1. k \in 1 .. i
      BY <1>1, <2>1
    <3>2. QED
      BY <1>1, <1>5, <1>6, <2>1, <3>1
  <2>2. CASE ~(k <= i)
    <3>1. k > i /\ ~(k < i) /\ k # i
      BY <1>1, <2>2
    <3>2. QED
      BY <1>6, <1>7, <2>2, <3>1
  <2>3. QED
    BY <2>1, <2>2
<1>10. QED
  BY <1>6, <1>8, <1>9

(* A function g that folds base over the subsets of 1 .. m, from the least  *)
(* element of each to the greatest, by steps of F that stay in V.          *)
IsFold(V, base, F, m, g) ==
  /\ g \in [SUBSET (1 .. m) -> V]
  /\ \A T \in SUBSET (1 .. m) :
       g[T] = IF T = {} THEN base ELSE F[<<g[T \ {Max(T)}], Max(T)>>]

(* Over no numbers there is one. *)
LEMMA FoldEmpty ==
  ASSUME NEW V, NEW base \in V, NEW F
  PROVE  \E g : IsFold(V, base, F, 0, g)
<1> DEFINE g == [T \in {{}} |-> base]
<1>1. SUBSET (1 .. 0) = {{}}
  OBVIOUS
<1>2. g \in [SUBSET (1 .. 0) -> V] /\ \A T \in SUBSET (1 .. 0) : T = {} /\ g[T] = base
  BY <1>1
<1>3. IsFold(V, base, F, 0, g)
  BY <1>2 DEF IsFold
<1>4. QED
  BY <1>3

(* One over 1 .. m extends to one over 1 .. m + 1. *)
LEMMA FoldExtend ==
  ASSUME NEW V, NEW base \in V, NEW n \in Nat, NEW F \in [V \X (1 .. n) -> V],
         NEW m \in Nat, m + 1 <= n, NEW g, IsFold(V, base, F, m, g)
  PROVE  \E h : IsFold(V, base, F, m + 1, h)
<1> DEFINE h == [T \in SUBSET (1 .. (m + 1)) |->
                   IF m + 1 \in T THEN F[<<g[T \ {m + 1}], m + 1>>] ELSE g[T]]
<1>1. /\ m + 1 \in 1 .. n /\ m + 1 \in Nat
      /\ \A T \in SUBSET (1 .. m) : g[T] \in V /\ T \in SUBSET (1 .. (m + 1)) /\ m + 1 \notin T
  BY DEF IsFold
<1>2. ASSUME NEW T \in SUBSET (1 .. (m + 1)), m + 1 \in T
      PROVE  h[T] \in V /\ h[T] = F[<<h[T \ {Max(T)}], Max(T)>>] /\ T # {}
  <2>1. T \ {m + 1} \in SUBSET (1 .. m)
    OBVIOUS
  <2>2. Max(T) = m + 1
    <3>1. Max(T) \in T /\ Max(T) >= m + 1
      BY <1>1, <1>2, MaxUpTo
    <3>2. Max(T) \in 1 .. (m + 1)
      BY <3>1
    <3>3. QED
      BY <3>1, <3>2
  <2>3. h[T] = F[<<g[T \ {m + 1}], m + 1>>] /\ h[T \ {m + 1}] = g[T \ {m + 1}]
    BY <1>1, <1>2, <2>1
  <2>4. F[<<g[T \ {m + 1}], m + 1>>] \in V
    BY <1>1, <2>1
  <2>5. QED
    BY <1>2, <2>2, <2>3, <2>4
<1>3. ASSUME NEW T \in SUBSET (1 .. (m + 1)), m + 1 \notin T
      PROVE  h[T] \in V /\ h[T] = IF T = {} THEN base ELSE F[<<h[T \ {Max(T)}], Max(T)>>]
  <2>1. T \in SUBSET (1 .. m) /\ h[T] = g[T]
    BY <1>3
  <2>2. CASE T = {}
    BY <2>1, <2>2 DEF IsFold
  <2>3. CASE T # {}
    <3>1. T \ {Max(T)} \in SUBSET (1 .. m) /\ T \ {Max(T)} \in SUBSET (1 .. (m + 1))
      BY <2>1
    <3>2. h[T \ {Max(T)}] = g[T \ {Max(T)}]
      BY <1>3, <3>1
    <3>3. g[T] = F[<<g[T \ {Max(T)}], Max(T)>>] /\ g[T] \in V
      BY <2>1, <2>3 DEF IsFold
    <3>4. QED
      BY <2>1, <2>3, <3>2, <3>3
  <2>4. QED
    BY <2>2, <2>3
<1>4. h \in [SUBSET (1 .. (m + 1)) -> V]
  BY <1>2, <1>3
<1>5. IsFold(V, base, F, m + 1, h)
  <2> HIDE DEF h
  <2> QED
    BY <1>2, <1>3, <1>4 DEF IsFold
<1>6. QED
  BY <1>5

(* So there is one over any 1 .. n. *)
LEMMA FoldExists ==
  ASSUME NEW V, NEW base \in V, NEW n \in Nat, NEW F \in [V \X (1 .. n) -> V]
  PROVE  \E g : IsFold(V, base, F, n, g)
<1> DEFINE S == {m \in Nat : m <= n => \E g : IsFold(V, base, F, m, g)}
<1>1. 0 \in S
  BY FoldEmpty
<1>2. ASSUME NEW m \in Nat, m \in S PROVE m + 1 \in S
  BY <1>2, FoldExtend
<1>3. Nat \subseteq S
  <2> HIDE DEF S
  <2> QED
    BY <1>1, <1>2, SetInduction
<1>4. QED
  BY <1>3

(* The same of a function of which nothing but its equation is known: that *)
(* its values are in V is not yet.                                         *)
Folds(V, base, F, n, it) ==
  /\ it[{}] = base
  /\ \A T \in SUBSET (1 .. n) :
       T # {} /\ it[T \ {Max(T)}] \in V => it[T] = F[<<it[T \ {Max(T)}], Max(T)>>]

(* h[m] is what it has come to after m steps. *)
StepsOf(V, base, F, n, it, h) ==
  /\ h \in [0 .. n -> V]
  /\ h[0] = base /\ h[n] = it[1 .. n]
  /\ \A m \in 1 .. n : h[m] = F[<<h[m - 1], m>>]

(* Such a function takes one step of F for each further number. *)
LEMMA FoldValues ==
  ASSUME NEW V, NEW base \in V, NEW n \in Nat, NEW F \in [V \X (1 .. n) -> V],
         NEW it, Folds(V, base, F, n, it)
  PROVE  \E h : StepsOf(V, base, F, n, it, h)
<1> DEFINE h == [m \in 0 .. n |-> it[1 .. m]]
<1>0. /\ it[{}] = base
      /\ \A T \in SUBSET (1 .. n) :
           T # {} /\ it[T \ {Max(T)}] \in V => it[T] = F[<<it[T \ {Max(T)}], Max(T)>>]
  BY DEF Folds
<1>1. ASSUME NEW m \in Nat, m + 1 <= n, it[1 .. m] \in V
      PROVE  it[1 .. (m + 1)] = F[<<it[1 .. m], m + 1>>]
  <2>1. m + 1 \in Nat \ {0} /\ m + 1 - 1 = m /\ 1 .. (m + 1) \in SUBSET (1 .. n)
    BY <1>1
  <2>2. 1 .. (m + 1) # {} /\ Max(1 .. (m + 1)) = m + 1 /\ (1 .. (m + 1)) \ {m + 1} = 1 .. m
    BY <2>1, Interval
  <2>3. QED
    BY <1>0, <1>1, <2>1, <2>2
<1> DEFINE S == {m \in Nat : m <= n => it[1 .. m] \in V}
<1>2. 0 \in S
  <2>1. 1 .. 0 = {}
    OBVIOUS
  <2>2. QED
    BY <1>0, <2>1
<1>3. ASSUME NEW m \in Nat, m \in S PROVE m + 1 \in S
  <2> SUFFICES ASSUME m + 1 <= n PROVE it[1 .. (m + 1)] \in V
    OBVIOUS
  <2>1. it[1 .. m] \in V /\ m + 1 \in 1 .. n
    BY <1>3
  <2>2. F[<<it[1 .. m], m + 1>>] \in V
    BY <2>1
  <2>3. QED
    BY <1>1, <2>1, <2>2
<1>4. Nat \subseteq S
  <2> HIDE DEF S
  <2> QED
    BY <1>2, <1>3, SetInduction
<1>5. h \in [0 .. n -> V]
  BY <1>4
<1>6. h[0] = base /\ h[n] = it[1 .. n]
  <2>1. 1 .. 0 = {}
    OBVIOUS
  <2>2. QED
    BY <1>0, <2>1
<1>7. ASSUME NEW m \in 1 .. n PROVE h[m] = F[<<h[m - 1], m>>]
  <2>1. m - 1 \in Nat /\ m - 1 + 1 = m /\ m - 1 \in 0 .. n /\ m \in 0 .. n /\ m - 1 + 1 <= n
    OBVIOUS
  <2>2. h[m] = it[1 .. m] /\ h[m - 1] = it[1 .. (m - 1)] /\ h[m - 1] \in V
    BY <1>5, <2>1
  <2>3. QED
    BY <1>1, <2>1, <2>2
<1>8. StepsOf(V, base, F, n, it, h)
  <2> HIDE DEF h
  <2> QED
    BY <1>5, <1>6, <1>7 DEF StepsOf
<1>9. QED
  BY <1>8
-----------------------------------------------------------------------------
(* Numbers that are sorted. *)
Ascending(f) == \A i, j \in DOMAIN f : i <= j => f[i] <= f[j]

(* h[m] is the sum of the first m of the n numbers f. *)
IsSum(n, f, h) ==
  /\ h \in [0 .. n -> Nat]
  /\ h[0] = 0
  /\ \A m \in 1 .. n : h[m] = h[m - 1] + f[m]

(* There is one such h. *)
LEMMA SumUnique ==
  ASSUME NEW n \in Nat, NEW f \in [1 .. n -> Nat], NEW h, IsSum(n, f, h), NEW h2, IsSum(n, f, h2)
  PROVE  h[n] = h2[n]
<1> DEFINE S == {m \in Nat : m <= n => h[m] = h2[m]}
<1>1. 0 \in S
  BY DEF IsSum
<1>2. ASSUME NEW m \in Nat, m \in S PROVE m + 1 \in S
  <2> SUFFICES ASSUME m + 1 <= n PROVE h[m + 1] = h2[m + 1]
    OBVIOUS
  <2>1. m + 1 \in 1 .. n /\ m + 1 - 1 = m /\ m <= n
    OBVIOUS
  <2>2. h[m + 1] = h[m] + f[m + 1] /\ h2[m + 1] = h2[m] + f[m + 1]
    BY <2>1 DEF IsSum
  <2>3. h[m] = h2[m]
    BY <1>2, <2>1
  <2>4. QED
    BY <2>2, <2>3
<1>3. Nat \subseteq S
  <2> HIDE DEF S
  <2> QED
    BY <1>1, <1>2, SetInduction
<1>4. QED
  BY <1>3

(* Numbers that are sorted stay so when one is put between the smaller and *)
(* the greater ones.                                                       *)
LEMMA InsertAscending ==
  ASSUME NEW n \in Nat, NEW f \in [1 .. n -> Int], Ascending(f), NEW v \in Int,
         NEW p \in 1 .. (n + 1), NEW f2 \in [1 .. (n + 1) -> Int],
         \A k \in 1 .. (n + 1) : f2[k] = IF k < p THEN f[k] ELSE IF k = p THEN v ELSE f[k - 1],
         \A j \in 1 .. n : IF j < p THEN f[j] <= v ELSE v <= f[j]
  PROVE  Ascending(f2)
<1> SUFFICES ASSUME NEW i \in 1 .. (n + 1), NEW j \in 1 .. (n + 1), i <= j
             PROVE  f2[i] <= f2[j]
  BY DEF Ascending
<1>1. f2[i] \in Int /\ f2[j] \in Int
  OBVIOUS
<1>2. \A a, b \in 1 .. n : a <= b => f[a] <= f[b]
  BY DEF Ascending
<1>3. CASE i = j
  BY <1>1, <1>3
<1>4. CASE i < p /\ j < p
  <2>1. i \in 1 .. n /\ j \in 1 .. n
    BY <1>4
  <2>2. QED
    BY <1>2, <1>4, <2>1
<1>5. CASE i < p /\ j = p
  <2>1. i \in 1 .. n
    BY <1>5
  <2>2. QED
    BY <1>5, <2>1
<1>6. CASE i < p /\ j > p
  <2>1. i \in 1 .. n /\ j - 1 \in 1 .. n /\ i <= j - 1 /\ ~(j < p) /\ j # p
    BY <1>6
  <2>2. QED
    BY <1>2, <1>6, <2>1
<1>7. CASE i = p /\ j > p
  <2>1. j - 1 \in 1 .. n /\ ~(j - 1 < p) /\ ~(j < p) /\ j # p
    BY <1>7
  <2>2. QED
    BY <1>7, <2>1
<1>8. CASE i > p /\ j > p
  <2>1. i - 1 \in 1 .. n /\ j - 1 \in 1 .. n /\ i - 1 <= j - 1 /\ ~(i < p) /\ ~(j < p) /\ j # p /\ i # p
    BY <1>8
  <2>2. QED
    BY <1>2, <1>8, <2>1
<1>9. QED
  BY <1>3, <1>4, <1>5, <1>6, <1>7, <1>8

(* A one that is put anywhere adds one to the sum. *)
LEMMA SumInsert ==
  ASSUME NEW n \in Nat, NEW f \in [1 .. n -> Nat], NEW h, IsSum(n, f, h),
         NEW p \in 1 .. (n + 1), NEW f2 \in [1 .. (n + 1) -> Nat],
         \A k \in 1 .. (n + 1) : f2[k] = IF k < p THEN f[k] ELSE IF k = p THEN 1 ELSE f[k - 1]
  PROVE  \E h2 : IsSum(n + 1, f2, h2) /\ h2[n + 1] = h[n] + 1
<1> DEFINE h2 == [m \in 0 .. (n + 1) |-> IF m < p THEN h[m] ELSE h[m - 1] + 1]
<1>0. h \in [0 .. n -> Nat] /\ h[0] = 0 /\ (\A m \in 1 .. n : h[m] = h[m - 1] + f[m])
  BY DEF IsSum
<1>1. ASSUME NEW m \in 0 .. (n + 1)
      PROVE  h2[m] \in Nat /\ h2[m] = IF m < p THEN h[m] ELSE h[m - 1] + 1
  <2>1. CASE m < p
    <3>1. m \in 0 .. n
      BY <2>1
    <3>2. QED
      BY <1>0, <2>1, <3>1
  <2>2. CASE ~(m < p)
    <3>1. m - 1 \in 0 .. n
      BY <2>2
    <3>2. QED
      BY <1>0, <2>2, <3>1
  <2>3. QED
    BY <2>1, <2>2
<1>2. h2 \in [0 .. (n + 1) -> Nat]
  BY <1>1
<1>3. h2[0] = 0 /\ h2[n + 1] = h[n] + 1
  <2>1. 0 < p /\ ~(n + 1 < p) /\ n + 1 - 1 = n /\ 0 \in 0 .. (n + 1) /\ n + 1 \in 0 .. (n + 1)
    OBVIOUS
  <2>2. QED
    BY <1>0, <1>1, <2>1
<1>4. ASSUME NEW m \in 1 .. (n + 1) PROVE h2[m] = h2[m - 1] + f2[m]
  <2>0. m \in 0 .. (n + 1) /\ m - 1 \in 0 .. (n + 1)
    OBVIOUS
  <2> HIDE DEF h2
  <2>1. CASE m < p
    <3>1. m \in 1 .. n /\ m - 1 < p
      BY <2>1
    <3>2. QED
      BY <1>0, <1>1, <2>0, <2>1, <3>1
  <2>2. CASE m = p
    <3>1. ~(m < p) /\ m - 1 < p /\ m - 1 \in 0 .. n
      BY <2>2
    <3>2. h2[m] = h[m - 1] + 1 /\ h2[m - 1] = h[m - 1] /\ f2[m] = 1
      BY <1>1, <2>0, <2>2, <3>1
    <3>3. QED
      BY <3>2
  <2>3. CASE m > p
    <3>1. ~(m < p) /\ m # p /\ ~(m - 1 < p) /\ m - 1 \in 1 .. n /\ m - 1 - 1 \in 0 .. n
      BY <2>3
    <3>2. h2[m] = h[m - 1] + 1 /\ h2[m - 1] = h[m - 1 - 1] + 1 /\ f2[m] = f[m - 1]
      BY <1>1, <2>0, <3>1
    <3>3. h[m - 1] = h[m - 1 - 1] + f[m - 1] /\ h[m - 1] \in Nat /\ h[m - 1 - 1] \in Nat /\ f[m - 1] \in Nat
      BY <1>0, <3>1
    <3>4. PICK x, y, z \in Nat : x = h[m - 1] /\ y = h[m - 1 - 1] /\ z = f[m - 1]
      BY <3>3
    <3>5. h2[m] = x + 1 /\ h2[m - 1] = y + 1 /\ f2[m] = z /\ x = y + z
      BY <3>2, <3>3, <3>4, Zenon
    <3>6. (y + z) + 1 = (y + 1) + z
      BY <3>4
    <3>7. QED
      BY <3>5, <3>6, Zenon
  <2>4. QED
    BY <2>1, <2>2, <2>3
<1>5. IsSum(n + 1, f2, h2)
  <2> HIDE DEF h2
  <2> QED
    BY <1>2, <1>3, <1>4 DEF IsSum
<1>6. QED
  BY <1>3, <1>5

(* Two neighbours that become their sum leave the sum as it was. *)
LEMMA SumAbsorb ==
  ASSUME NEW n \in Nat, NEW f \in [1 .. n -> Nat], NEW h, IsSum(n, f, h),
         NEW i \in 1 .. (n - 1), NEW f2 \in [1 .. (n - 1) -> Nat],
         \A k \in 1 .. (n - 1) :
           f2[k] = IF k < i THEN f[k] ELSE IF k = i THEN f[i + 1] + f[i] ELSE f[k + 1]
  PROVE  \E h2 : IsSum(n - 1, f2, h2) /\ h2[n - 1] = h[n]
<1> DEFINE h2 == [m \in 0 .. (n - 1) |-> IF m < i THEN h[m] ELSE h[m + 1]]
<1>0. /\ h \in [0 .. n -> Nat] /\ h[0] = 0 /\ (\A m \in 1 .. n : h[m] = h[m - 1] + f[m])
      /\ n - 1 \in Nat /\ n - 1 + 1 = n
  BY DEF IsSum
<1>1. ASSUME NEW m \in 0 .. (n - 1)
      PROVE  h2[m] \in Nat /\ h2[m] = IF m < i THEN h[m] ELSE h[m + 1]
  <2>1. m \in 0 .. n /\ m + 1 \in 0 .. n
    BY <1>0
  <2>2. QED
    BY <1>0, <2>1
<1>2. h2 \in [0 .. (n - 1) -> Nat]
  BY <1>1
<1>3. h2[0] = 0 /\ h2[n - 1] = h[n]
  <2>1. 0 < i /\ ~(n - 1 < i) /\ 0 \in 0 .. (n - 1) /\ n - 1 \in 0 .. (n - 1)
    BY <1>0
  <2>2. QED
    BY <1>0, <1>1, <2>1
<1>4. ASSUME NEW m \in 1 .. (n - 1) PROVE h2[m] = h2[m - 1] + f2[m]
  <2>0. m \in 0 .. (n - 1) /\ m - 1 \in 0 .. (n - 1) /\ m - 1 + 1 = m /\ m + 1 - 1 = m
    OBVIOUS
  <2> HIDE DEF h2
  <2>1. CASE m < i
    <3>1. m \in 1 .. n /\ m - 1 < i
      BY <2>1
    <3>2. QED
      BY <1>0, <1>1, <2>0, <2>1, <3>1
  <2>2. CASE m = i
    <3>1. ~(m < i) /\ m - 1 < i /\ m \in 1 .. n /\ m + 1 \in 1 .. n /\ m - 1 \in 0 .. n /\ m \in 0 .. n
      BY <2>2
    <3>2. h2[m] = h[m + 1] /\ h2[m - 1] = h[m - 1] /\ f2[m] = f[m + 1] + f[m]
      BY <1>1, <2>0, <2>2, <3>1
    <3>3. h[m + 1] = h[m] + f[m + 1] /\ h[m] = h[m - 1] + f[m]
      BY <1>0, <2>0, <3>1
    <3>4. h[m - 1] \in Nat /\ f[m] \in Nat /\ f[m + 1] \in Nat
      BY <1>0, <3>1
    <3>5. QED
      BY <3>2, <3>3, <3>4
  <2>3. CASE m > i
    <3>1. ~(m < i) /\ m # i /\ ~(m - 1 < i) /\ m + 1 \in 1 .. n
      BY <2>3
    <3>2. h2[m] = h[m + 1] /\ h2[m - 1] = h[m] /\ f2[m] = f[m + 1]
      BY <1>1, <2>0, <3>1
    <3>3. h[m + 1] = h[m] + f[m + 1]
      BY <1>0, <2>0, <3>1
    <3>4. QED
      BY <3>2, <3>3
  <2>4. QED
    BY <2>1, <2>2, <2>3
<1>5. IsSum(n - 1, f2, h2)
  <2> HIDE DEF h2
  <2> QED
    BY <1>2, <1>3, <1>4 DEF IsSum
<1>6. QED
  BY <1>3, <1>5
=============================================================================
