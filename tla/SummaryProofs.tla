---------------------------- MODULE SummaryProofs ----------------------------
(***************************************************************************)
(* Proofs about the quantile estimator and the summary's sliding window of *)
(* them: for all quantiles, buckets, values and bounds the samples stay    *)
(* sorted and lose no rank, a quantile is taken over the observations of   *)
(* its window, and quantiles of one sample are in order.                   *)
(*                                                                         *)
(* The estimator's operators are folds.  Each is shown to be the last of   *)
(* the values after 0, 1, 2 ... of its steps (FoldValues), and what all of *)
(* these have in common by induction (SetInduction).                       *)
(***************************************************************************)
EXTENDS Summary, DataLemmas, FiniteSetTheorems

(* The error that one quantile allows, on either side of its rank.         *)
ErrorOf(q, n, rank) == IF rank * q.den <= q.num * n THEN q.u * (n - rank) ELSE q.v * rank

(* It is a natural number, as a quantile is at most 1. *)
LEMMA ErrorOfNatural ==
  ASSUME NEW q \in Quantile, NEW n \in Nat, NEW rank \in Nat
  PROVE  ErrorOf(q, n, rank) \in Nat
<1>1. /\ q.num \in Nat /\ q.den \in Nat \ {0} /\ q.u \in Nat /\ q.v \in Nat /\ q.num <= q.den
  BY DEF Quantile
<1>2. CASE rank * q.den <= q.num * n
  <2>1. rank <= n
    <3> SUFFICES ASSUME rank >= n + 1 PROVE FALSE
      OBVIOUS
    <3>1. rank * q.den >= (n + 1) * q.den
      BY <1>1
    <3>2. (n + 1) * q.den = n * q.den + q.den
      BY <1>1
    <3>3. n * q.den >= n * q.num /\ n * q.num = q.num * n
      BY <1>1
    <3>4. /\ rank * q.den \in Nat /\ (n + 1) * q.den \in Nat /\ n * q.den \in Nat
          /\ n * q.num \in Nat
      BY <1>1
    <3>5. QED
      BY <1>1, <1>2, <3>1, <3>2, <3>3, <3>4
  <2>2. q.u * (n - rank) \in Nat
    BY <1>1, <2>1
  <2>3. QED
    BY <1>2, <2>2 DEF ErrorOf
<1>3. CASE ~(rank * q.den <= q.num * n)
  BY <1>1, <1>3 DEF ErrorOf
<1>4. QED
  BY <1>2, <1>3

(* The least of them, and of the size of the sample and one, is allowed.    *)
LEMMA ErrorLeast ==
  ASSUME NEW quants \in Seq(Quantile), NEW S, NEW s \in Seq(S), NEW rank \in Nat,
         NEW errs, errs = {(Len(s) + 1) * Scale} \cup {ErrorOf(q, Len(s), rank) : q \in Range(quants)}
  PROVE  /\ AllowableError(quants, s, rank) \in errs
         /\ AllowableError(quants, s, rank) \in Nat
         /\ \A x \in errs : x \in Nat /\ AllowableError(quants, s, rank) <= x
<1>1. Len(s) \in Nat /\ Scale \in Nat /\ (Len(s) + 1) * Scale \in Nat
  BY LenProperties, CKMSAssumption
<1>2. ASSUME NEW q \in Range(quants) PROVE ErrorOf(q, Len(s), rank) \in Nat
  <2>1. q \in Quantile
    BY RangeOfSeq DEF Range
  <2>2. QED
    BY <1>1, <2>1, ErrorOfNatural
<1>3. errs \in SUBSET Nat /\ errs # {}
  BY <1>1, <1>2
<1>4. AllowableError(quants, s, rank) = Min(errs)
  BY DEF AllowableError, ErrorOf
<1>5. QED
  BY <1>3, <1>4, MinNatural

(* So it is a natural number. *)
LEMMA ErrorNatural ==
  ASSUME NEW quants \in Seq(Quantile), NEW S, NEW s \in Seq(S), NEW rank \in Nat
  PROVE  AllowableError(quants, s, rank) \in Nat
BY ErrorLeast

(* The uncertainty of a new item is a natural number. *)
LEMMA DeltaNatural ==
  ASSUME NEW quants \in Seq(Quantile), NEW S, NEW s \in Seq(S), NEW place \in Nat
  PROVE  Delta(quants, s, place) \in Nat
<1>0. place + 1 \in Nat
  OBVIOUS
<1>1. AllowableError(quants, s, place + 1) \in Nat
  BY <1>0, ErrorNatural
<1> DEFINE e == AllowableError(quants, s, place + 1)
<1>2. e \div Scale \in Nat
  <2> HIDE DEF e
  <2>1. e \in Nat
    BY <1>1 DEF e
  <2>2. QED
    BY <2>1, CKMSAssumption
<1>3. QED
  BY <1>2 DEF Delta

(* The values of a sample.                                                 *)
ValuesOf(s) == [j \in 1 .. Len(s) |-> s[j].value]

(* What the items of a sample are, and their values as a function. *)
LEMMA ItemValues ==
  ASSUME NEW W, NEW s \in Seq(Item(W))
  PROVE  /\ Len(s) \in Nat /\ DOMAIN s = 1 .. Len(s)
         /\ ValuesOf(s) \in [1 .. Len(s) -> W]
         /\ \A j \in 1 .. Len(s) : s[j] \in Item(W) /\ s[j].value = ValuesOf(s)[j]
<1>1. /\ Len(s) \in Nat /\ DOMAIN s = 1 .. Len(s)
      /\ \A j \in 1 .. Len(s) : s[j] \in Item(W)
  BY LenProperties, ElementOfSeq
<1>2. \A j \in 1 .. Len(s) : s[j].value \in W
  BY <1>1 DEF Item
<1>3. QED
  BY <1>1, <1>2 DEF ValuesOf

(* Where a scan of numbers f that has come to idx puts v: none that it     *)
(* passes is greater, and, in sorted numbers, none that follows is less.   *)
LEMMA ScanStops ==
  ASSUME NEW n \in Nat, NEW f \in [1 .. n -> Int], NEW idx \in 1 .. n, NEW v \in Int,
         NEW stop \in idx .. n, stop = n \/ f[stop] >= v,
         \A j \in idx .. n : f[j] >= v => stop <= j,
         NEW place, place = IF f[stop] > v THEN stop - 1 ELSE stop
  PROVE  /\ place \in (idx - 1) .. n
         /\ \A j \in idx .. place : f[j] <= v
         /\ Ascending(f) => \A j \in (place + 1) .. n : v <= f[j]
<1>3. stop \in 1 .. n /\ f[stop] \in Int
  OBVIOUS
<1>4. \A j \in idx .. n : j < stop => f[j] < v
  <2> SUFFICES ASSUME NEW j \in idx .. n, j < stop PROVE f[j] < v
    OBVIOUS
  <2>1. j \in 1 .. n /\ ~(stop <= j)
    OBVIOUS
  <2>2. f[j] \in Int /\ ~(f[j] >= v)
    BY <2>1
  <2>3. QED
    BY <2>2
<1>5. CASE f[stop] > v
  <2>1. place = stop - 1
    BY <1>5
  <2>2. ASSUME NEW j \in idx .. place PROVE f[j] <= v
    <3>1. j \in idx .. n /\ j < stop
      BY <1>3, <2>1
    <3>2. f[j] < v /\ f[j] \in Int
      BY <1>4, <3>1
    <3>3. QED
      BY <3>2
  <2>3. ASSUME Ascending(f), NEW j \in (place + 1) .. n PROVE v <= f[j]
    <3>1. j \in 1 .. n /\ stop <= j
      BY <1>3, <2>1
    <3>2. f[stop] <= f[j]
      BY <1>3, <2>3, <3>1 DEF Ascending
    <3>3. f[stop] \in Int /\ f[j] \in Int
      BY <1>3, <3>1
    <3>4. QED
      BY <1>5, <3>2, <3>3
  <2>4. QED
    BY <1>3, <2>1, <2>2, <2>3
<1>6. CASE ~(f[stop] > v)
  <2>1. place = stop
    BY <1>6
  <2>2. ASSUME NEW j \in idx .. place PROVE f[j] <= v
    <3>1. j \in idx .. n /\ (j = stop \/ j < stop)
      BY <1>3, <2>1
    <3>2. f[j] \in Int
      BY <3>1
    <3>3. QED
      BY <1>4, <1>6, <3>1, <3>2
  <2>3. ASSUME Ascending(f), NEW j \in (place + 1) .. n PROVE v <= f[j]
    <3>1. j \in 1 .. n /\ stop <= j /\ stop # n
      BY <1>3, <2>1
    <3>2. f[stop] <= f[j] /\ f[stop] >= v
      BY <1>3, <2>3, <3>1 DEF Ascending
    <3>3. f[stop] \in Int /\ f[j] \in Int
      BY <1>3, <3>1
    <3>4. QED
      BY <3>2, <3>3
  <2>4. QED
    BY <1>3, <2>1, <2>2, <2>3
<1>7. QED
  BY <1>5, <1>6

(* Where insertBatch puts a value (ckms_quantiles.cc:107-113).             *)
LEMMA PlaceFound ==
  ASSUME NEW W \in SUBSET Int, NEW s \in Seq(Item(W)), NEW idx \in 1 .. Len(s), NEW v \in Int
  PROVE  /\ Place(s, idx, v) \in (idx - 1) .. Len(s)
         /\ \A j \in idx .. Place(s, idx, v) : ValuesOf(s)[j] <= v
         /\ Ascending(ValuesOf(s)) =>
              \A j \in (Place(s, idx, v) + 1) .. Len(s) : v <= ValuesOf(s)[j]
<1> DEFINE stops == {j \in idx .. Len(s) : j = Len(s) \/ s[j].value >= v}
<1>1. /\ Len(s) \in Nat /\ ValuesOf(s) \in [1 .. Len(s) -> W]
      /\ \A j \in 1 .. Len(s) : s[j].value = ValuesOf(s)[j]
  BY ItemValues
<1>2. PICK n, f : n \in Nat /\ n = Len(s) /\ f = ValuesOf(s) /\ f \in [1 .. n -> Int]
  BY <1>1
<1>3. \A j \in idx .. n : j \in 1 .. n /\ j \in Nat
  BY <1>2
<1>4. stops \in SUBSET Nat /\ n \in stops
  BY <1>2, <1>3
<1>5. Min(stops) \in stops /\ \A j \in stops : Min(stops) <= j
  <2> HIDE DEF stops
  <2> QED
    BY <1>4, MinNatural
<1>6. PICK stop : stop = Min(stops)
  OBVIOUS
<1>7. /\ stop \in idx .. n /\ (stop = n \/ s[stop].value >= v)
      /\ \A j \in idx .. n : s[j].value >= v => stop <= j
  BY <1>2, <1>5, <1>6
<1>8. Place(s, idx, v) = IF s[stop].value > v THEN stop - 1 ELSE stop
  BY <1>6 DEF Place
<1>9. /\ stop = n \/ f[stop] >= v
      /\ \A j \in idx .. n : f[j] >= v => stop <= j
      /\ Place(s, idx, v) = IF f[stop] > v THEN stop - 1 ELSE stop
  BY <1>1, <1>2, <1>3, <1>7, <1>8, Zenon
<1> HIDE DEF stops
<1>10. /\ Place(s, idx, v) \in (idx - 1) .. n
       /\ \A j \in idx .. Place(s, idx, v) : f[j] <= v
       /\ Ascending(f) => \A j \in (Place(s, idx, v) + 1) .. n : v <= f[j]
  <2>1. n \in Nat /\ f \in [1 .. n -> Int] /\ idx \in 1 .. n /\ stop \in idx .. n
    BY <1>2, <1>7
  <2>2. QED
    BY <1>9, <2>1, ScanStops, Zenon
<1>11. QED
  BY <1>2, <1>10, Zenon

(* The g of the items of a sample. *)
GsOf(s) == [j \in 1 .. Len(s) |-> s[j].g]

(* Their g as a function. *)
LEMMA ItemGs ==
  ASSUME NEW W, NEW s \in Seq(Item(W))
  PROVE  /\ Len(s) \in Nat /\ GsOf(s) \in [1 .. Len(s) -> Nat]
         /\ \A j \in 1 .. Len(s) : s[j].g = GsOf(s)[j] /\ s[j].g \in Nat \ {0} /\ s[j].delta \in Nat
<1>1. Len(s) \in Nat /\ \A j \in 1 .. Len(s) : s[j] \in Item(W)
  BY LenProperties, ElementOfSeq
<1>2. \A j \in 1 .. Len(s) : s[j].g \in Nat \ {0} /\ s[j].delta \in Nat
  BY <1>1 DEF Item
<1>3. QED
  BY <1>1, <1>2 DEF GsOf

(* The ranks that a sample stands for are the sum of its g.                *)
LEMMA RankFold ==
  ASSUME NEW W, NEW s \in Seq(Item(W))
  PROVE  \E h : IsSum(Len(s), GsOf(s), h) /\ RankOf(s, Len(s)) = h[Len(s)]
<1>1. /\ Len(s) \in Nat /\ DOMAIN s = 1 .. Len(s) /\ GsOf(s) \in [1 .. Len(s) -> Nat]
      /\ \A j \in 1 .. Len(s) : s[j].g = GsOf(s)[j]
  BY ItemGs, LenProperties
<1>2. SubSeq(s, 1, Len(s)) = s
  BY WholeSeq
<1> DEFINE n == Len(s)
           f == GsOf(s)
           Solves(it) == it = [T \in SUBSET DOMAIN s |->
                                 IF T = {} THEN 0 ELSE it[T \ {Max(T)}] + s[Max(T)].g]
           it == CHOOSE it : Solves(it)
           F == [x \in Nat \X (1 .. n) |-> x[1] + f[x[2]]]
<1>3. RankOf(s, n) = it[DOMAIN s]
  BY <1>2 DEF RankOf, FoldLeft, MapThenFoldSet
<1>4. F \in [Nat \X (1 .. n) -> Nat]
  BY <1>1
<1>5. \E g : Solves(g)
  <2>1. PICK g : IsFold(Nat, 0, F, n, g)
    <3> HIDE DEF F
    <3> QED
      BY <1>1, <1>4, FoldExists
  <2>2. ASSUME NEW T \in SUBSET (1 .. n), T # {}
        PROVE  g[T] = g[T \ {Max(T)}] + s[Max(T)].g
    <3>1. Max(T) \in 1 .. n /\ T \ {Max(T)} \in SUBSET (1 .. n)
      BY <1>1, <2>2, MaxUpTo
    <3>2. g[T] = F[<<g[T \ {Max(T)}], Max(T)>>] /\ g[T \ {Max(T)}] \in Nat
      BY <2>1, <2>2, <3>1 DEF IsFold
    <3>3. QED
      BY <1>1, <3>1, <3>2
  <2>3. g = [T \in SUBSET (1 .. n) |-> g[T]] /\ g[{}] = 0
    BY <2>1 DEF IsFold
  <2>4. Solves(g)
    BY <1>1, <2>2, <2>3
  <2>5. QED
    BY <2>4
<1>6. Solves(it)
  <2> HIDE DEF Solves
  <2> QED
    BY <1>5
<1> HIDE DEF it, f
<1>7. Folds(Nat, 0, F, n, it)
  <2>1. \A T \in SUBSET (1 .. n) : T # {} => it[T] = it[T \ {Max(T)}] + s[Max(T)].g
    BY <1>1, <1>6
  <2>2. it[{}] = 0
    BY <1>1, <1>6
  <2>3. ASSUME NEW T \in SUBSET (1 .. n), T # {}, it[T \ {Max(T)}] \in Nat
        PROVE  it[T] = F[<<it[T \ {Max(T)}], Max(T)>>]
    <3>1. Max(T) \in 1 .. n
      BY <1>1, <2>3, MaxUpTo
    <3>2. s[Max(T)].g = f[Max(T)]
      BY <1>1, <3>1 DEF f
    <3>3. QED
      BY <2>1, <2>3, <3>1, <3>2
  <2> HIDE DEF F, Solves
  <2>4. QED
    BY <2>2, <2>3 DEF Folds
<1>8. PICK h : StepsOf(Nat, 0, F, n, it, h)
  <2>1. n \in Nat /\ 0 \in Nat
    BY <1>1
  <2> HIDE DEF F, n, Solves
  <2>2. QED
    BY <1>4, <1>7, <2>1, FoldValues
<1>9. h \in [0 .. n -> Nat] /\ h[0] = 0 /\ h[n] = it[1 .. n] /\ \A m \in 1 .. n : h[m] = h[m - 1] + f[m]
  <2>1. h \in [0 .. n -> Nat] /\ h[0] = 0 /\ h[n] = it[1 .. n] /\ \A m \in 1 .. n : h[m] = F[<<h[m - 1], m>>]
    <3> HIDE DEF F, n, Solves
    <3> QED
      BY <1>8 DEF StepsOf
  <2>2. ASSUME NEW m \in 1 .. n PROVE h[m] = h[m - 1] + f[m]
    <3>1. m - 1 \in 0 .. n
      BY <1>1
    <3>2. QED
      BY <2>1, <3>1
  <2>3. QED
    BY <2>1, <2>2
<1>10. QED
  BY <1>1, <1>3, <1>9 DEF IsSum, f

(* Any function that sums the g ends in that many ranks. *)
LEMMA RankIs ==
  ASSUME NEW W, NEW s \in Seq(Item(W)), NEW h, IsSum(Len(s), GsOf(s), h)
  PROVE  RankOf(s, Len(s)) = h[Len(s)]
BY RankFold, SumUnique, ItemGs

(* One value more in sorted ones. *)
LEMMA InsertSortedStep ==
  ASSUME NEW W \in SUBSET Int, NEW t \in Seq(W), Ascending(t), NEW v \in W
  PROVE  /\ InsertSorted(t, v) \in Seq(W)
         /\ Len(InsertSorted(t, v)) = Len(t) + 1
         /\ Ascending(InsertSorted(t, v))
<1> DEFINE places == {j \in 1 .. (Len(t) + 1) : j = Len(t) + 1 \/ t[j] > v}
           p == Min(places)
           t2 == InsertAt(t, p, v)
<1>1. Len(t) \in Nat /\ t \in [1 .. Len(t) -> Int] /\ v \in Int /\ DOMAIN t = 1 .. Len(t)
  <2>1. Len(t) \in Nat /\ DOMAIN t = 1 .. Len(t) /\ t \in [1 .. Len(t) -> W]
    BY LenProperties
  <2>2. QED
    BY <2>1
<1>2. places \in SUBSET Nat /\ Len(t) + 1 \in places
  BY <1>1
<1>3. p \in places /\ \A j \in places : p <= j
  <2> HIDE DEF places
  <2> QED
    BY <1>2, MinNatural
<1>4. p \in 1 .. (Len(t) + 1) /\ (p = Len(t) + 1 \/ t[p] > v)
  BY <1>3
<1>5. \A j \in 1 .. Len(t) : j < p => t[j] <= v
  <2> SUFFICES ASSUME NEW j \in 1 .. Len(t), j < p PROVE t[j] <= v
    OBVIOUS
  <2>1. j \in 1 .. (Len(t) + 1) /\ ~(p <= j)
    BY <1>1, <1>4
  <2>2. ~(t[j] > v) /\ t[j] \in Int
    BY <1>1, <1>3, <2>1
  <2>3. QED
    BY <1>1, <2>2
<1> HIDE DEF places, p
<1>6. ASSUME NEW j \in 1 .. Len(t), ~(j < p) PROVE v <= t[j]
  <2>1. p \in 1 .. Len(t) /\ p # Len(t) + 1 /\ p <= j
    BY <1>1, <1>4, <1>6
  <2>2. t[p] > v /\ t[p] <= t[j] /\ t[p] \in Int /\ t[j] \in Int
    BY <1>1, <1>4, <2>1 DEF Ascending
  <2>3. QED
    BY <1>1, <2>2
<1>7. /\ t2 \in Seq(W) /\ Len(t2) = Len(t) + 1
      /\ \A k \in 1 .. (Len(t) + 1) :
           t2[k] = IF k < p THEN t[k] ELSE IF k = p THEN v ELSE t[k - 1]
  BY <1>4, InsertAtPlaces
<1> HIDE DEF t2
<1>8. Ascending(t2)
  <2>1. Len(t) + 1 \in Nat /\ t2 \in [1 .. (Len(t) + 1) -> Int]
    <3>1. t2 \in [1 .. Len(t2) -> W]
      BY <1>7, LenProperties
    <3>2. [1 .. Len(t2) -> W] \subseteq [1 .. Len(t2) -> Int]
      OBVIOUS
    <3>3. QED
      BY <1>1, <1>7, <3>1, <3>2
  <2>2. \A j \in 1 .. Len(t) : IF j < p THEN t[j] <= v ELSE v <= t[j]
    BY <1>5, <1>6
  <2>3. PICK n : n = Len(t) /\ n \in Nat
    BY <1>1
  <2>4. /\ n \in Nat /\ t \in [1 .. n -> Int] /\ Ascending(t) /\ v \in Int
        /\ p \in 1 .. (n + 1) /\ t2 \in [1 .. (n + 1) -> Int]
        /\ \A k \in 1 .. (n + 1) : t2[k] = IF k < p THEN t[k] ELSE IF k = p THEN v ELSE t[k - 1]
        /\ \A j \in 1 .. n : IF j < p THEN t[j] <= v ELSE v <= t[j]
    BY <1>1, <1>4, <1>7, <2>1, <2>2, <2>3
  <2>5. QED
    BY <2>4, InsertAscending
<1>9. InsertSorted(t, v) = t2
  BY DEF InsertSorted, t2, p, places
<1>10. QED
  BY <1>7, <1>8, <1>9
-----------------------------------------------------------------------------
(* std::sort: what comes out is sorted, and as long as what goes in.       *)
LEMMA SortedSeq ==
  ASSUME NEW W \in SUBSET Int, NEW s \in Seq(W)
  PROVE  /\ Sorted(s) \in Seq(W) /\ Len(Sorted(s)) = Len(s) /\ Ascending(Sorted(s))
<1> DEFINE n == Len(s)
           V == {t \in Seq(W) : Ascending(t)}
           Solves(it) == it = [T \in SUBSET DOMAIN s |->
                                 IF T = {} THEN << >> ELSE InsertSorted(it[T \ {Max(T)}], s[Max(T)])]
           it == CHOOSE it : Solves(it)
           F == [x \in V \X (1 .. n) |-> InsertSorted(x[1], s[x[2]])]
<1>1. n \in Nat /\ DOMAIN s = 1 .. n /\ \A j \in 1 .. n : s[j] \in W
  BY LenProperties, ElementOfSeq
<1>2. << >> \in V
  <2>1. << >> \in Seq(W) /\ DOMAIN << >> = {}
    OBVIOUS
  <2>2. QED
    BY <2>1 DEF Ascending
<1>3. Sorted(s) = it[DOMAIN s]
  BY DEF Sorted, FoldLeft, MapThenFoldSet
<1>4. \A t \in V, j \in 1 .. n :
        InsertSorted(t, s[j]) \in V /\ Len(InsertSorted(t, s[j])) = Len(t) + 1
  BY <1>1, InsertSortedStep
<1>5. F \in [V \X (1 .. n) -> V] /\ \A t \in V, j \in 1 .. n : F[<<t, j>>] = InsertSorted(t, s[j])
  <2> HIDE DEF V
  <2> QED
    BY <1>4
<1> HIDE DEF F, V
<1>6. \E g : Solves(g)
  <2>1. PICK g : IsFold(V, << >>, F, n, g)
    BY <1>1, <1>2, <1>5, FoldExists
  <2>2. ASSUME NEW T \in SUBSET (1 .. n), T # {}
        PROVE  g[T] = InsertSorted(g[T \ {Max(T)}], s[Max(T)])
    <3>1. Max(T) \in 1 .. n /\ T \ {Max(T)} \in SUBSET (1 .. n)
      BY <1>1, <2>2, MaxUpTo
    <3>2. g[T] = F[<<g[T \ {Max(T)}], Max(T)>>] /\ g[T \ {Max(T)}] \in V
      BY <2>1, <2>2, <3>1 DEF IsFold
    <3>3. QED
      BY <1>5, <3>1, <3>2
  <2>3. g = [T \in SUBSET (1 .. n) |-> g[T]] /\ g[{}] = << >>
    BY <2>1 DEF IsFold
  <2>4. Solves(g)
    BY <1>1, <2>2, <2>3
  <2>5. QED
    BY <2>4
<1>7. Solves(it)
  <2> HIDE DEF Solves
  <2> QED
    BY <1>6
<1> HIDE DEF it
<1>8. Folds(V, << >>, F, n, it)
  <2>1. \A T \in SUBSET (1 .. n) : T # {} => it[T] = InsertSorted(it[T \ {Max(T)}], s[Max(T)])
    BY <1>1, <1>7
  <2>2. it[{}] = << >>
    BY <1>1, <1>7
  <2>3. \A T \in SUBSET (1 .. n) : T # {} => Max(T) \in 1 .. n
    BY <1>1, MaxUpTo
  <2> HIDE DEF Solves, n
  <2>4. QED
    BY <1>5, <2>1, <2>2, <2>3 DEF Folds
<1>9. PICK h : StepsOf(V, << >>, F, n, it, h)
  <2> HIDE DEF n, Solves
  <2> QED
    BY <1>1, <1>2, <1>5, <1>8, FoldValues
<1>10. /\ h \in [0 .. n -> V] /\ h[0] = << >> /\ h[n] = it[1 .. n]
       /\ \A m \in 1 .. n : h[m] = InsertSorted(h[m - 1], s[m])
  <2>1. /\ h \in [0 .. n -> V] /\ h[0] = << >> /\ h[n] = it[1 .. n]
        /\ \A m \in 1 .. n : h[m] = F[<<h[m - 1], m>>]
    BY <1>9 DEF StepsOf
  <2>2. \A m \in 1 .. n : m - 1 \in 0 .. n
    BY <1>1
  <2>3. QED
    BY <1>5, <2>1, <2>2
<1> DEFINE S == {m \in Nat : m <= n => Len(h[m]) = m}
<1>11. 0 \in S
  BY <1>10
<1>12. ASSUME NEW m \in Nat, m \in S PROVE m + 1 \in S
  <2> SUFFICES ASSUME m + 1 <= n PROVE Len(h[m + 1]) = m + 1
    OBVIOUS
  <2>1. m + 1 \in 1 .. n /\ m + 1 - 1 = m /\ m \in 0 .. n /\ m <= n
    BY <1>1
  <2>2. Len(h[m]) = m /\ h[m] \in V /\ h[m + 1] = InsertSorted(h[m], s[m + 1])
    BY <1>10, <1>12, <2>1
  <2>3. QED
    BY <1>4, <2>1, <2>2
<1>13. Nat \subseteq S
  <2> HIDE DEF S
  <2> QED
    BY <1>11, <1>12, SetInduction
<1>14. Len(h[n]) = n /\ h[n] \in V /\ Sorted(s) = h[n]
  BY <1>1, <1>3, <1>10, <1>13
<1>15. QED
  BY <1>14 DEF V
-----------------------------------------------------------------------------
(* The number of ranks that a whole sample stands for. *)
Total(s) == RankOf(s, Len(s))

(* An item for one value that is put into a sample.                        *)
LEMMA InsertItem ==
  ASSUME NEW W, NEW s \in Seq(Item(W)), NEW p \in 1 .. (Len(s) + 1),
         NEW item \in Item(W), item.g = 1, NEW s2, s2 = InsertAt(s, p, item)
  PROVE  /\ s2 \in Seq(Item(W)) /\ Len(s2) = Len(s) + 1
         /\ Total(s2) = Total(s) + 1
         /\ \A k \in 1 .. (Len(s) + 1) :
              ValuesOf(s2)[k] = IF k < p THEN ValuesOf(s)[k]
                                ELSE IF k = p THEN item.value ELSE ValuesOf(s)[k - 1]
<1>1. /\ s2 \in Seq(Item(W)) /\ Len(s2) = Len(s) + 1 /\ Len(s) \in Nat /\ p \in 1 .. (Len(s) + 1)
      /\ \A k \in 1 .. (Len(s) + 1) :
           s2[k] = IF k < p THEN s[k] ELSE IF k = p THEN item ELSE s[k - 1]
  BY InsertAtPlaces, LenProperties, SMTT(30)
<1>2. \A k \in 1 .. (Len(s) + 1) :
        /\ k < p => k \in 1 .. Len(s)
        /\ ~(k < p) /\ k # p => k - 1 \in 1 .. Len(s)
  BY <1>1
<1>3. /\ \A k \in 1 .. Len(s2) : s2[k].value = ValuesOf(s2)[k] /\ s2[k].g = GsOf(s2)[k]
      /\ \A k \in 1 .. Len(s) : s[k].value = ValuesOf(s)[k] /\ s[k].g = GsOf(s)[k]
      /\ GsOf(s2) \in [1 .. Len(s2) -> Nat] /\ GsOf(s) \in [1 .. Len(s) -> Nat]
  BY <1>1, ItemValues, ItemGs
<1>4. \A k \in 1 .. (Len(s) + 1) :
        ValuesOf(s2)[k] = IF k < p THEN ValuesOf(s)[k]
                          ELSE IF k = p THEN item.value ELSE ValuesOf(s)[k - 1]
  BY <1>1, <1>2, <1>3, ZenonT(40)
<1>5. \A k \in 1 .. (Len(s) + 1) :
        GsOf(s2)[k] = IF k < p THEN GsOf(s)[k] ELSE IF k = p THEN 1 ELSE GsOf(s)[k - 1]
  BY <1>1, <1>2, <1>3, ZenonT(40)
<1>6. PICK h : IsSum(Len(s), GsOf(s), h) /\ RankOf(s, Len(s)) = h[Len(s)]
  BY RankFold
<1>7. PICK h2 : IsSum(Len(s) + 1, GsOf(s2), h2) /\ h2[Len(s) + 1] = h[Len(s)] + 1
  <2>1. GsOf(s2) \in [1 .. (Len(s) + 1) -> Nat]
    BY <1>1, <1>3, Zenon
  <2>2. PICK n, f, f2 : n = Len(s) /\ f = GsOf(s) /\ f2 = GsOf(s2)
    OBVIOUS
  <2>3. /\ n \in Nat /\ f \in [1 .. n -> Nat] /\ IsSum(n, f, h) /\ p \in 1 .. (n + 1)
        /\ f2 \in [1 .. (n + 1) -> Nat]
        /\ \A k \in 1 .. (n + 1) : f2[k] = IF k < p THEN f[k] ELSE IF k = p THEN 1 ELSE f[k - 1]
    BY <1>1, <1>3, <1>5, <1>6, <2>1, <2>2, Zenon
  <2>4. \E h2 : IsSum(n + 1, f2, h2) /\ h2[n + 1] = h[n] + 1
    BY <2>3, SumInsert
  <2>5. QED
    BY <2>2, <2>4, Zenon
<1>8. RankOf(s2, Len(s2)) = RankOf(s, Len(s)) + 1
  <2>1. IsSum(Len(s2), GsOf(s2), h2) /\ h2[Len(s2)] = h[Len(s)] + 1
    BY <1>1, <1>7, Zenon
  <2>2. RankOf(s2, Len(s2)) = h2[Len(s2)]
    BY <1>1, <2>1, RankIs
  <2>3. QED
    BY <1>6, <2>1, <2>2, Zenon
<1>9. QED
  BY <1>1, <1>4, <1>8, Zenon DEF Total

(* What insertBatch's scan keeps: it is at an item, and the items before   *)
(* that one are not greater than b.                                        *)
Scans(W) == {t \in [sample : Seq(Item(W)), idx : Nat] : t.idx \in 1 .. Len(t.sample)}

(* The items the scan has passed are not greater than b. *)
Behind(t, b) == \A j \in 1 .. (t.idx - 1) : ValuesOf(t.sample)[j] <= b

(* One turn of the scan. *)
LEMMA MergeStep ==
  ASSUME NEW quants \in Seq(Quantile), NEW W \in SUBSET Int,
         NEW t \in Scans(W), NEW v \in W, NEW r, r = Merge(quants, t, v)
  PROVE  /\ r \in Scans(W)
         /\ Total(r.sample) = Total(t.sample) + 1
         /\ Ascending(ValuesOf(t.sample)) /\ Behind(t, v) =>
              Ascending(ValuesOf(r.sample)) /\ \A j \in 1 .. r.idx : ValuesOf(r.sample)[j] <= v
<1> DEFINE s == t.sample
           idx == t.idx
           place == Place(s, idx, v)
           item == [value |-> v, g |-> 1, delta |-> Delta(quants, s, place)]
           s2 == InsertAt(s, place + 1, item)
<1>1. s \in Seq(Item(W)) /\ idx \in 1 .. Len(s) /\ v \in Int /\ Len(s) \in Nat
  BY LenProperties DEF Scans
<1>2. r = [sample |-> s2, idx |-> place + 1]
  BY DEF Merge
<1>3. /\ place \in (idx - 1) .. Len(s)
      /\ \A j \in idx .. place : ValuesOf(s)[j] <= v
      /\ Ascending(ValuesOf(s)) => \A j \in (place + 1) .. Len(s) : v <= ValuesOf(s)[j]
  BY <1>1, PlaceFound
<1> HIDE DEF s, idx, place
<1>4. place \in Nat /\ place + 1 \in 1 .. (Len(s) + 1)
  BY <1>1, <1>3
<1>5. item \in Item(W) /\ item.g = 1 /\ item.value = v
  <2>1. Delta(quants, s, place) \in Nat
    BY <1>1, <1>4, DeltaNatural
  <2>2. QED
    BY <2>1 DEF Item
<1> HIDE DEF item
<1>6. /\ s2 \in Seq(Item(W)) /\ Len(s2) = Len(s) + 1 /\ Total(s2) = Total(s) + 1
      /\ \A k \in 1 .. (Len(s) + 1) :
           ValuesOf(s2)[k] = IF k < place + 1 THEN ValuesOf(s)[k]
                             ELSE IF k = place + 1 THEN v ELSE ValuesOf(s)[k - 1]
  <2>1. PICK p, z : p = place + 1 /\ z = InsertAt(s, p, item) /\ z = s2
    OBVIOUS
  <2>2. s \in Seq(Item(W)) /\ p \in 1 .. (Len(s) + 1) /\ item \in Item(W) /\ item.g = 1
    BY <1>1, <1>4, <1>5, <2>1, Zenon
  <2>3. /\ z \in Seq(Item(W)) /\ Len(z) = Len(s) + 1 /\ Total(z) = Total(s) + 1
        /\ \A k \in 1 .. (Len(s) + 1) :
             ValuesOf(z)[k] = IF k < p THEN ValuesOf(s)[k]
                              ELSE IF k = p THEN item.value ELSE ValuesOf(s)[k - 1]
    BY <2>1, <2>2, InsertItem
  <2> HIDE DEF s2
  <2>4. z = s2 /\ p = place + 1 /\ item.value = v
    BY <1>5, <2>1
  <2>5. QED
    BY <2>3, <2>4
<1> HIDE DEF s2
<1>7. r \in Scans(W) /\ r.sample = s2 /\ r.idx = place + 1
  BY <1>2, <1>4, <1>6 DEF Scans
<1>8. ASSUME Ascending(ValuesOf(s)), Behind(t, v)
      PROVE  Ascending(ValuesOf(s2)) /\ \A j \in 1 .. (place + 1) : ValuesOf(s2)[j] <= v
  <2>1. ValuesOf(s) \in [1 .. Len(s) -> Int] /\ ValuesOf(s2) \in [1 .. (Len(s) + 1) -> Int]
    <3>1. ValuesOf(s) \in [1 .. Len(s) -> W] /\ ValuesOf(s2) \in [1 .. Len(s2) -> W]
      BY <1>1, <1>6, ItemValues
    <3>2. [1 .. Len(s2) -> W] \subseteq [1 .. Len(s2) -> Int] /\ [1 .. Len(s) -> W] \subseteq [1 .. Len(s) -> Int]
      OBVIOUS
    <3>3. QED
      BY <1>6, <3>1, <3>2
  <2>2. PICK n, f, f2 : n = Len(s) /\ f = ValuesOf(s) /\ f2 = ValuesOf(s2)
    OBVIOUS
  <2>3. \A j \in 1 .. (idx - 1) : f[j] <= v
    BY <1>8, <2>2 DEF Behind, s, idx
  <2>4. /\ n \in Nat /\ f \in [1 .. n -> Int] /\ f2 \in [1 .. (n + 1) -> Int]
        /\ Ascending(f) /\ v \in Int /\ idx \in 1 .. n /\ place \in (idx - 1) .. n
        /\ place + 1 \in 1 .. (n + 1) /\ place \in Nat
        /\ \A k \in 1 .. (n + 1) :
             f2[k] = IF k < place + 1 THEN f[k] ELSE IF k = place + 1 THEN v ELSE f[k - 1]
        /\ \A j \in idx .. place : f[j] <= v
        /\ \A j \in (place + 1) .. n : v <= f[j]
    BY <1>1, <1>3, <1>4, <1>6, <1>8, <2>1, <2>2, Zenon
  <2>5. \A j \in 1 .. n : IF j < place + 1 THEN f[j] <= v ELSE v <= f[j]
    <3> SUFFICES ASSUME NEW j \in 1 .. n PROVE IF j < place + 1 THEN f[j] <= v ELSE v <= f[j]
      OBVIOUS
    <3>1. j \in 1 .. (idx - 1) \/ j \in idx .. place \/ j \in (place + 1) .. n
      BY <2>4
    <3>2. j \in 1 .. (idx - 1) \/ j \in idx .. place => j < place + 1
      BY <2>4
    <3>3. j \in (place + 1) .. n => ~(j < place + 1)
      BY <2>4
    <3>4. QED
      BY <2>3, <2>4, <3>1, <3>2, <3>3, Zenon
  <2>6. Ascending(f2)
    BY <2>4, <2>5, InsertAscending
  <2>7. ASSUME NEW j \in 1 .. (place + 1) PROVE f2[j] <= v
    <3>1. CASE j = place + 1
      BY <2>4, <3>1
    <3>2. CASE j # place + 1
      <4>1. j < place + 1 /\ j \in 1 .. n /\ j \in 1 .. (n + 1)
        BY <2>4, <3>2
      <4>2. QED
        BY <2>4, <2>5, <4>1, Zenon
    <3>3. QED
      BY <3>1, <3>2
  <2>8. QED
    BY <2>2, <2>6, <2>7, Zenon
<1>9. QED
  BY <1>6, <1>7, <1>8, Zenon DEF s

(* The scan after each of its turns. *)
MergesOf(quants, W, start, values, h) ==
  /\ h \in [0 .. Len(values) -> Scans(W)]
  /\ h[0] = start
  /\ \A m \in 1 .. Len(values) : h[m] = Merge(quants, h[m - 1], values[m])

(* insertBatch's fold is the last of them. *)
LEMMA MergeFold ==
  ASSUME NEW quants \in Seq(Quantile), NEW W \in SUBSET Int,
         NEW start \in Scans(W), NEW values \in Seq(W)
  PROVE  \E h : /\ MergesOf(quants, W, start, values, h)
                /\ FoldLeft(LAMBDA t, v : Merge(quants, t, v), start, values) = h[Len(values)]
<1> DEFINE n == Len(values)
           V == Scans(W)
           Solves(it) == it = [T \in SUBSET DOMAIN values |->
                                 IF T = {} THEN start ELSE Merge(quants, it[T \ {Max(T)}], values[Max(T)])]
           it == CHOOSE it : Solves(it)
           F == [x \in V \X (1 .. n) |-> Merge(quants, x[1], values[x[2]])]
<1>1. n \in Nat /\ DOMAIN values = 1 .. n /\ \A j \in 1 .. n : values[j] \in W
  BY LenProperties, ElementOfSeq
<1>2. start \in V
  OBVIOUS
<1>3. FoldLeft(LAMBDA t, v : Merge(quants, t, v), start, values) = it[DOMAIN values]
  BY DEF FoldLeft, MapThenFoldSet
<1>4. \A t \in V, j \in 1 .. n :
        LET r == Merge(quants, t, values[j]) IN
          /\ r \in V
          /\ Total(r.sample) = Total(t.sample) + 1
          /\ Ascending(ValuesOf(t.sample)) /\ Behind(t, values[j]) =>
               Ascending(ValuesOf(r.sample)) /\ \A i \in 1 .. r.idx : ValuesOf(r.sample)[i] <= values[j]
  BY <1>1, MergeStep
<1>5. F \in [V \X (1 .. n) -> V] /\ \A t \in V, j \in 1 .. n : F[<<t, j>>] = Merge(quants, t, values[j])
  <2> HIDE DEF V
  <2> QED
    BY <1>4
<1> HIDE DEF F, V
<1>6. \E g : Solves(g)
  <2>1. PICK g : IsFold(V, start, F, n, g)
    BY <1>1, <1>2, <1>5, FoldExists
  <2>2. ASSUME NEW T \in SUBSET (1 .. n), T # {}
        PROVE  g[T] = Merge(quants, g[T \ {Max(T)}], values[Max(T)])
    <3>1. Max(T) \in 1 .. n /\ T \ {Max(T)} \in SUBSET (1 .. n)
      BY <1>1, <2>2, MaxUpTo
    <3>2. g[T] = F[<<g[T \ {Max(T)}], Max(T)>>] /\ g[T \ {Max(T)}] \in V
      BY <2>1, <2>2, <3>1 DEF IsFold
    <3>3. QED
      BY <1>5, <3>1, <3>2
  <2>3. g = [T \in SUBSET (1 .. n) |-> g[T]] /\ g[{}] = start
    BY <2>1 DEF IsFold
  <2>4. Solves(g)
    BY <1>1, <2>2, <2>3
  <2>5. QED
    BY <2>4
<1>7. Solves(it)
  <2> HIDE DEF Solves
  <2> QED
    BY <1>6
<1> HIDE DEF it
<1>8. Folds(V, start, F, n, it)
  <2>1. \A T \in SUBSET (1 .. n) : T # {} => it[T] = Merge(quants, it[T \ {Max(T)}], values[Max(T)])
    BY <1>1, <1>7
  <2>2. it[{}] = start
    BY <1>1, <1>7
  <2>3. \A T \in SUBSET (1 .. n) : T # {} => Max(T) \in 1 .. n
    BY <1>1, MaxUpTo
  <2> HIDE DEF Solves, n
  <2>4. QED
    BY <1>5, <2>1, <2>2, <2>3 DEF Folds
<1>9. PICK h : StepsOf(V, start, F, n, it, h)
  <2> HIDE DEF n, Solves
  <2> QED
    BY <1>1, <1>2, <1>5, <1>8, FoldValues
<1>10. /\ h \in [0 .. n -> V] /\ h[0] = start /\ h[n] = it[1 .. n]
       /\ \A m \in 1 .. n : h[m] = Merge(quants, h[m - 1], values[m])
  <2>1. /\ h \in [0 .. n -> V] /\ h[0] = start /\ h[n] = it[1 .. n]
        /\ \A m \in 1 .. n : h[m] = F[<<h[m - 1], m>>]
    BY <1>9 DEF StepsOf
  <2>2. \A m \in 1 .. n : m - 1 \in 0 .. n
    BY <1>1
  <2>3. QED
    BY <1>5, <2>1, <2>2
<1>11. QED
  BY <1>1, <1>3, <1>10 DEF MergesOf, V

(* insertBatch's whole scan, over values that are sorted: the sample stays *)
(* sorted and takes a rank for each of them.                               *)
LEMMA MergesCover ==
  ASSUME NEW quants \in Seq(Quantile), NEW W \in SUBSET Int,
         NEW start \in Scans(W), start.idx = 1, Ascending(ValuesOf(start.sample)),
         NEW values \in Seq(W), Ascending(values),
         NEW h, MergesOf(quants, W, start, values, h)
  PROVE  /\ h[Len(values)].sample \in Seq(Item(W))
         /\ Ascending(ValuesOf(h[Len(values)].sample))
         /\ Total(h[Len(values)].sample) = Total(start.sample) + Len(values)
<1> DEFINE n == Len(values)
           V == Scans(W)
<1>1. n \in Nat /\ DOMAIN values = 1 .. n /\ \A j \in 1 .. n : values[j] \in W
  BY LenProperties, ElementOfSeq
<1>2. start \in V
  OBVIOUS
<1>4. \A t \in V, j \in 1 .. n :
        LET r == Merge(quants, t, values[j]) IN
          /\ r \in V
          /\ Total(r.sample) = Total(t.sample) + 1
          /\ Ascending(ValuesOf(t.sample)) /\ Behind(t, values[j]) =>
               Ascending(ValuesOf(r.sample)) /\ \A i \in 1 .. r.idx : ValuesOf(r.sample)[i] <= values[j]
  BY <1>1, MergeStep
<1>10. /\ h \in [0 .. n -> V] /\ h[0] = start
       /\ \A m \in 1 .. n : h[m] = Merge(quants, h[m - 1], values[m])
  BY DEF MergesOf
<1> HIDE DEF n, V
<1>12. Total(start.sample) \in Nat
  <2>1. PICK h2 : IsSum(Len(start.sample), GsOf(start.sample), h2) /\ Total(start.sample) = h2[Len(start.sample)]
    BY RankFold DEF Scans, Total
  <2>2. Len(start.sample) \in Nat
    BY LenProperties DEF Scans
  <2>3. QED
    BY <2>1, <2>2 DEF IsSum
<1> DEFINE Good(m) ==
             /\ Ascending(ValuesOf(h[m].sample))
             /\ Total(h[m].sample) = Total(start.sample) + m
             /\ \A k \in (m + 1) .. n : Behind(h[m], values[k])
           S == {m \in Nat : m <= n => Good(m)}
<1>13. 0 \in S
  <2>1. \A b : Behind(start, b)
    BY DEF Behind
  <2>2. QED
    BY <1>10, <1>12, <2>1
<1>14. ASSUME NEW m \in Nat, m \in S PROVE m + 1 \in S
  <2> SUFFICES ASSUME m + 1 <= n PROVE Good(m + 1)
    OBVIOUS
  <2>1. m + 1 \in 1 .. n /\ m + 1 - 1 = m /\ m \in 0 .. n /\ m <= n /\ m + 1 \in (m + 1) .. n /\ m + 1 \in 0 .. n
    BY <1>1
  <2>2. Good(m)
    BY <1>14, <2>1
  <2> DEFINE t == h[m]
             r == h[m + 1]
             v == values[m + 1]
  <2>3. t \in V /\ r \in V /\ r = Merge(quants, t, v) /\ v \in W
    BY <1>1, <1>10, <2>1
  <2>4. /\ Total(r.sample) = Total(t.sample) + 1
        /\ Ascending(ValuesOf(r.sample)) /\ \A i \in 1 .. r.idx : ValuesOf(r.sample)[i] <= v
    BY <1>4, <2>1, <2>2, <2>3
  <2>5. ASSUME NEW k \in (m + 2) .. n PROVE Behind(r, values[k])
    <3>1. k \in 1 .. n /\ m + 1 \in DOMAIN values /\ k \in DOMAIN values /\ m + 1 <= k
      BY <1>1, <2>1
    <3>2. v <= values[k] /\ v \in Int /\ values[k] \in Int
      BY <1>1, <2>1, <3>1 DEF Ascending
    <3>3. r.idx \in 1 .. Len(r.sample) /\ r.sample \in Seq(Item(W)) /\ Len(r.sample) \in Nat
      BY <2>3, LenProperties DEF V, Scans
    <3>4. ValuesOf(r.sample) \in [1 .. Len(r.sample) -> W]
      BY <3>3, ItemValues
    <3> HIDE DEF r, v
    <3>5. ASSUME NEW j \in 1 .. (r.idx - 1) PROVE ValuesOf(r.sample)[j] <= values[k]
      <4>1. j \in 1 .. r.idx /\ j \in 1 .. Len(r.sample)
        BY <3>3
      <4>2. ValuesOf(r.sample)[j] <= v /\ ValuesOf(r.sample)[j] \in Int
        BY <2>4, <3>4, <4>1
      <4>3. QED
        BY <3>2, <4>2
    <3>6. QED
      BY <3>5 DEF Behind
  <2>6. Total(r.sample) = Total(start.sample) + (m + 1)
    BY <1>12, <2>2, <2>4
  <2>7. m + 1 + 1 = m + 2
    OBVIOUS
  <2>8. QED
    BY <2>4, <2>5, <2>6, <2>7
<1>15. Nat \subseteq S
  <2> HIDE DEF S
  <2> QED
    BY <1>13, <1>14, SetInduction
<1>16. Good(n) /\ h[n] \in V
  BY <1>1, <1>10, <1>15
<1>17. QED
  BY <1>16 DEF V, Scans, n
-----------------------------------------------------------------------------
(* An item that absorbs the one before it takes its ranks.                 *)
LEMMA AbsorbStep ==
  ASSUME NEW quants, NEW W \in SUBSET Int, NEW s \in Seq(Item(W)), NEW i \in Nat \ {0}
  PROVE  /\ Absorb(quants, s, i) \in Seq(Item(W))
         /\ Total(Absorb(quants, s, i)) = Total(s)
         /\ Ascending(ValuesOf(s)) => Ascending(ValuesOf(Absorb(quants, s, i)))
         /\ Absorb(quants, s, i) = s \/ Len(Absorb(quants, s, i)) = Len(s) - 1
<1>1. CASE ~MayAbsorb(quants, s, i)
  BY <1>1 DEF Absorb
<1>2. CASE MayAbsorb(quants, s, i)
  <2> DEFINE item == [s[i + 1] EXCEPT !.g = @ + s[i].g]
             e == [s EXCEPT ![i + 1] = item]
             r == RemoveAt(e, i)
  <2>1. Absorb(quants, s, i) = r
    BY <1>2 DEF Absorb
  <2>2. Len(s) \in Nat /\ DOMAIN s = 1 .. Len(s) /\ \A k \in 1 .. Len(s) : s[k] \in Item(W)
    BY LenProperties, ElementOfSeq
  <2>3. i < Len(s)
    BY <1>2 DEF MayAbsorb
  <2>4. i \in 1 .. Len(s) /\ i + 1 \in 1 .. Len(s) /\ i \in 1 .. (Len(s) - 1) /\ Len(s) - 1 \in Nat
    BY <2>2, <2>3
  <2>5. item \in Item(W) /\ item.value = s[i + 1].value /\ item.g = s[i + 1].g + s[i].g
    <3>1. s[i + 1] \in Item(W) /\ s[i].g \in Nat \ {0} /\ s[i + 1].g \in Nat \ {0}
      BY <2>2, <2>4, ItemGs
    <3>2. PICK x, y : x = s[i + 1] /\ y = s[i].g
      OBVIOUS
    <3>3. x.g + y \in Nat \ {0}
      BY <3>1, <3>2
    <3>4. x \in Item(W) => [x EXCEPT !.g = @ + y] \in Item(W) /\ [x EXCEPT !.g = @ + y].value = x.value
                             /\ [x EXCEPT !.g = @ + y].g = x.g + y
      BY <3>3 DEF Item
    <3>5. QED
      BY <3>1, <3>2, <3>4
  <2> HIDE DEF item
  <2>6. /\ e \in Seq(Item(W)) /\ Len(e) = Len(s)
        /\ \A k \in 1 .. Len(s) : e[k] = IF k = i + 1 THEN item ELSE s[k]
    BY <2>2, <2>4, <2>5, ExceptSeq
  <2> HIDE DEF e
  <2>7. /\ r \in Seq(Item(W)) /\ Len(r) = Len(s) - 1
        /\ \A k \in 1 .. (Len(s) - 1) : r[k] = IF k < i THEN e[k] ELSE e[k + 1]
    <3>1. i \in DOMAIN e
      BY <2>4, <2>6, LenProperties
    <3>2. QED
      BY <2>6, <3>1, RemoveAtPlaces
  <2> HIDE DEF r
  <2>8. \A k \in 1 .. (Len(s) - 1) :
          /\ k \in 1 .. Len(s) /\ k + 1 \in 1 .. Len(s)
          /\ k < i => k # i + 1
          /\ k = i => ~(k < i)
          /\ ~(k < i) /\ k # i => k + 1 # i + 1
    BY <2>2, <2>4
  <2>9. /\ \A k \in 1 .. (Len(s) - 1) : r[k].value = ValuesOf(r)[k] /\ r[k].g = GsOf(r)[k]
        /\ \A k \in 1 .. Len(s) : s[k].value = ValuesOf(s)[k] /\ s[k].g = GsOf(s)[k]
        /\ GsOf(r) \in [1 .. (Len(s) - 1) -> Nat] /\ GsOf(s) \in [1 .. Len(s) -> Nat]
        /\ ValuesOf(r) \in [1 .. (Len(s) - 1) -> W] /\ ValuesOf(s) \in [1 .. Len(s) -> W]
    <3>1. /\ \A k \in 1 .. Len(r) : r[k].value = ValuesOf(r)[k] /\ r[k].g = GsOf(r)[k]
          /\ GsOf(r) \in [1 .. Len(r) -> Nat] /\ ValuesOf(r) \in [1 .. Len(r) -> W]
      BY <2>7, ItemValues, ItemGs
    <3>2. QED
      BY <2>7, <3>1, ItemValues, ItemGs, Zenon
  <2>10. \A k \in 1 .. (Len(s) - 1) :
           ValuesOf(r)[k] = IF k < i THEN ValuesOf(s)[k] ELSE ValuesOf(s)[k + 1]
    <3> SUFFICES ASSUME NEW k \in 1 .. (Len(s) - 1)
                 PROVE  ValuesOf(r)[k] = IF k < i THEN ValuesOf(s)[k] ELSE ValuesOf(s)[k + 1]
      OBVIOUS
    <3>1. CASE k < i
      BY <2>6, <2>7, <2>8, <2>9, <3>1, ZenonT(40)
    <3>2. CASE k = i
      BY <2>5, <2>6, <2>7, <2>8, <2>9, <3>2, Zenon
    <3>3. CASE ~(k < i) /\ k # i
      <4>1. ValuesOf(r)[k] = e[k + 1].value
        BY <2>7, <2>9, <3>3, Zenon
      <4>2. e[k + 1] = s[k + 1]
        BY <2>6, <2>8, <3>3, Zenon
      <4>3. QED
        BY <2>8, <2>9, <3>3, <4>1, <4>2, Zenon
    <3>4. QED
      BY <3>1, <3>2, <3>3, Zenon
  <2>11. \A k \in 1 .. (Len(s) - 1) :
           GsOf(r)[k] = IF k < i THEN GsOf(s)[k]
                        ELSE IF k = i THEN GsOf(s)[i + 1] + GsOf(s)[i] ELSE GsOf(s)[k + 1]
    <3> SUFFICES ASSUME NEW k \in 1 .. (Len(s) - 1)
                 PROVE  GsOf(r)[k] = IF k < i THEN GsOf(s)[k]
                        ELSE IF k = i THEN GsOf(s)[i + 1] + GsOf(s)[i] ELSE GsOf(s)[k + 1]
      OBVIOUS
    <3>1. CASE k < i
      BY <2>6, <2>7, <2>8, <2>9, <3>1, ZenonT(40)
    <3>2. CASE k = i
      BY <2>4, <2>5, <2>6, <2>7, <2>8, <2>9, <3>2, Zenon
    <3>3. CASE ~(k < i) /\ k # i
      BY <2>6, <2>7, <2>8, <2>9, <3>3, ZenonT(40)
    <3>4. QED
      BY <3>1, <3>2, <3>3, Zenon
  <2>12. PICK h : IsSum(Len(s), GsOf(s), h) /\ RankOf(s, Len(s)) = h[Len(s)]
    BY RankFold
  <2>13. Total(r) = Total(s)
    <3>1. PICK n, f, f2 : n = Len(s) /\ f = GsOf(s) /\ f2 = GsOf(r)
      OBVIOUS
    <3>2. /\ n \in Nat /\ f \in [1 .. n -> Nat] /\ IsSum(n, f, h) /\ i \in 1 .. (n - 1)
          /\ f2 \in [1 .. (n - 1) -> Nat]
          /\ \A k \in 1 .. (n - 1) :
               f2[k] = IF k < i THEN f[k] ELSE IF k = i THEN f[i + 1] + f[i] ELSE f[k + 1]
      BY <2>2, <2>4, <2>9, <2>11, <2>12, <3>1, Zenon
    <3>3. PICK h2 : IsSum(n - 1, f2, h2) /\ h2[n - 1] = h[n]
      BY <3>2, SumAbsorb
    <3>4. IsSum(Len(r), GsOf(r), h2) /\ h2[Len(r)] = h[Len(s)]
      BY <2>7, <3>1, <3>3, Zenon
    <3>5. RankOf(r, Len(r)) = h2[Len(r)]
      BY <2>7, <3>4, RankIs
    <3>6. QED
      BY <2>12, <3>4, <3>5, Zenon DEF Total
  <2>14. ASSUME Ascending(ValuesOf(s)) PROVE Ascending(ValuesOf(r))
    <3>1. PICK n, f, f2 : n = Len(s) /\ f = ValuesOf(s) /\ f2 = ValuesOf(r)
      OBVIOUS
    <3>2. /\ n \in Nat /\ DOMAIN f = 1 .. n /\ DOMAIN f2 = 1 .. (n - 1) /\ Ascending(f) /\ i \in 1 .. (n - 1)
          /\ \A k \in 1 .. (n - 1) : f2[k] = IF k < i THEN f[k] ELSE f[k + 1]
      BY <2>2, <2>4, <2>9, <2>10, <2>14, <3>1, Zenon
    <3>3. ASSUME NEW a \in 1 .. (n - 1), NEW b \in 1 .. (n - 1), a <= b PROVE f2[a] <= f2[b]
      <4>1. /\ a \in 1 .. n /\ b \in 1 .. n /\ a + 1 \in 1 .. n /\ b + 1 \in 1 .. n
            /\ a + 1 <= b + 1 /\ a <= b + 1
        BY <3>2, <3>3
      <4>2. f[a] <= f[b] /\ f[a + 1] <= f[b + 1] /\ f[a] <= f[b + 1]
        BY <3>2, <3>3, <4>1, Zenon DEF Ascending
      <4>3. ~(a < i) => ~(b < i)
        BY <3>2, <3>3
      <4>4. QED
        BY <3>2, <4>2, <4>3, Zenon
    <3>4. Ascending(f2)
      BY <3>2, <3>3 DEF Ascending
    <3>5. QED
      BY <3>1, <3>4
  <2>15. QED
    BY <2>1, <2>7, <2>13, <2>14
<1>3. QED
  BY <1>1, <1>2

(* compress: the sample stays sorted and loses no rank, and when it does   *)
(* not become shorter it stays as it is.                                   *)
LEMMA CompressedSample ==
  ASSUME NEW quants, NEW W \in SUBSET Int, NEW s \in Seq(Item(W)), Ascending(ValuesOf(s))
  PROVE  /\ Compressed(quants, s) \in Seq(Item(W))
         /\ Total(Compressed(quants, s)) = Total(s)
         /\ Ascending(ValuesOf(Compressed(quants, s)))
         /\ Len(Compressed(quants, s)) <= Len(s)
         /\ Len(Compressed(quants, s)) = Len(s) => Compressed(quants, s) = s
<1> DEFINE pairs == [i \in 1 .. (Len(s) - 1) |-> i]
           n == IF Len(s) = 0 THEN 0 ELSE Len(s) - 1
           V == {t \in Seq(Item(W)) : /\ Ascending(ValuesOf(t)) /\ Total(t) = Total(s)
                                     /\ Len(t) <= Len(s) /\ (Len(t) = Len(s) => t = s)}
           Solves(it) == it = [T \in SUBSET DOMAIN pairs |->
                                 IF T = {} THEN s ELSE Absorb(quants, it[T \ {Max(T)}], pairs[Max(T)])]
           it == CHOOSE it : Solves(it)
           F == [x \in V \X (1 .. n) |-> Absorb(quants, x[1], x[2])]
<1>1. n \in Nat /\ DOMAIN pairs = 1 .. n /\ \A j \in 1 .. n : j \in Nat \ {0} /\ pairs[j] = j
  <2>1. Len(s) \in Nat
    BY LenProperties
  <2>2. n \in Nat /\ 1 .. n = 1 .. (Len(s) - 1)
    BY <2>1
  <2>3. QED
    BY <2>2
<1>2. s \in V
  OBVIOUS
<1>3. Compressed(quants, s) = it[DOMAIN pairs]
  BY DEF Compressed, FoldLeft, MapThenFoldSet
<1> HIDE DEF pairs, n
<1>4. \A t \in V, j \in 1 .. n : Absorb(quants, t, j) \in V
  <2> SUFFICES ASSUME NEW t \in V, NEW j \in 1 .. n
               PROVE  Absorb(quants, t, j) \in V
    OBVIOUS
  <2>1. PICK a : a = Absorb(quants, t, j)
    OBVIOUS
  <2>2. /\ t \in Seq(Item(W)) /\ Ascending(ValuesOf(t)) /\ Total(t) = Total(s)
        /\ Len(t) <= Len(s) /\ (Len(t) = Len(s) => t = s)
    OBVIOUS
  <2>3. /\ a \in Seq(Item(W)) /\ Ascending(ValuesOf(a)) /\ Total(a) = Total(s)
        /\ a = t \/ Len(a) = Len(t) - 1
    BY <1>1, <2>1, <2>2, AbsorbStep
  <2>4. Len(a) <= Len(s) /\ (Len(a) = Len(s) => a = s)
    <3>1. Len(a) \in Nat /\ Len(t) \in Nat /\ Len(s) \in Nat
      BY <2>2, <2>3, LenProperties
    <3>2. QED
      BY <2>2, <2>3, <3>1
  <2>5. QED
    BY <2>1, <2>3, <2>4
<1>5. F \in [V \X (1 .. n) -> V] /\ \A t \in V, j \in 1 .. n : F[<<t, j>>] = Absorb(quants, t, j)
  <2> HIDE DEF V
  <2> QED
    BY <1>4
<1> HIDE DEF F, V
<1>6. \E g : Solves(g)
  <2>1. PICK g : IsFold(V, s, F, n, g)
    BY <1>1, <1>2, <1>5, FoldExists
  <2>2. ASSUME NEW T \in SUBSET (1 .. n), T # {}
        PROVE  g[T] = Absorb(quants, g[T \ {Max(T)}], pairs[Max(T)])
    <3>1. Max(T) \in 1 .. n /\ T \ {Max(T)} \in SUBSET (1 .. n)
      BY <1>1, <2>2, MaxUpTo
    <3>2. g[T] = F[<<g[T \ {Max(T)}], Max(T)>>] /\ g[T \ {Max(T)}] \in V
      BY <2>1, <2>2, <3>1 DEF IsFold
    <3>3. QED
      BY <1>1, <1>5, <3>1, <3>2
  <2>3. g = [T \in SUBSET (1 .. n) |-> g[T]] /\ g[{}] = s
    BY <2>1 DEF IsFold
  <2>4. Solves(g)
    BY <1>1, <2>2, <2>3
  <2>5. QED
    BY <2>4
<1>7. Solves(it)
  <2> HIDE DEF Solves
  <2> QED
    BY <1>6
<1> HIDE DEF it
<1>8. Folds(V, s, F, n, it)
  <2>1. \A T \in SUBSET (1 .. n) : T # {} => it[T] = Absorb(quants, it[T \ {Max(T)}], pairs[Max(T)])
    BY <1>1, <1>7
  <2>2. it[{}] = s
    BY <1>1, <1>7
  <2>3. \A T \in SUBSET (1 .. n) : T # {} => Max(T) \in 1 .. n
    BY <1>1, MaxUpTo
  <2> HIDE DEF Solves
  <2>4. ASSUME NEW T \in SUBSET (1 .. n), T # {}, it[T \ {Max(T)}] \in V
        PROVE  it[T] = F[<<it[T \ {Max(T)}], Max(T)>>]
    <3>1. PICK m, t : m = Max(T) /\ t = it[T \ {Max(T)}]
      OBVIOUS
    <3>2. m \in 1 .. n /\ t \in V /\ pairs[m] = m
      BY <1>1, <2>3, <2>4, <3>1
    <3>3. it[T] = Absorb(quants, t, pairs[m])
      BY <2>1, <2>4, <3>1
    <3>4. F[<<t, m>>] = Absorb(quants, t, m)
      BY <1>5, <3>2
    <3>5. QED
      BY <3>1, <3>2, <3>3, <3>4
  <2>5. QED
    BY <2>2, <2>4 DEF Folds
<1>9. PICK h : StepsOf(V, s, F, n, it, h)
  <2> HIDE DEF Solves
  <2> QED
    BY <1>1, <1>2, <1>5, <1>8, FoldValues
<1>10. h[n] \in V /\ h[n] = it[1 .. n]
  BY <1>1, <1>9 DEF StepsOf
<1>11. QED
  BY <1>1, <1>3, <1>10 DEF V
-----------------------------------------------------------------------------
(* An estimator whose sample is sorted and covers the ranks it counts.     *)
Covers(W, c) ==
  /\ c \in Estimator(W)
  /\ Ascending(ValuesOf(c.sample))
  /\ Total(c.sample) = c.count

(* A sample stands for no rank only when it is empty, as each g is at      *)
(* least one.                                                              *)
LEMMA TotalSmall ==
  ASSUME NEW W, NEW s \in Seq(Item(W))
  PROVE  /\ Total(s) \in Nat
         /\ Total(s) = 0 <=> s = << >>
         /\ Len(s) = 1 => Total(s) = s[1].g
<1>1. PICK h : IsSum(Len(s), GsOf(s), h) /\ Total(s) = h[Len(s)]
  BY RankFold DEF Total
<1>2. /\ Len(s) \in Nat /\ GsOf(s) \in [1 .. Len(s) -> Nat]
      /\ \A j \in 1 .. Len(s) : s[j].g = GsOf(s)[j] /\ s[j].g \in Nat \ {0}
  BY ItemGs
<1>3. PICK n, f : n = Len(s) /\ f = GsOf(s)
  OBVIOUS
<1>4. /\ n \in Nat /\ h \in [0 .. n -> Nat] /\ h[0] = 0 /\ \A m \in 1 .. n : h[m] = h[m - 1] + f[m]
      /\ \A j \in 1 .. n : f[j] \in Nat \ {0} /\ s[j].g = f[j]
  BY <1>1, <1>2, <1>3 DEF IsSum
<1>5. CASE n = 0
  <2>1. s = << >>
    BY <1>3, <1>5, EmptySeq
  <2>2. h[n] = 0 /\ Total(s) = 0
    BY <1>1, <1>3, <1>4, <1>5
  <2>3. QED
    BY <1>3, <1>5, <2>1, <2>2
<1>6. CASE n # 0
  <2>1. n \in 1 .. n /\ n - 1 \in 0 .. n /\ n \in 0 .. n
    BY <1>4, <1>6
  <2>2. h[n] = h[n - 1] + f[n] /\ h[n] \in Nat /\ h[n - 1] \in Nat /\ f[n] \in Nat \ {0}
    BY <1>4, <2>1
  <2>3. h[n] # 0 /\ Total(s) = h[n]
    BY <1>1, <1>3, <2>2
  <2>4. s # << >>
    BY <1>3, <1>6, EmptySeq
  <2>5. Len(s) = 1 => Total(s) = s[1].g
    <3> SUFFICES ASSUME n = 1 PROVE Total(s) = s[1].g
      BY <1>3
    <3>1. h[1] = h[0] + f[1] /\ h[0] = 0 /\ f[1] \in Nat /\ s[1].g = f[1] /\ 1 \in 1 .. n
      BY <1>4
    <3>2. h[1] = f[1]
      BY <3>1
    <3>3. QED
      BY <1>1, <1>3, <3>1, <3>2
  <2>6. QED
    BY <2>2, <2>3, <2>4, <2>5
<1>7. QED
  BY <1>5, <1>6

(* The ranks up to an item are a natural number.                           *)
LEMMA RankNatural ==
  ASSUME NEW W, NEW s \in Seq(Item(W)), NEW i \in 1 .. Len(s)
  PROVE  RankOf(s, i) \in Nat
<1>1. PICK p : p = SubSeq(s, 1, i)
  OBVIOUS
<1>2. p \in Seq(Item(W)) /\ Len(p) = i
  <2>1. Len(s) \in Nat /\ i \in Nat /\ i >= 1 /\ \A k \in 1 .. Len(s) : s[k] \in Item(W)
    BY LenProperties, ElementOfSeq
  <2>2. \A k \in 1 .. i : s[k] \in Item(W)
    BY <2>1
  <2>3. p \in Seq(Item(W)) /\ Len(p) = IF 1 <= i THEN i - 1 + 1 ELSE 0
    BY <1>1, <2>1, <2>2, SubSeqProperties
  <2>4. QED
    BY <2>1, <2>3
<1>3. SubSeq(p, 1, i) = p
  BY <1>2, WholeSeq
<1>4. RankOf(s, i) = RankOf(p, Len(p))
  BY <1>1, <1>2, <1>3 DEF RankOf
<1>5. QED
  BY <1>2, <1>4, TotalSmall DEF Total

(* A new or reset estimator covers the ranks it counts, which are none. *)
LEMMA EmptyCovers ==
  ASSUME NEW W
  PROVE  Covers(W, Empty)
<1>1. << >> \in Seq(Item(W)) /\ << >> \in Seq(W) /\ Len(<< >>) = 0
  OBVIOUS
<1>2. Total(<< >>) = 0
  BY <1>1, TotalSmall
<1>3. Ascending(ValuesOf(<< >>))
  BY <1>1 DEF Ascending, ValuesOf
<1>4. QED
  BY <1>1, <1>2, <1>3 DEF Covers, Empty, Estimator

(* A single number is sorted. *)
LEMMA OneAscending ==
  ASSUME NEW W \in SUBSET Int, NEW f \in [1 .. 1 -> W]
  PROVE  Ascending(f)
<1>1. 1 .. 1 = {1}
  OBVIOUS
<1>2. DOMAIN f = {1}
  BY <1>1
<1>3. f[1] \in Int
  BY <1>1
<1>4. \A x \in Int : x <= x
  OBVIOUS
<1>5. QED
  BY <1>2, <1>3, <1>4 DEF Ascending

(* insertBatch counts what was in the buffer, and the buffer is empty.     *)
LEMMA InsertBatchCovers ==
  ASSUME NEW quants \in Seq(Quantile), NEW W \in SUBSET Int, NEW c, Covers(W, c),
         NEW r, r = InsertBatch(quants, c)
  PROVE  Covers(W, r) /\ r.buffer = << >> /\ r.count = c.count + Len(c.buffer)
<1>1. /\ c.sample \in Seq(Item(W)) /\ c.count \in Nat /\ c.buffer \in Seq(W)
      /\ Ascending(ValuesOf(c.sample)) /\ Total(c.sample) = c.count
      /\ Len(c.buffer) \in Nat
  BY LenProperties DEF Covers, Estimator
<1>2. CASE c.buffer = << >>
  <2>1. r = c
    BY <1>2 DEF InsertBatch
  <2>2. Len(c.buffer) = 0
    BY <1>2
  <2>3. QED
    BY <1>1, <1>2, <2>1, <2>2
<1>3. CASE c.buffer # << >>
  <2> DEFINE values == Sorted(c.buffer)
             first == c.sample = << >>
             start == [sample |-> IF first THEN <<[value |-> Head(values), g |-> 1, delta |-> 0]>>
                                  ELSE c.sample,
                       idx |-> 1]
             rest == IF first THEN Tail(values) ELSE values
             scan == FoldLeft(LAMBDA t, v : Merge(quants, t, v), start, rest)
  <2>1. r = [sample |-> scan.sample, count |-> c.count + Len(values), buffer |-> << >>]
    BY <1>3 DEF InsertBatch
  <2> HIDE DEF scan
  <2>2. values \in Seq(W) /\ Len(values) = Len(c.buffer) /\ Ascending(values) /\ Len(values) # 0
    <3>1. values \in Seq(W) /\ Len(values) = Len(c.buffer) /\ Ascending(values)
      BY <1>1, SortedSeq
    <3>2. Len(c.buffer) # 0
      BY <1>1, <1>3, EmptySeq
    <3>3. QED
      BY <3>1, <3>2
  <2> HIDE DEF values
  <2>3. values # << >> /\ Len(values) \in Nat
    BY <2>2, LenProperties
  <2>4. /\ start \in Scans(W) /\ start.idx = 1 /\ Ascending(ValuesOf(start.sample))
        /\ rest \in Seq(W) /\ Ascending(rest)
        /\ Total(start.sample) + Len(rest) = c.count + Len(values)
    <3>1. CASE first
      <4> DEFINE item == [value |-> Head(values), g |-> 1, delta |-> 0]
                 one == <<item>>
      <4>1. Head(values) \in W /\ Tail(values) \in Seq(W) /\ Len(Tail(values)) = Len(values) - 1
            /\ \A j \in 1 .. (Len(values) - 1) : Tail(values)[j] = values[j + 1]
        BY <2>2, <2>3, HeadTailProperties
      <4>2. item \in Item(W) /\ item.g = 1
        BY <4>1 DEF Item
      <4> HIDE DEF item
      <4>3. one \in Seq(Item(W)) /\ Len(one) = 1 /\ one[1] = item
        BY <4>2
      <4> HIDE DEF one
      <4>4. Total(one) = 1
        BY <4>2, <4>3, TotalSmall
      <4>5. Ascending(ValuesOf(one))
        <5>1. ValuesOf(one) \in [1 .. 1 -> W]
          BY <4>3, ItemValues
        <5>2. QED
          BY <5>1, OneAscending
      <4>6. start = [sample |-> one, idx |-> 1] /\ rest = Tail(values)
        BY <3>1 DEF one, item
      <4> HIDE DEF start, rest
      <4>7. start \in Scans(W) /\ start.idx = 1 /\ start.sample = one
        <5>1. start.idx = 1 /\ start.sample = one
          BY <4>6, Zenon
        <5>2. start \in [sample : Seq(Item(W)), idx : Nat]
          BY <4>3, <4>6, Zenon
        <5>3. start.idx \in 1 .. Len(start.sample)
          <6>1. 1 \in 1 .. 1
            OBVIOUS
          <6>2. QED
            BY <4>3, <5>1, <6>1, Zenon
        <5>4. QED
          BY <5>1, <5>2, <5>3, Zenon DEF Scans
      <4>8. Total(c.sample) = 0
        BY <1>1, <3>1, TotalSmall
      <4>9. Ascending(Tail(values))
        <5>1. DOMAIN values = 1 .. Len(values) /\ DOMAIN Tail(values) = 1 .. (Len(values) - 1)
          BY <2>2, <4>1, LenProperties
        <5>2. ASSUME NEW i \in 1 .. (Len(values) - 1), NEW j \in 1 .. (Len(values) - 1), i <= j
              PROVE  Tail(values)[i] <= Tail(values)[j]
          <6>1. i + 1 \in 1 .. Len(values) /\ j + 1 \in 1 .. Len(values) /\ i + 1 <= j + 1
            BY <2>3, <5>2
          <6>2. values[i + 1] <= values[j + 1]
            BY <2>2, <5>1, <6>1, Zenon DEF Ascending
          <6>3. QED
            BY <4>1, <6>2, Zenon
        <5>3. QED
          BY <5>1, <5>2 DEF Ascending
      <4>10. 1 + (Len(values) - 1) = 0 + Len(values)
        BY <2>3
      <4>11. QED
        BY <1>1, <4>1, <4>4, <4>5, <4>6, <4>7, <4>8, <4>9, <4>10
    <3>2. CASE ~first
      <4>1. start = [sample |-> c.sample, idx |-> 1] /\ rest = values
        BY <3>2
      <4> HIDE DEF start, rest
      <4>2. Len(c.sample) \in Nat /\ Len(c.sample) # 0
        BY <1>1, <3>2, EmptySeq, LenProperties
      <4>3. start \in Scans(W) /\ start.idx = 1 /\ start.sample = c.sample
        BY <1>1, <4>1, <4>2 DEF Scans
      <4>4. QED
        BY <1>1, <2>2, <4>1, <4>3
    <3>3. QED
      BY <3>1, <3>2
  <2> HIDE DEF start, rest
  <2>5. PICK h : /\ MergesOf(quants, W, start, rest, h)
                 /\ FoldLeft(LAMBDA t, v : Merge(quants, t, v), start, rest) = h[Len(rest)]
    BY <2>4, MergeFold
  <2>6. /\ h[Len(rest)].sample \in Seq(Item(W))
        /\ Ascending(ValuesOf(h[Len(rest)].sample))
        /\ Total(h[Len(rest)].sample) = Total(start.sample) + Len(rest)
    BY <2>4, <2>5, MergesCover
  <2>7. r = [sample |-> h[Len(rest)].sample, count |-> c.count + Len(values), buffer |-> << >>]
    BY <2>1, <2>5 DEF scan
  <2>8. << >> \in Seq(W) /\ c.count + Len(values) \in Nat
    BY <1>1, <2>3
  <2>9. PICK s : s = h[Len(rest)].sample
    OBVIOUS
  <2>10. r = [sample |-> s, count |-> c.count + Len(values), buffer |-> << >>]
         /\ s \in Seq(Item(W)) /\ Ascending(ValuesOf(s)) /\ Total(s) = c.count + Len(values)
    BY <2>4, <2>6, <2>7, <2>9, Zenon
  <2>11. QED
    BY <2>2, <2>8, <2>10 DEF Covers, Estimator
<1>4. QED
  BY <1>2, <1>3

(* compress keeps the buffer, the count and what the sample covers, and    *)
(* the whole estimator when the sample is not shorter                      *)
(* (ckms_quantiles.cc:131-150).                                            *)
LEMMA CompressCovers ==
  ASSUME NEW quants, NEW W \in SUBSET Int, NEW c, Covers(W, c), NEW r, r = Compress(quants, c)
  PROVE  /\ Covers(W, r) /\ r.buffer = c.buffer /\ r.count = c.count
         /\ Len(r.sample) <= Len(c.sample)
         /\ Len(r.sample) = Len(c.sample) => r = c
<1>1. c \in Estimator(W) /\ c.sample \in Seq(Item(W)) /\ Ascending(ValuesOf(c.sample)) /\ Total(c.sample) = c.count
  BY DEF Covers, Estimator
<1>2. PICK s : s = Compressed(quants, c.sample)
  OBVIOUS
<1>3. /\ s \in Seq(Item(W)) /\ Total(s) = c.count /\ Ascending(ValuesOf(s))
      /\ Len(s) <= Len(c.sample) /\ (Len(s) = Len(c.sample) => s = c.sample)
  BY <1>1, <1>2, CompressedSample
<1>4. r = [c EXCEPT !.sample = s]
  BY <1>2 DEF Compress
<1>5. /\ r \in Estimator(W) /\ r.sample = s /\ r.count = c.count /\ r.buffer = c.buffer
      /\ s = c.sample => r = c
  BY <1>1, <1>3, <1>4 DEF Estimator
<1>6. QED
  BY <1>3, <1>5 DEF Covers

(* The flush before a quantile is taken, insertBatch and then compress,    *)
(* counts every value that was buffered.                                   *)
LEMMA FlushCovers ==
  ASSUME NEW quants \in Seq(Quantile), NEW W \in SUBSET Int, NEW c, Covers(W, c),
         NEW r, r = Flush(quants, c)
  PROVE  Covers(W, r) /\ r.buffer = << >> /\ r.count = c.count + Len(c.buffer)
<1>1. PICK b : b = InsertBatch(quants, c)
  OBVIOUS
<1>2. Covers(W, b) /\ b.buffer = << >> /\ b.count = c.count + Len(c.buffer)
  BY <1>1, InsertBatchCovers
<1>3. r = Compress(quants, b)
  BY <1>1 DEF Flush
<1>4. QED
  BY <1>2, <1>3, CompressCovers

(* How many values an estimator was given. *)
Given(c) == c.count + Len(c.buffer)

(* An inserted value counts, at the latest when the buffer is full.        *)
LEMMA InsertCovers ==
  ASSUME NEW quants \in Seq(Quantile), NEW W \in SUBSET Int, NEW c, Covers(W, c), NEW v \in W,
         NEW r, r = Insert(quants, c, v)
  PROVE  Covers(W, r) /\ Given(r) = Given(c) + 1
<1> DEFINE filled == [c EXCEPT !.buffer = Append(@, v)]
<1>1. /\ c \in Estimator(W) /\ c.sample \in Seq(Item(W)) /\ c.count \in Nat /\ c.buffer \in Seq(W)
      /\ Ascending(ValuesOf(c.sample)) /\ Total(c.sample) = c.count
      /\ Len(c.buffer) \in Nat
  BY LenProperties DEF Covers, Estimator
<1>2. PICK b : b = Append(c.buffer, v)
  OBVIOUS
<1>3. b \in Seq(W) /\ Len(b) = Len(c.buffer) + 1
  BY <1>1, <1>2, AppendProperties
<1>4. filled = [c EXCEPT !.buffer = b]
  BY <1>2
<1>5. /\ filled \in Estimator(W) /\ filled.sample = c.sample
      /\ filled.count = c.count /\ filled.buffer = b
  BY <1>1, <1>3, <1>4 DEF Estimator
<1>6. r = IF Len(filled.buffer) = BufferSize THEN Flush(quants, filled) ELSE filled
  BY DEF Insert
<1> HIDE DEF filled
<1>7. Covers(W, filled) /\ Given(filled) = Given(c) + 1
  <2>1. c.count + (Len(c.buffer) + 1) = c.count + Len(c.buffer) + 1
    BY <1>1
  <2>2. QED
    BY <1>1, <1>3, <1>5, <2>1 DEF Covers, Given
<1>8. CASE Len(filled.buffer) = BufferSize
  <2>1. r = Flush(quants, filled)
    BY <1>6, <1>8
  <2>2. Covers(W, r) /\ r.buffer = << >> /\ r.count = Given(filled)
    BY <1>7, <2>1, FlushCovers DEF Given
  <2>3. r.count \in Nat /\ Len(r.buffer) = 0
    BY <2>2 DEF Covers, Estimator
  <2>4. Given(r) = r.count
    BY <2>3 DEF Given
  <2>5. QED
    BY <1>7, <2>2, <2>4
<1>9. CASE ~(Len(filled.buffer) = BufferSize)
  BY <1>6, <1>7, <1>9
<1>10. QED
  BY <1>8, <1>9

(* An estimator of some values is one of any that include them. *)
LEMMA CoversMore ==
  ASSUME NEW W, NEW X, W \subseteq X, NEW c, Covers(W, c)
  PROVE  Covers(X, c)
<1>1. Item(W) \subseteq Item(X)
  BY DEF Item
<1>2. Seq(Item(W)) \subseteq Seq(Item(X)) /\ Seq(W) \subseteq Seq(X)
  BY <1>1, SeqDef
<1>3. c \in Estimator(X)
  BY <1>2 DEF Covers, Estimator
<1>4. QED
  BY <1>3 DEF Covers

(* A quantile of an estimator that was given no value is NaN; any other is *)
(* one of the values.                                                      *)
LEMMA GetValue ==
  ASSUME NEW quants, NEW W, NEW c, Covers(W, c), NEW q
  PROVE  IF c.count = 0 THEN Get(quants, c, q) = NoValue ELSE Get(quants, c, q) \in W
<1>1. c.sample \in Seq(Item(W)) /\ Total(c.sample) = c.count
  BY DEF Covers, Estimator
<1>2. c.count = 0 <=> c.sample = << >>
  BY <1>1, TotalSmall
<1>3. CASE c.sample = << >>
  BY <1>2, <1>3 DEF Get
<1>4. CASE c.sample # << >>
  <2> DEFINE s == c.sample
             desired == (q.num * c.count) \div q.den
             bound == 2 * desired * Scale + AllowableError(quants, s, desired)
             beyond == {i \in 2 .. Len(s) : 2 * Scale * (RankOf(s, i) + s[i].delta) > bound}
  <2>1. Get(quants, c, q) = IF beyond = {} THEN Last(s).value ELSE s[Min(beyond) - 1].value
    BY <1>4 DEF Get
  <2>2. Len(s) \in Nat /\ \A j \in 1 .. Len(s) : s[j] \in Item(W)
    BY <1>1, LenProperties, ElementOfSeq
  <2>3. beyond \in SUBSET (2 .. Len(s))
    OBVIOUS
  <2> HIDE DEF beyond
  <2>4. Len(s) # 0
    BY <1>1, <1>4, EmptySeq
  <2>5. \A j \in 1 .. Len(s) : s[j].value \in W
    BY <2>2 DEF Item
  <2> HIDE DEF s
  <2>6. CASE beyond = {}
    <3>1. Last(s) = s[Len(s)] /\ Len(s) \in 1 .. Len(s)
      BY <2>2, <2>4 DEF Last
    <3>2. QED
      BY <1>2, <1>4, <2>1, <2>5, <2>6, <3>1 DEF s
  <2>7. CASE beyond # {}
    <3>1. beyond \in SUBSET Nat
      BY <2>2, <2>3
    <3>2. Min(beyond) \in 2 .. Len(s)
      BY <2>3, <2>7, <3>1, MinNatural
    <3>3. Min(beyond) - 1 \in 1 .. Len(s)
      BY <2>2, <3>2
    <3>4. QED
      BY <1>2, <1>4, <2>1, <2>5, <2>7, <3>3 DEF s
  <2>8. QED
    BY <2>6, <2>7
<1>5. QED
  BY <1>3, <1>4
(* The rank that is looked for does not fall with the quantile.            *)
LEMMA RankOrder ==
  ASSUME NEW a1 \in Nat, NEW b1 \in Nat \ {0}, NEW a2 \in Nat, NEW b2 \in Nat \ {0},
         a1 * b2 <= a2 * b1, NEW n \in Nat
  PROVE  /\ (a1 * n) \div b1 \in Nat /\ (a2 * n) \div b2 \in Nat
         /\ (a1 * n) \div b1 <= (a2 * n) \div b2
<1>1. PICK x, y : x = a1 * n /\ y = a2 * n /\ x \in Nat /\ y \in Nat
  OBVIOUS
<1>2. PICK d, e : d = x \div b1 /\ e = y \div b2
  OBVIOUS
<1>3. d \in Nat /\ e \in Nat /\ d * b1 <= x /\ y < (e + 1) * b2
  BY <1>1, <1>2
<1>4. x * b2 <= y * b1
  <2>1. PICK p, q : p = a1 * b2 /\ q = a2 * b1 /\ p \in Nat /\ q \in Nat
    OBVIOUS
  <2>2. p * n <= q * n
    BY <2>1
  <2>3. x * b2 = p * n /\ y * b1 = q * n
    BY <1>1, <2>1
  <2>4. QED
    BY <2>2, <2>3
<1>5. d * b1 * b2 <= x * b2 /\ y * b1 < (e + 1) * b2 * b1
  BY <1>1, <1>3
<1>6. d * (b1 * b2) < (e + 1) * (b1 * b2)
  <2>1. /\ d * b1 * b2 = d * (b1 * b2) /\ (e + 1) * b2 * b1 = (e + 1) * (b1 * b2)
        /\ d * b1 * b2 \in Nat /\ x * b2 \in Nat /\ y * b1 \in Nat /\ (e + 1) * b2 * b1 \in Nat
    BY <1>1, <1>3
  <2>2. QED
    BY <1>4, <1>5, <2>1
<1>7. d < e + 1
  <2> SUFFICES ASSUME e + 1 <= d PROVE FALSE
    BY <1>3
  <2>1. PICK m : m = b1 * b2 /\ m \in Nat
    OBVIOUS
  <2>2. (e + 1) * m <= d * m
    BY <1>3, <2>1
  <2>3. (e + 1) * m \in Nat /\ d * m \in Nat
    BY <1>3, <2>1
  <2>4. QED
    BY <1>6, <2>1, <2>2, <2>3
<1>8. QED
  BY <1>1, <1>2, <1>3, <1>7

(* When u is at most two ranks it grows by at most twice what the rank     *)
(* falls.                                                                  *)
LEMMA ErrorOfFalls ==
  ASSUME NEW q \in Quantile, q.u <= 2 * Scale, NEW n \in Nat,
         NEW d1 \in Nat, NEW d2 \in Nat, d1 <= d2
  PROVE  ErrorOf(q, n, d1) <= ErrorOf(q, n, d2) + 2 * Scale * (d2 - d1)
<1>1. PICK a, b, e, u, v, S : /\ a = q.num /\ b = q.den /\ e = q.error /\ u = q.u /\ v = q.v /\ S = Scale
  OBVIOUS
<1>2. /\ a \in Nat /\ b \in Nat \ {0} /\ e \in Nat /\ u \in Nat /\ v \in Nat /\ S \in Nat
      /\ a <= b /\ u * (b - a) = 2 * e * b /\ v * a = 2 * e * b /\ u <= 2 * S
  BY <1>1, CKMSAssumption DEF Quantile
<1>3. PICK k : k = d2 - d1 /\ k \in Nat /\ d2 = d1 + k
  OBVIOUS
<1>4. u * k <= 2 * S * k /\ u * k \in Nat /\ 2 * S * k \in Nat
  <2>1. PICK m : m = 2 * S /\ m \in Nat /\ u <= m
    BY <1>2
  <2>2. u * k <= m * k /\ u * k \in Nat /\ m * k \in Nat
    BY <1>2, <1>3, <2>1
  <2>3. QED
    BY <2>1, <2>2
<1>5. d1 * b <= d2 * b /\ d1 * b \in Nat /\ d2 * b \in Nat /\ a * n \in Nat
  BY <1>2
<1>6. CASE d2 * b <= a * n
  <2>1. u * (n - d1) = u * (n - d2) + u * k
    BY <1>2, <1>3
  <2>2. u * (n - d1) <= u * (n - d2) + 2 * S * k
    <3>1. u * (n - d2) \in Int /\ u * (n - d1) \in Int
      BY <1>2
    <3>2. QED
      BY <1>4, <2>1, <3>1
  <2>3. ErrorOf(q, n, d1) = u * (n - d1) /\ ErrorOf(q, n, d2) = u * (n - d2)
    BY <1>1, <1>5, <1>6 DEF ErrorOf
  <2>4. QED
    BY <1>1, <1>3, <2>2, <2>3
<1>7. CASE ~(d1 * b <= a * n)
  <2>1. v * d1 <= v * d2 /\ v * d1 \in Nat /\ v * d2 \in Nat
    BY <1>2
  <2>2. ErrorOf(q, n, d1) = v * d1 /\ ErrorOf(q, n, d2) = v * d2
    BY <1>1, <1>5, <1>7 DEF ErrorOf
  <2>3. QED
    BY <1>1, <1>3, <1>4, <2>1, <2>2
<1>8. CASE d1 * b <= a * n /\ ~(d2 * b <= a * n)
  <2>1. ErrorOf(q, n, d1) = u * (n - d1) /\ ErrorOf(q, n, d2) = v * d2
    BY <1>1, <1>8 DEF ErrorOf
  <2>2. PICK w : w = 2 * e * b /\ w \in Nat
    BY <1>2
  <2>3. u * (n - d1) * b = w * n + u * (a * n - d1 * b)
    <3>1. u * (n - d1) * b = u * (b - a) * n + u * (a * n - d1 * b)
      BY <1>2
    <3>2. QED
      BY <1>2, <2>2, <3>1
  <2>4. w * n <= v * d2 * b
    <3>1. PICK x, y : x = a * n /\ y = d2 * b /\ x \in Nat /\ y \in Nat /\ x <= y
      BY <1>5, <1>8
    <3>2. v * x <= v * y
      BY <1>2, <3>1
    <3>3. v * x = w * n /\ v * y = v * d2 * b
      <4>1. v * x = (v * a) * n
        BY <1>2, <3>1
      <4>2. QED
        BY <1>2, <2>2, <3>1, <4>1
    <3>4. QED
      BY <3>2, <3>3
  <2>5. u * (a * n - d1 * b) <= u * k * b
    <3>1. PICK x, y : x = a * n - d1 * b /\ y = k * b /\ x \in Nat /\ y \in Nat /\ x <= y
      <4>1. d2 * b = d1 * b + k * b /\ k * b \in Nat
        BY <1>2, <1>3
      <4>2. QED
        BY <1>5, <1>8, <4>1
    <3>2. u * x <= u * y
      BY <1>2, <3>1
    <3>3. u * y = u * k * b
      BY <1>2, <1>3, <3>1
    <3>4. QED
      BY <3>1, <3>2, <3>3
  <2>6. PICK l, r : l = u * (n - d1) /\ r = v * d2 + u * k /\ l \in Int /\ r \in Nat
    BY <1>2, <1>3
  <2>7. l * b <= r * b
    <3>1. r * b = v * d2 * b + u * k * b
      BY <1>2, <1>3, <2>6
    <3>2. /\ w * n \in Int /\ v * d2 * b \in Int /\ u * (a * n - d1 * b) \in Int /\ u * k * b \in Int
      BY <1>2, <1>3, <2>2
    <3>3. l * b = w * n + u * (a * n - d1 * b)
      BY <2>3, <2>6
    <3>4. QED
      BY <2>4, <2>5, <3>1, <3>2, <3>3
  <2>8. l <= r
    <3> SUFFICES ASSUME r + 1 <= l PROVE FALSE
      BY <2>6
    <3>1. PICK m : m = l - r - 1 /\ m \in Nat /\ l = r + 1 + m
      BY <2>6
    <3>2. (r + 1 + m) * b = r * b + b + m * b
      BY <1>2, <2>6, <3>1
    <3>3. m * b \in Nat /\ r * b \in Int
      BY <1>2, <2>6, <3>1
    <3>4. QED
      BY <1>2, <2>7, <3>1, <3>2, <3>3
  <2>9. v * d2 \in Nat
    BY <1>2
  <2>10. QED
    BY <1>1, <1>3, <1>4, <2>1, <2>6, <2>8, <2>9
<1>9. QED
  BY <1>5, <1>6, <1>7, <1>8

(* So the bound that get compares ranks with does not fall with the rank   *)
(* that is looked for.                                                     *)
LEMMA BoundOrder ==
  ASSUME NEW quants \in Seq(Quantile), \A q \in Range(quants) : q.u <= 2 * Scale,
         NEW S, NEW s \in Seq(S), NEW d1 \in Nat, NEW d2 \in Nat, d1 <= d2
  PROVE  /\ 2 * d1 * Scale + AllowableError(quants, s, d1) \in Nat
         /\ 2 * d2 * Scale + AllowableError(quants, s, d2) \in Nat
         /\ 2 * d1 * Scale + AllowableError(quants, s, d1)
              <= 2 * d2 * Scale + AllowableError(quants, s, d2)
<1> DEFINE errs(d) == {(Len(s) + 1) * Scale} \cup {ErrorOf(q, Len(s), d) : q \in Range(quants)}
<1>1. Len(s) \in Nat /\ Scale \in Nat /\ (Len(s) + 1) * Scale \in Nat
  BY LenProperties, CKMSAssumption
<1>2. \A q \in Range(quants) : q \in Quantile
  BY RangeOfSeq DEF Range
<1>3. ASSUME NEW d \in Nat
      PROVE  /\ AllowableError(quants, s, d) \in errs(d)
             /\ AllowableError(quants, s, d) \in Nat
             /\ \A x \in errs(d) : x \in Nat /\ AllowableError(quants, s, d) <= x
  <2>1. PICK all : all = errs(d)
    OBVIOUS
  <2>2. all = {(Len(s) + 1) * Scale} \cup {ErrorOf(q, Len(s), d) : q \in Range(quants)}
    BY <2>1
  <2> HIDE DEF errs
  <2>3. QED
    BY <2>1, <2>2, ErrorLeast
<1>4. PICK x, y : x = AllowableError(quants, s, d1) /\ y = AllowableError(quants, s, d2)
  OBVIOUS
<1>5. x \in Nat /\ y \in Nat
  BY <1>3, <1>4
<1>6. PICK k : k = 2 * Scale * (d2 - d1) /\ k \in Nat /\ 2 * d2 * Scale = 2 * d1 * Scale + k
  BY <1>1
<1>7. x <= y + k
  <2>1. CASE y = (Len(s) + 1) * Scale
    <3>1. (Len(s) + 1) * Scale \in errs(d1)
      OBVIOUS
    <3>2. x <= (Len(s) + 1) * Scale
      BY <1>3, <1>4, <3>1
    <3>3. QED
      BY <1>1, <1>5, <1>6, <2>1, <3>2
  <2>2. CASE y # (Len(s) + 1) * Scale
    <3>1. PICK q \in Range(quants) : y = ErrorOf(q, Len(s), d2)
      BY <1>3, <1>4, <2>2
    <3>2. ErrorOf(q, Len(s), d1) \in errs(d1)
      OBVIOUS
    <3>3. x <= ErrorOf(q, Len(s), d1) /\ ErrorOf(q, Len(s), d1) \in Nat
      BY <1>3, <1>4, <3>2
    <3>4. ErrorOf(q, Len(s), d1) <= ErrorOf(q, Len(s), d2) + 2 * Scale * (d2 - d1)
      BY <1>1, <1>2, ErrorOfFalls
    <3>5. QED
      BY <1>5, <1>6, <3>1, <3>3, <3>4
  <2>3. QED
    BY <2>1, <2>2
<1>8. 2 * d1 * Scale \in Nat
  BY <1>1
<1>9. PICK z1, z2 : z1 = 2 * d1 * Scale /\ z2 = 2 * d2 * Scale
  OBVIOUS
<1>10. z1 + x \in Nat /\ z2 + y \in Nat /\ z1 + x <= z2 + y
  <2>1. z1 \in Nat /\ z2 = z1 + k /\ k \in Nat
    BY <1>6, <1>8, <1>9, Zenon
  <2>2. QED
    BY <1>5, <1>7, <2>1
<1>11. /\ 2 * d1 * Scale + AllowableError(quants, s, d1) = z1 + x
       /\ 2 * d2 * Scale + AllowableError(quants, s, d2) = z2 + y
  BY <1>4, <1>9
<1>12. QED
  BY <1>10, <1>11

(* Of one estimator, get returns for the greater quantile a value that is  *)
(* not less.                                                               *)
LEMMA GetOrder ==
  ASSUME NEW quants \in Seq(Quantile), \A q \in Range(quants) : q.u <= 2 * Scale,
         NEW W \in SUBSET Int, NEW c, Covers(W, c), c.count > 0,
         NEW q1 \in Quantile, NEW q2 \in Quantile, q1.num * q2.den < q2.num * q1.den
  PROVE  Get(quants, c, q1) <= Get(quants, c, q2)
<1> DEFINE desired(q) == (q.num * c.count) \div q.den
           bound(q) == 2 * desired(q) * Scale + AllowableError(quants, c.sample, desired(q))
           beyond(q) == {i \in 2 .. Len(c.sample) :
                           2 * Scale * (RankOf(c.sample, i) + c.sample[i].delta) > bound(q)}
<1>1. c.sample \in Seq(Item(W)) /\ Total(c.sample) = c.count /\ c.count \in Nat /\ Ascending(ValuesOf(c.sample))
  BY DEF Covers, Estimator
<1>2. c.sample # << >>
  BY <1>1, TotalSmall
<1>3. \A q : Get(quants, c, q) = IF beyond(q) = {} THEN Last(c.sample).value
                                 ELSE c.sample[Min(beyond(q)) - 1].value
  BY <1>2 DEF Get
<1>4. PICK s, n, f : s = c.sample /\ n = Len(c.sample) /\ f = ValuesOf(c.sample)
  OBVIOUS
<1>5. /\ s \in Seq(Item(W)) /\ n \in Nat \ {0} /\ n = Len(s) /\ f \in [1 .. n -> W] /\ Ascending(f)
      /\ \A j \in 1 .. n : s[j].value = f[j]
  <2>1. n # 0
    BY <1>1, <1>2, <1>4, EmptySeq
  <2>2. QED
    BY <1>1, <1>4, <2>1, ItemValues
<1>6. PICK d1, d2 : d1 = desired(q1) /\ d2 = desired(q2)
  OBVIOUS
<1>7. d1 \in Nat /\ d2 \in Nat /\ d1 <= d2
  <2>1. /\ q1.num \in Nat /\ q1.den \in Nat \ {0} /\ q2.num \in Nat /\ q2.den \in Nat \ {0}
    BY DEF Quantile
  <2>2. q1.num * q2.den <= q2.num * q1.den
    BY <2>1
  <2>3. QED
    BY <1>1, <1>6, <2>1, <2>2, RankOrder
<1>8. PICK b1, b2 : b1 = bound(q1) /\ b2 = bound(q2)
  OBVIOUS
<1>9. b1 \in Nat /\ b2 \in Nat /\ b1 <= b2
  <2>1. /\ b1 = 2 * d1 * Scale + AllowableError(quants, s, d1)
        /\ b2 = 2 * d2 * Scale + AllowableError(quants, s, d2)
    BY <1>4, <1>6, <1>8
  <2> HIDE DEF bound, desired
  <2>2. QED
    BY <1>5, <1>7, <2>1, BoundOrder
<1> HIDE DEF bound, desired
<1>10. PICK late1, late2 : late1 = beyond(q1) /\ late2 = beyond(q2)
  OBVIOUS
<1>11. late2 \subseteq late1 /\ late1 \subseteq 2 .. n
  <2>1. PICK most : most = [i \in 2 .. n |-> 2 * Scale * (RankOf(c.sample, i) + c.sample[i].delta)]
    OBVIOUS
  <2>2. late1 = {i \in 2 .. n : most[i] > b1} /\ late2 = {i \in 2 .. n : most[i] > b2}
    BY <1>4, <1>8, <1>10, <2>1
  <2>3. \A i \in 2 .. n : most[i] \in Int
    <3>1. ASSUME NEW i \in 2 .. n PROVE most[i] \in Int
      <4>1. i \in 1 .. n /\ i \in Nat
        BY <1>5
      <4>2. RankOf(s, i) \in Nat
        BY <1>5, <4>1, RankNatural
      <4>3. s[i].delta \in Nat
        BY <1>5, <4>1, ItemGs
      <4>4. most[i] = 2 * Scale * (RankOf(s, i) + s[i].delta)
        BY <1>4, <2>1
      <4>5. QED
        BY <4>2, <4>3, <4>4, CKMSAssumption
    <3>2. QED
      BY <3>1
  <2>4. QED
    BY <1>9, <2>2, <2>3
<1> HIDE DEF beyond
<1>12. /\ Get(quants, c, q1) = IF late1 = {} THEN f[n] ELSE f[Min(late1) - 1]
       /\ Get(quants, c, q2) = IF late2 = {} THEN f[n] ELSE f[Min(late2) - 1]
  <2>1. Last(c.sample) = s[n] /\ s[n].value = f[n]
    BY <1>4, <1>5 DEF Last
  <2>2. ASSUME NEW late, late \subseteq 2 .. n, late # {}
        PROVE  c.sample[Min(late) - 1].value = f[Min(late) - 1]
    <3>1. late \in SUBSET Nat
      BY <1>5, <2>2
    <3>2. Min(late) \in 2 .. n
      BY <2>2, <3>1, MinNatural
    <3>3. Min(late) - 1 \in 1 .. n
      BY <1>5, <3>2
    <3>4. QED
      BY <1>4, <1>5, <3>3
  <2>3. late1 # {} => c.sample[Min(late1) - 1].value = f[Min(late1) - 1]
    BY <1>11, <2>2
  <2>4. late2 # {} => c.sample[Min(late2) - 1].value = f[Min(late2) - 1]
    BY <1>11, <2>2
  <2>5. /\ Get(quants, c, q1) = IF late1 = {} THEN Last(c.sample).value
                                ELSE c.sample[Min(late1) - 1].value
        /\ Get(quants, c, q2) = IF late2 = {} THEN Last(c.sample).value
                                ELSE c.sample[Min(late2) - 1].value
    BY <1>3, <1>10
  <2>6. QED
    BY <2>1, <2>3, <2>4, <2>5, Zenon
<1>13. CASE late2 = {}
  <2>1. n \in 1 .. n /\ \A j \in 1 .. n : j <= n
    BY <1>5
  <2>2. DOMAIN f = 1 .. n /\ \A j \in 1 .. n : f[j] <= f[n]
    BY <1>5, <2>1 DEF Ascending
  <2>3. late1 # {} => Min(late1) - 1 \in 1 .. n
    <3> SUFFICES ASSUME late1 # {} PROVE Min(late1) - 1 \in 1 .. n
      OBVIOUS
    <3>1. late1 \in SUBSET Nat
      BY <1>5, <1>11
    <3>2. Min(late1) \in 2 .. n
      BY <1>11, <3>1, MinNatural
    <3>3. QED
      BY <1>5, <3>2
  <2>4. Get(quants, c, q2) = f[n]
    BY <1>12, <1>13, Zenon
  <2>5. PICK j \in 1 .. n : Get(quants, c, q1) = f[j]
    <3>1. CASE late1 = {}
      BY <1>12, <2>1, <3>1
    <3>2. CASE late1 # {}
      BY <1>12, <2>3, <3>2, Zenon
    <3>3. QED
      BY <3>1, <3>2
  <2>6. f[j] <= f[n]
    BY <2>2
  <2>7. QED
    BY <2>4, <2>5, <2>6
<1>14. CASE late2 # {}
  <2>1. late1 \in SUBSET Nat /\ late2 \in SUBSET Nat /\ late1 # {}
    <3>1. 2 .. n \subseteq Nat
      BY <1>5
    <3>2. QED
      BY <1>11, <1>14, <3>1
  <2>2. PICK m1, m2 : m1 = Min(late1) /\ m2 = Min(late2)
    OBVIOUS
  <2>3. m1 \in late1 /\ m2 \in late2 /\ (\A j \in late1 : m1 <= j)
    BY <1>14, <2>1, <2>2, MinNatural
  <2>4. m1 <= m2 /\ m1 - 1 \in 1 .. n /\ m2 - 1 \in 1 .. n /\ m1 - 1 <= m2 - 1
    BY <1>5, <1>11, <2>3
  <2>5. f[m1 - 1] <= f[m2 - 1]
    BY <1>5, <2>4 DEF Ascending
  <2>6. QED
    BY <1>12, <1>14, <2>1, <2>2, <2>5
<1>15. QED
  BY <1>13, <1>14
-----------------------------------------------------------------------------
(* The assumptions on the window's constants, as the provers use them. *)
LEMMA WindowConstants ==
  /\ AgeBuckets \in Nat /\ AgeBuckets >= 1
  /\ RotationInterval \in Nat /\ RotationInterval >= 1
BY SummaryAssumption

(* How far rotate's loop turns the clock of the buckets.                   *)
LEMMA RotationsDone ==
  ASSUME NEW n \in Nat, NEW l \in Nat, l <= n, NEW r,
         r = IF n = l THEN 0 ELSE (n - l - 1) \div RotationInterval
  PROVE  /\ r \in Nat
         /\ r * RotationInterval \in Nat
         /\ l + r * RotationInterval <= n
         /\ n <= l + r * RotationInterval + RotationInterval
         /\ r > 0 => l + r * RotationInterval < n
<1>1. PICK d : d = RotationInterval /\ d \in Nat /\ d >= 1
  BY WindowConstants
<1>2. CASE n = l
  <2>1. r = 0 /\ r * d = 0
    BY <1>1, <1>2
  <2>2. QED
    BY <1>1, <1>2, <2>1
<1>3. CASE n # l
  <2>1. PICK x \in Nat : x = n - l - 1 /\ n = l + x + 1
    BY <1>3
  <2>2. r = x \div d
    BY <1>1, <1>3, <2>1
  <2>3. /\ x \div d \in Nat /\ x % d \in 0 .. (d - 1)
        /\ x = d * (x \div d) + (x % d)
    BY <1>1
  <2>4. r \in Nat /\ x = d * r + (x % d)
    BY <2>2, <2>3
  <2>5. r * d = d * r /\ r * d \in Nat
    BY <1>1, <2>4
  <2>6. PICK y, z : y = r * d /\ z = x % d /\ y \in Nat /\ z \in 0 .. (d - 1) /\ x = y + z
    BY <2>3, <2>4, <2>5
  <2>7. l + y <= n /\ n <= l + y + d /\ l + y < n
    BY <1>1, <2>1, <2>6
  <2>8. QED
    BY <1>1, <2>4, <2>5, <2>6, <2>7
<1>4. QED
  BY <1>2, <1>3

(* The bucket that comes j buckets after c. *)
LEMMA Around ==
  ASSUME NEW c \in BucketIds, NEW j \in Nat
  PROVE  /\ (c + j) % AgeBuckets \in BucketIds
         /\ j < AgeBuckets =>
              (c + j) % AgeBuckets = IF c + j < AgeBuckets THEN c + j ELSE c + j - AgeBuckets
<1>1. PICK a : a = AgeBuckets /\ a \in Nat /\ a >= 1
  BY WindowConstants
<1>2. c \in Nat /\ c < a /\ c + j \in Nat
  BY <1>1 DEF BucketIds
<1>3. (c + j) % a \in 0 .. (a - 1)
  BY <1>1, <1>2
<1>4. ASSUME j < a PROVE (c + j) % a = IF c + j < a THEN c + j ELSE c + j - a
  <2>1. CASE c + j < a
    <3>1. (c + j) % a = c + j
      BY <1>1, <1>2, <2>1
    <3>2. QED
      BY <2>1, <3>1
  <2>2. CASE c + j >= a
    <3>1. PICK y \in Nat : y < a /\ c + j = a + y
      <4>1. c + j - a \in Nat /\ c + j - a < a /\ c + j = a + (c + j - a)
        BY <1>1, <1>2, <1>4, <2>2
      <4>2. QED
        BY <4>1
    <3>2. (a + y) % a = y
      BY <1>1, <3>1
    <3>3. ~(c + j < a) /\ c + j - a = y
      BY <1>1, <1>2, <2>2, <3>1
    <3>4. QED
      BY <3>1, <3>2, <3>3
  <2>3. QED
    BY <1>1, <1>2, <2>1, <2>2
<1>5. QED
  BY <1>1, <1>3, <1>4 DEF BucketIds
-----------------------------------------------------------------------------
(* In how many turns bucket i is reset when c is the current bucket; and   *)
(* when it was last, which is not positive when it was not yet.            *)
TurnsFrom(c, i) == IF i >= c THEN i - c ELSE i - c + AgeBuckets

ResetAt(l, c, i) == l - (AgeBuckets - 1 - TurnsFrom(c, i)) * RotationInterval

(* What r turns do to that: the buckets whose turn is not among them come  *)
(* nearer, the other ones are behind all that are not.                     *)
LEMMA TurnsTaken ==
  ASSUME NEW c \in BucketIds, NEW i \in BucketIds, NEW r \in Nat,
         NEW c2, c2 = (c + r) % AgeBuckets
  PROVE  /\ TurnsFrom(c, i) \in BucketIds /\ c2 \in BucketIds /\ TurnsFrom(c2, i) \in BucketIds
         /\ TurnsFrom(c, i) >= r => TurnsFrom(c2, i) = TurnsFrom(c, i) - r
         /\ TurnsFrom(c, i) < r => r + TurnsFrom(c2, i) >= AgeBuckets
<1>1. PICK a : a = AgeBuckets /\ a \in Nat /\ a >= 1
  BY WindowConstants
<1>2. c \in Nat /\ c < a /\ i \in Nat /\ i < a
  BY <1>1 DEF BucketIds
<1>3. c2 \in Nat /\ c2 < a /\ (r < a => c2 = IF c + r < a THEN c + r ELSE c + r - a)
  <2>1. c2 \in BucketIds /\ (r < AgeBuckets => c2 = IF c + r < AgeBuckets THEN c + r ELSE c + r - AgeBuckets)
    BY Around
  <2>2. QED
    BY <1>1, <2>1 DEF BucketIds
<1>4. PICK t, t2 : t = TurnsFrom(c, i) /\ t2 = TurnsFrom(c2, i)
  OBVIOUS
<1>5. t = (IF i >= c THEN i - c ELSE i - c + a) /\ t2 = (IF i >= c2 THEN i - c2 ELSE i - c2 + a)
  BY <1>1, <1>4 DEF TurnsFrom
<1>6. t \in 0 .. (a - 1) /\ t2 \in 0 .. (a - 1)
  BY <1>1, <1>2, <1>3, <1>5
<1>7. t >= r => t2 = t - r
  BY <1>1, <1>2, <1>3, <1>5, <1>6
<1>8. t < r => r + t2 >= a
  BY <1>1, <1>2, <1>3, <1>5, <1>6
<1>9. QED
  BY <1>1, <1>3, <1>4, <1>6, <1>7, <1>8 DEF BucketIds

(* The buckets whose turn is among the r next. *)
LEMMA TurnsReset ==
  ASSUME NEW c \in BucketIds, NEW i \in BucketIds, NEW r \in Nat
  PROVE  i \in {(c + j) % AgeBuckets : j \in 0 .. (r - 1)} <=> TurnsFrom(c, i) < r
<1>1. PICK a : a = AgeBuckets /\ a \in Nat /\ a >= 1
  BY WindowConstants
<1>2. c \in Nat /\ c < a /\ i \in Nat /\ i < a
  BY <1>1 DEF BucketIds
<1>3. PICK t : t = TurnsFrom(c, i) /\ t = IF i >= c THEN i - c ELSE i - c + a
  BY <1>1 DEF TurnsFrom
<1>4. t \in 0 .. (a - 1)
  BY <1>1, <1>2, <1>3
<1>5. ASSUME t < r PROVE i \in {(c + j) % AgeBuckets : j \in 0 .. (r - 1)}
  <2>1. t \in 0 .. (r - 1) /\ t \in Nat /\ t < AgeBuckets
    BY <1>1, <1>4, <1>5
  <2>2. (c + t) % AgeBuckets = IF c + t < AgeBuckets THEN c + t ELSE c + t - AgeBuckets
    BY <2>1, Around
  <2>3. i = IF c + t < a THEN c + t ELSE c + t - a
    BY <1>1, <1>2, <1>3
  <2>4. i = (c + t) % AgeBuckets
    BY <1>1, <2>2, <2>3
  <2>5. QED
    BY <2>1, <2>4
<1>6. ASSUME NEW j \in 0 .. (r - 1), i = (c + j) % AgeBuckets PROVE t < r
  <2>1. j \in Nat /\ j < r
    OBVIOUS
  <2>2. CASE j >= a
    BY <1>1, <1>4, <2>1, <2>2
  <2>3. CASE j < a
    <3>1. i = IF c + j < a THEN c + j ELSE c + j - a
      BY <1>1, <1>6, <2>1, <2>3, Around
    <3>2. t = j
      BY <1>1, <1>2, <1>3, <2>1, <2>3, <3>1
    <3>3. QED
      BY <2>1, <3>2
  <2>4. QED
    BY <1>1, <2>1, <2>2, <2>3
<1>7. QED
  BY <1>3, <1>5, <1>6

(* r turns of rotate's loop from time l on.                                *)
LEMMA ResetMoves ==
  ASSUME NEW c \in BucketIds, NEW i \in BucketIds, NEW r \in Nat, NEW l \in Nat,
         NEW c2, c2 = (c + r) % AgeBuckets, NEW l2, l2 = l + r * RotationInterval
  PROVE  /\ ResetAt(l2, c2, i) \in Int /\ ResetAt(l2, c2, i) <= l2
         /\ TurnsFrom(c, i) >= r => ResetAt(l2, c2, i) = ResetAt(l, c, i)
         /\ TurnsFrom(c, i) < r => ResetAt(l2, c2, i) >= l + RotationInterval
<1>1. PICK a, d : /\ a = AgeBuckets /\ a \in Nat /\ a >= 1
                  /\ d = RotationInterval /\ d \in Nat /\ d >= 1
  BY WindowConstants
<1>2. PICK t, t2 : t = TurnsFrom(c, i) /\ t2 = TurnsFrom(c2, i)
  OBVIOUS
<1>3. /\ t \in 0 .. (a - 1) /\ t2 \in 0 .. (a - 1)
      /\ t >= r => t2 = t - r
      /\ t < r => r + t2 >= a
  <2>1. /\ TurnsFrom(c, i) \in BucketIds /\ TurnsFrom(c2, i) \in BucketIds
        /\ TurnsFrom(c, i) >= r => TurnsFrom(c2, i) = TurnsFrom(c, i) - r
        /\ TurnsFrom(c, i) < r => r + TurnsFrom(c2, i) >= AgeBuckets
    BY TurnsTaken
  <2>2. BucketIds = 0 .. (a - 1)
    BY <1>1 DEF BucketIds
  <2>3. QED
    BY <1>1, <1>2, <2>1, <2>2, Zenon
<1>4. l2 = l + r * d /\ r * d \in Nat /\ l2 \in Nat
  BY <1>1
<1>5. PICK m, m2 : m = a - 1 - t /\ m2 = a - 1 - t2 /\ m \in Nat /\ m2 \in Nat
  BY <1>1, <1>3
<1>6. ResetAt(l2, c2, i) = l2 - m2 * d /\ ResetAt(l, c, i) = l - m * d
  BY <1>1, <1>2, <1>5 DEF ResetAt
<1>7. m * d \in Nat /\ m2 * d \in Nat
  BY <1>1, <1>5
<1>8. ASSUME t >= r PROVE l2 - m2 * d = l - m * d
  <2>1. m2 = m + r
    BY <1>1, <1>3, <1>5, <1>8
  <2>2. m2 * d = m * d + r * d
    BY <1>1, <1>5, <2>1
  <2>3. QED
    BY <1>4, <1>7, <2>2
<1>9. ASSUME t < r PROVE l2 - m2 * d >= l + d
  <2>1. PICK k \in Nat : r = m2 + 1 + k
    <3>1. r - (m2 + 1) \in Nat /\ r = m2 + 1 + (r - (m2 + 1))
      BY <1>1, <1>3, <1>5, <1>9
    <3>2. QED
      BY <3>1
  <2>2. r * d = m2 * d + d + k * d /\ k * d \in Nat
    BY <1>1, <1>5, <2>1
  <2>3. QED
    BY <1>1, <1>4, <1>7, <2>2
<1>10. QED
  BY <1>1, <1>2, <1>4, <1>6, <1>7, <1>8, <1>9
-----------------------------------------------------------------------------
(* What the history keeps of an observation. *)
Observation == [value : Values, at : 0 .. MaxTime]

(* The observations that a bucket that was last reset at time t still      *)
(* holds, their values, and an estimator that stands for them.             *)
KeptSince(obs, t) == {k \in DOMAIN obs : t <= 0 \/ obs[k].at > t}

ValuesIn(obs, K) == {obs[k].value : k \in K}

Holds(obs, t, e) ==
  /\ Covers(ValuesIn(obs, KeptSince(obs, t)), e)
  /\ Given(e) = Cardinality(KeptSince(obs, t))

(* The history as a function. *)
LEMMA Observations ==
  ASSUME NEW obs \in Seq(Observation)
  PROVE  /\ Len(obs) \in Nat /\ DOMAIN obs = 1 .. Len(obs)
         /\ \A k \in DOMAIN obs : obs[k] \in Observation /\ obs[k].value \in Values /\ obs[k].at \in Nat
<1>1. Len(obs) \in Nat /\ DOMAIN obs = 1 .. Len(obs) /\ \A k \in DOMAIN obs : obs[k] \in Observation
  BY LenProperties, ElementOfSeq
<1>2. \A o \in Observation : o.value \in Values /\ o.at \in Nat
  BY SummaryAssumption DEF Observation
<1>3. QED
  BY <1>1, <1>2

(* What is kept of it is finite, and has values that may be observed. *)
LEMMA KeptFinite ==
  ASSUME NEW obs \in Seq(Observation), NEW t
  PROVE  /\ IsFiniteSet(KeptSince(obs, t)) /\ Cardinality(KeptSince(obs, t)) \in Nat
         /\ KeptSince(obs, t) \subseteq 1 .. Len(obs)
         /\ ValuesIn(obs, KeptSince(obs, t)) \in SUBSET Values
         /\ ValuesIn(obs, KeptSince(obs, t)) \in SUBSET Int
<1>1. Len(obs) \in Nat /\ DOMAIN obs = 1 .. Len(obs) /\ \A k \in 1 .. Len(obs) : obs[k] \in Observation
  BY LenProperties, ElementOfSeq
<1>2. KeptSince(obs, t) \subseteq 1 .. Len(obs)
  BY <1>1 DEF KeptSince
<1>3. IsFiniteSet(1 .. Len(obs))
  BY <1>1, FS_Interval
<1>4. IsFiniteSet(KeptSince(obs, t)) /\ Cardinality(KeptSince(obs, t)) \in Nat
  BY <1>2, <1>3, FS_Subset, FS_CardinalityType
<1>5. \A k \in 1 .. Len(obs) : obs[k].value \in Values
  BY <1>1 DEF Observation
<1>6. ValuesIn(obs, KeptSince(obs, t)) \subseteq Values
  BY <1>2, <1>5 DEF ValuesIn
<1>7. QED
  BY <1>2, <1>4, <1>6, SummaryAssumption

(* A bucket that is reset after all observations holds none.               *)
LEMMA ResetHolds ==
  ASSUME NEW obs \in Seq(Observation), NEW t \in Int, t > 0,
         \A k \in DOMAIN obs : obs[k].at <= t
  PROVE  Holds(obs, t, Empty)
<1>1. \A k \in DOMAIN obs : obs[k].at \in Nat
  BY Observations
<1>2. KeptSince(obs, t) = {}
  BY <1>1 DEF KeptSince
<1>3. Given(Empty) = 0
  BY DEF Given, Empty
<1>4. Cardinality({}) = 0
  BY FS_EmptySet
<1>5. QED
  BY <1>2, <1>3, <1>4, EmptyCovers DEF Holds

(* An observation reaches every bucket. *)
LEMMA InsertHolds ==
  ASSUME NEW quants \in Seq(Quantile), NEW obs \in Seq(Observation), NEW t \in Int, NEW e,
         Holds(obs, t, e), NEW o \in Observation, t <= 0 \/ o.at > t
  PROVE  Holds(Append(obs, o), t, Insert(quants, e, o.value))
<1> DEFINE obs2 == Append(obs, o)
           n == Len(obs)
           K == KeptSince(obs, t)
           K2 == KeptSince(obs2, t)
<1>1. /\ n \in Nat /\ DOMAIN obs = 1 .. n /\ obs2 \in Seq(Observation) /\ DOMAIN obs2 = 1 .. (n + 1)
      /\ obs2[n + 1] = o /\ \A k \in 1 .. n : obs2[k] = obs[k]
  <2>1. n \in Nat /\ DOMAIN obs = 1 .. n
    BY LenProperties
  <2>2. /\ obs2 \in Seq(Observation) /\ Len(obs2) = n + 1
        /\ obs2[n + 1] = o /\ \A k \in 1 .. n : obs2[k] = obs[k]
    BY AppendProperties
  <2>3. DOMAIN obs2 = 1 .. (n + 1)
    BY <2>2, LenProperties
  <2>4. QED
    BY <2>1, <2>2, <2>3
<1> HIDE DEF obs2
<1>2. K2 = K \cup {n + 1}
  <2>1. 1 .. (n + 1) = (1 .. n) \cup {n + 1}
    BY <1>1
  <2>2. QED
    BY <1>1, <2>1, Zenon DEF KeptSince
<1>3. n + 1 \notin K /\ IsFiniteSet(K) /\ K \subseteq 1 .. n /\ Cardinality(K) \in Nat
  <2>1. K \subseteq 1 .. n /\ IsFiniteSet(K) /\ Cardinality(K) \in Nat
    BY KeptFinite
  <2>2. n + 1 \notin 1 .. n
    BY <1>1
  <2>3. QED
    BY <2>1, <2>2
<1>4. Cardinality(K2) = Cardinality(K) + 1
  BY <1>2, <1>3, FS_AddElement
<1>5. /\ ValuesIn(obs, K) \subseteq ValuesIn(obs2, K2)
      /\ o.value \in ValuesIn(obs2, K2)
      /\ ValuesIn(obs2, K2) \in SUBSET Int
  <2>1. ValuesIn(obs2, K2) \in SUBSET Int
    BY <1>1, KeptFinite
  <2> HIDE DEF K, K2
  <2>2. \A k \in K : obs2[k] = obs[k] /\ k \in K2
    BY <1>1, <1>2, <1>3
  <2>3. n + 1 \in K2 /\ obs2[n + 1].value = o.value
    BY <1>1, <1>2
  <2>4. ValuesIn(obs, K) \subseteq ValuesIn(obs2, K2)
    BY <2>2 DEF ValuesIn
  <2>5. o.value \in ValuesIn(obs2, K2)
    BY <2>3, Zenon DEF ValuesIn
  <2>6. QED
    BY <2>1, <2>4, <2>5
<1>6. Covers(ValuesIn(obs2, K2), e)
  BY <1>5, CoversMore DEF Holds
<1>7. /\ Covers(ValuesIn(obs2, K2), Insert(quants, e, o.value))
      /\ Given(Insert(quants, e, o.value)) = Given(e) + 1
  BY <1>5, <1>6, InsertCovers
<1>8. QED
  BY <1>4, <1>7 DEF Holds, obs2

(* A flush changes nothing of what a bucket stands for.                    *)
LEMMA FlushHolds ==
  ASSUME NEW quants \in Seq(Quantile), NEW obs \in Seq(Observation), NEW t \in Int, NEW e,
         Holds(obs, t, e)
  PROVE  /\ Holds(obs, t, Flush(quants, e))
         /\ Flush(quants, e).count = Cardinality(KeptSince(obs, t))
<1>1. PICK W, r : W = ValuesIn(obs, KeptSince(obs, t)) /\ r = Flush(quants, e)
  OBVIOUS
<1>2. W \in SUBSET Int /\ Covers(W, e) /\ Given(e) = Cardinality(KeptSince(obs, t))
  BY <1>1, KeptFinite DEF Holds
<1>3. Covers(W, r) /\ r.buffer = << >> /\ r.count = Given(e)
  BY <1>1, <1>2, FlushCovers DEF Given
<1>4. Given(r) = r.count
  <2>1. r.count \in Nat /\ Len(r.buffer) = 0
    BY <1>3 DEF Covers, Estimator
  <2>2. QED
    BY <2>1 DEF Given
<1>5. QED
  BY <1>1, <1>2, <1>3, <1>4 DEF Holds

(* The window of the bucket that is reset next, after a rotation at time n *)
(* that brought the buckets to time l.                                     *)
LEMMA WindowOf ==
  ASSUME NEW obs \in Seq(Observation), NEW c \in BucketIds, NEW n \in Nat, NEW l \in Nat,
         l <= n, n <= l + RotationInterval, l > 0 => n > l
  PROVE  /\ {k \in DOMAIN obs : n - obs[k].at <= (AgeBuckets - 1) * RotationInterval}
              \subseteq KeptSince(obs, ResetAt(l, c, c))
         /\ KeptSince(obs, ResetAt(l, c, c))
              \subseteq {k \in DOMAIN obs : n - obs[k].at <= AgeBuckets * RotationInterval}
<1>1. PICK a, d : /\ a = AgeBuckets /\ a \in Nat /\ a >= 1
                  /\ d = RotationInterval /\ d \in Nat /\ d >= 1
  BY WindowConstants
<1>2. TurnsFrom(c, c) = 0
  BY DEF TurnsFrom, BucketIds
<1>3. PICK w : w = (a - 1) * d /\ w \in Nat /\ a * d = w + d
  BY <1>1
<1>4. PICK t : t = ResetAt(l, c, c) /\ t = l - w
  <2>1. ResetAt(l, c, c) = l - (a - 1 - 0) * d
    BY <1>1, <1>2 DEF ResetAt
  <2>2. a - 1 - 0 = a - 1
    BY <1>1
  <2>3. QED
    BY <1>3, <2>1, <2>2
<1>5. \A k \in DOMAIN obs : obs[k].at \in Nat
  BY Observations
<1>6. ASSUME NEW k \in DOMAIN obs, n - obs[k].at <= w PROVE t <= 0 \/ obs[k].at > t
  BY <1>1, <1>3, <1>4, <1>5, <1>6
<1>7. ASSUME NEW k \in DOMAIN obs, t <= 0 \/ obs[k].at > t PROVE n - obs[k].at <= w + d
  BY <1>1, <1>3, <1>4, <1>5, <1>7
<1>8. /\ (AgeBuckets - 1) * RotationInterval = w /\ AgeBuckets * RotationInterval = w + d
  BY <1>1, <1>3
<1>9. KeptSince(obs, ResetAt(l, c, c)) = {k \in DOMAIN obs : t <= 0 \/ obs[k].at > t}
  BY <1>4 DEF KeptSince
<1>10. QED
  BY <1>6, <1>7, <1>8, <1>9, Zenon
-----------------------------------------------------------------------------
(* No observation is more than one interval younger than the last          *)
(* rotation, as each observation rotates first; and a rotation leaves the  *)
(* buckets behind the clock (time_window_quantiles.cc:34-43).              *)
ClockInv ==
  /\ \A k \in DOMAIN observed : observed[k].at <= last_rotation + RotationInterval
  /\ last_rotation > 0 => now > last_rotation

(* Each bucket stands for exactly the observations since it was reset, and *)
(* when it was follows from its distance to the current one                *)
(* (time_window_quantiles.cc:28-43).                                       *)
BucketInv ==
  \A i \in BucketIds :
    Holds(observed, ResetAt(last_rotation, current_bucket, i), ckms_quantiles[i])

(* The inductive invariant.  A quantile is right when it is taken          *)
(* (BucketInv) and stays so while its Collect goes on, as there is no      *)
(* observation meanwhile; what was gathered is dropped before the next     *)
(* one.                                                                    *)
SummaryInv ==
  /\ SummaryTypeOK
  /\ ClockInv
  /\ BucketInv
  /\ ~busy => collecting = << >>
  /\ WindowSlides

(* Types that the steps need. *)
LEMMA SummaryTypes ==
  ASSUME SummaryTypeOK
  PROVE  /\ quantiles \in Seq(Quantile)
         /\ observed \in Seq(Observation)
         /\ last_rotation \in Nat /\ now \in Nat /\ last_rotation <= now /\ now <= MaxTime
         /\ current_bucket \in BucketIds
         /\ ckms_quantiles \in [BucketIds -> Estimator(Int)]
         /\ count \in Nat /\ sum \in Int /\ busy \in BOOLEAN /\ collecting \in Seq(Result)
<1>1. MaxTime \in Nat /\ QuantileLists \subseteq Seq(Quantile)
  BY SummaryAssumption
<1>2. now \in 0 .. MaxTime /\ last_rotation \in 0 .. now
  BY DEF SummaryTypeOK
<1>3. now \in Nat /\ now <= MaxTime
  BY <1>1, <1>2
<1>4. last_rotation \in Nat /\ last_rotation <= now
  BY <1>2, <1>3
<1>5. QED
  BY <1>1, <1>3, <1>4 DEF SummaryTypeOK, Observation

(* rotate, in every step that calls it: the buckets are brought to within  *)
(* one interval of the clock, and each still stands for what was observed  *)
(* since it was reset.                                                     *)
LEMMA Rotated ==
  ASSUME SummaryTypeOK, ClockInv, BucketInv, Rotate
  PROVE  /\ current_bucket' \in BucketIds
         /\ last_rotation' \in Nat /\ last_rotation' <= now
         /\ now <= last_rotation' + RotationInterval
         /\ last_rotation' > 0 => now > last_rotation'
         /\ \A k \in DOMAIN observed : observed[k].at <= last_rotation' + RotationInterval
         /\ \A i \in BucketIds :
              /\ ResetAt(last_rotation', current_bucket', i) \in Int
              /\ ResetAt(last_rotation', current_bucket', i) <= 0 \/ now > ResetAt(last_rotation', current_bucket', i)
              /\ Holds(observed, ResetAt(last_rotation', current_bucket', i), RotatedBuckets[i])
<1>1. PICK l, n, r, c : l = last_rotation /\ n = now /\ r = Rotations /\ c = current_bucket
  OBVIOUS
<1>2. /\ l \in Nat /\ n \in Nat /\ l <= n /\ c \in BucketIds /\ observed \in Seq(Observation)
      /\ r = IF n = l THEN 0 ELSE (n - l - 1) \div RotationInterval
  BY <1>1, SummaryTypes DEF Rotations
<1>3. PICK d : d = RotationInterval /\ d \in Nat /\ d >= 1
  BY WindowConstants
<1>4. PICK l2, c2 : /\ l2 = last_rotation' /\ l2 = l + r * RotationInterval
                    /\ c2 = current_bucket' /\ c2 = (c + r) % AgeBuckets
  BY <1>1 DEF Rotate, RotatedCurrent
<1>5. /\ r \in Nat /\ r * RotationInterval \in Nat
      /\ l + r * RotationInterval <= n /\ n <= l + r * RotationInterval + RotationInterval
      /\ r > 0 => l + r * RotationInterval < n
  BY <1>2, RotationsDone
<1>6. l2 \in Nat /\ l <= l2 /\ l2 <= n /\ n <= l2 + d /\ (r > 0 => l2 < n)
  BY <1>2, <1>3, <1>4, <1>5
<1>7. r = 0 => l2 = l
  BY <1>2, <1>3, <1>4
<1>8. l2 > 0 => n > l2
  BY <1>1, <1>2, <1>5, <1>6, <1>7 DEF ClockInv
<1>9. \A k \in DOMAIN observed : observed[k].at \in Nat /\ observed[k].at <= l + d
  BY <1>1, <1>2, <1>3, Observations DEF ClockInv
<1>10. c2 \in BucketIds
  BY <1>2, <1>4, <1>5, Around
<1>11. ASSUME NEW i \in BucketIds
       PROVE  /\ ResetAt(l2, c2, i) \in Int
              /\ ResetAt(l2, c2, i) <= 0 \/ n > ResetAt(l2, c2, i)
              /\ Holds(observed, ResetAt(l2, c2, i), RotatedBuckets[i])
  <2>1. /\ ResetAt(l2, c2, i) \in Int /\ ResetAt(l2, c2, i) <= l2
        /\ TurnsFrom(c, i) >= r => ResetAt(l2, c2, i) = ResetAt(l, c, i)
        /\ TurnsFrom(c, i) < r => ResetAt(l2, c2, i) >= l + RotationInterval
    <3>1. /\ c \in BucketIds /\ r \in Nat /\ l \in Nat
          /\ c2 = (c + r) % AgeBuckets /\ l2 = l + r * RotationInterval
      BY <1>2, <1>4, <1>5
    <3>2. QED
      BY <3>1, ResetMoves
  <2>2. PICK t, u : t = ResetAt(l2, c2, i) /\ u = TurnsFrom(c, i)
    OBVIOUS
  <2>3. t <= 0 \/ n > t
    BY <1>2, <1>6, <1>8, <2>1, <2>2
  <2>4. u \in Int
    BY <1>2, <2>2, WindowConstants DEF TurnsFrom, BucketIds
  <2>5. i \in Reset <=> u < r
    BY <1>1, <1>2, <1>5, <2>2, TurnsReset DEF Reset
  <2>6. CASE u < r
    <3>1. RotatedBuckets[i] = Empty
      BY <2>5, <2>6 DEF RotatedBuckets
    <3>2. t \in Int /\ t >= l + d
      BY <1>3, <2>1, <2>2, <2>6
    <3>3. t > 0 /\ \A k \in DOMAIN observed : observed[k].at <= t
      BY <1>2, <1>3, <1>9, <3>2
    <3>4. Holds(observed, t, Empty)
      BY <1>2, <3>2, <3>3, ResetHolds
    <3>5. QED
      BY <2>1, <2>2, <2>3, <3>1, <3>4
  <2>7. CASE ~(u < r)
    <3>1. RotatedBuckets[i] = ckms_quantiles[i]
      BY <2>5, <2>7 DEF RotatedBuckets
    <3>2. u >= r
      BY <1>5, <2>4, <2>7
    <3>3. t = ResetAt(l, c, i)
      BY <2>1, <2>2, <3>2
    <3>4. Holds(observed, t, ckms_quantiles[i])
      BY <1>1, <3>3 DEF BucketInv
    <3>5. QED
      BY <2>1, <2>2, <2>3, <3>1, <3>4
  <2>8. QED
    BY <2>6, <2>7
<1>12. \A k \in DOMAIN observed : observed[k].at <= l2 + d
  BY <1>2, <1>3, <1>6, <1>9
<1>13. QED
  BY <1>1, <1>3, <1>4, <1>6, <1>8, <1>10, <1>11, <1>12
-----------------------------------------------------------------------------
(* A summary as it is built has the invariant: its buckets are empty and   *)
(* nothing was observed.                                                   *)
LEMMA SummaryStarts ==
  SummaryInit => SummaryInv
<1> SUFFICES ASSUME SummaryInit PROVE SummaryInv
  OBVIOUS
<1> USE DEF SummaryInit
<1>1. AgeBuckets \in Nat /\ AgeBuckets >= 1 /\ MaxTime \in Nat /\ RotationInterval \in Nat
  BY SummaryAssumption
<1>2. Covers(Int, Empty) /\ Empty \in Estimator(Int)
  BY EmptyCovers DEF Covers
<1>3. SummaryTypeOK
  <2>1. 0 \in BucketIds /\ 0 \in 0 .. MaxTime /\ 0 \in 0 .. 0
    BY <1>1 DEF BucketIds
  <2>2. ckms_quantiles \in [BucketIds -> Estimator(Int)]
    BY <1>2
  <2>3. << >> \in Seq(Result) /\ << >> \in Seq([value : Values, at : 0 .. MaxTime])
    OBVIOUS
  <2>4. QED
    BY <2>1, <2>2, <2>3 DEF SummaryTypeOK
<1>4. ClockInv
  BY DEF ClockInv
<1>5. BucketInv
  <2>1. \A t : KeptSince(<< >>, t) = {}
    BY DEF KeptSince
  <2>2. Given(Empty) = 0
    BY DEF Given, Empty
  <2>3. \A t : Holds(<< >>, t, Empty)
    BY <2>1, <2>2, EmptyCovers, FS_EmptySet DEF Holds
  <2>4. QED
    BY <2>3 DEF BucketInv
<1>6. WindowSlides
  BY DEF WindowSlides, Results, Range
<1>7. QED
  BY <1>3, <1>4, <1>5, <1>6 DEF SummaryInv

(* A bucket that stands for observations is an estimator of integers. *)
LEMMA HoldsEstimator ==
  ASSUME NEW obs \in Seq(Observation), NEW t, NEW e, Holds(obs, t, e)
  PROVE  e \in Estimator(Int)
<1>1. ValuesIn(obs, KeptSince(obs, t)) \subseteq Int
  BY KeptFinite
<1>2. Covers(Int, e)
  BY <1>1, CoversMore DEF Holds
<1>3. QED
  BY <1>2 DEF Covers

(* What WindowSlides says of one quantile. *)
NoOlder(obs, age, time) == {i \in DOMAIN obs : time - obs[i].at <= age}

RightWindow(obs, r) ==
  /\ r.seen \in Cardinality(NoOlder(obs, (AgeBuckets - 1) * RotationInterval, r.at))
                  .. Cardinality(NoOlder(obs, AgeBuckets * RotationInterval, r.at))
  /\ IF r.seen = 0 THEN r.value = NoValue
     ELSE r.value \in {obs[i].value : i \in NoOlder(obs, AgeBuckets * RotationInterval, r.at)}

(* WindowSlides is about each quantile by itself. *)
LEMMA WindowsRight ==
  WindowSlides <=> \A r \in Range(collecting) : RightWindow(observed, r)
BY DEF WindowSlides, Results, RightWindow, NotOlder, NoOlder

(* A quantile that is taken from the current bucket after a rotation.      *)
LEMMA TakenRight ==
  ASSUME NEW quants \in Seq(Quantile), NEW obs \in Seq(Observation), NEW c \in BucketIds,
         NEW n \in Nat, NEW l \in Nat,
         l <= n, n <= l + RotationInterval, l > 0 => n > l,
         NEW e, Holds(obs, ResetAt(l, c, c), e), NEW q, NEW r,
         r = [quantile |-> q, value |-> Get(quants, Flush(quants, e), q),
              at |-> n, seen |-> Flush(quants, e).count, items |-> Len(Flush(quants, e).sample)]
  PROVE  /\ RightWindow(obs, r) /\ r.seen \in Nat /\ r.items \in Nat
         /\ r.value \in Int \cup {NoValue}
         /\ Holds(obs, ResetAt(l, c, c), Flush(quants, e))
<1>1. PICK t, f : t = ResetAt(l, c, c) /\ f = Flush(quants, e)
  OBVIOUS
<1>2. PICK old, recent : /\ old = NoOlder(obs, AgeBuckets * RotationInterval, n)
                         /\ recent = NoOlder(obs, (AgeBuckets - 1) * RotationInterval, n)
  OBVIOUS
<1>3. recent \subseteq KeptSince(obs, t) /\ KeptSince(obs, t) \subseteq old
  <2>1. /\ {k \in DOMAIN obs : n - obs[k].at <= (AgeBuckets - 1) * RotationInterval}
             \subseteq KeptSince(obs, ResetAt(l, c, c))
        /\ KeptSince(obs, ResetAt(l, c, c))
             \subseteq {k \in DOMAIN obs : n - obs[k].at <= AgeBuckets * RotationInterval}
    BY WindowOf
  <2>2. QED
    BY <1>1, <1>2, <2>1, Zenon DEF NoOlder
<1>4. t \in Int
  <2>1. PICK m : m = AgeBuckets - 1 - TurnsFrom(c, c) /\ m \in Int
    BY WindowConstants DEF TurnsFrom, BucketIds
  <2>2. ResetAt(l, c, c) = l - m * RotationInterval
    BY <2>1 DEF ResetAt
  <2>3. QED
    BY <1>1, <2>1, <2>2, WindowConstants
<1>5. Holds(obs, t, f) /\ f.count = Cardinality(KeptSince(obs, t))
  BY <1>1, <1>4, FlushHolds
<1>6. /\ IsFiniteSet(old) /\ IsFiniteSet(KeptSince(obs, t))
      /\ Cardinality(old) \in Nat /\ Cardinality(recent) \in Nat /\ f.count \in Nat
      /\ Cardinality(recent) <= f.count /\ f.count <= Cardinality(old)
  <2>1. Len(obs) \in Nat /\ DOMAIN obs = 1 .. Len(obs)
    BY Observations
  <2>2. IsFiniteSet(DOMAIN obs)
    BY <2>1, FS_Interval
  <2>3. IsFiniteSet(old)
    BY <1>2, <2>2, FS_Subset DEF NoOlder
  <2>4. IsFiniteSet(KeptSince(obs, t)) /\ Cardinality(KeptSince(obs, t)) <= Cardinality(old)
    BY <1>3, <2>3, FS_Subset
  <2>5. IsFiniteSet(recent) /\ Cardinality(recent) <= Cardinality(KeptSince(obs, t))
    BY <1>3, <2>4, FS_Subset
  <2>6. QED
    BY <1>5, <2>3, <2>4, <2>5, FS_CardinalityType
<1>7. PICK K : K = ValuesIn(obs, KeptSince(obs, t))
  OBVIOUS
<1>8. K \subseteq {obs[i].value : i \in old} /\ K \subseteq Int
  <2>1. K \subseteq Int
    BY <1>7, KeptFinite
  <2>2. QED
    BY <1>3, <1>7, <2>1 DEF ValuesIn
<1>9. PICK g : g = Get(quants, f, q)
  OBVIOUS
<1>10. IF f.count = 0 THEN g = NoValue ELSE g \in K
  BY <1>5, <1>7, <1>9, GetValue DEF Holds
<1>11. r = [quantile |-> q, value |-> g, at |-> n, seen |-> f.count, items |-> Len(f.sample)]
  BY <1>1, <1>9
<1>12. r.seen = f.count /\ r.value = g /\ r.at = n /\ r.items = Len(f.sample)
  BY <1>11
<1>13. RightWindow(obs, r)
  <2>1. f.count \in Cardinality(recent) .. Cardinality(old)
    BY <1>6
  <2>2. IF f.count = 0 THEN g = NoValue ELSE g \in {obs[i].value : i \in old}
    BY <1>8, <1>10
  <2>3. QED
    BY <1>2, <1>12, <2>1, <2>2, Zenon DEF RightWindow
<1>14. g \in Int \cup {NoValue}
  BY <1>8, <1>10
<1>15. Len(f.sample) \in Nat
  BY <1>5, LenProperties DEF Holds, Covers, Estimator
<1>16. QED
  BY <1>1, <1>5, <1>6, <1>12, <1>13, <1>14, <1>15

(* Every step keeps the invariant. *)
LEMMA SummarySteps ==
  SummaryInv /\ [SummaryNext]_summaryVars => SummaryInv'
<1> SUFFICES ASSUME SummaryInv, [SummaryNext]_summaryVars PROVE SummaryInv'
  OBVIOUS
<1>1. /\ SummaryTypeOK /\ ClockInv /\ BucketInv /\ WindowSlides
      /\ ~busy => collecting = << >>
  BY DEF SummaryInv
<1>2. /\ quantiles \in Seq(Quantile) /\ quantiles \in QuantileLists
      /\ observed \in Seq(Observation)
      /\ last_rotation \in Nat /\ now \in Nat /\ last_rotation <= now /\ now <= MaxTime
      /\ current_bucket \in BucketIds
      /\ ckms_quantiles \in [BucketIds -> Estimator(Int)]
      /\ count \in Nat /\ sum \in Int /\ busy \in BOOLEAN /\ collecting \in Seq(Result)
  BY <1>1, SummaryTypes DEF SummaryTypeOK
<1>3. MaxTime \in Nat /\ Values \subseteq Int
  BY SummaryAssumption
<1>4. ASSUME NEW v \in Values, Observe(v) PROVE SummaryInv'
  <2> DEFINE o == [value |-> v, at |-> now]
  <2>1. /\ Rotate /\ ~busy
        /\ ckms_quantiles' = [i \in BucketIds |-> Insert(quantiles, RotatedBuckets[i], v)]
        /\ count' = count + 1 /\ sum' = sum + v
        /\ observed' = Append(observed, o)
        /\ quantiles' = quantiles /\ now' = now /\ busy' = busy /\ collecting' = collecting
    BY <1>4 DEF Observe
  <2>2. /\ current_bucket' \in BucketIds
        /\ last_rotation' \in Nat /\ last_rotation' <= now
        /\ now <= last_rotation' + RotationInterval
        /\ last_rotation' > 0 => now > last_rotation'
        /\ \A k \in DOMAIN observed : observed[k].at <= last_rotation' + RotationInterval
        /\ \A i \in BucketIds :
             /\ ResetAt(last_rotation', current_bucket', i) \in Int
             /\ ResetAt(last_rotation', current_bucket', i) <= 0 \/ now > ResetAt(last_rotation', current_bucket', i)
             /\ Holds(observed, ResetAt(last_rotation', current_bucket', i), RotatedBuckets[i])
    BY <1>1, <2>1, Rotated
  <2>3. o \in Observation /\ o.value = v /\ o.at = now
    BY <1>2, <1>3 DEF Observation
  <2> HIDE DEF o
  <2>4. /\ observed' \in Seq(Observation) /\ Len(observed) \in Nat /\ DOMAIN observed = 1 .. Len(observed)
        /\ DOMAIN observed' = 1 .. (Len(observed) + 1)
        /\ observed'[Len(observed) + 1] = o
        /\ \A k \in 1 .. Len(observed) : observed'[k] = observed[k]
    <3>1. /\ Append(observed, o) \in Seq(Observation) /\ Len(Append(observed, o)) = Len(observed) + 1
          /\ Append(observed, o)[Len(observed) + 1] = o
          /\ \A k \in 1 .. Len(observed) : Append(observed, o)[k] = observed[k]
      BY <1>2, <2>3, AppendProperties
    <3>2. QED
      BY <1>2, <2>1, <3>1, LenProperties
  <2>5. BucketInv'
    <3>1. ASSUME NEW i \in BucketIds
          PROVE  Holds(observed', ResetAt(last_rotation', current_bucket', i), ckms_quantiles'[i])
      <4>1. PICK t, e : t = ResetAt(last_rotation', current_bucket', i) /\ e = RotatedBuckets[i]
        OBVIOUS
      <4>2. t \in Int /\ (t <= 0 \/ o.at > t) /\ Holds(observed, t, e)
        BY <2>2, <2>3, <4>1
      <4>3. Holds(Append(observed, o), t, Insert(quantiles, e, o.value))
        BY <1>2, <2>3, <4>2, InsertHolds
      <4>4. ckms_quantiles'[i] = Insert(quantiles, e, o.value)
        BY <2>1, <2>3, <4>1
      <4>5. QED
        BY <2>1, <4>1, <4>3, <4>4
    <3>2. QED
      BY <3>1 DEF BucketInv, BucketIds
  <2>6. ClockInv'
    <3>1. ASSUME NEW k \in DOMAIN observed' PROVE observed'[k].at <= last_rotation' + RotationInterval
      <4>1. CASE k = Len(observed) + 1
        BY <2>2, <2>3, <2>4, <4>1
      <4>2. CASE k # Len(observed) + 1
        <5>1. k \in 1 .. Len(observed)
          BY <2>4, <4>2
        <5>2. QED
          BY <2>2, <2>4, <5>1
      <4>3. QED
        BY <4>1, <4>2
    <3>2. QED
      BY <2>1, <2>2, <3>1 DEF ClockInv
  <2>7. SummaryTypeOK'
    <3>1. ckms_quantiles' \in [BucketIds -> Estimator(Int)]
      <4>1. \A i \in BucketIds : ckms_quantiles'[i] \in Estimator(Int)
        BY <2>4, <2>5, HoldsEstimator DEF BucketInv, BucketIds
      <4>2. QED
        BY <2>1, <4>1
    <3>2. now' \in 0 .. MaxTime /\ last_rotation' \in 0 .. now'
      BY <1>2, <1>3, <2>1, <2>2
    <3>3. count' \in Nat /\ sum' \in Int
      BY <1>2, <1>3, <2>1
    <3>4. QED
      BY <1>2, <2>1, <2>2, <2>4, <3>1, <3>2, <3>3 DEF SummaryTypeOK, Observation, BucketIds
  <2>8. collecting' = << >>
    BY <1>1, <2>1
  <2>9. WindowSlides'
    BY <2>8 DEF WindowSlides, Results, Range
  <2>10. QED
    BY <2>5, <2>6, <2>7, <2>8, <2>9 DEF SummaryInv
<1>5. ASSUME CollectQuantile PROVE SummaryInv'
  <2>1. PICK q, e, r, i0 :
          /\ q = quantiles[Len(collecting) + 1]
          /\ i0 = RotatedCurrent /\ e = RotatedBuckets[i0]
          /\ r = [quantile |-> q, value |-> Get(quantiles, Flush(quantiles, e), q),
                  at |-> now, seen |-> Flush(quantiles, e).count,
                  items |-> Len(Flush(quantiles, e).sample)]
    OBVIOUS
  <2>2. /\ busy /\ Len(collecting) < Len(quantiles) /\ Rotate
        /\ ckms_quantiles' = [RotatedBuckets EXCEPT ![i0] = Flush(quantiles, e)]
        /\ collecting' = Append(collecting, r)
        /\ quantiles' = quantiles /\ now' = now /\ busy' = busy /\ observed' = observed
        /\ count' = count /\ sum' = sum
        /\ current_bucket' = i0
    BY <1>5, <2>1 DEF CollectQuantile, Rotate
  <2>3. /\ current_bucket' \in BucketIds
        /\ last_rotation' \in Nat /\ last_rotation' <= now
        /\ now <= last_rotation' + RotationInterval
        /\ last_rotation' > 0 => now > last_rotation'
        /\ \A k \in DOMAIN observed : observed[k].at <= last_rotation' + RotationInterval
        /\ \A i \in BucketIds :
             /\ ResetAt(last_rotation', current_bucket', i) \in Int
             /\ ResetAt(last_rotation', current_bucket', i) <= 0 \/ now > ResetAt(last_rotation', current_bucket', i)
             /\ Holds(observed, ResetAt(last_rotation', current_bucket', i), RotatedBuckets[i])
    BY <1>1, <2>2, Rotated
  <2>4. /\ RightWindow(observed, r) /\ r.seen \in Nat /\ r.items \in Nat /\ r.value \in Int \cup {NoValue}
        /\ Holds(observed, ResetAt(last_rotation', i0, i0), Flush(quantiles, e))
    <3>1. PICK l : l = last_rotation'
      OBVIOUS
    <3>2. /\ quantiles \in Seq(Quantile) /\ observed \in Seq(Observation) /\ i0 \in BucketIds
          /\ now \in Nat /\ l \in Nat /\ l <= now /\ now <= l + RotationInterval /\ (l > 0 => now > l)
          /\ Holds(observed, ResetAt(l, i0, i0), e)
      BY <1>2, <2>1, <2>2, <2>3, <3>1
    <3>3. /\ RightWindow(observed, r) /\ r.seen \in Nat /\ r.items \in Nat /\ r.value \in Int \cup {NoValue}
          /\ Holds(observed, ResetAt(l, i0, i0), Flush(quantiles, e))
      BY <2>1, <3>2, TakenRight
    <3>4. QED
      BY <3>1, <3>3
  <2>5. BucketInv'
    <3>1. ASSUME NEW i \in BucketIds
          PROVE  Holds(observed', ResetAt(last_rotation', current_bucket', i), ckms_quantiles'[i])
      <4>1. DOMAIN RotatedBuckets = BucketIds
        BY DEF RotatedBuckets
      <4>2. CASE i = i0
        BY <2>2, <2>4, <4>1, <4>2
      <4>3. CASE i # i0
        <5>1. ckms_quantiles'[i] = RotatedBuckets[i]
          BY <2>2, <4>1, <4>3
        <5>2. QED
          BY <2>2, <2>3, <5>1
      <4>4. QED
        BY <4>2, <4>3
    <3>2. QED
      BY <3>1 DEF BucketInv, BucketIds
  <2>6. ClockInv'
    BY <2>2, <2>3 DEF ClockInv
  <2>7. SummaryTypeOK'
    <3>1. ckms_quantiles' \in [BucketIds -> Estimator(Int)]
      <4>1. \A i \in BucketIds : ckms_quantiles'[i] \in Estimator(Int)
        BY <1>2, <2>2, <2>5, HoldsEstimator DEF BucketInv, BucketIds
      <4>2. DOMAIN ckms_quantiles' = BucketIds /\ ckms_quantiles' = [i \in BucketIds |-> ckms_quantiles'[i]]
        BY <2>2 DEF RotatedBuckets
      <4>3. QED
        BY <4>1, <4>2
    <3>2. now' \in 0 .. MaxTime /\ last_rotation' \in 0 .. now'
      BY <1>2, <1>3, <2>2, <2>3
    <3>3. collecting' \in Seq(Result)
      <4>1. Len(collecting) + 1 \in 1 .. Len(quantiles)
        BY <1>2, <2>2, LenProperties
      <4>2. q \in Quantile
        BY <1>2, <2>1, <4>1, ElementOfSeq
      <4>3. r.quantile = q /\ r.at = now
        BY <2>1
      <4>4. r \in Result
        <5>1. \E g, n, k : r = [quantile |-> q, value |-> g, at |-> now, seen |-> n, items |-> k]
          BY <2>1
        <5>2. QED
          BY <1>2, <2>4, <4>2, <5>1 DEF Result
      <4>5. QED
        BY <1>2, <2>2, <4>4, AppendProperties
    <3>4. QED
      BY <1>2, <2>2, <2>3, <3>1, <3>2, <3>3 DEF SummaryTypeOK, Observation, BucketIds
  <2>8. WindowSlides'
    <3>1. Range(collecting') = Range(collecting) \cup {r}
      BY <1>2, <2>2, RangeAppend
    <3>2. \A s \in Range(collecting) : RightWindow(observed, s)
      BY <1>1, WindowsRight
    <3>3. \A s \in Range(collecting') : RightWindow(observed', s)
      BY <2>2, <2>4, <3>1, <3>2
    <3>4. QED
      BY <3>3 DEF WindowSlides, Results, RightWindow, NotOlder, NoOlder
  <2>9. QED
    BY <2>2, <2>5, <2>6, <2>7, <2>8 DEF SummaryInv
<1>6. ASSUME StartCollect PROVE SummaryInv'
  BY <1>1, <1>6
     DEF StartCollect, SummaryInv, SummaryTypeOK, ClockInv, BucketInv, WindowSlides, Results, NotOlder
<1>7. ASSUME FinishCollect PROVE SummaryInv'
  <2>1. WindowSlides'
    BY <1>7 DEF FinishCollect, WindowSlides, Results, Range
  <2>2. << >> \in Seq(Result)
    OBVIOUS
  <2>3. QED
    BY <1>1, <1>7, <2>1, <2>2 DEF FinishCollect, SummaryInv, SummaryTypeOK, ClockInv, BucketInv
<1>8. ASSUME Tick PROVE SummaryInv'
  <2>1. /\ now' = now + 1 /\ now < MaxTime
        /\ quantiles' = quantiles /\ ckms_quantiles' = ckms_quantiles /\ current_bucket' = current_bucket
        /\ last_rotation' = last_rotation /\ count' = count /\ sum' = sum
        /\ busy' = busy /\ collecting' = collecting /\ observed' = observed
    BY <1>8 DEF Tick
  <2>2. now' \in 0 .. MaxTime /\ last_rotation' \in 0 .. now'
    BY <1>2, <1>3, <2>1
  <2>3. SummaryTypeOK'
    BY <1>1, <2>1, <2>2 DEF SummaryTypeOK
  <2>4. ClockInv'
    BY <1>1, <1>2, <2>1 DEF ClockInv
  <2>5. BucketInv' /\ WindowSlides'
    BY <1>1, <2>1 DEF BucketInv, WindowSlides, Results, NotOlder
  <2>6. QED
    BY <1>1, <2>1, <2>3, <2>4, <2>5 DEF SummaryInv
<1>9. ASSUME UNCHANGED summaryVars PROVE SummaryInv'
  BY <1>1, <1>9
     DEF summaryVars, SummaryInv, SummaryTypeOK, ClockInv, BucketInv, WindowSlides, Results, NotOlder
<1>10. QED
  BY <1>4, <1>5, <1>6, <1>7, <1>8, <1>9 DEF SummaryNext

(* A summary is in the inductive invariant whatever is observed and        *)
(* collected, and whenever.                                                *)
THEOREM SummaryInvariant ==
  SummarySpec => []SummaryInv
<1>1. QED
  BY SummaryStarts, SummarySteps, PTL DEF SummarySpec

(* The summary's state is well typed; its buckets stay estimators, however *)
(* they are merged, compressed and reset (summary.cc, ckms_quantiles.cc).  *)
THEOREM SummaryTyped ==
  SummarySpec => []SummaryTypeOK
<1>1. SummaryInv => SummaryTypeOK
  BY DEF SummaryInv
<1>2. QED
  BY <1>1, SummaryInvariant, PTL

(* Whatever is inserted and however the sample is compressed, the sample   *)
(* of each bucket stays sorted and its g add up to the values it stands    *)
(* for (ckms_quantiles.cc:88-150).                                         *)
THEOREM RanksCovered ==
  SummarySpec => []SampleCoversRanks
<1>1. SummaryInv => SampleCoversRanks
  <2> SUFFICES ASSUME SummaryInv, NEW i \in BucketIds
               PROVE  LET c == ckms_quantiles[i] IN
                        /\ \A j \in 2 .. Len(c.sample) : c.sample[j - 1].value <= c.sample[j].value
                        /\ RankOf(c.sample, Len(c.sample)) = c.count
    BY DEF SampleCoversRanks
  <2>1. PICK W, c : c = ckms_quantiles[i] /\ Covers(W, c)
    BY DEF SummaryInv, BucketInv, Holds
  <2>2. c.sample \in Seq(Item(W)) /\ Ascending(ValuesOf(c.sample)) /\ RankOf(c.sample, Len(c.sample)) = c.count
    BY <2>1 DEF Covers, Estimator, Total
  <2>3. /\ Len(c.sample) \in Nat /\ ValuesOf(c.sample) \in [1 .. Len(c.sample) -> W]
        /\ \A j \in 1 .. Len(c.sample) : c.sample[j].value = ValuesOf(c.sample)[j]
    BY <2>2, ItemValues
  <2>4. \A j \in 2 .. Len(c.sample) :
          j \in 1 .. Len(c.sample) /\ j - 1 \in 1 .. Len(c.sample) /\ j - 1 <= j
    BY <2>3
  <2>5. \A j \in 2 .. Len(c.sample) : c.sample[j - 1].value <= c.sample[j].value
    BY <2>2, <2>3, <2>4, Zenon DEF Ascending
  <2>6. QED
    BY <2>1, <2>2, <2>5
<1>2. QED
  BY <1>1, SummaryInvariant, PTL

(* A quantile is taken over the observations of its window, however late   *)
(* the rotations are done and however many at a time, and is one of them   *)
(* (time_window_quantiles.cc:18-43).                                       *)
THEOREM WindowSliding ==
  SummarySpec => []WindowSlides
<1>1. SummaryInv => WindowSlides
  BY DEF SummaryInv
<1>2. QED
  BY <1>1, SummaryInvariant, PTL
-----------------------------------------------------------------------------
(* What a Collect that goes on has gathered from the present window was    *)
(* taken from the current estimator, which since then was at most          *)
(* compressed; if it has as many items still, it would return the same.    *)
GatheredInv ==
  LET c == ckms_quantiles[current_bucket] IN
    \A r \in Results :
      /\ r.at \in Nat /\ r.at <= now
      /\ r.at = now =>
           /\ now <= last_rotation + RotationInterval
           /\ c.buffer = << >> /\ r.seen = c.count
           /\ Len(c.sample) <= r.items
           /\ Len(c.sample) = r.items => r.value = Get(quantiles, c, r.quantile)

(* There is nothing to rotate within an interval of the last rotation.     *)
LEMMA NothingToRotate ==
  ASSUME SummaryTypeOK, now <= last_rotation + RotationInterval
  PROVE  RotatedBuckets = ckms_quantiles /\ RotatedCurrent = current_bucket
<1>1. PICK l, n, d : l = last_rotation /\ n = now /\ d = RotationInterval
  OBVIOUS
<1>2. l \in Nat /\ n \in Nat /\ d \in Nat \ {0} /\ l <= n /\ n <= l + d
  BY <1>1, SummaryTypes, SummaryAssumption
<1>3. Rotations = 0
  <2>1. CASE n = l
    BY <1>1, <2>1 DEF Rotations
  <2>2. CASE n # l
    <3>1. (n - l - 1) \div d = 0
      BY <1>2, <2>2
    <3>2. QED
      BY <1>1, <2>2, <3>1 DEF Rotations
  <2>3. QED
    BY <2>1, <2>2
<1>4. current_bucket \in Nat /\ current_bucket < AgeBuckets /\ AgeBuckets \in Nat \ {0}
      /\ ckms_quantiles \in [BucketIds -> Estimator(Int)]
  BY SummaryAssumption, SummaryTypes DEF BucketIds
<1>5. (current_bucket + 0) % AgeBuckets = current_bucket
  BY <1>4
<1>6. Reset = {}
  BY <1>3 DEF Reset
<1>7. RotatedBuckets = [i \in BucketIds |-> ckms_quantiles[i]]
  BY <1>6 DEF RotatedBuckets
<1>8. QED
  BY <1>3, <1>4, <1>5, <1>7 DEF RotatedCurrent

(* A flush with an empty buffer only compresses.                           *)
LEMMA FlushAgain ==
  ASSUME NEW quants \in Seq(Quantile), NEW W \in SUBSET Int, NEW c, Covers(W, c),
         c.buffer = << >>, NEW r, r = Flush(quants, c)
  PROVE  /\ Covers(W, r) /\ r.buffer = << >> /\ r.count = c.count
         /\ Len(r.sample) <= Len(c.sample)
         /\ Len(r.sample) = Len(c.sample) => r = c
<1>1. InsertBatch(quants, c) = c
  BY DEF InsertBatch
<1>2. r = Compress(quants, c)
  BY <1>1 DEF Flush
<1>3. QED
  BY <1>2, CompressCovers

(* What QuantilesMonotone says of two of the quantiles that were gathered. *)
InOrder(r1, r2) ==
  (/\ r1.at = r2.at /\ r1.items = r2.items /\ r1.seen > 0 /\ r2.seen > 0
   /\ r1.quantile.num * r2.quantile.den < r2.quantile.num * r1.quantile.den) =>
    r1.value <= r2.value

(* It is about each two of them. *)
LEMMA OrderPairs ==
  QuantilesMonotone <=> (ModestErrors => \A r1, r2 \in Range(collecting) : InOrder(r1, r2))
BY DEF QuantilesMonotone, Results, InOrder

(* Collecting one more quantile keeps both.                                *)
LEMMA GatherStep ==
  ASSUME SummaryInv, GatheredInv, QuantilesMonotone, CollectQuantile
  PROVE  GatheredInv' /\ QuantilesMonotone'
<1>1. /\ SummaryTypeOK /\ ClockInv /\ BucketInv
  BY DEF SummaryInv
<1>2. /\ quantiles \in Seq(Quantile) /\ observed \in Seq(Observation)
      /\ now \in Nat /\ current_bucket \in BucketIds /\ collecting \in Seq(Result)
      /\ ckms_quantiles \in [BucketIds -> Estimator(Int)]
  BY <1>1, SummaryTypes
<1>3. PICK q, i, e, f, r :
        /\ q = quantiles[Len(collecting) + 1]
        /\ i = RotatedCurrent /\ e = RotatedBuckets[i] /\ f = Flush(quantiles, e)
        /\ r = [quantile |-> q, value |-> Get(quantiles, f, q),
                at |-> now, seen |-> f.count, items |-> Len(f.sample)]
  OBVIOUS
<1>4. /\ Len(collecting) < Len(quantiles) /\ Rotate
      /\ ckms_quantiles' = [RotatedBuckets EXCEPT ![i] = f]
      /\ collecting' = Append(collecting, r)
      /\ quantiles' = quantiles /\ now' = now /\ current_bucket' = i
  BY <1>3 DEF CollectQuantile, Rotate
<1>5. /\ r.quantile = q /\ r.value = Get(quantiles, f, q)
      /\ r.at = now /\ r.seen = f.count /\ r.items = Len(f.sample)
  BY <1>3
<1>6. /\ i \in BucketIds /\ last_rotation' \in Nat /\ now <= last_rotation' + RotationInterval
      /\ ResetAt(last_rotation', i, i) \in Int
      /\ Holds(observed, ResetAt(last_rotation', i, i), e)
  BY <1>1, <1>3, <1>4, Rotated
<1>7. PICK W : W \in SUBSET Int /\ Covers(W, e)
  <2>1. ValuesIn(observed, KeptSince(observed, ResetAt(last_rotation', i, i))) \in SUBSET Int
    BY <1>2, KeptFinite
  <2>2. QED
    BY <1>6, <2>1 DEF Holds
<1>8. Covers(W, f) /\ f.buffer = << >>
  BY <1>2, <1>3, <1>7, FlushCovers
<1>9. f.count \in Nat /\ Len(f.sample) \in Nat
  BY <1>8, LenProperties DEF Covers, Estimator
<1>10. q \in Quantile
  <2>1. Len(collecting) + 1 \in 1 .. Len(quantiles)
    BY <1>2, <1>4, LenProperties
  <2>2. QED
    BY <1>2, <1>3, <2>1, ElementOfSeq
<1>11. ckms_quantiles'[i] = f
  BY <1>4, <1>6 DEF RotatedBuckets
<1>12. Range(collecting') = Range(collecting) \cup {r}
  BY <1>2, <1>4, RangeAppend
<1>13. \A s \in Range(collecting) :
         s.quantile \in Quantile /\ s.items \in Nat /\ s.seen \in Nat
  <2>1. \A s \in Range(collecting) : s \in Result
    BY <1>2, RangeOfSeq DEF Range
  <2>2. QED
    BY <2>1 DEF Result
<1>14. ASSUME NEW s \in Range(collecting), s.at = now
       PROVE  /\ s.seen = f.count /\ Len(f.sample) <= s.items
              /\ Len(f.sample) = s.items => s.value = Get(quantiles, f, s.quantile)
  <2>1. PICK c : c = ckms_quantiles[current_bucket]
    OBVIOUS
  <2>2. /\ now <= last_rotation + RotationInterval
        /\ c.buffer = << >> /\ s.seen = c.count /\ Len(c.sample) <= s.items
        /\ Len(c.sample) = s.items => s.value = Get(quantiles, c, s.quantile)
    BY <1>14, <2>1 DEF GatheredInv, Results
  <2>3. e = c
    BY <1>1, <1>3, <2>1, <2>2, NothingToRotate
  <2>4. /\ f.count = c.count /\ Len(f.sample) <= Len(c.sample)
        /\ Len(f.sample) = Len(c.sample) => f = c
    <3>1. Covers(W, c) /\ c.buffer = << >> /\ f = Flush(quantiles, c)
      BY <1>3, <1>7, <2>2, <2>3
    <3>2. PICK quants : quants = quantiles /\ quants \in Seq(Quantile)
      BY <1>2
    <3>3. f = Flush(quants, c) /\ W \in SUBSET Int
      BY <1>7, <3>1, <3>2
    <3>4. f.count = c.count
      BY <3>1, <3>2, <3>3, FlushAgain
    <3>5. Len(f.sample) <= Len(c.sample)
      BY <3>1, <3>2, <3>3, FlushAgain
    <3>6. QED
      BY <3>1, <3>2, <3>3, <3>4, <3>5, FlushAgain
  <2>5. Len(c.sample) \in Nat
    BY <1>7, <2>3, LenProperties DEF Covers, Estimator
  <2>6. Len(f.sample) <= s.items
    BY <1>9, <1>13, <2>2, <2>4, <2>5
  <2>7. ASSUME Len(f.sample) = s.items PROVE f = c /\ Len(c.sample) = s.items
    BY <1>9, <1>13, <2>2, <2>4, <2>5, <2>7
  <2>8. QED
    BY <2>2, <2>4, <2>6, <2>7
<1>15. GatheredInv'
  <2>1. ASSUME NEW s \in Range(collecting')
        PROVE  /\ s.at \in Nat /\ s.at <= now
               /\ s.at = now =>
                    /\ now <= last_rotation' + RotationInterval
                    /\ f.buffer = << >> /\ s.seen = f.count
                    /\ Len(f.sample) <= s.items
                    /\ Len(f.sample) = s.items => s.value = Get(quantiles, f, s.quantile)
    <3>1. CASE s = r
      <4>1. Len(f.sample) <= Len(f.sample) /\ now <= now
        BY <1>2, <1>9
      <4>2. QED
        BY <1>2, <1>5, <1>6, <1>8, <3>1, <4>1
    <3>2. CASE s \in Range(collecting)
      <4>1. s.at \in Nat /\ s.at <= now
        BY <3>2 DEF GatheredInv, Results
      <4>2. QED
        BY <1>6, <1>8, <1>14, <3>2, <4>1
    <3>3. QED
      BY <1>12, <3>1, <3>2
  <2>2. QED
    BY <1>4, <1>11, <2>1 DEF GatheredInv, Results
<1>16. QuantilesMonotone'
  <2>1. ASSUME ModestErrors PROVE \A s, t \in Range(collecting') : InOrder(s, t)
    <3>1. \A x \in Range(quantiles) : x.u <= 2 * Scale
      BY <2>1 DEF ModestErrors
    <3>2. \A s, t \in Range(collecting) : InOrder(s, t)
      BY <2>1, OrderPairs
    <3>3. ASSUME NEW s, NEW t, s.seen = f.count, t.seen = f.count,
                 s.quantile \in Quantile, t.quantile \in Quantile,
                 s.value = Get(quantiles, f, s.quantile), t.value = Get(quantiles, f, t.quantile)
          PROVE  InOrder(s, t)
      <4> SUFFICES ASSUME f.count > 0,
                          s.quantile.num * t.quantile.den < t.quantile.num * s.quantile.den
                   PROVE  Get(quantiles, f, s.quantile) <= Get(quantiles, f, t.quantile)
        BY <3>3 DEF InOrder
      <4>1. QED
        BY <1>2, <1>7, <1>8, <3>1, <3>3, GetOrder
    <3>4. ASSUME NEW s \in Range(collecting') PROVE
            s.at = now /\ s.items = r.items =>
              /\ s.seen = f.count /\ s.quantile \in Quantile
              /\ s.value = Get(quantiles, f, s.quantile)
      BY <1>5, <1>10, <1>12, <1>13, <1>14
    <3>5. ASSUME NEW s \in Range(collecting'), NEW t \in Range(collecting'),
                 s = r \/ t = r
          PROVE  InOrder(s, t)
      <4>1. r \in Range(collecting')
        BY <1>12
      <4>2. CASE s.at = t.at /\ s.items = t.items
        <5>1. s.at = now /\ t.at = now /\ s.items = r.items /\ t.items = r.items
          BY <1>5, <3>5, <4>2
        <5>2. QED
          BY <3>3, <3>4, <5>1
      <4>3. CASE ~(s.at = t.at /\ s.items = t.items)
        BY <4>3 DEF InOrder
      <4>4. QED
        BY <4>2, <4>3
    <3>6. QED
      BY <1>12, <3>2, <3>5
  <2>2. ModestErrors' => ModestErrors
    BY <1>4 DEF ModestErrors
  <2>3. QED
    BY <2>1, <2>2 DEF QuantilesMonotone, Results, InOrder
<1>17. QED
  BY <1>15, <1>16

(* Of the quantiles that a Collect takes from one sample the greater is    *)
(* not less, whatever was observed and however time passes in between      *)
(* (ckms_quantiles.cc:36-66, summary.cc:28-33).  An observation, and the   *)
(* end of a Collect, find or leave nothing gathered, and time makes what   *)
(* was gathered old.                                                       *)
THEOREM QuantilesInOrder ==
  SummarySpec => []QuantilesMonotone
<1>1. SummaryInit => GatheredInv /\ QuantilesMonotone
  BY DEF SummaryInit, GatheredInv, QuantilesMonotone, Results, Range
<1>2. ASSUME SummaryInv, GatheredInv, QuantilesMonotone, [SummaryNext]_summaryVars
      PROVE  GatheredInv' /\ QuantilesMonotone'
  <2>1. ASSUME collecting' = << >> PROVE GatheredInv' /\ QuantilesMonotone'
    BY <2>1 DEF GatheredInv, QuantilesMonotone, Results, Range
  <2>2. ~busy => collecting = << >>
    BY <1>2 DEF SummaryInv
  <2>3. ASSUME NEW v \in Values, Observe(v) PROVE GatheredInv' /\ QuantilesMonotone'
    BY <2>1, <2>2, <2>3 DEF Observe
  <2>4. ASSUME StartCollect PROVE GatheredInv' /\ QuantilesMonotone'
    BY <2>1, <2>2, <2>4 DEF StartCollect
  <2>5. ASSUME CollectQuantile PROVE GatheredInv' /\ QuantilesMonotone'
    BY <1>2, <2>5, GatherStep
  <2>6. ASSUME FinishCollect PROVE GatheredInv' /\ QuantilesMonotone'
    BY <2>1, <2>6 DEF FinishCollect
  <2>7. ASSUME Tick PROVE GatheredInv' /\ QuantilesMonotone'
    <3>1. now' = now + 1 /\ collecting' = collecting /\ quantiles' = quantiles
      BY <2>7 DEF Tick
    <3>2. now \in Nat
      BY <1>2, SummaryTypes DEF SummaryInv
    <3>3. ASSUME NEW r \in Range(collecting) PROVE r.at \in Nat /\ r.at <= now' /\ r.at # now'
      <4>1. r.at \in Nat /\ r.at <= now
        BY <1>2 DEF GatheredInv, Results
      <4>2. QED
        BY <3>1, <3>2, <4>1
    <3>4. QuantilesMonotone'
      BY <1>2, <3>1 DEF QuantilesMonotone, ModestErrors, Results
    <3>5. QED
      BY <3>1, <3>3, <3>4 DEF GatheredInv, Results
  <2>8. ASSUME UNCHANGED summaryVars PROVE GatheredInv' /\ QuantilesMonotone'
    BY <1>2, <2>8 DEF summaryVars, GatheredInv, QuantilesMonotone, ModestErrors, Results
  <2>9. QED
    BY <1>2, <2>3, <2>4, <2>5, <2>6, <2>7, <2>8 DEF SummaryNext
<1>3. QED
  BY <1>1, <1>2, SummaryInvariant, PTL DEF SummarySpec
==============================================================================
