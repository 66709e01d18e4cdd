---------------------------- MODULE CKMSQuantiles ----------------------------
(***************************************************************************)
(* The quantile estimator of prometheus-cpp (ckms_quantiles.cc): a sorted  *)
(* sample of [value, g, delta] that stands for all the values inserted,    *)
(* and a buffer of values that are not yet merged into it.  All operators  *)
(* are pure: an estimator is a value.                                      *)
(*                                                                         *)
(* The doubles u and v of a quantile are integers in units of 1/Scale.     *)
(* Observations are small integers, and so few that no comparison depends  *)
(* on how a double rounds.                                                 *)
(***************************************************************************)
EXTENDS Integers, Sequences, SequencesExt, FiniteSetsExt

CONSTANTS
  Scale,       \* the unit of u, v and the errors
  BufferSize,  \* the length of buffer_ (500 in the code)
  NoValue      \* NaN: the quantile of no observations

ASSUME CKMSAssumption == Scale \in Nat \ {0} /\ BufferSize \in Nat \ {0}

(* CKMSQuantiles::Quantile: q = num / den, which "must be in the interval  *)
(* [0, 1]" (summary.h:54-55), its error, and what the constructor makes of *)
(* them: u = 2 * error / (1 - q) and v = 2 * error / q.  The ends of the   *)
(* interval, where it divides by zero, are left out.                       *)
Quantile ==
  {q \in [num : Nat, den : Nat \ {0}, error : Nat, u : Nat, v : Nat] :
     /\ 0 < q.num /\ q.num < q.den
     /\ q.u * (q.den - q.num) = 2 * q.error * q.den
     /\ q.v * q.num = 2 * q.error * q.den}

(* CKMSQuantiles::Item, with a value of W. *)
Item(W) == [value : W, g : Nat \ {0}, delta : Nat]

(* An estimator of values of W. *)
Estimator(W) == [sample : Seq(Item(W)), count : Nat, buffer : Seq(W)]

Empty == [sample |-> << >>, count |-> 0, buffer |-> << >>]

(* allowableError, which measures ranks against the size of the sample and *)
(* not against the number of values it stands for.                         *)
AllowableError(quantiles, s, rank) ==
  Min({(Len(s) + 1) * Scale} \cup
      {IF rank * q.den <= q.num * Len(s) THEN q.u * (Len(s) - rank) ELSE q.v * rank :
         q \in Range(quantiles)})

(* Wrong variant: the scan stops one item late. *)
PlaceLate(s, idx, v) ==
  Min({j \in idx..Len(s) : j = Len(s) \/ s[j].value >= v})

(* Where insertBatch's scan, which has come to idx, puts v: behind that    *)
(* many items.                                                             *)
Place(s, idx, v) ==
  LET stop == Min({j \in idx..Len(s) : j = Len(s) \/ s[j].value >= v})
  IN  IF s[stop].value > v THEN stop - 1 ELSE stop

(* The uncertainty of the rank of a value put behind place items.          *)
Delta(quantiles, s, place) ==
  IF place = 1 \/ place + 1 = Len(s) THEN 0
  ELSE AllowableError(quantiles, s, place + 1) \div Scale + 1

(* One turn of insertBatch's scan: the item for v is put in its place, and *)
(* the scan goes on from there.                                            *)
Merge(quantiles, scan, v) ==
  LET place == Place(scan.sample, scan.idx, v)
      item  == [value |-> v, g |-> 1, delta |-> Delta(quantiles, scan.sample, place)]
  IN  [sample |-> InsertAt(scan.sample, place + 1, item), idx |-> place + 1]

(* std::sort of the buffer. *)
InsertSorted(t, v) ==
  InsertAt(t, Min({j \in 1..(Len(t) + 1) : j = Len(t) + 1 \/ t[j] > v}), v)

Sorted(s) == FoldLeft(InsertSorted, << >>, s)

(* insertBatch: sort the buffer and merge it into the sample in one scan.  *)
InsertBatch(quantiles, c) ==
  IF c.buffer = << >> THEN c
  ELSE
    LET values == Sorted(c.buffer)
        first  == c.sample = << >>
        start  == [sample |-> IF first THEN <<[value |-> Head(values), g |-> 1, delta |-> 0]>>
                              ELSE c.sample,
                   idx |-> 1]
        scan   == FoldLeft(LAMBDA t, v : Merge(quantiles, t, v), start,
                           IF first THEN Tail(values) ELSE values)
    IN  [sample |-> scan.sample, count |-> c.count + Len(values), buffer |-> << >>]

(* An item absorbs the one before it when their joint uncertainty is       *)
(* allowed.                                                                *)
MayAbsorb(quantiles, s, i) ==
  i < Len(s) /\ (s[i].g + s[i + 1].g + s[i + 1].delta) * Scale <= AllowableError(quantiles, s, i)

(* Wrong variant: an absorbed item takes its rank with it. *)
AbsorbForgetful(quantiles, s, i) ==
  IF MayAbsorb(quantiles, s, i) THEN RemoveAt(s, i) ELSE s

Absorb(quantiles, s, i) ==
  IF MayAbsorb(quantiles, s, i) THEN RemoveAt([s EXCEPT ![i + 1].g = @ + s[i].g], i) ELSE s

(* compress: the index moves on also when an item was erased, so the scan  *)
(* then skips a pair.                                                      *)
Compressed(quantiles, s) ==
  FoldLeft(LAMBDA t, i : Absorb(quantiles, t, i), s, [i \in 1..(Len(s) - 1) |-> i])

Compress(quantiles, c) == [c EXCEPT !.sample = Compressed(quantiles, c.sample)]

Flush(quantiles, c) == Compress(quantiles, InsertBatch(quantiles, c))

Insert(quantiles, c, v) ==
  LET filled == [c EXCEPT !.buffer = Append(@, v)]
  IN  IF Len(filled.buffer) = BufferSize THEN Flush(quantiles, filled) ELSE filled

(* The sum of the g of the first n items. *)
RankOf(s, n) == FoldLeft(LAMBDA sum, item : sum + item.g, 0, SubSeq(s, 1, n))

(* get, of an estimator that is flushed: the item before the first one     *)
(* whose greatest rank is beyond the bound.                                *)
Get(quantiles, c, q) ==
  IF c.sample = << >> THEN NoValue
  ELSE
    LET s       == c.sample
        desired == (q.num * c.count) \div q.den
        bound   == 2 * desired * Scale + AllowableError(quantiles, s, desired)
        beyond  == {i \in 2..Len(s) : 2 * Scale * (RankOf(s, i) + s[i].delta) > bound}
    IN  IF beyond = {} THEN Last(s).value ELSE s[Min(beyond) - 1].value
=============================================================================
