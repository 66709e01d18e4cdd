------------------------------- MODULE Summary -------------------------------
(***************************************************************************)
(* prometheus-cpp's Summary (summary.cc) with its sliding window of        *)
(* quantile estimators (time_window_quantiles.cc).  The exposer's handler  *)
(* observes the latency of each scrape in one.                             *)
(*                                                                         *)
(* Observe runs under the summary's mutex and reads the clock once, so it  *)
(* is one step.  Collect holds the mutex too, but reads the clock once for *)
(* each quantile: a step for each, between which time may pass.            *)
(***************************************************************************)
EXTENDS CKMSQuantiles

CONSTANTS
  QuantileLists,    \* the lists of quantiles a summary may be built with
  AgeBuckets,       \* age_buckets (5 in the code)
  RotationInterval, \* max_age / age_buckets, in ticks of the clock
  Values,           \* what is observed
  MaxObservations,  \* bound: how many observations there are
  MaxTime           \* bound: how long the clock runs

ASSUME SummaryAssumption ==
  /\ QuantileLists \subseteq Seq(Quantile)
  /\ AgeBuckets \in Nat \ {0} /\ RotationInterval \in Nat \ {0}
  /\ Values \subseteq Int
  /\ MaxObservations \in Nat /\ MaxTime \in Nat

VARIABLES
  quantiles,      \* quantiles_, fixed when the summary is built
  ckms_quantiles, \* an estimator for each age bucket, from 0
  current_bucket,
  last_rotation,
  now,            \* the steady clock
  count, sum,     \* count_ and sum_
  busy,           \* a Collect holds mutex_
  collecting,     \* what it has gathered
  observed        \* history: the observations and when they were made

summaryVars == <<quantiles, ckms_quantiles, current_bucket, last_rotation, now, count, sum,
                 busy, collecting, observed>>

BucketIds == 0..(AgeBuckets - 1)

SummaryInit ==
  /\ quantiles \in QuantileLists
  /\ ckms_quantiles = [i \in BucketIds |-> Empty]
  /\ current_bucket = 0
  /\ last_rotation = 0
  /\ now = 0
  /\ count = 0 /\ sum = 0
  /\ busy = FALSE /\ collecting = << >>
  /\ observed = << >>
-----------------------------------------------------------------------------
(* Wrong variant: at most one rotation, however much time has passed. *)
RotationsAtMostOne == IF now - last_rotation > RotationInterval THEN 1 ELSE 0

(* Wrong variant: a rotation once the interval has been entered. *)
RotationsEager == (now - last_rotation + RotationInterval - 1) \div RotationInterval

(* How often rotate's loop runs: until the rest is at most an interval.    *)
Rotations ==
  IF now = last_rotation THEN 0 ELSE (now - last_rotation - 1) \div RotationInterval

(* Each turn resets the bucket that was the current one. *)
Reset == {(current_bucket + j) % AgeBuckets : j \in 0..(Rotations - 1)}

RotatedBuckets == [i \in BucketIds |-> IF i \in Reset THEN Empty ELSE ckms_quantiles[i]]
RotatedCurrent == (current_bucket + Rotations) % AgeBuckets

Rotate ==
  /\ current_bucket' = RotatedCurrent
  /\ last_rotation' = last_rotation + Rotations * RotationInterval

(* Summary::Observe: every bucket gets the value. *)
Observe(v) ==
  /\ ~busy /\ Len(observed) < MaxObservations
  /\ Rotate
  /\ ckms_quantiles' = [i \in BucketIds |-> Insert(quantiles, RotatedBuckets[i], v)]
  /\ count' = count + 1 /\ sum' = sum + v
  /\ observed' = Append(observed, [value |-> v, at |-> now])
  /\ UNCHANGED <<quantiles, now, busy, collecting>>

StartCollect ==
  /\ ~busy
  /\ busy' = TRUE
  /\ UNCHANGED <<quantiles, ckms_quantiles, current_bucket, last_rotation, now, count, sum,
                 collecting, observed>>

(* TimeWindowQuantiles::get for the next quantile.  The history fields say *)
(* when, how many observations the estimator stood for, and by how many    *)
(* items.                                                                  *)
CollectQuantile ==
  /\ busy /\ Len(collecting) < Len(quantiles)
  /\ Rotate
  /\ LET q       == quantiles[Len(collecting) + 1]
         flushed == Flush(quantiles, RotatedBuckets[RotatedCurrent])
     IN  /\ ckms_quantiles' = [RotatedBuckets EXCEPT ![RotatedCurrent] = flushed]
         /\ collecting' = Append(collecting, [quantile |-> q, value |-> Get(quantiles, flushed, q),
                                              at |-> now, seen |-> flushed.count,
                                              items |-> Len(flushed.sample)])
  /\ UNCHANGED <<quantiles, now, count, sum, busy, observed>>

(* The end of Collect, which also reports count_ and sum_. *)
FinishCollect ==
  /\ busy /\ Len(collecting) = Len(quantiles)
  /\ busy' = FALSE /\ collecting' = << >>
  /\ UNCHANGED <<quantiles, ckms_quantiles, current_bucket, last_rotation, now, count, sum, observed>>

Tick ==
  /\ now < MaxTime
  /\ now' = now + 1
  /\ UNCHANGED <<quantiles, ckms_quantiles, current_bucket, last_rotation, count, sum,
                 busy, collecting, observed>>

SummaryNext ==
  \/ \E v \in Values : Observe(v)
  \/ StartCollect \/ CollectQuantile \/ FinishCollect
  \/ Tick

SummarySpec == SummaryInit /\ [][SummaryNext]_summaryVars
-----------------------------------------------------------------------------
Result ==
  [quantile : Quantile, value : Int \cup {NoValue}, at : Nat, seen : Nat, items : Nat]

SummaryTypeOK ==
  /\ quantiles \in QuantileLists
  /\ ckms_quantiles \in [BucketIds -> Estimator(Int)]
  /\ current_bucket \in BucketIds
  /\ last_rotation \in 0..now /\ now \in 0..MaxTime
  /\ count \in Nat /\ sum \in Int
  /\ busy \in BOOLEAN /\ collecting \in Seq(Result)
  /\ observed \in Seq([value : Values, at : 0..MaxTime])

(* An estimator's sample is sorted and its g add up to the values it       *)
(* stands for: merging and compressing lose no rank                        *)
(* (ckms_quantiles.cc:88-150).                                             *)
SampleCoversRanks ==
  \A i \in BucketIds :
    LET c == ckms_quantiles[i] IN
      /\ \A j \in 2..Len(c.sample) : c.sample[j - 1].value <= c.sample[j].value
      /\ RankOf(c.sample, Len(c.sample)) = c.count

(* What a Collect has gathered so far. *)
Results == Range(collecting)

NotOlder(age, time) == {i \in DOMAIN observed : time - observed[i].at <= age}

(* A quantile is taken over a window: of no observation above max_age old, *)
(* of all that are not older than max_age less one interval, whenever the  *)
(* rotations, done late and several at a time, were last done; and it is   *)
(* one of them, or NaN when there are none                                 *)
(* (time_window_quantiles.cc:18-43, summary.h:62-64).                      *)
WindowSlides ==
  \A r \in Results :
    LET kept   == NotOlder(AgeBuckets * RotationInterval, r.at)
        recent == NotOlder((AgeBuckets - 1) * RotationInterval, r.at)
    IN  /\ r.seen \in Cardinality(recent)..Cardinality(kept)
        /\ IF r.seen = 0 THEN r.value = NoValue
           ELSE r.value \in {observed[i].value : i \in kept}

(* Errors at most 1 - q, as the handler's are (handler.cc:48): an allowed  *)
(* error then grows by at most twice what the rank falls.                  *)
ModestErrors == \A q \in Range(quantiles) : q.u <= 2 * Scale

(* Quantiles that a Collect took from one sample are in order: p50 is not  *)
(* above p90.  They need not be when the window moved between them, or     *)
(* when the second one compressed the sample further, as each get does     *)
(* (ckms_quantiles.cc:36-66, summary.cc:28-33).                            *)
QuantilesMonotone ==
  ModestErrors =>
    \A r1, r2 \in Results :
      (/\ r1.at = r2.at /\ r1.items = r2.items /\ r1.seen > 0 /\ r2.seen > 0
       /\ r1.quantile.num * r2.quantile.den < r2.quantile.num * r1.quantile.den) =>
        r1.value <= r2.value

(* "a Quantile{0.5, 0.1} means that the median should be returned with 10  *)
(* percent error" (summary.h:50-53): the value's rank among the n values   *)
(* of the window is within error * n of quantile * n, with one rank of     *)
(* grace for rounding.  Only a window that holds all observations is       *)
(* looked at.                                                              *)
QuantileWithinError ==
  \A r \in Results :
    r.seen = Len(observed) /\ r.seen > 0 =>
      \E rank \in 1..r.seen :
        /\ Cardinality({i \in DOMAIN observed : observed[i].value < r.value}) < rank
        /\ Cardinality({i \in DOMAIN observed : observed[i].value <= r.value}) >= rank
        /\ LET off == (rank * r.quantile.den - r.seen * r.quantile.num) * Scale
               allowed == (r.quantile.error * r.seen + Scale) * r.quantile.den
           IN  off <= allowed /\ -off <= allowed
=============================================================================
