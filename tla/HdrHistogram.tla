------------------------------ MODULE HdrHistogram ------------------------------
(* ll::HdrLatencyHistogram<Buckets> (include/ll/hdr_histogram.hpp), a log2       *)
(* histogram of unsigned samples, next to the bag of samples it stands for.      *)
(* Percentages are in thousandths: 99.9% is 99900.                               *)
EXTENDS Integers, FiniteSetsExt, Functions

CONSTANTS
  Buckets,      \* the template parameter
  WordBits,     \* width of std::uint64_t, scaled down
  Values,       \* the samples that are recorded
  Percents,     \* the percentages that are asked for
  MaxCount      \* bound: samples recorded between two resets

\* 1ull << n; a function, for the provers know nothing of 2^n.
Pow2[n \in Nat] == IF n = 0 THEN 1 ELSE 2 * Pow2[n - 1]

Limit == Pow2[WordBits]

ASSUME HistogramAssumption ==
  /\ Buckets \in Nat \ {0, 1}
  /\ WordBits \in Nat \ {0}
  /\ Values \subseteq 0 .. Limit - 1
  /\ Percents \subseteq Int
  /\ MaxCount \in Nat

VARIABLES
  buckets_, count_, sum_, min_, max_,
  samples     \* history: how often each value was recorded since the last reset

vars == <<buckets_, count_, sum_, min_, max_, samples>>

Indices == 0 .. Buckets - 1

\* A faulty reset: min_ starts one above the largest word.
ClearedPastLimit ==
  [buckets |-> [i \in Indices |-> 0], count |-> 0, sum |-> 0,
   min |-> Limit, max |-> 0]

Cleared ==
  [buckets |-> [i \in Indices |-> 0], count |-> 0, sum |-> 0,
   min |-> Limit - 1, max |-> 0]

Init ==
  /\ buckets_ = Cleared.buckets
  /\ count_ = Cleared.count
  /\ sum_ = Cleared.sum
  /\ min_ = Cleared.min
  /\ max_ = Cleared.max
  /\ samples = [v \in Values |-> 0]

\* 63 - clz(v)
FloorLog2(v) == CHOOSE n \in 0 .. WordBits - 1 : Pow2[n] <= v /\ v < Pow2[n + 1]

\* A faulty index: the clamp to the last bucket is left out.
BucketIndexUnclamped(v) == IF v = 0 THEN 0 ELSE FloorLog2(v) + 1

BucketIndex(v) ==
  IF v = 0 THEN 0
  ELSE IF FloorLog2(v) + 1 < Buckets THEN FloorLog2(v) + 1 ELSE Buckets - 1

\* A faulty representative: the upper bound of the bucket.
BucketUpperBound(i) == IF i = 0 THEN 0 ELSE Pow2[i]

BucketRepresentative(i) ==
  IF i = 0 THEN 0 ELSE Pow2[i - 1] + (Pow2[i - 1] \div 2)

Record(v) ==
  /\ count_ < MaxCount
  /\ count_' = count_ + 1
  /\ min_' = Min({min_, v})
  /\ max_' = Max({max_, v})
  /\ sum_' = (sum_ + v) % Limit
  /\ buckets_' = [buckets_ EXCEPT ![BucketIndex(v)] = @ + 1]
  /\ samples' = [samples EXCEPT ![v] = @ + 1]

Reset ==
  /\ buckets_' = Cleared.buckets
  /\ count_' = Cleared.count
  /\ sum_' = Cleared.sum
  /\ min_' = Cleared.min
  /\ max_' = Cleared.max
  /\ samples' = [v \in Values |-> 0]

Next == Reset \/ \E v \in Values : Record(v)

Spec == Init /\ [][Next]_vars

--------------------------------------------------------------------------------
(* value_at_percentile(p), for the p that it answers *)

Answered == {p \in Percents : p > 0 /\ count_ > 0}

\* ceil(p / 100 * count) in doubles: p / 100 is rounded, so a product that is a
\* whole number may come out just above it and be rounded up once more.
Targets(p) ==
  LET product == Min({p, 100000}) * count_ IN
  IF product % 100000 # 0 THEN {product \div 100000 + 1}
  ELSE IF p >= 100000 THEN {count_}
  ELSE {product \div 100000, product \div 100000 + 1}

Seen(i) == SumFunctionOnSet(buckets_, 0..i)

\* A faulty scan: it wants more than the target.
ValueBeyond(target) ==
  LET enough == {i \in Indices : Seen(i) > target} IN
  IF enough = {} THEN max_ ELSE BucketRepresentative(Min(enough))

\* A faulty scan: it wants the target exactly.
ValueExactly(target) ==
  LET enough == {i \in Indices : Seen(i) = target} IN
  IF enough = {} THEN max_ ELSE BucketRepresentative(Min(enough))

\* The scan for the first bucket that brings the running total to the target.
ValueAt(target) ==
  LET enough == {i \in Indices : Seen(i) >= target} IN
  IF enough = {} THEN max_ ELSE BucketRepresentative(Min(enough))

--------------------------------------------------------------------------------
(* Properties *)

Total == SumFunction(samples)
Recorded == {v \in Values : samples[v] > 0}

\* The sample of rank r in the sorted samples: what a percentile is meant to be.
Ranked(r) == Min({v \in Values : SumFunctionOnSet(samples, {u \in Values : u <= v}) >= r})

\* Types of the fields.
TypeOK ==
  /\ buckets_ \in [Indices -> 0..MaxCount]
  /\ count_ \in 0..MaxCount
  /\ sum_ \in 0 .. Limit - 1
  /\ min_ \in 0 .. Limit - 1
  /\ max_ \in 0 .. Limit - 1
  /\ samples \in [Values -> 0..MaxCount]

\* However record and reset are interleaved, the five fields describe one and the
\* same bag of samples: nothing of an earlier window survives a reset, no sample
\* is in two buckets or in none, and the sum is exact up to its width.
FieldsAgree ==
  /\ count_ = Total
  /\ Seen(Buckets - 1) = count_
  /\ sum_ = SumFunction([v \in Values |-> v * samples[v]]) % Limit
  /\ Recorded # {} => min_ = Min(Recorded) /\ max_ = Max(Recorded)

\* A percentile is the representative of the very bucket that the sample of that
\* rank fell into: the scan over bucket counts never stops one bucket off, for
\* any percentage, any rounding and any distribution.
PercentileFindsRank ==
  \A p \in Answered : \A target \in Targets(p) :
    ValueAt(target) = BucketRepresentative(BucketIndex(Ranked(target)))

\* tests/test_industry_stack.cpp:76 in general: a higher percentage never gives a
\* lower value, whichever way the two products are rounded.
PercentilesMonotone ==
  \A p, q \in Answered : p < q =>
    \A s \in Targets(p), t \in Targets(q) : ValueAt(s) <= ValueAt(t)

\* Short of the last, open-ended bucket, the sample that a reported percentile stands
\* for is off the report by a third of it at most, which is what log2 buckets buy.
SampleWithinThird ==
  \A p \in Answered : \A target \in Targets(p) :
    LET v == Ranked(target)
        reported == ValueAt(target)
    IN  v < Pow2[Buckets - 1] => /\ 3 * (v - reported) <= reported
                                 /\ 3 * (reported - v) <= reported

================================================================================
