-------------------------- MODULE LatencyCaptureProofs -------------------------
(* Proofs about HdrHistogram and LatencyCapture for every number of buckets, width *)
(* of the word, set of samples and of percentages, capacity of the buffer and      *)
(* range of the C histogram, and for any number of records and resets.             *)
EXTENDS LatencyCapture, Arithmetic, SequenceTheorems

--------------------------------------------------------------------------------
(* Inductive invariants                                                            *)

InBucket(i) == {v \in Values : BucketIndex(v) = i}
UpToBucket(i) == {v \in Values : BucketIndex(v) <= i}

\* The types that need no other invariant; the bound on the counts follows.
Typed ==
  /\ buckets_ \in [Indices -> Nat]
  /\ count_ \in 0..MaxCount
  /\ sum_ \in 0 .. Limit - 1
  /\ min_ \in 0 .. Limit - 1
  /\ max_ \in 0 .. Limit - 1
  /\ samples \in [Values -> Nat]

\* A bucket counts the samples that belong there.
BucketsCount == \A i \in Indices : buckets_[i] = SumFunctionOnSet(samples, InBucket(i))

\* The extremes of an empty window are those that the first sample replaces.
Extremes ==
  IF Recorded = {}
  THEN min_ = Limit - 1 /\ max_ = 0
  ELSE min_ = Min(Recorded) /\ max_ = Max(Recorded)

HdrInv ==
  /\ Typed
  /\ BucketsCount
  /\ count_ = Total
  /\ sum_ = SumFunction([v \in Values |-> v * samples[v]]) % Limit
  /\ Extremes

\* What the buffer holds has the length and the elements for the accounts to be kept.
BufferInv ==
  /\ data_ \in Seq(Values) /\ Len(data_) <= Cap
  /\ dropped_ \in Nat
  /\ BufferAccountsForWindow

\* Where a sample is counted, if it is.
Place(v) == Max({0, Signed(v)})

\* The C histogram has seen exactly the places of the window's samples in its range.
CountsInv ==
  /\ \/ hist_ = Null
     \/ hist_ = Counting(hist_.counts) /\ hist_.counts \in [Values \union {0} -> Nat]
  /\ hist_.valid => \A w \in Values \union {0} :
       hist_.counts[w] > 0 <=> \E v \in Recorded : w = Place(v) /\ w < Untrackable
  /\ OnlyOutliersVanish

CaptureInv == HdrInv /\ BufferInv /\ CountsInv

--------------------------------------------------------------------------------
(* Powers, buckets and their representatives                                       *)

LEMMA Pow2Step ==
  /\ Pow2[0] = 1
  /\ \A n \in Nat : Pow2[n] \in Nat /\ Pow2[n + 1] = 2 * Pow2[n]
<1>1. Pow2 = [n \in Nat |-> IF n = 0 THEN 1 ELSE 2 * Pow2[n - 1]]
  BY DoublingExists DEF Pow2
<1> DEFINE T == {n \in Nat : Pow2[n] \in Nat}
<1>2. Pow2[0] = 1
  BY <1>1
<1>3. \A n \in Nat : Pow2[n + 1] = 2 * Pow2[n]
  BY <1>1
<1>4. 0 \in T /\ \A n \in T : n + 1 \in T
  BY <1>2, <1>3
<1>5. \A n \in Nat : n \in T
  <2>1. T \subseteq Nat
    OBVIOUS
  <2> HIDE DEF T
  <2>2. QED
    BY <1>4, <2>1, NatSetInduction
<1>6. QED
  BY <1>2, <1>3, <1>5

LEMMA Pow2Grows ==
  /\ \A n \in Nat : Pow2[n] \in Nat /\ Pow2[n] >= 1
  /\ \A m, n \in Nat : m <= n => Pow2[m] <= Pow2[n]
<1> DEFINE T == {n \in Nat : Pow2[n] >= 1 /\ \A m \in Nat : m <= n => Pow2[m] <= Pow2[n]}
<1>1. 0 \in T
  BY Pow2Step
<1>2. ASSUME NEW n \in T PROVE n + 1 \in T
  <2>1. Pow2[n] \in Nat /\ Pow2[n] >= 1 /\ Pow2[n + 1] = 2 * Pow2[n]
    BY Pow2Step
  <2>2. ASSUME NEW m \in Nat, m <= n + 1 PROVE Pow2[m] <= Pow2[n + 1]
    <3>1. Pow2[m] \in Nat
      BY Pow2Step
    <3>2. CASE m = n + 1
      BY <2>1, <3>2
    <3>3. CASE m <= n
      BY <2>1, <3>1, <3>3
    <3>4. QED
      BY <2>2, <3>2, <3>3
  <2>3. QED
    BY <2>1, <2>2
<1>3. \A n \in Nat : n \in T
  <2>1. T \subseteq Nat
    OBVIOUS
  <2> HIDE DEF T
  <2>2. QED
    BY <1>1, <1>2, <2>1, NatSetInduction
<1>4. QED
  BY <1>3, Pow2Step

\* What the assumptions say, in the form the provers need it.
LEMMA ConstantFacts ==
  /\ Buckets \in Nat /\ Buckets >= 2 /\ WordBits \in Nat /\ WordBits >= 1
  /\ Limit \in Nat /\ Limit >= 2
  /\ Values \subseteq 0 .. Limit - 1 /\ Values \subseteq Nat /\ IsFiniteSet(Values)
  /\ IsFiniteSet(Indices) /\ Indices \subseteq Nat
  /\ Percents \subseteq Int /\ MaxCount \in Nat
<1>1. /\ Buckets \in Nat /\ Buckets >= 2 /\ WordBits \in Nat /\ WordBits >= 1
      /\ Percents \subseteq Int /\ MaxCount \in Nat /\ Values \subseteq 0 .. Limit - 1
  BY HistogramAssumption
<1>2. Limit \in Nat /\ Limit >= 2
  <2>1. Pow2[1] = 2
    <3>1. Pow2[0 + 1] = 2 * Pow2[0]
      BY Pow2Step
    <3>2. QED
      BY <3>1, Pow2Step
  <2>2. Pow2[1] <= Pow2[WordBits] /\ Pow2[WordBits] \in Nat
    BY <1>1, Pow2Grows
  <2>3. QED
    BY <2>1, <2>2 DEF Limit
<1>3. IsFiniteSet(Values)
  <2>1. IsFiniteSet(0 .. Limit - 1)
    BY <1>2, FS_Interval
  <2>2. QED
    BY <1>1, <2>1, FS_Subset
<1>4. IsFiniteSet(Indices) /\ Indices \subseteq Nat
  <2>1. IsFiniteSet(0 .. Buckets - 1)
    BY <1>1, FS_Interval
  <2>2. QED
    BY <1>1, <2>1 DEF Indices
<1>5. QED
  BY <1>1, <1>2, <1>3, <1>4

\* 63 - clz(v) is the exponent of the power of two that v has reached.
LEMMA FloorLog2Range ==
  ASSUME NEW v \in 1 .. Limit - 1
  PROVE  /\ FloorLog2(v) \in Nat
         /\ Pow2[FloorLog2(v)] <= v /\ v < Pow2[FloorLog2(v) + 1]
<1> DEFINE T == {n \in Nat : v < Pow2[n]}
<1>1. WordBits \in T
  BY ConstantFacts DEF Limit
<1>2. PICK n \in T : \A m \in T : n <= m
  BY <1>1, LeastNatural
<1>3. n \in Nat /\ v < Pow2[n] /\ n <= WordBits
  BY <1>1, <1>2
<1>4. n # 0
  BY <1>3, Pow2Step
<1>5. n - 1 \in 0 .. WordBits - 1
  BY <1>3, <1>4, ConstantFacts
<1>6. Pow2[n - 1] <= v
  <2>1. n - 1 \in Nat /\ Pow2[n - 1] \in Nat
    BY <1>5, Pow2Step
  <2>2. ~ (v < Pow2[n - 1])
    BY <1>2, <1>3, <2>1
  <2>3. QED
    BY <2>1, <2>2, ConstantFacts
<1>7. \E k \in 0 .. WordBits - 1 : Pow2[k] <= v /\ v < Pow2[k + 1]
  BY <1>3, <1>5, <1>6
<1>8. QED
  BY <1>7, ConstantFacts DEF FloorLog2

\* A bucket of bucket_index holds the values from one power of two up to the next;
\* the last one has no upper end.
LEMMA BucketRange ==
  ASSUME NEW v \in 0 .. Limit - 1
  PROVE  /\ BucketIndex(v) \in Indices /\ BucketIndex(v) \in Nat
         /\ v = 0 => BucketIndex(v) = 0
         /\ v > 0 => BucketIndex(v) >= 1 /\ Pow2[BucketIndex(v) - 1] <= v
         /\ BucketIndex(v) < Buckets - 1 \/ v < Pow2[Buckets - 1] => v < Pow2[BucketIndex(v)]
<1>1. CASE v = 0
  BY <1>1, ConstantFacts, Pow2Grows DEF BucketIndex, Indices
<1>2. CASE v > 0
  <2> DEFINE n == FloorLog2(v)
  <2>1. n \in Nat /\ Pow2[n] <= v /\ v < Pow2[n + 1]
    BY <1>2, FloorLog2Range
  <2>2. BucketIndex(v) = IF n + 1 < Buckets THEN n + 1 ELSE Buckets - 1
    BY <1>2 DEF BucketIndex
  <2> HIDE DEF n
  <2>3. CASE n + 1 < Buckets
    <3>1. BucketIndex(v) = n + 1 /\ (n + 1) - 1 = n
      BY <2>1, <2>2, <2>3
    <3>2. n + 1 \in Indices
      BY <2>1, <2>3, ConstantFacts DEF Indices
    <3>3. QED
      BY <1>2, <2>1, <3>1, <3>2
  <2>4. CASE ~ (n + 1 < Buckets)
    <3>1. BucketIndex(v) = Buckets - 1 /\ Buckets - 2 \in Nat /\ Buckets - 2 <= n
      BY <2>1, <2>2, <2>4, ConstantFacts
    <3>2. Pow2[Buckets - 2] <= Pow2[n] /\ Pow2[Buckets - 2] \in Nat /\ Pow2[n] \in Nat
      BY <2>1, <3>1, Pow2Grows
    <3>3. Pow2[Buckets - 2] <= v
      BY <2>1, <3>2, ConstantFacts
    <3>4. (Buckets - 1) - 1 = Buckets - 2
      BY ConstantFacts
    <3>5. QED
      BY <1>2, <3>1, <3>3, <3>4, ConstantFacts DEF Indices
  <2>5. QED
    BY <2>3, <2>4
<1>3. QED
  BY <1>1, <1>2, ConstantFacts

\* A larger value is in no earlier bucket.
LEMMA BucketMonotone ==
  ASSUME NEW u \in 0 .. Limit - 1, NEW v \in 0 .. Limit - 1, u <= v
  PROVE  BucketIndex(u) <= BucketIndex(v)
<1> DEFINE i == BucketIndex(u)
           j == BucketIndex(v)
<1>1. i \in Nat /\ i <= Buckets - 1 /\ j \in Nat
  BY BucketRange, ConstantFacts DEF Indices
<1>2. SUFFICES ASSUME j < i PROVE FALSE
  BY <1>1
<1>3. u > 0
  <2>1. u = 0 => i = 0
    BY BucketRange
  <2>2. QED
    BY <1>1, <1>2, <2>1, ConstantFacts
<1>4. Pow2[i - 1] <= u
  BY <1>3, BucketRange
<1>5. v < Pow2[j]
  <2>1. j < Buckets - 1
    BY <1>1, <1>2, ConstantFacts
  <2>2. QED
    BY <2>1, BucketRange
<1>6. Pow2[j] <= Pow2[i - 1] /\ Pow2[j] \in Nat /\ Pow2[i - 1] \in Nat
  <2>1. i - 1 \in Nat /\ j <= i - 1
    BY <1>1, <1>2
  <2>2. QED
    BY <1>1, <2>1, Pow2Grows
<1>7. QED
  BY <1>4, <1>5, <1>6, ConstantFacts

\* The middle of a bucket, in whole numbers.
LEMMA RepresentativeRange ==
  ASSUME NEW i \in Nat
  PROVE  /\ BucketRepresentative(i) \in Nat
         /\ i = 0 => BucketRepresentative(i) = 0
         /\ i >= 1 => /\ Pow2[i - 1] <= BucketRepresentative(i)
                      /\ BucketRepresentative(i) < Pow2[i]
<1>1. CASE i = 0
  BY <1>1 DEF BucketRepresentative
<1>2. CASE i >= 1
  <2> DEFINE P == Pow2[i - 1]
  <2>1. P \in Nat /\ P >= 1 /\ Pow2[i] = 2 * P
    <3>1. i - 1 \in Nat /\ (i - 1) + 1 = i
      BY <1>2
    <3>2. QED
      BY <3>1, Pow2Step, Pow2Grows
  <2>2. BucketRepresentative(i) = P + (P \div 2)
    BY <1>2 DEF BucketRepresentative
  <2> HIDE DEF P
  <2>3. P \div 2 \in Nat /\ P \div 2 < P
    BY <2>1
  <2>4. QED
    BY <1>2, <2>1, <2>2, <2>3 DEF P
<1>3. QED
  BY <1>1, <1>2

LEMMA RepresentativeMonotone ==
  ASSUME NEW i \in Nat, NEW j \in Nat, i <= j
  PROVE  BucketRepresentative(i) <= BucketRepresentative(j)
<1>1. BucketRepresentative(i) \in Nat /\ BucketRepresentative(j) \in Nat
  BY RepresentativeRange
<1>2. CASE i = j
  BY <1>1, <1>2
<1>3. CASE i = 0
  BY <1>1, <1>3, RepresentativeRange
<1>4. CASE i >= 1 /\ i < j
  <2>1. BucketRepresentative(i) < Pow2[i]
    BY <1>4, RepresentativeRange
  <2>2. j >= 1 /\ j - 1 \in Nat /\ i <= j - 1
    BY <1>4
  <2>3. Pow2[j - 1] <= BucketRepresentative(j)
    BY <2>2, RepresentativeRange
  <2>4. Pow2[i] <= Pow2[j - 1] /\ Pow2[i] \in Nat /\ Pow2[j - 1] \in Nat
    BY <2>2, Pow2Grows
  <2>5. QED
    BY <1>1, <2>1, <2>3, <2>4
<1>5. QED
  BY <1>2, <1>3, <1>4

--------------------------------------------------------------------------------
(* The histogram and its samples                                                   *)

LEMMA SampleSums ==
  ASSUME NEW s \in [Values -> Nat]
  PROVE  /\ SumFunction(s) = SumFunctionOnSet(s, Values)
         /\ SumFunction(s) \in Nat
         /\ \A T \in SUBSET Values : /\ IsFiniteSet(T)
                                     /\ SumFunctionOnSet(s, T) \in Nat
                                     /\ SumFunctionOnSet(s, T) <= SumFunction(s)
         /\ \A v \in Values : s[v] <= SumFunction(s)
<1>1. SumFunction(s) = SumFunctionOnSet(s, Values)
  BY DEF SumFunction
<1>2. IsFiniteSet(Values) /\ \A v \in Values : s[v] \in Nat
  BY ConstantFacts
<1>3. ASSUME NEW T \in SUBSET Values
      PROVE  /\ IsFiniteSet(T)
             /\ SumFunctionOnSet(s, T) \in Nat
             /\ SumFunctionOnSet(s, T) <= SumFunctionOnSet(s, Values)
  BY <1>2, FS_Subset, SumMonotone
<1>4. SumFunctionOnSet(s, Values) \in Nat /\ \A v \in Values : s[v] <= SumFunctionOnSet(s, Values)
  BY <1>2, SumNat
<1>5. QED
  BY <1>1, <1>3, <1>4

\* One more sample of a value counts in every set of values that has it.
LEMMA OneMoreSample ==
  ASSUME NEW s \in [Values -> Nat], NEW w \in Values, NEW T \in SUBSET Values
  PROVE  SumFunctionOnSet([s EXCEPT ![w] = @ + 1], T)
           = SumFunctionOnSet(s, T) + (IF w \in T THEN 1 ELSE 0)
<1> DEFINE t == [s EXCEPT ![w] = @ + 1]
<1>1. t[w] = s[w] + 1 /\ \A v \in Values \ {w} : t[v] = s[v]
  OBVIOUS
<1>2. IsFiniteSet(T) /\ SumFunctionOnSet(s, T) \in Nat /\ \A v \in T : s[v] \in Int
  BY SampleSums
<1> HIDE DEF t
<1>3. CASE w \in T
  <2>1. SumFunctionOnSet(t, T) = SumFunctionOnSet(s, T) + 1
    BY <1>1, <1>2, <1>3, SumUpdate
  <2>2. QED
    BY <1>3, <2>1 DEF t
<1>4. CASE w \notin T
  <2>1. \A v \in T : s[v] \in Int /\ s[v] = t[v]
    BY <1>1, <1>2, <1>4
  <2>2. SumFunctionOnSet(s, T) = SumFunctionOnSet(t, T)
    BY <1>2, <2>1, SumEqual
  <2>3. QED
    BY <1>2, <1>4, <2>2 DEF t
<1>5. QED
  BY <1>3, <1>4

\* A histogram that was just built describes the empty bag.
LEMMA InitInv == Init => HdrInv
<1> SUFFICES ASSUME Init PROVE HdrInv
  OBVIOUS
<1>1. /\ buckets_ = [i \in Indices |-> 0] /\ count_ = 0 /\ sum_ = 0
      /\ min_ = Limit - 1 /\ max_ = 0 /\ samples = [v \in Values |-> 0]
  BY DEF Init, Cleared
<1>2. Typed
  BY <1>1, ConstantFacts DEF Typed
<1>3. \A T \in SUBSET Values : SumFunctionOnSet(samples, T) = 0
  <2>1. ASSUME NEW T \in SUBSET Values PROVE IsFiniteSet(T) /\ \A v \in T : samples[v] = 0
    BY <1>1, ConstantFacts, FS_Subset
  <2>2. QED
    BY <2>1, SumZero
<1>4. BucketsCount
  BY <1>1, <1>3 DEF BucketsCount, InBucket
<1>5. count_ = Total
  BY <1>1, <1>3 DEF Total, SumFunction
<1>6. sum_ = SumFunction([v \in Values |-> v * samples[v]]) % Limit
  <2> DEFINE f == [v \in Values |-> v * samples[v]]
  <2>1. \A v \in Values : f[v] = 0
    BY <1>1, ConstantFacts
  <2>2. DOMAIN f = Values
    OBVIOUS
  <2> HIDE DEF f
  <2>3. SumFunction(f) = 0
    BY <2>1, <2>2, ConstantFacts, SumZero DEF SumFunction
  <2>4. 0 % Limit = 0
    BY ConstantFacts
  <2>5. QED
    BY <1>1, <2>3, <2>4 DEF f
<1>7. Extremes
  BY <1>1 DEF Extremes, Recorded
<1>8. QED
  BY <1>2, <1>4, <1>5, <1>6, <1>7 DEF HdrInv

\* A reset brings that histogram back.
LEMMA ResetInv == Reset => HdrInv'
<1>1. Reset => Init'
  BY DEF Reset, Init
<1>2. Init' => HdrInv'
  BY InitInv, PTL
<1>3. QED
  BY <1>1, <1>2

\* A sample that is recorded changes all five fields alike.
LEMMA RecordInv ==
  ASSUME HdrInv, NEW w \in Values, Record(w)
  PROVE  HdrInv'
<1>1. /\ buckets_ \in [Indices -> Nat] /\ count_ \in Nat /\ samples \in [Values -> Nat]
      /\ min_ \in 0 .. Limit - 1 /\ max_ \in 0 .. Limit - 1
  BY ConstantFacts DEF HdrInv, Typed
<1>2. /\ count_ < MaxCount /\ count_' = count_ + 1
      /\ min_' = Min({min_, w}) /\ max_' = Max({max_, w})
      /\ sum_' = (sum_ + w) % Limit
      /\ buckets_' = [buckets_ EXCEPT ![BucketIndex(w)] = @ + 1]
      /\ samples' = [samples EXCEPT ![w] = @ + 1]
  BY DEF Record
<1>3. w \in Nat /\ w \in 0 .. Limit - 1
  BY ConstantFacts
<1>4. BucketIndex(w) \in Indices
  BY <1>3, BucketRange
<1>5. /\ min_' = IF min_ <= w THEN min_ ELSE w
      /\ max_' = IF max_ <= w THEN w ELSE max_
  <2>1. min_ \in Int /\ max_ \in Int /\ w \in Int
    BY <1>1, <1>3
  <2>2. /\ Min({min_, w}) = IF min_ <= w THEN min_ ELSE w
        /\ Max({max_, w}) = IF max_ <= w THEN w ELSE max_
    BY <2>1, MinMaxPair
  <2>3. QED
    BY <1>2, <2>2
<1>6. \A T \in SUBSET Values : SumFunctionOnSet(samples', T)
                                 = SumFunctionOnSet(samples, T) + (IF w \in T THEN 1 ELSE 0)
  BY <1>1, <1>2, OneMoreSample
<1>7. Typed'
  <2>1. count_' \in 0 .. MaxCount
    BY <1>1, <1>2, ConstantFacts
  <2>2. sum_' \in 0 .. Limit - 1
    <3>1. sum_ + w \in Nat
      BY <1>3, ConstantFacts DEF HdrInv, Typed
    <3> DEFINE k == sum_ + w
    <3> HIDE DEF k
    <3>2. k % Limit \in 0 .. Limit - 1
      BY <3>1, ConstantFacts, WrapRange DEF k
    <3>3. QED
      BY <1>2, <3>2 DEF k
  <2>3. min_' \in 0 .. Limit - 1 /\ max_' \in 0 .. Limit - 1
    BY <1>1, <1>3, <1>5
  <2>4. buckets_' \in [Indices -> Nat]
    BY <1>1, <1>2, <1>4
  <2>5. samples' \in [Values -> Nat]
    BY <1>1, <1>2
  <2>6. QED
    BY <2>1, <2>2, <2>3, <2>4, <2>5 DEF Typed
<1>8. BucketsCount'
  <2>1. ASSUME NEW i \in Indices
        PROVE  buckets_'[i] = SumFunctionOnSet(samples', InBucket(i))
    <3>1. buckets_[i] = SumFunctionOnSet(samples, InBucket(i)) /\ buckets_[i] \in Nat
      BY <1>1 DEF HdrInv, BucketsCount
    <3>2. buckets_'[i] = buckets_[i] + (IF BucketIndex(w) = i THEN 1 ELSE 0)
      BY <1>1, <1>2, <3>1
    <3>3. InBucket(i) \in SUBSET Values /\ (w \in InBucket(i) <=> BucketIndex(w) = i)
      BY DEF InBucket
    <3>4. QED
      BY <1>6, <3>1, <3>2, <3>3
  <2>2. QED
    BY <2>1 DEF BucketsCount, InBucket
<1>9. (count_ = Total)'
  <2>1. DOMAIN samples = Values /\ DOMAIN samples' = Values
    BY <1>1, <1>2
  <2>2. count_ = SumFunctionOnSet(samples, Values)
    BY <2>1 DEF HdrInv, Total, SumFunction
  <2>3. SumFunctionOnSet(samples', Values) = SumFunctionOnSet(samples, Values) + 1
    BY <1>6
  <2>4. QED
    BY <1>2, <2>1, <2>2, <2>3 DEF Total, SumFunction
<1>10. (sum_ = SumFunction([v \in Values |-> v * samples[v]]) % Limit)'
  <2> DEFINE f == [v \in Values |-> v * samples[v]]
             g == [v \in Values |-> v * samples'[v]]
             k == SumFunctionOnSet(f, Values)
  <2>1. \A v \in Values : f[v] \in Nat
    BY <1>1, ConstantFacts
  <2>2. g[w] = f[w] + w
    <3>1. samples'[w] = samples[w] + 1 /\ samples[w] \in Nat
      BY <1>1, <1>2
    <3>2. PICK n \in Nat : n = samples[w]
      BY <3>1
    <3>3. w * (n + 1) = (w * n) + w
      BY <1>3
    <3>4. QED
      BY <3>1, <3>2, <3>3
  <2>3. \A v \in Values \ {w} : g[v] = f[v]
    BY <1>1, <1>2
  <2>4. DOMAIN f = Values /\ DOMAIN g = Values
    OBVIOUS
  <2> HIDE DEF f, g
  <2>5. SumFunctionOnSet(g, Values) = SumFunctionOnSet(f, Values) + w
    <3>1. IsFiniteSet(Values) /\ w \in Int /\ \A v \in Values : f[v] \in Int
      BY <1>3, <2>1, ConstantFacts
    <3>2. QED
      BY <2>2, <2>3, <3>1, SumUpdate
  <2>6. k \in Nat
    BY <2>1, ConstantFacts, SumNat
  <2>7. sum_ = k % Limit
    BY <2>4 DEF HdrInv, SumFunction, f
  <2> HIDE DEF k
  <2>8. ((k % Limit) + w) % Limit = (k + w) % Limit
    <3>1. Limit \in Nat /\ Limit >= 1
      BY ConstantFacts
    <3>2. QED
      BY <1>3, <2>6, <3>1, WrapAdd
  <2>9. SumFunction(g) = k + w
    BY <2>4, <2>5 DEF SumFunction, k
  <2>10. QED
    BY <1>2, <2>7, <2>8, <2>9 DEF g
<1>11. Extremes'
  <2> DEFINE R == Recorded
             S == Recorded'
  <2>1. R \subseteq Nat /\ \A v \in R : v <= Limit - 1
    <3>1. R \subseteq Values
      BY DEF Recorded
    <3> HIDE DEF R
    <3>2. QED
      BY <3>1, ConstantFacts
  <2>2. S = R \union {w}
    BY <1>1, <1>2 DEF Recorded
  <2>3. Extremes
    BY DEF HdrInv
  <2>4. S \subseteq Int
    BY <1>3, <2>1, <2>2
  <2>5. min_' = Min(S) /\ max_' = Max(S)
    <3>1. CASE R = {}
      <4>1. min_' = w /\ max_' = w
        BY <1>3, <1>5, <2>3, <3>1, ConstantFacts DEF Extremes
      <4>2. w \in S /\ \A y \in S : y = w
        BY <2>2, <3>1
      <4> HIDE DEF R, S
      <4>3. (\A y \in S : w <= y) /\ (\A y \in S : y <= w)
        BY <1>3, <4>2
      <4>4. QED
        BY <2>4, <4>1, <4>2, <4>3, ExtremeUnique
    <3>2. CASE R # {}
      <4>1. min_ = Min(R) /\ max_ = Max(R)
        BY <2>3, <3>2 DEF Extremes
      <4> HIDE DEF R, S
      <4>2. min_ \in R /\ \A y \in R : min_ <= y
        BY <2>1, <3>2, <4>1, MinNatural
      <4>3. max_ \in R /\ \A y \in R : y <= max_
        <5>1. Limit - 1 \in Nat
          BY ConstantFacts
        <5>2. QED
          BY <2>1, <3>2, <4>1, <5>1, MaxNatural
      <4>4. min_' \in S /\ \A y \in S : min_' <= y
        BY <1>3, <1>5, <2>1, <2>2, <4>2
      <4>5. max_' \in S /\ \A y \in S : y <= max_'
        BY <1>3, <1>5, <2>1, <2>2, <4>3
      <4>6. QED
        BY <2>4, <4>4, <4>5, ExtremeUnique
    <3>3. QED
      BY <3>1, <3>2
  <2>6. S # {}
    BY <2>2
  <2>7. QED
    BY <2>5, <2>6 DEF Extremes
<1>12. QED
  BY <1>7, <1>8, <1>9, <1>10, <1>11 DEF HdrInv

\* The histogram's invariant holds whatever is recorded, and however often it is reset.
LEMMA HdrInvariant == Spec => []HdrInv
<1>1. HdrInv /\ [Next]_vars => HdrInv'
  <2> SUFFICES ASSUME HdrInv, [Next]_vars PROVE HdrInv'
    OBVIOUS
  <2>1. CASE Reset
    BY <2>1, ResetInv
  <2>2. CASE \E v \in Values : Record(v)
    BY <2>2, RecordInv
  <2>3. CASE UNCHANGED vars
    BY <2>3 DEF vars, HdrInv, Typed, BucketsCount, InBucket, Total, Extremes, Recorded
  <2>4. QED
    BY <2>1, <2>2, <2>3 DEF Next
<1>2. QED
  BY <1>1, InitInv, PTL DEF Spec

--------------------------------------------------------------------------------
(* What the histogram answers                                                      *)

\* The scan's running total is the number of samples in the buckets it has passed.
LEMMA SeenCounts ==
  ASSUME HdrInv
  PROVE  \A i \in Indices : /\ UpToBucket(i) \in SUBSET Values
                            /\ Seen(i) = SumFunctionOnSet(samples, UpToBucket(i))
<1> DEFINE T == {i \in Nat : i < Buckets =>
                    Seen(i) = SumFunctionOnSet(samples, UpToBucket(i))}
<1>1. samples \in [Values -> Nat] /\ buckets_ \in [Indices -> Nat]
  BY DEF HdrInv, Typed
<1>2. \A v \in Values : BucketIndex(v) \in Nat
  BY BucketRange, ConstantFacts
<1>3. ASSUME NEW i \in Nat, i < Buckets
      PROVE  /\ i \in Indices /\ InBucket(i) \in SUBSET Values /\ UpToBucket(i) \in SUBSET Values
             /\ buckets_[i] = SumFunctionOnSet(samples, InBucket(i))
             /\ buckets_[i] \in Nat
  <2>1. i \in Indices
    BY <1>3, ConstantFacts DEF Indices
  <2>2. QED
    BY <1>1, <2>1 DEF HdrInv, BucketsCount, InBucket, UpToBucket
<1>4. 0 \in T
  <2>1. Seen(0) = buckets_[0]
    <3>1. 0 .. 0 = {0} /\ {0} \ {0} = {}
      OBVIOUS
    <3>2. buckets_[0] \in Nat
      BY <1>3, ConstantFacts
    <3> DEFINE S == {0}
    <3>3. IsFiniteSet(S) /\ 0 \in S /\ \A i \in S : buckets_[i] \in Int
      <4>1. IsFiniteSet(S)
        BY FS_Singleton
      <4>2. QED
        BY <3>2, <4>1
    <3> HIDE DEF S
    <3>4. SumFunctionOnSet(buckets_, S) = buckets_[0] + SumFunctionOnSet(buckets_, S \ {0})
      BY <3>3, SumRemove
    <3>5. QED
      BY <3>1, <3>2, <3>4, SumEmpty DEF Seen, S
  <2>2. UpToBucket(0) = InBucket(0)
    BY <1>2 DEF UpToBucket, InBucket
  <2>3. QED
    BY <1>3, <2>1, <2>2, ConstantFacts
<1>5. ASSUME NEW i \in T PROVE i + 1 \in T
  <2> SUFFICES ASSUME i + 1 < Buckets
               PROVE  Seen(i + 1) = SumFunctionOnSet(samples, UpToBucket(i + 1))
    OBVIOUS
  <2>1. i \in Nat /\ i + 1 \in Nat /\ i < Buckets
    BY ConstantFacts
  <2>2. Seen(i) = SumFunctionOnSet(samples, UpToBucket(i))
    BY <1>5, <2>1
  <2>3. Seen(i + 1) = buckets_[i + 1] + Seen(i)
    <3> DEFINE S == 0 .. (i + 1)
               L == 0 .. i
    <3>1. IsFiniteSet(S) /\ L \in SUBSET S /\ i + 1 \in S \ L /\ L \union {i + 1} = S
      <4>1. IsFiniteSet(S)
        BY <2>1, FS_Interval
      <4>2. L \in SUBSET S /\ i + 1 \in S \ L /\ L \union {i + 1} = S
        BY <2>1
      <4>3. QED
        BY <4>1, <4>2
    <3>2. \A j \in S : buckets_[j] \in Int
      BY <1>3, <2>1, ConstantFacts
    <3> HIDE DEF S, L
    <3>3. SumFunctionOnSet(buckets_, L \union {i + 1})
            = buckets_[i + 1] + SumFunctionOnSet(buckets_, L)
      BY <3>1, <3>2, SumAdd
    <3>4. QED
      BY <3>1, <3>3 DEF Seen, S, L
  <2>4. SumFunctionOnSet(samples, UpToBucket(i + 1))
          = SumFunctionOnSet(samples, UpToBucket(i)) + SumFunctionOnSet(samples, InBucket(i + 1))
    <3> DEFINE S == UpToBucket(i + 1)
               L == UpToBucket(i)
    <3>1. S \in SUBSET Values
      BY <1>3, <2>1
    <3>2. L \in SUBSET S /\ S \ L = InBucket(i + 1)
      BY <1>2, <2>1 DEF UpToBucket, InBucket
    <3>3. IsFiniteSet(S) /\ \A v \in S : samples[v] \in Int
      BY <1>1, <3>1, SampleSums
    <3> HIDE DEF S, L
    <3>4. SumFunctionOnSet(samples, S)
            = SumFunctionOnSet(samples, L) + SumFunctionOnSet(samples, S \ L)
      BY <3>2, <3>3, SumSplit
    <3>5. QED
      BY <3>2, <3>4 DEF S, L
  <2>5. /\ buckets_[i + 1] = SumFunctionOnSet(samples, InBucket(i + 1))
        /\ buckets_[i + 1] \in Nat /\ UpToBucket(i) \in SUBSET Values
    BY <1>3, <2>1
  <2>6. SumFunctionOnSet(samples, UpToBucket(i)) \in Nat
    BY <1>1, <2>5, SampleSums
  <2> DEFINE a == buckets_[i + 1]
             b == Seen(i)
  <2> HIDE DEF a, b
  <2>7. a \in Nat /\ b \in Nat /\ Seen(i + 1) = a + b
    BY <2>2, <2>3, <2>5, <2>6 DEF a, b
  <2>8. SumFunctionOnSet(samples, UpToBucket(i + 1)) = b + a
    BY <2>2, <2>4, <2>5 DEF a, b
  <2>9. QED
    BY <2>7, <2>8
<1>6. \A i \in Nat : i \in T
  <2>1. T \subseteq Nat
    OBVIOUS
  <2> HIDE DEF T
  <2>2. QED
    BY <1>4, <1>5, <2>1, NatSetInduction
<1>7. QED
  BY <1>3, <1>6, ConstantFacts DEF Indices

\* No bucket and no value has more samples than there are.
LEMMA HdrTypes == HdrInv => TypeOK
<1> SUFFICES ASSUME HdrInv PROVE TypeOK
  OBVIOUS
<1>1. /\ samples \in [Values -> Nat] /\ buckets_ \in [Indices -> Nat]
      /\ count_ \in 0..MaxCount /\ count_ \in Nat
  BY ConstantFacts DEF HdrInv, Typed
<1>2. count_ = SumFunction(samples)
  BY DEF HdrInv, Total
<1>3. ASSUME NEW i \in Indices PROVE buckets_[i] \in 0..MaxCount
  <2>1. InBucket(i) \in SUBSET Values
    BY DEF InBucket
  <2>2. SumFunctionOnSet(samples, InBucket(i)) <= count_
    BY <1>1, <1>2, <2>1, SampleSums
  <2>3. buckets_[i] = SumFunctionOnSet(samples, InBucket(i)) /\ buckets_[i] \in Nat
    BY <1>1 DEF HdrInv, BucketsCount
  <2>4. QED
    BY <1>1, <2>2, <2>3, ConstantFacts
<1>4. ASSUME NEW v \in Values PROVE samples[v] \in 0..MaxCount
  <2>1. samples[v] <= count_ /\ samples[v] \in Nat
    BY <1>1, <1>2, SampleSums
  <2>2. QED
    BY <1>1, <2>1, ConstantFacts
<1>5. buckets_ \in [Indices -> 0..MaxCount] /\ samples \in [Values -> 0..MaxCount]
  BY <1>1, <1>3, <1>4
<1>6. QED
  BY <1>1, <1>5 DEF HdrInv, Typed, TypeOK

LEMMA HdrFields == HdrInv => FieldsAgree
<1> SUFFICES ASSUME HdrInv PROVE FieldsAgree
  OBVIOUS
<1>1. Buckets - 1 \in Indices
  BY ConstantFacts DEF Indices
<1>2. UpToBucket(Buckets - 1) = Values
  <2>1. \A v \in Values : BucketIndex(v) \in Indices
    BY BucketRange, ConstantFacts
  <2>2. \A i \in Indices : i <= Buckets - 1
    BY ConstantFacts DEF Indices
  <2>3. QED
    BY <2>1, <2>2 DEF UpToBucket
<1>3. Seen(Buckets - 1) = SumFunctionOnSet(samples, Values)
  BY <1>1, <1>2, SeenCounts
<1>4. SumFunctionOnSet(samples, Values) = count_
  BY SampleSums DEF HdrInv, Typed, Total
<1>5. QED
  BY <1>3, <1>4 DEF HdrInv, Extremes, FieldsAgree

LEMMA ProductRange ==
  ASSUME NEW C \in Nat, NEW a \in Nat, a >= 1, a <= C, NEW b \in Nat, b >= 1
  PROVE  /\ a * b \in Nat /\ C * b \in Nat /\ a * b >= 1 /\ a * b <= C * b
         /\ a < C => a * b < C * b
<1> DEFINE d == C - a
           x == a * b
           y == d * b
           z == C * b
<1>1. \A n \in Nat : n * b \in Nat /\ (n >= 1 => n * b >= b)
  <2>1. ASSUME NEW n \in Nat PROVE n * b \in Nat
    OBVIOUS
  <2>2. ASSUME NEW n \in Nat, n >= 1 PROVE n * b >= b
    <3>1. n - 1 \in Nat
      BY <2>2
    <3>2. (n - 1) * b \in Nat
      BY <2>1, <3>1
    <3>3. (n - 1) * b = (n * b) - b
      BY <2>2, SMTT(30)
    <3>4. QED
      BY <2>1, <3>2, <3>3
  <2>3. QED
    BY <2>1, <2>2
<1>2. d \in Nat /\ (a < C => d >= 1)
  OBVIOUS
<1>3. y = z - x
  BY SMTT(30)
<1> HIDE DEF d
<1>4. x \in Nat /\ x >= b /\ y \in Nat /\ z \in Nat /\ (a < C => y >= b)
  BY <1>1, <1>2
<1> HIDE DEF x, y, z
<1>5. x \in Nat /\ z \in Nat /\ x >= 1 /\ x <= z /\ (a < C => x < z)
  BY <1>3, <1>4
<1>6. QED
  BY <1>5 DEF x, z

\* However the product is rounded, the target is the rank of a recorded sample.
LEMMA TargetsAreRanks ==
  ASSUME HdrInv, NEW p \in Answered, NEW t \in Targets(p)
  PROVE  t \in 1..count_
<1> DEFINE K == 100000
           m == Min({p, K})
           product == m * count_
           q == product \div K
           r == product % K
           all == K * count_
<1>1. p \in Int /\ p >= 1 /\ count_ \in Nat /\ count_ >= 1
  BY ConstantFacts DEF HdrInv, Typed, Answered
<1>2. t \in IF r # 0 THEN {q + 1} ELSE IF p >= K THEN {count_} ELSE {q, q + 1}
  BY DEF Targets
<1>3. K \in Nat /\ K >= 1
  BY SMT
<1> HIDE DEF K
<1>4. m \in Nat /\ m >= 1 /\ m <= K /\ (p < K => m < K)
  <2>1. m = IF p <= K THEN p ELSE K
    BY <1>1, <1>3, MinMaxPair
  <2> HIDE DEF m
  <2>2. QED
    BY <1>1, <1>3, <2>1
<1> HIDE DEF m
<1>5. /\ product \in Nat /\ all \in Nat /\ product >= 1 /\ product <= all
      /\ p < K => product < all
  BY <1>1, <1>3, <1>4, ProductRange
<1> HIDE DEF product
<1>6. q \in Int /\ r \in 0 .. K - 1 /\ product = K * q + r
  BY <1>3, <1>5, DivMod
<1> HIDE DEF q, r
<1>7. K * 0 = 0 /\ K * q \in Int
  BY <1>3, <1>6
<1>8. q >= 0 /\ (r = 0 => q >= 1)
  <2>1. ASSUME 0 > q PROVE FALSE
    <3>1. K * 0 >= K * q + K
      BY <1>3, <1>6, <2>1, MultipleGap
    <3>2. QED
      BY <1>3, <1>5, <1>6, <1>7, <3>1
  <2>2. ~ (r = 0 /\ q = 0)
    BY <1>5, <1>6, <1>7
  <2>3. QED
    BY <1>6, <2>1, <2>2
<1>9. q <= count_ /\ (r # 0 \/ p < K => q < count_)
  <2>1. ASSUME q > count_ PROVE FALSE
    <3>1. K * q >= all + K
      BY <1>1, <1>3, <1>6, <2>1, MultipleGap
    <3>2. QED
      BY <1>3, <1>5, <1>6, <1>7, <3>1 DEF all
  <2>2. ASSUME q = count_, r # 0 \/ p < K PROVE FALSE
    <3>1. product = all + r
      BY <1>6, <2>2
    <3> HIDE DEF all
    <3>2. QED
      BY <1>5, <1>6, <2>2, <3>1
  <2>3. QED
    BY <1>1, <1>6, <2>1, <2>2
<1>10. CASE r # 0
  <2>1. t = q + 1
    BY <1>2, <1>10
  <2>2. QED
    BY <1>1, <1>6, <1>8, <1>9, <1>10, <2>1
<1>11. CASE r = 0 /\ p >= K
  BY <1>1, <1>2, <1>11
<1>12. CASE r = 0 /\ p < K
  <2>1. t \in {q, q + 1}
    BY <1>1, <1>2, <1>3, <1>12
  <2>2. QED
    BY <1>1, <1>6, <1>8, <1>9, <1>12, <2>1
<1>13. QED
  BY <1>1, <1>3, <1>10, <1>11, <1>12

\* The last bucket brings the total to any rank, so the scan ends at the first that does.
LEMMA ScanStops ==
  ASSUME HdrInv, NEW t \in 1..count_
  PROVE  LET enough == {i \in Indices : Seen(i) >= t} IN
           /\ Min(enough) \in enough /\ \A i \in enough : Min(enough) <= i
           /\ ValueAt(t) = BucketRepresentative(Min(enough))
<1> DEFINE enough == {i \in Indices : Seen(i) >= t}
<1>1. Buckets - 1 \in Indices /\ Indices \subseteq Nat
  BY ConstantFacts DEF Indices
<1>2. Seen(Buckets - 1) = count_ /\ count_ \in Nat
  BY HdrFields, ConstantFacts DEF FieldsAgree, HdrInv, Typed
<1>3. Buckets - 1 \in enough
  BY <1>1, <1>2
<1>4. enough \subseteq Nat /\ enough # {}
  BY <1>1, <1>3
<1>5. ValueAt(t) = BucketRepresentative(Min(enough))
  BY <1>4 DEF ValueAt
<1> HIDE DEF enough
<1>6. Min(enough) \in enough /\ \A i \in enough : Min(enough) <= i
  BY <1>4, MinNatural
<1>7. QED
  BY <1>5, <1>6 DEF enough

\* The sample of a rank is a recorded value, the least that so many samples reach up to.
LEMMA RankedReaches ==
  ASSUME HdrInv, NEW t \in 1..count_
  PROVE  LET upTo(v) == SumFunctionOnSet(samples, {u \in Values : u <= v}) IN
           /\ Ranked(t) \in Values /\ upTo(Ranked(t)) >= t
           /\ \A v \in Values : upTo(v) >= t => Ranked(t) <= v
<1> DEFINE upTo(v) == SumFunctionOnSet(samples, {u \in Values : u <= v})
           reaching == {v \in Values : upTo(v) >= t}
<1>1. samples \in [Values -> Nat] /\ SumFunctionOnSet(samples, Values) = count_
  BY SampleSums DEF HdrInv, Typed, Total
<1>2. Values # {}
  BY <1>1, SumEmpty
<1>3. Values \subseteq Nat /\ Limit - 1 \in Nat /\ \A v \in Values : v <= Limit - 1
  BY ConstantFacts
<1>4. Max(Values) \in Values /\ \A v \in Values : v <= Max(Values)
  BY <1>2, <1>3, MaxNatural
<1>5. upTo(Max(Values)) = count_
  <2>1. {u \in Values : u <= Max(Values)} = Values
    BY <1>4
  <2>2. QED
    BY <1>1, <2>1
<1>6. reaching \subseteq Nat /\ reaching # {}
  <2>1. Max(Values) \in reaching
    BY <1>4, <1>5
  <2>2. QED
    BY <1>3, <2>1
<1>7. Ranked(t) = Min(reaching)
  BY DEF Ranked
<1>8. Min(reaching) \in reaching /\ \A v \in reaching : Min(reaching) <= v
  <2> HIDE DEF reaching
  <2>1. QED
    BY <1>6, MinNatural
<1>9. QED
  BY <1>7, <1>8

\* The scan stops at the bucket of the sample of that rank.
LEMMA ScanFindsRank ==
  ASSUME HdrInv, NEW t \in 1..count_
  PROVE  /\ Ranked(t) \in Values
         /\ ValueAt(t) = BucketRepresentative(BucketIndex(Ranked(t)))
<1> DEFINE enough == {i \in Indices : Seen(i) >= t}
           upTo(v) == SumFunctionOnSet(samples, {u \in Values : u <= v})
           m == Min(enough)
           r == Ranked(t)
<1>1. /\ m \in Indices /\ Seen(m) >= t /\ \A i \in Indices : Seen(i) >= t => m <= i
      /\ ValueAt(t) = BucketRepresentative(m)
  BY ScanStops
<1>2. r \in Values /\ upTo(r) >= t /\ \A v \in Values : upTo(v) >= t => r <= v
  BY RankedReaches
<1> HIDE DEF m, r
<1>3. samples \in [Values -> Nat] /\ Values \subseteq 0 .. Limit - 1 /\ Values \subseteq Nat
  BY ConstantFacts DEF HdrInv, Typed
<1>4. /\ \A v \in Values : BucketIndex(v) \in Indices /\ BucketIndex(v) \in Nat
      /\ \A u, v \in Values : u <= v => BucketIndex(u) <= BucketIndex(v)
  BY <1>3, BucketRange, BucketMonotone
<1>5. m \in Nat /\ t \in Nat /\ t >= 1
  BY <1>1, ConstantFacts
<1>6. m <= BucketIndex(r)
  <2> DEFINE S == UpToBucket(BucketIndex(r))
             T == {u \in Values : u <= r}
  <2>1. S \in SUBSET Values /\ Seen(BucketIndex(r)) = SumFunctionOnSet(samples, S)
    BY <1>2, <1>4, SeenCounts
  <2>2. T \in SUBSET S
    BY <1>2, <1>4 DEF UpToBucket
  <2>3. IsFiniteSet(S) /\ \A v \in S : samples[v] \in Nat
    BY <1>3, <2>1, SampleSums
  <2> HIDE DEF S, T
  <2>4. /\ SumFunctionOnSet(samples, T) <= SumFunctionOnSet(samples, S)
        /\ SumFunctionOnSet(samples, T) \in Nat /\ SumFunctionOnSet(samples, S) \in Nat
    BY <2>2, <2>3, SumMonotone
  <2>5. Seen(BucketIndex(r)) >= t
    BY <1>2, <1>5, <2>1, <2>4 DEF T
  <2>6. QED
    BY <1>1, <1>2, <1>4, <2>5
<1>7. ASSUME m < BucketIndex(r) PROVE FALSE
  <2> DEFINE W == UpToBucket(m)
  <2>1. W \in SUBSET Values /\ SumFunctionOnSet(samples, W) >= t
    BY <1>1, SeenCounts
  <2>2. W # {}
    BY <1>5, <2>1, SumEmpty
  <2> HIDE DEF W
  <2>3. W \subseteq Nat /\ Limit - 1 \in Nat /\ \A v \in W : v <= Limit - 1
    BY <1>3, <2>1, ConstantFacts
  <2>4. Max(W) \in W /\ \A v \in W : v <= Max(W)
    BY <2>2, <2>3, MaxNatural
  <2>5. PICK w \in W : \A v \in W : v <= w
    BY <2>4
  <2>6. w \in Values /\ BucketIndex(w) <= m
    BY <2>1, <2>5 DEF W, UpToBucket
  <2>7. {u \in Values : u <= w} = W
    <3>1. ASSUME NEW u \in Values, u <= w PROVE BucketIndex(u) <= m
      BY <1>4, <1>5, <2>6, <3>1
    <3>2. QED
      BY <2>5, <3>1 DEF W, UpToBucket
  <2>8. r <= w
    BY <1>2, <2>1, <2>6, <2>7
  <2>9. BucketIndex(r) <= BucketIndex(w)
    BY <1>2, <1>4, <2>6, <2>8
  <2>10. QED
    BY <1>2, <1>4, <1>5, <1>7, <2>6, <2>9
<1>8. m = BucketIndex(r)
  BY <1>2, <1>4, <1>5, <1>6, <1>7
<1>9. QED
  BY <1>1, <1>2, <1>8 DEF r

LEMMA FindsRank == HdrInv => PercentileFindsRank
BY TargetsAreRanks, ScanFindsRank DEF PercentileFindsRank

\* A higher target is reached in no earlier bucket.
LEMMA ScanMonotone ==
  ASSUME HdrInv, NEW s \in 1..count_, NEW t \in 1..count_, s <= t
  PROVE  ValueAt(s) <= ValueAt(t)
<1> DEFINE enough(r) == {i \in Indices : Seen(i) >= r}
           m == Min(enough(s))
           n == Min(enough(t))
<1>1. /\ \A i \in enough(s) : m <= i
      /\ m \in Indices /\ ValueAt(s) = BucketRepresentative(m)
  BY ScanStops
<1>2. n \in enough(t) /\ ValueAt(t) = BucketRepresentative(n)
  BY ScanStops
<1>3. samples \in [Values -> Nat]
  BY DEF HdrInv, Typed
<1>4. \A i \in Indices : Seen(i) \in Nat
  BY <1>3, SeenCounts, SampleSums
<1>5. n \in enough(s)
  BY <1>2, <1>4
<1> HIDE DEF m, n
<1>6. m <= n /\ m \in Nat /\ n \in Nat
  BY <1>1, <1>2, <1>5, ConstantFacts
<1>7. QED
  BY <1>1, <1>2, <1>6, RepresentativeMonotone

\* Below the last percentage, that is how the target comes from the product.
LEMMA TargetBounds ==
  ASSUME HdrInv, NEW p \in Answered, NEW t \in Targets(p), NEW K, K = 100000, p < K
  PROVE  /\ K * t \in Int /\ p * count_ \in Nat
         /\ p * count_ <= K * t /\ K * t <= p * count_ + K
<1> DEFINE c == p * count_
           q == c \div K
           r == c % K
<1>1. p \in Nat /\ count_ \in Nat
  BY ConstantFacts DEF HdrInv, Typed, Answered
<1>2. K \in Nat /\ K >= 1
  BY SMT
<1>3. Min({p, K}) = p
  BY <1>1, <1>2, MinMaxPair
<1>4. t \in IF r # 0 THEN {q + 1} ELSE IF p >= K THEN {count_} ELSE {q, q + 1}
  BY <1>3 DEF Targets
<1>5. c \in Nat
  BY <1>1
<1> HIDE DEF c
<1>6. q \in Int /\ r \in 0 .. K - 1 /\ c = K * q + r
  BY ONLY <1>2, <1>5, DivMod
<1> HIDE DEF q, r
<1>7. t = q + 1 \/ (t = q /\ r = 0)
  BY <1>1, <1>2, <1>4
<1>8. K * t \in Int /\ K * q + r <= K * t /\ K * t <= K * q + r + K
  BY ONLY <1>2, <1>6, <1>7, RoundedUp
<1>9. QED
  BY ONLY <1>5, <1>6, <1>8 DEF c

\* At the last percentage and above, the target is the number of samples.
LEMMA LastTarget ==
  ASSUME HdrInv, NEW p \in Answered, p >= 100000, NEW t \in Targets(p)
  PROVE  t = count_
<1> DEFINE K == 100000
           product == K * count_
<1>1. p \in Int /\ count_ \in Nat
  BY ConstantFacts DEF HdrInv, Typed, Answered
<1>2. K \in Nat /\ K >= 1 /\ p >= K
  BY SMT
<1>3. Min({p, K}) = K
  <2> HIDE DEF K
  <2>1. QED
    BY <1>1, <1>2, MinMaxPair
<1>4. t \in IF product % K # 0 THEN {product \div K + 1} ELSE {count_}
  BY <1>2, <1>3 DEF Targets
<1> HIDE DEF K
<1>5. product % K = 0
  <2>1. product \in Nat /\ product = K * count_ + 0 /\ 0 \in 0 .. K - 1
    BY <1>1, <1>2
  <2> HIDE DEF product
  <2>2. QED
    BY <1>1, <1>2, <2>1, ModUnique
<1>6. QED
  BY <1>4, <1>5

LEMMA TargetsMonotone ==
  ASSUME HdrInv, NEW p \in Answered, NEW q \in Answered, p < q,
         NEW s \in Targets(p), NEW t \in Targets(q)
  PROVE  s <= t
<1>1. /\ p \in Nat /\ p >= 1 /\ q \in Nat /\ count_ \in Nat /\ count_ >= 1
      /\ s \in 1..count_ /\ t \in 1..count_
  BY TargetsAreRanks, ConstantFacts DEF HdrInv, Typed, Answered
<1>2. CASE q >= 100000
  <2>1. t = count_
    BY <1>2, LastTarget
  <2>2. QED
    BY <1>1, <2>1
<1>3. CASE q < 100000
  <2> DEFINE K == 100000
             a == p * count_
             b == q * count_
  <2>1. /\ K * s \in Int /\ a \in Nat /\ a <= K * s /\ K * s <= a + K
        /\ K * t \in Int /\ b \in Nat /\ b <= K * t /\ K * t <= b + K
    <3>1. p < 100000
      BY <1>1, <1>3
    <3>2. QED
      BY <1>3, <3>1, TargetBounds DEF K
  <2>2. a < b
    BY <1>1, ProductRange
  <2>3. K \in Nat /\ K >= 1
    BY SMT
  <2> HIDE DEF K, a, b
  <2>4. ASSUME s > t PROVE FALSE
    <3>1. K * s >= K * t + K
      BY <1>1, <2>3, <2>4, MultipleGap
    <3>2. QED
      BY <2>1, <2>2, <2>3, <3>1
  <2>5. QED
    BY <1>1, <2>4
<1>4. QED
  BY <1>1, <1>2, <1>3

LEMMA Monotone == HdrInv => PercentilesMonotone
<1> SUFFICES ASSUME HdrInv, NEW p \in Answered, NEW q \in Answered, p < q,
                    NEW s \in Targets(p), NEW t \in Targets(q)
             PROVE  ValueAt(s) <= ValueAt(t)
  BY DEF PercentilesMonotone
<1>1. s \in 1..count_ /\ t \in 1..count_
  BY TargetsAreRanks
<1>2. s <= t
  BY TargetsMonotone
<1>3. QED
  BY <1>1, <1>2, ScanMonotone

LEMMA WithinThird == HdrInv => SampleWithinThird
<1> SUFFICES ASSUME HdrInv, NEW p \in Answered, NEW t \in Targets(p),
                    Ranked(t) < Pow2[Buckets - 1]
             PROVE  /\ 3 * (Ranked(t) - ValueAt(t)) <= ValueAt(t)
                    /\ 3 * (ValueAt(t) - Ranked(t)) <= ValueAt(t)
  BY DEF SampleWithinThird
<1> DEFINE v == Ranked(t)
           i == BucketIndex(v)
<1>1. v \in Values /\ ValueAt(t) = BucketRepresentative(i)
  BY TargetsAreRanks, ScanFindsRank
<1>2. v < Pow2[Buckets - 1]
  OBVIOUS
<1> HIDE DEF v
<1>3. v \in 0 .. Limit - 1 /\ v \in Nat
  BY <1>1, ConstantFacts
<1>4. /\ i \in Nat /\ (v > 0 => i >= 1 /\ Pow2[i - 1] <= v) /\ v < Pow2[i]
      /\ v = 0 => i = 0
  BY <1>2, <1>3, BucketRange
<1> HIDE DEF i
<1>5. CASE v = 0
  <2>1. BucketRepresentative(i) = 0
    BY <1>4, <1>5, RepresentativeRange
  <2>2. QED
    BY <1>1, <1>5, <2>1 DEF v
<1>6. CASE v > 0
  <2> DEFINE P == Pow2[i - 1]
             R == BucketRepresentative(i)
  <2>1. i - 1 \in Nat /\ (i - 1) + 1 = i
    BY <1>4, <1>6
  <2>2. P \in Nat /\ P >= 1 /\ P <= v /\ v < 2 * P
    BY <1>4, <1>6, <2>1, Pow2Step, Pow2Grows
  <2>3. R = P + (P \div 2)
    BY <1>4, <1>6 DEF BucketRepresentative
  <2>4. P = 1 \/ \E h \in Nat : P = 2 * h
    <3>1. CASE i = 1
      BY <3>1, Pow2Step
    <3>2. CASE i >= 2
      <4>1. i - 2 \in Nat /\ (i - 2) + 1 = i - 1
        BY <1>4, <3>2
      <4>2. QED
        BY <4>1, Pow2Step
    <3>3. QED
      BY <1>4, <1>6, <3>1, <3>2
  <2> HIDE DEF P
  <2>5. 3 * (v - R) <= R /\ 3 * (R - v) <= R
    <3>1. CASE P = 1
      BY <1>3, <2>2, <2>3, <3>1
    <3>2. ASSUME NEW h \in Nat, P = 2 * h PROVE 3 * (v - R) <= R /\ 3 * (R - v) <= R
      <4>1. P \div 2 = h
        BY <3>2
      <4>2. QED
        BY <1>3, <2>2, <2>3, <3>2, <4>1
    <3>3. QED
      BY <2>4, <3>1, <3>2
  <2>6. QED
    BY <1>1, <2>5 DEF v
<1>7. QED
  BY <1>3, <1>5, <1>6

--------------------------------------------------------------------------------
(* The three recorders of a measuring loop                                         *)

LEMMA CaptureFacts ==
  /\ Cap \in Nat /\ Cap >= 1
  /\ Untrackable \in Nat /\ Untrackable >= 1
  /\ ExactBits \in Nat /\ Pow2[ExactBits] \in Nat /\ Pow2[ExactBits] >= 1
  /\ Limit \div 2 \in Nat /\ Limit \div 2 >= 1
  /\ \E k \in Nat : Untrackable = Pow2[k]
  /\ \E k \in Nat : Limit \div 2 = Pow2[k]
<1>1. Cap \in Nat /\ Cap >= 1 /\ ExactBits \in Nat /\ \E k \in Nat : Untrackable = Pow2[k]
  BY CaptureAssumption, ConstantFacts
<1>2. Untrackable \in Nat /\ Untrackable >= 1 /\ Pow2[ExactBits] \in Nat /\ Pow2[ExactBits] >= 1
  BY <1>1, Pow2Grows
<1>3. Limit \div 2 = Pow2[WordBits - 1] /\ WordBits - 1 \in Nat
  <2>1. WordBits - 1 \in Nat /\ (WordBits - 1) + 1 = WordBits
    BY ConstantFacts
  <2>2. Pow2[WordBits - 1] \in Nat /\ Limit = 2 * Pow2[WordBits - 1]
    BY <2>1, Pow2Step DEF Limit
  <2>3. QED
    BY <2>1, <2>2
<1>4. QED
  BY <1>1, <1>2, <1>3, Pow2Grows

\* Powers of two multiply by adding their exponents.
LEMMA Pow2Sum == \A m, n \in Nat : Pow2[m + n] = Pow2[m] * Pow2[n]
<1> SUFFICES ASSUME NEW m \in Nat PROVE \A n \in Nat : Pow2[m + n] = Pow2[m] * Pow2[n]
  OBVIOUS
<1> DEFINE T == {n \in Nat : Pow2[m + n] = Pow2[m] * Pow2[n]}
<1>1. 0 \in T
  BY Pow2Step
<1>2. ASSUME NEW n \in T PROVE n + 1 \in T
  <2>1. /\ Pow2[m] \in Nat /\ Pow2[n] \in Nat /\ Pow2[m + n] = Pow2[m] * Pow2[n]
        /\ Pow2[n + 1] = 2 * Pow2[n] /\ Pow2[(m + n) + 1] = 2 * Pow2[m + n]
        /\ m + (n + 1) = (m + n) + 1
    BY Pow2Step
  <2>2. \A a, b \in Nat : 2 * (a * b) = a * (2 * b)
    BY SMTT(30)
  <2>3. Pow2[m + (n + 1)] = Pow2[m] * Pow2[n + 1]
    BY <2>1, <2>2
  <2>4. QED
    BY <2>3
<1>3. T \subseteq Nat
  OBVIOUS
<1>4. \A n \in Nat : n \in T
  <2> HIDE DEF T
  <2>1. QED
    BY <1>1, <1>2, <1>3, NatSetInduction
<1>5. QED
  BY <1>4

\* The values that share a counter do not straddle a power of two.
LEMMA EquivalentRange ==
  ASSUME NEW v \in 0 .. Limit - 1
  PROVE  /\ HighestEquivalent(v) \in Nat
         /\ \A k \in Nat : v < Pow2[k] => HighestEquivalent(v) < Pow2[k]
<1>1. v \in Nat
  BY ConstantFacts
<1>2. CASE v < Pow2[ExactBits]
  BY <1>1, <1>2 DEF HighestEquivalent
<1>3. CASE ~ (v < Pow2[ExactBits])
  <2> DEFINE F == FloorLog2(v)
             size == Pow2[F - ExactBits + 1]
             K == Pow2[ExactBits]
             q == v \div size
             r == v % size
  <2>1. v \in 1 .. Limit - 1 /\ K \in Nat /\ K <= v
    BY <1>1, <1>3, CaptureFacts, ConstantFacts
  <2>2. F \in Nat /\ Pow2[F] <= v /\ v < Pow2[F + 1] /\ F + 1 \in Nat /\ Pow2[F + 1] \in Nat
    BY <2>1, FloorLog2Range, Pow2Grows
  <2> HIDE DEF F
  <2>3. F - ExactBits + 1 \in Nat /\ (F - ExactBits + 1) + ExactBits = F + 1
    <3>1. ~ (F + 1 <= ExactBits)
      <4>1. F + 1 <= ExactBits => Pow2[F + 1] <= K
        BY <2>2, CaptureFacts, Pow2Grows
      <4>2. QED
        BY <1>1, <2>1, <2>2, <4>1
    <3>2. QED
      BY <2>2, <3>1, CaptureFacts
  <2>4. size \in Nat /\ size >= 1 /\ Pow2[F + 1] = size * K
    <3>1. Pow2[(F - ExactBits + 1) + ExactBits] = size * K
      BY <2>3, CaptureFacts, Pow2Sum
    <3>2. size \in Nat /\ size >= 1
      BY <2>3, Pow2Grows
    <3> HIDE DEF size, K
    <3>3. QED
      BY <2>3, <3>1, <3>2
  <2>5. HighestEquivalent(v) = v + (size - 1 - r)
    BY <1>3 DEF HighestEquivalent, F
  <2> HIDE DEF size, K
  <2>6. q \in Int /\ r \in 0 .. size - 1 /\ v = size * q + r
    BY <1>1, <2>4, DivMod
  <2> HIDE DEF q, r
  <2>7. size * q \in Int /\ size * K \in Int
    BY <2>1, <2>4, <2>6
  <2>8. size * q + size <= size * K
    <3>1. size * q < size * K
      BY <1>1, <2>2, <2>4, <2>6, <2>7
    <3>2. ~ (q > K) /\ q # K
      <4>1. q > K => size * q >= size * K + size
        BY <2>1, <2>4, <2>6, MultipleGap
      <4>2. QED
        BY <2>4, <2>7, <3>1, <4>1
    <3>3. K > q
      BY <2>1, <2>6, <3>2
    <3>4. QED
      BY <2>1, <2>4, <2>6, <3>3, MultipleGap
  <2>9. HighestEquivalent(v) \in Nat /\ HighestEquivalent(v) < Pow2[F + 1]
    BY <1>1, <2>4, <2>5, <2>6, <2>7, <2>8
  <2>10. ASSUME NEW k \in Nat, v < Pow2[k] PROVE Pow2[F + 1] <= Pow2[k]
    <3>1. ~ (k <= F)
      <4>1. k <= F => Pow2[k] <= Pow2[F]
        BY <2>2, Pow2Grows
      <4>2. Pow2[k] \in Nat /\ Pow2[F] \in Nat
        BY <2>2, Pow2Grows
      <4>3. QED
        BY <1>1, <2>2, <2>10, <4>1, <4>2
    <3>2. F + 1 <= k
      BY <2>2, <3>1
    <3>3. QED
      BY <2>2, <3>2, Pow2Grows
  <2>11. ASSUME NEW k \in Nat, v < Pow2[k] PROVE HighestEquivalent(v) < Pow2[k]
    <3>1. Pow2[F + 1] <= Pow2[k] /\ Pow2[k] \in Nat
      BY <2>10, <2>11, Pow2Grows
    <3>2. QED
      BY <2>2, <2>9, <3>1
  <2>12. QED
    BY <2>9, <2>11
<1>4. QED
  BY <1>2, <1>3

\* A negative difference takes the place of zero, any other sample its own.
LEMMA PlaceValue ==
  ASSUME NEW v \in 0 .. Limit - 1
  PROVE  /\ Signed(v) \in Int
         /\ Signed(v) < 0 <=> v >= Limit \div 2
         /\ Signed(v) >= 0 => Signed(v) = v /\ v < Limit \div 2
         /\ Place(v) = IF Signed(v) < 0 THEN 0 ELSE v
<1> DEFINE H == Limit \div 2
           s == Signed(v)
<1>1. H \in Nat /\ Limit \in Nat /\ v \in Nat /\ v < Limit
  BY CaptureFacts, ConstantFacts
<1>2. s = IF v < H THEN v ELSE v - Limit
  BY DEF Signed
<1> HIDE DEF H, s
<1>3. s \in Int /\ (s < 0 <=> v >= H) /\ (s >= 0 => (s = v /\ v < H))
  <2>1. CASE v < H
    BY <1>1, <1>2, <2>1
  <2>2. CASE v >= H
    <3>1. s = v - Limit
      BY <1>1, <1>2, <2>2
    <3>2. QED
      BY <1>1, <2>2, <3>1
  <2>3. QED
    BY <1>1, <2>1, <2>2
<1>4. Max({0, s}) = IF 0 <= s THEN s ELSE 0
  <2>1. 0 \in Int /\ s \in Int
    BY <1>3
  <2>2. QED
    BY ONLY <2>1, MinMaxPair
<1>5. Place(v) = IF s < 0 THEN 0 ELSE v
  BY <1>3, <1>4 DEF Place, s
<1>6. QED
  BY <1>3, <1>5 DEF s, H

\* What a sample that is pushed adds to the copies of a value.
LEMMA StoredAppend ==
  ASSUME NEW d \in Seq(Values), NEW w \in Values, NEW v \in Values
  PROVE  LET stored(s) == Cardinality({i \in DOMAIN s : s[i] = v}) IN
           stored(d) \in Nat /\ stored(Append(d, w)) = stored(d) + (IF v = w THEN 1 ELSE 0)
<1> DEFINE n == Len(d)
           e == Append(d, w)
           D == {i \in DOMAIN d : d[i] = v}
           E == {i \in DOMAIN e : e[i] = v}
<1>1. /\ n \in Nat /\ DOMAIN d = 1..n /\ DOMAIN e = 1..(n + 1)
      /\ e[n + 1] = w /\ \A i \in 1..n : e[i] = d[i]
  BY AppendProperties, LenProperties
<1>2. IsFiniteSet(D) /\ Cardinality(D) \in Nat
  <2>1. IsFiniteSet(1..n) /\ D \in SUBSET (1..n)
    BY <1>1, FS_Interval
  <2> HIDE DEF D
  <2>2. QED
    BY <2>1, FS_Subset, FS_CardinalityType
<1>3. n + 1 \notin D
  BY <1>1
<1>4. E = IF v = w THEN D \union {n + 1} ELSE D
  BY <1>1
<1> HIDE DEF D, E
<1>5. Cardinality(D \union {n + 1}) = Cardinality(D) + 1
  BY <1>2, <1>3, FS_AddElement
<1>6. Cardinality(E) = Cardinality(D) + (IF v = w THEN 1 ELSE 0)
  BY <1>2, <1>4, <1>5
<1>7. QED
  BY <1>2, <1>6 DEF D, E

\* A push keeps the accounts of the buffer, whether the sample is kept or dropped.
LEMMA PushInv ==
  ASSUME HdrInv, BufferInv, NEW w \in Values, Record(w), TryPush(w)
  PROVE  BufferInv'
<1>1. /\ data_ \in Seq(Values) /\ Len(data_) <= Cap /\ Len(data_) \in Nat /\ dropped_ \in Nat
      /\ Len(data_) + dropped_ = Total /\ (dropped_ > 0 => Len(data_) = Cap)
      /\ \A v \in Values : Stored(v) <= samples[v]
  BY LenProperties DEF BufferInv, BufferAccountsForWindow
<1>2. samples \in [Values -> Nat] /\ samples' = [samples EXCEPT ![w] = @ + 1]
  BY DEF HdrInv, Typed, Record
<1>3. Total' = Total + 1
  <2>1. DOMAIN samples = Values /\ DOMAIN samples' = Values
    BY <1>2
  <2>2. SumFunctionOnSet(samples', Values) = SumFunctionOnSet(samples, Values) + 1
    BY <1>2, OneMoreSample
  <2>3. QED
    BY <2>1, <2>2 DEF Total, SumFunction
<1>4. \A v \in Values : /\ samples'[v] = samples[v] + (IF v = w THEN 1 ELSE 0)
                        /\ samples[v] \in Nat
  BY <1>2
<1>5. \A v \in Values : /\ Stored(v) \in Nat
                        /\ Cardinality({i \in DOMAIN Append(data_, w) : Append(data_, w)[i] = v})
                             = Stored(v) + (IF v = w THEN 1 ELSE 0)
  BY <1>1, StoredAppend DEF Stored
<1>6. CASE Len(data_) >= Cap
  <2>1. dropped_' = dropped_ + 1 /\ data_' = data_
    BY <1>6 DEF TryPush
  <2>2. \A v \in Values : Stored(v)' = Stored(v)
    BY <2>1 DEF Stored
  <2>3. ASSUME NEW v \in Values PROVE Stored(v)' <= samples'[v]
    <3>1. PICK a \in Nat, b \in Nat : a = Stored(v) /\ b = samples[v]
      BY <1>4, <1>5
    <3>2. a <= b /\ Stored(v)' = a /\ (samples'[v] = b \/ samples'[v] = b + 1)
      BY <1>1, <1>4, <2>2, <3>1
    <3>3. QED
      BY <3>2
  <2>4. Len(data_) = Cap /\ Total' = Len(data_) + (dropped_ + 1) /\ dropped_ + 1 \in Nat
    BY <1>1, <1>3, <1>6, CaptureFacts
  <2>5. QED
    BY <1>1, <2>1, <2>3, <2>4 DEF BufferInv, BufferAccountsForWindow
<1>7. CASE Len(data_) < Cap
  <2>1. data_' = Append(data_, w) /\ dropped_' = dropped_
    BY <1>1, <1>7, CaptureFacts DEF TryPush
  <2>2. data_' \in Seq(Values) /\ Len(data_') = Len(data_) + 1
    BY <1>1, <2>1, AppendProperties
  <2>3. \A v \in Values : Stored(v)' = Stored(v) + (IF v = w THEN 1 ELSE 0)
    BY <1>5, <2>1 DEF Stored
  <2>4. ASSUME NEW v \in Values PROVE Stored(v)' <= samples'[v]
    <3>1. PICK a \in Nat, b \in Nat : a = Stored(v) /\ b = samples[v]
      BY <1>4, <1>5
    <3>2. /\ a <= b
          /\ Stored(v)' = a + (IF v = w THEN 1 ELSE 0)
          /\ samples'[v] = b + (IF v = w THEN 1 ELSE 0)
      BY <1>1, <1>4, <2>3, <3>1
    <3>3. QED
      BY <3>2
  <2>5. dropped_ = 0
    BY <1>1, <1>7, CaptureFacts
  <2>6. Len(data_') <= Cap /\ Len(data_') + dropped_' = Total'
    BY <1>1, <1>3, <1>7, <2>1, <2>2, CaptureFacts
  <2>7. QED
    BY <2>1, <2>2, <2>4, <2>5, <2>6 DEF BufferInv, BufferAccountsForWindow
<1>8. QED
  BY <1>1, <1>6, <1>7, CaptureFacts

\* A window that has just begun: no sample is in it, and the buffer is empty.
LEMMA EmptyBuffer ==
  HdrInv /\ count_ = 0 /\ data_ = <<>> /\ dropped_ = 0 => BufferInv
<1> SUFFICES ASSUME HdrInv, count_ = 0, data_ = <<>>, dropped_ = 0 PROVE BufferInv
  OBVIOUS
<1>1. data_ \in Seq(Values) /\ Len(data_) = 0 /\ DOMAIN data_ = {}
  BY EmptySeq
<1>2. \A v \in Values : Stored(v) = 0
  <2>1. \A v \in Values : {i \in DOMAIN data_ : data_[i] = v} = {}
    BY <1>1
  <2>2. QED
    BY <2>1, FS_EmptySet DEF Stored
<1>3. Total = 0 /\ \A v \in Values : samples[v] \in Nat
  BY DEF HdrInv, Typed
<1>4. QED
  BY <1>1, <1>2, <1>3, CaptureFacts DEF BufferInv, BufferAccountsForWindow

\* ... and the C histogram, if there is one, counts nothing.
LEMMA EmptyCounts ==
  HdrInv /\ count_ = 0 /\ hist_ \in {Null, Counting(NoCounts)} => CountsInv
<1> SUFFICES ASSUME HdrInv, count_ = 0, hist_ \in {Null, Counting(NoCounts)} PROVE CountsInv
  OBVIOUS
<1>1. samples \in [Values -> Nat] /\ SumFunction(samples) = 0
  BY DEF HdrInv, Typed, Total
<1>2. Recorded = {}
  <2>1. \A v \in Values : samples[v] \in Nat /\ samples[v] <= 0
    BY <1>1, SampleSums
  <2>2. QED
    BY <2>1 DEF Recorded
<1>3. SumFunctionOnSet(samples, {v \in Values : Signed(v) >= Untrackable}) = 0
  <2> DEFINE B == {v \in Values : Signed(v) >= Untrackable}
  <2>1. B \in SUBSET Values
    OBVIOUS
  <2> HIDE DEF B
  <2>2. SumFunctionOnSet(samples, B) \in Nat /\ SumFunctionOnSet(samples, B) <= 0
    BY <1>1, <2>1, SampleSums
  <2>3. SumFunctionOnSet(samples, B) = 0
    BY <2>2
  <2>4. QED
    BY <2>3 DEF B
<1>4. CASE hist_ = Null
  BY <1>4 DEF CountsInv, OnlyOutliersVanish, Null
<1>5. CASE hist_ = Counting(NoCounts)
  <2>1. hist_.valid /\ hist_.counts = NoCounts /\ hist_ = Counting(hist_.counts)
    BY <1>5 DEF Counting
  <2>2. /\ NoCounts \in [Values \union {0} -> Nat] /\ DOMAIN NoCounts = Values \union {0}
        /\ \A v \in Values \union {0} : NoCounts[v] = 0
    BY DEF NoCounts
  <2>3. SumFunction(NoCounts) = 0
    <3>1. IsFiniteSet(Values \union {0})
      BY ConstantFacts, FS_AddElement
    <3>2. SumFunctionOnSet(NoCounts, Values \union {0}) = 0
      BY <2>2, <3>1, SumZero
    <3>3. QED
      BY <2>2, <3>2 DEF SumFunction
  <2>4. OnlyOutliersVanish
    BY <1>3, <2>1, <2>3 DEF OnlyOutliersVanish
  <2>5. \A w \in Values \union {0} :
          hist_.counts[w] > 0 <=> \E v \in Recorded : w = Place(v) /\ w < Untrackable
    BY <1>2, <2>1, <2>2
  <2>6. QED
    BY <2>1, <2>2, <2>4, <2>5 DEF CountsInv
<1>6. QED
  BY <1>4, <1>5

LEMMA CaptureInitInv == CaptureInit => CaptureInv
<1> SUFFICES ASSUME CaptureInit PROVE CaptureInv
  OBVIOUS
<1>1. HdrInv /\ count_ = 0
  BY InitInv DEF CaptureInit, Init, Cleared
<1>2. QED
  BY <1>1, EmptyBuffer, EmptyCounts DEF CaptureInit, CaptureInv

\* The next window starts all three recorders anew.
LEMMA NextWindowInv ==
  ASSUME CaptureInv, NextWindow
  PROVE  CaptureInv'
<1>1. HdrInv' /\ count_' = 0
  BY ResetInv DEF NextWindow, Reset, Cleared
<1>2. data_' = <<>> /\ dropped_' = 0
  BY DEF NextWindow, Clear
<1>3. hist_' \in {Null, Counting(NoCounts)}
  <2>1. hist_ = Null \/ hist_.valid
    BY DEF CaptureInv, CountsInv, Counting
  <2>2. QED
    BY <2>1 DEF NextWindow, CReset
<1>4. (HdrInv /\ count_ = 0 /\ data_ = <<>> /\ dropped_ = 0 => BufferInv)'
  BY EmptyBuffer, PTL
<1>5. (HdrInv /\ count_ = 0 /\ hist_ \in {Null, Counting(NoCounts)} => CountsInv)'
  BY EmptyCounts, PTL
<1>6. BufferInv'
  BY <1>1, <1>2, <1>4
<1>7. CountsInv'
  BY <1>1, <1>3, <1>5 DEF Null, Counting, NoCounts
<1>8. QED
  BY <1>1, <1>6, <1>7 DEF CaptureInv

\* Which samples the C histogram refuses, in terms of the place it would count them at.
LEMMA PlaceFacts ==
  ASSUME NEW v \in Values
  PROVE  /\ Place(v) \in Values \union {0} /\ Place(v) \in Nat
         /\ Place(v) < Untrackable <=> ~ (Signed(v) >= Untrackable)
<1>1. v \in 0 .. Limit - 1 /\ v \in Nat
  BY HistogramAssumption, ConstantFacts
<1>2. Signed(v) \in Int /\ Place(v) = IF Signed(v) < 0 THEN 0 ELSE v
  BY <1>1, PlaceValue
<1>3. Signed(v) >= 0 => Signed(v) = v
  BY <1>1, PlaceValue
<1>4. QED
  BY <1>1, <1>2, <1>3, CaptureFacts

\* A record keeps the C histogram in step with the window, whether it counts or refuses.
LEMMA CRecordInv ==
  ASSUME HdrInv, CountsInv, NEW w \in Values, Record(w), CRecord(Place(w))
  PROVE  CountsInv'
<1> DEFINE p == Place(w)
           c == hist_.counts
           P == Values \union {0}
           B == {v \in Values : Signed(v) >= Untrackable}
<1>1. /\ samples \in [Values -> Nat] /\ samples' = [samples EXCEPT ![w] = @ + 1]
      /\ count_ \in Nat /\ count_' = count_ + 1
  BY DEF HdrInv, Typed, Record
<1>2. Recorded' = Recorded \union {w}
  <2>1. \A v \in Values : samples[v] \in Nat /\ samples'[v] = samples[v] + (IF v = w THEN 1 ELSE 0)
    BY <1>1
  <2>2. \A v \in Values : samples'[v] > 0 <=> samples[v] > 0 \/ v = w
    BY <2>1
  <2>3. QED
    BY <2>2 DEF Recorded
<1>3. /\ p \in P /\ p \in Nat
      /\ p < Untrackable <=> w \notin B
  BY PlaceFacts
<1>4. SumFunctionOnSet(samples', B) = SumFunctionOnSet(samples, B) + (IF w \in B THEN 1 ELSE 0)
  <2>1. B \in SUBSET Values
    OBVIOUS
  <2> HIDE DEF B
  <2>2. QED
    BY <1>1, <2>1, OneMoreSample
<1>5. SumFunctionOnSet(samples, B) \in Nat
  <2>1. B \in SUBSET Values
    OBVIOUS
  <2> HIDE DEF B
  <2>2. QED
    BY <1>1, <2>1, SampleSums
<1>6. Recorded \in SUBSET Values
  BY DEF Recorded
<1>7. ~ hist_.valid => hist_ = Null
  BY DEF CountsInv, Counting
<1>8. CASE ~ hist_.valid
  <2>1. hist_' = hist_ /\ hist_ = Null
    BY <1>7, <1>8 DEF CRecord, Counted
  <2>2. QED
    BY <2>1 DEF CountsInv, OnlyOutliersVanish, Null
<1>9. ASSUME hist_.valid
      PROVE  /\ hist_ = Counting(c) /\ c \in [P -> Nat]
             /\ \A u \in P : c[u] > 0 <=> \E v \in Recorded : u = Place(v) /\ u < Untrackable
             /\ SumFunction(c) = count_ - SumFunctionOnSet(samples, B)
  BY <1>9 DEF CountsInv, OnlyOutliersVanish, Null
<1>10. CASE hist_.valid /\ w \in B
  <2>1. hist_' = hist_ /\ ~ (p < Untrackable)
    BY <1>3, <1>10 DEF CRecord, Counted
  <2>2. \A u \in P : c[u] > 0 <=> \E v \in Recorded' : u = Place(v) /\ u < Untrackable
    BY <1>2, <1>9, <1>10, <2>1
  <2>3. SumFunction(c) = count_' - SumFunctionOnSet(samples', B)
    <3> HIDE DEF B, c
    <3>1. SumFunction(c) = count_ - SumFunctionOnSet(samples, B)
      BY <1>9, <1>10 DEF B, c
    <3>2. QED
      BY <1>1, <1>4, <1>5, <1>10, <3>1
  <2>4. QED
    BY <1>9, <1>10, <2>1, <2>2, <2>3 DEF CountsInv, OnlyOutliersVanish
<1>11. CASE hist_.valid /\ w \notin B
  <2> DEFINE d == [c EXCEPT ![p] = @ + 1]
  <2>1. c \in [P -> Nat] /\ p \in P
    BY <1>3, <1>9, <1>11
  <2>2. hist_' = Counting(d)
    BY <1>3, <1>11 DEF CRecord, Counted
  <2>3. hist_'.valid /\ hist_'.counts = d
    BY <2>2 DEF Counting
  <2>4. d \in [P -> Nat] /\ d[p] = c[p] + 1 /\ (\A u \in P \ {p} : d[u] = c[u])
    BY <2>1
  <2>5. \A u \in P : d[u] > 0 <=> \E v \in Recorded' : u = Place(v) /\ u < Untrackable
    <3>1. d[p] > 0
      BY <2>1, <2>4
    <3>2. p = Place(w) /\ p < Untrackable
      BY <1>3, <1>11
    <3>3. QED
      BY <1>2, <1>9, <1>11, <2>4, <3>1, <3>2
  <2>6. SumFunction(d) = SumFunction(c) + 1 /\ SumFunction(c) \in Int
    <3> HIDE DEF c, d, p, P
    <3>1. IsFiniteSet(P) /\ \A u \in P : c[u] \in Int
      BY <2>1, ConstantFacts, FS_AddElement DEF P
    <3>2. SumFunctionOnSet(d, P) = SumFunctionOnSet(c, P) + 1 /\ SumFunctionOnSet(c, P) \in Int
      BY <2>1, <2>4, <3>1, SumUpdate, SumRemove
    <3>3. DOMAIN d = P /\ DOMAIN c = P
      BY <2>1, <2>4
    <3>4. QED
      BY <3>2, <3>3 DEF SumFunction
  <2>7. SumFunction(d) = count_' - SumFunctionOnSet(samples', B)
    <3> HIDE DEF B, c, d
    <3>1. SumFunction(c) = count_ - SumFunctionOnSet(samples, B)
      BY <1>9, <1>11 DEF B, c
    <3>2. QED
      BY <1>1, <1>4, <1>5, <1>11, <2>6, <3>1
  <2>8. QED
    BY <2>2, <2>3, <2>4, <2>5, <2>7 DEF CountsInv, OnlyOutliersVanish
<1>12. QED
  BY <1>8, <1>10, <1>11

LEMMA CaptureStepInv ==
  ASSUME CaptureInv, [CaptureNext]_captureVars
  PROVE  CaptureInv'
<1>1. CASE NextWindow
  BY <1>1, NextWindowInv
<1>2. ASSUME NEW w \in Values, Capture(w) PROVE CaptureInv'
  <2>1. Record(w) /\ TryPush(w) /\ CRecord(Place(w))
    BY <1>2 DEF Capture, Place
  <2>2. HdrInv'
    BY <2>1, RecordInv DEF CaptureInv
  <2>3. BufferInv'
    BY <2>1, PushInv DEF CaptureInv
  <2>4. CountsInv'
    BY <2>1, CRecordInv DEF CaptureInv
  <2>5. QED
    BY <2>2, <2>3, <2>4 DEF CaptureInv
<1>3. CASE UNCHANGED captureVars
  BY <1>3 DEF captureVars, vars, CaptureInv, HdrInv, Typed, BucketsCount, Total, Extremes,
              Recorded, BufferInv, BufferAccountsForWindow, Stored, CountsInv, OnlyOutliersVanish
<1>4. QED
  BY <1>1, <1>2, <1>3 DEF CaptureNext

\* What the C histogram has seen, and where the two maxima lie.
LEMMA MaximaPart == CaptureInv => MaximaPartOnOutliers
<1> SUFFICES ASSUME CaptureInv, hist_.valid
             PROVE  IF Outliers = {} THEN CMax = HighestEquivalent(max_) ELSE CMax < max_
  BY DEF MaximaPartOnOutliers
<1>1. Recorded \subseteq Values /\ Outliers \subseteq Recorded
  BY DEF Recorded, Outliers
<1>2. \A v \in Recorded : /\ v \in Nat
                          /\ Place(v) \in Nat /\ Place(v) \in Values \union {0}
                          /\ Signed(v) \in Int
                          /\ Signed(v) < 0 <=> v >= Limit \div 2
                          /\ Signed(v) >= 0 => (Signed(v) = v /\ v < Limit \div 2)
                          /\ Place(v) = IF Signed(v) < 0 THEN 0 ELSE v
  <2>1. \A v \in Recorded : v \in 0 .. Limit - 1
    BY <1>1, HistogramAssumption
  <2>2. QED
    BY <1>1, <2>1, PlaceValue, PlaceFacts, ConstantFacts
<1>3. \A u \in CSeen : \E v \in Recorded : u = Place(v) /\ u < Untrackable
  BY DEF CaptureInv, CountsInv, CSeen, Null
<1>4. \A v \in Recorded : Place(v) < Untrackable => Place(v) \in CSeen
  BY <1>2 DEF CaptureInv, CountsInv, CSeen, Null
<1>5. CMax = IF CSeen = {} THEN 0 ELSE HighestEquivalent(Max(CSeen))
  BY DEF CMax
<1>6. IF Recorded = {} THEN max_ = 0 ELSE max_ = Max(Recorded)
  BY DEF CaptureInv, HdrInv, Extremes
<1>7. CASE Outliers = {}
  <2>1. ASSUME NEW v \in Recorded PROVE Place(v) = v /\ v < Untrackable
    <3>1. ~ (Signed(v) < 0) /\ ~ (Signed(v) >= Untrackable)
      BY <1>7 DEF Outliers
    <3>2. Signed(v) = v /\ Place(v) = v /\ v \in Nat
      BY <1>2, <3>1
    <3>3. QED
      BY <3>1, <3>2, CaptureFacts
  <2>2. CSeen = Recorded
    BY <1>3, <1>4, <2>1
  <2>3. HighestEquivalent(0) = 0
    BY CaptureFacts DEF HighestEquivalent
  <2>4. QED
    BY <1>5, <1>6, <1>7, <2>2, <2>3
<1>8. CASE Outliers # {}
  <2>1. PICK o \in Recorded : Signed(o) < 0 \/ Signed(o) >= Untrackable
    BY <1>8 DEF Outliers
  <2>2. max_ \in Nat /\ o \in Nat /\ o <= max_
    <3>1. \A v \in Recorded : v <= Limit - 1
      BY <1>1, HistogramAssumption, ConstantFacts
    <3>2. Recorded \subseteq Nat /\ Limit - 1 \in Nat
      BY <1>2, ConstantFacts
    <3>3. Max(Recorded) \in Recorded /\ \A v \in Recorded : v <= Max(Recorded)
      BY <2>1, <3>1, <3>2, MaxNatural
    <3>4. QED
      BY <1>2, <1>6, <2>1, <3>3
  <2>3. /\ Signed(o) < 0 => o >= Limit \div 2
        /\ Signed(o) >= Untrackable => o >= Untrackable
    BY <1>2, <2>1, CaptureFacts
  <2>4. CASE CSeen = {}
    <3>1. CMax = 0
      BY <1>5, <2>4
    <3>2. QED
      BY <1>8, <2>1, <2>2, <2>3, <3>1, CaptureFacts
  <2>5. CASE CSeen # {}
    <3>1. \A u \in CSeen : u \in Nat /\ u < Untrackable
      BY <1>2, <1>3
    <3>2. Max(CSeen) \in CSeen
      <4>1. CSeen \subseteq Nat /\ \A u \in CSeen : u <= Untrackable
        BY <3>1, CaptureFacts
      <4>2. QED
        BY <2>5, <4>1, MaxNatural, CaptureFacts
    <3> DEFINE m == Max(CSeen)
    <3>3. PICK v \in Recorded : m = Place(v) /\ m < Untrackable
      BY <1>3, <3>2
    <3>4. m \in 0 .. Limit - 1 /\ m < Limit \div 2
      <4>1. m \in Nat /\ m < Limit \div 2
        BY <1>2, <3>3, CaptureFacts
      <4>2. v \in 0 .. Limit - 1
        BY <1>1, HistogramAssumption
      <4>3. m <= v
        BY <1>2, <3>3
      <4>4. QED
        BY <4>1, <4>2, <4>3, ConstantFacts
    <3> HIDE DEF m
    <3>5. /\ HighestEquivalent(m) \in Nat /\ HighestEquivalent(m) < Untrackable
          /\ HighestEquivalent(m) < Limit \div 2
      BY <3>3, <3>4, EquivalentRange, CaptureFacts
    <3>6. CMax = HighestEquivalent(m)
      BY <1>5, <2>5 DEF m
    <3>7. CASE Signed(o) < 0
      BY <1>8, <2>2, <2>3, <3>5, <3>6, <3>7, CaptureFacts
    <3>8. CASE Signed(o) >= Untrackable
      BY <1>8, <2>2, <2>3, <3>5, <3>6, <3>8, CaptureFacts
    <3>9. QED
      BY <2>1, <3>7, <3>8
  <2>6. QED
    BY <2>4, <2>5
<1>9. QED
  BY <1>7, <1>8

LEMMA CaptureInvariant == CaptureSpec => []CaptureInv
<1>1. CaptureInv /\ [CaptureNext]_captureVars => CaptureInv'
  BY CaptureStepInv
<1>2. QED
  BY <1>1, CaptureInitInv, PTL DEF CaptureSpec

--------------------------------------------------------------------------------
(* Theorems                                                                        *)

\* The histogram is unaware of the two recorders next to it: a measuring loop is one
\* of its behaviours, and what holds of every behaviour of record() and reset() holds
\* of it (example_hdr_c gives each latency to both histograms).
LEMMA LoopIsHistogram == CaptureSpec => Spec
<1>1. CaptureInit => Init
  BY DEF CaptureInit
<1>2. [CaptureNext]_captureVars => [Next]_vars
  <2>1. CASE NextWindow
    BY <2>1 DEF NextWindow, Next
  <2>2. CASE \E w \in Values : Capture(w)
    BY <2>2 DEF Capture, Next
  <2>3. CASE UNCHANGED captureVars
    BY <2>3 DEF captureVars
  <2>4. QED
    BY <2>1, <2>2, <2>3 DEF CaptureNext
<1>3. QED
  BY <1>1, <1>2, PTL DEF CaptureSpec, Spec

\* Type correctness of ll::HdrLatencyHistogram: no bucket, count or extreme leaves its
\* range, whatever is recorded and however often the histogram is reset.
THEOREM TypeCorrect == CaptureSpec => []TypeOK
BY LoopIsHistogram, HdrInvariant, HdrTypes, PTL

\* However record() and reset() are interleaved, the fields of the histogram describe
\* one and the same bag of samples.
THEOREM OneBagOfSamples == CaptureSpec => []FieldsAgree
BY LoopIsHistogram, HdrInvariant, HdrFields, PTL

\* value_at_percentile() answers the representative of the very bucket that the sample
\* of that rank fell into, for any percentage, rounding and distribution.
THEOREM PercentilesFindTheirRank == CaptureSpec => []PercentileFindsRank
BY LoopIsHistogram, HdrInvariant, FindsRank, PTL

\* A higher percentage never gives a lower value, whichever way the two products in
\* value_at_percentile() are rounded.
THEOREM PercentilesNeverDecrease == CaptureSpec => []PercentilesMonotone
BY LoopIsHistogram, HdrInvariant, Monotone, PTL

\* Short of the last bucket, the sample that value_at_percentile() stands for is off
\* what it reports by a third of the report at most.
THEOREM SamplesWithinThird == CaptureSpec => []SampleWithinThird
BY LoopIsHistogram, HdrInvariant, WithinThird, PTL

\* LatencyBuffer::try_push() and clear() keep the accounts of the window: the samples
\* it holds are samples of this window, and dropped() counts exactly the others.
THEOREM BufferKeepsAccounts == CaptureSpec => []BufferAccountsForWindow
<1>1. CaptureInv => BufferAccountsForWindow
  BY DEF CaptureInv, BufferInv
<1>2. QED
  BY <1>1, CaptureInvariant, PTL

\* HdrHistogramC::record() loses the samples above the range of its handle and no
\* others; negative differences are zeros to it.
THEOREM LossIsExact == CaptureSpec => []OnlyOutliersVanish
<1>1. CaptureInv => OnlyOutliersVanish
  BY DEF CaptureInv, CountsInv
<1>2. QED
  BY <1>1, CaptureInvariant, PTL

\* Without an outlier HdrHistogramC::max() is the portable maximum, rounded up to the
\* highest value that shares its counter; with one it stays below it.
THEOREM MaximaTellOutliers == CaptureSpec => []MaximaPartOnOutliers
BY CaptureInvariant, MaximaPart, PTL

================================================================================
