----------------------------- MODULE LatencyCapture ----------------------------
(* A measuring loop that gives each latency to three recorders at once: the        *)
(* portable histogram, ll::HdrHistogramC (include/ll/hdr_c.hpp), as in             *)
(* examples/hdr_c/main.cpp, and ll::LatencyBuffer<Cap> (include/ll/tsc_clock.hpp). *)
(* A latency is an unsigned word; from half of its range on it is a negative       *)
(* difference, of two clocks that disagree.                                        *)
EXTENDS HdrHistogram, Sequences

CONSTANTS
  Cap,          \* the template parameter of LatencyBuffer
  ExactBits,    \* values of at most this many bits are exact in the C histogram
  Untrackable   \* the least value that the C histogram cannot count

ASSUME CaptureAssumption ==
  /\ Cap \in Nat \ {0}
  /\ ExactBits \in 1..WordBits
  /\ \E k \in ExactBits..WordBits : Untrackable = Pow2[k]

VARIABLES
  data_, dropped_,   \* LatencyBuffer: its first n_ = Len(data_) samples, and drops
  hist_              \* HdrHistogramC: the values that its handle counts, or Null

captureVars == <<vars, data_, dropped_, hist_>>

Null == [valid |-> FALSE, counts |-> <<>>]
Counting(counts) == [valid |-> TRUE, counts |-> counts]
NoCounts == [v \in Values \union {0} |-> 0]

\* hdr_init may fail, and the handle is null for good then.
CaptureInit ==
  /\ Init
  /\ data_ = <<>> /\ dropped_ = 0
  /\ hist_ \in {Null, Counting(NoCounts)}

\* A full buffer drops the newest sample.
TryPush(v) ==
  IF Len(data_) >= Cap
  THEN dropped_' = dropped_ + 1 /\ UNCHANGED data_
  ELSE data_' = Append(data_, v) /\ UNCHANGED dropped_

\* A faulty clear: the drops of the window before stay.
ClearSamples == data_' = <<>> /\ UNCHANGED dropped_

Clear == data_' = <<>> /\ dropped_' = 0

\* static_cast<std::int64_t>
Signed(v) == IF v < Limit \div 2 THEN v ELSE v - Limit

\* hdr_record_value refuses what is out of its range, and record does not say so.
Counted(value) == hist_.valid /\ value >= 0 /\ value < Untrackable

CRecord(value) ==
  hist_' = IF Counted(value) THEN Counting([hist_.counts EXCEPT ![value] = @ + 1])
           ELSE hist_

\* A faulty reset: the values of the window before stay.
CResetNever == UNCHANGED hist_

CReset == hist_' = IF hist_.valid THEN Counting(NoCounts) ELSE hist_

\* A faulty loop: a negative difference goes to the C histogram as it is.
CaptureUnclamped(v) ==
  /\ Record(v)
  /\ CRecord(Signed(v))
  /\ TryPush(v)

Capture(v) ==
  /\ Record(v)
  /\ CRecord(Max({0, Signed(v)}))
  /\ TryPush(v)

\* The next window: all three start again.
NextWindow ==
  /\ Reset
  /\ CReset
  /\ Clear

CaptureNext == NextWindow \/ \E v \in Values : Capture(v)

CaptureSpec == CaptureInit /\ [][CaptureNext]_captureVars

--------------------------------------------------------------------------------
(* What the wrapper answers                                                        *)

CSeen == {v \in DOMAIN hist_.counts : hist_.counts[v] > 0}

\* The highest of the values that share v's counter: above the exact ones a counter
\* is shared by 2, above twice that by 4 of them, and so on.
HighestEquivalent(v) ==
  IF v < Pow2[ExactBits] THEN v
  ELSE LET size == Pow2[FloorLog2(v) - ExactBits + 1] IN v + (size - 1 - (v % size))

\* hdr_max answers the highest value that shares the recorded maximum's counter.
CMax == IF hist_.valid /\ CSeen # {} THEN HighestEquivalent(Max(CSeen)) ELSE 0

--------------------------------------------------------------------------------
(* Properties *)

Outliers == {v \in Recorded : Signed(v) < 0 \/ Signed(v) >= Untrackable}
Stored(v) == Cardinality({i \in DOMAIN data_ : data_[i] = v})

\* Offline percentiles of the buffer leave out exactly as many samples of this
\* window as dropped() says, and hold none of another one.
BufferAccountsForWindow ==
  /\ \A v \in Values : Stored(v) <= samples[v]
  /\ Len(data_) + dropped_ = Total
  /\ dropped_ > 0 => Len(data_) = Cap

\* What the C histogram counts less than the portable one are the samples above its
\* range and nothing else: negative differences are zeros to it.
OnlyOutliersVanish ==
  hist_.valid =>
    SumFunction(hist_.counts)
      = count_ - SumFunctionOnSet(samples, {v \in Values : Signed(v) >= Untrackable})

\* While the window has no outlier the C histogram's maximum is the portable one but
\* for its own rounding up; with an outlier it is the lower of the two for all its
\* rounding, however many records and resets came before.
MaximaPartOnOutliers ==
  hist_.valid =>
    IF Outliers = {} THEN CMax = HighestEquivalent(max_) ELSE CMax < max_

================================================================================
