---------------------------- MODULE UringRingProofs ----------------------------
(* Proofs about UringRing for a queue of any depth, any failing system calls and *)
(* any number of calls.                                                          *)
EXTENDS UringRing, FiniteSetTheorems, SequenceTheorems, TLAPS

--------------------------------------------------------------------------------
(* The inductive invariant *)

Busy == IF pc \in {"submit", "wait"} THEN 1 ELSE 0

\* No call gives up without being one of the calls made, and the identities in the
\* ring are those of calls made: that of the next call is new to it.
CallsCounted ==
  /\ abandoned + Busy <= calls
  /\ pc = "opened" => calls < MaxCalls
  /\ \A i \in DOMAIN sq : sq[i].call <= calls
  /\ \A op \in inflight : op.call <= calls

\* No operation is in the ring twice, so that a submit adds as many operations to
\* those in flight as it takes from the submission queue.
EntriesDistinct ==
  /\ \A i, j \in DOMAIN sq : sq[i] = sq[j] => i = j
  /\ \A i \in DOMAIN sq : sq[i] \notin inflight
  /\ IsFiniteSet(inflight)

\* A call in progress has its operation in the ring, which a submit that stopped short
\* has left in the submission queue.
CurrentInRing ==
  /\ pc \in {"idle", "opened"} => current = None
  /\ pc = "submit" => \E i \in DOMAIN sq : sq[i] = current
  /\ pc = "wait" => \/ \E i \in DOMAIN sq : sq[i] = current
                    \/ current \in inflight
                    \/ \E i \in DOMAIN cq : cq[i].op = current

IInv ==
  /\ TypeOK
  /\ CallsCounted
  /\ EntriesDistinct
  /\ CurrentInRing
  /\ DescriptorsClosed
  /\ LagIsAbandoned
  /\ ForeignOnlyWhileLagging
  /\ NeverWaitsInVain

--------------------------------------------------------------------------------
(* Lemmas *)

\* The identity of no call is that of the idle thread.
LEMMA OpFacts ==
  /\ None \notin Ops /\ None.call = 0 /\ None.kind = "nop"
  /\ \A op \in Ops : op.call \in 1..MaxCalls /\ op.kind \in Kinds
  BY RingAssumption DEF None, Ops

\* A submit of n entries hands over n operations and leaves the others in order.
LEMMA Handover ==
  ASSUME NEW q \in Seq(Ops), \A i, j \in DOMAIN q : q[i] = q[j] => i = j,
         NEW n \in 1..Len(q), NEW taken, taken = {q[i] : i \in 1..n},
         NEW rest, rest = SubSeq(q, n + 1, Len(q))
  PROVE  /\ IsFiniteSet(taken) /\ Cardinality(taken) = n
         /\ Len(q) \in Nat /\ DOMAIN q = 1..Len(q) /\ n \in Nat /\ n >= 1 /\ n <= Len(q)
         /\ rest \in Seq(Ops) /\ Len(rest) = Len(q) - n /\ DOMAIN rest = 1 .. Len(q) - n
         /\ \A i \in DOMAIN rest : i + n \in DOMAIN q /\ rest[i] = q[i + n]
<1>1. Len(q) \in Nat /\ DOMAIN q = 1..Len(q) /\ n \in Nat /\ n >= 1 /\ n <= Len(q)
  OBVIOUS
<1>2. IsFiniteSet(1..n) /\ Cardinality(1..n) = n
  <2>1. 1 \in Int /\ n \in Int
    BY <1>1
  <2>2. /\ IsFiniteSet(1..n)
        /\ Cardinality(1..n) = IF 1 > n THEN 0 ELSE n - 1 + 1
    BY ONLY <2>1, FS_Interval, Zenon
  <2>3. QED
    BY <1>1, <2>2
<1>3. [i \in 1..n |-> q[i]] \in Bijection(1..n, taken)
  <2>1. \A i, j \in 1..n : q[i] = q[j] => i = j
    BY <1>1
  <2>2. QED
    BY <2>1 DEF Bijection, Injection, Surjection, IsInjective
<1>4. ExistsBijection(1..n, taken)
  BY <1>3 DEF ExistsBijection
<1>5. IsFiniteSet(taken) /\ Cardinality(taken) = n
  BY <1>2, <1>4, FS_Bijection
<1>6. /\ rest \in Seq(Ops) /\ Len(rest) = Len(q) - n
      /\ \A i \in 1 .. Len(q) - n : rest[i] = q[i + n]
  <2>1. \A i \in n + 1 .. Len(q) : q[i] \in Ops
    BY <1>1
  <2>2. n + 1 \in Int /\ Len(q) \in Int
    BY <1>1
  <2>3. /\ rest \in Seq(Ops)
        /\ Len(rest) = IF n + 1 <= Len(q) THEN Len(q) - (n + 1) + 1 ELSE 0
        /\ \A i \in 1 .. Len(q) - (n + 1) + 1 : rest[i] = q[(n + 1) + i - 1]
    BY <2>1, <2>2, SubSeqProperties
  <2>4. \A k, m \in Nat : m <= k => /\ (IF m + 1 <= k THEN k - (m + 1) + 1 ELSE 0) = k - m
                                   /\ k - (m + 1) + 1 = k - m
                                   /\ \A i \in 1 .. k - m : (m + 1) + i - 1 = i + m
    OBVIOUS
  <2>5. Len(rest) = Len(q) - n
    BY <1>1, <2>3, <2>4
  <2>6. ASSUME NEW i \in 1 .. Len(q) - n PROVE rest[i] = q[i + n]
    <3>1. rest[i] = q[(n + 1) + i - 1] /\ (n + 1) + i - 1 = i + n
      BY <1>1, <2>3, <2>4
    <3>2. QED
      BY <3>1
  <2>7. QED
    BY <2>3, <2>5, <2>6
<1>7. DOMAIN rest = 1 .. Len(q) - n
  BY <1>6
<1>8. \A i \in 1 .. Len(q) - n : i + n \in 1..Len(q)
  BY <1>1
<1>9. QED
  BY <1>1, <1>5, <1>6, <1>7, <1>8

\* A process that has not opened its ring has nothing in it.
LEMMA InitInv == Init => IInv
<1> SUFFICES ASSUME Init PROVE IInv
  OBVIOUS
<1> USE DEF Init
<1>1. TypeOK
  <2>1. sq \in Seq(Ops) /\ cq \in Seq(Completions) /\ Len(sq) = 0
    OBVIOUS
  <2>2. Len(sq) <= Depth /\ calls \in 0..MaxCalls /\ abandoned \in 0..MaxCalls
    BY <2>1, RingAssumption
  <2>3. QED
    BY <2>1, <2>2 DEF TypeOK
<1>2. IsFiniteSet(inflight) /\ Cardinality(inflight) = 0
  BY FS_EmptySet
<1>3. CallsCounted
  BY DEF CallsCounted, Busy
<1>4. EntriesDistinct
  BY <1>2 DEF EntriesDistinct
<1>5. CurrentInRing
  BY DEF CurrentInRing
<1>6. DescriptorsClosed
  BY DEF DescriptorsClosed, None
<1>7. LagIsAbandoned
  BY <1>2 DEF LagIsAbandoned, Outstanding
<1>8. ForeignOnlyWhileLagging /\ NeverWaitsInVain
  BY DEF ForeignOnlyWhileLagging, NeverWaitsInVain
<1>9. QED
  BY <1>1, <1>3, <1>4, <1>5, <1>6, <1>7, <1>8 DEF IInv

--------------------------------------------------------------------------------
(* The steps *)

\* Opening and closing leave an empty ring, which no call is behind.
LEMMA DiscardStep == IInv /\ (Open \/ Close) => IInv'
<1> SUFFICES ASSUME IInv, Open \/ Close PROVE IInv'
  OBVIOUS
<1>1. /\ pc = "idle" /\ sq' = <<>> /\ inflight' = {} /\ cq' = <<>> /\ abandoned' = 0
      /\ open_' \in BOOLEAN
      /\ pc' = pc /\ current' = current /\ fds' = fds /\ calls' = calls /\ answer' = answer
  BY DEF Open, Close, Discard, thread
<1>2. TypeOK'
  BY <1>1, RingAssumption DEF IInv, TypeOK
<1>3. IsFiniteSet(inflight') /\ Cardinality(inflight') = 0
  BY <1>1, FS_EmptySet
<1>4. CallsCounted'
  BY <1>1, <1>2 DEF IInv, CallsCounted, Busy, TypeOK
<1>5. EntriesDistinct'
  BY <1>1, <1>3 DEF EntriesDistinct
<1>6. CurrentInRing'
  BY <1>1 DEF IInv, CurrentInRing
<1>7. DescriptorsClosed'
  BY <1>1 DEF IInv, DescriptorsClosed
<1>8. LagIsAbandoned'
  BY <1>1, <1>3 DEF LagIsAbandoned, Outstanding
<1>9. ForeignOnlyWhileLagging' /\ NeverWaitsInVain'
  BY <1>1 DEF IInv, ForeignOnlyWhileLagging, NeverWaitsInVain
<1>10. QED
  BY <1>2, <1>4, <1>5, <1>6, <1>7, <1>8, <1>9 DEF IInv

\* A call that has prepared an entry closes its file, if it has one.
LEMMA FileClosed ==
  ASSUME IInv, pc \in {"submit", "wait"}, CloseFile(current)
  PROVE  fds' = {}
<1>1. fds \subseteq {current.call}
  BY DEF IInv, DescriptorsClosed
<1>2. QED
  BY <1>1 DEF CloseFile

\* A thread that has returned has no file open if it closed the one it had.
LEMMA ReturnCloses ==
  ASSUME NEW op, NEW from, NEW value, Return(op, from, value), fds' = {}
  PROVE  DescriptorsClosed' /\ current' = None /\ pc' = "idle" /\ CurrentInRing'
BY OpFacts DEF Return, DescriptorsClosed, CurrentInRing

\* A call that is refused, or gets no entry, leaves the ring as it was.
LEMMA RefuseStep ==
  ASSUME IInv, NEW kind \in Kinds, Refuse(kind) \/ NoEntry(kind)
  PROVE  IInv'
<1>1. /\ pc \in {"idle", "opened"} /\ calls < MaxCalls /\ calls' = calls + 1
      /\ Return(Operation(kind), None, Failed(kind))
      /\ open_' = open_ /\ sq' = sq /\ inflight' = inflight /\ cq' = cq
      /\ abandoned' = abandoned
  BY DEF Refuse, NoEntry, Asks, ring, IInv, CallsCounted
<1>2. fds' = {}
  <2>1. CASE Refuse(kind)
    BY <2>1, OpFacts DEF Refuse, IInv, DescriptorsClosed, CurrentInRing
  <2>2. CASE NoEntry(kind)
    <3>1. fds \subseteq {calls + 1}
      BY <1>1, OpFacts DEF IInv, DescriptorsClosed, CurrentInRing
    <3>2. QED
      BY <2>2, <3>1 DEF NoEntry, CloseFile, Operation
  <2>3. QED
    BY <2>1, <2>2
<1>3. DescriptorsClosed' /\ current' = None /\ pc' = "idle" /\ CurrentInRing'
  BY <1>1, <1>2, ReturnCloses
<1>4. calls \in Nat /\ calls' \in 0..MaxCalls
  BY <1>1, RingAssumption DEF IInv, TypeOK
<1>5. TypeOK'
  BY <1>1, <1>2, <1>3, <1>4 DEF IInv, TypeOK
<1>6. CallsCounted'
  <2>1. /\ \A i \in DOMAIN sq : sq[i].call \in Nat
        /\ \A o \in inflight : o.call \in Nat
    BY OpFacts DEF IInv, TypeOK
  <2>2. abandoned + Busy <= calls /\ abandoned \in Nat /\ Busy' = Busy
    BY <1>1, <1>3 DEF IInv, TypeOK, CallsCounted, Busy
  <2>3. QED
    BY <1>1, <1>3, <1>4, <2>1, <2>2 DEF IInv, CallsCounted, Busy
<1>7. EntriesDistinct'
  BY <1>1 DEF IInv, EntriesDistinct
<1>8. LagIsAbandoned'
  BY <1>1, <1>3 DEF IInv, LagIsAbandoned, Outstanding
<1>9. ForeignOnlyWhileLagging' /\ NeverWaitsInVain'
  BY <1>1, <1>3 DEF Return, ForeignOnlyWhileLagging, NeverWaitsInVain
<1>10. QED
  BY <1>3, <1>5, <1>6, <1>7, <1>8, <1>9 DEF IInv

\* read_file opens its file: the only one open.
LEMMA OpenFileStep == IInv /\ OpenFile => IInv'
<1> SUFFICES ASSUME IInv, OpenFile PROVE IInv'
  OBVIOUS
<1>1. /\ pc = "idle" /\ pc' = "opened" /\ calls < MaxCalls /\ fds' = fds \union {calls + 1}
      /\ open_' = open_ /\ sq' = sq /\ inflight' = inflight /\ cq' = cq
      /\ current' = current /\ calls' = calls /\ answer' = answer /\ abandoned' = abandoned
  BY DEF OpenFile, ring
<1>2. fds = {}
  BY <1>1, OpFacts DEF IInv, DescriptorsClosed, CurrentInRing
<1>3. calls + 1 \in 1..MaxCalls
  BY <1>1, RingAssumption DEF IInv, TypeOK
<1>4. TypeOK'
  BY <1>1, <1>2, <1>3 DEF IInv, TypeOK
<1>5. CallsCounted' /\ EntriesDistinct' /\ CurrentInRing' /\ DescriptorsClosed'
  BY <1>1, <1>2
  DEF IInv, CallsCounted, Busy, EntriesDistinct, CurrentInRing, DescriptorsClosed
<1>6. LagIsAbandoned' /\ ForeignOnlyWhileLagging' /\ NeverWaitsInVain'
  BY <1>1
  DEF IInv, LagIsAbandoned, Outstanding, ForeignOnlyWhileLagging, NeverWaitsInVain
<1>7. QED
  BY <1>4, <1>5, <1>6 DEF IInv

\* A call enters with an operation that is nowhere in the ring yet.
LEMMA PrepareStep ==
  ASSUME IInv, NEW kind \in Kinds, Prepare(kind)
  PROVE  IInv'
<1> DEFINE op == Operation(kind)
<1>1. /\ pc \in {"idle", "opened"} /\ pc' = "submit" /\ calls < MaxCalls
      /\ (kind = "read" <=> pc = "opened")
      /\ calls' = calls + 1 /\ Len(sq) < Depth
      /\ sq' = Append(sq, op)
      /\ current' = op /\ op.call = calls + 1 /\ op.kind = kind
      /\ open_' = open_ /\ inflight' = inflight /\ cq' = cq /\ answer' = answer
      /\ fds' = fds /\ abandoned' = abandoned
  BY DEF Prepare, Asks, Operation, IInv, CallsCounted
<1>2. /\ calls \in Nat /\ calls' \in 0..MaxCalls
      /\ op.call \in 1..MaxCalls /\ op \in Ops
  BY <1>1, RingAssumption DEF IInv, TypeOK, Ops, Operation
<1> HIDE DEF op
<1>3. DescriptorsClosed'
  BY <1>1, OpFacts DEF IInv, DescriptorsClosed, CurrentInRing
<1>4. /\ sq' \in Seq(Ops) /\ Len(sq') = Len(sq) + 1 /\ DOMAIN sq' = 1 .. Len(sq) + 1
      /\ \A i \in 1..Len(sq) : sq'[i] = sq[i]
      /\ sq'[Len(sq) + 1] = op
      /\ Len(sq) \in Nat /\ DOMAIN sq = 1..Len(sq) /\ \A i \in DOMAIN sq : sq[i] \in Ops
  <2>1. sq \in Seq(Ops)
    BY DEF IInv, TypeOK
  <2>2. QED
    BY <1>1, <1>2, <2>1, AppendProperties
<1>5. /\ \A i \in DOMAIN sq : sq[i].call <= calls /\ sq[i].call \in Nat
      /\ \A o \in inflight : o.call <= calls /\ o.call \in Nat
  BY <1>4, OpFacts DEF IInv, TypeOK, CallsCounted
<1>6. /\ \A i \in DOMAIN sq : sq[i] # op
      /\ op \notin inflight
  BY <1>1, <1>2, <1>5
<1>7. TypeOK'
  <2>1. Len(sq') <= Depth
    BY <1>1, <1>4, RingAssumption
  <2>2. QED
    BY <1>1, <1>2, <1>4, <2>1 DEF IInv, TypeOK
<1>8. CallsCounted'
  <2>1. abandoned' + Busy' <= calls'
    BY <1>1, <1>2 DEF IInv, TypeOK, CallsCounted, Busy
  <2>2. \A i \in DOMAIN sq' : sq'[i].call <= calls'
    BY <1>1, <1>2, <1>4, <1>5
  <2>3. \A o \in inflight' : o.call <= calls'
    BY <1>1, <1>2, <1>5
  <2>4. QED
    BY <1>1, <2>1, <2>2, <2>3 DEF CallsCounted
<1>9. EntriesDistinct'
  <2>1. \A i, j \in DOMAIN sq' : sq'[i] = sq'[j] => i = j
    BY <1>4, <1>6 DEF IInv, EntriesDistinct
  <2>2. \A i \in DOMAIN sq' : sq'[i] \notin inflight'
    BY <1>1, <1>4, <1>6 DEF IInv, EntriesDistinct
  <2>3. QED
    BY <1>1, <2>1, <2>2 DEF IInv, EntriesDistinct
<1>10. CurrentInRing'
  BY <1>1, <1>4 DEF CurrentInRing
<1>11. NeverWaitsInVain'
  BY <1>1 DEF NeverWaitsInVain
<1>12. LagIsAbandoned'
  <2>1. Len(sq) \in Nat /\ Len(cq) \in Nat /\ Cardinality(inflight) \in Nat
    BY <1>4, FS_CardinalityType DEF IInv, TypeOK, EntriesDistinct
  <2>2. (Len(sq) + Cardinality(inflight)) + Len(cq) = abandoned
    BY <1>1, <2>1 DEF IInv, TypeOK, LagIsAbandoned, Outstanding
  <2>3. Outstanding' = (Len(sq') + Cardinality(inflight)) + Len(cq)
    BY <1>1 DEF Outstanding
  <2>4. Outstanding' = abandoned + 1
    BY <1>4, <2>1, <2>2, <2>3
  <2>5. QED
    BY <1>1, <2>4 DEF LagIsAbandoned
<1>13. ForeignOnlyWhileLagging'
  BY <1>1 DEF IInv, ForeignOnlyWhileLagging
<1>14. QED
  BY <1>3, <1>7, <1>8, <1>9, <1>10, <1>11, <1>12, <1>13 DEF IInv

\* What io_uring_submit takes from the queue is what the kernel has more to do: one
\* operation at least, which is enough to wait for.
LEMMA SubmitStep == IInv /\ Submit => IInv'
<1> SUFFICES ASSUME IInv, Submit PROVE IInv'
  OBVIOUS
<1>1. PICK n \in 1..Len(sq) :
        /\ inflight' = inflight \union {sq[i] : i \in 1..n}
        /\ sq' = SubSeq(sq, n + 1, Len(sq))
  BY DEF Submit
<1>2. /\ pc = "submit" /\ pc' = "wait"
      /\ open_' = open_ /\ cq' = cq /\ current' = current /\ fds' = fds
      /\ calls' = calls /\ answer' = answer /\ abandoned' = abandoned
  BY DEF Submit
<1>3. /\ sq \in Seq(Ops) /\ inflight \subseteq Ops /\ IsFiniteSet(inflight)
      /\ \A i, j \in DOMAIN sq : sq[i] = sq[j] => i = j
      /\ \A i \in DOMAIN sq : sq[i] \notin inflight
  BY DEF IInv, TypeOK, EntriesDistinct
<1> DEFINE taken == {sq[i] : i \in 1..n}
<1>4. /\ IsFiniteSet(taken) /\ Cardinality(taken) = n
      /\ Len(sq) \in Nat /\ DOMAIN sq = 1..Len(sq) /\ n \in Nat /\ n >= 1 /\ n <= Len(sq)
      /\ sq' \in Seq(Ops) /\ Len(sq') = Len(sq) - n /\ DOMAIN sq' = 1 .. Len(sq) - n
      /\ \A i \in DOMAIN sq' : i + n \in DOMAIN sq /\ sq'[i] = sq[i + n]
  <2> HIDE DEF taken
  <2>1. taken = {sq[i] : i \in 1..n} /\ n \in 1..Len(sq) /\ sq' = SubSeq(sq, n + 1, Len(sq))
    BY <1>1 DEF taken
  <2>2. sq \in Seq(Ops) /\ \A i, j \in DOMAIN sq : sq[i] = sq[j] => i = j
    BY <1>3
  <2>3. QED
    BY ONLY <2>1, <2>2, Handover, SMTT(30)
<1>5. /\ taken \subseteq Ops /\ inflight \intersect taken = {}
      /\ \A op \in taken : \E i \in 1..n : i \in DOMAIN sq /\ sq[i] = op
      /\ sq[1] \in taken
  BY <1>3, <1>4
<1> HIDE DEF taken
<1>6. inflight' = inflight \union taken
  BY <1>1 DEF taken
<1>7. IsFiniteSet(inflight') /\ Cardinality(inflight') = Cardinality(inflight) + n
  <2>1. /\ IsFiniteSet(inflight \union taken)
        /\ Cardinality(inflight \union taken)
             = Cardinality(inflight) + Cardinality(taken) - Cardinality(inflight \intersect taken)
    BY <1>3, <1>4, FS_Union
  <2>2. Cardinality(inflight \intersect taken) = 0
    BY <1>5, FS_EmptySet
  <2>3. Cardinality(inflight) \in Nat
    BY <1>3, FS_CardinalityType
  <2>4. QED
    BY <1>4, <1>6, <2>1, <2>2, <2>3
<1>8. TypeOK'
  <2>1. Len(sq') <= Depth
    BY <1>4, RingAssumption DEF IInv, TypeOK
  <2>2. inflight' \subseteq Ops
    BY <1>3, <1>5, <1>6
  <2>3. QED
    BY <1>2, <1>4, <2>1, <2>2 DEF IInv, TypeOK
<1>9. CallsCounted'
  <2>1. Busy' = Busy
    BY <1>2 DEF Busy
  <2>2. \A op \in inflight' : op.call <= calls
    BY <1>5, <1>6 DEF IInv, CallsCounted
  <2>3. \A i \in DOMAIN sq' : sq'[i].call <= calls
    BY <1>4 DEF IInv, CallsCounted
  <2>4. QED
    BY <1>2, <2>1, <2>2, <2>3 DEF IInv, CallsCounted
<1>10. EntriesDistinct'
  <2>1. ASSUME NEW i \in DOMAIN sq', NEW j \in DOMAIN sq', sq'[i] = sq'[j] PROVE i = j
    <3>1. i + n = j + n
      BY <1>3, <1>4, <2>1
    <3>2. QED
      BY <1>4, <3>1
  <2>2. ASSUME NEW i \in DOMAIN sq' PROVE sq'[i] \notin inflight'
    <3>1. i + n \in DOMAIN sq /\ sq'[i] = sq[i + n] /\ i \in Nat /\ i >= 1
      BY <1>4
    <3>2. \A k \in 1..n : k # i + n
      BY <1>4, <3>1
    <3>3. sq[i + n] \notin taken
      BY <1>3, <1>5, <3>1, <3>2
    <3>4. QED
      BY <1>3, <1>6, <3>1, <3>3
  <2>3. QED
    BY <1>7, <2>1, <2>2 DEF EntriesDistinct
<1>11. CurrentInRing'
  <2>1. PICK i \in DOMAIN sq : sq[i] = current
    BY <1>2 DEF IInv, CurrentInRing
  <2>2. CASE i <= n
    <3>1. i \in 1..n
      BY <1>4, <2>2
    <3>2. QED
      BY <1>2, <1>6, <2>1, <3>1 DEF CurrentInRing, taken
  <2>3. CASE i > n
    <3>1. i - n \in DOMAIN sq' /\ (i - n) + n = i
      BY <1>4, <2>3
    <3>2. QED
      BY <1>2, <1>4, <2>1, <3>1 DEF CurrentInRing
  <2>4. QED
    BY <1>4, <2>2, <2>3
<1>12. DescriptorsClosed'
  BY <1>2 DEF IInv, DescriptorsClosed
<1>13. LagIsAbandoned'
  <2>1. Len(cq) \in Nat /\ Cardinality(inflight) \in Nat
    BY <1>3, FS_CardinalityType DEF IInv, TypeOK
  <2>2. (Len(sq) + Cardinality(inflight)) + Len(cq) = abandoned + 1
    BY <1>2 DEF IInv, LagIsAbandoned, Outstanding
  <2>3. Outstanding' = ((Len(sq) - n) + (Cardinality(inflight) + n)) + Len(cq)
    BY <1>2, <1>4, <1>7 DEF Outstanding
  <2>4. (Len(sq) - n) + (Cardinality(inflight) + n) = Len(sq) + Cardinality(inflight)
    BY <1>4, <2>1
  <2>5. QED
    BY <1>2, <2>2, <2>3, <2>4 DEF LagIsAbandoned
<1>14. ForeignOnlyWhileLagging' /\ NeverWaitsInVain'
  BY <1>2, <1>5, <1>6 DEF IInv, ForeignOnlyWhileLagging, NeverWaitsInVain
<1>15. QED
  BY <1>8, <1>9, <1>10, <1>11, <1>12, <1>13, <1>14 DEF IInv

\* A call that gives up leaves the ring one operation further behind.
LEMMA GiveUpStep == IInv /\ (SubmitFails \/ WaitFails) => IInv'
<1> SUFFICES ASSUME IInv, SubmitFails \/ WaitFails PROVE IInv'
  OBVIOUS
<1>1. /\ pc \in {"submit", "wait"} /\ CloseFile(current) /\ Return(current, None, Failed(current.kind))
      /\ abandoned' = abandoned + 1
      /\ open_' = open_ /\ sq' = sq /\ inflight' = inflight /\ cq' = cq /\ calls' = calls
  BY DEF SubmitFails, WaitFails, ring
<1>2. fds' = {} /\ DescriptorsClosed' /\ current' = None /\ pc' = "idle" /\ CurrentInRing'
  BY <1>1, FileClosed, ReturnCloses
<1>3. /\ calls \in Nat /\ abandoned \in Nat /\ MaxCalls \in Nat /\ calls <= MaxCalls
      /\ abandoned + 1 <= calls
  BY <1>1, RingAssumption DEF IInv, TypeOK, CallsCounted, Busy
<1>4. TypeOK'
  <2>1. abandoned' \in 0..MaxCalls
    BY <1>1, <1>3
  <2>2. QED
    BY <1>1, <1>2, <2>1 DEF IInv, TypeOK
<1>5. CallsCounted'
  <2>1. abandoned' + Busy' <= calls'
    BY <1>1, <1>2, <1>3 DEF Busy
  <2>2. QED
    BY <1>1, <1>2, <2>1 DEF IInv, CallsCounted
<1>6. EntriesDistinct'
  BY <1>1 DEF IInv, EntriesDistinct
<1>7. CurrentInRing'
  BY <1>2
<1>8. DescriptorsClosed' /\ NeverWaitsInVain'
  BY <1>2 DEF NeverWaitsInVain
<1>9. LagIsAbandoned'
  <2>1. Outstanding' = abandoned + 1
    BY <1>1 DEF IInv, LagIsAbandoned, Outstanding
  <2>2. QED
    BY <1>1, <1>2, <1>3, <2>1 DEF LagIsAbandoned
<1>10. ForeignOnlyWhileLagging'
  BY <1>1 DEF Return, ForeignOnlyWhileLagging
<1>11. QED
  BY <1>4, <1>5, <1>6, <1>7, <1>8, <1>9, <1>10 DEF IInv

\* On a ring that is not behind, the only operation is the call's own: the oldest
\* completion can be no other.
LEMMA OwnCompletion ==
  ASSUME IInv, pc = "wait", cq # <<>>, abandoned = 0
  PROVE  Head(cq).op = current
<1>1. /\ Len(sq) \in Nat /\ Len(cq) \in Nat \ {0} /\ Cardinality(inflight) \in Nat
      /\ IsFiniteSet(inflight) /\ DOMAIN cq = 1..Len(cq) /\ Head(cq) = cq[1]
  BY FS_CardinalityType DEF IInv, TypeOK, EntriesDistinct
<1>2. (Len(sq) + Cardinality(inflight)) + Len(cq) = 1
  BY DEF IInv, LagIsAbandoned, Outstanding
<1>3. Len(cq) = 1 /\ Cardinality(inflight) = 0 /\ Len(sq) = 0
  BY <1>1, <1>2
<1>4. inflight = {} /\ DOMAIN sq = {}
  BY <1>1, <1>3, FS_EmptySet DEF IInv, TypeOK
<1>5. PICK i \in DOMAIN cq : cq[i].op = current
  BY <1>4 DEF IInv, CurrentInRing
<1>6. i = 1
  BY <1>1, <1>3, <1>5
<1>7. QED
  BY <1>1, <1>5, <1>6

\* A call that returns with a completion takes one operation out of the ring.
LEMMA HarvestStep == IInv /\ Harvest => IInv'
<1> SUFFICES ASSUME IInv, Harvest PROVE IInv'
  OBVIOUS
<1>1. /\ pc = "wait" /\ cq # <<>> /\ cq' = Tail(cq) /\ CloseFile(current)
      /\ Return(current, Head(cq).op, Value(current.kind, Head(cq).res))
      /\ open_' = open_ /\ sq' = sq /\ inflight' = inflight
      /\ calls' = calls /\ abandoned' = abandoned
  BY DEF Harvest
<1>2. fds' = {} /\ DescriptorsClosed' /\ current' = None /\ pc' = "idle" /\ CurrentInRing'
  BY <1>1, FileClosed, ReturnCloses
<1>3. cq' \in Seq(Completions) /\ Len(cq') = Len(cq) - 1 /\ Len(cq) \in Nat
  BY <1>1, HeadTailProperties DEF IInv, TypeOK
<1>4. TypeOK'
  BY <1>1, <1>2, <1>3 DEF IInv, TypeOK
<1>5. CallsCounted'
  <2>1. calls \in Nat /\ abandoned \in Nat /\ abandoned + 1 <= calls
    BY <1>1 DEF IInv, TypeOK, CallsCounted, Busy
  <2>2. abandoned' + Busy' <= calls'
    BY <1>1, <1>2, <2>1 DEF Busy
  <2>3. QED
    BY <1>1, <1>2, <2>2 DEF IInv, CallsCounted
<1>6. EntriesDistinct'
  BY <1>1 DEF IInv, EntriesDistinct
<1>7. CurrentInRing'
  BY <1>2
<1>8. DescriptorsClosed' /\ NeverWaitsInVain'
  BY <1>2 DEF NeverWaitsInVain
<1>9. LagIsAbandoned'
  <2>1. Len(sq) \in Nat /\ Cardinality(inflight) \in Nat /\ abandoned \in Nat
    BY FS_CardinalityType DEF IInv, TypeOK, EntriesDistinct
  <2>2. (Len(sq) + Cardinality(inflight)) + Len(cq) = abandoned + 1
    BY <1>1 DEF IInv, LagIsAbandoned, Outstanding
  <2>3. Outstanding' = (Len(sq) + Cardinality(inflight)) + (Len(cq) - 1)
    BY <1>1, <1>3 DEF Outstanding
  <2>4. Outstanding' = abandoned
    <3>1. \A m, n, k \in Nat : m + k = n + 1 => m + (k - 1) = n
      OBVIOUS
    <3>2. Len(sq) + Cardinality(inflight) \in Nat
      BY <2>1
    <3>3. QED
      BY <1>3, <2>1, <2>2, <2>3, <3>1, <3>2, SMTT(30)
  <2>5. QED
    BY <1>1, <1>2, <2>1, <2>4 DEF LagIsAbandoned
<1>10. ForeignOnlyWhileLagging'
  <2>1. answer'.op = current /\ answer'.from = Head(cq).op /\ answer'.lag = abandoned
    BY <1>1 DEF Return
  <2>2. CASE abandoned = 0
    BY <1>1, <2>1, <2>2, OwnCompletion DEF ForeignOnlyWhileLagging
  <2>3. CASE abandoned > 0
    BY <2>1, <2>3 DEF ForeignOnlyWhileLagging
  <2>4. QED
    BY <2>2, <2>3 DEF IInv, TypeOK
<1>11. QED
  BY <1>4, <1>5, <1>6, <1>7, <1>8, <1>9, <1>10 DEF IInv

\* The kernel turns an operation into its completion, in its own order.
LEMMA CompleteStep ==
  ASSUME IInv, NEW op \in Ops, Complete(op)
  PROVE  IInv'
<1>1. PICK res \in Results(op.kind) : cq' = Append(cq, [op |-> op, res |-> res])
  BY DEF Complete
<1>2. /\ op \in inflight /\ inflight' = inflight \ {op}
      /\ open_' = open_ /\ sq' = sq /\ pc' = pc /\ current' = current /\ fds' = fds
      /\ calls' = calls /\ answer' = answer /\ abandoned' = abandoned
  BY DEF Complete, thread
<1>3. [op |-> op, res |-> res] \in Completions
  BY DEF Completions, Results
<1>4. /\ cq \in Seq(Completions) /\ Len(cq) \in Nat /\ DOMAIN cq = 1..Len(cq)
      /\ cq' \in Seq(Completions) /\ Len(cq') = Len(cq) + 1 /\ DOMAIN cq' = 1 .. Len(cq) + 1
      /\ \A i \in 1..Len(cq) : cq'[i] = cq[i]
      /\ cq'[Len(cq) + 1] = [op |-> op, res |-> res]
  <2>1. cq \in Seq(Completions)
    BY DEF IInv, TypeOK
  <2>2. QED
    BY <1>1, <1>3, <2>1, AppendProperties
<1>5. /\ IsFiniteSet(inflight') /\ Cardinality(inflight') = Cardinality(inflight) - 1
      /\ Cardinality(inflight) \in Nat
  BY <1>2, FS_RemoveElement, FS_CardinalityType DEF IInv, EntriesDistinct
<1>6. TypeOK'
  BY <1>2, <1>4 DEF IInv, TypeOK
<1>7. CallsCounted'
  BY <1>2 DEF IInv, CallsCounted, Busy
<1>8. EntriesDistinct'
  BY <1>2, <1>5 DEF IInv, EntriesDistinct
<1>9. CurrentInRing'
  <2>1. ASSUME pc = "wait"
        PROVE  \/ \E i \in DOMAIN sq' : sq'[i] = current
               \/ current \in inflight'
               \/ \E i \in DOMAIN cq' : cq'[i].op = current
    <3>1. CASE current = op
      BY <1>4, <3>1
    <3>2. CASE current # op /\ current \in inflight
      BY <1>2, <3>2
    <3>3. CASE \E i \in DOMAIN cq : cq[i].op = current
      BY <1>4, <3>3
    <3>4. CASE \E i \in DOMAIN sq : sq[i] = current
      BY <1>2, <3>4
    <3>5. QED
      BY <2>1, <3>1, <3>2, <3>3, <3>4 DEF IInv, CurrentInRing
  <2>2. QED
    BY <1>2, <2>1 DEF IInv, CurrentInRing
<1>10. DescriptorsClosed'
  BY <1>2 DEF IInv, DescriptorsClosed
<1>11. LagIsAbandoned'
  <2>1. Len(sq) \in Nat
    BY DEF IInv, TypeOK
  <2>2. Outstanding' = (Len(sq) + (Cardinality(inflight) - 1)) + (Len(cq) + 1)
    BY <1>2, <1>4, <1>5 DEF Outstanding
  <2>3. Outstanding' = Outstanding
    BY <1>4, <1>5, <2>1, <2>2, SMTT(30) DEF Outstanding
  <2>4. QED
    BY <1>2, <2>3 DEF IInv, LagIsAbandoned
<1>12. ForeignOnlyWhileLagging' /\ NeverWaitsInVain'
  <2>1. cq' # <<>>
    BY <1>4
  <2>2. QED
    BY <1>2, <2>1 DEF IInv, ForeignOnlyWhileLagging, NeverWaitsInVain
<1>13. QED
  BY <1>6, <1>7, <1>8, <1>9, <1>10, <1>11, <1>12 DEF IInv

\* A step that changes nothing.
LEMMA StutterStep == IInv /\ UNCHANGED vars => IInv'
  BY DEF IInv, TypeOK, CallsCounted, Busy, EntriesDistinct, CurrentInRing, DescriptorsClosed,
         LagIsAbandoned, Outstanding, ForeignOnlyWhileLagging, NeverWaitsInVain, vars, ring, thread

\* Every step of the thread and of the kernel keeps the invariant.
LEMMA NextInv == IInv /\ [Next]_vars => IInv'
<1> SUFFICES ASSUME IInv, [Next]_vars PROVE IInv'
  OBVIOUS
<1>1. CASE Open \/ Close
  BY <1>1, DiscardStep
<1>2. ASSUME NEW kind \in Kinds, Refuse(kind) \/ NoEntry(kind) PROVE IInv'
  BY <1>2, RefuseStep
<1>3. ASSUME NEW kind \in Kinds, Prepare(kind) PROVE IInv'
  BY <1>3, PrepareStep
<1>4. CASE Submit
  BY <1>4, SubmitStep
<1>5. CASE SubmitFails \/ WaitFails
  BY <1>5, GiveUpStep
<1>6. CASE Harvest
  BY <1>6, HarvestStep
<1>7. ASSUME NEW op \in Ops, Complete(op) PROVE IInv'
  BY <1>7, CompleteStep
<1>8. CASE UNCHANGED vars
  BY <1>8, StutterStep
<1>9. CASE OpenFile
  BY <1>9, OpenFileStep
<1>10. QED
  BY <1>1, <1>2, <1>3, <1>4, <1>5, <1>6, <1>7, <1>8, <1>9 DEF Next

--------------------------------------------------------------------------------
(* The ring implements Replies *)

\* The operation of one call is at one place of the ring: a completion that was read
\* has left it.
OnePlace ==
  /\ \A i, j \in DOMAIN sq : sq[i].call = sq[j].call => i = j
  /\ \A i \in DOMAIN sq : \A op \in inflight : sq[i].call # op.call
  /\ \A i \in DOMAIN sq : \A j \in DOMAIN cq : sq[i].call # cq[j].op.call
  /\ \A op, other \in inflight : op.call = other.call => op = other
  /\ \A op \in inflight : \A j \in DOMAIN cq : op.call # cq[j].op.call
  /\ \A i, j \in DOMAIN cq : cq[i].op.call = cq[j].op.call => i = j
  /\ \A j \in DOMAIN cq : cq[j].op.call <= calls

\* What the queues are indexed by, and what is in them.
LEMMA QueueFacts ==
  ASSUME IInv
  PROVE  /\ sq \in Seq(Ops) /\ cq \in Seq(Completions)
         /\ Len(sq) \in Nat /\ DOMAIN sq = 1..Len(sq)
         /\ Len(cq) \in Nat /\ DOMAIN cq = 1..Len(cq)
         /\ \A i \in DOMAIN sq : sq[i] \in Ops /\ sq[i].call \in 1..MaxCalls
         /\ \A i \in DOMAIN sq : sq[i].call <= calls
         /\ \A j \in DOMAIN cq : cq[j] \in Completions /\ cq[j].op \in Ops
                                 /\ cq[j].op.call \in 1..MaxCalls
         /\ \A op \in inflight : op \in Ops /\ op.call \in 1..MaxCalls /\ op.call <= calls
         /\ calls \in Nat /\ MaxCalls \in Nat
<1>1. /\ sq \in Seq(Ops) /\ cq \in Seq(Completions) /\ inflight \subseteq Ops
      /\ calls \in 0..MaxCalls /\ MaxCalls \in Nat
  BY RingAssumption DEF IInv, TypeOK
<1>2. \A j \in DOMAIN cq : cq[j] \in Completions
  BY <1>1
<1>3. \A c \in Completions : c.op \in Ops
  BY DEF Completions
<1>4. QED
  BY <1>1, <1>2, <1>3, OpFacts DEF IInv, CallsCounted

\* The calls that are unread are those with an operation at one of the three places.
LEMMA UnreadFacts ==
  ASSUME NEW call
  PROVE  call \in Unread <=> \/ \E i \in DOMAIN sq : sq[i].call = call
                             \/ \E op \in inflight : op.call = call
                             \/ \E j \in DOMAIN cq : cq[j].op.call = call
<1>1. call \in CallsOf(ToSet(sq)) <=> \E i \in DOMAIN sq : sq[i].call = call
  BY DEF CallsOf, ToSet
<1>2. call \in CallsOf(inflight) <=> \E op \in inflight : op.call = call
  BY DEF CallsOf
<1>3. call \in CallsOf({c.op : c \in ToSet(cq)}) <=> \E j \in DOMAIN cq : cq[j].op.call = call
  BY DEF CallsOf, ToSet
<1>4. QED
  BY <1>1, <1>2, <1>3 DEF Unread

\* The same after a step.
LEMMA UnreadNext ==
  ASSUME NEW call
  PROVE  call \in Unread' <=> \/ \E i \in DOMAIN sq' : sq'[i].call = call
                              \/ \E op \in inflight' : op.call = call
                              \/ \E j \in DOMAIN cq' : cq'[j].op.call = call
<1>1. call \in CallsOf(ToSet(sq')) <=> \E i \in DOMAIN sq' : sq'[i].call = call
  BY DEF CallsOf, ToSet
<1>2. call \in CallsOf(inflight') <=> \E op \in inflight' : op.call = call
  BY DEF CallsOf
<1>3. call \in CallsOf({c.op : c \in ToSet(cq')}) <=> \E j \in DOMAIN cq' : cq'[j].op.call = call
  BY DEF CallsOf, ToSet
<1>4. QED
  BY <1>1, <1>2, <1>3 DEF Unread

\* The abstract thread waits exactly while the calling thread has an entry.
LEMMA WaitingInCall ==
  ASSUME IInv
  PROVE  /\ pc \in {"idle", "opened"} => current.call = 0
         /\ pc \in {"submit", "wait"} => current.call # 0
<1>1. pc \in {"submit", "wait"} => current \in Ops
  <2>1. CASE pc = "submit"
    BY <2>1, QueueFacts DEF IInv, CurrentInRing
  <2>2. CASE pc = "wait"
    BY <2>2, QueueFacts DEF IInv, TypeOK, CurrentInRing
  <2>3. QED
    BY <2>1, <2>2 DEF IInv, TypeOK
<1>2. QED
  BY <1>1, OpFacts DEF IInv, CurrentInRing

\* Opening and closing restart the abstract ring.
LEMMA DiscardRestarts ==
  ASSUME IInv, OnePlace, Open \/ Close
  PROVE  OnePlace' /\ Promise!Restart
<1>1. /\ pc = "idle" /\ sq' = <<>> /\ inflight' = {} /\ cq' = <<>>
      /\ current' = current /\ calls' = calls /\ answer' = answer
  BY DEF Open, Close, Discard, thread
<1>2. OnePlace'
  BY <1>1 DEF OnePlace
<1>3. Unread' = {}
  BY <1>1, UnreadNext
<1>4. QED
  BY <1>1, <1>2, <1>3, WaitingInCall DEF Promise!Restart

\* A call that is refused or gets no entry is one that returns before it begins.
LEMMA RefuseRefuses ==
  ASSUME IInv, OnePlace, NEW kind \in Kinds, Refuse(kind) \/ NoEntry(kind)
  PROVE  OnePlace' /\ Promise!Refuse
<1> DEFINE op == Operation(kind)
<1>1. /\ pc \in {"idle", "opened"} /\ calls < MaxCalls /\ calls' = calls + 1
      /\ sq' = sq /\ inflight' = inflight /\ cq' = cq
      /\ current' = None
      /\ answer'.op = op /\ answer'.from = None
      /\ op.call = calls + 1
  BY DEF Refuse, NoEntry, Asks, Operation, Return, ring, IInv, CallsCounted
<1> HIDE DEF op
<1>2. OnePlace'
  BY <1>1, QueueFacts DEF OnePlace
<1>3. Unread' = Unread
  BY <1>1, UnreadFacts, UnreadNext
<1>4. current.call = 0 /\ current'.call = 0 /\ answer'.op.call = calls + 1 /\ answer'.from.call = 0
  BY <1>1, WaitingInCall, OpFacts
<1>5. QED
  BY <1>1, <1>2, <1>3, <1>4 DEF Promise!Refuse

\* A call begins with the operation it prepares.
LEMMA PrepareBegins ==
  ASSUME IInv, OnePlace, NEW kind \in Kinds, Prepare(kind)
  PROVE  OnePlace' /\ Promise!Begin
<1> DEFINE op == Operation(kind)
<1>1. /\ pc \in {"idle", "opened"} /\ calls < MaxCalls /\ calls' = calls + 1
      /\ sq' = Append(sq, op) /\ inflight' = inflight /\ cq' = cq
      /\ current' = op /\ answer' = answer
  BY DEF Prepare, Asks, IInv, CallsCounted
<1>2. op.call = calls + 1 /\ op \in Ops
  BY <1>1, QueueFacts DEF Ops, Operation
<1> HIDE DEF op
<1>3. /\ Len(sq) \in Nat /\ DOMAIN sq = 1..Len(sq) /\ DOMAIN sq' = 1 .. Len(sq) + 1
      /\ \A i \in 1..Len(sq) : sq'[i] = sq[i]
      /\ sq'[Len(sq) + 1] = op
  BY <1>1, <1>2, QueueFacts, AppendProperties
<1>4. /\ \A i \in DOMAIN sq : sq[i].call # op.call
      /\ \A other \in inflight : other.call # op.call
      /\ \A j \in DOMAIN cq : cq[j].op.call # op.call
  BY <1>2, QueueFacts DEF OnePlace
<1>5. OnePlace'
  <2>1. \A i, j \in DOMAIN sq' : sq'[i].call = sq'[j].call => i = j
    BY <1>3, <1>4 DEF OnePlace
  <2>2. \A i \in DOMAIN sq' : \A other \in inflight' : sq'[i].call # other.call
    BY <1>1, <1>3, <1>4 DEF OnePlace
  <2>3. \A i \in DOMAIN sq' : \A j \in DOMAIN cq' : sq'[i].call # cq'[j].op.call
    BY <1>1, <1>3, <1>4 DEF OnePlace
  <2>4. \A j \in DOMAIN cq' : cq'[j].op.call <= calls'
    BY <1>1, QueueFacts DEF OnePlace
  <2>5. QED
    BY <1>1, <2>1, <2>2, <2>3, <2>4 DEF OnePlace
<1>6. Unread' = Unread \union {calls + 1}
  <2>1. ASSUME NEW call PROVE call \in Unread' <=> call \in Unread \/ call = calls + 1
    <3>1. (\E i \in DOMAIN sq' : sq'[i].call = call)
            <=> (\E i \in DOMAIN sq : sq[i].call = call) \/ call = calls + 1
      BY <1>2, <1>3
    <3>2. QED
      BY <1>1, <3>1, UnreadFacts, UnreadNext
  <2>2. QED
    BY <2>1
<1>7. QED
  BY <1>1, <1>2, <1>5, <1>6, WaitingInCall DEF Promise!Begin

\* Opening a file is no step of the abstract ring.
LEMMA OpenFileStutters ==
  ASSUME OnePlace, OpenFile
  PROVE  OnePlace' /\ UNCHANGED Promise!calls
<1>1. UNCHANGED <<sq, inflight, cq, current, calls, answer>>
  BY DEF OpenFile, ring
<1>2. QED
  BY <1>1 DEF OnePlace, Unread, Promise!calls

\* Nor is handing operations over to the kernel.
LEMMA SubmitStutters ==
  ASSUME IInv, OnePlace, Submit
  PROVE  OnePlace' /\ UNCHANGED Promise!calls
<1>1. /\ cq' = cq /\ current' = current /\ calls' = calls /\ answer' = answer
  BY DEF Submit
<1>2. PICK n \in 1..Len(sq) :
        /\ inflight' = inflight \union {sq[i] : i \in 1..n}
        /\ sq' = SubSeq(sq, n + 1, Len(sq))
  BY DEF Submit
<1>3. /\ DOMAIN sq = 1..Len(sq) /\ Len(sq) \in Nat /\ n \in Nat /\ n >= 1 /\ n <= Len(sq)
      /\ DOMAIN sq' = 1 .. Len(sq) - n
      /\ \A i \in DOMAIN sq' : i + n \in DOMAIN sq /\ sq'[i] = sq[i + n]
  BY <1>2, Handover DEF IInv, TypeOK, EntriesDistinct
<1>4. \A op : op \in inflight' <=> op \in inflight \/ \E i \in 1..n : i \in DOMAIN sq /\ sq[i] = op
  BY <1>2, <1>3
<1>5. \A i \in DOMAIN sq : i \in 1..n \/ (i - n \in DOMAIN sq' /\ sq'[i - n] = sq[i])
  <2> SUFFICES ASSUME NEW i \in DOMAIN sq, i \notin 1..n
               PROVE  i - n \in DOMAIN sq' /\ sq'[i - n] = sq[i]
    OBVIOUS
  <2>1. i - n \in DOMAIN sq' /\ (i - n) + n = i
    BY <1>3
  <2>2. QED
    BY <1>3, <2>1
<1>6. OnePlace'
  <2>1. \A op, other \in inflight' : op.call = other.call => op = other
    BY <1>4 DEF OnePlace
  <2>2. \A op \in inflight' : \A j \in DOMAIN cq' : op.call # cq'[j].op.call
    BY <1>1, <1>4 DEF OnePlace
  <2>3. ASSUME NEW i \in DOMAIN sq', NEW j \in DOMAIN sq', sq'[i].call = sq'[j].call
        PROVE  i = j
    <3>1. i + n = j + n
      BY <1>3, <2>3 DEF OnePlace
    <3>2. QED
      BY <1>3, <3>1
  <2>4. ASSUME NEW i \in DOMAIN sq', NEW op \in inflight' PROVE sq'[i].call # op.call
    <3>1. i + n \in DOMAIN sq /\ sq'[i] = sq[i + n] /\ \A k \in 1..n : k # i + n
      BY <1>3
    <3>2. QED
      BY <1>4, <3>1 DEF OnePlace
  <2>5. \A i \in DOMAIN sq' : \A j \in DOMAIN cq' : sq'[i].call # cq'[j].op.call
    BY <1>1, <1>3 DEF OnePlace
  <2>6. QED
    BY <1>1, <2>1, <2>2, <2>3, <2>4, <2>5 DEF OnePlace
<1>7. Unread' = Unread
  <2>1. ASSUME NEW call PROVE call \in Unread' <=> call \in Unread
    <3>1. (\E op \in inflight' : op.call = call)
            <=> \/ \E op \in inflight : op.call = call
                \/ \E i \in 1..n : i \in DOMAIN sq /\ sq[i].call = call
      BY <1>4
    <3>2. (\E i \in DOMAIN sq : sq[i].call = call)
            <=> \/ \E i \in 1..n : i \in DOMAIN sq /\ sq[i].call = call
                \/ \E i \in DOMAIN sq' : sq'[i].call = call
      BY <1>3, <1>5
    <3>3. QED
      BY <1>1, <3>1, <3>2, UnreadFacts, UnreadNext
  <2>2. QED
    BY <2>1
<1>8. QED
  BY <1>1, <1>6, <1>7 DEF Promise!calls

\* Nor is the completion of one: it is unread before and after.
LEMMA CompleteStutters ==
  ASSUME IInv, OnePlace, NEW op \in Ops, Complete(op)
  PROVE  OnePlace' /\ UNCHANGED Promise!calls
<1>1. PICK res \in Results(op.kind) : cq' = Append(cq, [op |-> op, res |-> res])
  BY DEF Complete
<1>2. /\ op \in inflight /\ inflight' = inflight \ {op}
      /\ sq' = sq /\ current' = current /\ calls' = calls /\ answer' = answer
  BY DEF Complete, thread
<1> DEFINE end == [op |-> op, res |-> res]
<1>3. end \in Completions /\ end.op = op
  BY DEF Completions, Results
<1> HIDE DEF end
<1>4. /\ Len(cq) \in Nat /\ DOMAIN cq = 1..Len(cq) /\ DOMAIN cq' = 1 .. Len(cq) + 1
      /\ \A j \in 1..Len(cq) : cq'[j] = cq[j]
      /\ cq'[Len(cq) + 1] = end
  BY <1>1, <1>3, QueueFacts, AppendProperties DEF end
<1>5. \A call : (\E j \in DOMAIN cq' : cq'[j].op.call = call)
                  <=> (\E j \in DOMAIN cq : cq[j].op.call = call) \/ call = op.call
  BY <1>3, <1>4
<1>6. OnePlace'
  <2>1. \A i \in DOMAIN sq' : \A j \in DOMAIN cq' : sq'[i].call # cq'[j].op.call
    BY <1>2, <1>3, <1>4 DEF OnePlace
  <2>2. \A other \in inflight' : \A j \in DOMAIN cq' : other.call # cq'[j].op.call
    BY <1>2, <1>3, <1>4 DEF OnePlace
  <2>3. \A i, j \in DOMAIN cq' : cq'[i].op.call = cq'[j].op.call => i = j
    BY <1>2, <1>3, <1>4 DEF OnePlace
  <2>4. \A j \in DOMAIN cq' : cq'[j].op.call <= calls'
    BY <1>2, <1>3, <1>4, QueueFacts DEF OnePlace
  <2>5. QED
    BY <1>2, <2>1, <2>2, <2>3, <2>4 DEF OnePlace
<1>7. Unread' = Unread
  <2>1. ASSUME NEW call PROVE call \in Unread' <=> call \in Unread
    <3>1. (\E other \in inflight : other.call = call)
            <=> (\E other \in inflight' : other.call = call) \/ call = op.call
      BY <1>2
    <3>2. QED
      BY <1>2, <1>5, <3>1, UnreadFacts, UnreadNext
  <2>2. QED
    BY <2>1
<1>8. QED
  BY <1>2, <1>6, <1>7 DEF Promise!calls

\* A call that gives up leaves its operation unread.
LEMMA FailsGivesUp ==
  ASSUME IInv, OnePlace, SubmitFails \/ WaitFails
  PROVE  OnePlace' /\ Promise!GiveUp
<1>1. /\ pc \in {"submit", "wait"} /\ Faults # {}
      /\ sq' = sq /\ inflight' = inflight /\ cq' = cq /\ calls' = calls
      /\ current' = None /\ answer'.op = current /\ answer'.from = None
  BY DEF SubmitFails, WaitFails, Return, ring
<1>2. OnePlace'
  BY <1>1 DEF OnePlace
<1>3. Unread' = Unread
  BY <1>1, UnreadFacts, UnreadNext
<1>4. QED
  BY <1>1, <1>2, <1>3, WaitingInCall, OpFacts DEF Promise!GiveUp

\* A call that returns with a completion reads one that was unread, and nobody reads
\* that one again.
LEMMA HarvestReads ==
  ASSUME IInv, OnePlace, Harvest
  PROVE  OnePlace' /\ \E call \in Unread : Promise!Read(call)
<1> DEFINE read == Head(cq).op.call
<1>1. /\ pc = "wait" /\ cq # <<>> /\ cq' = Tail(cq)
      /\ sq' = sq /\ inflight' = inflight /\ calls' = calls
      /\ current' = None /\ answer'.op = current /\ answer'.from = Head(cq).op
  BY DEF Harvest, Return
<1>2. /\ Len(cq) \in Nat /\ Len(cq) >= 1 /\ DOMAIN cq = 1..Len(cq) /\ read = cq[1].op.call
      /\ DOMAIN cq' = 1 .. Len(cq) - 1
      /\ \A j \in 1 .. Len(cq) - 1 : cq'[j] = cq[j + 1]
  BY <1>1, QueueFacts, HeadTailProperties
<1> HIDE DEF read
<1>3. OnePlace'
  <2>1. \A i \in DOMAIN sq' : \A j \in DOMAIN cq' : sq'[i].call # cq'[j].op.call
    BY <1>1, <1>2 DEF OnePlace
  <2>2. \A op \in inflight' : \A j \in DOMAIN cq' : op.call # cq'[j].op.call
    BY <1>1, <1>2 DEF OnePlace
  <2>3. \A i, j \in DOMAIN cq' : cq'[i].op.call = cq'[j].op.call => i = j
    <3>1. TAKE i, j \in DOMAIN cq'
    <3>2. i + 1 \in DOMAIN cq /\ j + 1 \in DOMAIN cq /\ cq'[i] = cq[i + 1] /\ cq'[j] = cq[j + 1]
      BY <1>2
    <3>3. cq'[i].op.call = cq'[j].op.call => i + 1 = j + 1
      BY <3>2 DEF OnePlace
    <3>4. QED
      BY <1>2, <3>3
  <2>4. \A j \in DOMAIN cq' : cq'[j].op.call <= calls'
    BY <1>1, <1>2 DEF OnePlace
  <2>5. QED
    BY <1>1, <2>1, <2>2, <2>3, <2>4 DEF OnePlace
<1>4. Unread' = Unread \ {read}
  <2>1. ASSUME NEW call PROVE call \in Unread' <=> call \in Unread /\ call # read
    <3>1. (\E j \in DOMAIN cq' : cq'[j].op.call = call)
            <=> (\E j \in DOMAIN cq : cq[j].op.call = call) /\ call # read
      <4>1. ASSUME NEW j \in DOMAIN cq', cq'[j].op.call = call
            PROVE  (\E k \in DOMAIN cq : cq[k].op.call = call) /\ call # read
        <5>1. j \in Nat /\ j + 1 \in DOMAIN cq /\ cq[j + 1].op.call = call /\ j + 1 # 1
              /\ 1 \in DOMAIN cq
          BY <1>2, <4>1
        <5>2. QED
          BY <1>2, <5>1 DEF OnePlace
      <4>2. ASSUME NEW k \in DOMAIN cq, cq[k].op.call = call, call # read
            PROVE  \E j \in DOMAIN cq' : cq'[j].op.call = call
        <5>1. k # 1 /\ k - 1 \in DOMAIN cq' /\ (k - 1) + 1 = k
          BY <1>2, <4>2
        <5>2. QED
          BY <1>2, <4>2, <5>1
      <4>3. QED
        BY <4>1, <4>2
    <3>2. /\ \A i \in DOMAIN sq : sq[i].call # read
          /\ \A op \in inflight : op.call # read
      BY <1>2 DEF OnePlace
    <3>3. QED
      BY <1>1, <3>1, <3>2, UnreadFacts, UnreadNext
  <2>2. QED
    BY <2>1
<1>5. read \in Unread
  BY <1>2, UnreadFacts
<1>6. Promise!Read(read)
  BY <1>1, <1>4, <1>5, WaitingInCall, OpFacts DEF Promise!Read, read
<1>7. QED
  BY <1>3, <1>5, <1>6

\* A step of the ring is a step of Replies or none.
LEMMA StepImplements ==
  ASSUME IInv, OnePlace, [Next]_vars
  PROVE  OnePlace' /\ [Promise!Next]_Promise!calls
<1>1. CASE Open \/ Close
  BY <1>1, DiscardRestarts DEF Promise!Next
<1>2. ASSUME NEW kind \in Kinds, Refuse(kind) \/ NoEntry(kind) PROVE OnePlace' /\ Promise!Next
  BY <1>2, RefuseRefuses DEF Promise!Next
<1>3. ASSUME NEW kind \in Kinds, Prepare(kind) PROVE OnePlace' /\ Promise!Next
  BY <1>3, PrepareBegins DEF Promise!Next
<1>4. CASE Submit
  BY <1>4, SubmitStutters
<1>5. CASE SubmitFails \/ WaitFails
  BY <1>5, FailsGivesUp DEF Promise!Next
<1>6. CASE Harvest
  BY <1>6, HarvestReads DEF Promise!Next
<1>7. ASSUME NEW op \in Ops, Complete(op) PROVE OnePlace' /\ UNCHANGED Promise!calls
  BY <1>7, CompleteStutters
<1>8. CASE UNCHANGED vars
  BY <1>8 DEF vars, ring, thread, OnePlace, Unread, Promise!calls
<1>9. CASE OpenFile
  BY <1>9, OpenFileStutters
<1>10. QED
  BY <1>1, <1>2, <1>3, <1>4, <1>5, <1>6, <1>7, <1>8, <1>9 DEF Next

--------------------------------------------------------------------------------
(* Theorems *)

\* At any depth and over any number of calls the operations in the ring, the calls
\* that gave up and the thread's own progress stay in step.
THEOREM RingInv == Spec => []IInv
  BY InitInv, NextInv, PTL DEF Spec

\* The submission queue never holds more than queue_depth entries, and what the
\* kernel holds are operations of calls that were made.
THEOREM RingTypeCorrect == Spec => []TypeOK
<1>1. IInv => TypeOK
  BY DEF IInv
<1>2. QED
  BY <1>1, RingInv, PTL

\* read_file leaves no file descriptor open, wherever it fails after it has opened the
\* file: at a full submission queue, in io_uring_submit or in io_uring_wait_cqe; and it
\* closes none before it is done, at any depth and after any earlier failures.
THEOREM DescriptorsAlwaysClosed == Spec => []DescriptorsClosed
<1>1. IInv => DescriptorsClosed
  BY DEF IInv
<1>2. QED
  BY <1>1, RingInv, PTL

\* The ring is behind its callers by the number of calls that gave up since it was
\* opened, neither more nor less, however completions are ordered.
THEOREM LagCounted == Spec => []LagIsAbandoned
<1>1. IInv => LagIsAbandoned
  BY DEF IInv
<1>2. QED
  BY <1>1, RingInv, PTL

\* While no call has given up since the ring was opened, submit_nop_and_wait and
\* read_file return the result of the operation they submitted.
THEOREM OwnWhileInStep == Spec => []ForeignOnlyWhileLagging
<1>1. IInv => ForeignOnlyWhileLagging
  BY DEF IInv
<1>2. QED
  BY <1>1, RingInv, PTL

\* A call that waits in io_uring_wait_cqe has its own operation in flight or completed,
\* or an older completion to take: at any depth and after any failures.
THEOREM WaitsForSomething == Spec => []NeverWaitsInVain
<1>1. IInv => NeverWaitsInVain
  BY DEF IInv
<1>2. QED
  BY <1>1, RingInv, PTL

\* To the program that calls it the ring is Replies: no completion is read twice, none
\* after the ring was discarded, and none that is unread is lost before.
THEOREM RingRefinement == Spec => ImplementsReplies
<1>1. Init => OnePlace /\ Promise!Init
  <2> SUFFICES ASSUME Init PROVE OnePlace /\ Promise!Init
    OBVIOUS
  <2>1. OnePlace
    BY DEF Init, OnePlace
  <2>2. Unread = {}
    BY UnreadFacts DEF Init
  <2>3. QED
    BY <2>1, <2>2, OpFacts DEF Init, Promise!Init
<1>2. IInv /\ OnePlace /\ [Next]_vars => OnePlace' /\ [Promise!Next]_Promise!calls
  BY StepImplements
<1>3. QED
  BY <1>1, <1>2, RingInv, PTL DEF Spec, ImplementsReplies, Promise!Spec

================================================================================
