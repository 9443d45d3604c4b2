---------------------------- MODULE SpscQueueProofs ----------------------------
(* Proofs about SpscQueue for every power-of-two Capacity, every set of items,  *)
(* every choice of throwing operations and any number of pushes.                *)
EXTENDS SpscHandoff, Arithmetic, SequenceTheorems

\* What the static_assert on Capacity gives, in the form the provers need it.
LEMMA ConstantFacts ==
  Capacity \in Nat /\ Capacity >= 2 /\ Capacity >= 1 /\ Gone \notin Items
BY CapacityAssumption, GoneAssumption

\* An operation works on a slot of the ring, and the next one on the next slot.
LEMMA WrapStep ==
  ASSUME NEW i \in Nat
  PROVE  Wrap(i) \in Index /\ Wrap(Wrap(i) + 1) = Wrap(i + 1)
BY ConstantFacts, WrapRange, WrapNext DEF Wrap, Index

\* Operations a full lap apart work on the same slot.
LEMMA WrapLap == ASSUME NEW i \in Nat PROVE Wrap(i + Capacity) = Wrap(i)
BY ConstantFacts, WrapPeriod DEF Wrap

\* Operations fewer than a lap apart work on different slots.
LEMMA WrapApart ==
  ASSUME NEW i \in Nat, NEW j \in Nat, i < j, j < i + Capacity
  PROVE  Wrap(i) # Wrap(j)
<1>1. SUFFICES ASSUME Wrap(i) = Wrap(j) PROVE FALSE
  OBVIOUS
<1>2. i % Capacity = j % Capacity
  BY <1>1 DEF Wrap
<1>3. j >= i + Capacity
  BY <1>2, ConstantFacts, WrapWindow
<1>4. QED
  BY <1>3, ConstantFacts

\* Both indices are the counts of completed operations wrapped to the ring, and
\* the queue never holds more than Capacity - 1 items.
LEMMA CountFacts ==
  ASSUME Inv
  PROVE  /\ Pops \in Nat /\ Pushes \in Nat
         /\ Len(head_) = Pops + 1 /\ Len(tail_) = Pushes + 1
         /\ pSeen \in Nat /\ 1 <= pSeen /\ pSeen <= Pops + 1
         /\ cSeen \in Nat /\ Pops < cSeen /\ cSeen <= Pushes + 1
         /\ Pops <= Pushes /\ Pushes < pSeen + Capacity - 1
         /\ pPc # "idle" => Pushes < pSeen + Capacity - 2
         /\ cPc # "idle" => Pops < cSeen - 1
<1>1. Pops \in Nat /\ Pushes \in Nat /\ Len(head_) = Pops + 1 /\ Len(tail_) = Pushes + 1
  <2>1. head_ \in Seq(Index) /\ head_ # <<>> /\ tail_ \in Seq(Index) /\ tail_ # <<>>
    BY DEF Inv, TypeOK
  <2>2. Len(head_) \in Nat \ {0} /\ Len(tail_) \in Nat \ {0}
    BY <2>1
  <2>3. QED
    BY <2>2 DEF Pops, Pushes
<1>2. pSeen \in 1..Len(head_) /\ cSeen \in 1..Len(tail_)
  BY DEF Inv, TypeOK
<1>3. QED
  BY <1>1, <1>2 DEF Inv, ViewsBound

\* The queue holds less than a lap of items.
LEMMA LapFacts ==
  ASSUME Inv
  PROVE  /\ Pops \in Nat /\ Pushes \in Nat /\ Capacity \in Nat
         /\ Pops <= Pushes /\ Pushes < Pops + Capacity
<1>1. /\ Pops \in Nat /\ Pushes \in Nat /\ Capacity \in Nat /\ pSeen \in Nat
      /\ Pops <= Pushes /\ pSeen <= Pops + 1 /\ Pushes < pSeen + Capacity - 1
  BY CountFacts, ConstantFacts
<1>2. QED
  BY <1>1

\* Every value of an index that a thread may still load is the wrapped count of
\* the operations completed when it was stored; the newest is the current count.
LEMMA IndexFacts ==
  ASSUME Inv
  PROVE  /\ Last(head_) = Wrap(Pops) /\ Last(tail_) = Wrap(Pushes)
         /\ \A k \in HeadMessages : head_[k] = Wrap(k - 1) /\ k \in Int /\ k >= 1
         /\ \A k \in TailMessages : tail_[k] = Wrap(k - 1) /\ k \in Int /\ k >= 1
<1>1. /\ \A i \in 1 .. Pops + 1 : head_[i] = Wrap(i - 1)
      /\ \A i \in 1 .. Pushes + 1 : tail_[i] = Wrap(i - 1)
  BY CountFacts DEF Inv, OrdersCount
<1>2. /\ Pops \in Nat /\ Pushes \in Nat
      /\ Len(head_) = Pops + 1 /\ Len(tail_) = Pushes + 1
      /\ pSeen \in Nat /\ pSeen >= 1 /\ cSeen \in Nat /\ cSeen >= 1
  BY CountFacts
<1>3. Last(head_) = Wrap(Pops) /\ Last(tail_) = Wrap(Pushes)
  <2>1. head_[Pops + 1] = Wrap(Pops) /\ tail_[Pushes + 1] = Wrap(Pushes)
    <3>1. /\ Pops + 1 \in 1 .. Pops + 1 /\ (Pops + 1) - 1 = Pops
          /\ Pushes + 1 \in 1 .. Pushes + 1 /\ (Pushes + 1) - 1 = Pushes
      BY <1>2
    <3>2. QED
      BY <1>1, <3>1
  <2>2. QED
    BY <1>2, <2>1 DEF Last
<1>4. \A k \in HeadMessages : k \in 1 .. Pops + 1 /\ k \in Int /\ k >= 1
  BY <1>2 DEF HeadMessages
<1>5. \A k \in TailMessages : k \in 1 .. Pushes + 1 /\ k \in Int /\ k >= 1
  BY <1>2 DEF TailMessages
<1>6. QED
  BY <1>1, <1>3, <1>4, <1>5

\* What "next == head_.load()" decides: the ring is full at the loaded value of
\* head_, and a queue of Capacity items is never taken for an empty one.
LEMMA ProducerExact == Inv => ProducerVerdictExact
<1> SUFFICES ASSUME Inv, NEW k \in HeadMessages
             PROVE  /\ Full(k) <=> Pushes - (k - 1) = Capacity - 1
                    /\ Last(tail_) = head_[k] <=> Pushes = k - 1
  BY DEF ProducerVerdictExact
<1> DEFINE n == k - 1
<1>1. n \in Nat /\ k = n + 1 /\ k - 1 = n /\ head_[k] = Wrap(n)
  BY IndexFacts
<1>2. n <= Pushes /\ Pushes + 1 <= n + Capacity
  <2>1. /\ Pops \in Nat /\ Pushes \in Nat /\ pSeen \in Nat /\ Capacity \in Nat
        /\ Pops <= Pushes /\ Pushes < pSeen + Capacity - 1
    BY CountFacts, ConstantFacts
  <2>2. pSeen <= k /\ k <= Pops + 1
    BY CountFacts DEF HeadMessages
  <2>3. QED
    BY <1>1, <2>1, <2>2
<1> HIDE DEF n
<1>3. Full(k) <=> Wrap(Pushes + 1) = Wrap(n)
  BY <1>1, IndexFacts, CountFacts, WrapStep DEF Full
<1>4. Wrap(Pushes + 1) = Wrap(n) <=> Pushes + 1 = n + Capacity
  <2>1. CASE Pushes + 1 = n + Capacity
    BY <1>1, <2>1, WrapLap
  <2>2. CASE Pushes + 1 < n + Capacity
    <3>1. Pushes + 1 \in Nat /\ n < Pushes + 1
      BY <1>1, <1>2, LapFacts
    <3>2. Wrap(Pushes + 1) # Wrap(n)
      BY <1>1, <2>2, <3>1, WrapApart
    <3>3. Pushes + 1 # n + Capacity
      BY <1>1, <2>2, <3>1, ConstantFacts
    <3>4. QED
      BY <3>2, <3>3
  <2>3. Pushes \in Nat /\ Capacity \in Nat
    BY CountFacts, ConstantFacts
  <2>4. Pushes + 1 = n + Capacity \/ Pushes + 1 < n + Capacity
    BY <1>1, <1>2, <2>3
  <2>5. QED
    BY <1>1, <2>1, <2>2, <2>3, <2>4
<1>5. Wrap(Pushes) = Wrap(n) <=> Pushes = n
  <2>1. Pushes \in Nat /\ Capacity \in Nat
    BY LapFacts
  <2>2. n < Pushes => Pushes < n + Capacity
    BY <1>1, <1>2, <2>1
  <2>3. n < Pushes => Wrap(Pushes) # Wrap(n)
    BY <1>1, <2>1, <2>2, WrapApart
  <2>4. QED
    BY <1>1, <1>2, <2>1, <2>3
<1>6. Pushes + 1 = n + Capacity <=> Pushes - (k - 1) = Capacity - 1
  <2>1. Pushes \in Nat /\ Capacity \in Nat
    BY CountFacts, ConstantFacts
  <2>2. QED
    BY <1>1, <2>1
<1>7. QED
  BY <1>1, <1>3, <1>4, <1>5, <1>6, IndexFacts

\* What "h == tail_.load()" decides: nothing pushed up to the loaded value of
\* tail_ is left.
LEMMA ConsumerExact == Inv => ConsumerVerdictExact
<1> SUFFICES ASSUME Inv, NEW k \in TailMessages
             PROVE  Empty(k) <=> Pops = k - 1
  BY DEF ConsumerVerdictExact
<1> DEFINE n == k - 1
<1>1. n \in Nat /\ k = n + 1 /\ tail_[k] = Wrap(n)
  BY IndexFacts
<1>2. Pops <= n /\ n < Pops + Capacity
  <2>1. /\ Pops \in Nat /\ Pushes \in Nat /\ Capacity \in Nat
        /\ pSeen \in Nat /\ pSeen <= Pops + 1 /\ Pushes < pSeen + Capacity - 1
    BY CountFacts, ConstantFacts
  <2>2. Pops < k /\ k <= Pushes + 1
    BY CountFacts DEF TailMessages
  <2>3. QED
    BY <1>1, <2>1, <2>2
<1> HIDE DEF n
<1>3. Wrap(Pops) = Wrap(n) <=> Pops = n
  <2>1. Pops \in Nat
    BY CountFacts
  <2>2. Pops < n => Wrap(Pops) # Wrap(n)
    BY <1>1, <1>2, <2>1, WrapApart
  <2>3. QED
    BY <1>1, <1>2, <2>1, <2>2
<1>4. QED
  BY <1>1, <1>3, IndexFacts DEF Empty

\* The producer's next write comes after the last pop from its slot, the
\* consumer's next read after the push that filled it.
LEMMA RaceFree == Inv => NoDataRace
<1> SUFFICES ASSUME Inv PROVE NoDataRace
  OBVIOUS
<1>1. ASSUME pPc = "write" PROVE slots_[Last(tail_)].r <= pSync
  <2> DEFINE r == slots_[Last(tail_)].r
  <2>1. r \in Nat /\ Last(tail_) = Wrap(Pushes) /\ Wrap(Pushes) \in Index
    BY IndexFacts, CountFacts, WrapStep DEF Inv, TypeOK
  <2>2. pSync \in Nat /\ Pushes < pSync + Capacity
    <3>1. pSync = pSeen - 1
      BY DEF Inv, ViewsSynchronised
    <3>2. /\ pSeen \in Nat /\ pSeen >= 1 /\ Pushes \in Nat /\ Capacity \in Nat
          /\ Pushes < pSeen + Capacity - 2
      BY <1>1, CountFacts, ConstantFacts
    <3>3. QED
      BY <3>1, <3>2
  <2>3. r # 0 => Wrap(r - 1) = Wrap(Pushes) /\ r - 1 < Pushes
    BY <2>1, CountFacts DEF Inv, SlotsTouched
  <2> HIDE DEF r
  <2>4. r # 0 => r - 1 + Capacity <= Pushes
    BY <2>1, <2>3, CountFacts, ConstantFacts, WrapApart
  <2>5. r <= pSync
    BY <2>1, <2>2, <2>4, CountFacts, ConstantFacts
  <2>6. QED
    BY <2>5 DEF r
<1>2. ASSUME cPc = "read" PROVE slots_[Last(head_)].w <= cSync
  <2>1. slots_[Wrap(Pops)].w = Pops + 1
    <3>1. Pops + 1 \in Pops + 1 .. Pushes /\ (Pops + 1) - 1 = Pops
      BY <1>2, CountFacts
    <3>2. QED
      BY <3>1 DEF Inv, SlotsHoldQueue
  <2>2. QED
    BY <1>2, <2>1, IndexFacts, CountFacts, SMTT(30) DEF Inv, ViewsSynchronised
<1>3. ASSUME pPc = "write", cPc = "read" PROVE Last(tail_) # Last(head_)
  <2>1. Pops < Pushes
    <3>1. /\ Pops \in Nat /\ Pushes \in Nat /\ cSeen \in Nat
          /\ Pops < cSeen - 1 /\ cSeen <= Pushes + 1
      BY <1>3, CountFacts
    <3>2. QED
      BY <3>1
  <2>2. Wrap(Pops) # Wrap(Pushes)
    BY <2>1, LapFacts, WrapApart
  <2>3. QED
    BY <2>2, IndexFacts
<1>4. QED
  BY <1>1, <1>2, <1>3 DEF NoDataRace

--------------------------------------------------------------------------------
(* Inv is inductive *)

\* A constructed queue has both indices at zero, seen by both threads.
LEMMA InitInv == Init => Inv
<1> SUFFICES ASSUME Init PROVE Inv
  OBVIOUS
<1>1. Pops = 0 /\ Pushes = 0 /\ Len(head_) = 1 /\ Len(tail_) = 1
  BY DEF Init, Pops, Pushes
<1>2. 0 \in Index /\ Wrap(0) = 0
  BY ConstantFacts, SMT DEF Index, Wrap
<1>3. TypeOK
  BY <1>1, <1>2 DEF Init, TypeOK
<1>4. OrdersCount
  BY <1>1, <1>2 DEF Init, OrdersCount
<1>5. ViewsSynchronised /\ ViewsBound
  BY <1>1, ConstantFacts DEF Init, ViewsSynchronised, ViewsBound
<1>6. SlotsTouched /\ SlotsHoldQueue
  BY <1>1 DEF Init, SlotsTouched, SlotsHoldQueue
<1>7. FifoDelivery
  BY <1>1 DEF Init, FifoDelivery, IsPrefix
<1>8. QED
  BY <1>3, <1>4, <1>5, <1>6, <1>7 DEF Inv

\* What a load of the other thread's index brings a thread: a newer view, and
\* the happens-before edges of the operations in it.
LEMMA ProducerView ==
  ASSUME Inv, NEW k \in HeadMessages, ProducerLearns(k)
  PROVE  /\ pSeen' = k /\ k \in 1 .. Len(head_)
         /\ pSync' = k - 1 /\ k - 1 \in Nat
         /\ Pushes < k + Capacity - 1
         /\ ~Full(k) => Pushes < k + Capacity - 2
<1>1. pSeen' = k /\ pSync' = k - 1
  BY DEF ProducerLearns, Sync, HeadStoreOrder, HeadLoadOrder
<1>2. k \in 1 .. Len(head_) /\ k - 1 \in Nat /\ k \in Nat /\ Pushes < k + Capacity - 1
  <2>1. /\ Len(head_) \in Nat /\ Pushes \in Nat /\ Capacity \in Nat
        /\ pSeen \in Nat /\ 1 <= pSeen /\ Pushes < pSeen + Capacity - 1
    BY CountFacts, ConstantFacts
  <2>2. k \in pSeen .. Len(head_)
    BY DEF HeadMessages
  <2>3. QED
    BY <2>1, <2>2
<1>3. Full(k) <=> Pushes - (k - 1) = Capacity - 1
  BY ProducerExact DEF ProducerVerdictExact
<1>4. Pushes < k + Capacity - 2 \/ Pushes - (k - 1) = Capacity - 1
  <2>1. Pushes \in Nat /\ Capacity \in Nat
    BY CountFacts, ConstantFacts
  <2>2. QED
    BY <1>2, <2>1
<1>5. QED
  BY <1>1, <1>2, <1>3, <1>4

\* The same for the consumer and tail_.
LEMMA ConsumerView ==
  ASSUME Inv, NEW k \in TailMessages, ConsumerLearns(k)
  PROVE  /\ cSeen' = k /\ k \in 1 .. Len(tail_)
         /\ cSync' = k - 1 /\ k - 1 \in Nat
         /\ Pops < k
         /\ ~Empty(k) => Pops < k - 1
<1>1. cSeen' = k /\ cSync' = k - 1
  BY DEF ConsumerLearns, Sync, TailStoreOrder, TailLoadOrder
<1>2. k \in 1 .. Len(tail_) /\ k - 1 \in Nat /\ k \in Nat /\ Pops < k
  BY CountFacts DEF TailMessages
<1>3. Empty(k) <=> Pops = k - 1
  BY ConsumerExact DEF ConsumerVerdictExact
<1>4. Pops # k - 1 => Pops < k - 1
  BY <1>2, CountFacts
<1>5. QED
  BY <1>1, <1>2, <1>3, <1>4

\* The producer loads head_: a refused or admitted try_push, an empty().
LEMMA ProducerLooks ==
  ASSUME Inv, PushFull \/ (\E v \in Items : PushAdmit(v)) \/ ProducerEmpty
  PROVE  Inv' /\ Pops' = Pops /\ Pushes' = Pushes /\ \A n : Held(n)' = Held(n)
<1>1. PICK k \in HeadMessages :
        ProducerLearns(k) /\ (pPc' # "idle" => ~Full(k) /\ pItem' \in Items)
  BY DEF PushFull, PushAdmit, ProducerEmpty, Inv, TypeOK
<1>2. /\ UNCHANGED <<head_, tail_, slots_, cPc, cOut, cSeen, cSync, pushed, delivered>>
      /\ pPc' \in {"idle", "write"} /\ pItem' \in Items \union {Gone}
  BY DEF PushFull, PushAdmit, ProducerEmpty, consumer, Inv, TypeOK
<1>3. Pops' = Pops /\ Pushes' = Pushes
  BY <1>2 DEF Pops, Pushes
<1>4. TypeOK'
  BY <1>1, <1>2, ProducerView DEF Inv, TypeOK
<1>5. ViewsSynchronised' /\ ViewsBound'
  BY <1>1, <1>2, <1>3, ProducerView DEF Inv, ViewsSynchronised, ViewsBound
<1>6. \A n : Held(n)' = Held(n)
  BY <1>2, <1>3 DEF Held
<1>7. OrdersCount' /\ SlotsTouched' /\ SlotsHoldQueue' /\ FifoDelivery'
  BY <1>1, <1>2, <1>3, <1>6
  DEF Inv, OrdersCount, SlotsTouched, SlotsHoldQueue, FifoDelivery
<1>8. QED
  BY <1>3, <1>4, <1>5, <1>6, <1>7 DEF Inv

\* The consumer loads tail_: a refused or admitted try_pop, an empty().
LEMMA ConsumerLooks ==
  ASSUME Inv, PopEmpty \/ PopAdmit \/ ConsumerEmpty
  PROVE  Inv' /\ Pops' = Pops /\ Pushes' = Pushes /\ \A n : Held(n)' = Held(n)
<1>1. PICK k \in TailMessages : ConsumerLearns(k) /\ (cPc' # "idle" => ~Empty(k))
  BY DEF PopEmpty, PopAdmit, ConsumerEmpty
<1>2. /\ UNCHANGED <<head_, tail_, slots_, pPc, pItem, pSeen, pSync, cOut, pushed, delivered>>
      /\ cPc = "idle" /\ cPc' \in {"idle", "read"}
  BY DEF PopEmpty, PopAdmit, ConsumerEmpty, producer
<1>3. Pops' = Pops /\ Pushes' = Pushes
  BY <1>2 DEF Pops, Pushes
<1>4. TypeOK'
  BY <1>1, <1>2, ConsumerView DEF Inv, TypeOK
<1>5. ViewsSynchronised' /\ ViewsBound'
  BY <1>1, <1>2, <1>3, ConsumerView DEF Inv, ViewsSynchronised, ViewsBound
<1>6. \A n : Held(n)' = Held(n)
  BY <1>2, <1>3 DEF Held
<1>7. OrdersCount' /\ SlotsTouched' /\ SlotsHoldQueue' /\ FifoDelivery'
  BY <1>2, <1>3, <1>6
  DEF Inv, OrdersCount, SlotsTouched, SlotsHoldQueue, FifoDelivery
<1>8. QED
  BY <1>3, <1>4, <1>5, <1>6, <1>7 DEF Inv

\* The write of the item into slots_[t], complete or cut short by a throw, is
\* outside the queued slots.
LEMMA AssignInv ==
  ASSUME Inv, PushWrite \/ PushThrow
  PROVE  /\ Inv' /\ Pops' = Pops /\ Pushes' = Pushes
         /\ \A n \in Pops + 1 .. Pushes : Held(n)' = Held(n)
<1>1. /\ UNCHANGED <<head_, tail_, pSeen, pSync, cPc, cOut, cSeen, cSync, pushed, delivered>>
      /\ pPc = "write" /\ pPc' \in {"publish", "idle"}
      /\ pItem' \in Items \union {Gone}
      /\ pPc' # "idle" => pItem' = pItem
  BY DEF PushWrite, PushThrow, consumer, Inv, TypeOK
<1>2. Pops' = Pops /\ Pushes' = Pushes
  BY <1>1 DEF Pops, Pushes
<1>3. PICK item \in Items \union {Gone} :
        Assign(item) /\ (pPc' # "idle" => item = pItem)
  BY <1>1 DEF PushWrite, PushThrow, Inv, TypeOK
<1>4. /\ Wrap(Pushes) \in Index
      /\ slots_' = [slots_ EXCEPT ![Wrap(Pushes)] =
                       [item |-> item, w |-> Pushes + 1, r |-> @.r]]
  BY <1>3, IndexFacts, CountFacts, WrapStep DEF Assign
<1>5. /\ slots_'[Wrap(Pushes)].item = item /\ slots_'[Wrap(Pushes)].w = Pushes + 1
      /\ \A s \in Index : s # Wrap(Pushes) => slots_'[s] = slots_[s]
      /\ \A s \in Index : slots_'[s].r = slots_[s].r
  BY <1>4 DEF Inv, TypeOK
<1>6. TypeOK'
  <2>1. slots_' \in [Index -> [item : Items \union {Gone}, w : Nat, r : Nat]]
    <3>1. [item |-> item, w |-> Pushes + 1, r |-> slots_[Wrap(Pushes)].r]
            \in [item : Items \union {Gone}, w : Nat, r : Nat]
      <4>1. slots_[Wrap(Pushes)].r \in Nat
        BY <1>4 DEF Inv, TypeOK
      <4>2. Pushes + 1 \in Nat
        BY CountFacts
      <4>3. QED
        BY <4>1, <4>2
    <3>2. QED
      BY <1>4, <3>1 DEF Inv, TypeOK
  <2>2. QED
    BY <1>1, <2>1 DEF Inv, TypeOK
<1>7. OrdersCount' /\ ViewsSynchronised' /\ ViewsBound' /\ FifoDelivery'
  BY <1>1, <1>2
  DEF Inv, OrdersCount, ViewsSynchronised, ViewsBound, FifoDelivery
<1>8. SlotsTouched'
  BY <1>2, <1>5 DEF Inv, SlotsTouched
<1>9. \A n \in Pops + 1 .. Pushes : slots_'[Wrap(n - 1)] = slots_[Wrap(n - 1)]
  <2> SUFFICES ASSUME NEW n \in Pops + 1 .. Pushes
               PROVE  slots_'[Wrap(n - 1)] = slots_[Wrap(n - 1)]
    OBVIOUS
  <2>1. n - 1 \in Nat /\ n - 1 < Pushes /\ Pushes < (n - 1) + Capacity
    BY CountFacts, ConstantFacts
  <2>2. Wrap(n - 1) \in Index /\ Wrap(n - 1) # Wrap(Pushes)
    BY <2>1, CountFacts, WrapStep, WrapApart
  <2>3. QED
    BY <1>5, <2>2
<1>10. \A n \in Pops + 1 .. Pushes : Held(n)' = Held(n)
  BY <1>1, <1>2, <1>9 DEF Held
<1>11. SlotsHoldQueue'
  BY <1>1, <1>2, <1>3, <1>5, <1>9, <1>10 DEF Inv, SlotsHoldQueue
<1>12. QED
  BY <1>2, <1>6, <1>7, <1>8, <1>10, <1>11 DEF Inv

\* try_pop moves the item out of slots_[h], or its construction throws: no other
\* slot is touched, and only a move that throws spoils the item there.
LEMMA VacateInv ==
  ASSUME Inv, PopRead \/ PopThrow
  PROVE  /\ Inv' /\ Pops' = Pops /\ Pushes' = Pushes /\ Pops < Pushes
         /\ \A n \in Pops + 2 .. Pushes : Held(n)' = Held(n)
         /\ \/ Held(Pops + 1)' = Held(Pops + 1)
            \/ "move" \in Throws /\ Held(Pops + 1)' = Gone
<1> DEFINE old == slots_[Wrap(Pops)]
<1>1. /\ UNCHANGED <<head_, tail_, pPc, pItem, pSeen, pSync, cSeen, cSync, pushed, delivered>>
      /\ cPc = "read" /\ cPc' \in {"commit", "idle"}
  BY DEF PopRead, PopThrow, producer
<1>2. Pops' = Pops /\ Pushes' = Pushes
  BY <1>1 DEF Pops, Pushes
<1>3. /\ Pops < Pushes /\ Wrap(Pops) \in Index
      /\ old \in [item : Items \union {Gone}, w : Nat, r : Nat]
      /\ old.w = Pops + 1 /\ Held(Pops + 1) = old.item
  <2>1. Pops < Pushes /\ Wrap(Pops) \in Index
    <3>1. /\ Pops \in Nat /\ Pushes \in Nat /\ cSeen \in Nat
          /\ Pops < cSeen - 1 /\ cSeen <= Pushes + 1
      BY <1>1, CountFacts
    <3>2. Pops < Pushes
      BY <3>1
    <3>3. QED
      BY <3>1, <3>2, WrapStep
  <2>2. Pops + 1 \in Pops + 1 .. Pushes /\ (Pops + 1) - 1 = Pops
    BY <2>1, CountFacts
  <2>3. QED
    BY <1>1, <2>1, <2>2 DEF Inv, TypeOK, SlotsHoldQueue, Held
<1>4. PICK item \in Items \union {Gone} :
        /\ slots_' = [slots_ EXCEPT ![Wrap(Pops)] =
                        [item |-> item, w |-> @.w, r |-> Pops + 1]]
        /\ cPc' # "commit" => /\ item = old.item \/ ("move" \in Throws /\ item = Gone)
                             /\ cOut' = cOut
        /\ cPc' = "commit" => cOut' = old.item
  <2>1. Last(head_) = Wrap(Pops) /\ Len(head_) = Pops + 1 /\ old.item \in Items \union {Gone}
    BY <1>3, IndexFacts, CountFacts
  <2>2. CASE PopRead
    BY <2>1, <2>2 DEF PopRead, Vacate
  <2>3. CASE PopThrow
    BY <2>1, <2>3 DEF PopThrow, Leftovers, Vacate
  <2>4. QED
    BY <2>2, <2>3
<1>5. /\ slots_'[Wrap(Pops)].item = item /\ slots_'[Wrap(Pops)].w = Pops + 1
      /\ slots_'[Wrap(Pops)].r = Pops + 1
      /\ \A s \in Index : s # Wrap(Pops) => slots_'[s] = slots_[s]
  BY <1>3, <1>4 DEF Inv, TypeOK
<1>6. TypeOK'
  <2>1. [item |-> item, w |-> old.w, r |-> Pops + 1]
          \in [item : Items \union {Gone}, w : Nat, r : Nat]
    BY <1>3, CountFacts
  <2>2. slots_' \in [Index -> [item : Items \union {Gone}, w : Nat, r : Nat]]
    BY <1>3, <1>4, <2>1 DEF Inv, TypeOK
  <2>3. cOut' \in Items \union {Gone}
    BY <1>1, <1>3, <1>4 DEF Inv, TypeOK
  <2>4. QED
    BY <1>1, <2>2, <2>3 DEF Inv, TypeOK
<1>7. OrdersCount' /\ ViewsSynchronised' /\ ViewsBound' /\ FifoDelivery'
  BY <1>1, <1>2
  DEF Inv, OrdersCount, ViewsSynchronised, ViewsBound, FifoDelivery
<1>8. SlotsTouched'
  <2>1. Pops + 1 <= Pushes /\ (Pops + 1) - 1 = Pops
    BY <1>3, CountFacts
  <2>2. QED
    BY <1>2, <1>5, <2>1 DEF Inv, SlotsTouched
<1>9. \A n \in Pops + 2 .. Pushes : slots_'[Wrap(n - 1)] = slots_[Wrap(n - 1)]
  <2> SUFFICES ASSUME NEW n \in Pops + 2 .. Pushes
               PROVE  slots_'[Wrap(n - 1)] = slots_[Wrap(n - 1)]
    OBVIOUS
  <2>1. n - 1 \in Nat /\ Pops < n - 1 /\ n - 1 < Pops + Capacity
    BY LapFacts
  <2>2. Wrap(n - 1) \in Index /\ Wrap(n - 1) # Wrap(Pops)
    BY <2>1, CountFacts, WrapStep, WrapApart
  <2>3. QED
    BY <1>5, <2>2
<1>10. \A n \in Pops + 2 .. Pushes : Held(n)' = Held(n)
  <2>1. \A n \in Pops + 2 .. Pushes : n # Pops + 1
    BY CountFacts
  <2>2. QED
    BY <1>2, <1>9, <2>1 DEF Held
<1>11. \/ Held(Pops + 1)' = Held(Pops + 1)
       \/ "move" \in Throws /\ Held(Pops + 1)' = Gone
  <2>1. (Pops + 1) - 1 = Pops
    BY CountFacts
  <2>2. Held(Pops + 1)' = IF cPc' = "commit" THEN cOut' ELSE slots_'[Wrap(Pops)].item
    BY <1>2, <2>1 DEF Held
  <2>3. QED
    BY <1>3, <1>4, <1>5, <2>2
<1>12. SlotsHoldQueue'
  <2>1. ASSUME NEW n \in Pops + 1 .. Pushes
        PROVE  /\ slots_'[Wrap(n - 1)].w = n
               /\ n # Pops + 1 \/ "move" \notin Throws => Held(n)' = pushed[n]
    <3>1. CASE n = Pops + 1
      <4>1. n - 1 = Pops
        BY <3>1, CountFacts
      <4>2. slots_'[Wrap(n - 1)].w = n
        BY <1>5, <3>1, <4>1
      <4>3. Held(Pops + 1)' = Held(n)'
        BY <1>2, <3>1 DEF Held
      <4>4. "move" \notin Throws => Held(n)' = Held(n)
        BY <1>11, <3>1, <4>3
      <4>5. "move" \notin Throws => Held(n) = pushed[n]
        BY DEF Inv, SlotsHoldQueue
      <4>6. QED
        BY <3>1, <4>2, <4>4, <4>5
    <3>2. CASE n # Pops + 1
      <4>1. n \in Pops + 2 .. Pushes
        BY <3>2, CountFacts
      <4>2. QED
        BY <1>9, <1>10, <3>2, <4>1 DEF Inv, SlotsHoldQueue
    <3>3. QED
      BY <3>1, <3>2
  <2>2. pPc = "publish" => slots_'[Wrap(Pushes)] = slots_[Wrap(Pushes)]
    <3>1. Wrap(Pushes) \in Index
      BY CountFacts, WrapStep
    <3>2. pPc = "publish" => Wrap(Pushes) # Wrap(Pops)
      BY <1>3, CountFacts, ConstantFacts, WrapApart
    <3>3. QED
      BY <1>5, <3>1, <3>2
  <2>3. QED
    BY <1>1, <1>2, <2>1, <2>2 DEF Inv, SlotsHoldQueue
<1>13. QED
  BY <1>2, <1>3, <1>6, <1>7, <1>8, <1>10, <1>11, <1>12 DEF Inv

\* A prefix, item by item.
LEMMA PrefixItems ==
  ASSUME NEW S, NEW T, NEW s \in Seq(S), NEW t \in Seq(T)
  PROVE  IsPrefix(s, t) <=> /\ Len(s) <= Len(t)
                            /\ \A i \in 1 .. Len(s) : s[i] = t[i]
BY DEF IsPrefix

\* The release store of tail_ hands the written slot over to the consumer.
LEMMA PublishInv ==
  ASSUME Inv, PushPublish
  PROVE  /\ Inv' /\ Pops' = Pops /\ Pushes' = Pushes + 1 /\ pItem \in Items
         /\ \A n \in Pops + 1 .. Pushes : Held(n)' = Held(n)
         /\ \A n : n = Pushes + 1 => Held(n)' = pItem
<1>1. /\ UNCHANGED <<head_, slots_, pSeen, pSync, cPc, cOut, cSeen, cSync, delivered>>
      /\ pPc = "publish" /\ pPc' = "idle" /\ pItem' = Gone
      /\ pushed' = Append(pushed, pItem)
  BY DEF PushPublish, consumer
<1>2. tail_' = Append(tail_, Wrap(Pushes + 1)) /\ Wrap(Pushes + 1) \in Index
  <2>1. Wrap(Wrap(Pushes) + 1) = Wrap(Pushes + 1)
    BY CountFacts, WrapStep
  <2>2. Pushes + 1 \in Nat
    BY CountFacts
  <2>3. QED
    BY <2>1, <2>2, IndexFacts, WrapStep DEF PushPublish
<1>3. /\ Pops' = Pops /\ Pushes' = Pushes + 1 /\ Len(tail_') = Pushes + 2
      /\ Len(pushed) = Pushes /\ pItem \in Items
  BY <1>1, <1>2, CountFacts DEF Pops, Pushes, Inv, TypeOK, OrdersCount, SlotsHoldQueue
<1>4. /\ Len(pushed') = Pushes + 1 /\ pushed' \in Seq(Items)
      /\ \A n \in 1 .. Pushes : pushed'[n] = pushed[n]
      /\ pushed'[Pushes + 1] = pItem
  <2>1. pushed \in Seq(Items)
    BY DEF Inv, TypeOK
  <2>2. QED
    BY <1>1, <1>3, <2>1, AppendProperties
<1>5. /\ tail_' \in Seq(Index) /\ tail_' # <<>>
      /\ \A j \in 1 .. Pushes + 1 : tail_'[j] = tail_[j]
      /\ tail_'[Pushes + 2] = Wrap(Pushes + 1)
  <2>1. tail_ \in Seq(Index)
    BY DEF Inv, TypeOK
  <2>2. Len(tail_) = Pushes + 1 /\ (Pushes + 1) + 1 = Pushes + 2
    BY CountFacts
  <2>3. QED
    BY <1>2, <2>1, <2>2, AppendProperties
<1>6. TypeOK'
  <2>1. cSeen \in 1 .. Len(tail_')
    BY <1>3, CountFacts
  <2>2. QED
    BY <1>1, <1>4, <1>5, <2>1 DEF Inv, TypeOK
<1>7. OrdersCount'
  <2>1. ASSUME NEW i \in 1 .. Pushes + 2 PROVE tail_'[i] = Wrap(i - 1)
    <3>1. CASE i = Pushes + 2
      BY <1>5, <3>1, CountFacts
    <3>2. CASE i \in 1 .. Pushes + 1
      BY <1>5, <3>2, CountFacts DEF Inv, OrdersCount
    <3>3. QED
      BY <3>1, <3>2, CountFacts
  <2>2. QED
    BY <1>1, <1>3, <1>4, <2>1 DEF Inv, OrdersCount
<1>8. ViewsSynchronised' /\ ViewsBound'
  <2>1. ViewsSynchronised'
    BY <1>1, <1>3 DEF Inv, ViewsSynchronised
  <2>2. /\ Pops \in Nat /\ Pushes \in Nat /\ pSeen \in Nat /\ cSeen \in Nat
        /\ Pushes < pSeen + Capacity - 2 /\ Capacity \in Nat
    BY <1>1, CountFacts, ConstantFacts
  <2>3. ViewsBound'
    BY <1>1, <1>3, <2>2 DEF Inv, ViewsBound
  <2>4. QED
    BY <2>1, <2>3
<1>9. SlotsTouched'
  <2>1. \A s \in Index : slots_[s].r \in Nat
    BY DEF Inv, TypeOK
  <2>2. \A r \in Nat : r <= Pushes => r <= Pushes + 1
    BY CountFacts
  <2>3. QED
    BY <1>1, <1>3, <2>1, <2>2 DEF Inv, SlotsTouched
<1>10. \A n : Held(n)' = Held(n)
  BY <1>1, <1>3 DEF Held
<1>11. Held(Pushes + 1) = pItem /\ slots_[Wrap(Pushes)].w = Pushes + 1
  <2>1. (Pushes + 1) - 1 = Pushes /\ (cPc = "commit" => Pushes + 1 # Pops + 1)
    BY CountFacts
  <2>2. QED
    BY <1>1, <2>1 DEF Held, Inv, SlotsHoldQueue
<1>12. SlotsHoldQueue'
  <2>1. ASSUME NEW n \in Pops + 1 .. Pushes + 1
        PROVE  /\ slots_[Wrap(n - 1)].w = n
               /\ n # Pops + 1 \/ "move" \notin Throws => Held(n) = pushed'[n]
    <3>1. CASE n = Pushes + 1
      <4>1. n - 1 = Pushes
        BY <3>1, CountFacts
      <4>2. QED
        BY <1>4, <1>11, <3>1, <4>1
    <3>2. CASE n # Pushes + 1
      <4>1. n \in Pops + 1 .. Pushes /\ n \in 1 .. Pushes
        BY <3>2, CountFacts
      <4>2. QED
        BY <1>4, <4>1 DEF Inv, SlotsHoldQueue
    <3>3. QED
      BY <3>1, <3>2
  <2>2. QED
    BY <1>1, <1>3, <1>10, <2>1 DEF SlotsHoldQueue
<1>13. FifoDelivery'
  <2>1. ASSUME ~Constructing PROVE IsPrefix(delivered, pushed')
    <3>1. /\ Len(delivered) = Pops /\ delivered \in Seq(Items \union {Gone})
          /\ \A i \in 1 .. Pops : delivered[i] = pushed[i]
      <4>1. /\ Len(delivered) = Pops /\ delivered \in Seq(Items \union {Gone})
            /\ pushed \in Seq(Items) /\ IsPrefix(delivered, pushed)
        BY <2>1 DEF Inv, TypeOK, FifoDelivery
      <4>2. \A i \in 1 .. Len(delivered) : delivered[i] = pushed[i]
        BY <4>1, PrefixItems
      <4>3. QED
        BY <4>1, <4>2
    <3>2. \A i \in 1 .. Pops : i \in 1 .. Pushes
      BY CountFacts
    <3>3. Pops <= Len(pushed') /\ \A i \in 1 .. Pops : delivered[i] = pushed'[i]
      BY <1>4, <3>1, <3>2, CountFacts
    <3>4. QED
      BY <1>4, <3>1, <3>3, PrefixItems
  <2>2. QED
    BY <1>1, <1>3, <2>1 DEF Inv, FifoDelivery
<1>14. QED
  BY <1>3, <1>6, <1>7, <1>8, <1>9, <1>10, <1>11, <1>12, <1>13 DEF Inv

\* The release store of head_ hands the slot back to the producer; the item is
\* returned, or lost if its conversion to the returned optional throws.
LEMMA StoreHeadInv ==
  ASSUME Inv, PopCommit \/ PopLose
  PROVE  /\ Inv' /\ Pops' = Pops + 1 /\ Pushes' = Pushes /\ Pops < Pushes
         /\ Held(Pops + 1) = cOut
         /\ \A n \in Pops + 2 .. Pushes : Held(n)' = Held(n)
<1>1. /\ UNCHANGED <<tail_, slots_, pPc, pItem, pSeen, pSync, cSeen, cSync, pushed>>
      /\ cPc = "commit" /\ cPc' = "idle" /\ cOut' = Gone
      /\ \/ delivered' = Append(delivered, cOut)
         \/ Constructing /\ delivered' = delivered
  BY DEF PopCommit, PopLose, StoreHead, producer
<1>2. head_' = Append(head_, Wrap(Pops + 1)) /\ Wrap(Pops + 1) \in Index
  <2>1. Wrap(Wrap(Pops) + 1) = Wrap(Pops + 1)
    BY CountFacts, WrapStep
  <2>2. Pops + 1 \in Nat
    BY CountFacts
  <2>3. QED
    BY <2>1, <2>2, IndexFacts, WrapStep DEF PopCommit, PopLose, StoreHead
<1>3. /\ head_' \in Seq(Index) /\ head_' # <<>> /\ Len(head_') = Pops + 2
      /\ \A j \in 1 .. Pops + 1 : head_'[j] = head_[j]
      /\ head_'[Pops + 2] = Wrap(Pops + 1)
  <2>1. head_ \in Seq(Index)
    BY DEF Inv, TypeOK
  <2>2. Len(head_) = Pops + 1 /\ (Pops + 1) + 1 = Pops + 2
    BY CountFacts
  <2>3. QED
    BY <1>2, <2>1, <2>2, AppendProperties
<1>4. /\ Pops' = Pops + 1 /\ Pushes' = Pushes /\ Len(head_') = Pops + 2
      /\ Pops < Pushes
  <2>1. Pops < Pushes
    BY <1>1, CountFacts
  <2>2. Pops' = (Pops + 2) - 1 /\ Pushes' = Pushes
    BY <1>1, <1>3 DEF Pops, Pushes
  <2>3. QED
    BY <1>3, <2>1, <2>2, CountFacts
<1>5. delivered \in Seq(Items \union {Gone}) /\ cOut \in Items \union {Gone}
  BY DEF Inv, TypeOK
<1>6. TypeOK'
  <2>1. pSeen \in 1 .. Len(head_')
    BY <1>4, CountFacts
  <2>2. delivered' \in Seq(Items \union {Gone})
    BY <1>1, <1>5, AppendProperties
  <2>3. QED
    BY <1>1, <1>3, <2>1, <2>2 DEF Inv, TypeOK
<1>7. OrdersCount'
  <2>1. ASSUME NEW i \in 1 .. Pops + 2 PROVE head_'[i] = Wrap(i - 1)
    <3>1. CASE i = Pops + 2
      BY <1>3, <3>1, CountFacts
    <3>2. CASE i \in 1 .. Pops + 1
      BY <1>3, <3>2, CountFacts DEF Inv, OrdersCount
    <3>3. QED
      BY <3>1, <3>2, CountFacts
  <2>2. QED
    BY <1>1, <1>4, <2>1 DEF Inv, OrdersCount
<1>8. ViewsSynchronised' /\ ViewsBound'
  <2>1. ViewsSynchronised'
    BY <1>1, <1>4 DEF Inv, ViewsSynchronised
  <2>2. Pops \in Nat /\ cSeen \in Nat /\ Pops < cSeen - 1
    BY <1>1, CountFacts
  <2>3. ViewsBound'
    BY <1>1, <1>4, <2>2 DEF Inv, ViewsBound
  <2>4. QED
    BY <2>1, <2>3
<1>9. SlotsTouched'
  BY <1>1, <1>4 DEF Inv, SlotsTouched
<1>10. Held(Pops + 1) = cOut /\ \A n \in Pops + 2 .. Pushes : Held(n)' = Held(n)
  <2>1. \A n \in Pops + 2 .. Pushes : n # Pops + 1
    BY CountFacts
  <2>2. QED
    BY <1>1, <2>1 DEF Held
<1>11. SlotsHoldQueue'
  <2>1. ASSUME NEW n \in Pops + 2 .. Pushes
        PROVE  slots_[Wrap(n - 1)].w = n /\ Held(n)' = pushed[n]
    <3>1. n \in Pops + 1 .. Pushes /\ n # Pops + 1
      BY CountFacts
    <3>2. QED
      BY <1>10, <3>1 DEF Inv, SlotsHoldQueue
  <2>2. Pops' + 1 = Pops + 2
    BY <1>4, CountFacts
  <2>3. QED
    BY <1>1, <1>4, <2>1, <2>2 DEF Inv, SlotsHoldQueue
<1>12. FifoDelivery'
  <2>1. ASSUME ~Constructing
        PROVE  Len(delivered') = Pops + 1 /\ IsPrefix(delivered', pushed)
    <3>1. /\ Len(delivered) = Pops /\ IsPrefix(delivered, pushed)
          /\ pushed \in Seq(Items) /\ Len(pushed) = Pushes
      BY <2>1 DEF Inv, TypeOK, FifoDelivery, OrdersCount
    <3>2. \A i \in 1 .. Pops : delivered[i] = pushed[i]
      BY <1>5, <3>1, PrefixItems
    <3>3. cOut = pushed[Pops + 1]
      <4>1. Pops + 1 \in Pops + 1 .. Pushes
        BY <1>4, CountFacts
      <4>2. QED
        BY <1>10, <2>1, <4>1 DEF Inv, SlotsHoldQueue, Constructing
    <3>4. delivered' = Append(delivered, cOut)
      BY <1>1, <2>1
    <3>5. /\ delivered' \in Seq(Items \union {Gone}) /\ Len(delivered') = Pops + 1
          /\ \A i \in 1 .. Pops : delivered'[i] = delivered[i]
          /\ delivered'[Pops + 1] = cOut
      BY <1>5, <3>1, <3>4, AppendProperties
    <3>6. \A i \in 1 .. Pops + 1 : i \in 1 .. Pops \/ i = Pops + 1
      BY CountFacts
    <3>7. Len(delivered') <= Len(pushed) /\ \A i \in 1 .. Len(delivered') : delivered'[i] = pushed[i]
      BY <1>4, <3>1, <3>2, <3>3, <3>5, <3>6, CountFacts
    <3>8. QED
      BY <3>1, <3>5, <3>7, PrefixItems
  <2>2. QED
    BY <1>1, <1>4, <2>1 DEF FifoDelivery
<1>13. QED
  BY <1>4, <1>6, <1>7, <1>8, <1>9, <1>10, <1>11, <1>12 DEF Inv

\* No step of try_push, try_pop or empty(), throwing or not, breaks Inv.
LEMMA NextInv == Inv /\ [Next]_vars => Inv'
<1> SUFFICES ASSUME Inv, [Next]_vars PROVE Inv'
  OBVIOUS
<1>1. CASE PushFull \/ (\E v \in Items : PushAdmit(v)) \/ ProducerEmpty
  BY <1>1, ProducerLooks
<1>2. CASE PopEmpty \/ PopAdmit \/ ConsumerEmpty
  BY <1>2, ConsumerLooks
<1>3. CASE PushWrite \/ PushThrow
  BY <1>3, AssignInv
<1>4. CASE PushPublish
  BY <1>4, PublishInv
<1>5. CASE PopRead \/ PopThrow
  BY <1>5, VacateInv
<1>6. CASE PopCommit \/ PopLose
  BY <1>6, StoreHeadInv
<1>7. CASE UNCHANGED vars
  BY <1>7 DEF vars, producer, consumer, Inv, TypeOK, OrdersCount, ViewsSynchronised,
    ViewsBound, SlotsTouched, SlotsHoldQueue, Held, FifoDelivery, Pops, Pushes
<1>8. QED
  BY <1>1, <1>2, <1>3, <1>4, <1>5, <1>6, <1>7 DEF Next

\* The whole invariant holds in every state that try_push, try_pop and empty()
\* can reach, whatever loads return and whichever operations of T throw.
THEOREM SpecInv == Spec => []Inv
BY InitInv, NextInv, PTL DEF Spec

\* Every index stays in the ring and every program counter in its function.
THEOREM TypeCorrect == Spec => []TypeOK
<1>1. Inv => TypeOK
  BY DEF Inv
<1>2. QED
  BY <1>1, SpecInv, PTL

\* No slot of slots_ is ever accessed by both threads without a happens-before
\* edge between the accesses: the four memory orders of spsc_queue.hpp suffice.
THEOREM NoRaces == Spec => []NoDataRace
BY SpecInv, RaceFree, PTL

\* try_push says "full" exactly if the ring is full for the value of head_ that it
\* loaded, however stale: a full lap is never taken for none.
THEOREM ProducerExactAlways == Spec => []ProducerVerdictExact
BY SpecInv, ProducerExact, PTL

\* try_pop says "empty" exactly if nothing is left of what it has seen of tail_.
THEOREM ConsumerExactAlways == Spec => []ConsumerVerdictExact
BY SpecInv, ConsumerExact, PTL

\* What try_pop returns is what try_push took, in order, each item once.
THEOREM InOrder == Spec => []FifoDelivery
<1>1. Inv => FifoDelivery
  BY DEF Inv
<1>2. QED
  BY <1>1, SpecInv, PTL

--------------------------------------------------------------------------------
(* Refinement *)

queue == [i \in 1 .. Pushes - Pops |-> Held(Pops + i)]
Contents == Items \union {Gone}

\* A list of n things is a sequence.
LEMMA ListSeq ==
  ASSUME NEW S, NEW n \in Nat, NEW q, q = [i \in 1 .. n |-> q[i]], \A i \in 1 .. n : q[i] \in S
  PROVE  q \in Seq(S) /\ Len(q) = n
OBVIOUS

\* The ring holds as many items as have been pushed and not yet popped.
LEMMA QueueFacts ==
  ASSUME Inv
  PROVE  /\ Pushes - Pops \in Nat
         /\ queue \in Seq(Contents) /\ Len(queue) = Pushes - Pops
         /\ \A i \in 1 .. Pushes - Pops : queue[i] = Held(Pops + i)
<1>1. Pushes - Pops \in Nat
  BY CountFacts
<1>2. \A i \in 1 .. Pushes - Pops : Held(Pops + i) \in Contents
  <2> SUFFICES ASSUME NEW i \in 1 .. Pushes - Pops PROVE Held(Pops + i) \in Contents
    OBVIOUS
  <2>1. (Pops + i) - 1 \in Nat
    BY <1>1, CountFacts
  <2>2. Wrap((Pops + i) - 1) \in Index
    BY <2>1, WrapStep
  <2>3. slots_[Wrap((Pops + i) - 1)].item \in Contents /\ cOut \in Contents
    BY <2>2 DEF Inv, TypeOK, Contents
  <2>4. QED
    BY <2>3 DEF Held
<1>3. queue = [i \in 1 .. Pushes - Pops |-> queue[i]]
      /\ \A i \in 1 .. Pushes - Pops : queue[i] = Held(Pops + i)
  BY DEF queue
<1>4. QED
  BY <1>1, <1>2, <1>3, ListSeq

\* The same of the next state.
LEMMA QueueNext ==
  ASSUME Inv, Pushes' - Pops' \in Nat,
         NEW q, \A i \in 1 .. Pushes' - Pops' : q[i] \in Contents /\ Held(Pops + i)' = q[i]
  PROVE  /\ queue' \in Seq(Contents) /\ Len(queue') = Pushes' - Pops'
         /\ \A i \in 1 .. Pushes' - Pops' : queue'[i] = q[i]
<1>1. queue' = [i \in 1 .. Pushes' - Pops' |-> Held(Pops + i)']
  BY DEF queue
<1>2. /\ queue' = [i \in 1 .. Pushes' - Pops' |-> queue'[i]]
      /\ \A i \in 1 .. Pushes' - Pops' : queue'[i] = q[i]
  BY <1>1
<1>3. QED
  BY <1>2, ListSeq

\* A step that neither moves an index nor touches a queued item leaves the queue.
LEMMA QueueStays ==
  ASSUME Inv, Pops' = Pops, Pushes' = Pushes,
         \A n \in Pops + 1 .. Pushes : Held(n)' = Held(n)
  PROVE  queue' = queue
<1>1. \A i \in 1 .. Pushes' - Pops' : queue[i] \in Contents /\ Held(Pops + i)' = queue[i]
  <2> SUFFICES ASSUME NEW i \in 1 .. Pushes - Pops
               PROVE  queue[i] \in Contents /\ Held(Pops + i)' = queue[i]
    OBVIOUS
  <2>1. queue[i] = Held(Pops + i) /\ queue[i] \in Contents
    BY QueueFacts
  <2>2. ASSUME NEW n \in Pops + 1 .. Pushes, n = Pops + i PROVE Held(Pops + i)' = Held(n)
    BY <2>2 DEF Held
  <2>3. Pops + i \in Pops + 1 .. Pushes
    BY CountFacts
  <2>4. QED
    BY <2>1, <2>2, <2>3
<1>2. QED
  BY <1>1, QueueFacts, QueueNext, SeqEqual

\* The release store of tail_ is the moment an item enters the abstract queue: the
\* slot after the queued ones holds it.
LEMMA PublishSends ==
  ASSUME Inv, PushPublish
  PROVE  Fifo!Send(pItem) /\ pItem \in Items
<1>1. /\ Pops' = Pops /\ Pushes' = Pushes + 1 /\ pItem \in Items
      /\ UNCHANGED delivered /\ pPc = "publish"
      /\ Pops \in Nat /\ Pushes \in Nat /\ Pushes - Pops \in Nat
  BY PublishInv, QueueFacts, CountFacts DEF PushPublish
<1>2. Len(queue) < Capacity - 1
  <2>1. /\ pSeen \in Nat /\ Capacity \in Nat
        /\ pSeen <= Pops + 1 /\ Pushes < pSeen + Capacity - 2
    BY <1>1, CountFacts, ConstantFacts
  <2>2. Pushes - Pops < Capacity - 1
    BY <1>1, <2>1
  <2>3. QED
    BY <2>2, QueueFacts
<1>3. queue' = Append(queue, pItem)
  <2> DEFINE q == Append(queue, pItem)
  <2>1. /\ q \in Seq(Contents) /\ Len(q) = Pushes - Pops + 1
        /\ q[Pushes - Pops + 1] = pItem
        /\ \A i \in 1 .. Pushes - Pops : q[i] = queue[i]
    BY <1>1, QueueFacts, AppendProperties DEF Contents
  <2> HIDE DEF q
  <2>2. ASSUME NEW i \in 1 .. Pushes - Pops + 1
        PROVE  q[i] \in Contents /\ Held(Pops + i)' = q[i]
    <3>1. CASE i = Pushes - Pops + 1
      <4>1. ASSUME NEW n, n = Pushes + 1 PROVE Held(Pops + i)' = Held(n)'
        <5>1. Pops' + i = n
          BY <1>1, <3>1, <4>1
        <5>2. QED
          BY <5>1 DEF Held
      <4>2. QED
        BY <1>1, <2>1, <3>1, <4>1, PublishInv DEF Contents
    <3>2. CASE i # Pushes - Pops + 1
      <4>1. i \in 1 .. Pushes - Pops /\ Pops + i \in Pops + 1 .. Pushes
        BY <1>1, <3>2
      <4>2. ASSUME NEW n \in Pops + 1 .. Pushes, n = Pops + i
            PROVE  Held(Pops + i)' = Held(n)
        <5>1. Held(Pops + i)' = Held(n)'
          BY <1>1, <4>2 DEF Held
        <5>2. QED
          BY <5>1, PublishInv
      <4>3. queue[i] \in Contents /\ queue[i] = Held(Pops + i)
        BY <4>1, QueueFacts
      <4>4. QED
        BY <2>1, <4>1, <4>2, <4>3
    <3>3. QED
      BY <3>1, <3>2
  <2>3. Pushes' - Pops' = Pushes - Pops + 1 /\ Pushes' - Pops' \in Nat
    BY <1>1
  <2>4. QED
    BY <2>1, <2>2, <2>3, QueueNext, SeqEqual DEF q
<1>4. QED
  BY <1>1, <1>2, <1>3 DEF Fifo!Send, queue

\* The release store of head_ is the moment the item in out leaves it.
LEMMA StoreHeadReceives ==
  ASSUME Inv, PopCommit \/ PopLose
  PROVE  Fifo!Receive \/ Fifo!Lose
<1>1. /\ Pops' = Pops + 1 /\ Pushes' = Pushes /\ Held(Pops + 1) = cOut
      /\ Pops \in Nat /\ Pushes \in Nat /\ Pushes - Pops \in Nat /\ Pops < Pushes
      /\ \/ delivered' = Append(delivered, cOut)
         \/ Constructing /\ delivered' = delivered
  BY StoreHeadInv, QueueFacts, CountFacts DEF PopCommit, PopLose
<1>2. queue # <<>> /\ cOut = Head(queue)
  <2>1. Len(queue) # 0 /\ 1 \in 1 .. Pushes - Pops
    BY <1>1, QueueFacts
  <2>2. queue # <<>> /\ queue[1] = Held(Pops + 1)
    BY <2>1, QueueFacts
  <2>3. QED
    BY <1>1, <2>2, QueueFacts, HeadTailProperties
<1>3. queue' = Tail(queue)
  <2> DEFINE q == Tail(queue)
  <2>1. /\ q \in Seq(Contents) /\ Len(q) = Pushes - Pops - 1
        /\ \A i \in 1 .. Pushes - Pops - 1 : q[i] = queue[i + 1]
    BY <1>1, <1>2, QueueFacts, HeadTailProperties
  <2> HIDE DEF q
  <2>2. ASSUME NEW i \in 1 .. Pushes - Pops - 1
        PROVE  q[i] \in Contents /\ Held(Pops + i)' = q[i]
    <3>1. /\ i + 1 \in 1 .. Pushes - Pops /\ Pops + (i + 1) = Pops' + i
          /\ Pops' + i \in Pops + 2 .. Pushes
      BY <1>1
    <3>2. ASSUME NEW n \in Pops + 2 .. Pushes, n = Pops' + i
          PROVE  Held(Pops + i)' = Held(n)
      <4>1. Held(Pops + i)' = Held(n)'
        BY <3>2 DEF Held
      <4>2. QED
        BY <4>1, StoreHeadInv
    <3>3. queue[i + 1] = Held(Pops' + i) /\ queue[i + 1] \in Contents
      BY <3>1, QueueFacts
    <3>4. QED
      BY <2>1, <3>1, <3>2, <3>3
  <2>3. Pushes' - Pops' = Pushes - Pops - 1 /\ Pushes' - Pops' \in Nat
    BY <1>1
  <2>4. QED
    BY <2>1, <2>2, <2>3, QueueNext, SeqEqual DEF q
<1>4. QED
  BY <1>1, <1>2, <1>3 DEF Fifo!Receive, Fifo!Lose, queue

\* Moving the item out of its slot changes nothing yet, since it is in out; a move
\* that throws leaves it at the head of the queue, as it was or spoilt.
LEMMA VacateSpoils ==
  ASSUME Inv, PopRead \/ PopThrow
  PROVE  UNCHANGED Fifo!channel \/ Fifo!Spoil
<1>1. /\ Pops' = Pops /\ Pushes' = Pushes /\ UNCHANGED delivered
      /\ Pops \in Nat /\ Pushes \in Nat /\ Pushes - Pops \in Nat /\ Pops < Pushes
  BY VacateInv, QueueFacts, CountFacts DEF PopRead, PopThrow
<1>2. CASE Held(Pops + 1)' = Held(Pops + 1)
  <2>1. ASSUME NEW n \in Pops + 1 .. Pushes PROVE Held(n)' = Held(n)
    <3>1. n = Pops + 1 \/ n \in Pops + 2 .. Pushes
      BY <1>1
    <3>2. n = Pops + 1 => Held(n)' = Held(Pops + 1)'
      BY <1>1 DEF Held
    <3>3. QED
      BY <1>2, <3>1, <3>2, VacateInv
  <2>2. QED
    BY <1>1, <2>1, QueueStays DEF Fifo!channel, queue
<1>3. CASE "move" \in Throws /\ Held(Pops + 1)' = Gone
  <2> DEFINE q == [queue EXCEPT ![1] = Gone]
  <2>1. /\ q \in Seq(Contents) /\ Len(q) = Pushes - Pops /\ q[1] = Gone
        /\ \A i \in 1 .. Pushes - Pops : i # 1 => q[i] = queue[i]
    <3>1. 1 \in 1 .. Pushes - Pops /\ Gone \in Contents
      BY <1>1 DEF Contents
    <3>2. QED
      BY <3>1, QueueFacts, ExceptSeq
  <2> HIDE DEF q
  <2>2. ASSUME NEW i \in 1 .. Pushes - Pops
        PROVE  q[i] \in Contents /\ Held(Pops + i)' = q[i]
    <3>1. CASE i = 1
      BY <1>1, <1>3, <2>1, <3>1 DEF Contents
    <3>2. CASE i # 1
      <4>1. Pops + i \in Pops + 2 .. Pushes
        BY <1>1, <3>2
      <4>2. ASSUME NEW n \in Pops + 2 .. Pushes, n = Pops + i
            PROVE  Held(Pops + i)' = Held(n)
        <5>1. Held(Pops + i)' = Held(n)'
          BY <1>1, <4>2 DEF Held
        <5>2. QED
          BY <5>1, VacateInv
      <4>3. queue[i] \in Contents /\ queue[i] = Held(Pops + i)
        BY QueueFacts
      <4>4. QED
        BY <2>1, <3>2, <4>1, <4>2, <4>3
    <3>3. QED
      BY <3>1, <3>2
  <2>3. queue' = q
    BY <1>1, <2>1, <2>2, QueueNext, SeqEqual
  <2>4. queue # <<>>
    <3>1. Len(queue) # 0
      BY <1>1, QueueFacts
    <3>2. QED
      BY <3>1
  <2>5. QED
    BY <1>1, <1>3, <2>3, <2>4 DEF Fifo!Spoil, queue, q
<1>4. QED
  BY <1>2, <1>3, VacateInv

\* Every other step of either thread leaves the abstract queue alone.
LEMMA OthersStutter ==
  ASSUME Inv, [Next]_vars, ~PushPublish, ~PopCommit, ~PopLose, ~PopRead, ~PopThrow
  PROVE  UNCHANGED Fifo!channel
<1>1. UNCHANGED delivered
  BY DEF Next, vars, PushFull, PushAdmit, PushWrite, PushThrow, PopEmpty, PopAdmit,
    ProducerEmpty, ConsumerEmpty
<1>2. /\ Pops' = Pops /\ Pushes' = Pushes
      /\ \A n \in Pops + 1 .. Pushes : Held(n)' = Held(n)
  <2>1. CASE PushFull \/ (\E v \in Items : PushAdmit(v)) \/ ProducerEmpty
    BY <2>1, ProducerLooks
  <2>2. CASE PopEmpty \/ PopAdmit \/ ConsumerEmpty
    BY <2>2, ConsumerLooks
  <2>3. CASE PushWrite \/ PushThrow
    BY <2>3, AssignInv
  <2>4. CASE UNCHANGED vars
    BY <2>4 DEF vars, consumer, Held, Pops, Pushes
  <2>5. QED
    BY <2>1, <2>2, <2>3, <2>4 DEF Next
<1>3. QED
  BY <1>1, <1>2, QueueStays DEF Fifo!channel, queue

\* SpscQueue implements BoundedFifo: what its slots hold between the two indices is
\* a FIFO of Capacity - 1 items, which loses one only where constructing a T may
\* throw, and spoils the oldest one only where a move may.
THEOREM Refinement == Spec => ImplementsFifo
<1>1. ASSUME Init PROVE Fifo!Init
  <2>1. Inv /\ Pushes - Pops = 0 /\ delivered = <<>>
    BY <1>1, InitInv DEF Init, Pushes, Pops
  <2>2. queue = <<>>
    BY <2>1, QueueFacts
  <2>3. QED
    BY <2>1, <2>2 DEF Fifo!Init, queue
<1>2. Inv /\ [Next]_vars => [Fifo!Next]_Fifo!channel
  <2> SUFFICES ASSUME Inv, [Next]_vars PROVE [Fifo!Next]_Fifo!channel
    OBVIOUS
  <2>1. CASE PushPublish
    BY <2>1, PublishSends DEF Fifo!Next
  <2>2. CASE PopCommit \/ PopLose
    BY <2>2, StoreHeadReceives DEF Fifo!Next
  <2>3. CASE PopRead \/ PopThrow
    BY <2>3, VacateSpoils DEF Fifo!Next
  <2>4. CASE ~PushPublish /\ ~PopCommit /\ ~PopLose /\ ~PopRead /\ ~PopThrow
    BY <2>4, OthersStutter
  <2>5. QED
    BY <2>1, <2>2, <2>3, <2>4
<1>3. QED
  BY <1>1, <1>2, SpecInv, PTL DEF Spec, ImplementsFifo, Fifo!Spec

--------------------------------------------------------------------------------
(* The two loops of SpscHandoff *)

\* The loops are clients of the queue: they make no step that it does not allow.
LEMMA LoopsAreClients ==
  ASSUME TicksAreItems, Inv, [Feed \/ Strat]_vars
  PROVE  [Next]_vars
<1>1. ASSUME PushAdmit(Len(pushed) + 1) PROVE Next
  <2>1. Len(pushed) \in Nat /\ Len(pushed) < MaxPush /\ MaxPush \in Nat
    BY <1>1, BoundAssumption DEF PushAdmit, Inv, TypeOK
  <2>2. Len(pushed) + 1 \in Items
    BY <2>1 DEF TicksAreItems
  <2>3. QED
    BY <1>1, <2>2 DEF Next
<1>2. QED
  BY <1>1 DEF Feed, Strat, Next

\* A published tick is the next one.
LEMMA PublishCounts ==
  ASSUME Inv, LoopsInStep, PushPublish
  PROVE  LoopsInStep'
<1>1. /\ pushed' = Append(pushed, pItem) /\ pPc = "publish" /\ pPc' = "idle"
      /\ head_' = head_ /\ delivered' = delivered
  BY DEF PushPublish
<1>2. /\ pushed \in Seq(Items) /\ pItem \in Items /\ Len(pushed) \in Nat /\ MaxPush \in Nat
      /\ Len(pushed) < MaxPush /\ pItem = Len(pushed) + 1
  BY <1>1, BoundAssumption DEF Inv, TypeOK, SlotsHoldQueue, LoopsInStep
<1>3. /\ Len(pushed') = Len(pushed) + 1 /\ pushed'[Len(pushed) + 1] = pItem
      /\ \A i \in 1 .. Len(pushed) : pushed'[i] = pushed[i]
  BY <1>1, <1>2, AppendProperties
<1>4. Len(pushed') <= MaxPush
  BY <1>2, <1>3
<1>5. \A i \in 1 .. Len(pushed') : pushed'[i] = i
  <2>1. ASSUME NEW i \in 1 .. Len(pushed) + 1 PROVE pushed'[i] = i
    <3>1. i = Len(pushed) + 1 \/ i \in 1 .. Len(pushed)
      BY <1>2
    <3>2. QED
      BY <1>2, <1>3, <3>1 DEF LoopsInStep
  <2>2. QED
    BY <1>3, <2>1
<1>6. Pops' = Pops
  BY <1>1 DEF Pops
<1>7. QED
  BY <1>1, <1>4, <1>5, <1>6 DEF LoopsInStep

\* The tick that a pop returns is the next one.
LEMMA CommitCounts ==
  ASSUME TicksAreItems, Inv, LoopsInStep, PopCommit
  PROVE  LoopsInStep'
<1>1. /\ delivered' = Append(delivered, cOut) /\ cPc = "commit" /\ Len(head_') = Pops + 2
      /\ pushed' = pushed /\ pPc' = pPc /\ pItem' = pItem
  <2>1. head_ \in Seq(Index) /\ Wrap(Last(head_) + 1) \in Index
    <3>1. Pops + 1 \in Nat /\ Last(head_) = Wrap(Pops) /\ Wrap(Wrap(Pops) + 1) = Wrap(Pops + 1)
      BY IndexFacts, CountFacts, WrapStep
    <3>2. Wrap(Pops + 1) \in Index
      BY <3>1, WrapStep
    <3>3. QED
      BY <3>1, <3>2 DEF Inv, TypeOK
  <2>2. head_' = Append(head_, Wrap(Last(head_) + 1))
    BY DEF PopCommit, StoreHead
  <2>3. Len(head_') = Pops + 2
    BY <2>1, <2>2, CountFacts, AppendProperties
  <2>4. QED
    BY <2>3 DEF PopCommit, StoreHead, producer
<1>2. Pops \in Nat /\ Pops < Pushes /\ Pushes \in Nat
  <2>1. /\ Pops \in Nat /\ Pushes \in Nat /\ cSeen \in Nat
        /\ Pops < cSeen - 1 /\ cSeen <= Pushes + 1
    BY <1>1, CountFacts
  <2>2. QED
    BY <2>1
<1>3. cOut = Pops + 1
  <2>1. Pops + 1 \in 1 .. Len(pushed) /\ Pops + 1 \in Pops + 1 .. Pushes
    BY <1>2 DEF Inv, OrdersCount
  <2>2. cOut = pushed[Pops + 1]
    BY <1>1, <2>1 DEF Inv, SlotsHoldQueue, Held, TicksAreItems
  <2>3. QED
    BY <2>1, <2>2 DEF LoopsInStep
<1>4. /\ delivered \in Seq(Items \union {Gone}) /\ cOut \in Items \union {Gone}
      /\ Len(delivered) = Pops
  BY DEF Inv, TypeOK, LoopsInStep
<1>5. /\ Len(delivered') = Pops + 1 /\ delivered'[Pops + 1] = Pops + 1
      /\ \A i \in 1 .. Pops : delivered'[i] = delivered[i]
  BY <1>1, <1>3, <1>4, AppendProperties
<1>6. \A i \in 1 .. Len(delivered') : delivered'[i] = i
  <2>1. ASSUME NEW i \in 1 .. Pops + 1 PROVE delivered'[i] = i
    <3>1. i = Pops + 1 \/ i \in 1 .. Pops
      BY <1>2
    <3>2. QED
      BY <1>4, <1>5, <3>1 DEF LoopsInStep
  <2>2. QED
    BY <1>5, <2>1
<1>7. Pops' = Pops + 1
  <2>1. Pops' = (Pops + 2) - 1
    BY <1>1 DEF Pops
  <2>2. QED
    BY <1>2, <2>1
<1>8. QED
  BY <1>1, <1>5, <1>6, <1>7 DEF LoopsInStep

\* No other step of the loops moves their counts.
LEMMA LoopsCount ==
  ASSUME TicksAreItems, Inv, LoopsInStep, [Feed \/ Strat]_vars
  PROVE  LoopsInStep'
<1>1. CASE PushAdmit(Len(pushed) + 1)
  <2>1. /\ pushed' = pushed /\ head_' = head_ /\ delivered' = delivered
        /\ pItem' = Len(pushed) + 1 /\ Len(pushed) < MaxPush
    BY <1>1 DEF PushAdmit
  <2>2. QED
    BY <2>1 DEF LoopsInStep, Pops
<1>2. CASE PushPublish
  BY <1>2, PublishCounts
<1>3. CASE PopCommit
  BY <1>3, CommitCounts
<1>4. CASE PushFull \/ PushWrite \/ PopEmpty \/ PopAdmit \/ PopRead \/ UNCHANGED vars
  <2>1. /\ pushed' = pushed /\ head_' = head_ /\ delivered' = delivered /\ pItem' = pItem
        /\ pPc' # "idle" => pPc # "idle"
    BY <1>4 DEF PushFull, PushWrite, PopEmpty, PopAdmit, PopRead, vars, producer
  <2>2. QED
    BY <2>1 DEF LoopsInStep, Pops
<1>5. QED
  BY <1>1, <1>2, <1>3, <1>4 DEF Feed, Strat

\* A ring that is full at the newest value of head_ is not empty at the newest value
\* of tail_, since it has room for one item at least; and a strategy that has been
\* given fewer ticks than there are finds more, or the feed has more to push.
LEMMA LoopsProceed ==
  ASSUME Inv, LoopsInStep
  PROVE  SomebodyProceeds
<1> SUFFICES ASSUME pPc = "idle", cPc = "idle", delivered # Ticks
             PROVE  \/ Len(pushed) < MaxPush /\ \E k \in HeadMessages : ~Full(k)
                    \/ Len(delivered) < MaxPush /\ \E k \in TailMessages : ~Empty(k)
  BY DEF SomebodyProceeds
<1>1. /\ Pops \in Nat /\ Pushes \in Nat /\ Capacity \in Nat /\ Capacity >= 2 /\ MaxPush \in Nat
      /\ Pops <= Pushes /\ Len(head_) = Pops + 1 /\ Len(tail_) = Pushes + 1
      /\ Len(pushed) = Pushes /\ Pushes <= MaxPush /\ Len(delivered) = Pops
  BY CountFacts, ConstantFacts, BoundAssumption DEF Inv, OrdersCount, LoopsInStep
<1>2. Pops # MaxPush
  <2>1. ASSUME Pops = MaxPush PROVE delivered = Ticks
    <3>1. delivered \in Seq(Items \union {Gone}) /\ Len(delivered) = MaxPush
      BY <1>1, <2>1 DEF Inv, TypeOK
    <3>2. delivered = [i \in 1 .. Len(delivered) |-> delivered[i]]
      BY <3>1
    <3>3. \A i \in 1 .. MaxPush : delivered[i] = i
      BY <3>1 DEF LoopsInStep
    <3>4. QED
      BY <3>1, <3>2, <3>3 DEF Ticks
  <2>2. QED
    BY <2>1
<1>3. Len(head_) \in HeadMessages /\ Len(tail_) \in TailMessages
  <2>1. /\ pSeen \in Nat /\ cSeen \in Nat /\ pSeen <= Pops + 1 /\ cSeen <= Pushes + 1
    BY CountFacts
  <2>2. QED
    BY <1>1, <2>1 DEF HeadMessages, TailMessages
<1>4. CASE Pops < Pushes
  <2>1. Pops # Len(tail_) - 1
    BY <1>1, <1>4
  <2>2. ~Empty(Len(tail_))
    BY <1>3, <2>1, ConsumerExact DEF ConsumerVerdictExact
  <2>3. Len(delivered) < MaxPush
    BY <1>1, <1>2
  <2>4. QED
    BY <1>3, <2>2, <2>3
<1>5. CASE Pops = Pushes
  <2>1. Pushes - (Len(head_) - 1) # Capacity - 1
    BY <1>1, <1>5
  <2>2. ~Full(Len(head_))
    BY <1>3, <2>1, ProducerExact DEF ProducerVerdictExact
  <2>3. Len(pushed) < MaxPush
    BY <1>1, <1>2, <1>5
  <2>4. QED
    BY <1>3, <2>2, <2>3
<1>6. QED
  BY <1>1, <1>4, <1>5

\* Both loops are where their counts say, in every state that they reach.
LEMMA LoopsInv ==
  ASSUME TicksAreItems
  PROVE  Handoff => [](Inv /\ LoopsInStep)
<1>1. Init => Inv /\ LoopsInStep
  <2> SUFFICES ASSUME Init PROVE Inv /\ LoopsInStep
    OBVIOUS
  <2>1. Inv
    BY InitInv
  <2>2. /\ pushed = <<>> /\ delivered = <<>> /\ Len(pushed) = 0 /\ Len(delivered) = 0
        /\ Pops = 0 /\ pPc = "idle"
    BY DEF Init, Pops
  <2>3. LoopsInStep
    BY <2>2, BoundAssumption DEF LoopsInStep
  <2>4. QED
    BY <2>1, <2>3
<1>2. Inv /\ LoopsInStep /\ [Feed \/ Strat]_vars => (Inv /\ LoopsInStep)'
  BY LoopsAreClients, LoopsCount, NextInv
<1>3. QED
  BY <1>1, <1>2, PTL DEF Handoff

\* For any number of ticks and any ring: as long as not every tick has arrived, one of
\* the two spinning threads can go on. Its last step is liveness, which TLC checks.
THEOREM LoopsNeverBothStuck ==
  ASSUME TicksAreItems
  PROVE  Handoff => []SomebodyProceeds
<1>1. Inv /\ LoopsInStep => SomebodyProceeds
  BY LoopsProceed
<1>2. QED
  BY <1>1, LoopsInv, PTL

\* Whatever is proved of the queue holds of the example and the stress test: their
\* threads use it as SpscQueue allows.
THEOREM HandoffIsQueue ==
  ASSUME TicksAreItems
  PROVE  Handoff => Spec
<1>1. Inv /\ LoopsInStep /\ [Feed \/ Strat]_vars => [Next]_vars
  BY LoopsAreClients
<1>2. QED
  BY <1>1, LoopsInv, PTL DEF Handoff, Spec

================================================================================
