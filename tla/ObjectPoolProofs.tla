--------------------------- MODULE ObjectPoolProofs ---------------------------
(* Proofs about ObjectPool for a pool of any size.                              *)
EXTENDS ObjectPool, FiniteSetTheorems, TLAPS

\* Positions 0 .. N - 1 are all that acquire and release ever touch.
LEMMA TypeStep == TypeOK /\ [Next]_vars => TypeOK'
<1> SUFFICES ASSUME TypeOK, [Next]_vars PROVE TypeOK'
  OBVIOUS
<1>1. /\ N \in Nat /\ top_ \in 0..N /\ free_ \in [Slots -> Slots] /\ held \subseteq Slots
      /\ misused \in BOOLEAN
  BY PoolAssumption DEF TypeOK
<1> USE DEF GiveUp
<1>2. ASSUME Acquire PROVE TypeOK'
  <2>1. top_ - 1 \in Slots /\ top_ - 1 \in 0..N
    BY <1>1, <1>2 DEF Acquire, Slots
  <2>2. held' \subseteq Slots
    BY <1>1, <1>2, <2>1 DEF Acquire
  <2>3. QED
    BY <1>1, <1>2, <2>1, <2>2 DEF Acquire, TypeOK
<1>3. ASSUME NEW p \in Slots, Release(p) PROVE TypeOK'
  <2>1. top_ + 1 \in 0..N
    BY <1>1, <1>3 DEF Release
  <2>2. QED
    BY <1>1, <1>3, <2>1 DEF Release, TypeOK
<1>4. ASSUME NEW p \in Slots, ReleaseDropped(p) PROVE TypeOK'
  BY <1>1, <1>4 DEF ReleaseDropped, TypeOK
<1>5. ASSUME UNCHANGED vars PROVE TypeOK'
  BY <1>5 DEF vars, TypeOK
<1>6. QED
  BY <1>2, <1>3, <1>4, <1>5 DEF Next, AcquireNone

\* A new pool is well typed.
LEMMA TypeInit == Init => TypeOK
<1> SUFFICES ASSUME Init PROVE TypeOK
  OBVIOUS
<1>1. free_ \in [Slots -> Slots] /\ held \subseteq Slots
  BY DEF Init
<1>2. top_ \in 0..N
  BY PoolAssumption DEF Init
<1>3. misused \in BOOLEAN
  BY DEF Init
<1>4. QED
  BY <1>1, <1>2, <1>3 DEF TypeOK

\* The stack of a new pool holds every slot once.
LEMMA PartitionInit == Init => SlotsPartitioned
<1> SUFFICES ASSUME Init PROVE SlotsPartitioned
  OBVIOUS
<1>1. Stack = Slots /\ held = {}
  BY DEF Init, Stack, Slots
<1>2. \A i \in Slots : free_[i] = i
  BY DEF Init
<1>3. QED
  BY <1>1, <1>2 DEF SlotsPartitioned

\* The stack never runs over or under, nor does it come to hold a pointer that is
\* not to one of the pool's slots, not even if slots are released twice.
THEOREM TypeCorrect == Spec => []TypeOK
  BY TypeInit, TypeStep, PTL DEF Spec

\* The types and the partition of the slots, preserved together.
Inv == TypeOK /\ SlotsPartitioned

\* While some slot is held the stack is not full: were it, N pointers would be to
\* the other N - 1 slots, two of them to the same one.
LEMMA RoomForHeld ==
  ASSUME Inv, ~misused, NEW p \in held
  PROVE  top_ < N
<1> DEFINE Rest == Slots \ {p}
<1>1. N \in Nat /\ top_ \in 0..N /\ p \in Slots
  BY PoolAssumption DEF Inv, TypeOK
<1>2. SUFFICES ASSUME top_ = N PROVE FALSE
  BY <1>1
<1>3. Stack = Slots
  BY <1>2 DEF Stack, Slots
<1>4. free_ \in [Slots -> Rest]
  <2>1. free_ \in [Slots -> Slots]
    BY DEF Inv, TypeOK
  <2>2. \A i \in Slots : free_[i] \in Slots \ held
    BY <1>3 DEF Inv, SlotsPartitioned
  <2>3. QED
    BY <2>1, <2>2
<1>5. IsFiniteSet(Slots) /\ Cardinality(Slots) = N
  <2>1. 0 \in Int /\ N - 1 \in Int /\ N >= 1
    BY <1>1 DEF Slots
  <2>2. QED
    BY <1>1, <2>1, FS_Interval DEF Slots
<1>6. IsFiniteSet(Rest) /\ Cardinality(Rest) < Cardinality(Slots)
  <2>1. IsFiniteSet(Rest) /\ Cardinality(Rest) = Cardinality(Slots) - 1
    BY <1>1, <1>5, FS_RemoveElement
  <2>2. QED
    BY <1>1, <1>5, <2>1
<1>7. \E i, j \in Slots : i # j /\ free_[i] = free_[j]
  BY <1>4, <1>5, <1>6, FS_PigeonHole
<1>8. QED
  BY <1>3, <1>7 DEF Inv, SlotsPartitioned

\* The slot that acquire takes off the stack is in it only once.
LEMMA AcquireInv == ASSUME Inv, ~misused, Acquire PROVE SlotsPartitioned'
<1> DEFINE p == free_[top_ - 1]
<1>1. N \in Nat /\ top_ \in 1..N /\ top_' = top_ - 1 /\ free_' = free_
      /\ held' = held \union {p}
  BY PoolAssumption DEF Inv, TypeOK, Acquire
<1>2. Stack' = Stack \ {top_ - 1} /\ top_ - 1 \in Stack
  BY <1>1 DEF Stack
<1>3. \A i, j \in Stack : free_[i] = free_[j] => i = j
  BY DEF Inv, SlotsPartitioned
<1>4. {free_[i] : i \in Stack} = Slots \ held
  BY DEF Inv, SlotsPartitioned
<1>5. {free_[i] : i \in Stack \ {top_ - 1}} = {free_[i] : i \in Stack} \ {p}
  BY <1>2, <1>3
<1>6. {free_'[i] : i \in Stack'} = Slots \ held'
  BY <1>1, <1>2, <1>4, <1>5
<1>7. QED
  BY <1>1, <1>2, <1>3, <1>6 DEF SlotsPartitioned

\* A held slot is not in the stack, so releasing it puts it there once.
LEMMA ReleaseInv ==
  ASSUME Inv, ~misused, NEW p \in held, Release(p)
  PROVE  SlotsPartitioned'
<1>1. /\ N \in Nat /\ top_ \in 0 .. N - 1 /\ top_' = top_ + 1 /\ p \in Slots
      /\ free_' = [free_ EXCEPT ![top_] = p] /\ held' = held \ {p}
      /\ free_ \in [Slots -> Slots]
  BY PoolAssumption DEF Inv, TypeOK, Release, GiveUp
<1>2. Stack' = Stack \union {top_} /\ top_ \notin Stack /\ Stack' \subseteq Slots
  <2>1. top_ \in Nat /\ top_ < N /\ top_' - 1 = top_
    BY <1>1
  <2>2. 0 .. top_ = (0 .. top_ - 1) \union {top_}
    BY <2>1
  <2>3. 0 .. top_ \subseteq 0 .. N - 1
    BY <1>1, <2>1
  <2>4. top_ \notin 0 .. top_ - 1
    BY <2>1
  <2>5. QED
    BY <2>1, <2>2, <2>3, <2>4 DEF Stack, Slots
<1>3. free_'[top_] = p /\ \A i \in Stack : free_'[i] = free_[i]
  BY <1>1, <1>2
<1>4. {free_[i] : i \in Stack} = Slots \ held
  BY DEF Inv, SlotsPartitioned
<1>5. {free_'[i] : i \in Stack'} = {free_[i] : i \in Stack} \union {p}
  BY <1>2, <1>3
<1>6. {free_'[i] : i \in Stack'} = Slots \ held'
  BY <1>1, <1>4, <1>5
<1>7. \A i \in Stack : free_[i] # p
  BY <1>4
<1>8. \A i, j \in Stack' : free_'[i] = free_'[j] => i = j
  BY <1>2, <1>3, <1>7 DEF Inv, SlotsPartitioned
<1>9. QED
  BY <1>6, <1>8 DEF SlotsPartitioned

\* Clients that release what they hold, and once, always find every slot either
\* in the stack or held: no object is handed out twice and none is lost.
THEOREM NoAliasNoLeak == Spec => []SlotsPartitioned
<1>1. Init => Inv
  BY TypeInit, PartitionInit DEF Inv
<1>2. Inv /\ [Next]_vars => Inv'
  <2> SUFFICES ASSUME Inv, [Next]_vars PROVE Inv'
    OBVIOUS
  <2>1. TypeOK'
    BY TypeStep DEF Inv
  <2>2. ASSUME Acquire PROVE SlotsPartitioned'
    BY <2>2, AcquireInv DEF Acquire, SlotsPartitioned
  <2>3. ASSUME NEW p \in Slots, Release(p) PROVE SlotsPartitioned'
    <3>1. CASE misused'
      BY <3>1 DEF SlotsPartitioned
    <3>2. CASE ~misused'
      BY <2>3, <3>2, ReleaseInv DEF Release, GiveUp
    <3>3. QED
      BY <3>1, <3>2
  <2>4. ASSUME NEW p \in Slots, ReleaseDropped(p) PROVE SlotsPartitioned'
    <3>1. SUFFICES ASSUME ~misused' PROVE FALSE
      BY DEF SlotsPartitioned
    <3>2. p \in held /\ ~misused /\ top_ >= N /\ N \in Nat /\ top_ \in 0..N
      BY <2>4, <3>1, PoolAssumption DEF ReleaseDropped, GiveUp, Inv, TypeOK
    <3>3. QED
      BY <3>2, RoomForHeld
  <2>5. ASSUME UNCHANGED vars PROVE SlotsPartitioned'
    BY <2>5 DEF vars, Inv, SlotsPartitioned, Stack
  <2>6. QED
    BY <2>1, <2>2, <2>3, <2>4, <2>5 DEF Inv, Next, AcquireNone
<1>3. QED
  BY <1>1, <1>2, PTL DEF Spec, Inv

================================================================================
