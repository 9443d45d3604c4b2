------------------------------- MODULE SpscQueue -------------------------------
(* ll::SpscQueue<T, Capacity> (include/ll/spsc_queue.hpp): one producer thread  *)
(* calling try_push, one consumer thread calling try_pop, either calling        *)
(* empty().                                                                     *)
(*                                                                              *)
(* The two atomics are C++ atomics, not shared variables of an interleaving:    *)
(* head_ and tail_ are their modification orders (message 1 is the initial 0),  *)
(* and a load by the other thread may return any message at or after the last   *)
(* one that thread has seen (read-read coherence). A load that acquires a       *)
(* message stored with release learns of everything the storing thread had      *)
(* done; pSync and cSync count the pops (pushes) that are known in this way to  *)
(* happen before the thread's next step. Slots are plain memory, so an access   *)
(* that is not ordered after the other thread's last access of the same slot is *)
(* a data race.                                                                 *)
EXTENDS Integers, SequencesExt

CONSTANTS
  Capacity,   \* the template parameter
  Items,      \* the values of T that are pushed
  Gone,       \* a default-constructed, moved-from or half-assigned T
  Throws,     \* which operations of T may throw: its assignment ("assign"), its
              \* construction from another, which is left intact ("copy") or in
              \* any state ("move")
  MaxPush     \* bound: successful pushes in a behaviour

ASSUME CapacityAssumption ==
  /\ Capacity \in Nat
  /\ Capacity >= 2
  /\ \E k \in 1..Capacity : Capacity = 2^k

ASSUME GoneAssumption == Gone \notin Items

ASSUME BoundAssumption == MaxPush \in Nat

VARIABLES
  head_,      \* modification order of the consumer's index
  tail_,      \* modification order of the producer's index
  slots_,     \* slot -> item, last push that wrote it, last pop that read it
  pPc, pItem, pSeen, pSync,   \* producer: where it is in try_push, its view
  cPc, cOut, cSeen, cSync,    \* consumer: where it is in try_pop, its view
  pushed,     \* history: items of the pushes that returned true
  delivered   \* history: items returned by try_pop

producer == <<pPc, pItem, pSeen, pSync>>
consumer == <<cPc, cOut, cSeen, cSync>>
vars == <<head_, tail_, slots_, producer, consumer, pushed, delivered>>

Index == 0 .. Capacity - 1

\* "& mask": Capacity is a power of two (MCSpscQueue checks the equality).
Wrap(i) == i % Capacity

\* The order a faulty queue would use where one of these four is too weak.
Relaxed == "relaxed"

TailStoreOrder == "release"
HeadStoreOrder == "release"
HeadLoadOrder == "acquire"
TailLoadOrder == "acquire"

\* What a thread knows of the other after loading message k of the other's
\* index: message k is stored by the other's operation k - 1.
Sync(store, load, k, known) ==
  IF store = "release" /\ load = "acquire" THEN k - 1 ELSE known

ProducerLearns(k) ==
  /\ pSeen' = k
  /\ pSync' = Sync(HeadStoreOrder, HeadLoadOrder, k, pSync)

ConsumerLearns(k) ==
  /\ cSeen' = k
  /\ cSync' = Sync(TailStoreOrder, TailLoadOrder, k, cSync)

\* A faulty producer that keeps the value of head_ it loaded first.
HeadMessagesCached == pSeen .. pSeen

HeadMessages == pSeen .. Len(head_)
TailMessages == cSeen .. Len(tail_)

\* A faulty full check: the last slot of the ring is never seen to be next to
\* the first.
FullUnmasked(k) == Last(tail_) + 1 = head_[k]

\* next == head_.load(), where the load returns message k.
Full(k) == Wrap(Last(tail_) + 1) = head_[k]

\* h == tail_.load(), where the load returns message k.
Empty(k) == Last(head_) = tail_[k]

Init ==
  /\ head_ = <<0>>
  /\ tail_ = <<0>>
  /\ slots_ = [s \in Index |-> [item |-> Gone, w |-> 0, r |-> 0]]
  /\ pPc = "idle" /\ pItem = Gone /\ pSeen = 1 /\ pSync = 0
  /\ cPc = "idle" /\ cOut = Gone /\ cSeen = 1 /\ cSync = 0
  /\ pushed = <<>>
  /\ delivered = <<>>

--------------------------------------------------------------------------------
(* try_push *)

\* Returns false: the argument is neither copied nor moved from.
PushFull ==
  /\ pPc = "idle"
  /\ \E k \in HeadMessages : Full(k) /\ ProducerLearns(k)
  /\ UNCHANGED <<head_, tail_, slots_, pPc, pItem, consumer, pushed, delivered>>

PushAdmit(v) ==
  /\ pPc = "idle"
  /\ Len(pushed) < MaxPush
  /\ \E k \in HeadMessages : ~Full(k) /\ ProducerLearns(k)
  /\ pPc' = "write"
  /\ pItem' = v
  /\ UNCHANGED <<head_, tail_, slots_, consumer, pushed, delivered>>

\* The producer leaves item in slots_[t].
Assign(item) ==
  slots_' = [slots_ EXCEPT ![Last(tail_)] =
               [item |-> item, w |-> Len(tail_), r |-> @.r]]

PushWrite ==
  /\ pPc = "write"
  /\ Assign(pItem)
  /\ pPc' = "publish"
  /\ UNCHANGED <<head_, tail_, pItem, pSeen, pSync, consumer, pushed, delivered>>

\* T's assignment throws: the slot is left in whatever state T's guarantee
\* allows, the exception leaves try_push before tail_ is stored.
PushThrow ==
  /\ "assign" \in Throws
  /\ pPc = "write"
  /\ Assign(Gone)
  /\ pPc' = "idle"
  /\ pItem' = Gone
  /\ UNCHANGED <<head_, tail_, pSeen, pSync, consumer, pushed, delivered>>

\* A faulty publish: the mask is left out of the stored index.
PushPublishUnmasked ==
  /\ pPc = "publish"
  /\ tail_' = Append(tail_, Last(tail_) + 1)
  /\ pushed' = Append(pushed, pItem)
  /\ pPc' = "idle"
  /\ pItem' = Gone
  /\ UNCHANGED <<head_, slots_, pSeen, pSync, consumer, delivered>>

PushPublish ==
  /\ pPc = "publish"
  /\ tail_' = Append(tail_, Wrap(Last(tail_) + 1))
  /\ pushed' = Append(pushed, pItem)
  /\ pPc' = "idle"
  /\ pItem' = Gone
  /\ UNCHANGED <<head_, slots_, pSeen, pSync, consumer, delivered>>

--------------------------------------------------------------------------------
(* try_pop *)

PopEmpty ==
  /\ cPc = "idle"
  /\ \E k \in TailMessages : Empty(k) /\ ConsumerLearns(k)
  /\ UNCHANGED <<head_, tail_, slots_, cPc, cOut, producer, pushed, delivered>>

PopAdmit ==
  /\ cPc = "idle"
  /\ \E k \in TailMessages : ~Empty(k) /\ ConsumerLearns(k)
  /\ cPc' = "read"
  /\ UNCHANGED <<head_, tail_, slots_, cOut, producer, pushed, delivered>>

\* The consumer leaves item in slots_[h].
Vacate(item) ==
  slots_' = [slots_ EXCEPT ![Last(head_)] =
               [item |-> item, w |-> @.w, r |-> Len(head_)]]

\* T out = std::move(slots_[h]) leaves a moved-from value behind.
PopRead ==
  /\ cPc = "read"
  /\ cOut' = slots_[Last(head_)].item
  /\ Vacate(Gone)
  /\ cPc' = "commit"
  /\ UNCHANGED <<head_, tail_, cSeen, cSync, producer, pushed, delivered>>

Constructing == Throws \intersect {"copy", "move"} # {}

\* What a construction that throws leaves of its source.
Leftovers(item) == IF "move" \in Throws THEN {item, Gone} ELSE {item}

\* The construction of out throws: head_ has not moved, so whatever is left of the
\* item is still queued, and the next try_pop returns it.
PopThrow ==
  /\ Constructing
  /\ cPc = "read"
  /\ \E item \in Leftovers(slots_[Last(head_)].item) : Vacate(item)
  /\ cPc' = "idle"
  /\ UNCHANGED <<head_, tail_, cOut, cSeen, cSync, producer, pushed, delivered>>

StoreHead ==
  /\ cPc = "commit"
  /\ head_' = Append(head_, Wrap(Last(head_) + 1))
  /\ cPc' = "idle"
  /\ cOut' = Gone
  /\ UNCHANGED <<tail_, slots_, cSeen, cSync, producer, pushed>>

PopCommit == StoreHead /\ delivered' = Append(delivered, cOut)

\* head_ is stored, then the conversion of out to the returned optional<T>
\* throws: the caller gets an exception and the item is nowhere any more.
PopLose == Constructing /\ StoreHead /\ UNCHANGED delivered

--------------------------------------------------------------------------------
(* empty(), which answers from a load of each index: the caller's own is exact  *)

ProducerEmpty ==
  /\ pPc = "idle"
  /\ \E k \in HeadMessages : ProducerLearns(k)
  /\ UNCHANGED <<head_, tail_, slots_, pPc, pItem, consumer, pushed, delivered>>

ConsumerEmpty ==
  /\ cPc = "idle"
  /\ \E k \in TailMessages : ConsumerLearns(k)
  /\ UNCHANGED <<head_, tail_, slots_, cPc, cOut, producer, pushed, delivered>>

--------------------------------------------------------------------------------
Next ==
  \/ PushFull
  \/ \E v \in Items : PushAdmit(v)
  \/ PushWrite
  \/ PushThrow
  \/ PushPublish
  \/ PopEmpty
  \/ PopAdmit
  \/ PopRead
  \/ PopThrow
  \/ PopCommit
  \/ PopLose
  \/ ProducerEmpty
  \/ ConsumerEmpty

Spec == Init /\ [][Next]_vars

--------------------------------------------------------------------------------
(* Properties *)

Pops == Len(head_) - 1
Pushes == Len(tail_) - 1

\* Types of the indices, slots, program counters and views of spsc_queue.hpp.
TypeOK ==
  /\ head_ \in Seq(Index) /\ head_ # <<>>
  /\ tail_ \in Seq(Index) /\ tail_ # <<>>
  /\ slots_ \in [Index -> [item : Items \union {Gone}, w : Nat, r : Nat]]
  /\ pPc \in {"idle", "write", "publish"}
  /\ cPc \in {"idle", "read", "commit"}
  /\ pItem \in Items \union {Gone} /\ cOut \in Items \union {Gone}
  /\ pSeen \in 1..Len(head_) /\ cSeen \in 1..Len(tail_)
  /\ pSync \in Nat /\ cSync \in Nat
  /\ pushed \in Seq(Items)
  /\ delivered \in Seq(Items \union {Gone})

\* The two threads never touch a slot without a happens-before edge between
\* their accesses: when try_push is about to assign slots_[t] every earlier pop
\* from that slot happens before it, when try_pop is about to move slots_[h] out
\* the push that filled it happens before it, and they are never both at the
\* same slot. This is what the four memory orders are for.
NoDataRace ==
  /\ pPc = "write" => slots_[Last(tail_)].r <= pSync
  /\ cPc = "read" => slots_[Last(head_)].w <= cSync
  /\ pPc = "write" /\ cPc = "read" => Last(tail_) # Last(head_)

\* However stale the value of head_ a producer may still load, try_push judges
\* "full" exactly when the queue held Capacity - 1 items at that value, and
\* empty() "true" exactly when it held none: equal indices are never mistaken
\* for a full lap.
ProducerVerdictExact ==
  \A k \in HeadMessages :
    /\ Full(k) <=> Pushes - (k - 1) = Capacity - 1
    /\ Last(tail_) = head_[k] <=> Pushes = k - 1

\* Whichever value of tail_ the consumer may still load, try_pop and empty()
\* report "empty" exactly when every push up to that value has been popped.
ConsumerVerdictExact ==
  \A k \in TailMessages : Empty(k) <=> Pops = k - 1

\* try_pop returns the pushed items, unaltered, each once and in push order,
\* when constructing a T does not throw.
FifoDelivery ==
  ~Constructing => Len(delivered) = Pops /\ IsPrefix(delivered, pushed)

\* What there is of the item of push n: in its slot, or in out.
Held(n) ==
  IF cPc = "commit" /\ n = Pops + 1 THEN cOut ELSE slots_[Wrap(n - 1)].item

\* The promise of the class comment, "bounded ... ring": a queue of Capacity - 1
\* items, which are what the slots between the two indices hold.
Fifo == INSTANCE BoundedFifo WITH
  Bound <- Capacity - 1,
  Lossy <- Constructing,
  Spoiling <- "move" \in Throws,
  Spoilt <- Gone,
  queue <- [i \in 1 .. Pushes - Pops |-> Held(Pops + i)],
  received <- delivered

\* Every step of try_push and try_pop is a step of a bounded FIFO channel or
\* none of its business. If constructing a T throws the channel may lose the item
\* that try_pop was about to return; if a move may throw half-way, that item may
\* instead stay at the head of the queue, spoilt. Nothing else is altered, and
\* nothing repeated or reordered.
ImplementsFifo == Fifo!Spec

--------------------------------------------------------------------------------
(* Why it works: the invariant that a step of either thread preserves           *)

\* Operation n stores message n + 1: the n-th index of the ring.
OrdersCount ==
  /\ \A i \in 1..Len(head_) : head_[i] = Wrap(i - 1)
  /\ \A i \in 1..Len(tail_) : tail_[i] = Wrap(i - 1)
  /\ Len(pushed) = Pushes

\* Release and acquire make what a thread has seen the same as what happens
\* before its next step.
ViewsSynchronised ==
  /\ pSync = pSeen - 1
  /\ cSync = cSeen - 1

\* By its own, possibly stale, view the producer never overfills the ring and
\* the consumer never overtakes the producer.
ViewsBound ==
  /\ Pushes < pSeen + Capacity - 1
  /\ pPc # "idle" => Pushes < pSeen + Capacity - 2
  /\ Pops < cSeen
  /\ cPc # "idle" => Pops < cSeen - 1

\* The last pop that touched a slot has that slot's index, and its item had been
\* pushed.
SlotsTouched ==
  \A s \in Index : slots_[s].r # 0 => /\ s = Wrap(slots_[s].r - 1)
                                     /\ slots_[s].r <= Pushes

\* The slots of the queued pushes hold their items, but for the oldest one where a
\* move may have thrown and spoilt it, and so does the slot that is written and not
\* yet published.
SlotsHoldQueue ==
  /\ \A n \in Pops + 1 .. Pushes :
       /\ slots_[Wrap(n - 1)].w = n
       /\ n # Pops + 1 \/ "move" \notin Throws => Held(n) = pushed[n]
  /\ pPc # "idle" => pItem \in Items
  /\ pPc = "publish" => /\ slots_[Wrap(Pushes)].w = Pushes + 1
                        /\ slots_[Wrap(Pushes)].item = pItem

\* What a step of try_push or try_pop preserves: each thread's possibly stale view
\* of the other is still safe to act on, and the ring holds the queue.
Inv ==
  /\ TypeOK
  /\ OrdersCount
  /\ ViewsSynchronised
  /\ ViewsBound
  /\ SlotsTouched
  /\ SlotsHoldQueue
  /\ FifoDelivery

================================================================================
