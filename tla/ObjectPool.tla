------------------------------- MODULE ObjectPool ------------------------------
(* ll::ObjectPool<T, N> (include/ll/arena.hpp): a stack of pointers to the        *)
(* pool's own slots, next to the slots that its clients have checked out.         *)
EXTENDS Integers, FiniteSets

CONSTANT N    \* the template parameter

ASSUME PoolAssumption == N \in Nat

VARIABLES
  free_,      \* the stack: position -> slot, meaningful below top_
  top_,
  held,       \* history: slots that were acquired and not released since
  misused     \* history: whether a slot was released that was not held

vars == <<free_, top_, held, misused>>

Slots == 0 .. N - 1

Init ==
  /\ free_ = [i \in Slots |-> i]
  /\ top_ = N
  /\ held = {}
  /\ misused = FALSE

\* A faulty acquire: the pointer above the top of the stack is handed out.
AcquireStale ==
  /\ top_ > 0
  /\ top_' = top_ - 1
  /\ held' = held \union {free_[top_ % N]}
  /\ UNCHANGED <<free_, misused>>

Acquire ==
  /\ top_ > 0
  /\ top_' = top_ - 1
  /\ held' = held \union {free_[top_ - 1]}
  /\ UNCHANGED <<free_, misused>>

\* nullptr: the pool is exhausted
AcquireNone ==
  /\ top_ = 0
  /\ UNCHANGED vars

\* A client gives up p, which it may not even hold: release does not ask.
GiveUp(p) ==
  /\ held' = held \ {p}
  /\ misused' = (misused \/ p \notin held)

\* A faulty release: top_ >= N is not looked at.
ReleaseUnchecked(p) ==
  /\ free_' = [free_ EXCEPT ![top_] = p]
  /\ top_' = top_ + 1
  /\ GiveUp(p)

Release(p) ==
  /\ top_ < N
  /\ free_' = [free_ EXCEPT ![top_] = p]
  /\ top_' = top_ + 1
  /\ GiveUp(p)

\* The stack is full: the pointer is dropped without a word.
ReleaseDropped(p) ==
  /\ top_ >= N
  /\ GiveUp(p)
  /\ UNCHANGED <<free_, top_>>

Next ==
  \/ Acquire
  \/ AcquireNone
  \/ \E p \in Slots : Release(p) \/ ReleaseDropped(p)

Spec == Init /\ [][Next]_vars

--------------------------------------------------------------------------------
(* Properties *)

Stack == 0 .. top_ - 1

\* The stack stays within free_, and holds only pointers to slots of the pool,
\* even if clients release a slot twice.
TypeOK ==
  /\ free_ \in [Slots -> Slots]
  /\ top_ \in 0..N
  /\ held \subseteq Slots
  /\ misused \in BOOLEAN

\* After any sequence of acquires and releases by clients that release only what
\* they hold, every slot is either in the stack, once, or held: acquire never hands
\* out an object that is in use, and no object is lost to the pool.
SlotsPartitioned ==
  ~misused =>
    /\ \A i, j \in Stack : free_[i] = free_[j] => i = j
    /\ {free_[i] : i \in Stack} = Slots \ held

================================================================================
