------------------------------ MODULE MCSpscQueue ------------------------------
(* Small instances of SpscQueue. *)
EXTENDS SpscQueue, Bitwise

CONSTANTS a, b

MCItems == {a, b}

\* spsc_queue.hpp writes (i + 1) & mask where SpscQueue has a remainder.
ASSUME MaskIsRemainder ==
  \A i \in 0 .. 2 * Capacity : (i & (Capacity - 1)) = Wrap(i)

================================================================================
