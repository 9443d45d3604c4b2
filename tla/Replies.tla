--------------------------------- MODULE Replies -------------------------------
(* What a ring promises to the thread that calls it, one call at a time: a       *)
(* completion is read once, by the call it belongs to or by a later one, and     *)
(* none outlives the ring. Calls are numbered as they are made.                  *)
EXTENDS Integers

CONSTANTS
  Bound,      \* how many calls are made
  MayGiveUp   \* TRUE if a call may return without a completion

VARIABLES
  made,       \* how many calls have been made
  waiting,    \* the call in progress, or 0
  pending,    \* calls whose completion nobody has read
  reply       \* the last return: to which call, with whose completion, or 0

calls == <<made, waiting, pending, reply>>

Init ==
  /\ made = 0 /\ waiting = 0 /\ pending = {}
  /\ reply = [to |-> 0, from |-> 0]

Begin ==
  /\ waiting = 0 /\ made < Bound
  /\ made' = made + 1
  /\ waiting' = made + 1
  /\ pending' = pending \union {made + 1}
  /\ UNCHANGED reply

\* A call that returns before it has begun.
Refuse ==
  /\ waiting = 0 /\ made < Bound
  /\ made' = made + 1
  /\ reply' = [to |-> made + 1, from |-> 0]
  /\ UNCHANGED <<waiting, pending>>

Read(call) ==
  /\ waiting # 0 /\ call \in pending
  /\ pending' = pending \ {call}
  /\ reply' = [to |-> waiting, from |-> call]
  /\ waiting' = 0
  /\ UNCHANGED made

GiveUp ==
  /\ MayGiveUp /\ waiting # 0
  /\ reply' = [to |-> waiting, from |-> 0]
  /\ waiting' = 0
  /\ UNCHANGED <<made, pending>>

Restart ==
  /\ waiting = 0
  /\ pending' = {}
  /\ UNCHANGED <<made, waiting, reply>>

Next == Begin \/ Refuse \/ (\E call \in pending : Read(call)) \/ GiveUp \/ Restart

Spec == Init /\ [][Next]_calls

================================================================================
