------------------------------ MODULE BoundedFifo ------------------------------
(* What a bounded single-producer single-consumer queue promises: items are     *)
(* received in the order in which they were sent, and at most Bound of them are *)
(* between the two at any moment.                                               *)
EXTENDS Integers, Sequences

CONSTANTS
  Items,
  Bound,    \* how many items the channel holds
  Lossy,    \* TRUE if an item may be lost instead of received
  Spoiling, \* TRUE if the item that is to be received next may be spoilt
  Spoilt    \* what a spoilt item is

VARIABLES queue, received

channel == <<queue, received>>

Init == queue = <<>> /\ received = <<>>

Send(v) ==
  /\ Len(queue) < Bound
  /\ queue' = Append(queue, v)
  /\ UNCHANGED received

Receive ==
  /\ queue # <<>>
  /\ received' = Append(received, Head(queue))
  /\ queue' = Tail(queue)

Lose ==
  /\ Lossy
  /\ queue # <<>>
  /\ queue' = Tail(queue)
  /\ UNCHANGED received

Spoil ==
  /\ Spoiling
  /\ queue # <<>>
  /\ queue' = [queue EXCEPT ![1] = Spoilt]
  /\ UNCHANGED received

Next == (\E v \in Items : Send(v)) \/ Receive \/ Lose \/ Spoil

Spec == Init /\ [][Next]_channel

================================================================================
