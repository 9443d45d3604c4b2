------------------------------ MODULE SpscHandoff -----------------------------
(* The way the queue is used: one thread feeds the numbered ticks 1..MaxPush,    *)
(* spinning on try_push, and one drains them, spinning on try_pop, until both    *)
(* are joined (examples/spsc/main.cpp, the stress test of test_ll_modules.cpp).  *)
EXTENDS SpscQueue

Ticks == [i \in 1..MaxPush |-> i]

\* The queue is one of ticks, which are plain numbers: nothing they do throws.
TicksAreItems == 1..MaxPush \subseteq Items /\ Throws = {}

\* while (!q.try_push(t)), for each tick in turn
Feed ==
  \/ Len(pushed) < MaxPush /\ PushFull
  \/ PushAdmit(Len(pushed) + 1)
  \/ PushWrite
  \/ PushPublish

\* while (got < kN) if (q.try_pop()) ++got
Strat ==
  \/ Len(delivered) < MaxPush /\ (PopEmpty \/ PopAdmit)
  \/ PopRead
  \/ PopCommit

\* Both threads are given time to run; and since a step that changes nothing is
\* not owed by weak fairness, while one that loads a newer index is, fairness
\* says also that a store becomes visible to a thread that keeps loading.
Handoff ==
  /\ Init /\ [][Feed \/ Strat]_vars
  /\ WF_vars(Feed)
  /\ WF_vars(Strat)

\* Both loops end, and the strategy has been given every tick, in order: however
\* late the indices become visible, the threads never spin on each other for ever.
EveryTickArrives == <>[](delivered = Ticks)

\* Until then one of the threads has something to do: it is inside an operation, or
\* there is a value of the other's index for it to load that lets it in. The ring is
\* never full to the producer and empty to the consumer, so that both would spin.
SomebodyProceeds ==
  \/ delivered = Ticks
  \/ pPc # "idle" \/ cPc # "idle"
  \/ Len(pushed) < MaxPush /\ \E k \in HeadMessages : ~Full(k)
  \/ Len(delivered) < MaxPush /\ \E k \in TailMessages : ~Empty(k)

\* How far the loops are: the feed has pushed the first ticks and is in the middle of
\* the next, the strategy has been given one tick for each pop.
LoopsInStep ==
  /\ Len(pushed) <= MaxPush
  /\ \A i \in 1..Len(pushed) : pushed[i] = i
  /\ pPc # "idle" => Len(pushed) < MaxPush /\ pItem = Len(pushed) + 1
  /\ Len(delivered) = Pops
  /\ \A i \in 1..Len(delivered) : delivered[i] = i

================================================================================
