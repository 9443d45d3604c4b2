------------------------------- MODULE UringRing -------------------------------
(* ll::uring::Ring (include/ll/linux_uring.hpp): one thread that makes blocking  *)
(* calls, submit_nop_and_wait() and read_file(), on top of a kernel that         *)
(* completes submitted operations on its own, in any order. The ring outlives    *)
(* the calls: an operation that a call gave up on is still in it.                *)
EXTENDS Integers, FiniteSets, SequencesExt

CONSTANTS
  Depth,      \* queue_depth: entries of the submission queue
  Faults,     \* system calls that may fail: "submit" (EAGAIN, EBUSY), "wait" (EINTR)
  MaxCalls    \* bound: calls in a behaviour

ASSUME RingAssumption ==
  /\ Depth \in Nat \ {0}
  /\ Faults \subseteq {"submit", "wait"}
  /\ MaxCalls \in Nat

Kinds == {"nop", "read"}
Ops == [call : 1..MaxCalls, kind : Kinds]
None == [call |-> 0, kind |-> "nop"]

VARIABLES
  open_,
  sq,         \* prepared entries that the kernel has not consumed
  inflight,   \* operations that the kernel is working on
  cq,         \* completions that nobody has marked as seen
  pc, current, \* where the calling thread is, and the operation it prepared
  fds,        \* file descriptors open in the process
  calls,      \* how many calls have been made
  answer,     \* what the last call returned, whose completion it read, and the
              \* value of abandoned at that moment
  abandoned   \* calls since open() that failed after preparing an entry

ring == <<open_, sq, inflight, cq>>
thread == <<pc, current, fds, calls, answer>>
vars == <<ring, thread, abandoned>>

Init ==
  /\ open_ = FALSE /\ sq = <<>> /\ inflight = {} /\ cq = <<>>
  /\ pc = "idle" /\ current = None /\ fds = {} /\ calls = 0
  /\ answer = [op |-> None, from |-> None, value |-> "none", lag |-> 0]
  /\ abandoned = 0

\* A faulty close: completions of the old ring turn up in the next one.
DiscardKeepingCq == sq' = <<>> /\ inflight' = {} /\ UNCHANGED cq /\ abandoned' = 0

\* The rings are unmapped and the kernel cancels what it was working on.
Discard == sq' = <<>> /\ inflight' = {} /\ cq' = <<>> /\ abandoned' = 0

Open ==
  /\ pc = "idle"
  /\ Discard
  /\ open_' \in BOOLEAN
  /\ UNCHANGED thread

Close ==
  /\ pc = "idle" /\ open_
  /\ Discard
  /\ open_' = FALSE
  /\ UNCHANGED thread

--------------------------------------------------------------------------------
(* submit_nop_and_wait() and read_file() *)

Failed(kind) == IF kind = "read" THEN "minus1" ELSE "false"
Operation(kind) == [call |-> calls + 1, kind |-> kind]

\* Return to the caller.
Return(op, from, value) ==
  /\ pc' = "idle"
  /\ current' = None
  /\ answer' = [op |-> op, from |-> from, value |-> value, lag |-> abandoned]

\* The ::close(fd) of one path of read_file; submit_nop_and_wait has no descriptor.
CloseFile(op) == fds' = fds \ {op.call}

\* A call that ends before it asks for an entry: the ring is closed, or read_file has
\* nothing to read from or into.
Refuse(kind) ==
  /\ pc = "idle" /\ calls < MaxCalls
  /\ ~open_ \/ kind = "read"
  /\ calls' = calls + 1
  /\ Return(Operation(kind), None, Failed(kind))
  /\ UNCHANGED <<ring, fds, abandoned>>

\* read_file opens the file before it asks for an entry.
OpenFile ==
  /\ pc = "idle" /\ calls < MaxCalls
  /\ open_
  /\ fds' = fds \union {calls + 1}
  /\ pc' = "opened"
  /\ UNCHANGED <<ring, current, calls, answer, abandoned>>

\* The call is about to call io_uring_get_sqe.
Asks(kind) ==
  IF kind = "read" THEN pc = "opened" ELSE pc = "idle" /\ open_ /\ calls < MaxCalls

\* A faulty call: the file stays open when there is no entry.
NoEntryLeaking(kind) ==
  /\ Asks(kind)
  /\ Len(sq) = Depth
  /\ calls' = calls + 1
  /\ Return(Operation(kind), None, Failed(kind))
  /\ UNCHANGED <<ring, fds, abandoned>>

\* The submission queue is full.
NoEntry(kind) ==
  /\ Asks(kind)
  /\ Len(sq) = Depth
  /\ calls' = calls + 1
  /\ CloseFile(Operation(kind))
  /\ Return(Operation(kind), None, Failed(kind))
  /\ UNCHANGED <<ring, abandoned>>

\* A faulty call: the null of io_uring_get_sqe is not looked at.
PrepareUnchecked(kind) ==
  /\ Asks(kind)
  /\ calls' = calls + 1
  /\ sq' = Append(sq, Operation(kind))
  /\ current' = Operation(kind)
  /\ pc' = "submit"
  /\ UNCHANGED <<open_, inflight, cq, fds, answer, abandoned>>

Prepare(kind) ==
  /\ Asks(kind)
  /\ Len(sq) < Depth
  /\ calls' = calls + 1
  /\ sq' = Append(sq, Operation(kind))
  /\ current' = Operation(kind)
  /\ pc' = "submit"
  /\ UNCHANGED <<open_, inflight, cq, fds, answer, abandoned>>

\* A faulty call: it waits for an entry that it never handed over.
WaitWithoutSubmit ==
  /\ pc = "submit"
  /\ pc' = "wait"
  /\ UNCHANGED <<ring, current, fds, calls, answer, abandoned>>

\* io_uring_submit hands over prepared entries, those of earlier calls first. The
\* kernel may stop short of the last one: the call goes on and waits all the same.
Submit ==
  /\ pc = "submit"
  /\ \E n \in 1..Len(sq) :
       /\ inflight' = inflight \union {sq[i] : i \in 1..n}
       /\ sq' = SubSeq(sq, n + 1, Len(sq))
  /\ pc' = "wait"
  /\ UNCHANGED <<open_, cq, current, fds, calls, answer, abandoned>>

\* The entry stays prepared: a later submit takes it along.
SubmitFails ==
  /\ "submit" \in Faults
  /\ pc = "submit"
  /\ CloseFile(current)
  /\ Return(current, None, Failed(current.kind))
  /\ abandoned' = abandoned + 1
  /\ UNCHANGED <<ring, calls>>

\* What a call makes of cqe->res: read_file returns it as it is.
Value(kind, res) ==
  IF kind = "read" THEN res ELSE IF res = "errno" THEN "false" ELSE "true"

\* A faulty harvest: io_uring_cqe_seen is forgotten.
HarvestUnseen ==
  /\ pc = "wait"
  /\ cq # <<>>
  /\ CloseFile(current)
  /\ Return(current, Head(cq).op, Value(current.kind, Head(cq).res))
  /\ UNCHANGED <<ring, calls, abandoned>>

\* io_uring_wait_cqe gives the oldest completion, whoever it belongs to.
Harvest ==
  /\ pc = "wait"
  /\ cq # <<>>
  /\ cq' = Tail(cq)
  /\ CloseFile(current)
  /\ Return(current, Head(cq).op, Value(current.kind, Head(cq).res))
  /\ UNCHANGED <<open_, sq, inflight, calls, abandoned>>

\* A signal interrupts the wait: the call returns, its operation goes on.
WaitFails ==
  /\ "wait" \in Faults
  /\ pc = "wait"
  /\ cq = <<>>
  /\ CloseFile(current)
  /\ Return(current, None, Failed(current.kind))
  /\ abandoned' = abandoned + 1
  /\ UNCHANGED <<ring, calls>>

--------------------------------------------------------------------------------
(* The kernel *)

\* A read may fail (a directory, an I/O error); a nop does not.
Results(kind) == IF kind = "read" THEN {"bytes", "errno"} ELSE {"bytes"}

Complete(op) ==
  /\ op \in inflight
  /\ inflight' = inflight \ {op}
  /\ \E res \in Results(op.kind) : cq' = Append(cq, [op |-> op, res |-> res])
  /\ UNCHANGED <<open_, sq, thread, abandoned>>

--------------------------------------------------------------------------------
Next ==
  \/ Open
  \/ Close
  \/ OpenFile
  \/ \E kind \in Kinds : Refuse(kind) \/ NoEntry(kind) \/ Prepare(kind)
  \/ Submit
  \/ SubmitFails
  \/ Harvest
  \/ WaitFails
  \/ \E op \in Ops : Complete(op)

\* A call in progress is not suspended for ever, and the kernel finishes what
\* was submitted. Nothing makes the program call, and no signal has to come.
Spec ==
  /\ Init /\ [][Next]_vars
  /\ WF_vars(NoEntry("read") \/ Prepare("read"))
  /\ WF_vars(Submit \/ SubmitFails)
  /\ WF_vars(Harvest)
  /\ \A op \in Ops : WF_vars(Complete(op))

--------------------------------------------------------------------------------
(* Properties *)

Completions == [op : Ops, res : {"bytes", "errno"}]
Outstanding == Len(sq) + Cardinality(inflight) + Len(cq)

\* Types of the ring and of the calling thread.
TypeOK ==
  /\ open_ \in BOOLEAN
  /\ sq \in Seq(Ops) /\ Len(sq) <= Depth
  /\ inflight \subseteq Ops
  /\ cq \in Seq(Completions)
  /\ pc \in {"idle", "opened", "submit", "wait"}
  /\ current \in Ops \union {None}
  /\ fds \subseteq 1..MaxCalls
  /\ calls \in 0..MaxCalls
  /\ abandoned \in 0..MaxCalls

\* A file is open exactly while read_file is between its open and its return: each
\* of the four paths that leave it after the open closes the file, whatever earlier
\* calls have left in the submission queue, and none before the call is over.
DescriptorsClosed ==
  fds = IF pc = "opened" THEN {calls + 1}
        ELSE IF current.kind = "read" THEN {current.call} ELSE {}

\* Each call that gave up after taking an entry leaves exactly one operation in
\* the ring, and no later call ever makes up for it: each later call adds one
\* operation and removes one completion, so the ring stays that far behind its
\* callers until it is closed, however few entries each submit takes. As long as no
\* system call fails the ring is empty between calls, and the kernel holds no pointer
\* into a buffer whose call is over.
LagIsAbandoned ==
  Outstanding = abandoned + (IF pc \in {"submit", "wait"} THEN 1 ELSE 0)

\* A call reads another operation's result only on a ring that a call has
\* abandoned since it was opened: as long as no system call fails each call harvests
\* its own completion, and closing and opening the ring again heals it.
ForeignOnlyWhileLagging ==
  answer.from \notin {None, answer.op} => answer.lag > 0

\* The calls whose operation is somewhere in the ring.
CallsOf(ops) == {op.call : op \in ops}
Unread ==
  CallsOf(ToSet(sq)) \union CallsOf(inflight) \union CallsOf({c.op : c \in ToSet(cq)})

Promise == INSTANCE Replies WITH
  Bound <- MaxCalls,
  MayGiveUp <- Faults # {},
  made <- calls,
  waiting <- current.call,
  pending <- Unread,
  reply <- [to |-> answer.op.call, from |-> answer.from.call]

\* To its callers the ring is a place where completions wait to be read: whatever the
\* kernel reorders and whichever call gives up, none is read twice or after the ring
\* was discarded, and none is lost before.
ImplementsReplies == Promise!Spec

\* A call that waits has something to wait for, its own operation or an older one: it
\* never blocks in io_uring_wait_cqe, which has no timeout, on an empty ring.
NeverWaitsInVain == pc = "wait" => inflight # {} \/ cq # <<>>

\* A call comes back: it never waits on a completion that cannot arrive, because
\* what it submitted, or an older operation, is still to complete.
CallsReturn == pc # "idle" ~> pc = "idle"

\* linux_uring.hpp:99 on read_file: "Returns bytes read or -1", of the file it
\* was asked to read.
ReturnsOwnBytes ==
  answer.op.kind = "read" /\ answer.value = "bytes" => answer.from = answer.op

================================================================================
