# Verification of cpp26-systems-stack

TLA+ modules, TLC configurations and TLAPS proofs about the parts of this
repository that have logic of their own: the lock-free queue, the allocators, the
io_uring wrapper, the latency recorders, the poll-mode receiver and the tick
codecs, the binding of threads to NUMA nodes and the script that publishes the
wiki. The rest of the repository calls third-party libraries, generates code or
documents.

## 1. Inventory

| Component | Source | State | Operations | What makes it correct |
|---|---|---|---|---|
| SPSC queue | `include/ll/spsc_queue.hpp` | atomic `head_`, `tail_`, plain `slots_` | `try_push` x2, `try_pop`, `empty` | no data race on a slot under the C++ memory model; full and empty judged exactly from stale indices; FIFO, nothing lost or repeated, and if `T` throws, only the item in question is affected |
| Feed and strategy | `examples/spsc`, stress test in `tests/test_ll_modules.cpp` | two threads around a queue | spin on push, spin on pop, join | both loops end with every tick delivered |
| Arena | `include/ll/arena.hpp` | `storage_`, `offset_` | `allocate`, `create`, `reset` | blocks aligned, inside the storage, disjoint; `bad_alloc` exactly if nothing fits |
| Object pool | `include/ll/arena.hpp` | stack `free_`, `top_` | `acquire`, `release` | every object is in the stack once or held by one client |
| io_uring ring | `include/ll/linux_uring.hpp` | `open_`, the kernel's two rings | `open`, `close`, `submit_nop_and_wait`, `read_file` | a call gets its own completion; descriptors closed on every path; calls return |
| Histogram | `include/ll/hdr_histogram.hpp` | buckets, count, sum, min, max | `record`, `reset`, `value_at_percentile` | the fields describe one bag of samples; a percentile is the bucket of the sample of that rank |
| Poll-mode receiver | `include/ll/kernel_bypass.hpp` | one packet slot, `pending_`, `open_`, port | `open`, `close`, `inject_for_test`, `poll` | a packet is polled at most once, in order; a view decoded in place is not a mixture |
| SBE codec | `include/ll/sbe_codec.hpp`, `generated/sbe/market_sbe/*.h` | none (works on a buffer) | `encode_tick`, `decode_tick` | round trip; a buffer without a whole tick is refused; a destination that is too small sends nothing that passes for a tick |
| Packed tick | `include/ll/sbe_style.hpp` | none | `encode`, `decode_view`, `decode_copy` | round trip, length check |
| Sample buffer, clocks | `include/ll/tsc_clock.hpp` | samples, count, drops | `try_push`, `clear` | the samples and the drops account for the window |
| HdrHistogram_c wrapper | `include/ll/hdr_c.hpp` | a C handle or null | `record`, `reset`, queries | null-safe; it leaves out nothing but what it cannot track |
| NUMA helpers | `include/ll/linux_numa.hpp` | thread affinity, memory policy | `bind_thread_to_node`, `alloc_onnode`, `free_onnode` | a bound thread runs on the node's CPUs and no others |
| pmr arenas | `include/ll/pmr_arena.hpp` | a buffer and a memory resource | `create`, `destroy`, `release` | no object outlives its memory |
| Wiki publisher | `scripts/publish_wiki.py` | a git clone, the remote's branches | clone, write pages, commit, push to `master`, else to `main` | "Published" is true and stays true; a branch does not get the pages that it ends with already |
| Placement, hints, struct_pack, smoke program, benchmarks, tools | other headers, `src/`, `benchmarks/`, `tools/` | none | one library or system call each | - |

**How they interact.** There is no framework: components are headers that a
program composes. Five compositions are in the repository. A producer thread
and a consumer thread share one queue and nothing else (`examples/spsc`, the
stress test). A receiver hands its user a pointer into its own slot, in which the
SBE codec decodes (`examples/kernel_bypass`; `docs/blueprint/02-network-ingress.md`
continues the pipeline through the queue to a strategy thread, for which there is
no code). The io_uring wrapper calls into a kernel that answers asynchronously.
`examples/hdr_c` measures one loop with two recorders. And runs of the wiki script
meet each other, and people who edit pages in the browser, in one git remote. All
other components are used by one thread.

**Hard behaviours.** Weak memory and stale indices in the queue; an exception of
`T` in the middle of a push or a pop; the wrap of ring indices and of `size_t`;
operations that outlive the call that started them in io_uring; zero-copy views
of memory that moves on; rounding of percentile ranks; values that one recorder
counts and another refuses; pushes that are refused or whose answer is lost.
`PROJECT.json` lists the
hazards line by line, each with the property that watches it or the reason why
none does.

## 2. Modules

| Module | Models | Relation |
|---|---|---|
| `SpscQueue` | the queue, step by step | the core |
| `BoundedFifo` | what the queue promises: a bounded FIFO channel | abstract specification, instantiated by `SpscQueue` |
| `MCSpscQueue` | instances for TLC; checks that the mask is a remainder | extends `SpscQueue` |
| `SpscQueueProofs` | the proofs about the queue and about the two loops | extends `SpscHandoff`, `Arithmetic` |
| `SpscHandoff` | the two threads of the example and the stress test | composes `SpscQueue` with its users |
| `Arena`, `MCArena`, `ArenaProofs` | the bump allocator | |
| `ObjectPool`, `ObjectPoolProofs` | the pool | |
| `Replies` | what the ring promises: completions wait to be read, each by one call | abstract specification, instantiated by `UringRing` |
| `UringRing`, `UringRingProofs` | the io_uring wrapper and the kernel under it | |
| `HdrHistogram` | the histogram next to the bag of samples it stands for | |
| `LatencyCapture`, `LatencyCaptureProofs` | one measuring loop with three recorders: the histogram, the C library's, the sample buffer | extends `HdrHistogram` |
| `SbeTick` | both codecs and the flyweights, as operators on memory | |
| `StubPollModeRx`, `StubPollModeRxProofs` | the feed, the receiver and its user | composes with `SbeTick` |
| `WikiPublisher`, `WikiPublisherProofs` | runs of the script and the wiki's remote | |
| `NumaBind`, `MCNumaBind` | binding a thread to a node, over the libnuma calls it makes | |
| `Arithmetic` | what the proofs need to know of numbers: induction, folds, sums, extremes, remainders | extended by the proofs |

### SpscQueue

`head_` and `tail_` are modification orders in the sense of C++: sequences of all
values ever stored, `Last` being the current one. A load by the other thread
returns any message at or after the last one it has seen (`HeadMessages`,
`TailMessages`), so a thread may act on an arbitrarily old index. `pSync` and
`cSync` count the operations of the other thread that happen before the next step
of this one: a load with acquire of a message stored with release raises them,
any other combination does not. Each memory order of the source is a definition
(`TailStoreOrder`, ...), and making any one of them relaxed breaks `NoDataRace`,
`Inv` or both. Each slot remembers the last push that wrote it and the last pop that read it,
which is what `NoDataRace` compares with the synchronisation of the thread that is
about to touch it.

A `try_push` is the load and the check (`PushFull`, `PushAdmit`), the assignment
(`PushWrite`, or `PushThrow`), the store of `tail_` (`PushPublish`). A
`try_pop` is `PopEmpty` or `PopAdmit`, `PopRead` or `PopThrow`, then `PopCommit`,
or `PopLose` if the conversion to the returned optional throws after `head_` was
stored. `empty()` has one action for each of the two threads that may call it
(a thread's own index is exact; only the other one is a choice).

The constant `Throws` says which operations of `T` may throw. An assignment
(`"assign"`) leaves its slot in any state, but the slot is not in the queue yet. A copy
(`"copy"`) leaves the slot that it reads as it was, so that the next `try_pop` returns
the item after all. A move constructor with the basic guarantee (`"move"`) may leave
anything in the slot, and `head_` has not advanced: the next `try_pop` then returns
what is left (`Leftovers`). The refinement therefore maps the channel to what the slots
hold (`Held`) and not to the history of pushes: `BoundedFifo` may lose its first item,
or spoil it and keep it, and do nothing to the others.

### SpscHandoff

`Feed` and `Strat` are the loops of `examples/spsc/main.cpp`. Fairness: weak
fairness of each thread. It stands for two things. The operating system runs both
threads. And a store becomes visible in finite time, as the C++ standard asks of
implementations: a load that returns an old value again changes nothing and is
not owed, while a load that returns a newer one is a step that weak fairness does
not let the thread put off for ever. The run ends, so deadlock is not checked there.

### Arena, ObjectPool

`Arena` does every addition modulo `Word`, a scaled-down 2^64. `blocks` is the
history of what was handed out since the last reset. `ObjectPool` has `held`, the
slots that clients have acquired and not released. Clients may release any slot at
any time, and `misused` remembers whether one released what it did not hold:
`SlotsPartitioned` is promised only to clients that did not.

### UringRing

The thread's calls are sequences of steps; the kernel is the action `Complete`, which
takes any operation in flight. A `read_file` opens its file first (`OpenFile`), a
`submit_nop_and_wait` has none; both go on with `Prepare`, `Submit`, `Harvest`. `Refuse`
is every return before the file is open, and `NoEntry` the return from a full submission
queue. `Submit` hands over one or more of the prepared entries, the oldest first:
`io_uring_submit` may return less than their number, and the code accepts whatever is
not negative. (Zero is no outcome: with entries in the queue the kernel takes one or
reports an error.) `SubmitFails` and `WaitFails` are the error returns, present only
if `Faults` has them: a failed submit leaves the entry in the submission queue, an
interrupted wait leaves the operation in flight. The four paths that leave `read_file`
after the open (`NoEntry`, `SubmitFails`, `WaitFails`, `Harvest`) close the file each
for itself (`CloseFile`), as in the code. `answer` records for the last call which
operation's completion it read.
Fairness: a call in progress goes on (`NoEntry` or `Prepare` of a call that has opened
its file, `Submit`, `Harvest`), and the kernel completes what was submitted
(`Complete`, for each operation). Nothing makes the program call, and no signal has to
come.

### HdrHistogram

`samples` is the bag that the fields stand for. The rank of a percentile is a
product of doubles rounded up; `Targets` has both outcomes where the rounding of
the exact product is in doubt, and properties hold for both. Counts above about
4.5e10, where a product a little above a whole number may also be rounded down to it,
are not modelled. Percentages are in thousandths of a percent.

### LatencyCapture

Each latency goes to the three recorders in one step (`Capture`), and a new window
resets all three (`NextWindow`). The loop of `examples/hdr_c` feeds two of them; the
sample buffer, which no program of the repository combines with them yet, is the
third, so that the three accounts of one window can be compared. A latency is a word, and
a difference of two clocks that disagree is one of its upper half: `Signed` is the
cast in `examples/hdr_c`, which clamps it to 0 for the C library, while the portable
histogram counts it as a huge value. `TryPush` drops the newest sample when the
buffer is full. The C library is external: `hdr_record_value` refuses what it
cannot track, and `record` does not say so. `Untrackable` is the least value it
refuses, the end of its last bucket: a power of two above `highest_trackable`
(2^32 for the default of 3.6e9). `hdr_max` does not answer the recorded maximum but
the highest value that shares its counter (`HighestEquivalent`): values of up to
`ExactBits` bits (11 for 3 significant figures) have counters of their own, and above
them every doubling of the value doubles the number of values to a counter. The handle
may be null from the start. The library's quantiles, minimum and mean are not modelled.

### SbeTick, StubPollModeRx

Memory is a function from positions to bytes, and a byte says which byte of which
value it is: a field that is read from the wrong place, or from two messages,
shows as garbled or as another tick's. Layouts, lengths and identifiers are those
of the generated headers. `EncodeTick` and `EncodePacked` take the destination as
it is and say how much they wrote, with the guards for one that is too small;
`DecodeTick` tells a refusal (`"false"`) from an exception. The receiver has one
slot; a `PacketView` is a pointer into it, so `Decode` reads what the slot holds at
that time. `format` says for a whole behaviour whether the feed is of SBE ticks or
of packed ones. Packets are what the feed encoded into a buffer of some size
(`Feed`), the same cut short (`FeedCut`), or messages of another schema, another
template or with another block length (`Foreign`), whole or cut.

### WikiPublisher

A branch of the remote is the sequence of its commits; a commit is a number and
the pages it has. A run of the script is `Clone`, `WritePages`, `Commit` (or
`UpToDate`), `PushMaster` and, if that was not pushed, `PushMain`; other runs and edits in
the browser (`WebEdit`) come between any two of these steps. A push moves a branch only
forward. `MasterNotPushed` and `MainNotPushed` are every other outcome, also that of a push
whose branch was moved and whose answer was lost. `Raises` is an exception of a
`check=True` call, or ^C. `shown` is the branch that the wiki shows and that a clone
checks out; which one is up to the hosting service. Two abstractions: a run reads one
revision of `docs/`, and writes all pages in one step, since its temporary
clone is seen by nobody else.

### NumaBind

`machine` lists the CPUs of each node; libnuma and the kernel are external.
`numa_node_to_cpus` fills a set of CPU numbers, and `numa_run_on_node_mask` takes a
set of node numbers. `Bind` gives it the former, as the code does. The preference of a
node for memory is set without a verdict and may be refused. A call that libnuma
itself refuses changes nothing (`BindRefused`, `BindNowhere`).

Definitions whose comment calls them faulty are variants with a plausible bug; no
specification uses them. `PROJECT.json` pairs each with the property that detects
it when it takes the place of the definition after it.

## 3. Runs

| Run | Shows | Bounds, and why they are enough |
|---|---|---|
| `spsc` | race freedom, exact verdicts, refinement of `BoundedFifo`, the inductive invariant, all with a `T` whose assignment, copy and move may throw | ring of 4, 6 pushes of two items: the ring fills, wraps, and slots are written and read a second time while views lag by up to a lap. The proofs remove the bounds. |
| `handoff` | FIFO delivery; until all ticks have arrived one thread can get on (`SomebodyProceeds`); all arrive (`EveryTickArrives`) | 10 ticks through a ring of 4: the indices wrap twice and the ring fills in between |
| `arena` | alignment, containment, disjointness, exactness of `bad_alloc` | 22 bytes at address 40 (8-aligned), sizes 0 to 13, alignments 1, 4, 16; at most 3 blocks between resets |
| `arena_overflow` | **violated**: a size near the width of `size_t` passes the check | |
| `pool` | partition of the slots; the stack's bounds under double release | 4 slots, as in the test |
| `uring` | the file of a `read_file` is open during the call only, calls return, none waits for what cannot come (`NeverWaitsInVain`), the lag is the number of abandoned calls, foreign completions only while lagging; refinement of `Replies` | 4 calls: enough to abandon twice, fill the queue of 2, find it full with a file open, and call again; submits that take one entry of two |
| `uring_read_file` | **violated**: after an interrupted wait a call returns another operation's byte count | |
| `hdr` | fields describe the bag; percentiles find the rank's bucket, are monotone; the sample is within a third of the report; the buffer accounts for its window; the maxima of the two histograms differ by more than the C one's rounding exactly on outliers | 8 buckets and 9-bit values, so that the last bucket overflows and half of the range is negative; values on both sides of bucket bounds and of `Untrackable` = 128, above and below the 6 bits that the C histogram keeps exact; 5 samples, a buffer of 2 |
| `rx` | packets polled once and in order; a decoder takes exactly the whole ticks, with their own fields; a late view is another tick or its own, never half of each | 3 packets (one polled, one that overwrites it, one more) of either format; cut at 6, 8, 20 and 31 bytes, encoded into 15, 31 and 34 bytes, blocks of 16 and 26 bytes: on both sides of every length that the code compares; a slot of 34 bytes |
| `sbe_short` | **violated**: a tick cut short after its header makes `decode_tick` throw | |
| `wiki` | "Published" pages are in the remote; at most one run's are not shown; no branch gets the pages that it ends with already | 2 publishers, 2 revisions, 5 commits: both branches come into being, part, and get pushes after that. The proofs remove the bounds. |
| `numa_bind` | **violated**: a thread bound to a node runs on the CPUs of others | 4 machines of two nodes: CPU numbers in blocks and interleaved, one CPU each, and a node without CPUs |

The violated runs check what a comment or a test of the repository says; the
findings in `PROJECT.json` quote it. Other disagreements are plain from the code, or
in text that is not modelled, and have no run:

- `read_file` returns a negative errno where its comment says -1
  (`linux_uring.hpp:127` and `:99`).
- `value_at_percentile` can answer more than `max()`, because the middle of a bucket
  is above its smaller samples (after `record(2)` the 99th percentile is 3), while
  `tests/test_industry_stack.cpp:77` relies on the opposite for its own data.
- `decode_tick` takes a header that announces a shorter block and reads the fields
  beyond it from behind the message (`FreshFieldsExact` excepts them by name).
- `docs/tutorials/hdrhistogram-c.md:33` calls the default range "~1h in ns"; 3.6e9 ns
  are 3.6 s.
- The wiki script can print "Published" for pages that the wiki does not show
  (`HiddenAtMostOnce` says how far this goes), and a publisher with an older checkout
  overwrites newer pages, which stay in the history only.
- A rerun on unchanged docs is not always idle: if the wiki shows `main`, the first run
  pushes to `master` and prints "Published", and the next run clones `main`, finds it
  different and commits the same pages there. `NoPagesTwiceInARow` is about one branch.
- Its link rewriter takes a C++ lambda, `[x](y)`, for a link.

## 4. Proofs

All are for every value of the constants, under the `ASSUME`s of the modules.

**Queue** (`SpscQueueProofs`; `Capacity` any power of two from 2, any items, any
choice of throwing operations, any number of pushes). `NoDataRace` and
`FifoDelivery` are not inductive: they speak of what a thread is about to touch
and not of why it may. `Inv` adds the reason. `OrdersCount`: message n of an
index is n - 1 wrapped, so indices are counters. `ViewsSynchronised`: thanks to
release and acquire, what a thread has seen is what happens before it.
`ViewsBound`: by its own stale view the producer is less than a lap ahead, and
the consumer is behind the producer. `SlotsTouched` and `SlotsHoldQueue`: the
slots hold exactly the queue. From `Inv` and the lemma that two operations on one
slot are a whole lap apart (`WrapApart`) follow race freedom (`NoRaces`), the
verdicts (`ProducerExactAlways`, `ConsumerExactAlways`) and, if constructing a `T` does not
throw, FIFO order (`InOrder`). `Refinement` maps the queue to `BoundedFifo` by what is in
the slots between the two indices, or in `out` while `try_pop` holds the oldest item: for a
push it needs that the slot behind the queue has the item (`SlotsHoldQueue`), for a
write into a slot that it is none of the queue's (`WrapApart`), for a move that throws
that it touches the first slot only.
The two loops of `SpscHandoff` (the same module; any number of ticks, all of them items of which
no operation throws, as of the plain structs in the code: `TicksAreItems`) are clients of the queue (`HandoffIsQueue`), so all this holds of them.
They never both spin for ever (`LoopsNeverBothStuck`): of the indices that a thread may
load, the newest is always among them, and by the newest ones a ring that is full
is not empty. What has to be added to `Inv` is how far the loops are
(`LoopsInStep`): what is in the ring are the ticks pushed and not yet given out, so that if
the feed has ended and some tick is missing, the ring has it.

**Arena** (`ArenaProofs`; any storage, any requests with
`Base + Size + align + n <= Word`): `ArenaSafe`. The hypothesis is what the
overflow run violates. `BlocksInStorage` is what makes `BlocksDisjoint` inductive.
Three corollaries state the run's other properties one by one.

**Pool** (`ObjectPoolProofs`; any size): `TypeCorrect` also under double release,
`NoAliasNoLeak` as long as clients have released only what they held. The one step that needs
an argument is that a release of a held slot never finds the stack full: N
pointers to the other N - 1 slots would have two alike (pigeonhole).

**Ring** (`UringRingProofs`; any depth, any number of calls, either system call
failing or none): `LagCounted`, `OwnWhileInStep`, `DescriptorsAlwaysClosed`. The last
says that files are open during their calls only; it needs a step for each of the four
closes (`FileClosed`), and that a call in progress is the only one with a file. The
lag is a sum of three lengths, and `Submit`, however few entries it takes, keeps it only
because no operation is in the ring twice (`EntriesDistinct`, `Handover`), which holds
because identities count the calls (`CallsCounted`). That a call's own operation is somewhere in the ring
(`CurrentInRing`) then makes the last step: a ring that is not behind holds this
one operation, so the completion that `Harvest` takes can be no other
(`OwnCompletion`). `WaitsForSomething` cannot rest on the call's own operation, which
a short submit may have left queued: it is an invariant of its own, which holds because
each submit hands over at least one operation, and only the waiting call takes
completions away. `RingRefinement` maps the ring to `Replies`: the calls whose
operation is at any of its three places are those with an unread completion, so that
submitting and completing are stutters. That the operation `Harvest` takes is then
unread by nobody else needs `OnePlace`: at no two places are there operations of one
call. `Replies` lets a call give up only if system calls may fail, and lets it read any
unread completion; which one is `ForeignOnlyWhileLagging`'s matter.

**Histogram and recorders** (`LatencyCaptureProofs`; any number of buckets, width of
the word, samples, percentages, capacity of the buffer, range of the C histogram, and
any number of records and resets): every property of the run `hdr`. The histogram's own
are proved of its own specification and carried over to the measuring loop
(`LoopIsHistogram`). `HdrInv` ties each field to the bag: a bucket counts the samples
that belong there (`BucketsCount`), and the extremes of an empty window are those
that the first sample replaces (`Extremes`), which `FieldsAgree` leaves open and
`record` relies on. A percentile needs two facts. The running total of the scan is the
number of samples up to that bucket, because the sets of samples of different buckets
are disjoint (`SeenCounts`). And buckets follow the order of the samples
(`BucketMonotone`, from powers of two), so the scan stops at bucket i exactly if the
sample of that rank is in bucket i (`ScanFindsRank`). Monotony then comes down to ranks
(`TargetsMonotone`): the rank is the product of percentage and count rounded up, by
one more if a whole product may come out above itself in floating point; if that
happens to the lower percentage, the product of the higher one is above that whole
number, and its rank is at least as high. For the three recorders, `CountsInv` says which places the C histogram has
counted at: those of the window's samples that are in its range. Without it the
maxima could not be compared after a reset. The comparison also needs that the rounding
of `hdr_max` stays below the end of the range (`EquivalentRange`: the range ends at a
power of two, so it is a whole number of counters, by `Pow2Sum`): otherwise an
outlier could hide behind it. `SamplesWithinThird` is the arithmetic of a bucket
from 2^i to 2^(i+1) with its representative at one and a half times 2^i.

**Receiver and codecs** (`StubPollModeRxProofs`; any feed, slot of at least a tick, block
lengths, cuts and number of packets). `InOrderOnce` rests on `PollsBehindArrivals`: a
pending packet is newer than all that was polled. For what decoding returns the
invariant is `RxInv`: the slot starts with all of the latest packet under its length,
field by field and byte by byte (`SlotCarriesLatest`), whatever is left of earlier
packets behind it, and a view has the length of the packet it was made for
(`ViewOfPacket`). The setters are a fold over the fields; that
it leaves every field whole (`PutAllCarries`) is proved for any layout of disjoint
fields (`Laid`), and that the header, the tick and the packed tick are such layouts,
for each of them. `FreshVerdictIsExact`, `FreshFieldsAreExact` and `LateDecodeIsWhole`
follow from what a getter returns if all bytes of its field are there
(`GetCarried`).

**Wiki** (`WikiPublisherProofs`; any publishers, revisions and commits).
`OneHidden` rests on
`ClonesOnTop` and `BranchesOnTop`: a clone, and with it whatever branch it is
pushed to, is a part of the shown branch with at most one commit on top, so only the
last commit of the other branch can be hidden. `RerunsAreIdle` (`NoPagesTwiceInARow`) needs
that edits are new pages and that clones repeat no more than branches do
(`HistoriesSound`); then a push that is not refused, which makes a branch equal to a
clone, repeats none either. That no push takes a commit out of a branch (`BranchesGrow`)
is what git does, a lemma on which `PublishedStays` rests.

**Sums and folds** (`Arithmetic`). The sums, `PutAll` and `Pow2` are recursive, and the
provers cannot instantiate an induction theorem, which takes a predicate. They can
cite one about sets: `NatSetInduction` (a set of naturals with 0 that is closed under
successor has every natural, since its complement would have a least element),
`ChosenInduction` and `FiniteSetInduction`. With them a recursive function is shown to
exist (`FoldExists`, `DoublingExists`), which makes its defining equation a fact, and what the
proofs use of it follows: a sum does not depend on the order (`FoldInAnyOrder`), it
splits, grows and changes with one term (`SumSplit`, `SumMonotone`, `SumUpdate`).

**Only model-checked:** liveness (`EveryTickArrives`, `CallsReturn`), which is out
of the prover's reach; proved is what it rests on, that nobody is ever left without
anything to wait for (`SomebodyProceeds`, `NeverWaitsInVain`). That the mask is a remainder is checked by TLC for the
capacities used and assumed as the meaning of `Wrap` in the proofs.

## 5. Not modelled

- Third-party libraries and the programs that only call them; hardware clocks;
  placement and hints: no state of the repository's own.
- The pmr arenas: every operation forwards to a `std::pmr` resource. One thing in them is
  the repository's own: `PmrUnsyncPool::create` allocates and then constructs, and
  a constructor that throws leaves the memory to the pool until its release.
- `alloc_onnode`, `free_onnode`: one libnuma call each.
- The flyweights' interface beyond what the codec calls (rewind and skip, metadata,
  stream operators): generated, and nothing calls it.
- The wiki script's link rewriter: regular expressions from text to text.
- In the queue: a third thread, which the class comment excludes. In the ring: reuse of
  descriptor numbers and of buffers by an abandoned read. In the C histogram:
  quantiles, minimum and mean.

## 6. Plan

Done, most important first:

1. `SpscQueue` with its abstract specification and proofs; `SpscHandoff`.
2. `UringRing`, with proofs.
3. `Arena`, `ObjectPool`, with proofs; `HdrHistogram`.
4. `SbeTick`, `StubPollModeRx`: headers of other schemas, templates and block
   lengths, short destinations, the
   packed tick; proof of the order of polls.
5. `LatencyCapture`: what the three recorders count, drop and refuse.
6. `WikiPublisher`, with proofs; `NumaBind`.
7. Proofs about the histogram and the recorders next to it, and about decoding in a slot
   of any size.
8. What the ring promises its callers (`Replies`), refined by it, with proof.
9. What liveness rests on, proved: neither the queue's two loops nor a call of the ring
   ever waits for something that cannot come.

There is no abstract specification of the receiver. It would be a register whose
contents may be overwritten before they are read, and all it could promise is stated and
proved already: packets are polled once and in order (`PolledInOrderOnce`), and a
late view is one whole tick (`LateDecodeWhole`).

A pipeline of receiver, codec and queue is described in `docs/blueprint/02-network-ingress.md`, but
no code composes them, so that there is nothing to be faithful to.
