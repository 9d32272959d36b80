# atomic_queue in TLA+

A TLA+ model of max0x7ba/atomic_queue: the lock-free multiple-producer
multiple-consumer queues of `src/include/atomic_queue/`, the spin locks and the
mutex queue beside them, and the test and benchmark programs that run them.
Modules and configurations are for TLC; theorems are checked by TLAPS.
`PROJECT.json` lists components, runs, mutants, hazards, findings and theorems,
and maps every definition to the source lines it stands for.

## 1. The system

| Component | State | Operations |
|---|---|---|
| `AtomicQueueCommon` (atomic_queue.h) | `head_`, `tail_`: two atomic `unsigned` counters that only count on, and wrap | first half of `try_push`, `try_pop`, `push`, `pop`: claim an index; `was_size`, `was_empty`, `was_full` |
| `AtomicQueue`, `AtomicQueueB` | `elements_`: an atomic per slot, NIL = free | `do_push`, `do_pop` on the slot of the claimed index |
| `AtomicQueue2`, `AtomicQueueB2` | `states_` (EMPTY, STORING, STORED, LOADING) and non-atomic `elements_` | `do_push`, `do_pop` under the slot's state |
| Slots and sizes | none (template arithmetic) | `remap`, `GetIndexShuffleBits`, `round_up_to_power_of_2` |
| B queues' lifecycle | pointers, `size_` | constructors, move, swap, destructors |
| `RetryDecorator` | none | `push`, `pop` by repeating `try_push`, `try_pop` |
| Spin locks (spinlock.h) | `lock_`; `ticket_`, `next_` | `lock`, `unlock`, scoped locks |
| `AtomicQueueMutexT` | plain `head_`, `tail_`, `elements_`, a mutex | `try_push`, `try_pop`, `was_empty`, `was_full` |
| Barriers (barrier.h) | a counter | `wait`, `release`, `countdown` |
| Stress test, throughput benchmark | threads, checksums, stop messages | producers, consumers, joins |
| Ping-pong benchmark | two queues, each side's `n` | sender, receiver |
| CPU topology and affinity | `default_thread_affinity`, the CPUs to use | selection of CPUs, `pthread_create` |
| `HugePages`, `HugePageAllocator` | `cur_` between `beg_` and `end_` | mapping with a fallback to smaller pages, `allocate`, `deallocate` of the last allocation only, `create_unique_ptr`, `destroy` |
| Adapters of other queues, build, charts | -- | support code |

**How they interact.** Threads share nothing but a queue. A derived queue inherits
the counters (CRTP): a call first claims an index from `head_` (push) or `tail_`
(pop), then works on slot `remap(index)` alone. All communication between
producers and consumers is through slots; the counters are only read across in
`try_push`, `try_pop` and the `was_` functions. The mutex queue takes a lock of
`spinlock.h` in every operation and needs `RetryDecorator` to wait. The programs
start threads, gather them at a barrier, and tell consumers to return by stop
messages in the queue itself. `main` of the benchmarks chooses the CPUs, and a
replaced `pthread_create` pins each new thread to the CPU that a global variable
names; queues and shared state of each measurement live in `HugePages`.

**What is hard.**
- A claim and the access of its slot are two steps. In between the other threads
  may claim round the whole ring, so that *two producers (or two consumers) hold
  the same slot* ("lapped" in these modules).
- `try_push` and `try_pop` load the two counters at different times, and their
  compare-exchange may fail after the check.
- The counters wrap at 2^32; differences are read as signed.
- `AtomicQueue2` protects plain memory with a state; SPSC mode drops the
  read-modify-writes and the intermediate states.
- The counters are accessed with relaxed order: a load may return an old value.
- A thread preempted inside a call delays others; the README says exactly whom.
- A consumer that returns too early, or one stop message too few, hangs a program.

**What makes each part correct.** Claims: a try_ call refuses only at the limit.
Atomic and non-atomic queues: no message lost, duplicated or invented (a
*channel*); no two threads on one plain element; order of delivery as far as the
code gives it; everybody proceeds. Slots: a bijection on each `size_`
consecutive indices; neighbours on different cache lines. Locks: mutual
exclusion; no starvation by tickets. Mutex queue: a bounded FIFO queue.
Programs: all threads return and everything has been received once. Queue
objects: their messages follow them through moves and swaps, and each block of
memory is deallocated once, as it was allocated. Observers: `was_empty` and
`was_full` ought to report what was the case during the call. Benchmarks: each
thread on a CPU of its own.

## 2. Modules

| Module | Models | Used by |
|---|---|---|
| `Unsigned` | `unsigned` arithmetic modulo `Modulus`, `as_signed` | all |
| `AtomicQueueCommon` | counters; claiming an index | next two |
| `AtomicQueue` | `AtomicQueue`, `AtomicQueueB`; `do_push`, `do_pop` on atomic elements | `QueueOrder`, `Preemption`, `QueueObserver`, `Harness` |
| `AtomicQueue2` | `AtomicQueue2`, `AtomicQueueB2`; `do_push`, `do_pop` on states and elements | |
| `Channel` | abstract: messages in transit, no order | refined by both queues |
| `Fifo` | abstract: bounded FIFO queue | refined in SPSC mode and by `MutexQueue` |
| `QueueOrder` | history: the index each message was pushed with; whether threads were lapped | `Preemption` |
| `Preemption` | one thread may stop for good anywhere | |
| `QueueObserver` | `was_size`, `was_empty`, `was_full` beside other threads | |
| `IndexRemap`, `IndexBits` | remapping, its number of bits, rounding of sizes; for all sizes in range, as a counter wraps | `MC*` use `Remap` for their slot tables |
| `QueueObjects` | special member functions of `AtomicQueueB`, `AtomicQueueB2`: construction, move, swap, destruction, with pushes and pops in between | |
| `Heap` | `HugePages` with its pages, and standard allocators that are not equal | `QueueObjects` |
| `Containers` | abstract: queues as values that moves and swaps pass on | refined by `QueueObjects` |
| `SpinLocks` | `Spinlock`, `TicketSpinlock`, `UnfairSpinlock` | `MutexQueue` |
| `MutexQueue` | `AtomicQueueMutexT` under each of them | |
| `Harness` | what the threads of the stress test and of the throughput benchmark do; `Barrier2` | `Benchmarks` |
| `PingPong` | the two threads of the ping-pong and the queues between them | `Benchmarks` |
| `CpuTopology` | which CPUs of a machine the benchmarks use | `Benchmarks` |
| `Benchmarks` | both programs as a whole: `main`, the order of the benchmarks, creation, pinning and joins of threads | |
| `MC*` | a slot table for TLC | |
| `RingProofs` | lemmas: words, slots of consecutive indices, the program's slot mappings | all modules below |
| `AtomicQueueCommonProofs` | lemmas: claims, the ends of a queue in SPSC mode, each slot's account of pushes and pops, its indices in order | next two |
| `AtomicQueueProofs`, `AtomicQueue2Proofs` | theorems about both queues, and `QueueOrder` | `BenchmarksProofs` |
| `MutexQueueProofs` | theorems about the spin locks and `MutexQueue` | |
| `BenchmarksProofs` | theorems about the programs | |
| `QueueObjectsProofs` | theorems about objects, memory and its owners, and what the objects hold | |
| `IndexBitsProofs` | theorems about sizes and slots; lemmas about words as bits | |

### State and actions

One action is one access of shared memory together with what is local to the
thread, so every interleaving of the code's atomic operations is there. `pc[t]`
says which access comes next and `index[t]` is the local variable with the claimed
or loaded counter:

| `pc` | next access |
|---|---|
| `idle` | load (`try_`) or `fetch_add` of the thread's own counter |
| `check` | load of the other counter: refuse or go on |
| `claim` | compare-exchange of the own counter (SPSC: plain store) |
| `push`, `pop` | wait for the slot: in MPMC mode the compare-exchange or exchange that succeeds |
| `store`, `clear` | SPSC: plain store to the slot |
| `assign`, `publish`, `move`, `free` | `AtomicQueue2`: plain access of the element, then the store of the state |

A compare-exchange or an exchange that fails on a slot changes nothing, so it is a
stutter, and so are the `spin_loop_pause` and the reloading loops under
`MAXIMIZE_THROUGHPUT`. A failing compare-exchange of a counter is not: it reloads.

`pushed` and `popped` are history: `pushed[p]` counts completed pushes of `p`,
whose messages are `<<p, 1>>, <<p, 2>>, ...`; `popped[m]` counts how often a pop
has returned `m`. `Start` puts the counters anywhere: a queue in use has counters
of any value. A moved-from element is arbitrary: the old value or another.

`QueueObjects` is sequential, as the source says of special member functions: one
action is one whole member function, which may fail half way (`ConstructThrows`).
Memory is an array of cells, so that a pointer kept or forgotten, or a slot not
reset, shows as what the next owner of the cell reads. A pop of an `AtomicQueueB`
leaves NIL in the slot; a pop of an `AtomicQueueB2` leaves what a move leaves of a `T`:
blank for the elements in `Emptied` and the old value for the others. `MutexQueue` splits each
critical section into its accesses, so that two threads inside would show.

`Benchmarks` composes `Harness` over an `AtomicQueue`, `PingPong` and `CpuTopology`.
Its variable `plan` holds what `main` has still to do; the first element is under
way. The ping-pong's queues are the bounded FIFO queues that the SPSC runs show the
real ones to refine, so that its two threads can be run with both kinds of queue:
`reserved` is the set of numbers the kind cannot carry, `{0}` for `AtomicQueue`,
whose `NIL` it is. A machine (`CpuTopology`) is refused, as in the code, when the C++
library counts other CPUs than `/proc/cpuinfo` lists (`CountsDiffer`), when the
affinity mask has other bits set than there are positions kept (`PositionsMissing`),
and by `main` when fewer than two CPUs are left (`TooFewCpus`).

`IndexRemap!Swapped` is arithmetic: it says what the remapping is for, and the other
modules use it for their slots. The code has three implementations, one of which
is compiled in. `IndexBits` has each with its own shifts, masks and instructions:
`RemapXor`, `RemapAnd`, and `RemapBmi` with `bextr` and, for BMI2, `bzhi`, whose
operand `count2` packs both fields. `RemapsAgree` compares them all with `Swapped`.

### Memory orders

In the code, slot accesses are acquire/release pairs on one location, and a message
travels through that location only, so an interleaving of slot accesses is exact.
Counters are accessed `memory_order_relaxed` or `seq_cst` (template and macro
dependent). Claims are read-modify-writes of one location: they find its last value
and are totally ordered. A relaxed *load* may return an older value, of the other
side's counter in `try_push`, `try_pop` and the `was_` functions, and in MPMC mode
of a thread's own side's counter at the start of a call. `Recent(counter)` is the
set of the last `Lag + 1` values and each such load chooses among them. An SPSC
thread is the only writer of its own counter and reads what it wrote (`Own`). A
late load of the own counter costs a failed compare-exchange, a late load of the other one a
refusal, and neither ever admits too much: `TryWithinLimit`.

## 3. Runs

The longest run takes less than two minutes with two workers. The bounds aim at the cases that
matter: `Start` lies just below the wrap, so that all runs count through
`Modulus - 1 -> 0` in mid-use; there are more calls than slots, so that the ring
goes round, and queues get full and empty; and with two slots and two threads on
each side, threads are lapped.

| Run | Instance | Shows |
|---|---|---|
| `atomic_mpmc` | 2 producers x 3 messages, 2 consumers, 2 slots, loads up to 1 value late | `AtomicQueue` is a channel; a try_ call never claims beyond the limit, and is refused only as near to it as its loads are late; waits only at the limit; all delivered |
| `atomic_spsc` | 1 x 7, 1 consumer, 4 shuffled slots, late loads | SPSC mode is a bounded FIFO queue |
| `states_mpmc` | 2 x 2, 2 consumers, 2 slots, late loads | `AtomicQueue2`: no data race, also when lapped; channel; waits only at the limit; all delivered |
| `states_spsc` | 1 x 7, 1 consumer, 4 shuffled slots, late loads | the same without STORING and LOADING; bounded FIFO queue |
| `preemption` | 2 x 3, 2 consumers, 2 slots; one thread, a producer or a consumer, may stop | a stopped push holds back one consumer at most, a stopped pop one producer; unless threads are lapped, messages are delivered in the order of the claims, and overtake each other only in the hands of different consumers |
| `index_bits` | words of 6 bits (`WordBits`), all sizes, 1-4 elements a line | rounding up to half the words; sizes below that are honoured and larger ones are not; bijection, distinct cache lines; `RemapXor`, `RemapAnd` and both forms of `RemapBmi` compute the same slot |
| `mutex_queue` | 2 x 2, 1 consumer, 1 observer, 2 slots, the three locks | mutual exclusion, bounded FIFO queue, no starvation with tickets |
| `benchmarks` | main, 1 producer, 2 consumers, 3 messages each, 2 slots; 5 or 6 messages of ping-pong; a machine with 4 of 6 CPUs allowed, three with CPUs offline, below or above the allowed ones, and two refused for their counts; three choices of benchmarks | everything received exactly once; one ping-pong message at a time; a CPU for each thread, outside the affinity mask just where a CPU below it is offline; both programs end, and exactly the ping-pong of an odd number of messages through `AtomicQueue` does not |
| `queue_objects` | 2 objects, sizes 4 and 8, 2 allocators or HugePages with three page sizes, 5 pushes, of which 2 elements are blank once moved from, 26 cells of memory | messages follow an object through moves and swaps; every block deallocated once, as it was allocated; HugePages never aborts, ends empty and has what was asked for; slots of a new queue are ready; a moved-from object takes no push |
| `total_order` | finding | see section 5 |
| `wrap_size3` | finding | see section 5 |
| `observer` | finding | see section 5 |

*Why the bounds are enough.* The queue's behaviour depends on the distance of
counters, on which threads hold a common slot, and on the wrap. Two slots are the
fewest with which a slot can be held by two threads of a side while another slot
lies between; two threads a side give every pairing of claim, lap, failed
compare-exchange and refusal. `Modulus` is at least four times the number of
outstanding indices, as in the program, and in the passing runs of the queues no counter comes all
the way round: an index is never reused during a call, which in the program would take
2^32 calls of others during one. Section 5 says what happens then. `queue_objects` has sizes 4
and 8 with one bit shuffled, the least sizes a B queue can have (2 elements a cache
line); theorems cover the others. It has
two objects because each member function takes one or two, two sizes and two
allocators so that a member left behind shows, and memory for two queues of
different size, used again at once by the next constructor. The SPSC runs have four slots with one bit shuffled,
the smallest ring that is shuffled at all. `Lag` is 1 in the runs of the queues: one
value late is enough for every failed compare-exchange and refusal, and more only
repeats them; the runs that build on `AtomicQueue` have 0 to stay small. In
`benchmarks` the throughput part needs four CPUs, which leave two ping-pongs (the
receiver on the second, then on the third); with the CPU offline there are three,
too few for the throughput part, as in the program. For every size and any number of
threads, section 4.

**Fairness.** Weak fairness of each thread: the scheduler runs every thread, and a
thread's next access is possible when its slot or lock lets it. Producers push
all their messages; consumers call `pop` or `try_pop` again and again. This is what
`tests.cc` and `benchmarks.cc` do. Nothing is assumed of compare-exchanges: a
thread may lose every race, and a pending one is enabled only while it is lost or
won (`ClaimHead`, `ReloadHead`). `Visibility` says that a store becomes visible in
finite time, as the C++ standard asks: from some time on no call is refused because
of an old value, or else a consumer might see an empty queue for ever. `TicketHoldersDeliver` is claimed of the ticket
lock only, as weak fairness does not keep a spin lock from starving a thread.
`Preemption` has fairness for all threads but the one that may stop; `MayStall` offers
one producer and one consumer, as threads of a side are alike.

Deadlock checking is off where the system may stop: producers finish, and an SPSC
or MPMC consumer may wait for a message for ever. `AllDelivered`, `EndsUnlessZero` and
the wait properties say when it must not. In `index_bits` it is on.

## 4. Theorems

For any sets of threads and objects, any number of slots and messages, any even
`Modulus`, both modes, and both counters starting anywhere:

| Theorem | Says | Needs |
|---|---|---|
| `AtomicQueueProofs!TypeCorrect`, `AtomicQueue2Proofs!TypeCorrect` | `Spec => []TypeOK` | |
| `QueueIsChannel` of both | `Spec => ImplementsChannel` | |
| `AtomicQueue2Proofs!DataRaceFree` | `Spec => []NoDataRace` | |
| `SpscQueueIsFifo` of both | `Spec => ImplementsFifo` | `Spsc`, apart |
| `PushNeedNotWait` of both | `Spec => []PushWaitsOnlyWhenFull` | few threads, apart |
| `PopNeedNotWait` of both | `Spec => []PopWaitsOnlyWhenEmpty` | few threads |
| `RefusedOnlyAtTheLimit` of both | `Spec => RefusedOnlyAtLimit` | few threads, few messages |
| `TryStaysWithinLimit` of both | `Spec => TryWithinLimit` | few threads, few messages |
| `AtomicQueueProofs!PopsReturnInTurn` | `OrderSpec => OwnTurnUnlessLapped` | apart |
| `AtomicQueueProofs!OvertakenInHandsOnly` | `OrderSpec => []InOrderUnlessLapped` | few threads, few messages, apart |
| `AtomicQueueProofs!SingleConsumerInOrder` | `OrderSpec => [](~lapped => TotalOrder)` | the same, and one consumer |
| `RingProofs!ShuffledApart` | the program's slots are apart, shuffled or not | size divides the words |
| `RingProofs!ApartOnlyForDivisors` | slots `index % size` are apart just when the size divides the words | |
| `MutexQueueProofs!MutexExcludes` | `Spec => []MutualExclusion` | |
| `MutexQueueProofs!QueueIsFifo` | `Spec => ImplementsFifo` | apart |
| `BenchmarksProofs!ProgramsUseQueue` | `BenchmarksSpec => Spec` | |
| `BenchmarksProofs!PingPongTakesTurns` | `BenchmarksSpec => []OneMessageInTurn` | |
| `BenchmarksProofs!ProgramsReceiveAll` | `BenchmarksSpec /\ Paired => []ReceivedExactlyOnce` | few threads |
| `BenchmarksProofs!ThreadsHaveOwnCpus` | `BenchmarksSpec /\ Paired => []ThreadsApart` | |
| `BenchmarksProofs!MaskKeptUnlessGaps` | `BenchmarksSpec /\ Paired => []AllowedCpusUnlessGaps` | |
| `BenchmarksProofs!ZeroNeverArrives` | `BenchmarksSpec => (ReachesZero => []~Ended)`, the first half of `EndsUnlessZero` | |
| `QueueObjectsProofs!MovedFromHasNoRoom` | `Spec => []MovedFromRefuses` | constructed sizes |
| `QueueObjectsProofs!OneOwner` | `Spec => []BlocksHaveOneOwner` | constructed sizes |
| `QueueObjectsProofs!PagesUnwound` | `Spec => []HugePagesUnwound` | constructed sizes |
| `QueueObjectsProofs!FreeSlotsStayReady` | `Spec => []FreeSlotsAreReady` | constructed sizes, which divide the words |
| `QueueObjectsProofs!ObjectsAreContainers` | `Spec => ImplementsContainers` | constructed sizes, which divide the words |
| `IndexBitsProofs!RoundsUpToPowersOf2` | `Spec => []RoundedToNextPower` | up to 32 bits |
| `IndexBitsProofs!OnlySmallSizesHonoured` | `Spec => []SizesHonouredBelowHalf` | up to 32 bits |
| `IndexBitsProofs!IndicesTakeAllSlots` | `Spec => []ConsecutiveIndicesTakeAllSlots` | up to 32 bits |
| `IndexBitsProofs!NeighboursOnDistinctLines` | `Spec => []ConsecutiveIndicesOnDistinctLines` | up to 32 bits |
| `IndexBitsProofs!AllRemapsAgree` | `Spec => []RemapsAgree` | up to 32 bits |

### Assumptions

Those of the modules: producers and consumers are disjoint; NIL (or the blank
element) is no message, which the code asserts; an SPSC queue has at most one of
each; `Slot` maps words to slots; a ticket lock has at most as many threads as
tickets; CPUs are numbered and `main` runs ping-pongs before it measures throughput.
And those that theorems state, all of which the passing runs satisfy:

- *apart*, `ApartInWindows(Slot, Size)`: `Size` consecutive indices have slots of
  their own, wherever they start. `ShuffledApart` proves it of the program's mapping
  for sizes that divide the number of words, which all powers of 2 do, and
  `ApartOnlyForDivisors` that no other size satisfies it, such as that of the
  `wrap_size3` finding. The MC modules have TLC check it of their tables. Where it is not asked for, a bad mapping does no harm: it costs
  order and progress, never a message, and `QueueIsChannel` covers those sizes.
- *few threads*, `FewThreads`: `2 * (producers + consumers + Size) < Modulus`. The
  difference of the counters is read as a signed word: it must not reach half the
  words. 2^31 less the capacity is more threads than any system starts.
- *few messages*, `FewMessages`: no counter comes all the way round. A
  compare-exchange cannot tell a counter that has not moved from one that has come
  back to its old value (ABA), with 2^32 claims between a thread's load and its
  compare-exchange; then a `try_` call may claim beyond the limit, as section 5
  says. The bound on messages excludes just this, and `atomic_mpmc` satisfies it. The order of
  delivery needs it because indices of different rounds of the counter cannot be compared.
- *constructed sizes*, `SizesAssumption` of `QueueObjects`: sizes are powers of 2 from
  `2^(2 * ShuffleBits)` to `2^31`, and 1 to 8 bits are shuffled. These are all sizes that
  the constructors of `AtomicQueueB` and `AtomicQueueB2` make: they round up to a power of
  2 that `unsigned` has, and not below `1u << (2 * SHUFFLE_BITS)` (atomic_queue.h:606, 712);
  `GetCacheLineIndexBits` knows 2 to 2^8 elements a line, and `AtomicQueueB2`, with 64
  states a line, shuffles 6 bits and has at least 4096 slots.
- *sizes divide the words*, `SizesDivide`: so they do when `Modulus` is 2^32. It is a
  premise because these theorems leave the width of the counters open.
- `Paired`: the throughput benchmark starts as many consumers as producers.
- `ThreadsHaveOwnCpus` and `MaskKeptUnlessGaps` ask for finitely many threads.
- *up to 32 bits*, `WordBitsAssumption`: in `IndexBits` the number of words is
  `2^WordBits` with `WordBits` at most 32, as `round_up_to_power_of_2(uint32_t)` folds
  the bits five times. The prover knows powers only as numbers, so that the lemmas
  about them (`PowerStep`) list those up to `2^32`.

### The arguments

Claiming an index touches no slot, so its ten actions are handled once, in
`AtomicQueueCommonProofs`, for both queues.

- **Type correctness** is not inductive as it stands: after a push, `pushed[p] + 1`
  must still be a message. `Typed` adds `Unfinished`: a producer inside a call has
  messages left.
- **AtomicQueue is a channel.** What must not happen is that a slot holds the same
  message as another, or a message not yet pushed: then a push or a pop would not
  change the set of stored messages as `Send` and `Receive` do. The invariant says
  that every stored message has been pushed, that no two slots hold the same, and,
  for SPSC mode, that the slot the only producer has seen free is still NIL, and
  that the message in the hand of the only consumer is still in its slot
  (`SlotUntouched`): between the load and the plain store nobody else may come. The
  last needs the SPSC assumption of one thread per side.
- **AtomicQueue2 has no data race.** `LockInv`: a thread between its acquire and its
  release has its slot in the state it set (`Locked`), and no two such threads of
  one side share a slot (`LockedByOne`). A second acquire would need EMPTY or
  STORED. In SPSC mode EMPTY belongs to the producer and STORED to the consumer.
- **AtomicQueue2 is a channel.** The message in a slot is read off the slot state,
  the element and the hands of consumers: `Content`. `Located` says where a message
  that has been pushed and not popped can be, and that it is in one place only.
- **SPSC queues are FIFO.** The queue's ends are not the counters: a claimed index
  whose slot has not been written is not yet in the queue. `PushEnd` and `PopEnd` are
  the counters less the index in use, and `Ring` says that exactly the slots from
  `PopEnd` to `PushEnd` hold messages. A store at `PushEnd` finds a free slot only if
  fewer than `Size` are taken, because the mapping keeps them apart.
- **Who waits, waits for something.** `BalanceInv`: in each slot, the indices claimed
  for pushes less those claimed for pops equal its message plus the pushes under way
  less the pops under way there. When the calls of one side are all done, the counters
  thus decide which slots hold messages. Few threads keep the difference of the
  counters in the range where it is read correctly.
- **Limits of try calls.** `ClaimInv` adds `LimitInv`: `head_` has moved by as many
  words as there are numbered messages, an index that a call has loaded is not ahead of
  its counter, and a thread at its compare-exchange has seen room, or a message, at that
  index. If the compare-exchange succeeds, nobody has claimed since the load.
- **Order.** `InTurn`: each slot has one index in turn. Its pop is next there, and its
  push, too, unless its message is already in the slot, in which case the next push
  there has the index `Size` further on. While nobody is lapped, at most one thread
  of each side is at a slot, so a pop finds the message of its own index.
  `TurnsInv`: each index is the turn of one message at most, and the turns of each
  producer's messages follow each other. `DeliveryInv`: while nobody is lapped, what has
  been popped is the messages of all indices before `tail_` but those that consumers
  hold. With one consumer, that is the index just before `tail_` at most, so nothing
  overtakes. This covers `Preemption`, whose steps are those of `OrderSpec`.
- **Mutual exclusion.** The test-and-set locks: the flag is set while a thread is
  inside. `TicketsInLine`: the tickets in use are different and are those from `next_`
  up to `ticket_`, as many as there are threads in line, and who is inside has `next_`.
- **The mutex queue is FIFO.** The slots from `tail_` to `head_` are the queue, but for
  a message already moved out whose consumer has yet to advance `tail_`: it counts as
  being in that consumer's hand. By the lock's theorem only one thread is inside, so
  what it found out about the counters (`CountersHeld`) still holds when it acts on it.
- **The programs.** `TurnInv`: the ping-pong's message is in one hand or in one queue,
  and each thread's place in its loop says which. `ProgramsReceiveAll`: at the end
  a consumer that popped its stop message might leave other messages behind.
  `LastInv` follows the slot of the index claimed last: it is free, or about to be
  written, or holds the last message its producer has pushed, which at the end is a stop
  message. `StopsInv`: each consumer that is done has popped a stop message of its own.
  As there are as many stop messages as consumers, that slot is free at the end, and by
  `BalanceInv` all are. Because the programs refine the queue (`ProgramsUseQueue`), its
  invariants hold in them.
- **A ping-pong that never ends.** `OddAndEven`: with an odd number of messages, the
  numbers on their way to the receiver are odd and those on their way back even, so
  the countdown ends with the receiver's 0. `ZeroInv` adds that the ping-pong of
  `AtomicQueue` stays in the plan: main gets past it only once the sender is done.
- **CPUs.** `CpusDiffer`: whatever the positions that are kept, sorting gives different
  CPUs, and position and number agree where none is offline below (`PositionsOfCpus`). Where one
  is, and as many positions are kept as there are allowed CPUs, the one at the position of
  the greatest allowed CPU is beyond all of them (`GapsLeaveMask`). `PlacesInv`: the `n` threads
  that exist are on the first `n` of them and the receiver of a ping-pong is on another.
  `PlacementInv` says which threads exist, so that the next one is always a new one.
- **Sizes and slots.** `IndexBits` takes a word as the set of its one bits, so that
  `|`, `&` and `^` are operators on sets. `BitsOfWords`: each set of bits is one word,
  since two different words differ in a highest bit (`SameBits`). Rounding:
  `Filled` says that from the highest one bit downwards the first 2, 4, 8, 16 and, after
  the last step, 32 bits are one, and `BitsOfMask` that a word all of whose bits up
  to the highest are one is one less than a power of 2. Remapping: a word is written with two digits of
  `n` bits (`Consists`); exclusive or of both digits, applied to each of them, leaves the
  other (`XorSwaps`), and so does taking each digit out with a mask, `bextr` or `bzhi`,
  and putting it in the other's place (`SwapsBits`). `ShuffledSizes`: wherever bits are shuffled, the size is a power of
  2 with room for both digits, so `ShuffledApart` applies, and the slots of neighbours
  have different lowest line digits (`LineOfSlot`).
- **Objects.** `ShapeInv` types the objects and bounds their counters. `OwnersInv`: a
  block is live just when one object owns it or a constructor that threw has lost it.
  `StackInv`: objects in scope occupy the pages back to back in the order of their
  construction, so that the reverse order of destruction frees from the top.
- **What objects hold.** `ContentsInv`: each queue has cells of its own, and its slots
  from `head_` to a round after `tail_` are free. As sizes divide the words, a slot
  freed by a pop is the one the push one round later comes to, across the wrap of the
  counter, too.

TLC checked the inductive invariants, or what follows from them, on the instances above
before they were proved.

### Model-checked only

- Liveness (`AllDelivered`, the second half of `EndsUnlessZero`, `TicketHoldersDeliver`, and of
  `Preemption` `StalledPushAffectsOneConsumer` and `StalledPopAffectsOneProducer`):
  the prover does not reason about fairness and ENABLED.
- Everything else that a passing run checks has a theorem.

## 5. Findings

1. **The totally ordered mode is not ordered when threads are lapped**
   (`total_order`). README.md:173 promises the FIFO order in which messages were
   posted, README.md:234 one producer and one consumer per slot. Two producers that
   hold indices `i` and `i + size` compete for one slot in `do_push`
   (atomic_queue.h:335), and the later may win: the single consumer receives the
   messages of one producer in the wrong order. `SingleConsumerInOrder` proves that
   being lapped is the *only* way to lose the order. More slots than threads do not
   exclude it: a thread delayed between its claim and its slot is lapped when the
   others claim a whole round.
2. **Sizes that are not powers of 2 break when the counter wraps** (`wrap_size3`).
   With `MINIMIZE_CONTENTION = false` the size is not rounded and the slot is
   `index % size` (atomic_queue.h:141). 2^32 is no multiple of such a size, so at
   the wrap two consecutive indices share a slot and another is skipped: a push waits
   on an occupied slot while others are free, against README.md:191. No size that
   does not divide 2^32 is safe from it (`ApartOnlyForDivisors`).
3. **`was_empty` and `was_full` may report what never was** (`observer`). `was_size`
   subtracts two counters loaded one after the other (atomic_queue.h:467); C++ does
   not say which first. Head first, and a push and a pop in between: `was_empty` is
   true of a queue that held a message all the time. Tail first, and pops and pushes
   in between: `was_full` is true of a queue that always had a free slot.
   README.md:194 and 195 say "was empty [full] during the call".

Read in the code, and not the subject of a run:
- `TicketSpinlock::unlock()` without an argument passes `next_ + 1` to
  `unlock(ticket)`, which adds one again: it would skip a ticket and hang the next
  thread. Scoped locks, the only users, pass their own ticket. The mutant
  `NextOfUnlock` shows what it would do to them.
- `UnfairSpinlock` deletes its copy constructor and declares no default one, so it
  cannot be constructed as written; nothing in the repository constructs it. It is in
  `SpinLocks` all the same, as the code has it, but no hazard is claimed of it.
- README.md:227 allows queues of up to 4,294,967,295 elements. From 2^31 on, `as_signed(size_)` in
  `try_push` (atomic_queue.h:402) is negative and an empty queue is refused as full, and
  `round_up_to_power_of_2` of a size above 2^31 is 0, so that a B queue silently gets
  its least size (atomic_queue.h:606). `SizesHonouredBelowHalf`, a checked property, says
  that exactly the sizes below work.
- `try_push` checks the capacity against the `head_` it has loaded, and the
  compare-exchange (atomic_queue.h:404) is to fail if `head_` has moved since. A thread that
  is delayed between the two while others push exactly 2^32 times finds its old value
  again, succeeds whatever room there is by then, and waits in `do_push` although
  README.md:189 promises that `try_push` returns `false` when the queue is full. No message is lost even so
  (`QueueIsChannel`), and nothing less than a whole turn of the counter does it
  (`TryStaysWithinLimit`). `atomic_mpmc.cfg` with one consumer, `Modulus` and `MaxPush` 16
  and `Lag` and `Start` 0 has TLC find `TryWithinLimit` violated in this way.
- A moved-from `AtomicQueueB` keeps its counters. `try_push` finds no room in it, as
  its size is 0 (`MovedFromRefuses`), but if it held messages, `was_empty()` is false
  and `try_pop` goes through a null pointer.
- When the second allocation in the constructor of `AtomicQueueB2` throws, the first
  block is never deallocated: `lost` in `QueueObjects`.
- The ping-pong benchmark pushes 0, the NIL of `AtomicQueue`, when the number of
  messages (environment variable `AQN`) is odd: the assertion in `do_push` fails, or
  without assertions the sender waits for ever and the benchmarks never end:
  `ZeroNeverArrives` proves it of every odd number, and `EndsUnlessZero`, a checked
  property, says that this is the only case.
- `get_available_cpu_topology_info` keeps the CPUs whose *position* in the sorted list
  is in the affinity mask, not those whose number is (cpu_base_frequency.cc:102). With
  CPU 1 of 0 to 4 offline and CPUs 0, 2 and 3 allowed it keeps 0, 3 and 4: the counts match, and a
  thread is pinned to CPU 4, where README.md:159 says of `taskset --cpu-list 0,1,14,15`
  "Use only cpus [0,1,14,15]". With other masks the counts do not match and the
  benchmarks throw. `AllowedCpusUnlessGaps`, a checked property, says that of the
  machines that are not refused, it happens on exactly those with a CPU offline below an
  allowed one.
- `AtomicQueueMutexT` with a size that is no power of 2 overwrites a message when
  its counter wraps, for the reason of finding 2.

## 6. Not modelled, and why

- *Move and swap of `HugePages` (unused), its warnings, alignment of its blocks*.
- *Parsing of `/proc/cpuinfo` and of the environment, base frequency*: text processing.
- *Time measurement and reports of the benchmarks*: output.
- *`Barrier`*: no program of the repository uses it; only `Barrier2` is modelled.
- *Adapters* of boost, moodycamel, TBB and xenium: other projects' code.
- *Build files, scripts, charts, results*: no behaviour to check.
- *Reordering of one thread's accesses* beyond late loads of the counters: a thread's
  slot access depends on the index it has claimed, and so comes after the claim.
- *Exceptions of element copies*: README.md excludes them. A constructor whose second
  allocation throws is in `QueueObjects`.
- *`try_pop` on a moved-from queue*: see section 5.

## 7. Plan

Order of work: core queues first, then what surrounds them, then proofs.

1. Done: `Unsigned`, `AtomicQueueCommon` with late loads, `AtomicQueue`,
   `AtomicQueue2`, `Channel`, `Fifo`, `QueueOrder`, `Preemption`, `IndexRemap`,
   `IndexBits`, `SpinLocks`, `MutexQueue`, `Harness`, `QueueObserver`, `Heap`,
   `QueueObjects`, `Containers`, `PingPong`, `CpuTopology`, `Benchmarks`, and the
   theorems of section 4.
2. Done: theorems for every invariant and every safety property that a passing run
   checks; liveness stays with TLC (section 4).
3. Model next: `MutexQueue` with sizes that do not divide the words; `Barrier`.
