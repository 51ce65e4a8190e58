# Verification of lock-free-data-structures

TLA+ specifications of the concurrent containers and locks of this repository,
TLC configurations that check them on small instances, and TLAPS proofs of their
main safety properties for instances of every size. Paths such as
`queue/bounded_sp_sc_queue.h` are relative to the root of the repository.

## 1. The system

A header-only C++20 library. Nothing is persisted and nothing is sent over a
network: the hard part is threads that share memory.

| Component | State | Operations | Interacts with |
| --- | --- | --- | --- |
| `BoundedSPSCQueue` (`queue/bounded_sp_sc_queue.h`) | ring `buffer_`, atomic `head_`, `tail_`, each thread's cached copy of the other's index | producer: `Emplace`, `Enqueue`; consumer: `Front`, `Dequeue()`, `Dequeue(T&)` | `HugePageAllocator` for heap buffers |
| `BatchedBoundedSPSCQueue` (`queue/batched_bounded_sp_sc_queue.h`) | the same, over slots that are small queues | the same | |
| `BoundedMPMCQueue` (`queue/bounded_mp_mc_queue.h`) | ticket counters `head_`, `tail_`; per slot a generation and storage | `Emplace`, `TryEmplace`, `Dequeue`, `TryDequeue`, the destructor | |
| `BoundedMulticastQueue` (`queue/bounded_multicast_queue.h`) | ring of messages, each under a `SeqLock`; the writer's `tail_`; each reader's `head_`, `expected_seq_` | `Write`, `Read`, `TryRead`, `UpdateIndexes`, copies of readers | `SeqLock`, `atomic_memcpy` |
| `SeqLock`, `SeqLockAtomic` (`lock/seq_lock.h`) | counter `seq_`, the value | `Lock`, `Unlock`, `Load`, `Store` | `atomic_memcpy` |
| `atomic_memcpy` (`utils/atomic_memcpy.h`) | none | copies in relaxed accesses of a word or a byte | |
| `SpinLock`, `Lock` (`lock/spin_lock.h`, `lock/lock.h`) | flag `locked_` | `Lock`, `TryLock`, `Unlock`, behind `lock` and `unlock` of the base class | |
| `UnboundedLockedStack` (`stack/unbounded_locked_stack.h`) | a `std::stack`, a lock object | `Push`, `Pop` | `SpinLock` or `std::mutex` |
| `AtomicSharedPtr` (`stack/atomic_shared_ptr/`) | pointer and local reference count packed in a word, global count in a control block | `get`, `getFast`, `compareExchange`, `store`, the destructors of `SharedPtr` and `FastSharedPtr` | |
| `UnboundedLockFreeStack` (`stack/unbounded_lock_free_stack.h`) | linked list with an `AtomicSharedPtr` top | `Push`, `Pop` | `AtomicSharedPtr` |
| `HugePageAllocator` (`utils/huge_pages.h`) | none | `allocate`, `deallocate` | `mmap`, `munmap` |

What is hard, and what would make each component correct:

* **Stale copies** (SPSC): a thread decides from a copy of the other's index taken
  any number of calls ago. Correct if no slot is ever used by both threads and the
  queue is a linearizable FIFO.
* **Tickets and generations** (MPMC): waiting and trying calls meet at a slot whose
  plain storage only the generation protects. Correct if slots are used exclusively,
  elements leave in the order of the tickets, nothing leaks and nobody waits for
  nothing.
* **Optimistic copies** (SeqLock, multicast): a reader copies data while it is being
  overwritten and must notice. Correct if no torn value is returned, whatever the
  wrapping counters do.
* **Early and late** (multicast): a reader tells from the difference of two wrapping
  counters whether it is early, in time or late. Correct if it gets the messages one
  by one and is told it is late exactly when it is.
* **Split reference counts** (AtomicSharedPtr, lock-free stack): a node must be freed
  once, after its last user, and not leak.
  The stack is correct if nothing is used after it was deleted, an address that comes
  back (ABA) confuses nobody, and it is a linearizable, lock-free LIFO.
* **Exclusion and ordering** (SpinLock, locked stack): critical sections must exclude
  each other, each must happen after the one before it, and waiting threads must get on.

The list `hazards` of `PROJECT.json` gives the places in the code, each with the
properties that cover it.

## 2. How the code is modelled

One module per component, one action per access to memory that another thread can
see. Work on a thread's own variables belongs to the neighbouring access; where an
action does more than one line of code, its comment says which. `PROJECT.json`
(`map`) gives the lines of every definition. Definitions have the names of the code.

**Memory order.** Steps interleave, that is memory is sequentially consistent. This is
justified by the orders used: in the SPSC queue each index has one writer, is stored
with release and loaded with acquire, so what one thread sees of the slots is what the
other had done before the store; loads that return an older index are exactly the
loads of a stale copy, which the model has anyway. In the MPMC queue the same is true
of the generation of each slot, and the counters are changed by read-modify-write
operations only. In the SeqLock the fences order the relaxed copies between the two
accesses to the counter. `AtomicSharedPtr` uses the default, sequentially consistent
order throughout. `SpinLock` is the exception: its exchange has release order only, so
the C++ memory model does not order a critical section after the one before when the
lock is found free at once. The model interleaves here too and is faithful to builds
in which an exchange is a full barrier, as on x86; it cannot show what weaker hardware
would do.

| Module | Models | Abstraction |
| --- | --- | --- |
| `BoundedSPSCQueue` | the SPSC queue | `x & GetIndexMask()` is `x % BufferSize`; what a move leaves behind is the parameter `MovedFrom` |
| `FIFOQueue` | what it promises: a bounded FIFO with atomic calls | |
| `BatchedBoundedSPSCQueue` | the SPSC queue over slots | of an element only whether it was constructed |
| `RingBufferSize` | `GetBufferSize()`, shared by the bounded queues | `__builtin_clzll` by what it returns |
| `BoundedMPMCQueue` | the MPMC queue | an element is the ticket under which it was constructed |
| `SeqLockAtomic` | the SeqLock and the value it protects | a value is `ChunkCount` chunks, each copied by one access |
| `AtomicRegister` | what it promises: an atomic register | |
| `BoundedMulticastQueue` | the multicast queue, its writer and its readers | the chunks of message n are all n |
| `MulticastLog` | what it promises: a log of which the last messages are kept | |
| `AtomicSharedPtr` | `SharedPtr`, `FastSharedPtr` and `AtomicSharedPtr` with the split reference count | a control block and its object are one block; the 48 and 16 bits of `packedPtr` are a record |
| `UnboundedLockFreeStack` | the lock-free stack, composed with `AtomicSharedPtr` | |
| `SpinLock` | the test and test-and-set lock | |
| `UnboundedLockedStack` | the stack under a lock, composed with `SpinLock` | the work on the container is one read and one write |
| `LIFOStack` | what both stacks promise: a LIFO sequence with atomic calls | |

`MC*` modules and `.cfg` files give the constants; `*Proofs` modules hold the theorems.

### BoundedSPSCQueue

`Emplace` tests the cached head (`Emplace`), reloads `head_` if it says full
(`EmplaceLoadHead`: here the call may return false), constructs the element
(`EmplaceConstruct`), stores `tail_` (`EmplaceStoreTail`). The consumer's three calls
share the test (`CallConsumer`, `ConsumerLoadTail`) and then return a pointer
(`FrontReturn`), or move the element out (`DequeueMove`, `Dequeue(T&)` only) and store
`head_` (`DequeueStoreHead`). `front` remembers the pointer that `Front` returned until
the consumer's next call, because the client may read through it.

### BatchedBoundedSPSCQueue

The producer is that of `BoundedSPSCQueue`. The consumer looks at the slot at `head_`
(`CallConsumer`) and, if the slot says that it is empty, goes on to the next one
(`MoveHeadLoadTail`, `MoveHeadStore`); then it returns a pointer into the slot
(`FrontReturn`) or advances the slot's own head (`DequeueFromSlot`). `size` is a history
variable: the Emplaces minus the Dequeues that returned true.

### BoundedMPMCQueue

The four calls differ only in how they get a ticket: at once (`FetchAdd`, then
`WaitGeneration`), or by `LoadCounter`, `LoadGeneration`, `CompareExchange`, with
`CompareExchangeFails` (also spuriously), `Reload` and `Refuse`. Then all use the slot
(`Construct` or `MoveAndDestroy`) and do `StoreGeneration`. `DestroyQueue` runs the
destructors of the slots once no thread is in a call.

### SeqLockAtomic

`Store` loads the counter, `LockWait` repeats that while it is odd,
`LockCompareExchange` takes the lock (`LockCompareExchangeFails` also spuriously),
`StoreChunk` copies, `Unlock` makes the counter even. `LoadSeq0`, `LoadChunk`,
`LoadSeq1` are one round of `Load`. `overlap` is a history variable: the Stores that
locked since the reader loaded `seq0`.

### BoundedMulticastQueue

The only writer locks (`Write`), stores the chunks and then the size, unlocks and moves
on. A reader loads the counter (`Call`, `Retry`), the size, that many chunks and the
counter again, and then is in time (`LoadSeq1Current`), late, or early; `Read` goes on
to the next message itself and waits when early, `TryRead` leaves both to the client
(`CallUpdateIndexes`). `written` and `reads` are history variables.

### AtomicSharedPtr and UnboundedLockFreeStack

A method of `AtomicSharedPtr` is called by going to its first label. `get()` is
`GetFetchAdd`, `GetRef`, then `GetNotify`, or `GetNotifyFails` (also spuriously) and
`GetUnref`. `getFast()` is `GetFast`; the `FastSharedPtr` is given up by `Release`,
`ReleaseFails`, or `ReleaseMoved` when the local reference was moved to the control
block. `compareExchange` is `Compare` (with its own holder), then a loop that moves the
local count (`AddLocal`, `ZeroLocal`, or `ZeroLocalFails` and `TakeBack`) until
`Exchange` succeeds or the pointer has changed, then `DestroyOldControlBlock`.
`Decrement` deletes a block with its last reference and goes on with the block that its
node refers to (`Unref`), which is what the `destructionQueue` does.

`Push` makes a node; `PushAssign` is the move assignment to `prev_`, which gives up the
old value on the second round. `Pop` is `PopGetFast`, `PopCopy`, `compareExchange`,
and `PopTake`, or `PopDropCopy` and `PopRetry`, which holds the new `FastSharedPtr`
beside the old one until the old one is released. `DestroyStack` is the destructor. The
list ends in the block that the default constructor of `head_` makes for a null pointer
(`Bottom`). `outcome` is a history variable that says whether the call has taken effect.

In the code an object and its control block are two allocations that are made and
deleted together; the model has one address for both, and takes a new node from the
addresses that are not in use, so addresses come back as soon as they can.
`compareExchange` returns at once when `expected` is the object of `newOne`, which the
stack never asks for.

### SpinLock and UnboundedLockedStack

`Exchange` and `Spin` are the two loops of `Lock`, `Unlock` is the store. `Push` and
`Pop` go through `Lock`, `Read`, one of `PushWrite`, `PopWrite`, `PopEmpty`, and
`Return`, the destructor of the `lock_guard`. Splitting the work on the container into
a read and a write is enough for two threads in it to destroy each other's work.
`InitiallyLocked` is the set of values that the flag may have at first: a `SpinLock`
clears it, a `Lock<SpinLock>`, which `UnboundedSpinLockedStack` contains, does not have
it.

## 3. The runs

| Run | Instance | Checks | Distinct states |
| --- | --- | --- | --- |
| `spsc` | 8 slots, elements 0, 1, 2, 0, ... | `TypeOK`, `IInv`, `NoSlotRace`, `ImplementsFIFO`, `Progress` | 130,669 |
| `mpmc` | 8 slots, 3 threads | `TypeOK`, `IInv`, `ExclusiveSlot`, `TicketOrder`, `GenerationParity`, `NoLeak`, `NotRefusedInFirstLap` | about 877,000 |
| `mpmc_served` | 8 slots, 2 threads | `FirstLapServed` | 60,836 |
| `mpmc_second_lap` | 8 slots, 2 threads | `EmptyQueueAcceptsEmplace`, which is violated | |
| `seqlock` | 2 writers, 1 reader, 2 chunks, counter modulo 6 | `TypeOK`, `IInv`, `NoTornRead`, `ImplementsRegister`, `StoresComplete`, `LoadReturns` | 459,300 |
| `multicast` | 1 reader, 2 places, 16 messages of 1 or 2 chunks, counter modulo 8 | `TypeOK`, `SequenceCountsMessages`, `IInv`, `ImplementsLog`, `ReadReturns` | 37,476 |
| `multicast_copies` | 2 readers, 2 places, 5 messages | `ImplementsLog` with copies and swaps of readers | 972,634 |
| `batched` | 8 slots | `TypeOK`, `RingOrder` | 48,093 |
| `batched_phantom` | 8 slots | `NoPhantomDequeue`, which is violated | |
| `lock_free_stack` | 2 threads, 2 nodes | `TypeOK`, `NoDanglingPointer`, `ReferencesConserved`, `LocalCountBounded`, `NoLeak`, `IInv`, `ImplementsStack`, `LockFree` | 501,276 |
| `locked_stack` | 3 threads, 2 values, at most 3 elements | `TypeOK`, `MutualExclusion`, `IInv`, `ImplementsStack`, `CallsReturn` | 8,201 |
| `locked_stack_base` | 2 threads, a flag nobody initialised | `CallsReturn`, which is violated | |

Every property of a passing run has a mutant in `PROJECT.json`: a small change of the code under which
TLC finds the property violated.

**What `mpmc_second_lap` shows.** `GetGeneration` (`queue/bounded_mp_mc_queue.h:269`)
clears the index bits of a ticket but does not shift them out. The generation that
`Emplace` waits for is therefore twice the *ticket* of the beginning of its lap, while
the generation of a slot grows by two per lap. They agree in the first lap only: a
queue through which `GetBufferSize()` elements have passed is empty and accepts
nothing any more. `Emplace` and `Dequeue` wait for ever, `TryEmplace` returns false.
The README of the library says that an even generation means that the data is missing
and that each change of the cell increases the generation by one, which leaves no room
for this.

**What `batched_phantom` shows.** `Emplace` (`queue/batched_bounded_sp_sc_queue.h:112`)
constructs the element over the slot with placement new and does not call the slot's own
`Emplace`, so the slot's `tail_` stays 0. The first `Dequeue` finds the slot at `head_`
empty, goes on to the next one and advances that slot's `head_` to 1. From then on this
slot never says that it is empty: every `Dequeue` returns true, without any element, and
the consumer never leaves the slot. The ring around the slots is sound (`batched`).

**What `lock_free_stack` shows.** Whatever the interleaving, the count in `packedPtr`
and the count in the control block together are the number of references to a block
(`ReferencesConserved`), counting for `compareExchange` what it has added and not yet
moved. It follows that nothing in use is deleted (`NoDanglingPointer`) and, with the
destructor, that everything is deleted in the end (`NoLeak`). The count of zero with an
unchanged pointer, of which a comment in `get()` says that it took 20 hours, is
essential in `FastSharedPtr::destroy` too: without it (the mutant of `TypeOK`) the
local count becomes negative, that is borrows from the pointer's bits. A thread has two
local references at most (`LocalCountBounded`), so the constructor's branch for more than
1000 of them takes more than 500 threads; the models assume no more
(`ThreadsAssumption`) and leave it out.

`LockFree` is about threads that are suspended in the middle of a call, for ever and at
any step. Its first part says that a thread in a call can always take a step that
changes something: no call waits for another thread, so none waits for a suspended one.
Its second part says that the steps do not go in circles: if steps are taken for ever, by
one thread or by several in any order, calls return for ever. The mutant, a
`compareExchange` that gives up, for its caller to repeat, while another thread is in
one, violates the second part: `Push` is repeated for ever while the other thread is
suspended. The spin-lock stack, for which `CallsReturn` holds, does not satisfy the
first: while the thread that holds the lock is suspended, the loop of `Lock` in the other
changes nothing.

**What `locked_stack_base` shows.** `UnboundedSpinLockedStack` is
`UnboundedLockedStack<T, Lock<SpinLock>>` (`stack/unbounded_locked_stack.h:20`): its
`lock_` is an object of the base class, which has no flag. `lock()` casts it to
`SpinLock` and exchanges a byte in the padding of `lock_` that no constructor has
written. If the byte is not zero the first `Push` or `Pop` waits for ever. The
exclusion of the threads does not suffer (`CriticalSectionsExclude` is proved for any
initial flag).

### Bounds

* *8 slots* is not a bound but the smallest buffer `GetBufferSize()` computes. The
  instance of the SPSC queue has indices that wrap without end, so every alignment of
  the four indices occurs. Three different elements in order suffice: 3 does not divide
  8, so a lost, repeated or overwritten element changes the sequence. The elements are
  integers, which a move leaves as they are, and the producer retries a refused
  element, as in the library's examples.
* The MPMC model has *no bound on tickets*: as no slot is accepted in the second lap,
  each thread can take at most one ticket beyond the first (with `Emplace` or
  `Dequeue`) and then waits for ever. `GenerationModulus` 64 stands for 2^32; no
  generation in the reachable states gets near it.
* `CounterModulus` 6 or 8 stands for 2^32, so that the counters wrap many times.
  `MaxOverlap` is the number of Stores that begin during one attempt of a Load. The
  code accepts a torn value if 2^31 Stores run during one copy; the models and the
  proof assume `2 * MaxOverlap < CounterModulus`, and the run uses the largest value
  that this allows. `MaxLag` is the same for a multicast reader: the sign of
  `TryRead`'s result is wrong once the writer is 2^30 laps ahead. The subtraction in
  `TryRead` overflows a signed integer when one counter has passed 2^31 and the other
  has not; the model takes the outcome of the compiled code, which wraps.
* *Two chunks* are the fewest that can be torn. `MaxWrites` bounds the messages of the
  multicast queue: 16 messages are 8 laps and two wraps of each counter; 5 messages
  let a copied reader be early, in time and late.

* `MaxSlotDequeues` bounds how often the batched queue's consumer takes from one slot,
  as it may do so for ever: 3 is enough to pop more than was pushed. `MaxSize` bounds
  the lead of the producer, which grows without end because `Front` goes on to the next
  slot, too: 16 are two laps.

* The lock-free stack has no bound but its threads and nodes: calls repeat for ever, and
  every `Push` takes any address that is not in use. *Two nodes* besides the bottom are
  the fewest for the ABA problem, in which a node is popped, another one pushed, and the
  first address comes back below or above it. *Two threads* are the fewest for a local
  count that is moved by one while the other holds a part of it; each thread holds two.
  `Pushed` gives each thread an element of its own, so that elements cannot be confused.
  The safety invariants were also checked once with three nodes, which are symmetric
  for them (1,262,882 states, no error).
* *Three threads* at the lock let two wait for the third. `MaxLen` bounds the elements on
  the locked stack: 3 is one per thread.

### Fairness

Except in the lock-free stack, a thread inside a call is scheduled again and again: weak
fairness of its steps. No client is assumed to make another call, except in `spsc`, where `Progress` is about the
loops `while (!q.Enqueue(i));` and `while (!q.Dequeue());` of the library's README: the
producer keeps calling, and the consumer may call `Front` any number of times but calls
`Dequeue` again and again (strong fairness, as `Front` interrupts it). A
`compare_exchange_weak` may fail spuriously at any time but does not do so for ever: a
failure that leaves the state as it was is a stuttering step, and weak fairness of the
thread demands a step that changes something. `LoadReturns` and `ReadReturns` are
conditional on the writers pausing, which is what the code needs: a Load may be
overtaken by Stores for ever.

In the lock-free stack no fairness of any thread is assumed: any of them may stop for
ever at any step. The second part of `LockFree` has as its hypothesis only that steps are
taken for ever; what a scheduler has to do for it, by the first part, is to run some
thread that is in a call. What `Fairness` of this module assumes is about
`compare_exchange_weak` only: between `AddLocal` and `TakeBack` a spurious failure
changes the state, so threads that fail there at the expected value again and again
also succeed there again and again. Without this assumption `LockFree` is violated, as it
would be in the code.

`CallsReturn` is deadlock and livelock freedom of the spin lock when every thread is
scheduled. Both promise that some call returns, not every one: neither the lock nor the
stack is fair.

## 4. What is proved

For every value of the constants, checked by TLAPS with SMT and PTL:

* `BoundedSPSCQueueProofs`: `TypeCorrect` (no index leaves the buffer),
  `InvariantHolds`, `SlotsDoNotRace` and `QueueImplemented`, for every buffer size above
  1, any elements and any `MovedFrom`. `NoSlotRace` is not inductive. The strengthening
  is that the four indices lie in ring order, `cached_head_`, `head_`, `cached_tail_`,
  `tail_`, within less than one lap (`IndexOrder`); that a test passed with a stale copy
  stays true until the call is over (`RoomReserved`, `ElementReserved`); and what the
  slots between head and tail hold. The proof rests on a few lemmas on distances in a
  ring (`RingOrder`, `RingSlots`, `Reservations`), then one step per action. For the
  refinement of `FIFOQueue` the sequence is what lies between head and tail; the lemma
  `RingPositions` says how it changes when one of the two moves by one, and `Emplace`
  and the consumer's calls refine the abstract ones with the store of the index as the
  instant at which they take effect.
* `BoundedMPMCQueueProofs`: `InvariantHolds`, `TypeCorrect`, `SlotsExclusive`,
  `ElementsByTicket`, `ParityTellsElements`, `NothingLeaks` and the action property
  `FirstLapAccepts`. The inductive invariant says that the tickets of the calls were
  issued and are unique for each counter (`TicketsIssued`, `TicketsUnique`), that the
  tickets of later laps are held by calls that wait (`LaterLapsWait`), and how far the
  tickets of its slot have come from the generation of a slot (`SlotGenerations`,
  `CallGenerations`, `SlotElements`). It needs `ThreadsAssumption`: with so many threads
  waiting in calls that twice a ticket reaches `GenerationModulus`, the generation that
  the latest of them waits for wraps to 0, it enters a slot that is in use, and
  `ExclusiveSlot` is violated (TLC shows it with 2 slots, a modulus of 8 and 5 threads).
  In the code that takes about 2^31 threads. That no ticket gets there is a pigeonhole
  argument (`TicketsBounded`): the tickets beyond the first lap are held by different
  threads.
* `SeqLockAtomicProofs`: `InvariantHolds`, `TypeCorrect`, `LoadsAreNotTorn` and
  `RegisterImplemented`, for any sets of writers and readers, any number of chunks and
  any even counter modulus, under `CounterAssumption`
  (`2 * MaxOverlap < CounterModulus`). The invariant says that the counter is odd exactly
  while one writer holds the lock (`LockState`, `WriterExclusion`), that since an even
  `seq0` it moved by two for each Store counted in `overlap` (`CounterSince`), and that
  without such a Store the chunks copied so far are those of the value (`CopiedSince`).
  If the counter is the same at `seq1`, the lemma `SameCounter` gives `overlap = 0`, and
  the copy is the value. A Store takes effect when it locks, a Load when it accepts.
* `BoundedMulticastQueueProofs`: `InvariantHolds`, `TypeCorrect`, `CountersAgree` and
  `LogImplemented`, for every buffer size, all sizes of messages, any set of readers and
  every counter modulus that is a multiple of 4, under `CounterAssumption`
  (`MaxLag <= BufferSize * (CounterModulus \div 4)`). The invariant adds to
  `SequenceCountsMessages` that no reader is past the writer or more than `MaxLag` behind
  (`ReadersInWindow`), which message each place holds and how much of it
  (`StoredMessages`), and that the counter an attempt began with is one that the place
  had since the message before the reader's (`Attempts`): these are less than half a
  period, so the counter does not come back to it, and an attempt that finds it unchanged
  has copied what is there. Half of the module is arithmetic: quotients and remainders by
  a size that is a parameter, counters that wrap, the parity of a wrapped counter, the
  signed distance of two of them (`DistanceOfCounters`), and what the lap of a place says
  about writer and reader (`LapsOfReader`).
* `UnboundedLockFreeStackProofs`: `InvariantHolds`, `TypeCorrect`, `Conserved`,
  `NoDangling`, `LocalBounded`, `LongBranchUnreached` and `NothingLeaks`, for any finite
  set of addresses, any elements and any set of at most 500 threads, under
  `BlocksAssumption` and `ThreadsAssumption`. The proof of the invariant does not use the
  bound on the threads; it is what makes the model the code's, and `LongBranchUnreached`
  is the proof that with it the constructor of `FastSharedPtr` never takes the branch that
  is left out. The invariant says of each label
  which references a thread has there and what its expected value can be
  (`ThreadState`); that the counts are the references (`ReferencesConserved`); that a
  block is alive exactly as long as there is a reference (`LiveReferenced`); and that the
  local count, of which some may have been moved to `refCount` behind the back of the
  thread that has the reference, is never more than the local references that threads
  have (`LocalCountBacked`). From the last one follows the lemma the deletions rest on,
  `RefCountCovers`: `refCount` alone is at least the number of references that are not
  local, so a thread that gives up such a reference and finds the count at 1 has the last
  one of all. A Push's node is referred to by nobody else until it is exchanged into
  `head_`, and all other nodes are linked (`NewNodes`, `NodesLinked`), so the `prev_`
  that Pop copies exists. The number of references is a sum over the threads, the
  cardinality of a set of pairs; the lemmas `SumSplit` to `SumBounds` say how it
  changes with one thread. Steps that delete nothing are reduced to `QuietStep`, those
  that may delete a block to `DecrementStep`. `NoLeak` needs, beyond the counts, that
  nodes do not keep each other alive (`Acyclic`): a Push links a node that nobody refers
  to.
* `UnboundedLockedStackProofs`: `InvariantHolds`, `TypeCorrect`,
  `CriticalSectionsExclude` and `StackImplemented`, for any finite set of threads, any
  elements and any initial flag, under `LockAssumption`. The refinement of `LIFOStack`
  needs that what a thread has read is what the container still is when it writes
  (`ViewCurrent`), which follows from mutual exclusion, and that the labels of a call
  agree with its argument and outcome (`CallState`). The bound on the container needs
  the room reserved by pushing threads, a cardinality that changes by one.
* `BatchedBoundedSPSCQueueProofs`: `TypeCorrect` and `RingInOrder` for every buffer size
  above 1. The ring needs only that `head_` moves towards a different `cached_tail_`;
  that no slot exceeds its bound needs `OnlyHeadUsed`: all slots but the one at `head_`
  are untouched, because a slot that was dequeued from never says that it is empty. It
  is the proof that what `batched_phantom` shows happens at one slot for ever.

The inductive invariants are also checked by TLC, as invariants of the runs, but for the
batched queue's, which is a conjunction of what its run checks and two parts of the
proof module.

Only model-checked: liveness (out of the prover's reach), and that the lock-free stack is
linearizable, `ImplementsStack`: its contents are a recursive function that follows the
links, and what it yields after a step takes an induction along the list, which the
installed provers do not do.

## 5. What is not modelled

Of `SpinLock`, `TryLock`, which nothing in the library calls, and what release order
without acquire order allows. Of `AtomicSharedPtr`, both forms of `store` and the copy
assignment of `SharedPtr`, which the stack does not call, and the branch for more than
1000 local references, which up to 500 threads do not reach; it is suspect: when its exchange succeeds, `foreignPackedPtr`
becomes `nullptr`, so the reference that was just moved to `refCount` is never given
back, and when the exchange fails because the pointer has changed, `knownValue` refers
to another block than `data`. `IsEmpty` of both stacks and `Emplace` of the locked stack
do not compile when they are used. The constructors' assertion that addresses fit in 48
bits is taken for granted.

`HugePageAllocator` is two system calls around one size computation. The
padding macros, the `PAUSE` instruction and the type traits have no state; the
benchmarks only measure; the tests are empty files; `stack/tmp` is a draft that does not
compile. `GetSize`, `IsEmpty` and `GetCapacity` change no state and have no stated
meaning while calls are in progress. Allocation failure and exceptions of element
constructors are left out: the element types of the examples have neither.

## 6. Plan

1. `SpinLock` with happens-before (vector clocks): what a critical section sees when the
   exchange has release order only.
2. The branch of `FastSharedPtr` for more than 1000 local references, with the limit as a
   parameter.
