----------------------- MODULE UnboundedLockFreeStack -----------------------
(***************************************************************************)
(* concurrent::stack::UnboundedLockFreeStack                               *)
(* (stack/unbounded_lock_free_stack.h): a list of nodes that are linked by *)
(* SharedPtrs, below an AtomicSharedPtr head_ to the top.  The list ends   *)
(* in the block that the constructor of head_ makes for a null pointer.    *)
(*                                                                         *)
(* Push has its new node in ptr; Pop has its top in top, and in holder     *)
(* compareExchange's own FastSharedPtr or the result of getFast that is    *)
(* about to be assigned to top.  IsEmpty is a                              *)
(* const function that calls a function that is not const, and does not    *)
(* compile when it is used.                                                *)
(***************************************************************************)
EXTENDS AtomicSharedPtr, Sequences

CONSTANTS
  Bottom,     \* the block at the end of the list
  Values,     \* the elements
  Pushed(_),  \* the elements that a thread pushes
  NoValue

ASSUME BlocksAssumption ==
  /\ Bottom \in Blocks /\ nullptr \notin Blocks
  /\ NoValue \notin Values /\ \A t \in Threads : Pushed(t) \subseteq Values
  /\ IsFiniteSet(Threads) /\ IsFiniteSet(Blocks)

(* At most 500 threads: more could have more local references at a time    *)
(* than getFast leaves in packedPtr; what it does then is not modelled.    *)
ASSUME ThreadsAssumption == 2 * Cardinality(Threads) <= LocalLimit

VARIABLES
  data_,    \* of each block: the element in its node
  op,       \* each thread's call
  element,  \* what its Pop has moved out of the node
  outcome,  \* history: what its call has done to the stack
  alive     \* has the stack not been destroyed?

cvars == <<op, element, outcome>>
vars == <<packedPtr, mvars, uvars, tvars, data_, cvars, alive>>

Nodes == Blocks \ {Bottom}

Init ==
  /\ packedPtr = Packed(Bottom, 0)
  /\ refCount = [b \in Blocks |-> IF b = Bottom THEN 1 ELSE 0]
  /\ live = {Bottom}
  /\ prev_ = [b \in Blocks |-> nullptr]
  /\ pc = [t \in Threads |-> "idle"]
  /\ ret = [t \in Threads |-> "none"]
  /\ todo = [t \in Threads |-> nullptr]
  /\ top = [t \in Threads |-> NoPacked]
  /\ holder = [t \in Threads |-> NoPacked]
  /\ ptr = [t \in Threads |-> nullptr]
  /\ got = [t \in Threads |-> nullptr]
  /\ expected = [t \in Threads |-> NoPacked]
  /\ diff = [t \in Threads |-> 0]
  /\ data_ = [b \in Blocks |-> NoValue]
  /\ op = [t \in Threads |-> "none"]
  /\ element = [t \in Threads |-> NoValue]
  /\ outcome = [t \in Threads |-> "none"]
  /\ alive = TRUE

(* A call that returns leaves nothing behind.                              *)
Continue(t, result) ==
  LET returns == pc'[t] = "idle"
  IN  /\ op' = [op EXCEPT ![t] = IF returns THEN "none" ELSE @]
      /\ element' = [element EXCEPT ![t] = IF returns THEN NoValue ELSE @]
      /\ outcome' = [outcome EXCEPT ![t] = IF returns THEN "none" ELSE result]

(* The element of a node is destroyed with it.                             *)
DataOfLive == data_' = [b \in Blocks |-> IF b \in live' THEN data_[b] ELSE NoValue]

(***************************************************************************)
(* Push, in its two forms: a new node, whose prev_ is assigned from        *)
(* head_.get() until compareExchange succeeds.                             *)
(***************************************************************************)
Push(t, v) ==
  /\ alive /\ pc[t] = "idle"
  /\ \E n \in Nodes \ live :
       /\ live' = live \cup {n}
       /\ refCount' = [refCount EXCEPT ![n] = 1]
       /\ data_' = [data_ EXCEPT ![n] = v]
       /\ ptr' = [ptr EXCEPT ![t] = n]
  /\ pc' = [pc EXCEPT ![t] = "get"]
  /\ op' = [op EXCEPT ![t] = "Push"]
  /\ UNCHANGED <<packedPtr, prev_, ret, todo, fasts, got, expected, diff, element, outcome, alive>>

(* SharedPtr::operator=(SharedPtr&&) gives up the old value of prev_, or   *)
(* the destructor of the result of get() does if it is the same block.     *)
PushAssign(t) ==
  LET n == ptr[t] IN
  /\ pc[t] = "assign"
  /\ prev_' = [prev_ EXCEPT ![n] = got[t]]
  /\ got' = [got EXCEPT ![t] = nullptr]
  /\ IF prev_[n] = nullptr
     THEN pc' = [pc EXCEPT ![t] = "compare"] /\ UNCHANGED <<ret, todo>>
     ELSE CallUnref(t, prev_[n], "compare")
  /\ UNCHANGED <<packedPtr, refCount, live, fasts, ptr, expected, diff, data_, cvars, alive>>

(***************************************************************************)
(* Pop.                                                                    *)
(***************************************************************************)
(* A Pop that finds the stack empty has done its work.                     *)
Found == IF packedPtr.block = Bottom THEN "empty" ELSE "none"

Pop(t) ==
  /\ alive /\ pc[t] = "idle"
  /\ pc' = [pc EXCEPT ![t] = "pop"]
  /\ op' = [op EXCEPT ![t] = "Pop"]
  /\ UNCHANGED <<packedPtr, mvars, ret, todo, tvars, data_, element, outcome, alive>>

PopGetFast(t) ==
  /\ pc[t] = "pop"
  /\ IF packedPtr.block = Bottom THEN GetFast(t, "top", "release_top", Referenced)
                                 ELSE GetFast(t, "top", "copy", NoPacked)
  /\ outcome' = [outcome EXCEPT ![t] = Found]
  /\ UNCHANGED <<data_, op, element, alive>>

(* top->prev_.copy()                                                       *)
PopCopy(t) ==
  LET p == prev_[top[t].block] IN
  /\ pc[t] = "copy"
  /\ refCount' = [refCount EXCEPT ![p] = @ + 1]
  /\ ptr' = [ptr EXCEPT ![t] = p]
  /\ pc' = [pc EXCEPT ![t] = "compare"]
  /\ UNCHANGED <<packedPtr, live, prev_, ret, todo, fasts, got, expected, diff, data_, cvars, alive>>

(* Mutation: the copy is left behind.                                      *)
PopLoseCopy(t) ==
  /\ pc[t] = "drop"
  /\ GoTo(t, "retry", NoPacked)
  /\ ptr' = [ptr EXCEPT ![t] = nullptr]
  /\ UNCHANGED <<packedPtr, mvars, ret, todo, fasts, got, diff, data_, cvars, alive>>

(* The copy of prev_ is destroyed when compareExchange has failed.         *)
PopDropCopy(t) ==
  /\ pc[t] = "drop"
  /\ Decrement(t, ptr[t], "retry")
  /\ ptr' = [ptr EXCEPT ![t] = nullptr]
  /\ DataOfLive
  /\ UNCHANGED <<packedPtr, fasts, got, diff, cvars, alive>>

PopRetry(t) ==
  /\ pc[t] = "retry"
  /\ GetFast(t, "holder", "release_top", top[t])
  /\ outcome' = [outcome EXCEPT ![t] = Found]
  /\ UNCHANGED <<data_, op, element, alive>>

(* element = std::move(top->data_)                                         *)
PopTake(t) ==
  /\ pc[t] = "take"
  /\ element' = [element EXCEPT ![t] = data_[top[t].block]]
  /\ GoTo(t, "release_top", top[t])
  /\ UNCHANGED <<packedPtr, mvars, ret, todo, fasts, ptr, got, diff, data_, op, outcome, alive>>

(***************************************************************************)
(* ~UnboundedLockFreeStack, once no thread is in a call: ~AtomicSharedPtr  *)
(* moves what is left of the local count and unrefs the list.              *)
(***************************************************************************)
DestroyStack(t) ==
  /\ alive /\ \A u \in Threads : pc[u] = "idle"
  /\ alive' = FALSE
  /\ refCount' = [refCount EXCEPT ![packedPtr.block] = @ + packedPtr.count]
  /\ CallUnref(t, packedPtr.block, "idle")
  /\ UNCHANGED <<packedPtr, live, prev_, tvars, data_, cvars>>

(***************************************************************************)
(* The calls of the methods of AtomicSharedPtr.                            *)
(***************************************************************************)
AfterExchange(t) ==
  IF op[t] = "Push" THEN (IF ptr[t] = nullptr THEN "idle" ELSE "get")
                    ELSE (IF ptr[t] = nullptr THEN "take" ELSE "drop")

(* A Pop whose top is released has returned, or assigns the next one.      *)
AfterTop(t) ==
  IF holder[t] = NoPacked THEN "idle"
  ELSE IF holder[t].block = Bottom THEN "release_top" ELSE "copy"

After(t, h) == IF h = "top" THEN AfterTop(t) ELSE AfterExchange(t)

Rest(t, h) == IF h = "top" THEN holder[t] ELSE top[t]

FastPtrStep(t) ==
  \E h \in FastPtrs :
    \/ Release(t, h, After(t, h), Rest(t, h))
    \/ ReleaseFails(t, h)
    \/ ReleaseMoved(t, h, After(t, h), Rest(t, h))

GetStep(t) ==
  GetFetchAdd(t) \/ GetRef(t) \/ GetNotify(t, "assign") \/ GetNotifyFails(t) \/ GetUnref(t, "assign")

ExchangeStep(t) ==
  \/ Compare(t, IF op[t] = "Push" THEN prev_[ptr[t]] ELSE top[t].block)
  \/ AddLocal(t) \/ ZeroLocal(t) \/ ZeroLocalFails(t) \/ TakeBack(t)
  \/ ExchangeFails(t) \/ DestroyOldControlBlock(t)

PtrStep(t) ==
  /\ \/ /\ Unref(t) \/ FastPtrStep(t) \/ GetStep(t) \/ ExchangeStep(t)
        /\ Continue(t, outcome[t])
     \/ Exchange(t) /\ Continue(t, "exchanged")
  /\ DataOfLive
  /\ UNCHANGED alive

StackStep(t) ==
  PtrStep(t) \/ PushAssign(t) \/ PopGetFast(t) \/ PopCopy(t) \/ PopDropCopy(t) \/ PopRetry(t) \/ PopTake(t)

Call(t) == (\E v \in Pushed(t) : Push(t, v)) \/ Pop(t) \/ DestroyStack(t)

Next == \E t \in Threads : StackStep(t) \/ Call(t)

Spec == Init /\ [][Next]_vars

(* No thread need be scheduled: a call may stop at any step.  Only,        *)
(* compare_exchange_weak does not fail for ever at the value it expects;   *)
(* in the other loops such a failure leaves everything as it was.          *)
Fairness ==
  []<><<\E t \in Threads : ZeroLocalFails(t) /\ packedPtr = expected[t]>>_vars
    => []<><<\E t \in Threads : ZeroLocal(t)>>_vars

FairSpec == Spec /\ Fairness

(***************************************************************************)
(* Properties.                                                             *)
(***************************************************************************)
Labels == {"idle", "get", "get_ref", "notify", "get_unref", "assign", "compare", "exchange",
           "zero", "take_back", "destroy_old", "release_holder", "release_top", "unref",
           "pop", "copy", "drop", "retry", "take"}

(* A thread is between two steps of its call, and no count is negative.    *)
TypeOK ==
  /\ packedPtr \in [block : Blocks, count : Nat]
  /\ refCount \in [Blocks -> Nat] /\ live \subseteq Blocks
  /\ prev_ \in [Blocks -> Blocks \cup {nullptr}]
  /\ pc \in [Threads -> Labels] /\ ret \in [Threads -> Labels \cup {"none"}]
  /\ todo \in [Threads -> Blocks \cup {nullptr}]
  /\ ptr \in [Threads -> Blocks \cup {nullptr}] /\ got \in [Threads -> Blocks \cup {nullptr}]
  /\ top \in [Threads -> [block : Blocks \cup {nullptr}, count : Nat]]
  /\ holder \in [Threads -> [block : Blocks \cup {nullptr}, count : Nat]]
  /\ expected \in [Threads -> [block : Blocks \cup {nullptr}, count : Nat]]
  /\ diff \in [Threads -> Nat]
  /\ data_ \in [Blocks -> Values \cup {NoValue}] /\ element \in [Threads -> Values \cup {NoValue}]
  /\ op \in [Threads -> {"none", "Push", "Pop"}]
  /\ outcome \in [Threads -> {"none", "empty", "exchanged"}]
  /\ alive \in BOOLEAN

(* What the references of a thread refer to.                               *)
Held(t) ==
  {top[t].block, holder[t].block, ptr[t], got[t], todo[t]} \ {nullptr}

(* The reclamation problem is solved: whatever other threads pop, push and *)
(* delete between two steps of a call, what the call still refers to, what *)
(* head_ refers to and what a node refers to has not been deleted.         *)
NoDanglingPointer ==
  /\ \A t \in Threads : Held(t) \subseteq live
  /\ \A t \in Threads : pc[t] = "destroy_old" => expected[t].block \in live
  /\ alive => packedPtr.block \in live
  /\ \A b \in live : prev_[b] \in live \cup {nullptr}

(* The references to b of thread t: pointers, the value that it has taken  *)
(* out of head_, and what it has added to refCount for local references.   *)
(* get() has a local one until it has notified and its result.             *)
One(condition) == IF condition THEN 1 ELSE 0
RefsOf(t, b) ==
  One(top[t].block = b) + One(holder[t].block = b) + One(ptr[t] = b) + One(todo[t] = b)
    + One(got[t] = b) + One(got[t] = b /\ pc[t] \in {"notify", "get_unref"})
    + One(pc[t] = "destroy_old" /\ expected[t].block = b)
    + (IF holder[t].block = b THEN diff[t] ELSE 0)

(* The sum of f[t] over the threads.                                       *)
SumOf(f) == Cardinality(UNION {{t} \X (1 .. f[t]) : t \in Threads})

(* All references to b: that of head_, those of nodes, those of threads.   *)
InHead(b) == alive /\ packedPtr.block = b
NodeRefs(b) == Cardinality({n \in Blocks : prev_[n] = b})
ThreadRefs(b) == SumOf([t \in Threads |-> RefsOf(t, b)])
References(b) == One(InHead(b)) + NodeRefs(b) + ThreadRefs(b)

(* No reference is lost or counted twice while references move between the *)
(* local count and the control block: for every block, the two together    *)
(* are the number of references to it.                                     *)
Counted(b) == refCount[b] + (IF InHead(b) THEN packedPtr.count ELSE 0)
ReferencesConserved == \A b \in live : Counted(b) = References(b)

(* No thread has more than two local references at a time.                 *)
LocalCountBounded == packedPtr.count <= 2 * Cardinality(Threads)

(* The constructor of FastSharedPtr never finds a local count that it      *)
(* moves to refCount.                                                      *)
LocalCountLow == packedPtr.count <= LocalLimit

(* The destructor leaves no node and no control block behind.              *)
NoLeak == ~alive /\ (\A t \in Threads : pc[t] = "idle") => live = {}

(***************************************************************************)
(* The inductive invariant.                                                *)
(***************************************************************************)
(* Where a thread is, or will be when unref returns.                       *)
Label(t) == IF pc[t] = "unref" THEN ret[t] ELSE pc[t]

(* Which call a thread is in follows from where it is.                     *)
PushLabels == {"get", "get_ref", "notify", "get_unref", "assign"}
PopLabels == {"pop", "copy", "drop", "retry", "take", "release_top"}
CallOf(t) ==
  /\ pc[t] = "unref" => ret[t] \in {"idle", "get", "compare", "copy", "drop", "retry", "take",
                                    "release_holder", "release_top"}
  /\ Label(t) \in PushLabels => op[t] = "Push"
  /\ Label(t) \in PopLabels => op[t] = "Pop"
  /\ op[t] = "none" <=> pc[t] = "idle" \/ ~alive
  /\ op[t] = "none" => Label(t) = "idle"

(* So does which references it has.                                        *)
Exchanging == {"exchange", "zero", "take_back"}
PointersOf(t) ==
  /\ todo[t] # nullptr <=> pc[t] = "unref"
  /\ got[t] # nullptr <=> pc[t] \in {"get_ref", "notify", "get_unref", "assign"}
  /\ top[t].block # nullptr <=> op[t] = "Pop" /\ Label(t) \notin {"idle", "pop"}
  /\ holder[t].block # nullptr =>
       Label(t) \in Exchanging \cup {"destroy_old", "release_holder", "release_top"}
  /\ holder[t].block = nullptr =>
       Label(t) \notin Exchanging \cup {"destroy_old", "release_holder"}
  /\ ptr[t] # nullptr =>
       Label(t) \in PushLabels \cup Exchanging \cup {"compare", "release_holder", "drop"}
  /\ ptr[t] = nullptr => Label(t) \notin PushLabels \cup Exchanging \cup {"compare", "drop"}
  /\ diff[t] # 0 => pc[t] \in {"zero", "take_back"}

(* What it expects is a value that packedPtr has had with the block that   *)
(* its reference is to, and a local reference in it.                       *)
Known(x) == IF x.block = nullptr THEN x = NoPacked ELSE x.count > 0
ExpectedOf(t) ==
  /\ Known(top[t]) /\ Known(holder[t])
  /\ pc[t] \in {"get_ref", "notify"} => expected[t].block = got[t] /\ expected[t].count > 0
  /\ pc[t] \in {"exchange", "zero"} => expected[t].block = holder[t].block
  /\ pc[t] = "zero" => diff[t] = expected[t].count
  /\ pc[t] = "destroy_old" => expected[t].block # nullptr
  /\ pc[t] = "release_holder" => expected[t].block = holder[t].block /\ expected[t].count > 0
  /\ pc[t] = "release_top" => expected[t].block = top[t].block /\ expected[t].count > 0
  /\ Label(t) = "copy" => top[t].block # Bottom

ThreadState(t) == CallOf(t) /\ PointersOf(t) /\ ExpectedOf(t)

(* The local count counts references that threads have and that refCount   *)
(* does not count; some that it counted are counted in refCount now.       *)
LocalRefsOf(t, b) ==
  One(top[t].block = b) + One(holder[t].block = b) + One(got[t] = b /\ pc[t] \in {"get_ref", "notify"})
LocalRefs(b) == SumOf([t \in Threads |-> LocalRefsOf(t, b)])
LocalCountBacked ==
  packedPtr.count <= IF alive THEN LocalRefs(packedPtr.block) ELSE 0

(* A block lives exactly as long as there are references to it.            *)
LiveReferenced ==
  \A b \in Blocks :
    IF b \in live THEN References(b) > 0 ELSE References(b) = 0 /\ prev_[b] = nullptr

(* Nobody but the Push that made it has a reference to a node that is not  *)
(* in the list, and the other nodes, but for the last, are linked.         *)
Makes(t, n) == op[t] = "Push" /\ ptr[t] = n
NewNodes ==
  \A t \in Threads : \A n \in Blocks :
    Makes(t, n) =>
      /\ References(n) = 1
      /\ Label(t) \in Exchanging \cup {"compare"} => prev_[n] # nullptr
NodesLinked ==
  \A n \in live \ {Bottom} : prev_[n] = nullptr => \E t \in Threads : Makes(t, n)

(* The references that the threads, the nodes and head_ have at each step  *)
(* are what the two counts say, and keep what they refer to alive.         *)
CountInv ==
  /\ TypeOK
  /\ \A t \in Threads : ThreadState(t)
  /\ LocalCountBacked
  /\ ReferencesConserved
  /\ LiveReferenced
  /\ NewNodes
  /\ NodesLinked

(* The nodes do not keep each other alive: in every set of blocks there is *)
(* one that no other refers to.                                            *)
Acyclic == \A S \in SUBSET Blocks : S # {} => \E b \in S : \A n \in S : prev_[n] # b

(* Both together are inductive.                                            *)
IInv == CountInv /\ Acyclic

(***************************************************************************)
(* The stack is linearizable.                                              *)
(***************************************************************************)
(* The list from the top, which has no more than all the nodes.            *)
Contents ==
  LET Places == 1 .. Cardinality(Nodes)
      at[k \in Places] ==
        IF k = 1 THEN packedPtr.block
        ELSE LET b == at[k - 1] IN IF b = nullptr THEN nullptr ELSE prev_[b]
      InList == {k \in Places : at[k] \in Nodes}
  IN  [i \in 1 .. Cardinality(InList) |-> data_[at[i]]]

StackCall ==
  [t \in Threads |->
     [at  |-> IF op[t] = "none" THEN "idle" ELSE IF outcome[t] = "none" THEN "called" ELSE "done",
      op  |-> op[t],
      val |-> IF op[t] = "Push" THEN (IF ptr[t] = nullptr THEN NoValue ELSE data_[ptr[t]])
              ELSE IF outcome[t] = "exchanged" /\ element[t] = NoValue THEN data_[top[t].block]
              ELSE element[t]]]

LIFO == INSTANCE LIFOStack WITH
  stack <- IF alive THEN Contents ELSE << >>, call <- StackCall

(* Every Push and Pop takes effect at one instant of the call on a LIFO    *)
(* sequence, and Pop fails only at an instant at which it is empty; an     *)
(* address that is used again (the ABA problem) does not confuse it.       *)
ImplementsStack == LIFO!Spec

(* The stack is lock-free: a call can go on wherever the other threads are *)
(* suspended in theirs, and if steps are taken for ever, by any threads in *)
(* any order, calls return for ever, whatever they do to each other's      *)
(* compare_exchanges.                                                      *)
LockFree ==
  /\ [](\A t \in Threads : pc[t] # "idle" => ENABLED <<StackStep(t)>>_vars)
  /\ []<><<\E t \in Threads : StackStep(t)>>_vars
       => []<><<\E t \in Threads : pc[t] # "idle" /\ pc'[t] = "idle">>_vars

=============================================================================
