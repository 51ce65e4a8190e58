-------------------------- MODULE AtomicSharedPtr --------------------------
(***************************************************************************)
(* LFStructs::AtomicSharedPtr, FastSharedPtr and SharedPtr                 *)
(* (stack/atomic_shared_ptr/atomic_shared_ptr.h).  packedPtr holds the     *)
(* address of a control block and, in its last 16 bits, a local count of   *)
(* references; the other references are counted in the block's refCount.   *)
(*                                                                         *)
(* One action per atomic access.  A method is called by setting pc[t] to   *)
(* its first label; where it goes on afterwards is an argument of its last *)
(* action, except that unref, which may delete a whole chain of objects,   *)
(* keeps that label in ret.                                                *)
(*                                                                         *)
(* A control block and the object it counts are one here, called block:    *)
(* they are created together, and the references that the methods hold     *)
(* keep both.  Addresses of deleted blocks are used again.                 *)
(*                                                                         *)
(* The constructor of FastSharedPtr moves the local count to refCount when *)
(* it exceeds LocalLimit.  That branch is left out: the stack is modelled  *)
(* with so few threads (ThreadsAssumption in UnboundedLockFreeStack) that  *)
(* the count does not get there, which is proved there (LocalCountLow).    *)
(***************************************************************************)
EXTENDS Integers, FiniteSets

CONSTANTS
  Threads,
  Blocks,   \* the addresses of control blocks
  nullptr

VARIABLES
  packedPtr,  \* the block of the AtomicSharedPtr and its local count
  refCount,   \* of each block: the count in it
  live,       \* the blocks that are allocated
  prev_,      \* of each block: the SharedPtr that is a member of its object
  pc,         \* where each thread is
  ret,        \* where unref returns to
  todo,       \* the block that it unrefs
  top,        \* knownValue of the FastSharedPtr of compareExchange's caller
  holder,     \* knownValue of compareExchange's own FastSharedPtr
  ptr,        \* its SharedPtr newOne, to be put into the AtomicSharedPtr
  got,        \* the block of get()
  expected,   \* the expected value of its compare_exchange
  diff        \* what compareExchange has added to refCount for the local count

mvars == <<refCount, live, prev_>>
uvars == <<pc, ret, todo>>
fasts == <<top, holder>>
tvars == <<fasts, ptr, got, expected, diff>>

(* The local count above which the constructor of FastSharedPtr moves it.  *)
LocalLimit == 1000

Packed(b, n) == [block |-> b, count |-> n]
NoPacked == Packed(nullptr, 0)

(* A thread's FastSharedPtrs.                                              *)
FastPtrs == {"top", "holder"}
FastPtr(t, h) == IF h = "top" THEN top[t] ELSE holder[t]
ReleaseOf(h) == IF h = "top" THEN "release_top" ELSE "release_holder"

(* A thread goes to a label with the expected value e.                     *)
GoTo(t, label, e) ==
  /\ pc' = [pc EXCEPT ![t] = label]
  /\ expected' = [expected EXCEPT ![t] = e]

(* packedPtr.fetch_add(1) returns a value that, plus one, is Referenced.   *)
Referenced == Packed(packedPtr.block, packedPtr.count + 1)

(* The expected value with which a thread begins at a label: destroy() of  *)
(* a FastSharedPtr begins with its knownValue.                             *)
FirstExpected(label, newTop, newHolder) ==
  IF label = "release_top" THEN newTop
  ELSE IF label = "release_holder" THEN newHolder ELSE NoPacked

(***************************************************************************)
(* SharedPtr::unref, AtomicSharedPtr::destroyOldControlBlock and the end   *)
(* of FastSharedPtr::destroy: fetch_sub and, for the last reference, the   *)
(* deletion of object and block, which unrefs the object's SharedPtr in    *)
(* turn.  The loops over destructionQueue do that one by one.              *)
(***************************************************************************)
Decrement(t, b, next) ==
  LET last  == refCount[b] = 1
      chain == last /\ prev_[b] # nullptr
  IN  /\ refCount' = [refCount EXCEPT ![b] = @ - 1]
      /\ live' = IF last THEN live \ {b} ELSE live
      /\ prev_' = IF last THEN [prev_ EXCEPT ![b] = nullptr] ELSE prev_
      /\ todo' = [todo EXCEPT ![t] = IF chain THEN prev_[b] ELSE nullptr]
      /\ ret' = [ret EXCEPT ![t] = IF chain THEN next ELSE "none"]
      /\ IF chain THEN GoTo(t, "unref", NoPacked)
                  ELSE GoTo(t, next, FirstExpected(next, top[t], holder[t]))

Unref(t) ==
  /\ pc[t] = "unref"
  /\ Decrement(t, todo[t], ret[t])
  /\ UNCHANGED <<packedPtr, fasts, ptr, got, diff>>

(* A thread calls unref for block b.                                       *)
CallUnref(t, b, next) ==
  /\ pc' = [pc EXCEPT ![t] = "unref"]
  /\ todo' = [todo EXCEPT ![t] = b]
  /\ ret' = [ret EXCEPT ![t] = next]

(***************************************************************************)
(* FastSharedPtr.  getFast is the fetch_add of the constructor; h is the   *)
(* variable that the pointer is for.                                       *)
(***************************************************************************)
GetFast(t, h, next, e) ==
  /\ packedPtr' = Referenced
  /\ top' = IF h = "top" THEN [top EXCEPT ![t] = Referenced] ELSE top
  /\ holder' = IF h = "top" THEN holder ELSE [holder EXCEPT ![t] = Referenced]
  /\ GoTo(t, next, e)
  /\ UNCHANGED <<mvars, ret, todo, ptr, got, diff>>

(* A FastSharedPtr is gone, and rest is what the caller has left.          *)
Leave(t, rest) ==
  /\ top' = [top EXCEPT ![t] = rest]
  /\ holder' = [holder EXCEPT ![t] = NoPacked]

(* Mutation: the local reference is not given back.                        *)
ReleaseKept(t, h, next, rest) ==
  /\ pc[t] = ReleaseOf(h)
  /\ packedPtr = expected[t]
  /\ Leave(t, rest)
  /\ GoTo(t, next, FirstExpected(next, rest, NoPacked))
  /\ UNCHANGED <<packedPtr, mvars, ret, todo, ptr, got, diff>>

(* destroy(): give the local reference back, rest being the FastSharedPtr  *)
(* that remains.                                                           *)
Release(t, h, next, rest) ==
  /\ pc[t] = ReleaseOf(h)
  /\ packedPtr = expected[t]
  /\ packedPtr' = Packed(packedPtr.block, packedPtr.count - 1)
  /\ Leave(t, rest)
  /\ GoTo(t, next, FirstExpected(next, rest, NoPacked))
  /\ UNCHANGED <<mvars, ret, todo, ptr, got, diff>>

(* Mutation: a local reference that was moved within the same block is     *)
(* taken for one that is still counted in packedPtr.                       *)
ReleaseFailsAtZero(t, h) ==
  /\ pc[t] = ReleaseOf(h)
  /\ packedPtr.block = FastPtr(t, h).block
  /\ expected' = [expected EXCEPT ![t] = packedPtr]
  /\ UNCHANGED <<packedPtr, mvars, uvars, fasts, ptr, got, diff>>

(* compare_exchange_weak fails, also spuriously.                           *)
ReleaseFails(t, h) ==
  /\ pc[t] = ReleaseOf(h)
  /\ packedPtr.block = FastPtr(t, h).block /\ packedPtr.count # 0
  /\ expected' = [expected EXCEPT ![t] = packedPtr]
  /\ UNCHANGED <<packedPtr, mvars, uvars, fasts, ptr, got, diff>>

(* The local reference was moved to the block: it is given back there.     *)
ReleaseMoved(t, h, next, rest) ==
  /\ pc[t] = ReleaseOf(h)
  /\ packedPtr.block # FastPtr(t, h).block \/ packedPtr.count = 0
  /\ Leave(t, rest)
  /\ CallUnref(t, FastPtr(t, h).block, next)
  /\ expected' = [expected EXCEPT ![t] = NoPacked]
  /\ UNCHANGED <<packedPtr, mvars, ptr, got, diff>>

(***************************************************************************)
(* AtomicSharedPtr::get.                                                   *)
(***************************************************************************)
GetFetchAdd(t) ==
  /\ pc[t] = "get"
  /\ packedPtr' = Referenced
  /\ got' = [got EXCEPT ![t] = packedPtr.block]
  /\ GoTo(t, "get_ref", Referenced)
  /\ UNCHANGED <<mvars, ret, todo, fasts, ptr, diff>>

GetRef(t) ==
  /\ pc[t] = "get_ref"
  /\ refCount' = [refCount EXCEPT ![got[t]] = @ + 1]
  /\ pc' = [pc EXCEPT ![t] = "notify"]
  /\ UNCHANGED <<packedPtr, live, prev_, ret, todo, tvars>>

GetNotify(t, next) ==
  /\ pc[t] = "notify"
  /\ packedPtr = expected[t]
  /\ packedPtr' = Packed(packedPtr.block, packedPtr.count - 1)
  /\ GoTo(t, next, NoPacked)
  /\ UNCHANGED <<mvars, ret, todo, fasts, ptr, got, diff>>

(* compare_exchange_weak fails, also spuriously.                           *)
GetNotifyFails(t) ==
  /\ pc[t] = "notify"
  /\ IF packedPtr.block # got[t] \/ packedPtr.count = 0
     THEN GoTo(t, "get_unref", NoPacked)
     ELSE GoTo(t, "notify", packedPtr)
  /\ UNCHANGED <<packedPtr, mvars, ret, todo, fasts, ptr, got, diff>>

GetUnref(t, next) ==
  /\ pc[t] = "get_unref"
  /\ refCount' = [refCount EXCEPT ![got[t]] = @ - 1]
  /\ pc' = [pc EXCEPT ![t] = next]
  /\ UNCHANGED <<packedPtr, live, prev_, ret, todo, tvars>>

(***************************************************************************)
(* AtomicSharedPtr::compareExchange with the block e for expected and      *)
(* ptr[t] for newOne.  It has succeeded when newOne is nullptr.  Callers   *)
(* never give it e = newOne, for which it returns true at once.            *)
(***************************************************************************)
(* Mutation: the holder is not compared with e.                            *)
CompareNot(t, e) ==
  /\ pc[t] = "compare"
  /\ GetFast(t, "holder", "exchange", Packed(packedPtr.block, 0))

(* Mutation: compareExchange gives up, for its caller to repeat it, while  *)
(* another thread is in one: what a lock with TryLock around it would do.  *)
CompareAlone(t, e) ==
  /\ pc[t] = "compare"
  /\ IF packedPtr.block = e /\ \A u \in Threads : pc[u] \notin {"exchange", "zero", "take_back"}
     THEN GetFast(t, "holder", "exchange", Packed(e, 0))
     ELSE GetFast(t, "holder", "release_holder", Referenced)

Compare(t, e) ==
  /\ pc[t] = "compare"
  /\ IF packedPtr.block = e
     THEN GetFast(t, "holder", "exchange", Packed(e, 0))
     ELSE GetFast(t, "holder", "release_holder", Referenced)

(* The loop goes on while the holder's block is the one in packedPtr.      *)
Again(t, e) ==
  IF e.block = holder[t].block
  THEN GoTo(t, "exchange", e) ELSE GoTo(t, "release_holder", holder[t])

(* Mutation: the local references are dropped.                             *)
AddLocalNot(t) ==
  /\ pc[t] = "exchange" /\ expected[t].count # 0
  /\ diff' = [diff EXCEPT ![t] = expected[t].count]
  /\ pc' = [pc EXCEPT ![t] = "zero"]
  /\ UNCHANGED <<packedPtr, mvars, ret, todo, fasts, ptr, got, expected>>

AddLocal(t) ==
  /\ pc[t] = "exchange" /\ expected[t].count # 0
  /\ refCount' = [refCount EXCEPT ![holder[t].block] = @ + expected[t].count]
  /\ diff' = [diff EXCEPT ![t] = expected[t].count]
  /\ pc' = [pc EXCEPT ![t] = "zero"]
  /\ UNCHANGED <<packedPtr, live, prev_, ret, todo, fasts, ptr, got, expected>>

ZeroLocal(t) ==
  /\ pc[t] = "zero"
  /\ packedPtr = expected[t]
  /\ packedPtr' = Packed(packedPtr.block, 0)
  /\ diff' = [diff EXCEPT ![t] = 0]
  /\ pc' = [pc EXCEPT ![t] = "exchange"]
  /\ UNCHANGED <<mvars, ret, todo, fasts, ptr, got, expected>>

ZeroLocalFails(t) ==
  /\ pc[t] = "zero"
  /\ GoTo(t, "take_back", packedPtr)
  /\ UNCHANGED <<packedPtr, mvars, ret, todo, fasts, ptr, got, diff>>

(* Mutation: what was added is left in refCount.                           *)
TakeBackNot(t) ==
  /\ pc[t] = "take_back"
  /\ diff' = [diff EXCEPT ![t] = 0]
  /\ Again(t, expected[t])
  /\ UNCHANGED <<packedPtr, mvars, ret, todo, fasts, ptr, got>>

TakeBack(t) ==
  /\ pc[t] = "take_back"
  /\ refCount' = [refCount EXCEPT ![holder[t].block] = @ - diff[t]]
  /\ diff' = [diff EXCEPT ![t] = 0]
  /\ Again(t, expected[t])
  /\ UNCHANGED <<packedPtr, live, prev_, ret, todo, fasts, ptr, got>>

Exchange(t) ==
  /\ pc[t] = "exchange" /\ expected[t].count = 0
  /\ packedPtr = expected[t]
  /\ packedPtr' = Packed(ptr[t], 0)
  /\ ptr' = [ptr EXCEPT ![t] = nullptr]
  /\ pc' = [pc EXCEPT ![t] = "destroy_old"]
  /\ UNCHANGED <<mvars, ret, todo, fasts, got, expected, diff>>

ExchangeFails(t) ==
  /\ pc[t] = "exchange" /\ expected[t].count = 0
  /\ Again(t, packedPtr)
  /\ UNCHANGED <<packedPtr, mvars, ret, todo, fasts, ptr, got, diff>>

DestroyOldControlBlock(t) ==
  /\ pc[t] = "destroy_old"
  /\ Decrement(t, expected[t].block, "release_holder")
  /\ UNCHANGED <<packedPtr, fasts, ptr, got, diff>>

=============================================================================
