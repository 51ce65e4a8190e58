---------------------- MODULE BatchedBoundedSPSCQueue ----------------------
(***************************************************************************)
(* concurrent::queue::BatchedBoundedSPSCQueue and its SPSCQueueSlot        *)
(* (queue/batched_bounded_sp_sc_queue.h): the ring of BoundedSPSCQueue in  *)
(* which every place is a slot, a small queue with indices of its own.     *)
(* Emplace constructs its element at the address of the slot, that is in   *)
(* the slot's buffer_[0], and leaves the slot's indices alone:             *)
(* SPSCQueueSlot::Emplace and IsFull are never called.                     *)
(*                                                                         *)
(* Steps are as in BoundedSPSCQueue.  The indices of a slot are accessed   *)
(* by the consumer only, so its work on them belongs to its next access to *)
(* memory that the producer sees, or ends the call.                        *)
(***************************************************************************)
EXTENDS Integers

CONSTANTS
  BufferSize,       \* GetBufferSize(), a power of two: x & GetIndexMask() is x % BufferSize
  SlotSize,         \* kDefaultSlotSize
  MaxSlotDequeues,  \* the most times that one slot is dequeued from
  MaxSize           \* the most Emplaces by which the producer leads

ASSUME BoundsAssumption ==
  /\ BufferSize \in Nat /\ BufferSize > 1
  /\ SlotSize \in Nat
  /\ MaxSlotDequeues \in Nat /\ MaxSlotDequeues > 0
  /\ MaxSize \in Nat

VARIABLES
  element,       \* of each slot: was an element constructed in its buffer_[0]?
  slot_head_,    \* of each slot: its head_
  slot_tail_,    \* of each slot: its tail_
  tail_, cached_head_, head_, cached_tail_,  \* as in BoundedSPSCQueue
  ppc,           \* where the producer is in Emplace
  cpc,           \* where the consumer is in its call
  cop,           \* its current or last call
  front,         \* the place that Front's pointer refers to, until the next call
  size           \* history: the Emplaces minus the Dequeues that returned true

svars == <<element, slot_head_, slot_tail_>>
pvars == <<tail_, cached_head_, ppc>>
cvars == <<head_, cached_tail_, cpc, cop, front>>
vars == <<svars, pvars, cvars, size>>

Index == 0 .. BufferSize - 1

NextIndexUnmasked(i) == i + 1

NextIndex(i) == (i + 1) % BufferSize

nullptr == <<-1, -1>>

Init ==
  /\ element = [i \in Index |-> FALSE]
  /\ slot_head_ = [i \in Index |-> 0]
  /\ slot_tail_ = [i \in Index |-> 0]
  /\ tail_ = 0 /\ cached_head_ = 0 /\ head_ = 0 /\ cached_tail_ = 0
  /\ ppc = "idle" /\ cpc = "idle" /\ cop = "Front" /\ front = nullptr
  /\ size = 0

(***************************************************************************)
(* The producer: Emplace, and both forms of Enqueue.                       *)
(***************************************************************************)
Emplace ==
  /\ ppc = "idle"
  /\ size < MaxSize
  /\ ppc' = IF NextIndex(tail_) = cached_head_ THEN "load_head" ELSE "construct"
  /\ UNCHANGED <<svars, tail_, cached_head_, cvars, size>>

EmplaceLoadHead ==
  /\ ppc = "load_head"
  /\ cached_head_' = head_
  /\ ppc' = IF NextIndex(tail_) = head_ THEN "idle" ELSE "construct"
  /\ UNCHANGED <<svars, tail_, cvars, size>>

EmplaceConstruct ==
  /\ ppc = "construct"
  /\ element' = [element EXCEPT ![tail_] = TRUE]
  /\ ppc' = "store_tail"
  /\ UNCHANGED <<slot_head_, slot_tail_, tail_, cached_head_, cvars, size>>

EmplaceStoreTail ==
  /\ ppc = "store_tail"
  /\ tail_' = NextIndex(tail_)
  /\ size' = size + 1
  /\ ppc' = "idle"
  /\ UNCHANGED <<svars, cached_head_, cvars>>

(***************************************************************************)
(* The consumer: Front, with IsEmptyConsumer, and Dequeue.                 *)
(***************************************************************************)
IsEmpty(i) == slot_head_[i] = slot_tail_[i]

CallConsumer(op) ==
  /\ cpc = "idle"
  /\ slot_head_[head_] < MaxSlotDequeues
  /\ cop' = op /\ front' = nullptr
  /\ cpc' = IF ~IsEmpty(head_) THEN "use"
            ELSE IF head_ = cached_tail_ THEN "load_tail" ELSE "store_head"
  /\ UNCHANGED <<svars, pvars, head_, cached_tail_, size>>

MoveHeadLoadTailUnchecked ==
  /\ cpc = "load_tail"
  /\ cached_tail_' = tail_
  /\ cpc' = "store_head"
  /\ UNCHANGED <<svars, pvars, head_, cop, front, size>>

(* MoveHead, which goes on to the next slot.                               *)
MoveHeadLoadTail ==
  /\ cpc = "load_tail"
  /\ cached_tail_' = tail_
  /\ cpc' = IF head_ = tail_ THEN "idle" ELSE "store_head"
  /\ UNCHANGED <<svars, pvars, head_, cop, front, size>>

MoveHeadStore ==
  /\ cpc = "store_head"
  /\ head_' = NextIndex(head_)
  /\ cpc' = "use"
  /\ UNCHANGED <<svars, pvars, cached_tail_, cop, front, size>>

(* &buffer_[head_] of the slot.                                            *)
FrontReturn ==
  /\ cpc = "use" /\ cop = "Front"
  /\ front' = <<head_, slot_head_[head_]>>
  /\ cpc' = "idle"
  /\ UNCHANGED <<svars, pvars, head_, cached_tail_, cop, size>>

DequeueFromSlot ==
  /\ cpc = "use" /\ cop = "Dequeue"
  /\ slot_head_' = [slot_head_ EXCEPT ![head_] = @ + 1]
  /\ size' = size - 1
  /\ cpc' = "idle"
  /\ UNCHANGED <<element, slot_tail_, pvars, head_, cached_tail_, cop, front>>

Next ==
  \/ Emplace \/ EmplaceLoadHead \/ EmplaceConstruct \/ EmplaceStoreTail
  \/ \E op \in {"Front", "Dequeue"} : CallConsumer(op)
  \/ MoveHeadLoadTail \/ MoveHeadStore \/ FrontReturn \/ DequeueFromSlot

Spec == Init /\ [][Next]_vars

(***************************************************************************)
(* Properties.                                                             *)
(***************************************************************************)

(* Every index of the ring stays in the buffer.                            *)
TypeOK ==
  /\ element \in [Index -> BOOLEAN]
  /\ slot_head_ \in [Index -> 0 .. MaxSlotDequeues] /\ slot_tail_ \in [Index -> 0 .. SlotSize]
  /\ tail_ \in Index /\ cached_head_ \in Index /\ head_ \in Index /\ cached_tail_ \in Index
  /\ ppc \in {"idle", "load_head", "construct", "store_tail"}
  /\ cpc \in {"idle", "load_tail", "store_head", "use"}
  /\ cop \in {"Front", "Dequeue"} /\ front \in (Index \X (0 .. MaxSlotDequeues)) \cup {nullptr}
  /\ size \in Int /\ size <= MaxSize

(* The steps from one index of the ring to another.                        *)
Distance(from, to) == (to - from + BufferSize) % BufferSize

(* The slots do not upset the ring: though the consumer leaves a slot only *)
(* when a call finds it empty, and Front moves on as Dequeue does, the     *)
(* indices lie in the order cached_head_, head_, cached_tail_, tail_       *)
(* within less than a lap, and an Emplace that has found room, possibly    *)
(* with the stale copy of head_, keeps it until it stores tail_.           *)
RingOrder ==
  /\ Distance(cached_head_, head_) + Distance(head_, cached_tail_)
       + Distance(cached_tail_, tail_) < BufferSize
  /\ ppc \in {"construct", "store_tail"} => NextIndex(tail_) # cached_head_

(* The consumer pops what the producer has pushed: Dequeue does not return *)
(* true more often than Emplace, counting the Emplace in progress.         *)
NoPhantomDequeue == size + (IF ppc = "store_tail" THEN 1 ELSE 0) >= 0

=============================================================================
