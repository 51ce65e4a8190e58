------------------- MODULE BatchedBoundedSPSCQueueProofs -------------------
(***************************************************************************)
(* The ring of BatchedBoundedSPSCQueue stays in order for every buffer     *)
(* size, and its consumer never leaves a slot that it has dequeued from.   *)
(***************************************************************************)
EXTENDS BatchedBoundedSPSCQueue, TLAPS

(* The mask wraps an index around the end of the buffer.                   *)
LEMMA NextIndexWraps ==
  ASSUME NEW i \in Index
  PROVE  /\ NextIndex(i) \in Index
         /\ NextIndex(i) = IF i = BufferSize - 1 THEN 0 ELSE i + 1
BY BoundsAssumption DEF NextIndex, Index

(* What the four moves of the indices do to their order: MoveHeadLoadTail, *)
(* MoveHeadStore, EmplaceLoadHead and EmplaceStoreTail.                    *)
LEMMA RingMoves ==
  ASSUME NEW ch \in Index, NEW h \in Index, NEW ct \in Index, NEW t \in Index,
         Distance(ch, h) + Distance(h, ct) + Distance(ct, t) < BufferSize
  PROVE  /\ Distance(ch, h) + Distance(h, t) + Distance(t, t) < BufferSize
         /\ h # ct => Distance(ch, NextIndex(h)) + Distance(NextIndex(h), ct)
                        + Distance(ct, t) < BufferSize
         /\ Distance(h, h) + Distance(h, ct) + Distance(ct, t) < BufferSize
         /\ NextIndex(t) # ch => Distance(ch, h) + Distance(h, ct)
                                   + Distance(ct, NextIndex(t)) < BufferSize
<1>1. /\ NextIndex(h) = IF h = BufferSize - 1 THEN 0 ELSE h + 1
      /\ NextIndex(t) = IF t = BufferSize - 1 THEN 0 ELSE t + 1
  BY NextIndexWraps
<1> QED
  BY <1>1, BoundsAssumption DEF Distance, Index

(***************************************************************************)
(* The slots.  No call advances a slot's tail_, so a slot is empty exactly *)
(* as long as it has not been dequeued from.                               *)
(***************************************************************************)
SlotTypes ==
  /\ element \in [Index -> BOOLEAN]
  /\ slot_head_ \in [Index -> 0 .. MaxSlotDequeues]
  /\ slot_tail_ = [i \in Index |-> 0]

RingTypes ==
  /\ tail_ \in Index /\ cached_head_ \in Index /\ head_ \in Index /\ cached_tail_ \in Index
  /\ ppc \in {"idle", "load_head", "construct", "store_tail"}
  /\ cpc \in {"idle", "load_tail", "store_head", "use"}
  /\ cop \in {"Front", "Dequeue"}
  /\ front \in (Index \X (0 .. MaxSlotDequeues)) \cup {nullptr}
  /\ size \in Int /\ size <= MaxSize /\ (ppc # "idle" => size < MaxSize)

(* All slots but the one at head_ are untouched; the consumer is about to  *)
(* leave that one only if it is, too; and it has room to dequeue.          *)
OnlyHeadUsed ==
  /\ \A i \in Index \ {head_} : slot_head_[i] = 0
  /\ cpc \in {"load_tail", "store_head"} => slot_head_[head_] = 0
  /\ cpc = "use" => slot_head_[head_] < MaxSlotDequeues

(* head_ moves only towards a different cached_tail_.                      *)
ElementReserved == cpc = "store_head" => head_ # cached_tail_

Inv == SlotTypes /\ RingTypes /\ OnlyHeadUsed /\ ElementReserved /\ RingOrder

LEMMA InitInv == Init => Inv
<1> SUFFICES ASSUME Init PROVE Inv
  OBVIOUS
<1>1. 0 \in Index
  BY BoundsAssumption DEF Index
<1>2. SlotTypes /\ RingTypes /\ OnlyHeadUsed /\ ElementReserved
  BY <1>1, BoundsAssumption DEF Init, SlotTypes, RingTypes, OnlyHeadUsed, ElementReserved
<1>3. RingOrder
  BY BoundsAssumption DEF Init, RingOrder, Distance
<1> QED
  BY <1>2, <1>3 DEF Inv

(* The producer does not touch the indices of the slots.                   *)
LEMMA ProducerKeepsInv ==
  ASSUME Inv, Emplace \/ EmplaceLoadHead \/ EmplaceConstruct \/ EmplaceStoreTail
  PROVE  Inv'
<1>0. NextIndex(tail_) \in Index
  <2>1. tail_ \in Index
    BY DEF Inv, RingTypes
  <2> QED
    BY <2>1, NextIndexWraps
<1>a. ppc # "idle" => size + 1 \in Int /\ size + 1 <= MaxSize
  <2>1. size \in Int /\ (ppc # "idle" => size < MaxSize)
    BY DEF Inv, RingTypes
  <2> QED
    BY <2>1, BoundsAssumption
<1> USE DEF Inv, SlotTypes, RingTypes, OnlyHeadUsed, ElementReserved, cvars
<1>1. CASE Emplace
  BY <1>1 DEF Emplace, svars, RingOrder
<1>2. CASE EmplaceLoadHead
  <2>1. RingOrder'
    BY <1>2, RingMoves DEF EmplaceLoadHead, RingOrder
  <2> QED
    BY <1>2, <2>1 DEF EmplaceLoadHead, svars
<1>3. CASE EmplaceConstruct
  BY <1>3 DEF EmplaceConstruct, RingOrder
<1>4. CASE EmplaceStoreTail
  <2>1. RingOrder'
    BY <1>4, RingMoves DEF EmplaceStoreTail, RingOrder
  <2>2. size' \in Int /\ size' <= MaxSize
    BY <1>a, <1>4 DEF EmplaceStoreTail
  <2> QED
    BY <1>0, <1>4, <2>1, <2>2 DEF EmplaceStoreTail, svars
<1> QED
  BY <1>1, <1>2, <1>3, <1>4

(* The consumer goes on only from an untouched slot, to an untouched slot. *)
LEMMA ConsumerKeepsInv ==
  ASSUME Inv,
         \/ \E op \in {"Front", "Dequeue"} : CallConsumer(op)
         \/ MoveHeadLoadTail \/ MoveHeadStore \/ FrontReturn \/ DequeueFromSlot
  PROVE  Inv'
<1>0. head_ \in Index /\ NextIndex(head_) \in Index /\ NextIndex(head_) # head_
  <2>1. head_ \in Index
    BY DEF Inv, RingTypes
  <2> QED
    BY <2>1, NextIndexWraps, BoundsAssumption DEF Index
<1>a. slot_head_[NextIndex(head_)] < MaxSlotDequeues
  <2>1. slot_head_[NextIndex(head_)] = 0
    BY <1>0 DEF Inv, OnlyHeadUsed
  <2> QED
    BY <2>1, BoundsAssumption
<1>b. cpc = "use" => slot_head_[head_] + 1 \in 0 .. MaxSlotDequeues
  <2>1. slot_head_[head_] \in 0 .. MaxSlotDequeues
    BY <1>0 DEF Inv, SlotTypes
  <2>2. cpc = "use" => slot_head_[head_] < MaxSlotDequeues
    BY DEF Inv, OnlyHeadUsed
  <2> QED
    BY <2>1, <2>2, BoundsAssumption
<1>c. size - 1 \in Int /\ size - 1 < MaxSize /\ size - 1 <= MaxSize
  <2>1. size \in Int /\ size <= MaxSize
    BY DEF Inv, RingTypes
  <2> QED
    BY <2>1, BoundsAssumption
<1> USE DEF Inv, SlotTypes, RingTypes, OnlyHeadUsed, ElementReserved, pvars
<1>1. ASSUME NEW op \in {"Front", "Dequeue"}, CallConsumer(op)
      PROVE  Inv'
  <2>1. slot_tail_[head_] = 0
    OBVIOUS
  <2>2. RingOrder'
    BY <1>1 DEF CallConsumer, RingOrder
  <2> QED
    BY <1>1, <2>1, <2>2 DEF CallConsumer, IsEmpty, svars
<1>2. CASE MoveHeadLoadTail
  <2>1. RingOrder'
    BY <1>2, RingMoves DEF MoveHeadLoadTail, RingOrder
  <2> QED
    BY <1>2, <2>1 DEF MoveHeadLoadTail, svars
<1>3. CASE MoveHeadStore
  <2>1. RingOrder'
    BY <1>3, RingMoves DEF MoveHeadStore, RingOrder
  <2> QED
    BY <1>0, <1>a, <1>3, <2>1 DEF MoveHeadStore, svars
<1>4. CASE FrontReturn
  BY <1>4 DEF FrontReturn, svars, RingOrder
<1>5. CASE DequeueFromSlot
  <2>1. RingOrder'
    BY <1>5 DEF DequeueFromSlot, RingOrder
  <2>2. slot_head_' \in [Index -> 0 .. MaxSlotDequeues]
    BY <1>b, <1>5 DEF DequeueFromSlot
  <2>3. size' \in Int /\ size' <= MaxSize /\ (ppc # "idle" => size' < MaxSize)
    BY <1>c, <1>5 DEF DequeueFromSlot
  <2> QED
    BY <1>5, <2>1, <2>2, <2>3 DEF DequeueFromSlot
<1> QED
  BY <1>1, <1>2, <1>3, <1>4, <1>5

LEMMA NextInv == Inv /\ [Next]_vars => Inv'
<1>1. ASSUME Inv, UNCHANGED vars
      PROVE  Inv'
  BY <1>1 DEF vars, svars, pvars, cvars, Inv, SlotTypes, RingTypes, OnlyHeadUsed,
     ElementReserved, RingOrder
<1> QED
  BY <1>1, ProducerKeepsInv, ConsumerKeepsInv DEF Next

LEMMA InvHolds == Spec => []Inv
BY InitInv, NextInv, PTL DEF Spec

(* No index of the ring leaves the buffer, and no slot is dequeued from    *)
(* more often than the bound allows.                                       *)
THEOREM TypeCorrect == Spec => []TypeOK
<1>1. Inv => TypeOK
  <2>1. 0 \in 0 .. SlotSize
    BY BoundsAssumption
  <2> QED
    BY <2>1 DEF Inv, SlotTypes, RingTypes, TypeOK
<1> QED
  BY <1>1, InvHolds, PTL

(* However stale the copies with which Emplace and MoveHead decide, the    *)
(* indices of the ring stay in order within less than a lap.               *)
THEOREM RingInOrder == Spec => []RingOrder
<1>1. Inv => RingOrder
  BY DEF Inv
<1> QED
  BY <1>1, InvHolds, PTL

=============================================================================
