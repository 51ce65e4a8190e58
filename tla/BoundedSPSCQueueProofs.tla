----------------------- MODULE BoundedSPSCQueueProofs -----------------------
(***************************************************************************)
(* The indices of BoundedSPSCQueue stay in order and its two threads never *)
(* touch the same slot, for every buffer size, every set of elements and   *)
(* every way a move may leave an element behind.                           *)
(***************************************************************************)
EXTENDS BoundedSPSCQueue, SequenceTheorems, TLAPS

(* The mask is what wraps an index around the end of the buffer.           *)
LEMMA NextIndexWraps ==
  ASSUME NEW i \in Index
  PROVE  /\ NextIndex(i) \in Index
         /\ NextIndex(i) = IF i = BufferSize - 1 THEN 0 ELSE i + 1
BY BufferSizeAssumption DEF NextIndex, Index

(* Of two different indices the second is ahead of the first.              *)
LEMMA DistanceAhead ==
  ASSUME NEW i \in Index, NEW j \in Index, i # j
  PROVE  Distance(i, i) < Distance(i, j)
BY BufferSizeAssumption DEF Distance, Index

(* Four indices in ring order stay so when the first catches up with the   *)
(* second, when the third catches up with the fourth, when the second      *)
(* moves towards a different third, and when the fourth moves without      *)
(* reaching the first.                                                     *)
LEMMA RingOrder ==
  ASSUME NEW a \in Index, NEW b \in Index, NEW c \in Index, NEW d \in Index,
         Distance(a, b) + Distance(b, c) + Distance(c, d) < BufferSize
  PROVE  /\ Distance(b, b) + Distance(b, c) + Distance(c, d) < BufferSize
         /\ Distance(a, b) + Distance(b, d) + Distance(d, d) < BufferSize
         /\ b # c => Distance(a, NextIndex(b)) + Distance(NextIndex(b), c)
                        + Distance(c, d) < BufferSize
         /\ NextIndex(d) # a => Distance(a, b) + Distance(b, c)
                                  + Distance(c, NextIndex(d)) < BufferSize
<1>1. NextIndex(b) = IF b = BufferSize - 1 THEN 0 ELSE b + 1
  BY NextIndexWraps
<1>2. NextIndex(d) = IF d = BufferSize - 1 THEN 0 ELSE d + 1
  BY NextIndexWraps
<1> QED
  BY <1>1, <1>2, BufferSizeAssumption DEF Distance, Index

(* The filled slots: one more when the tail moves, one less when the head  *)
(* moves; and the slot at the tail is never one of them.                   *)
LEMMA RingSlots ==
  ASSUME NEW h \in Index, NEW t \in Index, NEW i \in Index
  PROVE  /\ NextIndex(t) # h /\ Distance(h, i) < Distance(h, NextIndex(t)) =>
              Distance(h, i) < Distance(h, t) \/ i = t
         /\ h # t /\ Distance(NextIndex(h), i) < Distance(NextIndex(h), t) =>
              Distance(h, i) < Distance(h, t) /\ i # h
         /\ Distance(h, i) < Distance(h, t) => i # t
<1>1. NextIndex(h) = IF h = BufferSize - 1 THEN 0 ELSE h + 1
  BY NextIndexWraps
<1>2. NextIndex(t) = IF t = BufferSize - 1 THEN 0 ELSE t + 1
  BY NextIndexWraps
<1> QED
  BY <1>1, <1>2, BufferSizeAssumption DEF Distance, Index

(* The real indices under the reservations that were made with the cached  *)
(* copies: the buffer is not full, the buffer is not empty.                *)
LEMMA Reservations ==
  ASSUME NEW a \in Index, NEW b \in Index, NEW c \in Index, NEW d \in Index,
         Distance(a, b) + Distance(b, c) + Distance(c, d) < BufferSize
  PROVE  /\ NextIndex(d) = b => NextIndex(d) = a
         /\ b = d => b = c
<1>1. NextIndex(d) = IF d = BufferSize - 1 THEN 0 ELSE d + 1
  BY NextIndexWraps
<1> QED
  BY <1>1, BufferSizeAssumption DEF Distance, Index

(* Where the consumer goes next depends on its call only.                  *)
LEMMA NotEmptyPlace ==
  ASSUME NEW op \in ConsumerOps
  PROVE  /\ NotEmpty(op) \in {"return", "move", "store_head"}
         /\ NotEmpty(op) = "return" <=> op = "Front"
         /\ NotEmpty(op) = "move" <=> op = "DequeueElement"
         /\ NotEmpty(op) = "store_head" <=> op = "Dequeue"
BY DEF NotEmpty, ConsumerOps

(* Every step keeps the indices inside the buffer.                         *)
LEMMA TypePreserved ==
  ASSUME TypeOK, [Next]_vars
  PROVE  TypeOK'
<1> USE DEF TypeOK
<1>1. ASSUME NEW v \in Values, Emplace(v)
      PROVE  TypeOK'
  BY <1>1 DEF Emplace, cvars
<1>2. CASE EmplaceLoadHead
  BY <1>2 DEF EmplaceLoadHead, cvars
<1>3. CASE EmplaceConstruct
  BY <1>3 DEF EmplaceConstruct, cvars
<1>4. CASE EmplaceStoreTail
  BY <1>4, NextIndexWraps DEF EmplaceStoreTail, cvars
<1>5. ASSUME NEW op \in ConsumerOps, CallConsumer(op)
      PROVE  TypeOK'
  BY <1>5, NotEmptyPlace DEF CallConsumer, pvars
<1>6. CASE ConsumerLoadTail
  BY <1>6, NotEmptyPlace DEF ConsumerLoadTail, pvars
<1>7. CASE FrontReturn
  BY <1>7 DEF FrontReturn, pvars
<1>8. CASE DequeueMove
  BY <1>8, ValuesAssumption DEF DequeueMove, pvars
<1>9. CASE DequeueStoreHead
  BY <1>9, NextIndexWraps DEF DequeueStoreHead, pvars
<1>10. CASE UNCHANGED vars
  BY <1>10 DEF vars, pvars, cvars
<1> QED
  BY <1>1, <1>2, <1>3, <1>4, <1>5, <1>6, <1>7, <1>8, <1>9, <1>10
     DEF Next, ProducerStep, ConsumerStep

(* Every index stays inside the buffer, every variable in its range:       *)
(* TypeOK is inductive by itself.                                          *)
THEOREM TypeCorrect == Spec => []TypeOK
<1>1. Init => TypeOK
  <2>1. 0 \in Index
    BY BufferSizeAssumption DEF Index
  <2> QED
    BY <2>1 DEF Init, TypeOK, ConsumerOps
<1>2. TypeOK /\ [Next]_vars => TypeOK'
  BY TypePreserved
<1> QED
  BY <1>1, <1>2, PTL DEF Spec

(* The parts of the invariant that relate the indices do not mention the   *)
(* elements, and are preserved by themselves.                              *)
OrderInv == IndexOrder /\ RoomReserved /\ ElementReserved /\ FrontIsHead

(* A cached copy only catches up with the index it copies, and an index    *)
(* moves only after a test against a copy that lags behind: the ring order *)
(* and the reservations made with it survive every step.                   *)
LEMMA OrderPreserved ==
  ASSUME TypeOK, OrderInv, [Next]_vars
  PROVE  OrderInv'
<1> USE DEF OrderInv, IndexOrder, RoomReserved, ElementReserved, FrontIsHead
<1>0. /\ tail_ \in Index /\ cached_head_ \in Index
      /\ head_ \in Index /\ cached_tail_ \in Index
      /\ cop \in ConsumerOps
  BY DEF TypeOK
<1>1. ASSUME NEW v \in Values, Emplace(v)
      PROVE  OrderInv'
  BY <1>0, <1>1 DEF Emplace, cvars
<1>2. CASE EmplaceLoadHead
  BY <1>0, <1>2, RingOrder DEF EmplaceLoadHead, cvars
<1>3. CASE EmplaceConstruct
  BY <1>0, <1>3 DEF EmplaceConstruct, cvars
<1>4. CASE EmplaceStoreTail
  BY <1>0, <1>4, RingOrder DEF EmplaceStoreTail, cvars
<1>5. ASSUME NEW op \in ConsumerOps, CallConsumer(op)
      PROVE  OrderInv'
  BY <1>0, <1>5, NotEmptyPlace DEF CallConsumer, pvars
<1>6. CASE ConsumerLoadTail
  BY <1>0, <1>6, RingOrder, NotEmptyPlace DEF ConsumerLoadTail, pvars
<1>7. CASE FrontReturn
  BY <1>0, <1>7 DEF FrontReturn, pvars
<1>8. CASE DequeueMove
  BY <1>0, <1>8 DEF DequeueMove, pvars
<1>9. CASE DequeueStoreHead
  BY <1>0, <1>9, RingOrder DEF DequeueStoreHead, pvars
<1>10. CASE UNCHANGED vars
  BY <1>10 DEF vars, pvars, cvars
<1> QED
  BY <1>1, <1>2, <1>3, <1>4, <1>5, <1>6, <1>7, <1>8, <1>9, <1>10
     DEF Next, ProducerStep, ConsumerStep

(* The reservations that were made with the cached copies hold for the     *)
(* real indices.                                                           *)
LEMMA RealReservations ==
  ASSUME TypeOK, OrderInv
  PROVE  /\ ppc \in {"construct", "store_tail"} => NextIndex(tail_) # head_
         /\ cpc \in {"return", "move", "store_head"} => head_ # tail_
         /\ front # nullptr => front = head_ /\ head_ # tail_
<1>0. /\ tail_ \in Index /\ cached_head_ \in Index
      /\ head_ \in Index /\ cached_tail_ \in Index
  BY DEF TypeOK
<1>1. Distance(cached_head_, head_) + Distance(head_, cached_tail_)
        + Distance(cached_tail_, tail_) < BufferSize
  BY DEF OrderInv, IndexOrder
<1>2. /\ NextIndex(tail_) = head_ => NextIndex(tail_) = cached_head_
      /\ head_ = tail_ => head_ = cached_tail_
  BY <1>0, <1>1, Reservations
<1> QED
  BY <1>2 DEF OrderInv, RoomReserved, ElementReserved, FrontIsHead

(* The parts of the invariant that say where the elements are.             *)
ElementInv == FilledSlots /\ Constructed /\ MovedElement

(* A reserved slot is left alone by the other thread, so what Emplace has  *)
(* constructed is what Dequeue finds.                                      *)
LEMMA ElementsPreserved ==
  ASSUME TypeOK, OrderInv, ElementInv, [Next]_vars
  PROVE  ElementInv'
<1> USE DEF ElementInv, FilledSlots, Constructed, MovedElement, GetSize
<1>0. /\ tail_ \in Index /\ cached_head_ \in Index
      /\ head_ \in Index /\ cached_tail_ \in Index
      /\ cop \in ConsumerOps
      /\ buffer_ \in [Index -> Values \cup {NoValue}]
      /\ ppc # "idle" => parg \in Values
  BY DEF TypeOK
<1>a. /\ ppc \in {"construct", "store_tail"} => NextIndex(tail_) # head_
      /\ cpc \in {"return", "move", "store_head"} => head_ # tail_
  BY RealReservations
<1>1. ASSUME NEW v \in Values, Emplace(v)
      PROVE  ElementInv'
  BY <1>0, <1>1 DEF Emplace, cvars, Distance
<1>2. CASE EmplaceLoadHead
  BY <1>0, <1>2 DEF EmplaceLoadHead, cvars, Distance
<1>3. CASE EmplaceConstruct
  BY <1>0, <1>3 DEF EmplaceConstruct, cvars, Distance
<1>4. CASE EmplaceStoreTail
  BY <1>0, <1>a, <1>4, RingSlots DEF EmplaceStoreTail, cvars
<1>5. ASSUME NEW op \in ConsumerOps, CallConsumer(op)
      PROVE  ElementInv'
  BY <1>0, <1>5, NotEmptyPlace DEF CallConsumer, pvars, Distance
<1>6. CASE ConsumerLoadTail
  BY <1>0, <1>6, NotEmptyPlace DEF ConsumerLoadTail, pvars, Distance
<1>7. CASE FrontReturn
  BY <1>0, <1>7 DEF FrontReturn, pvars, Distance
<1>8. CASE DequeueMove
  <2>1. head_ # tail_ /\ Distance(head_, head_) < Distance(head_, tail_)
    <3>1. head_ # tail_
      BY <1>a, <1>8 DEF DequeueMove
    <3> QED
      BY <1>0, <3>1, DistanceAhead
  <2>2. buffer_[head_] \in Values
    BY <1>0, <1>8, <2>1 DEF DequeueMove
  <2>3. /\ \A i \in Index : i # head_ => buffer_'[i] = buffer_[i]
        /\ cval' \in Values /\ cop = "DequeueElement" /\ cpc' = "store_head"
        /\ UNCHANGED <<head_, tail_, ppc, parg, cop>>
    BY <1>0, <1>8, <2>2 DEF DequeueMove, pvars
  <2> QED
    BY <1>0, <1>8, <2>1, <2>3 DEF DequeueMove, Distance
<1>9. CASE DequeueStoreHead
  BY <1>0, <1>a, <1>9, RingSlots DEF DequeueStoreHead, pvars
<1>10. CASE UNCHANGED vars
  BY <1>10 DEF vars, pvars, cvars, Distance
<1> QED
  BY <1>1, <1>2, <1>3, <1>4, <1>5, <1>6, <1>7, <1>8, <1>9, <1>10
     DEF Next, ProducerStep, ConsumerStep

(* However stale the cached copies are, a slot is reserved before it is    *)
(* used and holds an element when it is dequeued: IInv is inductive.       *)
THEOREM InvariantHolds == Spec => []IInv
<1> USE DEF IInv, OrderInv, ElementInv
<1>1. Init => IInv
  <2> SUFFICES ASSUME Init
               PROVE  IInv
    OBVIOUS
  <2>1. 0 \in Index
    BY BufferSizeAssumption DEF Index
  <2>2. TypeOK
    BY <2>1 DEF Init, TypeOK, ConsumerOps
  <2>3. IndexOrder
    BY BufferSizeAssumption DEF Init, IndexOrder, Distance
  <2>4. RoomReserved /\ ElementReserved /\ FrontIsHead
    BY DEF Init, RoomReserved, ElementReserved, FrontIsHead
  <2>5. Constructed /\ MovedElement
    BY DEF Init, Constructed, MovedElement
  <2>6. FilledSlots
    BY BufferSizeAssumption DEF Init, FilledSlots, GetSize, Distance, Index
  <2> QED
    BY <2>2, <2>3, <2>4, <2>5, <2>6
<1>2. IInv /\ [Next]_vars => IInv'
  <2> SUFFICES ASSUME IInv, [Next]_vars
               PROVE  IInv'
    OBVIOUS
  <2>1. TypeOK'
    BY TypePreserved
  <2>2. OrderInv'
    BY OrderPreserved
  <2>3. ElementInv'
    BY ElementsPreserved
  <2> QED
    BY <2>1, <2>2, <2>3
<1> QED
  BY <1>1, <1>2, PTL DEF Spec

(* The producer's plain accesses to a slot never race with the consumer's, *)
(* neither with Dequeue's nor with those through the pointer from Front.   *)
THEOREM SlotsDoNotRace == Spec => []NoSlotRace
<1>1. IInv => NoSlotRace
  <2> SUFFICES ASSUME IInv, ppc = "construct"
               PROVE  /\ cpc = "move" => head_ # tail_
                      /\ front # tail_
    BY DEF NoSlotRace
  <2>1. /\ tail_ \in Index /\ cached_head_ \in Index
        /\ head_ \in Index /\ cached_tail_ \in Index
    BY DEF IInv, TypeOK
  <2>2. head_ = tail_ => head_ = cached_tail_
    BY <2>1, Reservations DEF IInv, IndexOrder
  <2>3. cpc = "move" => head_ # tail_
    BY <2>2 DEF IInv, ElementReserved
  <2>4. front # tail_
    <3>1. tail_ # nullptr
      BY <2>1, BufferSizeAssumption DEF Index, nullptr
    <3> QED
      BY <2>2, <3>1 DEF IInv, FrontIsHead
  <2> QED
    BY <2>3, <2>4
<1> QED
  BY <1>1, InvariantHolds, PTL
(***************************************************************************)
(* The refinement of FIFOQueue.                                            *)
(***************************************************************************)
Elements == Values \cup {NoValue}

(* The slot of the i-th element.                                           *)
LEMMA RingAt ==
  ASSUME NEW h \in Index, NEW i \in 1 .. BufferSize
  PROVE  /\ (h + i - 1) % BufferSize =
              IF h + i - 1 < BufferSize THEN h + i - 1 ELSE h + i - 1 - BufferSize
         /\ (h + i - 1) % BufferSize \in Index
BY BufferSizeAssumption DEF Index

LEMMA DistanceRange ==
  ASSUME NEW h \in Index, NEW t \in Index
  PROVE  /\ Distance(h, t) \in 0 .. BufferSize - 1
         /\ Distance(h, t) = 0 <=> h = t
         /\ Distance(h, t) = BufferSize - 1 <=> NextIndex(t) = h
<1>1. NextIndex(t) = IF t = BufferSize - 1 THEN 0 ELSE t + 1
  BY NextIndexWraps
<1> QED
  BY <1>1, BufferSizeAssumption DEF Distance, Index

(* The elements lie in different slots, none of them at the tail; the next *)
(* one goes to the tail, and when the head moves the i-th element is the   *)
(* one that was next to it.                                                *)
LEMMA RingPositions ==
  ASSUME NEW h \in Index, NEW t \in Index
  PROVE  /\ \A i \in 1 .. Distance(h, t) :
              /\ (h + i - 1) % BufferSize \in Index
              /\ (h + i - 1) % BufferSize # t
              /\ (h + i - 1) % BufferSize = h <=> i = 1
         /\ NextIndex(t) # h =>
              /\ Distance(h, NextIndex(t)) = Distance(h, t) + 1
              /\ (h + (Distance(h, t) + 1) - 1) % BufferSize = t
         /\ h # t =>
              /\ Distance(NextIndex(h), t) = Distance(h, t) - 1
              /\ \A i \in 1 .. Distance(h, t) - 1 :
                   (NextIndex(h) + i - 1) % BufferSize = (h + (i + 1) - 1) % BufferSize
<1>1. /\ NextIndex(t) = IF t = BufferSize - 1 THEN 0 ELSE t + 1
      /\ NextIndex(h) = IF h = BufferSize - 1 THEN 0 ELSE h + 1
      /\ NextIndex(h) \in Index
  BY NextIndexWraps
<1>2. Distance(h, t) \in 0 .. BufferSize - 1
  BY DistanceRange
<1>3. BufferSize \in Nat /\ BufferSize > 1
  BY BufferSizeAssumption
<1>4. ASSUME NEW i \in 1 .. Distance(h, t)
      PROVE  /\ (h + i - 1) % BufferSize \in Index
             /\ (h + i - 1) % BufferSize # t
             /\ (h + i - 1) % BufferSize = h <=> i = 1
  <2>1. i \in 1 .. BufferSize
    BY <1>2, <1>3
  <2>2. /\ (h + i - 1) % BufferSize =
             IF h + i - 1 < BufferSize THEN h + i - 1 ELSE h + i - 1 - BufferSize
        /\ (h + i - 1) % BufferSize \in Index
    BY <2>1, RingAt
  <2> QED
    BY <1>3, <2>1, <2>2 DEF Distance, Index
<1>5. ASSUME NextIndex(t) # h
      PROVE  /\ Distance(h, NextIndex(t)) = Distance(h, t) + 1
             /\ (h + (Distance(h, t) + 1) - 1) % BufferSize = t
  <2>1. Distance(h, NextIndex(t)) = Distance(h, t) + 1
    BY <1>1, <1>3, <1>5 DEF Distance, Index
  <2>2. Distance(h, t) + 1 \in 1 .. BufferSize
    BY <1>2, <1>3
  <2>3. (h + (Distance(h, t) + 1) - 1) % BufferSize =
          IF h + (Distance(h, t) + 1) - 1 < BufferSize
            THEN h + (Distance(h, t) + 1) - 1
            ELSE h + (Distance(h, t) + 1) - 1 - BufferSize
    BY <2>2, RingAt
  <2>4. (h + (Distance(h, t) + 1) - 1) % BufferSize = t
    BY <1>3, <2>3 DEF Distance, Index
  <2> QED
    BY <2>1, <2>4
<1>6. ASSUME h # t
      PROVE  Distance(NextIndex(h), t) = Distance(h, t) - 1
  BY <1>1, <1>3, <1>6 DEF Distance, Index
<1>7. ASSUME NEW i \in 1 .. Distance(h, t) - 1
      PROVE  (NextIndex(h) + i - 1) % BufferSize = (h + (i + 1) - 1) % BufferSize
  <2>1. i \in 1 .. BufferSize /\ i + 1 \in 1 .. BufferSize
    BY <1>2, <1>3
  <2>2. (h + (i + 1) - 1) % BufferSize =
          IF h + (i + 1) - 1 < BufferSize THEN h + (i + 1) - 1
                                          ELSE h + (i + 1) - 1 - BufferSize
    BY <2>1, RingAt
  <2>3. (NextIndex(h) + i - 1) % BufferSize =
          IF NextIndex(h) + i - 1 < BufferSize THEN NextIndex(h) + i - 1
                                               ELSE NextIndex(h) + i - 1 - BufferSize
    BY <1>1, <2>1, RingAt
  <2> QED
    BY <1>1, <1>3, <2>1, <2>2, <2>3 DEF Index
<1> QED
  BY <1>4, <1>5, <1>6, <1>7

(* What Contents is, as a sequence.                                        *)
ContentsShape ==
  /\ GetSize \in Nat /\ GetSize < BufferSize
  /\ Contents \in Seq(Elements)
  /\ Len(Contents) = GetSize
  /\ \A i \in 1 .. GetSize :
       Contents[i] = IF i = 1 /\ cpc = "store_head" /\ cop = "DequeueElement"
                       THEN cval
                       ELSE buffer_[(head_ + i - 1) % BufferSize]

LEMMA ContentsSequence == TypeOK => ContentsShape
<1> SUFFICES ASSUME TypeOK
             PROVE  ContentsShape
  OBVIOUS
<1>1. /\ GetSize \in Nat /\ GetSize < BufferSize
      /\ \A i \in 1 .. GetSize : (head_ + i - 1) % BufferSize \in Index
  <2>1. head_ \in Index /\ tail_ \in Index
    BY DEF TypeOK
  <2>2. GetSize \in 0 .. BufferSize - 1
    BY <2>1, DistanceRange DEF GetSize
  <2>3. \A i \in 1 .. GetSize : (head_ + i - 1) % BufferSize \in Index
    BY <2>1, RingPositions DEF GetSize
  <2> QED
    BY <2>2, <2>3, BufferSizeAssumption
<1>2. buffer_ \in [Index -> Elements] /\ cval \in Elements
  BY DEF TypeOK, Elements
<1>3. Contents \in [1 .. GetSize -> Elements]
  BY <1>1, <1>2 DEF Contents
<1>4. Contents \in Seq(Elements) /\ Len(Contents) = GetSize
  BY <1>1, <1>3
<1> QED
  BY <1>1, <1>4 DEF ContentsShape, Contents

LEMMA SameContents ==
  ASSUME ContentsShape, ContentsShape', GetSize' = GetSize,
         \A i \in 1 .. GetSize : Contents'[i] = Contents[i]
  PROVE  Contents' = Contents
<1>1. /\ Contents \in Seq(Elements) /\ Contents' \in Seq(Elements)
      /\ Len(Contents) = GetSize /\ Len(Contents') = GetSize
  BY DEF ContentsShape
<1> QED
  BY <1>1, SeqEqual

(* Emplace takes effect when it stores tail_, or when it finds head_ one   *)
(* slot ahead; the slot in which it constructs is not part of the queue.   *)
LEMMA EmplaceRefines ==
  ASSUME IInv, ContentsShape, ContentsShape',
         (\E v \in Values : Emplace(v)) \/ ProducerStep
  PROVE  [FIFO!Next]_(FIFO!vars)
<1>0. /\ tail_ \in Index /\ head_ \in Index
      /\ buffer_ \in [Index -> Values \cup {NoValue}]
      /\ ppc \in {"idle", "load_head", "construct", "store_tail"}
      /\ ppc # "idle" => parg \in Values
  BY DEF IInv, TypeOK
<1>a. /\ ppc \in {"construct", "store_tail"} => NextIndex(tail_) # head_
      /\ cpc \in {"return", "move", "store_head"} => head_ # tail_
      /\ front # nullptr => front = head_ /\ head_ # tail_
  BY RealReservations DEF IInv, OrderInv
<1>b. UNCHANGED cvars
  BY DEF ProducerStep, Emplace, EmplaceLoadHead, EmplaceConstruct, EmplaceStoreTail
<1>1. ASSUME NEW v \in Values, Emplace(v)
      PROVE  FIFO!CallEmplace(v)
  <2>1. Contents' = Contents /\ Consumer' = Consumer
    BY <1>1 DEF Emplace, cvars, Contents, GetSize, Distance, Consumer
  <2>2. ppc = "idle" /\ ppc' # "idle" /\ parg' = v /\ pok' = pok
    BY <1>1 DEF Emplace
  <2>3. ~Producer.busy /\ Producer.ok = pok
    BY <2>2 DEF Producer
  <2>4. Producer' = [busy |-> TRUE, arg |-> v, ok |-> pok]
    BY <2>2 DEF Producer
  <2> QED
    BY <2>1, <2>3, <2>4 DEF FIFO!CallEmplace
<1>2. CASE EmplaceLoadHead
  <2>1. Contents' = Contents /\ Consumer' = Consumer
    BY <1>2 DEF EmplaceLoadHead, cvars, Contents, GetSize, Distance, Consumer
  <2>2. CASE NextIndex(tail_) = head_
    <3>1. Len(Contents) = BufferSize - 1
      BY <1>0, <2>2, DistanceRange DEF ContentsShape, GetSize
    <3>2. Producer.busy /\ Producer.arg = parg
      BY <1>2 DEF EmplaceLoadHead, Producer
    <3>3. Producer' = [busy |-> FALSE, arg |-> parg, ok |-> FALSE]
      BY <1>2, <2>2 DEF EmplaceLoadHead, Producer
    <3>4. FIFO!EmplaceRefused
      BY <2>1, <3>1, <3>2, <3>3 DEF FIFO!EmplaceRefused
    <3> QED
      BY <3>4 DEF FIFO!Next
  <2>3. CASE NextIndex(tail_) # head_
    <3>1. Producer' = Producer
      BY <1>2, <2>3 DEF EmplaceLoadHead, Producer
    <3> QED
      BY <2>1, <3>1 DEF FIFO!vars
  <2> QED
    BY <2>2, <2>3
<1>3. CASE EmplaceConstruct
  <2>1. /\ UNCHANGED <<head_, tail_, cpc, cop, cval, front, cok>>
        /\ GetSize' = GetSize
        /\ \A i \in Index : i # tail_ => buffer_'[i] = buffer_[i]
    BY <1>0, <1>3 DEF EmplaceConstruct, cvars, GetSize, Distance
  <2>2. \A i \in 1 .. GetSize : /\ (head_ + i - 1) % BufferSize \in Index
                                /\ (head_ + i - 1) % BufferSize # tail_
    BY <1>0, RingPositions DEF GetSize
  <2>3. Contents' = Contents
    <3>1. \A i \in 1 .. GetSize : Contents'[i] = Contents[i]
      BY <2>1, <2>2 DEF ContentsShape
    <3> QED
      BY <2>1, <3>1, SameContents
  <2>4. Consumer' = Consumer
    <3>1. front # nullptr => buffer_'[front] = buffer_[front]
      BY <1>0, <1>a, <2>1
    <3> QED
      BY <2>1, <3>1 DEF Consumer
  <2>5. Producer' = Producer
    BY <1>3 DEF EmplaceConstruct, Producer
  <2> QED
    BY <2>3, <2>4, <2>5 DEF FIFO!vars
<1>4. CASE EmplaceStoreTail
  <2>1. /\ UNCHANGED <<head_, cpc, cop, cval, front, cok, buffer_, parg>>
        /\ tail_' = NextIndex(tail_) /\ ppc = "store_tail"
        /\ NextIndex(tail_) # head_
        /\ parg \in Values /\ buffer_[tail_] = parg
    BY <1>0, <1>a, <1>4 DEF EmplaceStoreTail, cvars, IInv, Constructed
  <2>2. /\ GetSize' = GetSize + 1
        /\ (head_ + (GetSize + 1) - 1) % BufferSize = tail_
    BY <1>0, <2>1, RingPositions DEF GetSize
  <2>3. GetSize \in Nat /\ GetSize < BufferSize - 1
    <3>1. GetSize \in Nat /\ GetSize' < BufferSize
      BY DEF ContentsShape
    <3> QED
      BY <2>2, <3>1, BufferSizeAssumption
  <2>4. cpc = "store_head" => GetSize # 0
    BY <1>0, <1>a, DistanceRange DEF GetSize
  <2>5. Contents' = Append(Contents, parg)
    <3>1. /\ Contents \in Seq(Elements) /\ Contents' \in Seq(Elements)
          /\ parg \in Elements
          /\ Len(Contents) = GetSize /\ Len(Contents') = GetSize + 1
      BY <2>1, <2>2 DEF ContentsShape, Elements
    <3>2. /\ Append(Contents, parg) \in Seq(Elements)
          /\ Len(Append(Contents, parg)) = GetSize + 1
          /\ \A i \in 1 .. GetSize : Append(Contents, parg)[i] = Contents[i]
          /\ Append(Contents, parg)[GetSize + 1] = parg
      BY <3>1, AppendProperties
    <3>3. ASSUME NEW i \in 1 .. GetSize + 1
          PROVE  Contents'[i] = Append(Contents, parg)[i]
      <4>0. Contents'[i] = IF i = 1 /\ cpc = "store_head" /\ cop = "DequeueElement"
                             THEN cval
                             ELSE buffer_[(head_ + i - 1) % BufferSize]
        <5>1. i \in 1 .. GetSize'
          BY <2>2
        <5> QED
          BY <2>1, <5>1 DEF ContentsShape
      <4>1. CASE i \in 1 .. GetSize
        BY <3>2, <4>0, <4>1 DEF ContentsShape
      <4>2. CASE i = GetSize + 1
        <5>1. ~(i = 1 /\ cpc = "store_head")
          BY <2>3, <2>4, <4>2
        <5> QED
          BY <2>1, <2>2, <3>2, <4>0, <4>2, <5>1
      <4>3. i \in 1 .. GetSize \/ i = GetSize + 1
        BY <2>3
      <4> QED
        BY <4>1, <4>2, <4>3
    <3> QED
      BY <3>1, <3>2, <3>3, SeqEqual
  <2>6. Consumer' = Consumer
    BY <2>1 DEF Consumer
  <2>7. Producer.busy /\ Producer.arg = parg
    BY <1>4 DEF EmplaceStoreTail, Producer
  <2>8. Producer' = [busy |-> FALSE, arg |-> parg, ok |-> TRUE]
    BY <1>4 DEF EmplaceStoreTail, Producer
  <2>9. Len(Contents) < BufferSize - 1
    BY <2>3 DEF ContentsShape
  <2>10. FIFO!Emplace
    BY <2>5, <2>6, <2>7, <2>8, <2>9 DEF FIFO!Emplace
  <2> QED
    BY <2>10 DEF FIFO!Next
<1> QED
  BY <1>1, <1>2, <1>3, <1>4 DEF ProducerStep, FIFO!Next

(* Front and Dequeue take effect when they find the queue empty, Front     *)
(* when it returns, Dequeue when it stores head_: until then the element   *)
(* that Dequeue(T&) has moved out still counts as the oldest.              *)
LEMMA ConsumerRefines ==
  ASSUME IInv, ContentsShape, ContentsShape',
         (\E op \in ConsumerOps : CallConsumer(op)) \/ ConsumerStep
  PROVE  [FIFO!Next]_(FIFO!vars)
<1>0. /\ tail_ \in Index /\ head_ \in Index
      /\ buffer_ \in [Index -> Values \cup {NoValue}]
      /\ cpc \in {"idle", "load_tail", "return", "move", "store_head"}
      /\ cop \in ConsumerOps
  BY DEF IInv, TypeOK
<1>a. /\ cpc \in {"return", "move", "store_head"} => head_ # tail_
      /\ front # nullptr => cpc = "idle"
  BY RealReservations DEF IInv, OrderInv, FrontIsHead
<1>b. Producer' = Producer
  BY DEF ConsumerStep, CallConsumer, ConsumerLoadTail, FrontReturn, DequeueMove,
         DequeueStoreHead, pvars, Producer
<1>c. MovedElement
  BY DEF IInv
<1>1. ASSUME NEW op \in ConsumerOps, CallConsumer(op)
      PROVE  FIFO!CallConsumer(op)
  <2>1. /\ UNCHANGED <<head_, tail_, buffer_, cok>> /\ cpc = "idle"
        /\ cpc' # "idle" /\ cop' = op
        /\ ~(cpc' = "store_head" /\ cop' = "DequeueElement")
    BY <1>1, NotEmptyPlace DEF CallConsumer, pvars
  <2>2. Contents' = Contents
    BY <2>1 DEF Contents, GetSize, Distance
  <2>3. ~Consumer.busy /\ Consumer.ok = cok
    BY <2>1 DEF Consumer
  <2>4. Consumer' = [busy |-> TRUE, op |-> op, ok |-> cok, val |-> NoValue]
    BY <2>1 DEF Consumer
  <2> QED
    BY <1>b, <2>2, <2>3, <2>4 DEF FIFO!CallConsumer
<1>2. CASE ConsumerLoadTail
  <2>1. /\ UNCHANGED <<head_, tail_, buffer_, cop, cval, front>> /\ cpc = "load_tail"
        /\ ~(cpc' = "store_head" /\ cop' = "DequeueElement")
    BY <1>0, <1>2, NotEmptyPlace DEF ConsumerLoadTail, pvars
  <2>2. Contents' = Contents
    BY <2>1 DEF Contents, GetSize, Distance
  <2>3. CASE head_ = tail_
    <3>1. Contents = << >>
      <4>1. Len(Contents) = 0 /\ Contents \in Seq(Elements)
        BY <1>0, <2>3, DistanceRange DEF ContentsShape, GetSize
      <4> QED
        BY <4>1, EmptySeq
    <3>2. /\ Consumer.busy /\ Consumer.op = cop
          /\ Consumer' = [busy |-> FALSE, op |-> cop, ok |-> FALSE, val |-> NoValue]
      <4>1. cpc' = "idle" /\ cok' = FALSE /\ front = nullptr /\ cval = NoValue
        BY <1>a, <1>c, <1>2, <2>1, <2>3 DEF ConsumerLoadTail, MovedElement
      <4> QED
        BY <2>1, <4>1 DEF Consumer
    <3>3. FIFO!ConsumerEmpty
      BY <1>b, <2>2, <3>1, <3>2 DEF FIFO!ConsumerEmpty
    <3> QED
      BY <3>3 DEF FIFO!Next
  <2>4. CASE head_ # tail_
    <3>1. cpc' # "idle" /\ cok' = cok
      BY <1>0, <1>2, <2>4, NotEmptyPlace DEF ConsumerLoadTail
    <3>2. Consumer' = Consumer
      BY <2>1, <3>1 DEF Consumer
    <3> QED
      BY <1>b, <2>2, <3>2 DEF FIFO!vars
  <2> QED
    BY <2>3, <2>4
<1>3. CASE FrontReturn
  <2>1. /\ UNCHANGED <<head_, tail_, buffer_, cop>> /\ cpc = "return" /\ cpc' = "idle"
        /\ front' = head_ /\ cok' = TRUE /\ head_ # tail_ /\ cop = "Front"
    BY <1>a, <1>c, <1>3 DEF FrontReturn, pvars, MovedElement
  <2>2. Contents' = Contents
    BY <2>1 DEF Contents, GetSize, Distance
  <2>3. 1 \in 1 .. GetSize
    BY <1>0, <2>1, DistanceRange, BufferSizeAssumption DEF GetSize
  <2>4. Contents # << >> /\ Head(Contents) = buffer_[head_]
    <3>1. Contents[1] = buffer_[head_]
      BY <1>0, <2>1, <2>3, RingPositions DEF ContentsShape, GetSize
    <3>2. Len(Contents) # 0
      BY <2>3 DEF ContentsShape
    <3> QED
      BY <3>1, <3>2 DEF ContentsShape
  <2>5. head_ # nullptr
    BY <1>0, BufferSizeAssumption DEF Index, nullptr
  <2>6. /\ Consumer.busy /\ Consumer.op = "Front"
        /\ Consumer' = [busy |-> FALSE, op |-> "Front", ok |-> TRUE, val |-> buffer_[head_]]
    BY <2>1, <2>5 DEF Consumer
  <2>7. FIFO!Front
    BY <1>b, <2>2, <2>4, <2>6 DEF FIFO!Front
  <2> QED
    BY <2>7 DEF FIFO!Next
<1>4. CASE DequeueMove
  <2>1. /\ UNCHANGED <<head_, tail_, cop, cok>> /\ cpc = "move" /\ cpc' = "store_head"
        /\ cval' = buffer_[head_] /\ cop = "DequeueElement" /\ GetSize' = GetSize
        /\ \A i \in Index : i # head_ => buffer_'[i] = buffer_[i]
    BY <1>0, <1>c, <1>4 DEF DequeueMove, pvars, MovedElement, GetSize, Distance
  <2>2. \A i \in 1 .. GetSize : /\ (head_ + i - 1) % BufferSize \in Index
                                /\ (head_ + i - 1) % BufferSize = head_ <=> i = 1
    BY <1>0, RingPositions DEF GetSize
  <2>3. \A i \in 1 .. GetSize : Contents'[i] = Contents[i]
    BY <2>1, <2>2 DEF ContentsShape
  <2>4. Contents' = Contents
    BY <2>1, <2>3, SameContents
  <2>5. Consumer' = Consumer
    BY <2>1 DEF Consumer
  <2> QED
    BY <1>b, <2>4, <2>5 DEF FIFO!vars
<1>5. CASE DequeueStoreHead
  <2>1. /\ UNCHANGED <<tail_, buffer_, cop, cval, front>>
        /\ cpc = "store_head" /\ cpc' = "idle"
        /\ head_' = NextIndex(head_) /\ cok' = TRUE /\ head_ # tail_
        /\ cop # "Front" /\ front = nullptr
        /\ cop # "DequeueElement" => cval = NoValue
    BY <1>a, <1>c, <1>5 DEF DequeueStoreHead, pvars, MovedElement
  <2>2. /\ GetSize' = GetSize - 1
        /\ \A i \in 1 .. GetSize - 1 :
             (head_' + i - 1) % BufferSize = (head_ + (i + 1) - 1) % BufferSize
    BY <1>0, <2>1, RingPositions DEF GetSize
  <2>3. GetSize \in Nat /\ GetSize > 0
    BY <1>0, <2>1, DistanceRange, BufferSizeAssumption DEF GetSize
  <2>4. /\ Contents \in Seq(Elements) /\ Contents' \in Seq(Elements)
        /\ Len(Contents) = GetSize /\ Len(Contents') = GetSize - 1
        /\ Contents # << >>
    BY <2>2, <2>3 DEF ContentsShape
  <2>5. Contents' = Tail(Contents)
    <3>1. /\ Tail(Contents) \in Seq(Elements)
          /\ Len(Tail(Contents)) = GetSize - 1
          /\ \A i \in 1 .. GetSize - 1 : Tail(Contents)[i] = Contents[i + 1]
      BY <2>4, HeadTailProperties
    <3>2. ASSUME NEW i \in 1 .. GetSize - 1
          PROVE  Contents'[i] = Contents[i + 1]
      <4>1. i + 1 \in 1 .. GetSize /\ i + 1 # 1 /\ i \in 1 .. GetSize'
        BY <2>2, <2>3
      <4>2. Contents[i + 1] = buffer_[(head_ + (i + 1) - 1) % BufferSize]
        BY <4>1 DEF ContentsShape
      <4>3. Contents'[i] = buffer_[(head_' + i - 1) % BufferSize]
        BY <2>1, <4>1 DEF ContentsShape
      <4> QED
        BY <2>2, <4>2, <4>3
    <3> QED
      BY <2>4, <3>1, <3>2, SeqEqual
  <2>6. cop = "DequeueElement" => Head(Contents) = cval
    <3>1. 1 \in 1 .. GetSize
      BY <2>3
    <3> QED
      BY <2>1, <2>4, <3>1 DEF ContentsShape
  <2>7. /\ Consumer.busy /\ Consumer.op = cop
        /\ Consumer' = [busy |-> FALSE, op |-> cop, ok |-> TRUE, val |-> cval]
    BY <2>1 DEF Consumer
  <2>8. cval = IF Consumer.op = "DequeueElement" THEN Head(Contents) ELSE NoValue
    BY <2>1, <2>6, <2>7
  <2>9. FIFO!Dequeue
    BY <1>b, <2>1, <2>4, <2>5, <2>7, <2>8 DEF FIFO!Dequeue
  <2> QED
    BY <2>9 DEF FIFO!Next
<1> QED
  BY <1>1, <1>2, <1>3, <1>4, <1>5 DEF ConsumerStep, FIFO!Next, FIFO!ConsumerOps, ConsumerOps

(* BoundedSPSCQueue is a FIFO queue of BufferSize - 1 elements: Emplace,   *)
(* Front and Dequeue take effect at one instant of the call, and the full  *)
(* and the empty queue are never mistaken for one another.                 *)
THEOREM QueueImplemented == Spec => ImplementsFIFO
<1>1. Init => FIFO!Init
  <2> SUFFICES ASSUME Init
               PROVE  FIFO!Init
    OBVIOUS
  <2>1. Contents = << >>
    <3>1. GetSize = 0
      BY DEF Init, GetSize, Distance
    <3> QED
      BY <3>1 DEF Contents
  <2> QED
    BY <2>1 DEF Init, Producer, Consumer, FIFO!Init
<1>2. IInv => ContentsShape
  BY ContentsSequence DEF IInv
<1>3. IInv /\ ContentsShape /\ ContentsShape' /\ [Next]_vars => [FIFO!Next]_(FIFO!vars)
  <2>1. ASSUME UNCHANGED vars
        PROVE  UNCHANGED FIFO!vars
    BY <2>1 DEF vars, pvars, cvars, Contents, GetSize, Distance, Producer, Consumer, FIFO!vars
  <2> QED
    BY <2>1, EmplaceRefines, ConsumerRefines DEF Next
<1> QED
  BY <1>1, <1>2, <1>3, InvariantHolds, PTL DEF Spec, ImplementsFIFO, FIFO!Spec

=============================================================================
