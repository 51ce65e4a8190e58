-------------------------- MODULE BoundedSPSCQueue --------------------------
(***************************************************************************)
(* concurrent::queue::BoundedSPSCQueue (queue/bounded_sp_sc_queue.h): one  *)
(* producer thread and one consumer thread over a ring buffer of           *)
(* BufferSize slots, one of which always stays free.  Each thread owns one *)
(* atomic index, which only it stores, and keeps a cached copy of the      *)
(* other thread's index, which it refreshes only when the copy says that   *)
(* the buffer is full (or empty).                                          *)
(*                                                                         *)
(* A step is one access to memory that the other thread can see: the load  *)
(* of the other thread's index, the access to a slot, the store of the     *)
(* thread's own index.  A thread's load of its own index and its work on   *)
(* its cached copy are local and belong to the step before them.           *)
(***************************************************************************)
EXTENDS Integers, Sequences

CONSTANTS
  BufferSize,   \* GetBufferSize(), a power of two: x & GetIndexMask() is x % BufferSize
  Values,       \* the elements that the producer enqueues
  NoValue,      \* a default constructed T
  MovedFrom(_)  \* what std::move leaves in the slot that held an element

ASSUME BufferSizeAssumption == BufferSize \in Nat /\ BufferSize > 1

ASSUME ValuesAssumption ==
  /\ NoValue \notin Values
  /\ \A v \in Values \cup {NoValue} : MovedFrom(v) \in Values \cup {NoValue}

VARIABLES
  buffer_,       \* the slots
  tail_,         \* the next slot to fill: stored by the producer only
  cached_head_,  \* the producer's copy of head_
  head_,         \* the oldest filled slot: stored by the consumer only
  cached_tail_,  \* the consumer's copy of tail_
  ppc,           \* where the producer is in Emplace
  parg,          \* the argument of its current or last Emplace
  pok,           \* what its last Emplace returned
  cpc,           \* where the consumer is in its call
  cop,           \* its current or last call
  cval,          \* what that call has stored through T& element
  cok,           \* what its last call returned (Front: not nullptr)
  front          \* the slot of the pointer that Front returned, until the next call

pvars == <<tail_, cached_head_, ppc, parg, pok>>
cvars == <<head_, cached_tail_, cpc, cop, cval, cok, front>>
vars == <<buffer_, pvars, cvars>>

Index == 0 .. BufferSize - 1
nullptr == -1

ConsumerOps == {"Front", "Dequeue", "DequeueElement"}

(***************************************************************************)
(* Ring arithmetic.                                                        *)
(***************************************************************************)
NextIndexUnmasked(i) == i + 1
NextIndex(i) == (i + 1) % BufferSize

(* GetSize with `from` loaded from head_ and `to` from tail_: how far `to` *)
(* is ahead of `from` in the ring.                                         *)
Distance(from, to) == IF to - from < 0 THEN to - from + BufferSize ELSE to - from

GetSize == Distance(head_, tail_)

(***************************************************************************)
(* Initial state: the member initialisers.                                 *)
(***************************************************************************)
Init ==
  /\ buffer_ = [i \in Index |-> NoValue]
  /\ tail_ = 0 /\ cached_head_ = 0
  /\ head_ = 0 /\ cached_tail_ = 0
  /\ ppc = "idle" /\ parg = NoValue /\ pok = FALSE
  /\ cpc = "idle" /\ cop = "Front" /\ cval = NoValue /\ cok = FALSE
  /\ front = nullptr

(***************************************************************************)
(* The producer: Emplace.  Both forms of Enqueue are calls of Emplace.     *)
(***************************************************************************)
Emplace(v) ==
  /\ ppc = "idle"
  /\ parg' = v
  /\ ppc' = IF NextIndex(tail_) = cached_head_ THEN "load_head" ELSE "construct"
  /\ UNCHANGED <<buffer_, tail_, cached_head_, pok, cvars>>

(* Mutation: the reloaded head_ is not kept, so a queue once seen full is  *)
(* refused forever.                                                        *)
EmplaceLoadHeadDropped ==
  /\ ppc = "load_head"
  /\ ppc' = "idle" /\ pok' = FALSE
  /\ UNCHANGED <<buffer_, tail_, cached_head_, parg, cvars>>

(* Mutation: the second test for a full buffer is missing.                 *)
EmplaceLoadHeadUnchecked ==
  /\ ppc = "load_head"
  /\ cached_head_' = head_
  /\ ppc' = "construct"
  /\ UNCHANGED <<buffer_, tail_, parg, pok, cvars>>

EmplaceLoadHead ==
  /\ ppc = "load_head"
  /\ cached_head_' = head_
  /\ \/ NextIndex(tail_) = head_ /\ ppc' = "idle" /\ pok' = FALSE
     \/ NextIndex(tail_) # head_ /\ ppc' = "construct" /\ UNCHANGED pok
  /\ UNCHANGED <<buffer_, tail_, parg, cvars>>

EmplaceConstruct ==
  /\ ppc = "construct"
  /\ buffer_' = [buffer_ EXCEPT ![tail_] = parg]
  /\ ppc' = "store_tail"
  /\ UNCHANGED <<tail_, cached_head_, parg, pok, cvars>>

EmplaceStoreTail ==
  /\ ppc = "store_tail"
  /\ tail_' = NextIndex(tail_)
  /\ ppc' = "idle" /\ pok' = TRUE
  /\ UNCHANGED <<buffer_, cached_head_, parg, cvars>>

(***************************************************************************)
(* The consumer: Front, Dequeue() and Dequeue(T&).                         *)
(***************************************************************************)

(* Where each call goes once it knows that the buffer is not empty.        *)
NotEmpty(op) ==
  CASE op = "Front"          -> "return"
    [] op = "Dequeue"        -> "store_head"
    [] op = "DequeueElement" -> "move"

CallConsumer(op) ==
  /\ cpc = "idle"
  /\ cop' = op /\ cval' = NoValue /\ front' = nullptr
  /\ cpc' = IF head_ = cached_tail_ THEN "load_tail" ELSE NotEmpty(op)
  /\ UNCHANGED <<buffer_, head_, cached_tail_, cok, pvars>>

(* Mutation: the refreshed copy of tail_ is not compared with head_ again. *)
ConsumerLoadTailUnchecked ==
  /\ cpc = "load_tail"
  /\ cached_tail_' = tail_
  /\ cpc' = NotEmpty(cop)
  /\ UNCHANGED <<buffer_, head_, cop, cval, cok, front, pvars>>

ConsumerLoadTail ==
  /\ cpc = "load_tail"
  /\ cached_tail_' = tail_
  /\ \/ head_ = tail_ /\ cpc' = "idle" /\ cok' = FALSE
     \/ head_ # tail_ /\ cpc' = NotEmpty(cop) /\ UNCHANGED cok
  /\ UNCHANGED <<buffer_, head_, cop, cval, front, pvars>>

(* Front returns the address of the slot without touching it.              *)
FrontReturn ==
  /\ cpc = "return"
  /\ front' = head_
  /\ cpc' = "idle" /\ cok' = TRUE
  /\ UNCHANGED <<buffer_, head_, cached_tail_, cop, cval, pvars>>

DequeueMove ==
  /\ cpc = "move"
  /\ cval' = buffer_[head_]
  /\ buffer_' = [buffer_ EXCEPT ![head_] = MovedFrom(@)]
  /\ cpc' = "store_head"
  /\ UNCHANGED <<head_, cached_tail_, cop, cok, front, pvars>>

DequeueStoreHead ==
  /\ cpc = "store_head"
  /\ head_' = NextIndex(head_)
  /\ cpc' = "idle" /\ cok' = TRUE
  /\ UNCHANGED <<buffer_, cached_tail_, cop, cval, front, pvars>>

ProducerStep == EmplaceLoadHead \/ EmplaceConstruct \/ EmplaceStoreTail

ConsumerStep == ConsumerLoadTail \/ FrontReturn \/ DequeueMove \/ DequeueStoreHead

Next ==
  \/ \E v \in Values : Emplace(v)
  \/ ProducerStep
  \/ \E op \in ConsumerOps : CallConsumer(op)
  \/ ConsumerStep

Spec == Init /\ [][Next]_vars

(***************************************************************************)
(* Fairness: the operating system runs both threads, so a call that has    *)
(* been made takes its next step, and the clients call again as in the     *)
(* README's loops `while (!q.Enqueue(i))` and `while (!q.Dequeue())`.  The  *)
(* consumer may look at Front any number of times in between, but not      *)
(* forever.                                                                *)
(***************************************************************************)
Fairness ==
  /\ WF_vars(ProducerStep)
  /\ WF_vars(ConsumerStep)
  /\ WF_vars(\E v \in Values : Emplace(v))
  /\ SF_vars(CallConsumer("Dequeue") \/ CallConsumer("DequeueElement"))

FairSpec == Spec /\ Fairness

(***************************************************************************)
(* Properties.                                                             *)
(***************************************************************************)

(* Every index stays inside the buffer and every variable in its range.    *)
TypeOK ==
  /\ buffer_ \in [Index -> Values \cup {NoValue}]
  /\ tail_ \in Index /\ cached_head_ \in Index
  /\ head_ \in Index /\ cached_tail_ \in Index
  /\ ppc \in {"idle", "load_head", "construct", "store_tail"}
  /\ parg \in Values \cup {NoValue} /\ pok \in BOOLEAN
  /\ ppc # "idle" => parg \in Values
  /\ cpc \in {"idle", "load_tail", "return", "move", "store_head"}
  /\ cop \in ConsumerOps /\ cval \in Values \cup {NoValue} /\ cok \in BOOLEAN
  /\ front \in Index \cup {nullptr}

(* However stale the two cached copies are, they lag behind the real       *)
(* indices in ring order: cached_head_, head_, cached_tail_, tail_, and    *)
(* the four never spread over a whole lap.  An index that overtook another *)
(* would make a full buffer look empty and lose BufferSize elements.       *)
IndexOrder ==
  Distance(cached_head_, head_) + Distance(head_, cached_tail_)
    + Distance(cached_tail_, tail_) < BufferSize

(* Once Emplace has decided that there is room, possibly from the stale    *)
(* copy of head_, there is room until it stores tail_.                     *)
RoomReserved ==
  ppc \in {"construct", "store_tail"} => NextIndex(tail_) # cached_head_

(* Once Front or Dequeue has decided that there is an element, possibly    *)
(* from the stale copy of tail_, the element stays until the call is over. *)
ElementReserved ==
  cpc \in {"return", "move", "store_head"} => head_ # cached_tail_

(* The pointer that Front returned refers to the oldest element.           *)
FrontIsHead ==
  front # nullptr => cpc = "idle" /\ front = head_ /\ head_ # cached_tail_

(* The slots between head_ and tail_ hold elements, except the one that    *)
(* Dequeue(T&) has just moved out of.                                      *)
FilledSlots ==
  \A i \in Index :
    /\ Distance(head_, i) < GetSize
    /\ ~(i = head_ /\ cpc = "store_head" /\ cop = "DequeueElement")
    => buffer_[i] \in Values

(* The element that Emplace has constructed but not yet published.         *)
Constructed == ppc = "store_tail" => buffer_[tail_] = parg

(* The element that Dequeue(T&) holds until it stores head_; a call has no *)
(* other result before it returns.                                         *)
MovedElement ==
  /\ cpc = "store_head" /\ cop = "DequeueElement" => cval \in Values
  /\ cpc # "idle" /\ ~(cpc = "store_head" /\ cop = "DequeueElement") => cval = NoValue
  /\ cpc = "move" => cop = "DequeueElement"
  /\ cpc = "store_head" => cop # "Front"
  /\ cpc = "return" => cop = "Front"

(* The inductive invariant.                                                *)
IInv ==
  /\ TypeOK
  /\ IndexOrder
  /\ RoomReserved
  /\ ElementReserved
  /\ FrontIsHead
  /\ FilledSlots
  /\ Constructed
  /\ MovedElement

(* The plain accesses to the slots never race: the slot in which Emplace   *)
(* constructs is neither the slot that Dequeue moves from nor the one that *)
(* the consumer still reads through Front's pointer.                       *)
NoSlotRace ==
  ppc = "construct" => /\ cpc = "move" => head_ # tail_
                       /\ front # tail_

(* Emplace constructs into a free slot and the consumer takes only         *)
(* elements that were completely published, so the queue refines FIFOQueue.*)
Contents ==
  [i \in 1 .. GetSize |->
     IF i = 1 /\ cpc = "store_head" /\ cop = "DequeueElement"
       THEN cval
       ELSE buffer_[(head_ + i - 1) % BufferSize]]

Producer == [busy |-> ppc # "idle", arg |-> parg, ok |-> pok]

Consumer ==
  [busy |-> cpc # "idle", op |-> cop, ok |-> cok,
   val |-> IF cpc # "idle" THEN NoValue
           ELSE IF front # nullptr THEN buffer_[front] ELSE cval]

FIFO == INSTANCE FIFOQueue WITH
  MaxLen <- BufferSize - 1, queue <- Contents, prod <- Producer, cons <- Consumer

(* The queue is linearizable: every Emplace, Front and Dequeue takes       *)
(* effect on a FIFO sequence at one instant of the call, Emplace is        *)
(* refused only when BufferSize - 1 elements are queued, Front and Dequeue *)
(* fail only when none is, and what Front points at does not change until  *)
(* the consumer's next call.                                               *)
ImplementsFIFO == FIFO!Spec

(* The two threads never end up waiting for each other: while both keep    *)
(* retrying, head_ always moves on, so every enqueued element is dequeued  *)
(* and every refused producer is served.                                   *)
Progress == []<><<head_' # head_>>_vars

=============================================================================
