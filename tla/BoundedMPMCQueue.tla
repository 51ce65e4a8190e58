-------------------------- MODULE BoundedMPMCQueue --------------------------
(***************************************************************************)
(* concurrent::queue::BoundedMPMCQueue (queue/bounded_mp_mc_queue.h): any  *)
(* number of threads over a ring of BufferSize slots.  A call takes a      *)
(* ticket, the value of tail_ (Emplace) or head_ (Dequeue), by which the   *)
(* slot and the generation of the slot at which it may be used are         *)
(* determined.  Emplace and Dequeue take the ticket at once and wait for   *)
(* the generation; TryEmplace and TryDequeue take it only once they have   *)
(* seen the generation.                                                    *)
(*                                                                         *)
(* A step is one access to shared memory.  The code never looks at an      *)
(* element, so an element is identified by the ticket under which it was   *)
(* constructed.  A call that returns false is the action Refuse; a call    *)
(* that returns true or void ends with StoreGeneration.                    *)
(***************************************************************************)
EXTENDS Integers, FiniteSets

CONSTANTS
  Threads,           \* the threads that share the queue
  BufferSize,        \* GetBufferSize(), a power of two: i & GetIndexMask() is i % BufferSize
  GenerationModulus  \* 2^32: Generation is uint32_t

ASSUME SizesAssumption ==
  /\ BufferSize \in Nat /\ BufferSize > 1
  /\ GenerationModulus \in Nat /\ GenerationModulus > 0 /\ GenerationModulus % 2 = 0

(* A ticket past the first lap stays with the thread that waits with it,   *)
(* so the tickets do not get so far that a generation comes back to an     *)
(* earlier value: that takes about 2^31 threads inside calls.              *)
ASSUME ThreadsAssumption ==
  IsFiniteSet(Threads) /\ 2 * (BufferSize + Cardinality(Threads)) < GenerationModulus

VARIABLES
  generation_,  \* of each slot: even without, odd with an element
  data_,        \* of each slot: the ticket of the element constructed in it, or Raw
  head_,        \* the next ticket for dequeuing
  tail_,        \* the next ticket for enqueuing
  pc,           \* where each thread is in its call
  op,           \* its call
  ticket,       \* its variable tail (enqueuing) or head (dequeuing)
  alive         \* has the queue not been destroyed?

vars == <<generation_, data_, head_, tail_, pc, op, ticket, alive>>

Index == 0 .. BufferSize - 1
Raw == -1  \* storage without an element

Enqueuing == {"Emplace", "TryEmplace"}
Dequeuing == {"Dequeue", "TryDequeue"}
Trying == {"TryEmplace", "TryDequeue"}

(***************************************************************************)
(* Ticket arithmetic.                                                      *)
(***************************************************************************)
GetIndex(i) == i % BufferSize

(* i & GetGenerationMask(): the index bits of the ticket cleared, so a     *)
(* multiple of BufferSize, converted to Generation.                        *)
GetGeneration(i) == (i - (i % BufferSize)) % GenerationModulus

(* The generation at which a call may use the slot of its ticket.          *)
Awaited(o, i) ==
  IF o \in Enqueuing THEN (2 * GetGeneration(i)) % GenerationModulus
                     ELSE (2 * GetGeneration(i) + 1) % GenerationModulus

Slot(t) == GetIndex(ticket[t])

(* The atomic counter that hands out the tickets of operation o.           *)
Counter(o) == IF o \in Enqueuing THEN tail_ ELSE head_

(* Mutation: the counter is loaded but not advanced.                       *)
AdvanceLost(o) == UNCHANGED <<head_, tail_>>

Advance(o) ==
  \/ o \in Enqueuing /\ tail_' = tail_ + 1 /\ UNCHANGED head_
  \/ o \in Dequeuing /\ head_' = head_ + 1 /\ UNCHANGED tail_

GetSize == tail_ - head_

(* The call is over and its local variables are gone.                      *)
Return(t) ==
  /\ pc' = [pc EXCEPT ![t] = "idle"]
  /\ op' = [op EXCEPT ![t] = "none"]
  /\ ticket' = [ticket EXCEPT ![t] = 0]

Init ==
  /\ generation_ = [i \in Index |-> 0]
  /\ data_ = [i \in Index |-> Raw]
  /\ head_ = 0 /\ tail_ = 0
  /\ pc = [t \in Threads |-> "idle"]
  /\ op = [t \in Threads |-> "none"]
  /\ ticket = [t \in Threads |-> 0]
  /\ alive = TRUE

(***************************************************************************)
(* Emplace and Dequeue: fetch_add, then the loop that waits for the        *)
(* generation.  Both forms of Enqueue are calls of Emplace, and both forms *)
(* of TryEnqueue calls of TryEmplace.                                      *)
(***************************************************************************)
FetchAdd(t, o) ==
  /\ alive /\ pc[t] = "idle" /\ o \notin Trying
  /\ ticket' = [ticket EXCEPT ![t] = Counter(o)]
  /\ Advance(o)
  /\ op' = [op EXCEPT ![t] = o]
  /\ pc' = [pc EXCEPT ![t] = "wait"]
  /\ UNCHANGED <<generation_, data_, alive>>

WaitGeneration(t) ==
  /\ pc[t] = "wait"
  /\ pc' = [pc EXCEPT ![t] =
              IF generation_[Slot(t)] = Awaited(op[t], ticket[t]) THEN "use" ELSE @]
  /\ UNCHANGED <<generation_, data_, head_, tail_, op, ticket, alive>>

(***************************************************************************)
(* TryEmplace and TryDequeue: load the counter, load the generation, then  *)
(* either take the ticket with compare_exchange_weak, which may fail       *)
(* spuriously, or load the counter again.                                  *)
(***************************************************************************)
LoadCounter(t, o) ==
  /\ alive /\ pc[t] = "idle" /\ o \in Trying
  /\ ticket' = [ticket EXCEPT ![t] = Counter(o)]
  /\ op' = [op EXCEPT ![t] = o]
  /\ pc' = [pc EXCEPT ![t] = "try"]
  /\ UNCHANGED <<generation_, data_, head_, tail_, alive>>

LoadGeneration(t) ==
  /\ pc[t] = "try"
  /\ pc' = [pc EXCEPT ![t] =
              IF generation_[Slot(t)] = Awaited(op[t], ticket[t]) THEN "cas" ELSE "reload"]
  /\ UNCHANGED <<generation_, data_, head_, tail_, op, ticket, alive>>

(* Mutation: the counter is advanced without comparing it with the ticket. *)
CompareExchangeUncompared(t) ==
  /\ pc[t] = "cas"
  /\ Advance(op[t]) /\ pc' = [pc EXCEPT ![t] = "use"]
  /\ UNCHANGED <<generation_, data_, op, ticket, alive>>

CompareExchange(t) ==
  /\ pc[t] = "cas"
  /\ Counter(op[t]) = ticket[t]
  /\ Advance(op[t])
  /\ pc' = [pc EXCEPT ![t] = "use"]
  /\ UNCHANGED <<generation_, data_, op, ticket, alive>>

CompareExchangeFails(t) ==
  /\ pc[t] = "cas"
  /\ ticket' = [ticket EXCEPT ![t] = Counter(op[t])]
  /\ pc' = [pc EXCEPT ![t] = "try"]
  /\ UNCHANGED <<generation_, data_, head_, tail_, op, alive>>

(* Mutation: TryEmplace gives up without looking whether tail_ has moved.  *)
RefuseWithoutReload(t) ==
  /\ pc[t] = "reload"
  /\ Return(t)
  /\ UNCHANGED <<generation_, data_, head_, tail_, alive>>

Refuse(t) ==
  /\ pc[t] = "reload"
  /\ Counter(op[t]) = ticket[t]
  /\ Return(t)
  /\ UNCHANGED <<generation_, data_, head_, tail_, alive>>

Reload(t) ==
  /\ pc[t] = "reload"
  /\ Counter(op[t]) # ticket[t]
  /\ ticket' = [ticket EXCEPT ![t] = Counter(op[t])]
  /\ pc' = [pc EXCEPT ![t] = "try"]
  /\ UNCHANGED <<generation_, data_, head_, tail_, op, alive>>

(***************************************************************************)
(* The use of the slot, the same in all four calls.                        *)
(***************************************************************************)
Construct(t) ==
  /\ pc[t] = "use" /\ op[t] \in Enqueuing
  /\ data_' = [data_ EXCEPT ![Slot(t)] = ticket[t]]
  /\ pc' = [pc EXCEPT ![t] = "store"]
  /\ UNCHANGED <<generation_, head_, tail_, op, ticket, alive>>

(* Mutation: the element is moved from but not destroyed.                  *)
MoveOnly(t) ==
  /\ pc[t] = "use" /\ op[t] \in Dequeuing
  /\ pc' = [pc EXCEPT ![t] = "store"]
  /\ UNCHANGED <<generation_, data_, head_, tail_, op, ticket, alive>>

MoveAndDestroy(t) ==
  /\ pc[t] = "use" /\ op[t] \in Dequeuing
  /\ data_' = [data_ EXCEPT ![Slot(t)] = Raw]
  /\ pc' = [pc EXCEPT ![t] = "store"]
  /\ UNCHANGED <<generation_, head_, tail_, op, ticket, alive>>

(* Mutation: the generation is stored without the increment.               *)
StoreGenerationUnchanged(t) ==
  /\ pc[t] = "store"
  /\ generation_' = [generation_ EXCEPT ![Slot(t)] = Awaited(op[t], ticket[t])]
  /\ Return(t)
  /\ UNCHANGED <<data_, head_, tail_, alive>>

StoreGeneration(t) ==
  /\ pc[t] = "store"
  /\ generation_' = [generation_ EXCEPT ![Slot(t)] =
                       (Awaited(op[t], ticket[t]) + 1) % GenerationModulus]
  /\ Return(t)
  /\ UNCHANGED <<data_, head_, tail_, alive>>

(* Mutation: the slots have no destructor of their own.                    *)
DestroyQueueOnly ==
  /\ alive /\ \A t \in Threads : pc[t] = "idle"
  /\ alive' = FALSE
  /\ UNCHANGED <<generation_, data_, head_, tail_, pc, op, ticket>>

(* ~BoundedMPMCQueue, once no thread is in a call: ~MPMCQueueSlot of every *)
(* slot destroys the element if the generation is odd.                     *)
DestroyQueue ==
  /\ alive /\ \A t \in Threads : pc[t] = "idle"
  /\ data_' = [i \in Index |-> IF generation_[i] % 2 = 1 THEN Raw ELSE data_[i]]
  /\ alive' = FALSE
  /\ UNCHANGED <<generation_, head_, tail_, pc, op, ticket>>

Step(t) ==
  \/ WaitGeneration(t)
  \/ LoadGeneration(t)
  \/ CompareExchange(t)
  \/ CompareExchangeFails(t)
  \/ Refuse(t)
  \/ Reload(t)
  \/ Construct(t)
  \/ MoveAndDestroy(t)
  \/ StoreGeneration(t)

Next ==
  \/ \E t \in Threads, o \in Enqueuing \cup Dequeuing : FetchAdd(t, o) \/ LoadCounter(t, o)
  \/ \E t \in Threads : Step(t)
  \/ DestroyQueue

Spec == Init /\ [][Next]_vars

(* The operating system runs every thread that is inside a call.           *)
Fairness == \A t \in Threads : WF_vars(Step(t))

FairSpec == Spec /\ Fairness

(***************************************************************************)
(* Properties.                                                             *)
(***************************************************************************)

(* Every variable has its type, and an element its ticket from tail_.      *)
TypeOK ==
  /\ generation_ \in [Index -> 0 .. GenerationModulus - 1]
  /\ data_ \in [Index -> (0 .. tail_ - 1) \cup {Raw}]
  /\ head_ \in Nat /\ tail_ \in Nat
  /\ pc \in [Threads -> {"idle", "wait", "try", "cas", "reload", "use", "store"}]
  /\ op \in [Threads -> Enqueuing \cup Dequeuing \cup {"none"}]
  /\ ticket \in [Threads -> Nat]
  /\ alive \in BOOLEAN

Using(t) == pc[t] \in {"use", "store"}

(* Two threads never use the same slot at the same time, whichever mix of  *)
(* waiting and trying calls they make: the plain accesses to data_ do not  *)
(* race.                                                                   *)
ExclusiveSlot ==
  \A t, u \in Threads : Using(t) /\ Using(u) /\ t # u => Slot(t) # Slot(u)

(* FIFO by ticket: a call constructs only in raw storage, and the call     *)
(* that dequeues with ticket k takes the element that was enqueued with    *)
(* ticket k, never raw storage.                                            *)
TicketOrder ==
  \A t \in Threads : pc[t] = "use" =>
    data_[Slot(t)] = IF op[t] \in Enqueuing THEN Raw ELSE ticket[t]

(* README: an even generation means that the data is missing, an odd one   *)
(* that the cell is occupied.  The cells in use apart, that is so at every *)
(* moment.                                                                 *)
GenerationParity ==
  \A i \in Index :
    (\A t \in Threads : ~(Using(t) /\ Slot(t) = i)) /\ alive =>
      (generation_[i] % 2 = 1 <=> data_[i] # Raw)

(* The destructor leaves no element alive, whatever calls were made.       *)
NoLeak == ~alive => \A i \in Index : data_[i] = Raw

(***************************************************************************)
(* The inductive invariant.  A slot is used once by an enqueuing and once  *)
(* by a dequeuing call, both with the ticket that is the slot's index;     *)
(* whoever takes a later ticket waits with it.                             *)
(***************************************************************************)

(* Has t taken its ticket, by fetch_add or by compare_exchange_weak?       *)
HasTicket(t) == pc[t] \in {"wait", "use", "store"}

SameCounter(o, p) == o \in Enqueuing <=> p \in Enqueuing

(* Is a thread between its access to slot i and the generation it stores?  *)
Storing(i) == \E t \in Threads : pc[t] = "store" /\ ticket[t] = i

(* A ticket was read from the counter; one that was taken is below it.     *)
TicketsIssued ==
  \A t \in Threads : pc[t] # "idle" =>
    /\ op[t] # "none"
    /\ ticket[t] <= Counter(op[t])
    /\ HasTicket(t) => ticket[t] # Counter(op[t])

(* No two calls have the same ticket from the same counter.                *)
TicketsUnique ==
  \A t, u \in Threads :
    /\ HasTicket(t) /\ HasTicket(u)
    /\ SameCounter(op[t], op[u]) /\ ticket[t] = ticket[u]
    => t = u

LaterLapsWait ==
  \A o \in Enqueuing \cup Dequeuing : \A k \in BufferSize .. Counter(o) - 1 :
    \E t \in Threads : pc[t] = "wait" /\ SameCounter(op[t], o) /\ ticket[t] = k

SlotGenerations ==
  \A i \in Index :
    /\ generation_[i] \in 0 .. 2
    /\ i >= tail_ => generation_[i] = 0
    /\ i >= head_ => generation_[i] # 2

(* What a call knows of its slot's generation, however old its last look   *)
(* at it is.                                                               *)
CallGenerations ==
  \A t \in Threads :
    /\ Using(t) \/ pc[t] = "cas" => ticket[t] < BufferSize
    /\ HasTicket(t) /\ ticket[t] < BufferSize =>
         generation_[Slot(t)] \in IF op[t] \in Enqueuing THEN {0} ELSE {0, 1}
    /\ (Using(t) \/ pc[t] = "cas") /\ op[t] \in Dequeuing => generation_[Slot(t)] # 0
    /\ pc[t] = "reload" /\ op[t] \in Enqueuing /\ ticket[t] < BufferSize =>
         generation_[Slot(t)] # 0

(* The element of slot i, if any, is the one of ticket i.                  *)
SlotElements ==
  alive => \A i \in Index :
             data_[i] = IF (generation_[i] = 1) <=> Storing(i) THEN Raw ELSE i

Destroyed ==
  ~alive => /\ \A t \in Threads : pc[t] = "idle"
            /\ \A i \in Index : data_[i] = Raw

(* No interleaving makes a call trust a generation that is out of date:    *)
(* what it saw before its compare-and-exchange still holds after it.       *)
IInv ==
  /\ TypeOK
  /\ TicketsIssued /\ TicketsUnique /\ LaterLapsWait
  /\ SlotGenerations /\ CallGenerations
  /\ SlotElements /\ Destroyed

(* During the first lap TryEmplace never returns false, not even when      *)
(* other threads take the ticket it looks at.                              *)
NotRefusedInFirstLap ==
  [][\A t \in Threads : Refuse(t) /\ op[t] = "TryEmplace" => tail_ >= BufferSize]_vars

(* Nobody waits for nothing in the first lap: a thread that waits in       *)
(* Dequeue for an element whose Emplace has its ticket gets it, whatever   *)
(* the others do.                                                          *)
FirstLapServed ==
  \A t \in Threads :
    pc[t] = "wait" /\ op[t] = "Dequeue" /\ ticket[t] < BufferSize /\ tail_ > ticket[t]
      ~> pc[t] = "idle"

(* What the README's generations promise: each use of a cell increases its *)
(* generation by one, and an even generation means that the cell is free.  *)
(* So when no call is in progress and every element has been dequeued, the *)
(* cell of the next ticket is one that Emplace may use.                    *)
EmptyQueueAcceptsEmplace ==
  alive /\ GetSize = 0 /\ (\A t \in Threads : pc[t] = "idle") =>
    generation_[GetIndex(tail_)] = Awaited("Emplace", tail_)

=============================================================================
