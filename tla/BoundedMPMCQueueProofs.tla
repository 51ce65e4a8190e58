----------------------- MODULE BoundedMPMCQueueProofs -----------------------
(***************************************************************************)
(* The threads of BoundedMPMCQueue never share a slot, its elements go out *)
(* by ticket and none outlives it, for every buffer size, every width of   *)
(* the generation and every number of threads that is small against it.    *)
(***************************************************************************)
EXTENDS BoundedMPMCQueue, FiniteSetTheorems, TLAPS

(* A ticket of the first lap is the index of its slot; the index bits      *)
(* cleared, a later one is at least a whole lap.                           *)
LEMMA TicketIndex ==
  ASSUME NEW k \in Nat
  PROVE  /\ GetIndex(k) \in Index
         /\ k < BufferSize => GetIndex(k) = k
         /\ k - (k % BufferSize) \in 0 .. k
         /\ k >= BufferSize => k - (k % BufferSize) >= BufferSize
<1>1. k % BufferSize \in 0 .. BufferSize - 1 /\ k % BufferSize <= k
  BY SizesAssumption
<1>2. k < BufferSize => k % BufferSize = k
  BY SizesAssumption
<1>3. ASSUME k >= BufferSize
      PROVE  k - (k % BufferSize) >= BufferSize
  <2> DEFINE d == k \div BufferSize
  <2>1. d \in Nat /\ k = BufferSize * d + (k % BufferSize)
    BY SizesAssumption
  <2>2. d # 0
    BY <1>1, <1>3, <2>1, SizesAssumption
  <2>3. BufferSize * d >= BufferSize
    BY <2>1, <2>2, SizesAssumption
  <2> QED
    BY <1>1, <2>1, <2>3, SizesAssumption
<1> QED
  BY <1>1, <1>2, <1>3, SizesAssumption DEF GetIndex, Index

(* As long as the generations do not wrap, the first lap waits for the     *)
(* generations 0 and 1 and leaves 1 and 2, and a later lap waits for one   *)
(* that no slot gets to.                                                   *)
LEMMA AwaitedGeneration ==
  ASSUME NEW k \in Nat, 2 * k < GenerationModulus,
         NEW o \in Enqueuing \cup Dequeuing
  PROVE  /\ Awaited(o, k) \in 0 .. GenerationModulus - 1
         /\ k < BufferSize => /\ Awaited(o, k) = IF o \in Enqueuing THEN 0 ELSE 1
                              /\ (Awaited(o, k) + 1) % GenerationModulus
                                   = IF o \in Enqueuing THEN 1 ELSE 2
         /\ k >= BufferSize => Awaited(o, k) \notin 0 .. 2
<1> DEFINE g == k - (k % BufferSize)
<1>1. /\ g \in 0 .. k
      /\ k < BufferSize => g = 0
      /\ k >= BufferSize => g >= BufferSize
  BY TicketIndex DEF GetIndex
<1>2. GenerationModulus \in Nat /\ GenerationModulus > 4 /\ BufferSize \in Nat /\ BufferSize > 1
  BY SizesAssumption, ThreadsAssumption, FS_CardinalityType
<1> HIDE DEF g
<1>3. g % GenerationModulus = g
  BY <1>1, <1>2
<1>4. (2 * g) % GenerationModulus = 2 * g
  BY <1>1, <1>2
<1>5. GenerationModulus % 2 = 0
  BY SizesAssumption
<1>6. 2 * g + 1 < GenerationModulus
  BY <1>1, <1>2, <1>5
<1>7. (2 * g + 1) % GenerationModulus = 2 * g + 1
  BY <1>1, <1>2, <1>6
<1>8. Awaited(o, k) = IF o \in Enqueuing THEN 2 * g ELSE 2 * g + 1
  BY <1>3, <1>4, <1>7 DEF Awaited, GetGeneration, g
<1> QED
  <2>1. Awaited(o, k) \in 0 .. GenerationModulus - 1
    BY <1>1, <1>2, <1>4, <1>6, <1>8
  <2>2. ASSUME k < BufferSize
        PROVE  /\ Awaited(o, k) = IF o \in Enqueuing THEN 0 ELSE 1
               /\ (Awaited(o, k) + 1) % GenerationModulus
                     = IF o \in Enqueuing THEN 1 ELSE 2
    <3>1. Awaited(o, k) = IF o \in Enqueuing THEN 0 ELSE 1
      BY <1>1, <1>8, <2>2
    <3>2. 1 % GenerationModulus = 1 /\ 2 % GenerationModulus = 2
      BY <1>2
    <3> QED
      BY <3>1, <3>2
  <2>3. ASSUME k >= BufferSize
        PROVE  Awaited(o, k) \notin 0 .. 2
    BY <1>1, <1>2, <1>8, <2>3
  <2> QED
    BY <2>1, <2>2, <2>3

(* Every ticket past the first lap occupies a thread, so there are no more *)
(* of them than threads: the tickets in use stay below the wrap.           *)
LEMMA TicketsBounded ==
  ASSUME TypeOK, LaterLapsWait, NEW o \in Enqueuing \cup Dequeuing
  PROVE  Counter(o) \in Nat /\ 2 * Counter(o) < GenerationModulus
<1> DEFINE S == BufferSize .. Counter(o) - 1
           f == [k \in S |-> CHOOSE t \in Threads : ticket[t] = k]
<1>1. Counter(o) \in Nat
  BY DEF Counter, TypeOK
<1>2. BufferSize \in Nat /\ GenerationModulus \in Nat
  BY SizesAssumption
<1>3. /\ IsFiniteSet(Threads) /\ Cardinality(Threads) \in Nat
      /\ 2 * (BufferSize + Cardinality(Threads)) < GenerationModulus
  BY ThreadsAssumption, FS_CardinalityType
<1>4. /\ IsFiniteSet(S)
      /\ Cardinality(S) = IF BufferSize > Counter(o) - 1 THEN 0
                                                         ELSE Counter(o) - BufferSize
  <2>1. BufferSize \in Int /\ Counter(o) - 1 \in Int
    BY <1>1, <1>2
  <2>2. /\ IsFiniteSet(S)
        /\ Cardinality(S) = IF BufferSize > Counter(o) - 1 THEN 0
                            ELSE (Counter(o) - 1) - BufferSize + 1
    BY <2>1, FS_Interval
  <2> QED
    BY <1>1, <1>2, <2>2
<1>5. \A k \in S : f[k] \in Threads /\ ticket[f[k]] = k
  <2> TAKE k \in S
  <2>1. \E t \in Threads : ticket[t] = k
    BY DEF LaterLapsWait
  <2> QED
    BY <2>1
<1>6. f \in [S -> Threads]
  BY <1>5
<1> HIDE DEF f
<1>7. ~(Cardinality(Threads) < Cardinality(S))
  <2> SUFFICES ASSUME Cardinality(Threads) < Cardinality(S)
               PROVE  FALSE
    OBVIOUS
  <2>1. \E x, y \in S : x # y /\ f[x] = f[y]
    BY <1>3, <1>4, <1>6, FS_PigeonHole
  <2> QED
    BY <1>5, <2>1
<1> QED
  BY <1>1, <1>2, <1>3, <1>4, <1>7

(* What a call's comparison of the generation tells it.                    *)
LEMMA Admission ==
  ASSUME TypeOK, TicketsIssued, LaterLapsWait, SlotGenerations,
         NEW t \in Threads, pc[t] # "idle"
  PROVE  /\ op[t] \in Enqueuing \cup Dequeuing
         /\ Slot(t) \in Index
         /\ ticket[t] < BufferSize => Slot(t) = ticket[t]
         /\ Awaited(op[t], ticket[t]) \in 0 .. GenerationModulus - 1
         /\ ticket[t] < BufferSize =>
              /\ Awaited(op[t], ticket[t]) = IF op[t] \in Enqueuing THEN 0 ELSE 1
              /\ (Awaited(op[t], ticket[t]) + 1) % GenerationModulus
                   = IF op[t] \in Enqueuing THEN 1 ELSE 2
         /\ generation_[Slot(t)] = Awaited(op[t], ticket[t]) => ticket[t] < BufferSize
<1>1. op[t] \in Enqueuing \cup Dequeuing
  BY DEF TypeOK, TicketsIssued
<1>2. ticket[t] \in Nat
  BY DEF TypeOK
<1>3. Counter(op[t]) \in Nat /\ 2 * Counter(op[t]) < GenerationModulus
  BY <1>1, TicketsBounded
<1>4. ticket[t] <= Counter(op[t])
  BY DEF TicketsIssued
<1>5. 2 * ticket[t] < GenerationModulus
  BY <1>2, <1>3, <1>4, SizesAssumption
<1>6. Slot(t) \in Index /\ (ticket[t] < BufferSize => Slot(t) = ticket[t])
  BY <1>2, TicketIndex DEF Slot
<1>7. generation_[Slot(t)] \in 0 .. 2
  BY <1>6 DEF SlotGenerations
<1>8. BufferSize \in Nat
  BY SizesAssumption
<1> QED
  BY <1>1, <1>2, <1>5, <1>6, <1>7, <1>8, AwaitedGeneration

(***************************************************************************)
(* The types.                                                              *)
(***************************************************************************)
LEMMA TypePreserved ==
  ASSUME TypeOK, TicketsIssued, LaterLapsWait, SlotGenerations, [Next]_vars
  PROVE  TypeOK'
<1>1. ASSUME NEW t \in Threads, NEW o \in Enqueuing \cup Dequeuing,
             FetchAdd(t, o) \/ LoadCounter(t, o)
      PROVE  TypeOK'
  <2>1. /\ head_' \in Nat /\ tail_' \in Nat /\ Counter(o) \in Nat
        /\ 0 .. tail_ - 1 \subseteq 0 .. tail_' - 1
    BY <1>1 DEF TypeOK, FetchAdd, LoadCounter, Advance, Counter
  <2>2. data_' \in [Index -> (0 .. tail_' - 1) \cup {Raw}]
    BY <1>1, <2>1 DEF TypeOK, FetchAdd, LoadCounter
  <2>3. /\ generation_' \in [Index -> 0 .. GenerationModulus - 1]
        /\ alive' \in BOOLEAN
    BY <1>1 DEF TypeOK, FetchAdd, LoadCounter
  <2>4. /\ pc' \in [Threads -> {"idle", "wait", "try", "cas", "reload", "use", "store"}]
        /\ op' \in [Threads -> Enqueuing \cup Dequeuing \cup {"none"}]
        /\ ticket' \in [Threads -> Nat]
    BY <1>1, <2>1 DEF TypeOK, FetchAdd, LoadCounter
  <2> QED
    BY <2>1, <2>2, <2>3, <2>4 DEF TypeOK
<1>2. ASSUME NEW t \in Threads, WaitGeneration(t) \/ LoadGeneration(t)
      PROVE  TypeOK'
  BY <1>2 DEF TypeOK, WaitGeneration, LoadGeneration
<1>3. ASSUME NEW t \in Threads, CompareExchange(t)
      PROVE  TypeOK'
  <2>1. /\ head_' \in Nat /\ tail_' \in Nat
        /\ 0 .. tail_ - 1 \subseteq 0 .. tail_' - 1
    BY <1>3 DEF TypeOK, CompareExchange, Advance
  <2> QED
    BY <1>3, <2>1 DEF TypeOK, CompareExchange
<1>4. ASSUME NEW t \in Threads, CompareExchangeFails(t) \/ Refuse(t) \/ Reload(t)
      PROVE  TypeOK'
  BY <1>4 DEF TypeOK, CompareExchangeFails, Refuse, Reload, Return, Counter
<1>5. ASSUME NEW t \in Threads, Construct(t)
      PROVE  TypeOK'
  <2>1. ticket[t] \in 0 .. tail_ - 1
    BY <1>5 DEF TypeOK, Construct, TicketsIssued, HasTicket, Counter
  <2> QED
    BY <1>5, <2>1 DEF TypeOK, Construct
<1>6. ASSUME NEW t \in Threads, MoveAndDestroy(t)
      PROVE  TypeOK'
  BY <1>6 DEF TypeOK, MoveAndDestroy
<1>7. ASSUME NEW t \in Threads, StoreGeneration(t)
      PROVE  TypeOK'
  <2>1. Awaited(op[t], ticket[t]) \in 0 .. GenerationModulus - 1
    BY <1>7, Admission DEF StoreGeneration
  <2>2. (Awaited(op[t], ticket[t]) + 1) % GenerationModulus \in 0 .. GenerationModulus - 1
    BY <2>1, SizesAssumption
  <2> QED
    BY <1>7, <2>2 DEF TypeOK, StoreGeneration, Return
<1>8. CASE DestroyQueue
  BY <1>8 DEF TypeOK, DestroyQueue
<1>9. CASE UNCHANGED vars
  BY <1>9 DEF TypeOK, vars
<1> QED
  BY <1>1, <1>2, <1>3, <1>4, <1>5, <1>6, <1>7, <1>8, <1>9 DEF Next, Step

(***************************************************************************)
(* The tickets.                                                            *)
(***************************************************************************)

(* A counter only moves past the ticket it hands out.                      *)
LEMMA AdvanceByOne ==
  ASSUME TypeOK, NEW o \in Enqueuing \cup Dequeuing, Advance(o),
         NEW p \in Enqueuing \cup Dequeuing
  PROVE  Counter(p)' = IF SameCounter(p, o) THEN Counter(p) + 1 ELSE Counter(p)
BY DEF TypeOK, Advance, Counter, SameCounter, Enqueuing, Dequeuing

LEMMA TicketsIssuedPreserved ==
  ASSUME TypeOK, TicketsIssued, [Next]_vars
  PROVE  TicketsIssued'
<1> USE DEF TicketsIssued, HasTicket
<1>0. /\ head_ \in Nat /\ tail_ \in Nat
      /\ pc \in [Threads -> {"idle", "wait", "try", "cas", "reload", "use", "store"}]
      /\ op \in [Threads -> Enqueuing \cup Dequeuing \cup {"none"}]
      /\ ticket \in [Threads -> Nat]
      /\ "none" \notin Enqueuing \cup Dequeuing
  BY DEF TypeOK, Enqueuing, Dequeuing
<1>1. ASSUME NEW t \in Threads, NEW o \in Enqueuing \cup Dequeuing, FetchAdd(t, o)
      PROVE  TicketsIssued'
  BY <1>0, <1>1, AdvanceByOne DEF FetchAdd, Counter, SameCounter
<1>2. ASSUME NEW t \in Threads, NEW o \in Enqueuing \cup Dequeuing, LoadCounter(t, o)
      PROVE  TicketsIssued'
  BY <1>0, <1>2 DEF LoadCounter, Counter
<1>3. ASSUME NEW t \in Threads, WaitGeneration(t) \/ LoadGeneration(t)
      PROVE  TicketsIssued'
  BY <1>0, <1>3 DEF WaitGeneration, LoadGeneration, Counter
<1>4. ASSUME NEW t \in Threads, CompareExchange(t)
      PROVE  TicketsIssued'
  <2>1. op[t] \in Enqueuing \cup Dequeuing
    BY <1>0, <1>4 DEF CompareExchange
  <2> QED
    BY <1>0, <1>4, <2>1, AdvanceByOne DEF CompareExchange, Counter, SameCounter
<1>5. ASSUME NEW t \in Threads, CompareExchangeFails(t) \/ Refuse(t) \/ Reload(t)
      PROVE  TicketsIssued'
  BY <1>0, <1>5 DEF CompareExchangeFails, Refuse, Reload, Return, Counter
<1>6. ASSUME NEW t \in Threads, Construct(t) \/ MoveAndDestroy(t) \/ StoreGeneration(t)
      PROVE  TicketsIssued'
  BY <1>0, <1>6 DEF Construct, MoveAndDestroy, StoreGeneration, Return, Counter
<1>7. CASE DestroyQueue \/ UNCHANGED vars
  BY <1>0, <1>7 DEF DestroyQueue, vars, Counter
<1> QED
  BY <1>1, <1>2, <1>3, <1>4, <1>5, <1>6, <1>7 DEF Next, Step

(* A counter is past every ticket it has handed out, so the next one is    *)
(* new.                                                                    *)
LEMMA TicketsUniquePreserved ==
  ASSUME TypeOK, TicketsIssued, TicketsUnique, [Next]_vars
  PROVE  TicketsUnique'
<1> USE DEF TicketsUnique, HasTicket, SameCounter
<1>0. /\ pc \in [Threads -> {"idle", "wait", "try", "cas", "reload", "use", "store"}]
      /\ op \in [Threads -> Enqueuing \cup Dequeuing \cup {"none"}]
      /\ ticket \in [Threads -> Nat]
  BY DEF TypeOK
<1>1. \A t \in Threads : HasTicket(t) => ticket[t] # Counter(op[t])
  BY <1>0 DEF TicketsIssued
<1>2. ASSUME NEW t \in Threads, NEW o \in Enqueuing \cup Dequeuing, FetchAdd(t, o)
      PROVE  TicketsUnique'
  BY <1>0, <1>1, <1>2 DEF FetchAdd, Counter
<1>3. ASSUME NEW t \in Threads, NEW o \in Enqueuing \cup Dequeuing, LoadCounter(t, o)
      PROVE  TicketsUnique'
  BY <1>0, <1>3 DEF LoadCounter
<1>4. ASSUME NEW t \in Threads, WaitGeneration(t) \/ LoadGeneration(t)
      PROVE  TicketsUnique'
  BY <1>0, <1>4 DEF WaitGeneration, LoadGeneration
<1>5. ASSUME NEW t \in Threads, CompareExchange(t)
      PROVE  TicketsUnique'
  BY <1>0, <1>1, <1>5 DEF CompareExchange, Counter
<1>6. ASSUME NEW t \in Threads, CompareExchangeFails(t) \/ Refuse(t) \/ Reload(t)
      PROVE  TicketsUnique'
  BY <1>0, <1>6 DEF CompareExchangeFails, Refuse, Reload, Return
<1>7. ASSUME NEW t \in Threads, Construct(t) \/ MoveAndDestroy(t) \/ StoreGeneration(t)
      PROVE  TicketsUnique'
  BY <1>0, <1>7 DEF Construct, MoveAndDestroy, StoreGeneration, Return
<1>8. CASE DestroyQueue \/ UNCHANGED vars
  BY <1>8 DEF DestroyQueue, vars
<1> QED
  BY <1>2, <1>3, <1>4, <1>5, <1>6, <1>7, <1>8 DEF Next, Step

(* No call gets past the wait with a ticket of a later lap, and only a     *)
(* ticket of the first lap is taken by compare-and-exchange.               *)
LEMMA LaterLapsWaitPreserved ==
  ASSUME TypeOK, TicketsIssued, LaterLapsWait, SlotGenerations, CallGenerations,
         [Next]_vars
  PROVE  LaterLapsWait'
<1> USE DEF LaterLapsWait, SameCounter
<1>0. /\ head_ \in Nat /\ tail_ \in Nat
      /\ pc \in [Threads -> {"idle", "wait", "try", "cas", "reload", "use", "store"}]
      /\ op \in [Threads -> Enqueuing \cup Dequeuing \cup {"none"}]
      /\ ticket \in [Threads -> Nat]
      /\ BufferSize \in Nat
  BY SizesAssumption DEF TypeOK
<1>1. ASSUME NEW t \in Threads, NEW o \in Enqueuing \cup Dequeuing, FetchAdd(t, o)
      PROVE  LaterLapsWait'
  <2> SUFFICES ASSUME NEW p \in Enqueuing \cup Dequeuing,
                      NEW k \in BufferSize .. Counter(p)' - 1
               PROVE  \E u \in Threads : /\ pc'[u] = "wait" /\ SameCounter(op'[u], p)
                                         /\ ticket'[u] = k
    OBVIOUS
  <2>1. CASE k \in BufferSize .. Counter(p) - 1
    <3>1. PICK u \in Threads : pc[u] = "wait" /\ SameCounter(op[u], p) /\ ticket[u] = k
      BY <2>1
    <3>2. u # t
      BY <1>1, <3>1 DEF FetchAdd
    <3> QED
      BY <1>0, <1>1, <3>1, <3>2 DEF FetchAdd
  <2>2. CASE k \notin BufferSize .. Counter(p) - 1
    <3>1. Counter(p) \in Nat /\ Counter(p)' = IF SameCounter(p, o) THEN Counter(p) + 1 ELSE Counter(p)
      BY <1>0, <1>1, AdvanceByOne DEF FetchAdd, Counter
    <3>2. SameCounter(p, o) /\ k = Counter(p)
      BY <1>0, <2>2, <3>1
    <3>3. Counter(p) = Counter(o)
      BY <3>2 DEF Counter
    <3> QED
      BY <1>0, <1>1, <3>2, <3>3 DEF FetchAdd
  <2> QED
    BY <2>1, <2>2
<1>2. ASSUME NEW t \in Threads, NEW o \in Enqueuing \cup Dequeuing, LoadCounter(t, o)
      PROVE  LaterLapsWait'
  BY <1>0, <1>2 DEF LoadCounter, Counter
<1>3. ASSUME NEW t \in Threads, WaitGeneration(t)
      PROVE  LaterLapsWait'
  <2>1. ticket[t] >= BufferSize => pc' = pc
    <3>1. generation_[Slot(t)] = Awaited(op[t], ticket[t]) => ticket[t] < BufferSize
      BY <1>3, Admission DEF WaitGeneration
    <3> QED
      BY <1>0, <1>3, <3>1 DEF WaitGeneration
  <2> QED
    BY <1>0, <1>3, <2>1 DEF WaitGeneration, Counter
<1>4. ASSUME NEW t \in Threads, LoadGeneration(t)
      PROVE  LaterLapsWait'
  BY <1>0, <1>4 DEF LoadGeneration, Counter
<1>5. ASSUME NEW t \in Threads, CompareExchange(t)
      PROVE  LaterLapsWait'
  <2>1. op[t] \in Enqueuing \cup Dequeuing /\ Counter(op[t]) < BufferSize
    BY <1>0, <1>5 DEF CompareExchange, TicketsIssued, CallGenerations
  <2>2. ASSUME NEW p \in Enqueuing \cup Dequeuing
        PROVE  BufferSize .. Counter(p)' - 1 \subseteq BufferSize .. Counter(p) - 1
    <3>1. Counter(p) \in Nat /\ Counter(p)' = IF SameCounter(p, op[t]) THEN Counter(p) + 1 ELSE Counter(p)
      BY <1>0, <1>5, <2>1, AdvanceByOne DEF CompareExchange, Counter
    <3>2. SameCounter(p, op[t]) => Counter(p) < BufferSize
      BY <2>1 DEF Counter
    <3> QED
      BY <1>0, <3>1, <3>2
  <2> QED
    BY <1>0, <1>5, <2>2 DEF CompareExchange
<1>6. ASSUME NEW t \in Threads, CompareExchangeFails(t) \/ Refuse(t) \/ Reload(t)
      PROVE  LaterLapsWait'
  BY <1>0, <1>6 DEF CompareExchangeFails, Refuse, Reload, Return, Counter
<1>7. ASSUME NEW t \in Threads, Construct(t) \/ MoveAndDestroy(t) \/ StoreGeneration(t)
      PROVE  LaterLapsWait'
  BY <1>0, <1>7 DEF Construct, MoveAndDestroy, StoreGeneration, Return, Counter
<1>8. CASE DestroyQueue \/ UNCHANGED vars
  BY <1>8 DEF DestroyQueue, vars, Counter
<1> QED
  BY <1>1, <1>2, <1>3, <1>4, <1>5, <1>6, <1>7, <1>8 DEF Next, Step

(***************************************************************************)
(* The generations.                                                        *)
(***************************************************************************)

(* A call that stores a generation is alone with its slot's ticket.        *)
LEMMA StoredGeneration ==
  ASSUME TypeOK, TicketsIssued, LaterLapsWait, SlotGenerations, CallGenerations,
         NEW t \in Threads, StoreGeneration(t)
  PROVE  /\ op[t] \in Enqueuing \cup Dequeuing
         /\ ticket[t] \in Index /\ ticket[t] < Counter(op[t])
         /\ generation_[ticket[t]] = IF op[t] \in Enqueuing THEN 0 ELSE 1
         /\ generation_' = [generation_ EXCEPT ![ticket[t]] =
                              IF op[t] \in Enqueuing THEN 1 ELSE 2]
<1>1. pc[t] = "store" /\ ticket[t] \in Nat /\ Counter(op[t]) \in Nat
  BY DEF StoreGeneration, TypeOK, Counter
<1>2. ticket[t] < BufferSize /\ ticket[t] < Counter(op[t])
  BY <1>1 DEF CallGenerations, Using, TicketsIssued, HasTicket
<1>3. /\ op[t] \in Enqueuing \cup Dequeuing /\ Slot(t) = ticket[t]
      /\ (Awaited(op[t], ticket[t]) + 1) % GenerationModulus
           = IF op[t] \in Enqueuing THEN 1 ELSE 2
  BY <1>1, <1>2, Admission
<1>4. generation_[ticket[t]] = IF op[t] \in Enqueuing THEN 0 ELSE 1
  BY <1>1, <1>2, <1>3 DEF CallGenerations, Using, HasTicket
<1>5. ticket[t] \in Index
  BY <1>1, <1>2, SizesAssumption DEF Index
<1>6. generation_' = [generation_ EXCEPT ![Slot(t)] =
                        (Awaited(op[t], ticket[t]) + 1) % GenerationModulus]
  BY DEF StoreGeneration
<1>7. generation_' = [generation_ EXCEPT ![ticket[t]] = IF op[t] \in Enqueuing THEN 1 ELSE 2]
  BY <1>3, <1>6
<1> QED
  BY <1>2, <1>3, <1>4, <1>5, <1>7

LEMMA SlotGenerationsPreserved ==
  ASSUME TypeOK, TicketsIssued, LaterLapsWait, SlotGenerations, CallGenerations,
         [Next]_vars
  PROVE  SlotGenerations'
<1>0. /\ head_ \in Nat /\ tail_ \in Nat /\ generation_ \in [Index -> Int]
      /\ \A i \in Index : i \in Nat
  BY SizesAssumption DEF TypeOK, Index
<1>1. ASSUME head_' \in Nat, tail_' \in Nat, head_' >= head_, tail_' >= tail_,
             generation_' = generation_
      PROVE  SlotGenerations'
  BY <1>0, <1>1 DEF SlotGenerations
<1>2. ASSUME NEW t \in Threads, NEW o \in Enqueuing \cup Dequeuing,
             FetchAdd(t, o) \/ LoadCounter(t, o)
      PROVE  SlotGenerations'
  BY <1>0, <1>1, <1>2 DEF FetchAdd, LoadCounter, Advance
<1>3. ASSUME NEW t \in Threads, WaitGeneration(t) \/ LoadGeneration(t)
      PROVE  SlotGenerations'
  BY <1>0, <1>1, <1>3 DEF WaitGeneration, LoadGeneration
<1>4. ASSUME NEW t \in Threads, CompareExchange(t)
      PROVE  SlotGenerations'
  BY <1>0, <1>1, <1>4 DEF CompareExchange, Advance
<1>5. ASSUME NEW t \in Threads, CompareExchangeFails(t) \/ Refuse(t) \/ Reload(t)
      PROVE  SlotGenerations'
  BY <1>0, <1>1, <1>5 DEF CompareExchangeFails, Refuse, Reload
<1>6. ASSUME NEW t \in Threads, Construct(t) \/ MoveAndDestroy(t)
      PROVE  SlotGenerations'
  BY <1>0, <1>1, <1>6 DEF Construct, MoveAndDestroy
<1>7. ASSUME NEW t \in Threads, StoreGeneration(t)
      PROVE  SlotGenerations'
  <2>1. UNCHANGED <<head_, tail_>>
    BY <1>7 DEF StoreGeneration
  <2>2. /\ ticket[t] \in Index /\ ticket[t] < Counter(op[t])
        /\ generation_[ticket[t]] = IF op[t] \in Enqueuing THEN 0 ELSE 1
        /\ generation_' = [generation_ EXCEPT ![ticket[t]] =
                             IF op[t] \in Enqueuing THEN 1 ELSE 2]
    BY <1>7, StoredGeneration
  <2> QED
    BY <1>0, <2>1, <2>2 DEF SlotGenerations, Counter
<1>8. CASE DestroyQueue \/ UNCHANGED vars
  BY <1>0, <1>1, <1>8 DEF DestroyQueue, vars
<1> QED
  BY <1>2, <1>3, <1>4, <1>5, <1>6, <1>7, <1>8 DEF Next, Step

(* The generation a call has seen is still there when it takes its ticket, *)
(* and until it stores the next one: only the call with the slot's ticket  *)
(* stores it.                                                              *)
LEMMA CallGenerationsPreserved ==
  ASSUME TypeOK, TicketsIssued, TicketsUnique, LaterLapsWait, SlotGenerations,
         CallGenerations, [Next]_vars
  PROVE  CallGenerations'
<1> USE DEF CallGenerations, HasTicket, Using
<1>0. /\ head_ \in Nat /\ tail_ \in Nat
      /\ pc \in [Threads -> {"idle", "wait", "try", "cas", "reload", "use", "store"}]
      /\ op \in [Threads -> Enqueuing \cup Dequeuing \cup {"none"}]
      /\ ticket \in [Threads -> Nat]
      /\ Enqueuing \cap Dequeuing = {}
      /\ BufferSize \in Nat
  BY SizesAssumption DEF TypeOK, Enqueuing, Dequeuing
<1>a. \A k \in Nat : k < BufferSize => GetIndex(k) = k /\ k \in Index
  BY TicketIndex
<1>b. \A i \in Index : /\ generation_[i] \in {0, 1, 2}
                       /\ i = tail_ => generation_[i] = 0
                       /\ i = head_ => generation_[i] # 2
  <2> TAKE i \in Index
  <2>1. i \in Nat
    BY SizesAssumption DEF Index
  <2> QED
    BY <1>0, <2>1 DEF SlotGenerations
<1>1. ASSUME NEW t \in Threads, NEW o \in Enqueuing \cup Dequeuing, FetchAdd(t, o)
      PROVE  CallGenerations'
  <2>1. Counter(o) < BufferSize =>
          /\ GetIndex(Counter(o)) = Counter(o)
          /\ generation_[Counter(o)] \in IF o \in Enqueuing THEN {0} ELSE {0, 1}
    BY <1>0, <1>a, <1>b DEF Counter
  <2> QED
    BY <1>0, <1>1, <2>1 DEF FetchAdd, Slot
<1>2. ASSUME NEW t \in Threads, NEW o \in Enqueuing \cup Dequeuing, LoadCounter(t, o)
      PROVE  CallGenerations'
  BY <1>0, <1>2 DEF LoadCounter, Slot
<1>3. ASSUME NEW t \in Threads, WaitGeneration(t) \/ LoadGeneration(t)
      PROVE  CallGenerations'
  <2>1. /\ op[t] \in Enqueuing \cup Dequeuing
        /\ ticket[t] < BufferSize =>
             Awaited(op[t], ticket[t]) = IF op[t] \in Enqueuing THEN 0 ELSE 1
        /\ generation_[Slot(t)] = Awaited(op[t], ticket[t]) => ticket[t] < BufferSize
    BY <1>3, Admission DEF WaitGeneration, LoadGeneration
  <2> QED
    BY <1>0, <1>3, <2>1 DEF WaitGeneration, LoadGeneration, Slot
<1>4. ASSUME NEW t \in Threads, CompareExchange(t)
      PROVE  CallGenerations'
  <2>1. /\ op[t] \in Enqueuing \cup Dequeuing
        /\ ticket[t] < BufferSize /\ ticket[t] = Counter(op[t])
    BY <1>0, <1>4 DEF CompareExchange, TicketsIssued
  <2>2. generation_[Slot(t)] \in IF op[t] \in Enqueuing THEN {0} ELSE {0, 1}
    BY <1>0, <1>a, <1>b, <2>1 DEF Counter, Slot
  <2> QED
    BY <1>0, <1>4, <2>1, <2>2 DEF CompareExchange, Slot
<1>5. ASSUME NEW t \in Threads, CompareExchangeFails(t) \/ Refuse(t) \/ Reload(t)
      PROVE  CallGenerations'
  BY <1>0, <1>5 DEF CompareExchangeFails, Refuse, Reload, Return, Slot
<1>6. ASSUME NEW t \in Threads, Construct(t) \/ MoveAndDestroy(t)
      PROVE  CallGenerations'
  BY <1>0, <1>6 DEF Construct, MoveAndDestroy, Slot
<1>7. ASSUME NEW t \in Threads, StoreGeneration(t)
      PROVE  CallGenerations'
  <2>1. /\ op[t] \in Enqueuing \cup Dequeuing
        /\ ticket[t] \in Index
        /\ generation_[ticket[t]] = IF op[t] \in Enqueuing THEN 0 ELSE 1
        /\ generation_' = [generation_ EXCEPT ![ticket[t]] =
                             IF op[t] \in Enqueuing THEN 1 ELSE 2]
    BY <1>7, StoredGeneration
  <2>2. /\ pc' = [pc EXCEPT ![t] = "idle"] /\ pc[t] = "store"
        /\ op' = [op EXCEPT ![t] = "none"]
        /\ ticket' = [ticket EXCEPT ![t] = 0]
    BY <1>7 DEF StoreGeneration, Return
  <2>3. generation_ \in [Index -> Int]
    BY DEF TypeOK
  <2> SUFFICES ASSUME NEW u \in Threads, u # t
               PROVE  CallGenerations!(u)'
    BY <1>0, <2>2
  <2>4. pc'[u] = pc[u] /\ op'[u] = op[u] /\ ticket'[u] = ticket[u] /\ Slot(u)' = Slot(u)
    BY <1>0, <2>2 DEF Slot
  <2>5. /\ ticket[u] < BufferSize => Slot(u) = ticket[u]
        /\ Slot(u) \in Index
    BY <1>0, TicketIndex DEF Slot
  <2>6. CASE Slot(u) # ticket[t]
    <3>1. generation_'[Slot(u)] = generation_[Slot(u)]
      BY <2>1, <2>3, <2>5, <2>6
    <3> QED
      BY <2>4, <3>1
  <2>7. CASE Slot(u) = ticket[t]
    <3>1. generation_'[Slot(u)] = IF op[t] \in Enqueuing THEN 1 ELSE 2
      BY <2>1, <2>3, <2>7
    <3>2. HasTicket(u) /\ ticket[u] < BufferSize =>
            ~(op[u] \in Enqueuing <=> op[t] \in Enqueuing)
      BY <2>2, <2>5, <2>7 DEF TicketsUnique, SameCounter
    <3>3. HasTicket(u) /\ ticket[u] < BufferSize /\ op[u] \in Enqueuing =>
            op[t] \in Enqueuing
      BY <1>0, <2>1, <2>7
    <3> QED
      BY <2>4, <3>1, <3>2, <3>3
  <2> QED
    BY <2>6, <2>7
<1>8. CASE DestroyQueue \/ UNCHANGED vars
  BY <1>8 DEF DestroyQueue, vars, Slot
<1> QED
  BY <1>1, <1>2, <1>3, <1>4, <1>5, <1>6, <1>7, <1>8 DEF Next, Step

(***************************************************************************)
(* The elements.                                                           *)
(***************************************************************************)

(* Two calls that use a slot have different tickets: from the same counter *)
(* because it hands out each once, from different counters because the     *)
(* slot has one generation.                                                *)
LEMMA OneUser ==
  ASSUME TypeOK, TicketsIssued, TicketsUnique, CallGenerations,
         NEW t \in Threads, NEW u \in Threads, t # u, Using(t), Using(u)
  PROVE  /\ ticket[t] # ticket[u]
         /\ ticket[t] \in Index /\ Slot(t) = ticket[t]
         /\ ticket[u] \in Index /\ Slot(u) = ticket[u]
<1>1. ticket[t] \in Nat /\ ticket[u] \in Nat /\ BufferSize \in Nat
  BY SizesAssumption DEF TypeOK
<1>2. ticket[t] < BufferSize /\ ticket[u] < BufferSize
  BY DEF CallGenerations
<1>3. /\ ticket[t] \in Index /\ Slot(t) = ticket[t]
      /\ ticket[u] \in Index /\ Slot(u) = ticket[u]
  BY <1>1, <1>2, TicketIndex DEF Slot
<1>4. ASSUME ticket[t] = ticket[u]
      PROVE  FALSE
  <2>1. op[t] \in Enqueuing \cup Dequeuing /\ op[u] \in Enqueuing \cup Dequeuing
    BY DEF TypeOK, TicketsIssued, Using
  <2>2. ~SameCounter(op[t], op[u])
    BY <1>4 DEF TicketsUnique, HasTicket, Using
  <2> QED
    BY <1>2, <1>3, <1>4, <2>1, <2>2 DEF SameCounter, CallGenerations, HasTicket, Using
<1> QED
  BY <1>3, <1>4

(* Whoever moves the generation of a slot on moves the element with it.    *)
LEMMA SlotElementsPreserved ==
  ASSUME TypeOK, TicketsIssued, TicketsUnique, LaterLapsWait, SlotGenerations,
         CallGenerations, SlotElements, [Next]_vars
  PROVE  SlotElements'
<1>0. /\ pc \in [Threads -> {"idle", "wait", "try", "cas", "reload", "use", "store"}]
      /\ ticket \in [Threads -> Nat]
      /\ data_ \in [Index -> Int]
      /\ generation_ \in [Index -> Int]
  BY DEF TypeOK, Raw
<1>1. ASSUME UNCHANGED <<generation_, data_, alive>>,
             \A u \in Threads : /\ pc'[u] = "store" <=> pc[u] = "store"
                                /\ pc[u] = "store" => ticket'[u] = ticket[u]
      PROVE  SlotElements'
  <2>1. \A i \in Index : Storing(i)' <=> Storing(i)
    BY <1>1 DEF Storing
  <2> QED
    BY <1>1, <2>1 DEF SlotElements
<1>2. ASSUME NEW t \in Threads, NEW o \in Enqueuing \cup Dequeuing,
             FetchAdd(t, o) \/ LoadCounter(t, o)
      PROVE  SlotElements'
  BY <1>0, <1>1, <1>2 DEF FetchAdd, LoadCounter
<1>3. ASSUME NEW t \in Threads, WaitGeneration(t) \/ LoadGeneration(t)
      PROVE  SlotElements'
  BY <1>0, <1>1, <1>3 DEF WaitGeneration, LoadGeneration
<1>4. ASSUME NEW t \in Threads,
             CompareExchange(t) \/ CompareExchangeFails(t) \/ Refuse(t) \/ Reload(t)
      PROVE  SlotElements'
  BY <1>0, <1>1, <1>4 DEF CompareExchange, CompareExchangeFails, Refuse, Reload, Return
<1>5. ASSUME NEW t \in Threads, Construct(t) \/ MoveAndDestroy(t)
      PROVE  SlotElements'
  <2> SUFFICES ASSUME alive, NEW i \in Index
               PROVE  data_'[i] = IF (generation_[i] = 1) <=> Storing(i)' THEN Raw ELSE i
    BY <1>5 DEF SlotElements, Construct, MoveAndDestroy
  <2>1. Using(t) /\ op[t] \in Enqueuing \cup Dequeuing
    BY <1>5 DEF Construct, MoveAndDestroy, Using
  <2>2. ticket[t] < BufferSize /\ ticket[t] \in Index /\ Slot(t) = ticket[t]
    BY <1>0, <2>1, TicketIndex DEF CallGenerations, Slot
  <2>3. pc' = [pc EXCEPT ![t] = "store"] /\ ticket' = ticket
    BY <1>5 DEF Construct, MoveAndDestroy
  <2>4. CASE i # ticket[t]
    <3>1. Storing(i)' <=> Storing(i)
      BY <1>0, <1>5, <2>3, <2>4 DEF Storing, Construct, MoveAndDestroy
    <3>2. data_'[i] = data_[i]
      BY <1>0, <1>5, <2>2, <2>4 DEF Construct, MoveAndDestroy
    <3> QED
      BY <3>1, <3>2 DEF SlotElements
  <2>5. CASE i = ticket[t]
    <3>1. Storing(i)'
      BY <1>0, <2>3, <2>5 DEF Storing
    <3>2. CASE Construct(t)
      <4>1. generation_[i] = 0 /\ data_'[i] = i
        BY <1>0, <2>1, <2>2, <2>5, <3>2 DEF Construct, CallGenerations, HasTicket, Using
      <4> QED
        BY <3>1, <4>1
    <3>3. CASE MoveAndDestroy(t)
      <4>1. op[t] \in Dequeuing /\ op[t] \notin Enqueuing
        BY <3>3 DEF MoveAndDestroy, Enqueuing, Dequeuing
      <4>2. generation_[i] = 1
        BY <2>1, <2>2, <2>5, <4>1 DEF CallGenerations, HasTicket, Using
      <4>3. data_'[i] = Raw
        BY <1>0, <2>2, <2>5, <3>3 DEF MoveAndDestroy
      <4> QED
        BY <3>1, <4>2, <4>3
    <3> QED
      BY <1>5, <3>2, <3>3
  <2> QED
    BY <2>4, <2>5
<1>6. ASSUME NEW t \in Threads, StoreGeneration(t)
      PROVE  SlotElements'
  <2> SUFFICES ASSUME alive, NEW i \in Index
               PROVE  data_[i] = IF (generation_'[i] = 1) <=> Storing(i)' THEN Raw ELSE i
    BY <1>6 DEF SlotElements, StoreGeneration
  <2>1. /\ op[t] \in Enqueuing \cup Dequeuing
        /\ ticket[t] \in Index
        /\ generation_[ticket[t]] = IF op[t] \in Enqueuing THEN 0 ELSE 1
        /\ generation_' = [generation_ EXCEPT ![ticket[t]] =
                             IF op[t] \in Enqueuing THEN 1 ELSE 2]
    BY <1>6, StoredGeneration
  <2>2. /\ pc[t] = "store" /\ Using(t)
        /\ pc' = [pc EXCEPT ![t] = "idle"]
        /\ ticket' = [ticket EXCEPT ![t] = 0]
    BY <1>6 DEF StoreGeneration, Return, Using
  <2>3. CASE i # ticket[t]
    <3>1. Storing(i)' <=> Storing(i)
      BY <1>0, <2>2, <2>3 DEF Storing
    <3>2. generation_'[i] = generation_[i]
      BY <1>0, <2>1, <2>3
    <3> QED
      BY <3>1, <3>2 DEF SlotElements
  <2>4. CASE i = ticket[t]
    <3>1. Storing(i)
      BY <2>2, <2>4 DEF Storing
    <3>2. ~Storing(i)'
      <4> SUFFICES ASSUME NEW u \in Threads, pc'[u] = "store", ticket'[u] = i
                   PROVE  FALSE
        BY DEF Storing
      <4>1. u # t /\ pc[u] = "store" /\ ticket[u] = ticket[t]
        BY <1>0, <2>2, <2>4
      <4> QED
        BY <2>2, <4>1, OneUser DEF Using
    <3>3. data_[i] = IF (generation_[i] = 1) <=> Storing(i) THEN Raw ELSE i
      BY DEF SlotElements
    <3>4. generation_'[i] = IF op[t] \in Enqueuing THEN 1 ELSE 2
      BY <1>0, <2>1, <2>4
    <3> QED
      BY <2>1, <2>4, <3>1, <3>2, <3>3, <3>4
  <2> QED
    BY <2>3, <2>4
<1>7. CASE DestroyQueue
  BY <1>7 DEF DestroyQueue, SlotElements
<1>8. CASE UNCHANGED vars
  BY <1>1, <1>8 DEF vars
<1> QED
  BY <1>2, <1>3, <1>4, <1>5, <1>6, <1>7, <1>8 DEF Next, Step

(* The destructor finds every element behind an odd generation, and no     *)
(* call starts after it.                                                   *)
LEMMA DestroyedPreserved ==
  ASSUME TypeOK, SlotGenerations, SlotElements, Destroyed, [Next]_vars
  PROVE  Destroyed'
<1>1. CASE ~alive
  <2>1. \A t \in Threads : pc[t] = "idle"
    BY <1>1 DEF Destroyed
  <2>2. \A t \in Threads : ~Step(t)
    BY <2>1 DEF Step, WaitGeneration, LoadGeneration, CompareExchange,
                CompareExchangeFails, Refuse, Reload, Construct, MoveAndDestroy,
                StoreGeneration
  <2>3. UNCHANGED vars
    BY <1>1, <2>2 DEF Next, FetchAdd, LoadCounter, DestroyQueue
  <2> QED
    BY <2>3 DEF vars, Destroyed
<1>2. CASE DestroyQueue
  <2>1. \A t \in Threads : pc[t] = "idle" /\ pc' = pc
    BY <1>2 DEF DestroyQueue
  <2>2. ASSUME NEW i \in Index
        PROVE  data_'[i] = Raw
    <3>1. alive /\ ~Storing(i)
      BY <1>2, <2>1 DEF Storing, DestroyQueue
    <3>2. generation_[i] # 1 => data_[i] = Raw
      BY <3>1 DEF SlotElements
    <3>3. data_'[i] = IF generation_[i] % 2 = 1 THEN Raw ELSE data_[i]
      BY <1>2 DEF DestroyQueue
    <3> QED
      BY <3>2, <3>3 DEF SlotGenerations
  <2> QED
    BY <2>1, <2>2 DEF Destroyed
<1>3. CASE alive /\ ~DestroyQueue
  <2>1. alive' = alive
    BY <1>3 DEF Next, Step, vars, FetchAdd, LoadCounter, WaitGeneration, LoadGeneration,
                CompareExchange, CompareExchangeFails, Refuse, Reload, Construct,
                MoveAndDestroy, StoreGeneration
  <2> QED
    BY <1>3, <2>1 DEF Destroyed
<1> QED
  BY <1>1, <1>2, <1>3

(***************************************************************************)
(* The theorems.                                                           *)
(***************************************************************************)

(* Emplace, Dequeue, TryEmplace and TryDequeue keep the tickets, the       *)
(* generations and the elements in step in every interleaving: IInv is     *)
(* inductive.                                                              *)
THEOREM InvariantHolds == Spec => []IInv
<1>1. Init => IInv
  <2> SUFFICES ASSUME Init
               PROVE  IInv
    OBVIOUS
  <2>0. /\ BufferSize \in Nat /\ BufferSize > 1
        /\ GenerationModulus \in Nat /\ GenerationModulus > 0
    BY SizesAssumption
  <2>1. TypeOK
    BY <2>0 DEF Init, TypeOK, Raw
  <2>2. TicketsIssued /\ TicketsUnique
    BY DEF Init, TicketsIssued, TicketsUnique, HasTicket
  <2>3. LaterLapsWait
    <3>1. \A o \in Enqueuing \cup Dequeuing : BufferSize .. Counter(o) - 1 = {}
      BY <2>0 DEF Init, Counter
    <3> QED
      BY <3>1 DEF LaterLapsWait
  <2>4. SlotGenerations
    BY DEF Init, SlotGenerations
  <2>5. CallGenerations
    BY DEF Init, CallGenerations, Using, HasTicket
  <2>6. SlotElements
    BY DEF Init, SlotElements, Storing
  <2>7. Destroyed
    BY DEF Init, Destroyed
  <2> QED
    BY <2>1, <2>2, <2>3, <2>4, <2>5, <2>6, <2>7 DEF IInv
<1>2. IInv /\ [Next]_vars => IInv'
  <2> SUFFICES ASSUME IInv, [Next]_vars
               PROVE  IInv'
    OBVIOUS
  <2>1. /\ TypeOK /\ TicketsIssued /\ TicketsUnique /\ LaterLapsWait
        /\ SlotGenerations /\ CallGenerations /\ SlotElements /\ Destroyed
    BY DEF IInv
  <2>2. TypeOK'
    BY <2>1, TypePreserved
  <2>3. TicketsIssued' /\ TicketsUnique' /\ LaterLapsWait'
    BY <2>1, TicketsIssuedPreserved, TicketsUniquePreserved, LaterLapsWaitPreserved
  <2>4. SlotGenerations' /\ CallGenerations'
    BY <2>1, SlotGenerationsPreserved, CallGenerationsPreserved
  <2>5. SlotElements' /\ Destroyed'
    BY <2>1, SlotElementsPreserved, DestroyedPreserved
  <2> QED
    BY <2>2, <2>3, <2>4, <2>5 DEF IInv
<1> QED
  BY <1>1, <1>2, PTL DEF Spec

(* Every variable keeps its type: in particular no slot holds an element   *)
(* whose ticket tail_ has not given out.                                   *)
THEOREM TypeCorrect == Spec => []TypeOK
<1>1. IInv => TypeOK
  BY DEF IInv
<1> QED
  BY <1>1, InvariantHolds, PTL

(* No two threads are ever between the check of a slot's generation and    *)
(* its store: the plain accesses to the slot's data do not race.           *)
THEOREM SlotsExclusive == Spec => []ExclusiveSlot
<1>1. IInv => ExclusiveSlot
  BY OneUser DEF IInv, ExclusiveSlot
<1> QED
  BY <1>1, InvariantHolds, PTL

(* Emplace and TryEmplace construct in raw storage, Dequeue and TryDequeue *)
(* take the element of their own ticket.                                   *)
THEOREM ElementsByTicket == Spec => []TicketOrder
<1>1. IInv => TicketOrder
  <2> SUFFICES ASSUME IInv, NEW t \in Threads, pc[t] = "use"
               PROVE  data_[Slot(t)] = IF op[t] \in Enqueuing THEN Raw ELSE ticket[t]
    BY DEF TicketOrder
  <2>1. Using(t) /\ HasTicket(t) /\ alive /\ ticket[t] \in Nat
    BY DEF IInv, TypeOK, Destroyed, Using, HasTicket
  <2>2. ticket[t] < BufferSize /\ ticket[t] \in Index /\ Slot(t) = ticket[t]
    BY <2>1, TicketIndex DEF IInv, CallGenerations, Slot
  <2>3. op[t] \in Enqueuing \cup Dequeuing
    BY DEF IInv, TypeOK, TicketsIssued
  <2>4. generation_[ticket[t]] = IF op[t] \in Enqueuing THEN 0 ELSE 1
    BY <2>1, <2>2, <2>3 DEF IInv, CallGenerations
  <2>5. ~Storing(ticket[t])
    <3> SUFFICES ASSUME NEW u \in Threads, pc[u] = "store", ticket[u] = ticket[t]
                 PROVE  FALSE
      BY DEF Storing
    <3> QED
      BY <2>1, OneUser DEF IInv, Using
  <2> QED
    BY <2>1, <2>2, <2>4, <2>5 DEF IInv, SlotElements
<1> QED
  BY <1>1, InvariantHolds, PTL

(* What ~MPMCQueueSlot relies on: outside the calls an odd generation      *)
(* means that there is an element, and an even one that there is none.     *)
THEOREM ParityTellsElements == Spec => []GenerationParity
<1>1. IInv => GenerationParity
  <2> SUFFICES ASSUME IInv, NEW i \in Index, alive,
                      \A t \in Threads : ~(Using(t) /\ Slot(t) = i)
               PROVE  generation_[i] % 2 = 1 <=> data_[i] # Raw
    BY DEF GenerationParity
  <2>1. ~Storing(i)
    <3> SUFFICES ASSUME NEW u \in Threads, pc[u] = "store", ticket[u] = i
                 PROVE  FALSE
      BY DEF Storing
    <3>1. Using(u) /\ ticket[u] \in Nat /\ ticket[u] < BufferSize
      BY DEF IInv, TypeOK, CallGenerations, Using
    <3> QED
      BY <3>1, TicketIndex DEF Slot
  <2>2. generation_[i] \in 0 .. 2
    BY DEF IInv, SlotGenerations
  <2>3. generation_[i] % 2 = 1 <=> generation_[i] = 1
    BY <2>2
  <2>4. i # Raw
    BY SizesAssumption DEF Index, Raw
  <2> QED
    BY <2>1, <2>3, <2>4 DEF IInv, SlotElements
<1> QED
  BY <1>1, InvariantHolds, PTL

(* The destructor destroys every element, whatever calls were made.        *)
THEOREM NothingLeaks == Spec => []NoLeak
<1>1. IInv => NoLeak
  BY DEF IInv, Destroyed, NoLeak
<1> QED
  BY <1>1, InvariantHolds, PTL

(* TryEmplace never gives up while tail_ is in the first lap: the load     *)
(* that saw the slot taken was then made under a ticket that is gone.      *)
THEOREM FirstLapAccepts == Spec => NotRefusedInFirstLap
<1>1. IInv /\ [Next]_vars =>
        [\A t \in Threads : Refuse(t) /\ op[t] = "TryEmplace" => tail_ >= BufferSize]_vars
  <2> SUFFICES ASSUME IInv, NEW t \in Threads, Refuse(t), op[t] = "TryEmplace"
               PROVE  tail_ >= BufferSize
    OBVIOUS
  <2>1. /\ pc[t] = "reload" /\ ticket[t] = tail_ /\ op[t] \in Enqueuing
        /\ tail_ \in Nat /\ BufferSize \in Nat
    BY SizesAssumption DEF Refuse, Counter, Enqueuing, IInv, TypeOK
  <2>2. ASSUME tail_ < BufferSize
        PROVE  FALSE
    <3>1. Slot(t) = tail_ /\ tail_ \in Index
      BY <2>1, <2>2, TicketIndex DEF Slot
    <3>2. generation_[tail_] = 0
      BY <2>1, <3>1 DEF IInv, SlotGenerations
    <3> QED
      BY <2>1, <2>2, <3>1, <3>2 DEF IInv, CallGenerations
  <2> QED
    BY <2>1, <2>2
<1> QED
  BY <1>1, InvariantHolds, PTL DEF Spec, NotRefusedInFirstLap

=============================================================================
