--------------------- MODULE UnboundedLockedStackProofs ---------------------
(***************************************************************************)
(* UnboundedLockedStack keeps its critical sections apart and implements   *)
(* LIFOStack, for any finite set of threads, any elements and whatever is  *)
(* in the flag of the lock at first.                                       *)
(***************************************************************************)
EXTENDS UnboundedLockedStack, FiniteSetTheorems, TLAPS

(* TypeOK without the bound on the container.                              *)
Types ==
  /\ locked_ \in BOOLEAN
  /\ pc \in [Threads -> {"idle", "lock", "spin", "read", "write", "unlock"}]
  /\ stack_ \in Seq(Values)
  /\ op \in [Threads -> {"none", "Push", "Pop"}]
  /\ element \in [Threads -> Values \cup {NoValue}]
  /\ view \in [Threads -> Seq(Values)]
  /\ outcome \in [Threads -> BOOLEAN]

CallStates == \A t \in Threads : CallState(t)

Room == Len(stack_) + Cardinality(Pushing) <= MaxLen

(* No step of a thread leaves the types.                                   *)
LEMMA TypesPreserved ==
  ASSUME Types, CallStates, NEW t \in Threads, Step(t) \/ Call(t)
  PROVE  Types'
<1> USE DEF Types
<1>1. ASSUME NEW v \in Values, Push(t, v)
      PROVE  Types'
  BY <1>1 DEF Push
<1>2. CASE Pop(t)
  BY <1>2 DEF Pop
<1>3. CASE Lock(t)
  BY <1>3 DEF Lock, Exchange, Spin
<1>4. CASE Read(t)
  BY <1>4 DEF Read
<1>5. CASE PushWrite(t)
  <2>1. element[t] \in Values
    BY <1>5 DEF PushWrite, Leave, CallStates, CallState
  <2>2. stack_' \in Seq(Values)
    BY <1>5, <2>1 DEF PushWrite
  <2> QED
    BY <1>5, <2>2 DEF PushWrite, Leave
<1>6. CASE PopWrite(t)
  BY <1>6 DEF PopWrite, Leave
<1>7. CASE PopEmpty(t)
  BY <1>7 DEF PopEmpty, Leave
<1>8. CASE Return(t)
  BY <1>8 DEF Return, Unlock
<1> QED
  BY <1>1, <1>2, <1>3, <1>4, <1>5, <1>6, <1>7, <1>8 DEF Step, Call

(* The lock is taken only when the flag is clear, and only the thread that *)
(* took it clears the flag.                                                *)
LEMMA ExclusionPreserved ==
  ASSUME Types, MutualExclusion, NEW t \in Threads, Step(t) \/ Call(t)
  PROVE  MutualExclusion'
<1> USE DEF Types, MutualExclusion, Critical
<1>1. ASSUME NEW v \in Values, Push(t, v)
      PROVE  MutualExclusion'
  BY <1>1 DEF Push
<1>2. CASE Pop(t)
  BY <1>2 DEF Pop
<1>3. CASE Exchange(t, "read")
  BY <1>3 DEF Exchange
<1>4. CASE Spin(t)
  BY <1>4 DEF Spin
<1>5. CASE Read(t)
  BY <1>5 DEF Read
<1>6. CASE Leave(t)
  BY <1>6 DEF Leave
<1>7. CASE Return(t)
  BY <1>7 DEF Return, Unlock
<1> QED
  BY <1>1, <1>2, <1>3, <1>4, <1>5, <1>6, <1>7
     DEF Step, Call, Lock, PushWrite, PopWrite, PopEmpty

(* Only the thread in the critical section changes the container.          *)
LEMMA ViewPreserved ==
  ASSUME Types, MutualExclusion, ViewCurrent, NEW t \in Threads, Step(t) \/ Call(t)
  PROVE  ViewCurrent'
<1> USE DEF Types, ViewCurrent
<1>1. ASSUME NEW v \in Values, Push(t, v)
      PROVE  ViewCurrent'
  BY <1>1 DEF Push
<1>2. CASE Pop(t)
  BY <1>2 DEF Pop
<1>3. CASE Lock(t)
  BY <1>3 DEF Lock, Exchange, Spin
<1>4. CASE Read(t)
  BY <1>4 DEF Read
<1>5. CASE Leave(t)
  BY <1>5 DEF Leave, MutualExclusion, Critical
<1>6. CASE Return(t)
  BY <1>6 DEF Return, Unlock
<1> QED
  BY <1>1, <1>2, <1>3, <1>4, <1>5, <1>6
     DEF Step, Call, PushWrite, PopWrite, PopEmpty

(* A step of one thread moves its own call on and leaves the others alone. *)
LEMMA CallStatesPreserved ==
  ASSUME Types, CallStates, NEW t \in Threads, Step(t) \/ Call(t)
  PROVE  CallStates'
<1> USE DEF Types, CallStates, CallState
<1>1. ASSUME NEW v \in Values, Push(t, v)
      PROVE  CallStates'
  BY <1>1 DEF Push
<1>2. CASE Pop(t)
  BY <1>2 DEF Pop
<1>3. CASE Lock(t)
  BY <1>3 DEF Lock, Exchange, Spin
<1>4. CASE Read(t)
  BY <1>4 DEF Read
<1>5. CASE PushWrite(t)
  BY <1>5 DEF PushWrite, Leave
<1>6. CASE PopWrite(t)
  BY <1>6 DEF PopWrite, Leave
<1>7. CASE PopEmpty(t)
  BY <1>7 DEF PopEmpty, Leave
<1>8. CASE Return(t)
  BY <1>8 DEF Return, Unlock
<1> QED
  BY <1>1, <1>2, <1>3, <1>4, <1>5, <1>6, <1>7, <1>8 DEF Step, Call

(* The pushing threads can be counted, and are some of those whose call is *)
(* a Push.                                                                 *)
LEMMA PushingFinite ==
  /\ IsFiniteSet(Pushing) /\ Cardinality(Pushing) \in Nat
  /\ Cardinality({u \in Threads : op[u] = "Push"}) \in Nat
  /\ Cardinality(Pushing) <= Cardinality({u \in Threads : op[u] = "Push"})
<1> DEFINE Pushers == {u \in Threads : op[u] = "Push"}
<1>1. IsFiniteSet(Pushers)
  BY LockAssumption, FS_Subset
<1>2. Pushing \in SUBSET Pushers
  BY DEF Pushing
<1> QED
  BY <1>1, <1>2, FS_Subset, FS_CardinalityType

(* A Push is admitted only while there is room for it and for those before *)
(* it, and writes what it was admitted for.                                *)
LEMMA RoomPreserved ==
  ASSUME Types, CallStates, ViewCurrent, Room, NEW t \in Threads, Step(t) \/ Call(t)
  PROVE  Room'
<1> USE PushingFinite, LockAssumption DEF Types
<1>1. ASSUME NEW v \in Values, Push(t, v)
      PROVE  Room'
  <2>1. t \notin Pushing /\ Pushing' = Pushing \cup {t}
    BY <1>1 DEF Push, Pushing, CallStates, CallState
  <2>2. Cardinality(Pushing') = Cardinality(Pushing) + 1
    BY <2>1, FS_AddElement
  <2> QED
    BY <1>1, <2>2 DEF Push, Room
<1>2. ASSUME Pushing' = Pushing, Len(stack_') <= Len(stack_), Len(stack_') \in Nat
      PROVE  Room'
  BY <1>2 DEF Room
<1>3. CASE Pop(t)
  BY <1>2, <1>3 DEF Pop, Pushing, CallStates, CallState
<1>4. CASE Lock(t)
  BY <1>2, <1>4 DEF Lock, Exchange, Spin, Pushing
<1>5. CASE Read(t)
  BY <1>2, <1>5 DEF Read, Pushing
<1>6. CASE PushWrite(t)
  <2>1. t \in Pushing /\ Pushing' = Pushing \ {t}
    BY <1>6 DEF PushWrite, Leave, Pushing, CallStates, CallState
  <2>2. Cardinality(Pushing') = Cardinality(Pushing) - 1
    BY <2>1, FS_RemoveElement
  <2>3. element[t] \in Values /\ view[t] = stack_
    BY <1>6 DEF PushWrite, Leave, CallStates, CallState, ViewCurrent
  <2>4. Len(stack_') = Len(stack_) + 1
    BY <1>6, <2>3 DEF PushWrite
  <2> QED
    BY <2>2, <2>4 DEF Room
<1>7. CASE PopWrite(t)
  <2>1. Pushing' = Pushing
    BY <1>7 DEF PopWrite, Leave, Pushing
  <2>2. view[t] = stack_ /\ stack_ # << >>
    BY <1>7 DEF PopWrite, Leave, ViewCurrent
  <2>3. Len(stack_') = Len(stack_) - 1 /\ Len(stack_) > 0
    BY <1>7, <2>2 DEF PopWrite
  <2> QED
    BY <1>2, <2>1, <2>3
<1>8. CASE PopEmpty(t)
  BY <1>2, <1>8 DEF PopEmpty, Leave, Pushing
<1>9. CASE Return(t)
  BY <1>2, <1>9 DEF Return, Unlock, Pushing, CallStates, CallState
<1> QED
  BY <1>1, <1>3, <1>4, <1>5, <1>6, <1>7, <1>8, <1>9 DEF Step, Call

(***************************************************************************)
(* The invariant.                                                          *)
(***************************************************************************)
LEMMA InvariantParts ==
  IInv <=> Types /\ MutualExclusion /\ ViewCurrent /\ CallStates /\ Room
<1>1. ASSUME Types, Room
      PROVE  Len(stack_) <= MaxLen
  BY <1>1, PushingFinite, LockAssumption DEF Types, Room
<1> QED
  BY <1>1 DEF IInv, TypeOK, Types, CallStates, Room

LEMMA InitInvariant == Init => IInv
<1> SUFFICES ASSUME Init PROVE IInv
  OBVIOUS
<1>1. Types
  BY LockAssumption DEF Init, Types
<1>2. MutualExclusion /\ ViewCurrent /\ CallStates
  BY DEF Init, MutualExclusion, Critical, ViewCurrent, CallStates, CallState
<1>3. Pushing = {}
  BY DEF Init, Pushing
<1>4. Room
  BY <1>3, FS_EmptySet, LockAssumption DEF Init, Room
<1> QED
  BY <1>1, <1>2, <1>4, InvariantParts

LEMMA NextInvariant == IInv /\ [Next]_vars => IInv'
<1> SUFFICES ASSUME IInv, [Next]_vars PROVE IInv'
  OBVIOUS
<1>1. (Types /\ MutualExclusion /\ ViewCurrent /\ CallStates /\ Room)'
  <2>1. ASSUME NEW t \in Threads, Step(t) \/ Call(t)
        PROVE  (Types /\ MutualExclusion /\ ViewCurrent /\ CallStates /\ Room)'
    BY <2>1, InvariantParts, TypesPreserved, ExclusionPreserved, ViewPreserved,
       CallStatesPreserved, RoomPreserved
  <2>2. CASE UNCHANGED vars
    BY <2>2, InvariantParts
       DEF vars, Types, MutualExclusion, Critical, ViewCurrent, CallStates, CallState, Room, Pushing
  <2> QED
    BY <2>1, <2>2 DEF Next
<1> QED
  BY <1>1, InvariantParts, PTL

(* The inductive invariant of UnboundedLockedStack.                        *)
THEOREM InvariantHolds == Spec => []IInv
BY InitInvariant, NextInvariant, PTL DEF Spec

(* The container never outgrows MaxLen, and no call leaves its labels.     *)
THEOREM TypeCorrect == Spec => []TypeOK
<1>1. IInv => TypeOK
  BY DEF IInv
<1> QED
  BY <1>1, InvariantHolds, PTL

(* The plain accesses of Push and Pop to the container never race, also    *)
(* if the flag of the lock is not initialised.                             *)
THEOREM CriticalSectionsExclude == Spec => []MutualExclusion
<1>1. IInv => MutualExclusion
  BY DEF IInv
<1> QED
  BY <1>1, InvariantHolds, PTL

(***************************************************************************)
(* The refinement of LIFOStack.                                            *)
(***************************************************************************)
(* A call begins.                                                          *)
LEMMA CallsRefine ==
  ASSUME IInv, NEW t \in Threads, Call(t)
  PROVE  LIFO!Next
<1> USE DEF IInv, TypeOK, CallState, StackCall, LIFO!Idle
<1>1. StackCall[t] = LIFO!Idle
  BY DEF Call, Push, Pop
<1>2. ASSUME NEW v \in Values, Push(t, v)
      PROVE  LIFO!CallPush(t, v)
  BY <1>1, <1>2 DEF Push, LIFO!CallPush
<1>3. CASE Pop(t)
  BY <1>1, <1>3 DEF Pop, LIFO!CallPop, LIFO!Next
<1> QED
  BY <1>2, <1>3 DEF Call, LIFO!Next

(* A call takes effect when it writes the container, which is still as it  *)
(* was read, and returns when it unlocks.                                  *)
LEMMA StepsRefine ==
  ASSUME IInv, NEW t \in Threads, Step(t)
  PROVE  [LIFO!Next]_(LIFO!vars)
<1> USE DEF IInv, TypeOK, CallState, StackCall
<1>1. CASE Lock(t)
  BY <1>1 DEF Lock, Exchange, Spin, LIFO!vars
<1>2. CASE Read(t)
  BY <1>2 DEF Read, LIFO!vars
<1>3. CASE PushWrite(t)
  <2>1. LIFO!Push(t)
    BY <1>3 DEF PushWrite, Leave, ViewCurrent, LIFO!Push
  <2> QED
    BY <2>1 DEF LIFO!Next
<1>4. CASE PopWrite(t)
  <2>1. LIFO!Pop(t)
    BY <1>4 DEF PopWrite, Leave, ViewCurrent, LIFO!Pop
  <2> QED
    BY <2>1 DEF LIFO!Next
<1>5. CASE PopEmpty(t)
  <2>1. LIFO!PopEmpty(t)
    BY <1>5 DEF PopEmpty, Leave, ViewCurrent, LIFO!PopEmpty
  <2> QED
    BY <2>1 DEF LIFO!Next
<1>6. CASE Return(t)
  <2>1. LIFO!Return(t)
    BY <1>6 DEF Return, Unlock, LIFO!Return, LIFO!Idle
  <2> QED
    BY <2>1 DEF LIFO!Next
<1> QED
  BY <1>1, <1>2, <1>3, <1>4, <1>5, <1>6 DEF Step

(* Push and Pop of UnboundedLockedStack are atomic operations of a LIFO    *)
(* sequence, for any number of threads and elements.                       *)
THEOREM StackImplemented == Spec => ImplementsStack
<1>1. Init => LIFO!Init
  BY DEF Init, StackCall, LIFO!Init, LIFO!Idle
<1>2. IInv /\ [Next]_vars => [LIFO!Next]_(LIFO!vars)
  <2>1. ASSUME IInv, UNCHANGED vars
        PROVE  UNCHANGED LIFO!vars
    BY <2>1 DEF vars, StackCall, LIFO!vars
  <2> QED
    BY <2>1, CallsRefine, StepsRefine DEF Next
<1> QED
  BY <1>1, <1>2, InvariantHolds, PTL DEF Spec, ImplementsStack, LIFO!Spec

=============================================================================
