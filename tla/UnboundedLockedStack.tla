------------------------ MODULE UnboundedLockedStack ------------------------
(***************************************************************************)
(* concurrent::stack::UnboundedLockedStack over SpinLock                   *)
(* (stack/unbounded_locked_stack.h).  Every call holds lock_ by a          *)
(* lock_guard while it works on stack_, a std::stack.  That work is a step *)
(* that reads the container and one that writes it, so that two threads in *)
(* it would lose one another's changes.                                    *)
(*                                                                         *)
(* UnboundedSpinLockedStack is UnboundedLockedStack<T, Lock<SpinLock>>:    *)
(* lock_ is an object of the base class, which has no flag.  lock() casts  *)
(* it to SpinLock and finds the flag in bytes of the object that nothing   *)
(* has initialised; InitiallyLocked says what may be in them.              *)
(*                                                                         *)
(* IsEmpty is a const function that gives the const lock_ to a lock_guard, *)
(* and Emplace a void function that returns the reference it gets from     *)
(* std::stack; they do not compile when they are used.                     *)
(***************************************************************************)
EXTENDS SpinLock, Naturals, Sequences, FiniteSets

CONSTANTS
  Values,           \* the elements
  NoValue,
  InitiallyLocked,  \* the values of locked_ in a stack just constructed
  MaxLen            \* the most elements pushed and not popped

ASSUME LockAssumption ==
  /\ IsFiniteSet(Threads)
  /\ InitiallyLocked \subseteq BOOLEAN /\ InitiallyLocked # {}
  /\ MaxLen \in Nat /\ NoValue \notin Values

VARIABLES
  stack_,    \* the elements, the top first
  op,        \* each thread's call
  element,   \* its argument, or what Pop has moved out
  view,      \* what it has read of the container
  outcome    \* history: has its call changed the stack or found it empty?

vars == <<locked_, pc, stack_, op, element, view, outcome>>

Init ==
  /\ locked_ \in InitiallyLocked
  /\ pc = [t \in Threads |-> "idle"]
  /\ stack_ = << >>
  /\ op = [t \in Threads |-> "none"]
  /\ element = [t \in Threads |-> NoValue]
  /\ view = [t \in Threads |-> << >>]
  /\ outcome = [t \in Threads |-> FALSE]

(* Push, in its two forms.                                                 *)
Push(t, v) ==
  /\ pc[t] = "idle"
  /\ Len(stack_) + Cardinality({u \in Threads : op[u] = "Push"}) < MaxLen
  /\ pc' = [pc EXCEPT ![t] = "lock"]
  /\ op' = [op EXCEPT ![t] = "Push"]
  /\ element' = [element EXCEPT ![t] = v]
  /\ UNCHANGED <<locked_, stack_, view, outcome>>

Pop(t) ==
  /\ pc[t] = "idle"
  /\ pc' = [pc EXCEPT ![t] = "lock"]
  /\ op' = [op EXCEPT ![t] = "Pop"]
  /\ UNCHANGED <<locked_, stack_, element, view, outcome>>

Lock(t) ==
  /\ Exchange(t, "read") \/ Spin(t)
  /\ UNCHANGED <<stack_, op, element, view, outcome>>

Read(t) ==
  /\ pc[t] = "read"
  /\ view' = [view EXCEPT ![t] = stack_]
  /\ pc' = [pc EXCEPT ![t] = "write"]
  /\ UNCHANGED <<locked_, stack_, op, element, outcome>>

(* The thread is done with the container.                                  *)
Leave(t) ==
  /\ pc[t] = "write"
  /\ pc' = [pc EXCEPT ![t] = "unlock"]
  /\ view' = [view EXCEPT ![t] = << >>]
  /\ outcome' = [outcome EXCEPT ![t] = TRUE]
  /\ UNCHANGED <<locked_, op>>

PushWrite(t) ==
  /\ op[t] = "Push"
  /\ Leave(t)
  /\ stack_' = <<element[t]>> \o view[t]
  /\ element' = [element EXCEPT ![t] = NoValue]

(* Mutation: top() without pop().                                          *)
PopWriteTopOnly(t) ==
  /\ op[t] = "Pop" /\ view[t] # << >>
  /\ Leave(t)
  /\ element' = [element EXCEPT ![t] = Head(view[t])]
  /\ UNCHANGED stack_

PopWrite(t) ==
  /\ op[t] = "Pop" /\ view[t] # << >>
  /\ Leave(t)
  /\ element' = [element EXCEPT ![t] = Head(view[t])]
  /\ stack_' = Tail(view[t])

PopEmpty(t) ==
  /\ op[t] = "Pop" /\ view[t] = << >>
  /\ Leave(t)
  /\ UNCHANGED <<stack_, element>>

(* The destructor of lock_guard.                                           *)
Return(t) ==
  /\ Unlock(t, "idle")
  /\ op' = [op EXCEPT ![t] = "none"]
  /\ element' = [element EXCEPT ![t] = NoValue]
  /\ outcome' = [outcome EXCEPT ![t] = FALSE]
  /\ UNCHANGED <<stack_, view>>

Step(t) == Lock(t) \/ Read(t) \/ PushWrite(t) \/ PopWrite(t) \/ PopEmpty(t) \/ Return(t)

Call(t) == (\E v \in Values : Push(t, v)) \/ Pop(t)

Next == \E t \in Threads : Step(t) \/ Call(t)

Spec == Init /\ [][Next]_vars

(* A thread in a call is scheduled again and again.                        *)
FairSpec == Spec /\ \A t \in Threads : WF_vars(Step(t))

(***************************************************************************)
(* Properties.                                                             *)
(***************************************************************************)

(* The container never outgrows MaxLen.                                    *)
TypeOK ==
  /\ locked_ \in BOOLEAN
  /\ pc \in [Threads -> {"idle", "lock", "spin", "read", "write", "unlock"}]
  /\ stack_ \in Seq(Values) /\ Len(stack_) <= MaxLen
  /\ op \in [Threads -> {"none", "Push", "Pop"}]
  /\ element \in [Threads -> Values \cup {NoValue}]
  /\ view \in [Threads -> Seq(Values)]
  /\ outcome \in [Threads -> BOOLEAN]

Critical(t) == pc[t] \in {"read", "write", "unlock"}

(* The plain accesses to the container never race: one thread at a time    *)
(* holds the lock, and the flag is set while one does.                     *)
MutualExclusion ==
  \A t \in Threads : Critical(t) =>
    locked_ /\ \A u \in Threads \ {t} : ~Critical(u)

(* A thread's call goes through its labels with its argument or result.    *)
CallState(t) ==
  /\ pc[t] = "idle" <=> op[t] = "none"
  /\ outcome[t] <=> pc[t] = "unlock"
  /\ op[t] = "Push" /\ ~outcome[t] => element[t] \in Values
  /\ op[t] = "Push" /\ outcome[t] => element[t] = NoValue
  /\ op[t] = "Pop" /\ ~outcome[t] => element[t] = NoValue
  /\ op[t] = "none" => element[t] = NoValue

(* What a thread has read of the container is what it still is.            *)
ViewCurrent == \A t \in Threads : pc[t] = "write" => view[t] = stack_

Pushing == {t \in Threads : op[t] = "Push" /\ ~outcome[t]}

(* Whatever the interleaving, the thread in the critical section works on  *)
(* the container as it is, and there is room for all that is being pushed: *)
(* the inductive invariant behind MutualExclusion and ImplementsStack.     *)
IInv ==
  /\ TypeOK /\ MutualExclusion /\ ViewCurrent
  /\ \A t \in Threads : CallState(t)
  /\ Len(stack_) + Cardinality(Pushing) <= MaxLen

StackCall ==
  [t \in Threads |->
     [at  |-> IF op[t] = "none" THEN "idle" ELSE IF outcome[t] THEN "done" ELSE "called",
      op  |-> op[t], val |-> element[t]]]

LIFO == INSTANCE LIFOStack WITH stack <- stack_, call <- StackCall, alive <- TRUE

(* Every Push and Pop takes effect at one instant of the call on a LIFO    *)
(* sequence, and Pop fails only at an instant at which it is empty.        *)
ImplementsStack == LIFO!Spec

(* The threads of the examples get on, as long as each of them keeps being *)
(* scheduled: while calls are in progress, some call returns.  No thread   *)
(* has a right to be the next.                                             *)
CallsReturn ==
  []<>(\A t \in Threads : pc[t] = "idle")
    \/ []<><<\E t \in Threads : pc[t] # "idle" /\ pc'[t] = "idle">>_vars

=============================================================================
