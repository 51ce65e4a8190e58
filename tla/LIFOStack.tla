----------------------------- MODULE LIFOStack -----------------------------
(***************************************************************************)
(* What a concurrent stack promises its threads: a sequence of elements on *)
(* which every Push and every Pop takes effect at one instant between the  *)
(* moment it is called and the moment it returns.  A Pop fails only at an  *)
(* instant at which the stack is empty.  The stack is destroyed once, when *)
(* no thread is in a call.  UnboundedLockFreeStack and                     *)
(* UnboundedLockedStack implement this specification.                      *)
(***************************************************************************)
EXTENDS Sequences

CONSTANTS
  Threads,
  Values,   \* the elements
  NoValue   \* no element: not an argument, or a Pop that failed

VARIABLES
  stack,  \* the elements, the top first
  call,   \* each thread's call: where it is, which one, its argument or result
  alive   \* has the stack not been destroyed?

vars == <<stack, call, alive>>

Idle == [at |-> "idle", op |-> "none", val |-> NoValue]

TypeOK ==
  /\ stack \in Seq(Values)
  /\ call \in [Threads -> [at : {"idle", "called", "done"}, op : {"none", "Push", "Pop"},
                           val : Values \cup {NoValue}]]
  /\ alive \in BOOLEAN

Init == alive = TRUE /\ stack = << >> /\ call = [t \in Threads |-> Idle]

CallPush(t, v) ==
  /\ alive /\ call[t] = Idle
  /\ call' = [call EXCEPT ![t] = [at |-> "called", op |-> "Push", val |-> v]]
  /\ UNCHANGED <<stack, alive>>

CallPop(t) ==
  /\ alive /\ call[t] = Idle
  /\ call' = [call EXCEPT ![t] = [at |-> "called", op |-> "Pop", val |-> NoValue]]
  /\ UNCHANGED <<stack, alive>>

Push(t) ==
  /\ call[t].at = "called" /\ call[t].op = "Push"
  /\ stack' = <<call[t].val>> \o stack
  /\ call' = [call EXCEPT ![t] = [@ EXCEPT !.at = "done", !.val = NoValue]]
  /\ UNCHANGED alive

Pop(t) ==
  /\ call[t].at = "called" /\ call[t].op = "Pop" /\ stack # << >>
  /\ stack' = Tail(stack)
  /\ call' = [call EXCEPT ![t] = [@ EXCEPT !.at = "done", !.val = Head(stack)]]
  /\ UNCHANGED alive

PopEmpty(t) ==
  /\ call[t].at = "called" /\ call[t].op = "Pop" /\ stack = << >>
  /\ call' = [call EXCEPT ![t].at = "done"]
  /\ UNCHANGED <<stack, alive>>

Return(t) ==
  /\ call[t].at = "done"
  /\ call' = [call EXCEPT ![t] = Idle]
  /\ UNCHANGED <<stack, alive>>

Destroy ==
  /\ alive /\ \A t \in Threads : call[t] = Idle
  /\ alive' = FALSE /\ stack' = << >>
  /\ UNCHANGED call

Next ==
  \/ Destroy
  \/ \E t \in Threads :
       \/ \E v \in Values : CallPush(t, v)
       \/ CallPop(t)
       \/ Push(t) \/ Pop(t) \/ PopEmpty(t)
       \/ Return(t)

Spec == Init /\ [][Next]_vars
=============================================================================
