----------------------------- MODULE FIFOQueue -----------------------------
(***************************************************************************)
(* What a bounded single producer single consumer queue promises its two   *)
(* threads: a FIFO sequence of at most MaxLen elements on which every call *)
(* takes effect at one instant between the moment it is made and the       *)
(* moment it returns.  Emplace is refused only at an instant at which the  *)
(* queue is full; Front and Dequeue fail only at an instant at which it is *)
(* empty.  BoundedSPSCQueue implements this specification.                 *)
(***************************************************************************)
EXTENDS Naturals, Sequences

CONSTANTS
  MaxLen,   \* the most elements the queue holds
  Values,   \* the elements
  NoValue   \* no element: the call returned none

VARIABLES
  queue,  \* the elements, oldest first
  prod,   \* the producer's call: is it pending, its argument, its result
  cons    \* the consumer's call: is it pending, which one, its result

vars == <<queue, prod, cons>>

ConsumerOps == {"Front", "Dequeue", "DequeueElement"}

TypeOK ==
  /\ queue \in Seq(Values) /\ Len(queue) <= MaxLen
  /\ prod \in [busy : BOOLEAN, arg : Values \cup {NoValue}, ok : BOOLEAN]
  /\ cons \in [busy : BOOLEAN, op : ConsumerOps, ok : BOOLEAN,
               val : Values \cup {NoValue}]

Init ==
  /\ queue = << >>
  /\ prod = [busy |-> FALSE, arg |-> NoValue, ok |-> FALSE]
  /\ cons = [busy |-> FALSE, op |-> "Front", ok |-> FALSE, val |-> NoValue]

CallEmplace(v) ==
  /\ ~prod.busy
  /\ prod' = [busy |-> TRUE, arg |-> v, ok |-> prod.ok]
  /\ UNCHANGED <<queue, cons>>

Emplace ==
  /\ prod.busy /\ Len(queue) < MaxLen
  /\ queue' = Append(queue, prod.arg)
  /\ prod' = [busy |-> FALSE, arg |-> prod.arg, ok |-> TRUE]
  /\ UNCHANGED cons

EmplaceRefused ==
  /\ prod.busy /\ Len(queue) = MaxLen
  /\ prod' = [busy |-> FALSE, arg |-> prod.arg, ok |-> FALSE]
  /\ UNCHANGED <<queue, cons>>

CallConsumer(op) ==
  /\ ~cons.busy
  /\ cons' = [busy |-> TRUE, op |-> op, ok |-> cons.ok, val |-> NoValue]
  /\ UNCHANGED <<queue, prod>>

(* Front returns a pointer to the oldest element: cons.val is what the     *)
(* pointer refers to, and it stays that until the consumer's next call.    *)
Front ==
  /\ cons.busy /\ cons.op = "Front" /\ queue # << >>
  /\ cons' = [busy |-> FALSE, op |-> cons.op, ok |-> TRUE, val |-> Head(queue)]
  /\ UNCHANGED <<queue, prod>>

Dequeue ==
  /\ cons.busy /\ cons.op # "Front" /\ queue # << >>
  /\ queue' = Tail(queue)
  /\ cons' = [busy |-> FALSE, op |-> cons.op, ok |-> TRUE,
              val |-> IF cons.op = "DequeueElement" THEN Head(queue) ELSE NoValue]
  /\ UNCHANGED prod

ConsumerEmpty ==
  /\ cons.busy /\ queue = << >>
  /\ cons' = [busy |-> FALSE, op |-> cons.op, ok |-> FALSE, val |-> NoValue]
  /\ UNCHANGED <<queue, prod>>

Next ==
  \/ \E v \in Values : CallEmplace(v)
  \/ Emplace
  \/ EmplaceRefused
  \/ \E op \in ConsumerOps : CallConsumer(op)
  \/ Front
  \/ Dequeue
  \/ ConsumerEmpty

Spec == Init /\ [][Next]_vars
=============================================================================
