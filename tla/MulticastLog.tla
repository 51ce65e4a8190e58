---------------------------- MODULE MulticastLog ----------------------------
(***************************************************************************)
(* What BoundedMulticastQueue promises: the writer appends messages to a   *)
(* log of which the last Window are kept; every reader goes through the    *)
(* log from its beginning.  A call of a reader takes effect at one instant *)
(* between its start and its return and gets the whole message at the      *)
(* reader's position if that message is there, learns that it is not there *)
(* yet, or that it is not there any more: the reader is late.              *)
(***************************************************************************)
EXTENDS Naturals

CONSTANTS
  Readers,
  Window,       \* how many messages are kept
  Message(_)    \* the contents of the n-th message, from 0

VARIABLES
  log,   \* the number of messages written
  pos,   \* each reader's position in the log
  call   \* each reader's call: is it pending, which, its result, the message

vars == <<log, pos, call>>

Calls == {"Read", "TryRead"}

Missing(r) == log <= pos[r]
Late(r) == log > pos[r] + Window

Init ==
  /\ log = 0
  /\ pos = [r \in Readers |-> 0]
  /\ call = [r \in Readers |->
               [busy |-> FALSE, op |-> "Read", result |-> "none", msg |-> << >>]]

Write ==
  /\ log' = log + 1
  /\ UNCHANGED <<pos, call>>

Call(r, op) ==
  /\ ~call[r].busy
  /\ call' = [call EXCEPT ![r] = [busy |-> TRUE, op |-> op, result |-> "none", msg |-> << >>]]
  /\ UNCHANGED <<log, pos>>

(* Reader r between two calls, the last of which had this result.          *)
Done(r, result, msg) ==
  [busy |-> FALSE, op |-> call[r].op, result |-> result, msg |-> msg]

Return(r, result, msg) == call' = [call EXCEPT ![r] = Done(r, result, msg)]

(* Read goes on to the next message by itself, TryRead leaves that to      *)
(* UpdateIndexes.                                                          *)
Current(r) ==
  /\ call[r].busy /\ ~Missing(r) /\ ~Late(r)
  /\ Return(r, "current", Message(pos[r]))
  /\ pos' = IF call[r].op = "Read" THEN [pos EXCEPT ![r] = @ + 1] ELSE pos
  /\ UNCHANGED log

ReaderLate(r) ==
  /\ call[r].busy /\ Late(r)
  /\ Return(r, "late", << >>)
  /\ UNCHANGED <<log, pos>>

(* Only TryRead returns without a message, Read waits for it.              *)
NotUpdated(r) ==
  /\ call[r].busy /\ call[r].op = "TryRead" /\ Missing(r)
  /\ Return(r, "not_updated", << >>)
  /\ UNCHANGED <<log, pos>>

UpdateIndexes(r) ==
  /\ ~call[r].busy /\ call[r].op = "TryRead" /\ call[r].result = "current"
  /\ pos' = [pos EXCEPT ![r] = @ + 1]
  /\ Return(r, "none", << >>)
  /\ UNCHANGED log

(* r becomes a copy of q, which is not in a call either.                   *)
CopyReader(r, q) ==
  /\ ~call[r].busy /\ ~call[q].busy
  /\ pos' = [pos EXCEPT ![r] = pos[q]]
  /\ Return(r, "none", << >>)
  /\ UNCHANGED log

SwapReaders(r, q) ==
  /\ ~call[r].busy /\ ~call[q].busy
  /\ pos' = [pos EXCEPT ![r] = pos[q], ![q] = pos[r]]
  /\ call' = [call EXCEPT ![r] = Done(r, "none", << >>), ![q] = Done(q, "none", << >>)]
  /\ UNCHANGED log

Next ==
  \/ Write
  \/ \E r \in Readers :
       \/ \E op \in Calls : Call(r, op)
       \/ Current(r) \/ ReaderLate(r) \/ NotUpdated(r) \/ UpdateIndexes(r)
       \/ \E q \in Readers : CopyReader(r, q) \/ SwapReaders(r, q)

Spec == Init /\ [][Next]_vars
=============================================================================
