--------------------------- MODULE AtomicRegister ---------------------------
(***************************************************************************)
(* What SeqLockAtomic<T> promises: a register that holds one value of T,   *)
(* which any number of writers Store and any number of readers Load, every *)
(* call taking effect at one instant between its start and its return.     *)
(***************************************************************************)
CONSTANTS
  Writers, Readers,
  Value,      \* the values of T
  InitValue,  \* the value the register is constructed with
  NoValue     \* no value: a Load is pending

VARIABLES
  reg,     \* the value of the register
  writer,  \* each writer's call: where it is and its argument
  reader   \* each reader's call: is it pending, and the value it returned

vars == <<reg, writer, reader>>

TypeOK ==
  /\ reg \in Value
  /\ writer \in [Writers -> [at : {"idle", "called", "applied"}, arg : Value]]
  /\ reader \in [Readers -> [busy : BOOLEAN, val : Value \cup {NoValue}]]

Init ==
  /\ reg = InitValue
  /\ writer = [w \in Writers |-> [at |-> "idle", arg |-> InitValue]]
  /\ reader = [r \in Readers |-> [busy |-> FALSE, val |-> InitValue]]

CallStore(w, v) ==
  /\ writer[w].at = "idle"
  /\ writer' = [writer EXCEPT ![w] = [at |-> "called", arg |-> v]]
  /\ UNCHANGED <<reg, reader>>

Store(w) ==
  /\ writer[w].at = "called"
  /\ reg' = writer[w].arg
  /\ writer' = [writer EXCEPT ![w].at = "applied"]
  /\ UNCHANGED reader

ReturnStore(w) ==
  /\ writer[w].at = "applied"
  /\ writer' = [writer EXCEPT ![w] = [at |-> "idle", arg |-> InitValue]]
  /\ UNCHANGED <<reg, reader>>

CallLoad(r) ==
  /\ ~reader[r].busy
  /\ reader' = [reader EXCEPT ![r] = [busy |-> TRUE, val |-> NoValue]]
  /\ UNCHANGED <<reg, writer>>

Load(r) ==
  /\ reader[r].busy
  /\ reader' = [reader EXCEPT ![r] = [busy |-> FALSE, val |-> reg]]
  /\ UNCHANGED <<reg, writer>>

Next ==
  \/ \E w \in Writers : (\E v \in Value : CallStore(w, v)) \/ Store(w) \/ ReturnStore(w)
  \/ \E r \in Readers : CallLoad(r) \/ Load(r)

Spec == Init /\ [][Next]_vars
=============================================================================
