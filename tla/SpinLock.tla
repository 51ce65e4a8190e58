------------------------------ MODULE SpinLock ------------------------------
(***************************************************************************)
(* concurrent::lock::SpinLock (lock/spin_lock.h) behind the functions lock *)
(* and unlock of its base class Lock<SpinLock> (lock/lock.h), one action   *)
(* per access to the flag.  A thread calls lock by going to the label      *)
(* "lock"; where it goes on with the lock, and after unlock, is an         *)
(* argument.                                                               *)
(***************************************************************************)
CONSTANT Threads

VARIABLES
  locked_,  \* the flag
  pc        \* where each thread is

(* Mutation: the flag is loaded and stored, not exchanged.                 *)
ExchangeUncompared(t, next) ==
  /\ pc[t] = "lock"
  /\ locked_' = TRUE
  /\ pc' = [pc EXCEPT ![t] = next]

(* Test-and-set.                                                           *)
Exchange(t, next) ==
  /\ pc[t] = "lock"
  /\ locked_' = TRUE
  /\ pc' = [pc EXCEPT ![t] = IF locked_ THEN "spin" ELSE next]

(* Test: the loop of loads.                                                *)
Spin(t) ==
  /\ pc[t] = "spin"
  /\ pc' = [pc EXCEPT ![t] = IF locked_ THEN "spin" ELSE "lock"]
  /\ UNCHANGED locked_

(* Mutation: unlock does not clear the flag.                               *)
UnlockLost(t, next) ==
  /\ pc[t] = "unlock"
  /\ pc' = [pc EXCEPT ![t] = next]
  /\ UNCHANGED locked_

Unlock(t, next) ==
  /\ pc[t] = "unlock"
  /\ locked_' = FALSE
  /\ pc' = [pc EXCEPT ![t] = next]

=============================================================================
