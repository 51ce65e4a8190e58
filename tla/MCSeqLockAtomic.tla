-------------------------- MODULE MCSeqLockAtomic --------------------------
(***************************************************************************)
(* A value of two chunks, the fewest that can be torn, and a counter       *)
(* modulo 6, which wraps over and over, with as many Stores during one     *)
(* attempt of a Load as it can tell apart.                                 *)
(***************************************************************************)
EXTENDS SeqLockAtomic

MCInitValue == [i \in Chunks |-> 0]

=============================================================================
