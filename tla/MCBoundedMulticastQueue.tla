---------------------- MODULE MCBoundedMulticastQueue ----------------------
(***************************************************************************)
(* A buffer of two messages whose sizes change from lap to lap, and a      *)
(* counter modulo 8, which wraps within MaxWrites messages, with a writer  *)
(* as far ahead of the readers as the counter can tell.                    *)
(***************************************************************************)
EXTENDS BoundedMulticastQueue, TLC

MCMessageSize(n) == 1 + ((n \div BufferSize) % 2)
MCSymmetry == Permutations(Readers)

=============================================================================
