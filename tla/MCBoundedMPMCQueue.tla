------------------------- MODULE MCBoundedMPMCQueue -------------------------
(***************************************************************************)
(* BoundedMPMCQueue<T, 1>, whose buffer has 8 slots, the fewest there can  *)
(* be.  The tickets need no bound: see README.md.                          *)
(***************************************************************************)
EXTENDS BoundedMPMCQueue, TLC

LOCAL INSTANCE RingBufferSize

MCSymmetry == Permutations(Threads)
MCBufferSize == GetBufferSize(1)

=============================================================================
