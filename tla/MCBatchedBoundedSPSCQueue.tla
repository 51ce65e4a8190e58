--------------------- MODULE MCBatchedBoundedSPSCQueue ---------------------
(***************************************************************************)
(* BatchedBoundedSPSCQueue<T, 1>, whose buffer has 8 slots.                *)
(***************************************************************************)
EXTENDS BatchedBoundedSPSCQueue

LOCAL INSTANCE RingBufferSize

MCBufferSize == GetBufferSize(1)

=============================================================================
