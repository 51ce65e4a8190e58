--------------------------- MODULE RingBufferSize ---------------------------
(***************************************************************************)
(* GetBufferSize() of BoundedSPSCQueue, BatchedBoundedSPSCQueue and        *)
(* BoundedMPMCQueue: the number of slots for a requested Capacity.         *)
(***************************************************************************)
EXTENDS Integers

SizeTBits == 64

(* __builtin_clzll: the leading zero bits of n, for n > 0.                 *)
LeadingZeros(n) ==
  SizeTBits - 1 - (CHOOSE k \in 0 .. SizeTBits - 1 : 2^k <= n /\ n < 2^(k + 1))

GetBufferSize(Capacity) ==
  LET capacity == IF Capacity + 1 < 4 THEN 4 ELSE Capacity + 1
      max_bits_number == SizeTBits - 1
  IN  2^(max_bits_number - LeadingZeros(capacity) + 1)

=============================================================================
