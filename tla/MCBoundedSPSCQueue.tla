------------------------- MODULE MCBoundedSPSCQueue -------------------------
(***************************************************************************)
(* BoundedSPSCQueue<T, 1>, whose buffer has 8 slots, the fewest there can  *)
(* be.  The code never looks at an element, so the producer may as well    *)
(* enqueue the consecutive integers of the README's example: modulo        *)
(* MCElements, which does not divide the number of slots, so that a lost,  *)
(* repeated or overwritten element shows.  A refused element is retried.   *)
(***************************************************************************)
EXTENDS BoundedSPSCQueue

LOCAL INSTANCE RingBufferSize

MCElements == 3
MCValues == 0 .. MCElements - 1
MCBufferSize == GetBufferSize(1)

(* The elements are integers: moving from one leaves it as it was.         *)
MCMovedFrom(v) == v

InOrder ==
  ppc = "idle" /\ ppc' # "idle" =>
    parg' = IF parg = NoValue THEN 0
            ELSE IF pok THEN (parg + 1) % MCElements ELSE parg

MCSpec == Init /\ [][Next /\ InOrder]_vars /\ Fairness

=============================================================================
