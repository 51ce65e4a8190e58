---------------------- MODULE MCUnboundedLockFreeStack ----------------------
(***************************************************************************)
(* Two threads and addresses for two nodes, which are used again and       *)
(* again.                                                                  *)
(***************************************************************************)
EXTENDS UnboundedLockFreeStack

MCPushed(t) == {t}

=============================================================================
