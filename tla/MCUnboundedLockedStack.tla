----------------------- MODULE MCUnboundedLockedStack -----------------------
(***************************************************************************)
(* Three threads, so that two can wait for the third.  Unset is the flag   *)
(* of a SpinLock, Uninitialised that of a Lock<SpinLock>.                  *)
(***************************************************************************)
EXTENDS UnboundedLockedStack

Unset == {FALSE}
Uninitialised == BOOLEAN

=============================================================================
