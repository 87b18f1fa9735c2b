---------------------------- MODULE MCIdleTimer ----------------------------
(* TLC instances of IdleTimer: goroutines.                                 *)
EXTENDS IdleTimer

CONSTANTS c1, c2, e1, e2, l1, l2
=============================================================================
