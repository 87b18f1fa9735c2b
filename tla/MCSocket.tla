------------------------------ MODULE MCSocket ------------------------------
(* TLC instances of Socket; the values of its constants are in the .cfg.   *)
EXTENDS Socket
=============================================================================
