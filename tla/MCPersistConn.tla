---------------------------- MODULE MCPersistConn ----------------------------
(* TLC instances of PersistConn; its only constant is given in the .cfg.   *)
EXTENDS PersistConn
=============================================================================
