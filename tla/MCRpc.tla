-------------------------------- MODULE MCRpc --------------------------------
(* TLC instances of Rpc: values of the constants.                           *)
EXTENDS Rpc

CONSTANTS u1, u2, c1, c2, c3, k1

\* Every connection is dialed to the one address.
OneKey == [c \in Conns |-> k1]

\* Connections that have not been dialed differ in nothing but their names: it
\* is enough that they are dialed in one order.
DialsInOrder == dialed' \in {{}, {c1}, {c1, c2}, Conns}
=============================================================================
