----------------------------- MODULE MCTransport -----------------------------
(* TLC instances of Transport: values of the constants.                    *)
EXTENDS Transport

CONSTANTS u1, u2, c1, c2, k1

\* Every connection is dialed to the one address.
OneKey == [c \in Conns |-> k1]
=============================================================================
