----------------------------- MODULE MCConnPool -----------------------------
(* TLC instances of ConnPool: values of the constants.                     *)
EXTENDS ConnPool, TLC

CONSTANTS u1, u2, c1, c2, c3, k1

\* Every connection is dialed to the one address.
OneKey == [c \in Conns |-> k1]

\* With a single address the connections are interchangeable, and so are the
\* round trips.
OneKeySymmetry == Permutations(Users) \cup Permutations(Conns)
=============================================================================
