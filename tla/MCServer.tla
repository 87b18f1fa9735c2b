------------------------------ MODULE MCServer ------------------------------
(* TLC instances of Server: values of the constants.                       *)
EXTENDS Server, TLC

CONSTANTS c1, c2, b1, b2, p1

\* c1 makes requests; c2 only comes and goes, for the buffers and the counter.
OnFirst == [c \in Conns |-> IF c = c1 THEN 2 ELSE 0]

\* The buffers are interchangeable.
BufferSymmetry == Permutations(Buffers)
=============================================================================
