----------------------------- MODULE MCExpDecay -----------------------------
(* TLC instances of ExpDecay; the values of its constants are in the .cfg. *)
EXTENDS ExpDecay

\* A rescaling halves the priorities that are finite, or its factor is zero.
MCFactors ==
  {[k \in Priorities |-> IF k = Infinity THEN k ELSE k \div 2],
   [k \in Priorities |-> IF k = Infinity THEN NaN ELSE 0]}
=============================================================================
