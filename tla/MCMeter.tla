------------------------------- MODULE MCMeter -------------------------------
(* TLC instances of Meter; the values of its constants are in the .cfg.     *)
EXTENDS Meter

\* No Mark and no Stop is told from another.
Alike == Permutations(Markers) \cup Permutations(Stoppers)
=============================================================================
