----------------------------- MODULE MCRegistry -----------------------------
(* TLC instances of Registry and Prefixed: values of their constants.      *)
EXTENDS Prefixed

CONSTANTS p1, p2, m1, m2, x1

\* One name, and the chains of two views that lead to it or to a beginning of
\* it, with prefixes of one letter or none, and one that leads elsewhere.
TheName == {<<"a", "b">>}
Chains == {<<<<>>, <<>>>>, <<<<"a">>, <<>>>>, <<<<>>, <<"a">>>>,
           <<<<"a">>, <<"b">>>>, <<<<"b">>, <<"a">>>>}
TheLetters == {"a", "b"}
=============================================================================
