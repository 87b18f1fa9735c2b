----------------------------- MODULE MCReporting -----------------------------
(* TLC instances of Reporting: values of its constants.                     *)
EXTENDS Reporting

\* Of integers of five bits, -16 .. 15: 9 and 9 are no int64 together, and with
\* -4 they are one again, by way of a sum that wraps twice.
SomeValues == {-4, 3, 9}
=============================================================================
