------------------------------ MODULE Exchange ------------------------------
(***************************************************************************)
(* What one connection promises the transport, without channels,           *)
(* goroutines, buffers or closing: one request at a time; a trip succeeds  *)
(* only after the server has handled exactly that request; and a           *)
(* connection that failed a trip is never used again, so whatever the      *)
(* server still does for the lost request reaches nobody.                  *)
(***************************************************************************)
EXTENDS Naturals

CONSTANT MaxTrips  \* bound: trips made on the connection

VARIABLES
  last,     \* the number of the last trip
  busy,     \* a trip is in progress
  usable,   \* no trip has failed, and nobody retired the connection
  handled,  \* requests the server has handled
  served    \* trips that succeeded

exchangeVars == <<last, busy, usable, handled, served>>

ExchangeInit ==
  last = 0 /\ busy = FALSE /\ usable = TRUE /\ handled = {} /\ served = {}

Begin ==
  /\ usable /\ ~busy /\ last < MaxTrips
  /\ last' = last + 1 /\ busy' = TRUE
  /\ UNCHANGED <<usable, handled, served>>

\* A request may be handled late, after its trip has failed, but only once.
Handle ==
  /\ \E t \in (1 .. last) \ handled : handled' = handled \cup {t}
  /\ UNCHANGED <<last, busy, usable, served>>

Succeed ==
  /\ busy /\ last \in handled
  /\ busy' = FALSE /\ served' = served \cup {last}
  /\ UNCHANGED <<last, usable, handled>>

Fail ==
  /\ busy
  /\ busy' = FALSE /\ usable' = FALSE
  /\ UNCHANGED <<last, handled, served>>

Retire ==
  /\ usable /\ ~busy /\ usable' = FALSE
  /\ UNCHANGED <<last, busy, handled, served>>

ExchangeNext == Begin \/ Handle \/ Succeed \/ Fail \/ Retire

ExchangeSpec == ExchangeInit /\ [][ExchangeNext]_exchangeVars
=============================================================================
