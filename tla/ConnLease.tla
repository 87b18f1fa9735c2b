------------------------------ MODULE ConnLease ------------------------------
(***************************************************************************)
(* What the connection pool promises its users, without lists, timers,     *)
(* ages or locks: a connection has at most one owner; the pool closes only *)
(* connections nobody owns; a connection that becomes idle again was open  *)
(* when its owner gave it back; and a closed one is never leased out.      *)
(***************************************************************************)
CONSTANTS Users, Conns, Nobody

VARIABLES
  owner,  \* owner[c]: the user that holds connection c
  idle,   \* open connections the pool may lease out
  open    \* connections dialed and not closed

leaseVars == <<owner, idle, open>>

LeaseInit ==
  /\ owner = [c \in Conns |-> Nobody]
  /\ idle = {}
  /\ open = {}

Owns(u) == {c \in Conns : owner[c] = u}

\* u starts using a connection that has never been open.
Open(u, c) ==
  /\ Owns(u) = {} /\ owner[c] = Nobody /\ c \notin open
  /\ owner' = [owner EXCEPT ![c] = u]
  /\ open' = open \cup {c}
  /\ UNCHANGED idle

\* u gets an idle connection; idle ones of the pool's choice are retired.
Acquire(u, c) ==
  /\ Owns(u) = {} /\ c \in idle
  /\ owner' = [owner EXCEPT ![c] = u]
  /\ \E retired \in SUBSET (idle \ {c}) :
       /\ idle' = (idle \ retired) \ {c}
       /\ open' = open \ retired

\* u hands its connection over; it becomes idle if it is still open, and
\* other idle connections may have to make room for it.
Release(u, c) ==
  /\ owner[c] = u
  /\ owner' = [owner EXCEPT ![c] = Nobody]
  /\ \E retired \in SUBSET idle :
       /\ idle' = (idle \ retired) \cup ({c} \cap open)
       /\ open' = open \ retired

\* u gives its connection up for good.
Drop(u, c) ==
  /\ owner[c] = u
  /\ owner' = [owner EXCEPT ![c] = Nobody]
  /\ open' = open \ {c}
  /\ UNCHANGED idle

\* The pool retires idle connections: it may stop offering them now and close
\* them later, but it never touches one that has an owner.
Withdraw(c) == c \in idle /\ idle' = idle \ {c} /\ UNCHANGED <<owner, open>>

Retire(S) ==
  /\ S # {} /\ \A c \in S : c \in open /\ owner[c] = Nobody
  /\ idle' = idle \ S
  /\ open' = open \ S
  /\ UNCHANGED owner

\* The connection itself fails, in anybody's hands.
Fail(c) ==
  /\ c \in open
  /\ open' = open \ {c} /\ idle' = idle \ {c}
  /\ UNCHANGED owner

LeaseNext ==
  \/ \E u \in Users, c \in Conns :
       Open(u, c) \/ Acquire(u, c) \/ Release(u, c) \/ Drop(u, c)
  \/ \E c \in Conns : Withdraw(c) \/ Fail(c)
  \/ \E S \in SUBSET Conns : Retire(S)

LeaseSpec == LeaseInit /\ [][LeaseNext]_leaseVars
=============================================================================
