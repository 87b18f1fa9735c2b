------------------------------ MODULE ConnPool ------------------------------
(***************************************************************************)
(* The client's pool of idle connections (client/connpool.go) together     *)
(* with everything that may touch a connection while it is pooled: the     *)
(* round trip that leases it, the idle timer that expires it, and the      *)
(* connection's own goroutines, which close it when the peer goes away.    *)
(*                                                                         *)
(* ConnPool.mutex makes Get, Put and Remove atomic, so each is one action. *)
(* A close takes PersistConn.closedMutex instead, so it interleaves with   *)
(* the pool operations.  The idle timer runs closeWhenIdleTimeout in a     *)
(* goroutine of its own, in three steps: the timer fires (TimerFire), the  *)
(* goroutine asks the pool to forget the connection (IdleRemove), and then *)
(* closes it (IdleClose).                                                  *)
(*                                                                         *)
(* Time is kept as the age of each idle period (now - idleAt), which       *)
(* saturates one tick past IdleTimeout: nothing in the code distinguishes  *)
(* older connections.  A key that is absent from the Go map and a key with *)
(* an empty list behave alike and are both <<>>.                           *)
(***************************************************************************)
EXTENDS Naturals, Sequences, FiniteSets

CONSTANTS
  Users,        \* round trips that may be in progress at the same time
  Conns,        \* every connection that may ever be dialed
  Keys,         \* connectKey values
  KeyOf,        \* KeyOf[c] is the address c is dialed to
  NoConn,       \* Go's nil *PersistConn
  MaxCapacity,  \* ConnPool.maxCapacityPerKey, 0 for unlimited
  IdleTimeout,  \* ConnPool.idleTimeout, in ticks
  MaxExpiring   \* bound: expirations of one connection waiting for the mutex

ASSUME PoolAssumption ==
  /\ KeyOf \in [Conns -> Keys]
  /\ NoConn \notin Conns /\ NoConn \notin Users
  /\ MaxCapacity \in Nat
  /\ IdleTimeout \in Nat \ {0}
  /\ MaxExpiring \in Nat \ {0}

VARIABLES
  pool,       \* pool[k]: the idle connections of key k, oldest first
  dialed,     \* connections that exist
  closed,     \* connections whose closed field is set
  reused,     \* connections whose reused field is set
  idleAge,    \* ticks since idleAt
  idleTimer,  \* the idleTimer field: nil, armed, or stopped/expired
  expiring,   \* closeWhenIdleTimeout goroutines that have not run Remove
  removed,    \* connections such a goroutine has removed and will close
  lease,      \* the connection a round trip holds
  phase       \* where that round trip is

poolVars == <<pool, dialed, closed, reused, idleAge, idleTimer, expiring,
              removed, lease, phase>>

TimerStates == {"nil", "armed", "stopped"}
Phases == {"idle", "using", "putting"}

\* The connections in the list of key k, and in any list.
Pooled(k) == {pool[k][i] : i \in DOMAIN pool[k]}
InPool(c) == c \in Pooled(KeyOf[c])
Leased(c) == \E u \in Users : lease[u] = c

\* idleAt is before now - idleTimeout.
TooOld(c) == idleAge[c] > IdleTimeout

\* closeLocked on each connection of S: the first close wins, and only that
\* one stops the idle timer.
CloseAll(S) == closed' = closed \cup S
StopTimers(S) ==
  [c \in Conns |-> IF c \in S \ closed /\ idleTimer[c] = "armed"
                     THEN "stopped" ELSE idleTimer[c]]

-----------------------------------------------------------------------------
PoolInit ==
  /\ pool = [k \in Keys |-> <<>>]
  /\ dialed = {} /\ closed = {} /\ reused = {} /\ removed = {}
  /\ idleAge = [c \in Conns |-> 0]
  /\ idleTimer = [c \in Conns |-> "nil"]
  /\ expiring = [c \in Conns |-> 0]
  /\ lease = [u \in Users |-> NoConn]
  /\ phase = [u \in Users |-> "idle"]

\* getConn: a fresh connection, held by the round trip that dialed it.
Dial(u, c) ==
  /\ phase[u] = "idle" /\ c \in Conns \ dialed
  /\ dialed' = dialed \cup {c}
  /\ lease' = [lease EXCEPT ![u] = c]
  /\ phase' = [phase EXCEPT ![u] = "using"]
  /\ UNCHANGED <<pool, closed, reused, idleAge, idleTimer, expiring, removed>>

\* Fault: Get does not ask isClosed.
UsableUnchecked(k) == {i \in DOMAIN pool[k] : ~TooOld(pool[k][i])}

\* Positions of pool[k] that Get would hand out.
Usable(k) ==
  {i \in DOMAIN pool[k] : pool[k][i] \notin closed /\ ~TooOld(pool[k][i])}

\* Get, scanning from the youngest end, reaches a usable connection: the
\* entries it passed are dropped, the ones still open among them closed.
GetHit(u, k) ==
  /\ phase[u] = "idle"
  /\ \E i \in Usable(k) :
       LET c == pool[k][i]
           skipped == {pool[k][j] : j \in i + 1 .. Len(pool[k])}
       IN /\ \A j \in Usable(k) : j <= i
          /\ pool' = [pool EXCEPT ![k] = SubSeq(@, 1, i - 1)]
          /\ CloseAll(skipped)
          /\ idleTimer' = [StopTimers(skipped) EXCEPT ![c] = "nil"]
          /\ idleAge' = [idleAge EXCEPT ![c] = 0]
          /\ lease' = [lease EXCEPT ![u] = c]
  /\ phase' = [phase EXCEPT ![u] = "using"]
  /\ UNCHANGED <<dialed, reused, expiring, removed>>

\* Get finds nothing usable.  It has closed every entry, but the shortened
\* list is never written back: the dead entries stay in the pool.
GetMiss(u, k) ==
  /\ phase[u] = "idle"
  /\ pool[k] # <<>> /\ Usable(k) = {}
  /\ CloseAll(Pooled(k))
  /\ idleTimer' = StopTimers(Pooled(k))
  /\ UNCHANGED <<pool, dialed, reused, idleAge, expiring, removed, lease, phase>>

\* roundTrip's deferred function: the trip succeeded and isClosed said no.
Return(u) ==
  /\ phase[u] = "using" /\ lease[u] \notin closed
  /\ phase' = [phase EXCEPT ![u] = "putting"]
  /\ UNCHANGED <<pool, dialed, closed, reused, idleAge, idleTimer, expiring,
                 removed, lease>>

\* Fault: Put compares with > instead of >=.
CutPointLate(L) ==
  IF MaxCapacity > 0 /\ Len(L) > MaxCapacity THEN Len(L) - MaxCapacity ELSE 0

\* How many of the oldest entries Put evicts to make room for one more.
CutPoint(L) ==
  IF MaxCapacity > 0 /\ Len(L) >= MaxCapacity
    THEN Len(L) - MaxCapacity + 1 ELSE 0

DropOldest(L, n) == SubSeq(L, n + 1, Len(L))

\* Fault: Put makes room without closing the connections it drops.
PutForgetsEvicted(u) ==
  /\ phase[u] = "putting"
  /\ LET c == lease[u]
         L == pool[KeyOf[c]]
     IN /\ pool' = [pool EXCEPT ![KeyOf[c]] =
                      Append(DropOldest(L, CutPoint(L)), c)]
        /\ idleTimer' = [idleTimer EXCEPT ![c] = "armed"]
        /\ idleAge' = [idleAge EXCEPT ![c] = 0]
        /\ reused' = reused \cup {c}
  /\ lease' = [lease EXCEPT ![u] = NoConn]
  /\ phase' = [phase EXCEPT ![u] = "idle"]
  /\ UNCHANGED <<dialed, closed, expiring, removed>>

\* Fault: Put starts the idle timer only the first time.
PutTimesOnce(u) ==
  /\ phase[u] = "putting"
  /\ LET c == lease[u]
         k == KeyOf[c]
         L == pool[k]
         evicted == {L[i] : i \in 1 .. CutPoint(L)}
     IN /\ pool' = [pool EXCEPT ![k] = Append(DropOldest(L, CutPoint(L)), c)]
        /\ CloseAll(evicted)
        /\ idleTimer' = [StopTimers(evicted) EXCEPT
                           ![c] = IF c \in reused THEN @ ELSE "armed"]
        /\ idleAge' = [idleAge EXCEPT ![c] = 0]
        /\ reused' = reused \cup {c}
  /\ lease' = [lease EXCEPT ![u] = NoConn]
  /\ phase' = [phase EXCEPT ![u] = "idle"]
  /\ UNCHANGED <<dialed, expiring, removed>>

\* putConn, which no longer looks at closed: the goroutines of the connection
\* may have closed it since Return.
Put(u) ==
  /\ phase[u] = "putting"
  /\ LET c == lease[u]
         k == KeyOf[c]
         L == pool[k]
         evicted == {L[i] : i \in 1 .. CutPoint(L)}
     IN /\ pool' = [pool EXCEPT ![k] = Append(DropOldest(L, CutPoint(L)), c)]
        /\ CloseAll(evicted)
        /\ idleTimer' = [StopTimers(evicted) EXCEPT ![c] = "armed"]
        /\ idleAge' = [idleAge EXCEPT ![c] = 0]
        /\ reused' = reused \cup {c}
  /\ lease' = [lease EXCEPT ![u] = NoConn]
  /\ phase' = [phase EXCEPT ![u] = "idle"]
  /\ UNCHANGED <<dialed, expiring, removed>>

\* roundTrip gives a connection up: the trip failed, or it is closed already.
Discard(u) ==
  /\ phase[u] = "using"
  /\ CloseAll({lease[u]})
  /\ idleTimer' = StopTimers({lease[u]})
  /\ lease' = [lease EXCEPT ![u] = NoConn]
  /\ phase' = [phase EXCEPT ![u] = "idle"]
  /\ UNCHANGED <<pool, dialed, reused, idleAge, expiring, removed>>

\* The connection's readLoop or writeLoop, or CloseTest, closes it, whoever
\* holds it.
Break(c) ==
  /\ c \in dialed \ closed
  /\ CloseAll({c})
  /\ idleTimer' = StopTimers({c})
  /\ UNCHANGED <<pool, dialed, reused, idleAge, expiring, removed, lease, phase>>

-----------------------------------------------------------------------------
\* Go's timer starts closeWhenIdleTimeout.
TimerFire(c) ==
  /\ idleTimer[c] = "armed" /\ idleAge[c] >= IdleTimeout
  /\ expiring[c] < MaxExpiring
  /\ idleTimer' = [idleTimer EXCEPT ![c] = "stopped"]
  /\ expiring' = [expiring EXCEPT ![c] = @ + 1]
  /\ UNCHANGED <<pool, dialed, closed, reused, idleAge, removed, lease, phase>>

\* The list L without its entry at position i.
Without(L, i) == SubSeq(L, 1, i - 1) \o SubSeq(L, i + 1, Len(L))

\* Fault: the timer goroutine closes the connection whether or not Remove
\* found it in the pool.
IdleRemoveBlindly(c) ==
  /\ expiring[c] > 0
  /\ expiring' = [expiring EXCEPT ![c] = @ - 1]
  /\ pool' = [pool EXCEPT ![KeyOf[c]] = SelectSeq(@, LAMBDA d : d # c)]
  /\ removed' = removed \cup {c}
  /\ UNCHANGED <<dialed, closed, reused, idleAge, idleTimer, lease, phase>>

\* closeWhenIdleTimeout gets the mutex: Remove takes the first matching entry
\* out, or finds that somebody holds the connection and gives up.
IdleRemove(c) ==
  /\ expiring[c] > 0
  /\ expiring' = [expiring EXCEPT ![c] = @ - 1]
  /\ \/ /\ \E i \in DOMAIN pool[KeyOf[c]] :
             /\ pool[KeyOf[c]][i] = c
             /\ \A j \in 1 .. i - 1 : pool[KeyOf[c]][j] # c
             /\ pool' = [pool EXCEPT ![KeyOf[c]] = Without(@, i)]
        /\ removed' = removed \cup {c}
     \/ /\ ~InPool(c)
        /\ UNCHANGED <<pool, removed>>
  /\ UNCHANGED <<dialed, closed, reused, idleAge, idleTimer, lease, phase>>

IdleClose(c) ==
  /\ c \in removed
  /\ removed' = removed \ {c}
  /\ CloseAll({c})
  /\ idleTimer' = StopTimers({c})
  /\ UNCHANGED <<pool, dialed, reused, idleAge, expiring, lease, phase>>

\* One tick of the clock, for every idle period that is being measured.
Tick ==
  /\ idleAge' = [c \in Conns |->
                   IF (InPool(c) \/ idleTimer[c] = "armed") /\ ~TooOld(c)
                     THEN idleAge[c] + 1 ELSE idleAge[c]]
  /\ UNCHANGED <<pool, dialed, closed, reused, idleTimer, expiring, removed,
                 lease, phase>>

\* What the connection and its timer do on their own.
Background ==
  \/ \E c \in Conns : Break(c) \/ TimerFire(c) \/ IdleRemove(c) \/ IdleClose(c)
  \/ Tick

PoolNext ==
  \/ \E u \in Users :
       \/ \E c \in Conns : Dial(u, c)
       \/ \E k \in Keys : GetHit(u, k) \/ GetMiss(u, k)
       \/ Return(u) \/ Put(u) \/ Discard(u)
  \/ Background

PoolSpec == PoolInit /\ [][PoolNext]_poolVars
-----------------------------------------------------------------------------
\* Every variable of the pool holds a value of its Go type.
TypeOK ==
  /\ pool \in [Keys -> Seq(dialed)]
  /\ dialed \subseteq Conns /\ closed \subseteq dialed /\ reused \subseteq dialed
  /\ removed \subseteq dialed
  /\ idleAge \in [Conns -> 0 .. IdleTimeout + 1]
  /\ idleTimer \in [Conns -> TimerStates]
  /\ expiring \in [Conns -> 0 .. MaxExpiring]
  /\ lease \in [Users -> dialed \cup {NoConn}]
  /\ phase \in [Users -> Phases]
  /\ \A u \in Users : phase[u] = "idle" <=> lease[u] = NoConn

\* A connection is never in two hands: in two places of the pool, with two
\* round trips, with a round trip and the pool, or about to be closed by its
\* idle timer while it is still leased or pooled (connpool.go, Get, Put and
\* closeWhenIdleTimeout).  The protocol has no request identifiers, so a
\* shared connection would deliver one caller's response to another.
Exclusive ==
  /\ \A k \in Keys : \A i, j \in DOMAIN pool[k] :
       pool[k][i] = pool[k][j] => i = j
  /\ \A k \in Keys : \A c \in Pooled(k) :
       KeyOf[c] = k /\ c \notin removed /\ ~Leased(c)
  /\ \A u, v \in Users : lease[u] = lease[v] /\ lease[u] # NoConn => u = v
  /\ \A u \in Users : lease[u] \notin removed

\* An open connection is always in somebody's hands: a round trip's, the
\* pool's, or those of the timer goroutine that will close it.  Get, Put,
\* Remove and the error paths of roundTrip never lose a socket.
NoLeak ==
  \A c \in dialed \ closed : Leased(c) \/ InPool(c) \/ c \in removed

\* An open idle connection always has an idle timer that will fire or has
\* fired, whatever the order of Put, close and a late expiration.
IdleIsTimed ==
  \A c \in dialed \ closed :
    InPool(c) => idleTimer[c] = "armed" \/ expiring[c] > 0

\* Get scans from the youngest entry and Put evicts from the oldest: both
\* rely on every list being ordered by idleAt and within maxCapacityPerKey.
OldestFirst ==
  \A k \in Keys :
    /\ \A i, j \in DOMAIN pool[k] :
         i < j => idleAge[pool[k][i]] >= idleAge[pool[k][j]]
    /\ MaxCapacity > 0 => Len(pool[k]) <= MaxCapacity

\* The pool keeps the promise of ConnLease.
Lease == INSTANCE ConnLease WITH
  Nobody <- NoConn,
  owner <- [c \in Conns |-> IF Leased(c) THEN CHOOSE u \in Users : lease[u] = c
                                        ELSE NoConn],
  idle <- {c \in Conns : InPool(c) /\ c \notin closed},
  open <- dialed \ closed

ImplementsLease == Lease!LeaseSpec
=============================================================================
