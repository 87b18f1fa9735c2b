------------------------------ MODULE IdleTimer ------------------------------
(***************************************************************************)
(* The idleTimer field of one pooled connection, and the two mutexes that  *)
(* the goroutines around it take: ConnPool.mutex in Get, Put and Remove    *)
(* (client/connpool.go), PersistConn.closedMutex in isClosed and close     *)
(* (client/persistconn.go).  ConnPool makes each of these one step; here   *)
(* every access of the field is a step of its own.                         *)
(*                                                                         *)
(*   a caller   gets the connection, makes a trip, puts it back or closes  *)
(*              it; or puts another connection and closes this one for it  *)
(*   an expirer the goroutine of the idle timer, closeWhenIdleTimeout: one *)
(*              for each time it fires, and an old one may still wait for  *)
(*              the pool's mutex when the timer fires again                *)
(*   a loop     readLoop or writeLoop, which closes it when the peer does  *)
(***************************************************************************)
EXTENDS FiniteSets

CONSTANTS
  Callers, Expirers, Loops,  \* the goroutines
  Nobody                     \* holds a mutex that is free

Procs == Callers \cup Expirers \cup Loops

ASSUME ProcsAssumption ==
  /\ Callers \cap Expirers = {} /\ Callers \cap Loops = {} /\ Expirers \cap Loops = {}
  /\ Nobody \notin Procs

VARIABLES
  pc,           \* where each goroutine is
  after,        \* where it goes when it is done with close or with the lock
  poolMutex,    \* who holds ConnPool.mutex
  closedMutex,  \* who holds PersistConn.closedMutex for writing
  inPool,       \* the connection is in its list
  closed,       \* closed is set
  idleTimer,    \* the field is not nil
  timer,        \* the timer it last pointed to: armed or not
  crashed       \* Stop was called on a nil timer, and the program has ended

vars == <<pc, after, poolMutex, closedMutex, inPool, closed, idleTimer, timer, crashed>>
locks == <<poolMutex, closedMutex>>
conn == <<inPool, closed, idleTimer, timer>>

\* A fresh connection, held by the caller that dialed it.
Init ==
  /\ \E dialer \in Callers : pc = [p \in Procs |-> IF p = dialer THEN "using" ELSE "idle"]
  /\ after = [p \in Procs |-> "idle"]
  /\ poolMutex = Nobody /\ closedMutex = Nobody
  /\ inPool = FALSE /\ closed = FALSE /\ idleTimer = FALSE /\ timer = FALSE
  /\ crashed = FALSE

Goto(p, from, to) == ~crashed /\ pc[p] = from /\ pc' = [pc EXCEPT ![p] = to]
Then(p, step) == after' = [after EXCEPT ![p] = step]

-----------------------------------------------------------------------------
(* close and closeLocked.                                                  *)

\* Fault: close takes the pool's mutex too, to touch idleTimer under it.
CloseLockBoth(p) ==
  /\ closedMutex = Nobody /\ poolMutex = Nobody
  /\ \/ closed /\ Goto(p, "closeLock", after[p]) /\ UNCHANGED <<closedMutex, closed>>
     \/ /\ ~closed /\ Goto(p, "closeLock", "closeCheck")
        /\ closedMutex' = p /\ closed' = TRUE
  /\ UNCHANGED <<after, poolMutex, inPool, idleTimer, timer, crashed>>

\* The first close keeps closedMutex to its end, a later one does nothing.
CloseLock(p) ==
  /\ closedMutex = Nobody
  /\ \/ closed /\ Goto(p, "closeLock", after[p]) /\ UNCHANGED <<closedMutex, closed>>
     \/ /\ ~closed /\ Goto(p, "closeLock", "closeCheck")
        /\ closedMutex' = p /\ closed' = TRUE
  /\ UNCHANGED <<after, poolMutex, inPool, idleTimer, timer, crashed>>

\* if pc.idleTimer != nil ...
CloseCheck(p) ==
  /\ Goto(p, "closeCheck", IF idleTimer THEN "closeStop" ELSE "closeEnd")
  /\ UNCHANGED <<after, locks, conn, crashed>>

\* ... pc.idleTimer.Stop(): the field may be read a second time, and may be
\* nil by then.
CloseStop(p) ==
  /\ Goto(p, "closeStop", "closeEnd")
  /\ \/ timer' = FALSE /\ UNCHANGED crashed
     \/ ~idleTimer /\ crashed' = TRUE /\ UNCHANGED timer
  /\ UNCHANGED <<after, locks, inPool, closed, idleTimer>>

\* conn.Close(), and the deferred Unlock.
CloseEnd(p) ==
  /\ Goto(p, "closeEnd", after[p]) /\ closedMutex' = Nobody
  /\ UNCHANGED <<after, poolMutex, conn, crashed>>

-----------------------------------------------------------------------------
(* The pool's operations.                                                  *)

Unlock(p) ==
  /\ Goto(p, "unlock", IF after[p] = "using" THEN "using" ELSE "idle")
  /\ poolMutex' = Nobody
  /\ Then(p, "idle")
  /\ UNCHANGED <<closedMutex, conn, crashed>>

\* Get locks the pool.
GetLock(p) ==
  /\ Goto(p, "idle", "look") /\ poolMutex = Nobody /\ poolMutex' = p
  /\ UNCHANGED <<after, closedMutex, conn, crashed>>

\* Get finds no connection, or one that is closed, too old, or good.  The list
\* keeps the first two unless Get finds a good one behind them.
Look(p) ==
  /\ \/ ~inPool /\ Goto(p, "look", "unlock") /\ UNCHANGED <<inPool, after>>
     \/ /\ inPool /\ closedMutex = Nobody
        /\ \/ /\ closed /\ Goto(p, "look", "unlock")
              /\ inPool' \in BOOLEAN /\ UNCHANGED after
           \/ /\ ~closed /\ Goto(p, "look", "closeLock")
              /\ Then(p, "unlock") /\ inPool' \in BOOLEAN
           \/ /\ ~closed /\ Goto(p, "look", "getStop")
              /\ inPool' = FALSE /\ Then(p, "using")
  /\ UNCHANGED <<locks, closed, idleTimer, timer, crashed>>

\* Get stops the timer ...
GetStop(p) ==
  /\ Goto(p, "getStop", "getClear")
  /\ timer' = FALSE
  /\ UNCHANGED <<after, locks, inPool, closed, idleTimer, crashed>>

\* ... and clears the field.
GetClear(p) ==
  /\ Goto(p, "getClear", "unlock")
  /\ idleTimer' = FALSE
  /\ UNCHANGED <<after, locks, inPool, closed, timer, crashed>>

\* roundTrip's deferred function: the trip failed, or isClosed says so.
Drop(p) ==
  /\ closedMutex = Nobody /\ Goto(p, "using", "closeLock")
  /\ UNCHANGED <<after, locks, conn, crashed>>

\* The trip succeeded and isClosed says no: putConn is called.
Keep(p) ==
  /\ closedMutex = Nobody /\ ~closed /\ Goto(p, "using", "putLock")
  /\ UNCHANGED <<after, locks, conn, crashed>>

PutLock(p) ==
  /\ poolMutex = Nobody /\ poolMutex' = p /\ Goto(p, "putLock", "putArm")
  /\ UNCHANGED <<after, closedMutex, conn, crashed>>

\* Put arms the timer, a new one if the field is nil, and appends.
PutArm(p) ==
  /\ Goto(p, "putArm", "unlock")
  /\ idleTimer' = TRUE /\ timer' = TRUE /\ inPool' = TRUE
  /\ UNCHANGED <<after, locks, closed, crashed>>

\* Put of another connection: this one is the oldest of a full list.
Evict(p) ==
  /\ poolMutex = Nobody /\ inPool /\ Goto(p, "idle", "closeLock")
  /\ poolMutex' = p /\ inPool' = FALSE /\ Then(p, "unlock")
  /\ UNCHANGED <<closedMutex, closed, idleTimer, timer, crashed>>

TimerFires(p) ==
  /\ timer /\ timer' = FALSE /\ Goto(p, "idle", "remove")
  /\ UNCHANGED <<after, locks, inPool, closed, idleTimer, crashed>>

\* Fault: the connection is closed whether or not it was in the pool.
RemoveBlindly(p) ==
  /\ poolMutex = Nobody /\ Goto(p, "remove", "closeLock")
  /\ inPool' = FALSE
  /\ UNCHANGED <<after, locks, closed, idleTimer, timer, crashed>>

\* closeWhenIdleTimeout goes on to close only what Remove found in the pool.
Remove(p) ==
  /\ poolMutex = Nobody
  /\ Goto(p, "remove", IF inPool THEN "closeLock" ELSE "idle")
  /\ inPool' = FALSE
  /\ UNCHANGED <<after, locks, closed, idleTimer, timer, crashed>>

\* The peer closes, or a read or write fails.
Break(p) ==
  /\ ~closed /\ Goto(p, "idle", "closeLock")
  /\ UNCHANGED <<after, locks, conn, crashed>>

Close(p) == CloseLock(p) \/ CloseCheck(p) \/ CloseStop(p) \/ CloseEnd(p)

Get(p) == GetLock(p) \/ Look(p) \/ GetStop(p) \/ GetClear(p)
Put(p) == Drop(p) \/ Keep(p) \/ PutLock(p) \/ PutArm(p)

Next ==
  \/ \E p \in Procs : Close(p) \/ Unlock(p)
  \/ \E p \in Callers : Get(p) \/ Put(p) \/ Evict(p)
  \/ \E p \in Expirers : TimerFires(p) \/ Remove(p)
  \/ \E p \in Loops : Break(p)

Spec == Init /\ [][Next]_vars

\* Whatever a goroutine does when it is not at rest.
Proceed(p) ==
  \/ Close(p) \/ Unlock(p)
  \/ p \in Callers /\ (Look(p) \/ GetStop(p) \/ GetClear(p) \/ Put(p))
  \/ p \in Expirers /\ Remove(p)

\* Goroutines run, and a Go mutex does not starve those that wait for it.
FairSpec == Spec /\ \A p \in Procs : SF_vars(Proceed(p))
-----------------------------------------------------------------------------
Steps == {"idle", "look", "getStop", "getClear", "using", "putLock", "putArm",
          "unlock", "remove", "closeLock", "closeCheck", "closeStop", "closeEnd"}

\* Each variable has its type, and each mutex is held exactly by the goroutine
\* whose step is between its Lock and its Unlock.
TypeOK ==
  /\ pc \in [Procs -> Steps] /\ after \in [Procs -> {"idle", "unlock", "using"}]
  /\ {inPool, closed, idleTimer, timer, crashed} \subseteq BOOLEAN
  /\ \A p \in Procs :
       /\ closedMutex = p <=> pc[p] \in {"closeCheck", "closeStop", "closeEnd"}
       /\ pc[p] \in {"look", "getStop", "getClear", "putArm", "unlock"} => poolMutex = p
       /\ poolMutex = p /\ pc[p] \in {"closeLock", "closeCheck", "closeStop", "closeEnd"} =>
            after[p] = "unlock"

\* "closed only in the idle state" (connpool.go:79): the timer of a connection
\* that a caller holds is not armed, and a timer goroutine that fired before
\* does not close it.  It is the two mutexes (TypeOK) that keep them apart.
OnlyIdleExpires ==
  /\ TypeOK
  /\ \A p \in Callers : pc[p] \in {"using", "putLock"} =>
       ~timer /\ \A e \in Expirers : pc[e] \in {"idle", "remove"}

\* Nobody waits for ever: closedMutex may be taken under the pool's mutex, and
\* never the other way round.
EverybodyReturns ==
  \A p \in Procs : (pc[p] # "idle") ~> (pc[p] \in {"idle", "using"} \/ crashed)

Accessing(p) ==
  pc[p] \in {"getStop", "getClear", "putArm", "closeCheck", "closeStop"}

\* "The following three variables are guarded by connPool.mutex"
\* (persistconn.go:30): no two goroutines access idleTimer at the same time.
TimerIsGuarded ==
  \A p, q \in Procs : Accessing(p) /\ Accessing(q) => p = q
=============================================================================
