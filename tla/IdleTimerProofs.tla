--------------------------- MODULE IdleTimerProofs ---------------------------
(***************************************************************************)
(* Proofs about IdleTimer: the mutexes exclude each other's goroutines,    *)
(* and a connection that a caller holds is not closed for being idle.      *)
(*                                                                         *)
(* OnlyIdleExpires says nothing of the moments between Get and the end of  *)
(* its critical section, nor of those in Put, so it is not inductive.  It  *)
(* holds because a caller owns the connection from the step that takes it  *)
(* out of the list to the one that puts it back (Owned), because the timer *)
(* goroutine only closes what it found in the list, and because those who  *)
(* look at the list have the pool's mutex (MutexInv).                      *)
(***************************************************************************)
EXTENDS IdleTimer, TLAPS

\* The steps of close.
Closing == {"closeLock", "closeCheck", "closeStop", "closeEnd"}

\* Whoever closes under the pool's mutex has it still, and whoever has it is
\* neither at rest nor waiting for it; only a Get on its way out has the
\* connection to return; nobody has a place to go back to before it needs one.
MutexInv ==
  \A p \in Procs :
    /\ poolMutex = p => pc[p] \notin {"idle", "using", "putLock", "remove"}
    /\ pc[p] \in Closing /\ after[p] = "unlock" => poolMutex = p
    /\ after[p] = "using" => pc[p] \in {"getStop", "getClear", "unlock"}
    /\ pc[p] \in {"getStop", "getClear"} => after[p] = "using"
    /\ pc[p] \in {"idle", "using", "putLock", "remove"} => after[p] = "idle"
    /\ p \notin Callers =>
         after[p] # "using" /\ pc[p] \in {"idle", "remove", "unlock"} \cup Closing

\* A caller has the connection for itself: between Get and Put.
Owned(p) == pc[p] \in {"using", "putLock", "putArm"} \/ after[p] = "using"

\* No timer goroutine is closing the connection.
NotExpiring == \A e \in Expirers : pc[e] \in {"idle", "remove"}

\* A connection is in the list, or one caller's, or neither, and a timer goroutine
\* closes it only in the third case.  The timer of an owned one is armed no
\* longer than it takes Get to stop it.
OwnerInv ==
  /\ inPool => NotExpiring
  /\ \A p \in Callers : Owned(p) =>
       /\ ~inPool /\ NotExpiring /\ (timer => pc[p] = "getStop")
       /\ \A q \in Callers : Owned(q) => q = p

\* TypeOK in two parts: the types ...
Typed ==
  /\ pc \in [Procs -> Steps] /\ after \in [Procs -> {"idle", "unlock", "using"}]
  /\ inPool \in BOOLEAN /\ closed \in BOOLEAN /\ idleTimer \in BOOLEAN
  /\ timer \in BOOLEAN /\ crashed \in BOOLEAN

\* ... and who holds which mutex.
Held ==
  \A p \in Procs :
    /\ closedMutex = p <=> pc[p] \in {"closeCheck", "closeStop", "closeEnd"}
    /\ pc[p] \in {"look", "getStop", "getClear", "putArm", "unlock"} => poolMutex = p
    /\ poolMutex = p /\ pc[p] \in Closing => after[p] = "unlock"

\* The inductive invariant.
IInv == Typed /\ Held /\ MutexInv /\ OwnerInv

\* The two parts are TypeOK.
LEMMA PartsOfType == Typed /\ Held => TypeOK
BY DEF Typed, Held, TypeOK, Closing

\* One caller has dialed the connection, and everybody else is at rest.
LEMMA InvHolds == Init => IInv
<1> SUFFICES ASSUME Init PROVE IInv
    OBVIOUS
<1>1. PICK dialer \in Callers : pc = [p \in Procs |-> IF p = dialer THEN "using" ELSE "idle"]
  BY DEF Init
<1>2. dialer \in Procs /\ dialer \notin Expirers
  BY ProcsAssumption DEF Procs
<1>3. /\ \A p \in Procs : pc[p] = (IF p = dialer THEN "using" ELSE "idle") /\ after[p] = "idle"
      /\ ~inPool /\ ~timer /\ \A p \in Procs : poolMutex # p /\ closedMutex # p
  BY <1>1, ProcsAssumption DEF Init
<1>4. Typed
  BY <1>1 DEF Init, Typed, Steps
<1>5. Held /\ MutexInv
  BY <1>2, <1>3 DEF Held, MutexInv, Closing
<1>6. NotExpiring
  BY <1>2, <1>3 DEF NotExpiring, Procs
<1>7. \A p \in Callers : p # dialer => ~ Owned(p)
  BY <1>3 DEF Owned, Procs
<1>8. OwnerInv
  BY <1>3, <1>6, <1>7 DEF OwnerInv
<1> QED
  BY <1>4, <1>5, <1>8 DEF IInv

-----------------------------------------------------------------------------
(* Each step keeps the invariant.                                          *)

\* close takes and releases closedMutex, and goes back where it was called; so does
\* the end of a critical section of the pool.
LEMMA CloseKeepsInv ==
  ASSUME IInv, NEW p \in Procs, CloseLock(p) \/ CloseCheck(p) \/ CloseStop(p) \/ CloseEnd(p) \/ Unlock(p)
  PROVE  IInv'
<1> USE ProcsAssumption DEF IInv, Goto, Then, locks, conn, Procs, Closing, Steps
<1>1. CASE CloseLock(p)
  <2>1. Typed'
    BY <1>1 DEF CloseLock, Typed
  <2>2. Held'
    BY <1>1 DEF CloseLock, Typed, Held, MutexInv
  <2>3. MutexInv'
    BY <1>1 DEF CloseLock, Typed, Held, MutexInv
  <2>4. OwnerInv'
    BY <1>1 DEF CloseLock, Typed, Held, MutexInv, OwnerInv, Owned, NotExpiring
  <2> QED
    BY <2>1, <2>2, <2>3, <2>4
<1>2. CASE CloseCheck(p)
  <2>1. Typed'
    BY <1>2 DEF CloseCheck, Typed
  <2>2. Held'
    BY <1>2 DEF CloseCheck, Typed, Held, MutexInv
  <2>3. MutexInv'
    BY <1>2 DEF CloseCheck, Typed, Held, MutexInv
  <2>4. OwnerInv'
    BY <1>2 DEF CloseCheck, Typed, Held, MutexInv, OwnerInv, Owned, NotExpiring
  <2> QED
    BY <2>1, <2>2, <2>3, <2>4
<1>3. CASE CloseStop(p)
  <2>1. Typed'
    BY <1>3 DEF CloseStop, Typed
  <2>2. Held'
    BY <1>3 DEF CloseStop, Typed, Held, MutexInv
  <2>3. MutexInv'
    BY <1>3 DEF CloseStop, Typed, Held, MutexInv
  <2>4. OwnerInv'
    BY <1>3 DEF CloseStop, Typed, Held, MutexInv, OwnerInv, Owned, NotExpiring
  <2> QED
    BY <2>1, <2>2, <2>3, <2>4
<1>4. CASE CloseEnd(p)
  <2>1. Typed'
    BY <1>4 DEF CloseEnd, Typed
  <2>2. Held'
    BY <1>4 DEF CloseEnd, Typed, Held, MutexInv
  <2>3. MutexInv'
    BY <1>4 DEF CloseEnd, Typed, Held, MutexInv
  <2>4. OwnerInv'
    BY <1>4 DEF CloseEnd, Typed, Held, MutexInv, OwnerInv, Owned, NotExpiring
  <2> QED
    BY <2>1, <2>2, <2>3, <2>4
<1>5. CASE Unlock(p)
  <2>1. Typed'
    BY <1>5 DEF Unlock, Typed
  <2>2. Held'
    BY <1>5 DEF Unlock, Typed, Held, MutexInv
  <2>3. MutexInv'
    BY <1>5 DEF Unlock, Typed, Held, MutexInv
  <2>4. OwnerInv'
    BY <1>5 DEF Unlock, Typed, Held, MutexInv, OwnerInv, Owned, NotExpiring
  <2> QED
    BY <2>1, <2>2, <2>3, <2>4
<1> QED
  BY <1>1, <1>2, <1>3, <1>4, <1>5

\* The steps of Get: a caller owns what it takes out of the list.
LEMMA GetKeepsInv ==
  ASSUME IInv, NEW p \in Callers, GetLock(p) \/ Look(p) \/ GetStop(p) \/ GetClear(p)
  PROVE  IInv'
<1> USE ProcsAssumption DEF IInv, Goto, Then, locks, conn, Procs, Closing, Steps
<1>1. CASE GetLock(p)
  <2>1. Typed'
    BY <1>1 DEF GetLock, Typed
  <2>2. Held'
    BY <1>1 DEF GetLock, Typed, Held, MutexInv
  <2>3. MutexInv'
    BY <1>1 DEF GetLock, Typed, Held, MutexInv
  <2>4. OwnerInv'
    BY <1>1 DEF GetLock, Typed, Held, MutexInv, OwnerInv, Owned, NotExpiring
  <2> QED
    BY <2>1, <2>2, <2>3, <2>4
<1>2. CASE Look(p)
  <2>1. Typed'
    BY <1>2 DEF Look, Typed
  <2>2. Held'
    BY <1>2 DEF Look, Typed, Held, MutexInv
  <2>3. MutexInv'
    BY <1>2 DEF Look, Typed, Held, MutexInv
  <2>4. OwnerInv'
    BY <1>2 DEF Look, Typed, Held, MutexInv, OwnerInv, Owned, NotExpiring
  <2> QED
    BY <2>1, <2>2, <2>3, <2>4
<1>3. CASE GetStop(p)
  <2>1. Typed'
    BY <1>3 DEF GetStop, Typed
  <2>2. Held'
    BY <1>3 DEF GetStop, Typed, Held, MutexInv
  <2>3. MutexInv'
    BY <1>3 DEF GetStop, Typed, Held, MutexInv
  <2>4. OwnerInv'
    BY <1>3 DEF GetStop, Typed, Held, MutexInv, OwnerInv, Owned, NotExpiring
  <2> QED
    BY <2>1, <2>2, <2>3, <2>4
<1>4. CASE GetClear(p)
  <2>1. Typed'
    BY <1>4 DEF GetClear, Typed
  <2>2. Held'
    BY <1>4 DEF GetClear, Typed, Held, MutexInv
  <2>3. MutexInv'
    BY <1>4 DEF GetClear, Typed, Held, MutexInv
  <2>4. OwnerInv'
    BY <1>4 DEF GetClear, Typed, Held, MutexInv, OwnerInv, Owned, NotExpiring
  <2> QED
    BY <2>1, <2>2, <2>3, <2>4
<1> QED
  BY <1>1, <1>2, <1>3, <1>4

\* The end of the trip and the steps of Put: a caller closes the connection, or puts
\* it back and owns it no longer; or closes it for another one.
LEMMA PutKeepsInv ==
  ASSUME IInv, NEW p \in Callers, Drop(p) \/ Keep(p) \/ PutLock(p) \/ PutArm(p) \/ Evict(p)
  PROVE  IInv'
<1> USE ProcsAssumption DEF IInv, Goto, Then, locks, conn, Procs, Closing, Steps
<1>1. CASE Drop(p)
  <2>1. Typed'
    BY <1>1 DEF Drop, Typed
  <2>2. Held'
    BY <1>1 DEF Drop, Typed, Held, MutexInv
  <2>3. MutexInv'
    BY <1>1 DEF Drop, Typed, Held, MutexInv
  <2>4. OwnerInv'
    BY <1>1 DEF Drop, Typed, Held, MutexInv, OwnerInv, Owned, NotExpiring
  <2> QED
    BY <2>1, <2>2, <2>3, <2>4
<1>2. CASE Keep(p)
  <2>1. Typed'
    BY <1>2 DEF Keep, Typed
  <2>2. Held'
    BY <1>2 DEF Keep, Typed, Held, MutexInv
  <2>3. MutexInv'
    BY <1>2 DEF Keep, Typed, Held, MutexInv
  <2>4. OwnerInv'
    BY <1>2 DEF Keep, Typed, Held, MutexInv, OwnerInv, Owned, NotExpiring
  <2> QED
    BY <2>1, <2>2, <2>3, <2>4
<1>3. CASE PutLock(p)
  <2>1. Typed'
    BY <1>3 DEF PutLock, Typed
  <2>2. Held'
    BY <1>3 DEF PutLock, Typed, Held, MutexInv
  <2>3. MutexInv'
    BY <1>3 DEF PutLock, Typed, Held, MutexInv
  <2>4. OwnerInv'
    BY <1>3 DEF PutLock, Typed, Held, MutexInv, OwnerInv, Owned, NotExpiring
  <2> QED
    BY <2>1, <2>2, <2>3, <2>4
<1>4. CASE PutArm(p)
  <2>1. Typed'
    BY <1>4 DEF PutArm, Typed
  <2>2. Held'
    BY <1>4 DEF PutArm, Typed, Held, MutexInv
  <2>3. MutexInv'
    BY <1>4 DEF PutArm, Typed, Held, MutexInv
  <2>4. OwnerInv'
    BY <1>4 DEF PutArm, Typed, Held, MutexInv, OwnerInv, Owned, NotExpiring
  <2> QED
    BY <2>1, <2>2, <2>3, <2>4
<1>5. CASE Evict(p)
  <2>1. Typed'
    BY <1>5 DEF Evict, Typed
  <2>2. Held'
    BY <1>5 DEF Evict, Typed, Held, MutexInv
  <2>3. MutexInv'
    BY <1>5 DEF Evict, Typed, Held, MutexInv
  <2>4. OwnerInv'
    BY <1>5 DEF Evict, Typed, Held, MutexInv, OwnerInv, Owned, NotExpiring
  <2> QED
    BY <2>1, <2>2, <2>3, <2>4
<1> QED
  BY <1>1, <1>2, <1>3, <1>4, <1>5

\* A timer goroutine closes what it finds in the list, which nobody owns.
LEMMA ExpirerKeepsInv ==
  ASSUME IInv, NEW p \in Expirers, TimerFires(p) \/ Remove(p)
  PROVE  IInv'
<1> USE ProcsAssumption DEF IInv, Goto, Then, locks, conn, Procs, Closing, Steps
<1>1. CASE TimerFires(p)
  <2>1. Typed'
    BY <1>1 DEF TimerFires, Typed
  <2>2. Held'
    BY <1>1 DEF TimerFires, Typed, Held, MutexInv
  <2>3. MutexInv'
    BY <1>1 DEF TimerFires, Typed, Held, MutexInv
  <2>4. OwnerInv'
    BY <1>1 DEF TimerFires, Typed, Held, MutexInv, OwnerInv, Owned, NotExpiring
  <2> QED
    BY <2>1, <2>2, <2>3, <2>4
<1>2. CASE Remove(p)
  <2>1. Typed'
    BY <1>2 DEF Remove, Typed
  <2>2. Held'
    BY <1>2 DEF Remove, Typed, Held, MutexInv
  <2>3. MutexInv'
    BY <1>2 DEF Remove, Typed, Held, MutexInv
  <2>4. OwnerInv'
    BY <1>2 DEF Remove, Typed, Held, MutexInv, OwnerInv, Owned, NotExpiring
  <2> QED
    BY <2>1, <2>2, <2>3, <2>4
<1> QED
  BY <1>1, <1>2

\* A loop may close the connection at any time.
LEMMA BreakKeepsInv ==
  ASSUME IInv, NEW p \in Loops, Break(p)
  PROVE  IInv'
<1> USE ProcsAssumption DEF IInv, Goto, Then, locks, conn, Procs, Closing, Steps
<1>1. CASE Break(p)
  <2>1. Typed'
    BY <1>1 DEF Break, Typed
  <2>2. Held'
    BY <1>1 DEF Break, Typed, Held, MutexInv
  <2>3. MutexInv'
    BY <1>1 DEF Break, Typed, Held, MutexInv
  <2>4. OwnerInv'
    BY <1>1 DEF Break, Typed, Held, MutexInv, OwnerInv, Owned, NotExpiring
  <2> QED
    BY <2>1, <2>2, <2>3, <2>4
<1> QED
  BY <1>1

\* The invariant is inductive.
LEMMA InvStep == IInv /\ [Next]_vars => IInv'
<1>1. ASSUME IInv, UNCHANGED vars PROVE IInv'
  BY <1>1 DEF vars, IInv, Typed, Held, MutexInv, OwnerInv, Owned, NotExpiring
<1> QED
  BY <1>1, CloseKeepsInv, GetKeepsInv, PutKeepsInv, ExpirerKeepsInv, BreakKeepsInv
  DEF Next, Close, Get, Put

\* Each mutex is held exactly by the goroutine that is between its Lock and its
\* Unlock: no two goroutines are in the critical sections of ConnPool.mutex, or
\* of closedMutex, at a time.
THEOREM MutexesExclude == Spec => []TypeOK
<1>1. IInv => TypeOK
  BY PartsOfType DEF IInv
<1> QED
  BY <1>1, InvHolds, InvStep, PTL DEF Spec

\* Whatever the order in which the timer, the callers, the eviction and the
\* peer's close reach the two mutexes: the timer of a connection that a caller
\* holds is not armed, and its timer goroutine does not close it ("closed only
\* in the idle state", connpool.go:79).
THEOREM HeldNeverExpires == Spec => []OnlyIdleExpires
<1>1. IInv => OnlyIdleExpires
  BY PartsOfType DEF IInv, OwnerInv, Owned, NotExpiring, OnlyIdleExpires
<1> QED
  BY <1>1, InvHolds, InvStep, PTL DEF Spec
=============================================================================
